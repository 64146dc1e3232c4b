-------------------------- MODULE PaperBrowserProofs --------------------------
(***************************************************************************)
(* What the home page shows, for any papers, queries and number of         *)
(* connections, and without end.                                           *)
(***************************************************************************)
EXTENDS PaperBrowser, FiniteSetTheorems, TLAPS

Progress == {"connecting", "failed", "fetching", "has keys", "has values", "done",
             "fetch failed"}

(* No two papers of a set have the same title.                             *)
OneOfEachTitle(set) ==
  /\ set \subseteq Paper /\ IsFiniteSet(set)
  /\ \A p, q \in set : p.title = q.title => p = q

(* The node's storage, and what was in it since the page was loaded.       *)
Storage ==
  /\ OneOfEachTitle(chain) /\ OneOfEachTitle(before) /\ listed \subseteq Paper
  /\ kept \subseteq Titles(chain) /\ chain \subseteq seen

(* The answers that fetches have, and what the page took from the last.    *)
Fetches ==
  /\ connection \in [Connection -> Progress]
  /\ answers \in [Connection -> SUBSET (Titles(Paper) \cup Paper)]
  /\ \A c \in Connection :
       /\ connection[c] \notin {"has keys", "has values"} => answers[c] = {}
       /\ connection[c] = "has keys" => kept \subseteq answers[c]
                                        /\ answers[c] \subseteq Titles(Paper)
       /\ connection[c] = "has values" => /\ OneOfEachTitle(answers[c])
                                          /\ kept \subseteq Titles(answers[c])
                                          /\ answers[c] \subseteq seen
  /\ OneOfEachTitle(papers)
  /\ (\E c \in Connection : connection[c] = "done") =>
       kept \subseteq Titles(papers) /\ papers \subseteq seen

(* One search at a time, for what was asked for last.                      *)
Searches ==
  /\ requests \subseteq Request
  /\ \A r, s \in requests : r = s
  /\ \A r \in requests : r.query = asked
  /\ results.query \in Query \cup {NoQuery} /\ results.answer \subseteq Paper
  /\ listError \in BOOLEAN /\ crashed \in BOOLEAN /\ asked \in Query \cup {NoQuery}
  /\ requests = {} /\ ~ listError => results.query = asked

IInv == Storage /\ Fetches /\ Searches


(* What the first part of it looks at.                                     *)
storageVars == << chain, before, listed, kept, seen >>

-----------------------------------------------------------------------------
LEMMA TitleCount ==
  ASSUME NEW set, OneOfEachTitle(set)
  PROVE  Cardinality(Titles(set)) = Cardinality(set)
<1> DEFINE title == [p \in set |-> p.title]
<1>1. title \in [set -> Titles(set)]
  BY DEF Titles
<1>2. title \in Injection(set, Titles(set))
  BY <1>1 DEF OneOfEachTitle, Injection, IsInjective
<1>3. title \in Surjection(set, Titles(set))
  BY <1>1 DEF Titles, Surjection
<1>4. ExistsBijection(set, Titles(set))
  BY <1>2, <1>3 DEF Bijection, ExistsBijection
<1> QED
  BY <1>4, FS_Bijection DEF OneOfEachTitle

LEMMA TitlesOfPart ==
  ASSUME NEW set, OneOfEachTitle(set), NEW part \in SUBSET set
  PROVE  OneOfEachTitle(part)
BY FS_Subset DEF OneOfEachTitle

LEMMA NoTitles == OneOfEachTitle({})
BY FS_EmptySet DEF OneOfEachTitle

-----------------------------------------------------------------------------
LEMMA InitInvariant == Init => IInv
<1> SUFFICES ASSUME Init PROVE IInv
  OBVIOUS
<1>1. Storage
  BY NoTitles DEF Init, Storage, Titles
<1>2. Fetches
  BY NoTitles DEF Init, Fetches, Progress
<1>3. Searches
  BY DEF Init, Searches, Request
<1> QED
  BY <1>1, <1>2, <1>3 DEF IInv

LEMMA SameStorage == Storage /\ UNCHANGED storageVars => Storage'
BY DEF Storage, storageVars, OneOfEachTitle, Titles

LEMMA SameSearches == Searches /\ UNCHANGED listVars => Searches'
BY DEF Searches, listVars

(* Blocks come and go under a fetch: fewer titles have been there all the  *)
(* time, and more papers have been there.                                  *)
LEMMA ChainMoves ==
  ASSUME Fetches, UNCHANGED fetchVars, kept' \subseteq kept, seen \subseteq seen'
  PROVE  Fetches'
BY DEF Fetches, fetchVars, OneOfEachTitle, Titles

-----------------------------------------------------------------------------
LEMMA StoreStep ==
  ASSUME IInv, NEW p \in Paper, StorePaper(p)
  PROVE  IInv'
<1>1. Storage'
  <2>1. IsFiniteSet({other \in chain : other.title # p.title})
    BY FS_Subset DEF IInv, Storage, OneOfEachTitle
  <2>2. IsFiniteSet(chain')
    BY <2>1, FS_AddElement DEF StorePaper
  <2>3. OneOfEachTitle(chain')
    BY <2>2 DEF StorePaper, IInv, Storage, OneOfEachTitle
  <2>4. OneOfEachTitle(before')
    BY DEF StorePaper, IInv, Storage, OneOfEachTitle
  <2>5. \A t \in Titles(chain) : t \in Titles(chain')
    BY DEF StorePaper, Titles
  <2>6. kept' \subseteq Titles(chain') /\ chain' \subseteq seen' /\ listed' \subseteq Paper
    BY <2>5 DEF StorePaper, IInv, Storage
  <2> QED
    BY <2>3, <2>4, <2>6 DEF Storage, OneOfEachTitle, Titles
<1>2. Fetches'
  BY ChainMoves DEF StorePaper, IInv
<1>3. Searches'
  BY SameSearches DEF StorePaper, IInv
<1> QED
  BY <1>1, <1>2, <1>3 DEF IInv

LEMMA RetractStep ==
  ASSUME IInv, Retract
  PROVE  IInv'
<1>1. Storage'
  BY DEF Retract, IInv, Storage, OneOfEachTitle, Titles
<1>2. Fetches'
  BY ChainMoves DEF Retract, IInv
<1>3. Searches'
  BY SameSearches DEF Retract, IInv
<1> QED
  BY <1>1, <1>2, <1>3 DEF IInv

LEMMA BackendSteps ==
  ASSUME IInv, (\E p \in Uploaded : ListPaper(p)) \/ RestartBackend
  PROVE  IInv'
<1>1. UNCHANGED << chain, before, kept, seen, connection, answers, papers >>
  BY DEF ListPaper, RestartBackend, chainVars, fetchVars
<1>2. listed' \subseteq Paper
  BY PaperAssumption DEF ListPaper, RestartBackend, IInv, Storage
<1>3. Storage'
  BY <1>1, <1>2 DEF IInv, Storage, OneOfEachTitle, Titles
<1>4. Fetches'
  BY <1>1, ChainMoves DEF IInv, fetchVars
<1>5. Searches'
  <2>1. CASE \E p \in Uploaded : ListPaper(p)
    BY <2>1, SameSearches DEF ListPaper, IInv
  <2>2. CASE RestartBackend
    BY <2>2 DEF RestartBackend, IInv, Searches, Request
  <2> QED
    BY <2>1, <2>2
<1> QED
  BY <1>3, <1>4, <1>5 DEF IInv

(* A step of a fetch, with what it leaves as the answer of its own and as  *)
(* the papers of the page.                                                 *)
LEMMA FetchMoves ==
  ASSUME IInv, NEW c \in Connection, NEW settled \in Progress, NEW answer,
         connection' = [connection EXCEPT ![c] = settled],
         answers' = [answers EXCEPT ![c] = answer],
         UNCHANGED << chainVars, listed, listVars >>,
         answer \subseteq Titles(Paper) \cup Paper,
         settled \notin {"has keys", "has values"} => answer = {},
         settled = "has keys" => kept \subseteq answer /\ answer \subseteq Titles(Paper),
         settled = "has values" => /\ OneOfEachTitle(answer)
                                   /\ kept \subseteq Titles(answer)
                                   /\ answer \subseteq seen,
         OneOfEachTitle(papers'),
         settled = "done" => kept \subseteq Titles(papers') /\ papers' \subseteq seen,
         settled # "done" => papers' = papers
  PROVE  IInv'
<1>1. UNCHANGED << chain, before, kept, seen >>
  BY DEF chainVars
<1>2. Storage'
  BY <1>1, SameStorage DEF IInv, storageVars
<1>3. Searches'
  BY SameSearches DEF IInv
<1>4. /\ connection' \in [Connection -> Progress]
      /\ answers' \in [Connection -> SUBSET (Titles(Paper) \cup Paper)]
  BY DEF IInv, Fetches
<1>5. ASSUME NEW d \in Connection
      PROVE  /\ connection'[d] \notin {"has keys", "has values"} => answers'[d] = {}
             /\ connection'[d] = "has keys" => kept \subseteq answers'[d]
                                               /\ answers'[d] \subseteq Titles(Paper)
             /\ connection'[d] = "has values" => /\ OneOfEachTitle(answers'[d])
                                                 /\ kept \subseteq Titles(answers'[d])
                                                 /\ answers'[d] \subseteq seen
  <2>1. CASE d = c
    BY <2>1 DEF IInv, Fetches
  <2>2. CASE d # c
    <3>1. connection'[d] = connection[d] /\ answers'[d] = answers[d]
      BY <2>2 DEF IInv, Fetches
    <3> QED
      BY <3>1 DEF IInv, Fetches
  <2> QED
    BY <2>1, <2>2
<1>6. (\E d \in Connection : connection'[d] = "done") =>
        kept \subseteq Titles(papers') /\ papers' \subseteq seen
  BY DEF IInv, Fetches
<1>7. Fetches'
  BY <1>1, <1>4, <1>5, <1>6 DEF Fetches, OneOfEachTitle, Titles
<1> QED
  BY <1>2, <1>3, <1>7 DEF IInv

LEMMA FetchSteps ==
  ASSUME IInv, NEW c \in Connection,
         Connect(c) \/ ReadKeys(c) \/ ReadValues(c) \/ TakePapers(c) \/ FetchFails(c)
  PROVE  IInv'
<1>0. /\ OneOfEachTitle(papers) /\ OneOfEachTitle(chain) /\ kept \subseteq Titles(chain)
      /\ chain \subseteq seen /\ Titles(chain) \subseteq Titles(Paper)
  BY DEF IInv, Storage, Fetches, OneOfEachTitle, Titles
<1>1. CASE Connect(c)
  <2>1. PICK settled \in {"fetching", "failed"} :
          connection' = [connection EXCEPT ![c] = settled]
    BY <1>1 DEF Connect
  <2>2. answers' = [answers EXCEPT ![c] = {}]
    BY <1>1 DEF Connect, IInv, Fetches
  <2>3. papers' = papers /\ UNCHANGED << chainVars, listed, listVars >>
    BY <1>1 DEF Connect
  <2> QED
    BY <1>0, <2>1, <2>2, <2>3, FetchMoves DEF Progress
<1>2. CASE ReadKeys(c)
  <2>1. papers' = papers
    BY <1>2 DEF ReadKeys
  <2> QED
    BY <1>0, <1>2, <2>1, FetchMoves DEF ReadKeys, Progress
<1>3. CASE ReadValues(c)
  <2> DEFINE values == {p \in chain : p.title \in answers[c]}
  <2>1. OneOfEachTitle(values)
    BY <1>0, TitlesOfPart
  <2>2. kept \subseteq answers[c] /\ answers[c] \subseteq Titles(chain)
    BY <1>3 DEF ReadValues, IInv, Fetches
  <2>3. kept \subseteq Titles(values)
    BY <2>2 DEF Titles
  <2>4. /\ connection' = [connection EXCEPT ![c] = "has values"]
        /\ answers' = [answers EXCEPT ![c] = values]
        /\ papers' = papers /\ UNCHANGED << chainVars, listed, listVars >>
    BY <1>3 DEF ReadValues, IInv, Fetches
  <2>5. values \subseteq seen /\ values \subseteq Paper
    BY <1>0, <2>1 DEF OneOfEachTitle
  <2> HIDE DEF values
  <2> QED
    BY <1>0, <2>1, <2>3, <2>4, <2>5, FetchMoves DEF Progress
<1>4. CASE TakePapers(c)
  BY <1>4, FetchMoves DEF TakePapers, Progress, IInv, Fetches
<1>5. CASE FetchFails(c)
  <2>1. /\ connection' = [connection EXCEPT ![c] = "fetch failed"]
        /\ answers' = [answers EXCEPT ![c] = {}]
        /\ papers' = papers /\ UNCHANGED << chainVars, listed, listVars >>
    BY <1>5 DEF FetchFails
  <2>2. "fetch failed" \in Progress /\ {} \subseteq Titles(Paper) \cup Paper
    BY DEF Progress
  <2> QED
    BY <1>0, <2>1, <2>2, FetchMoves
<1> QED
  BY <1>1, <1>2, <1>3, <1>4, <1>5

(* Searches change nothing but themselves.                                 *)
LEMMA SearchMoves ==
  ASSUME IInv, Searches', UNCHANGED << chainVars, listed, fetchVars >>
  PROVE  IInv'
<1>1. Storage'
  BY SameStorage DEF IInv, storageVars, chainVars
<1>2. Fetches'
  BY ChainMoves DEF IInv, chainVars
<1> QED
  BY <1>1, <1>2 DEF IInv

LEMMA SearchSteps ==
  ASSUME IInv,
         \/ \E q \in Query : Search(q)
         \/ \E r \in requests : RankPapers(r) \/ SearchReturns(r) \/ SearchFails(r)
  PROVE  IInv'
<1>1. ASSUME NEW q \in Query, Search(q) PROVE IInv'
  <2> DEFINE r == [query |-> q, answer |-> NoAnswer]
  <2>1. r \in Request /\ r.query = q
    BY DEF Request
  <2>2. requests' = {r} /\ asked' = q /\ UNCHANGED << results, listError, crashed >>
    BY <1>1 DEF Search
  <2> HIDE DEF r
  <2>3. Searches'
    BY <2>1, <2>2 DEF IInv, Searches
  <2> QED
    BY <1>1, <2>3, SearchMoves DEF Search
<1>2. ASSUME NEW r \in requests, RankPapers(r) PROVE IInv'
  <2>1. requests = {r} /\ r \in Request /\ r.query = asked
    BY DEF IInv, Searches
  <2>2. requests' = {[r EXCEPT !.answer = listed]}
    BY <1>2, <2>1 DEF RankPapers
  <2>3. [r EXCEPT !.answer = listed] \in Request /\ [r EXCEPT !.answer = listed].query = asked
    BY <2>1 DEF Request, IInv, Storage
  <2>4. Searches'
    BY <1>2, <2>2, <2>3 DEF RankPapers, IInv, Searches
  <2> QED
    BY <1>2, <2>4, SearchMoves DEF RankPapers
<1>3. ASSUME NEW r \in requests, SearchReturns(r) PROVE IInv'
  <2>1. requests = {r} /\ r \in Request /\ r.query = asked
    BY DEF IInv, Searches
  <2>2. requests' = {} /\ results' = r /\ r.answer # NoAnswer
    BY <1>3, <2>1 DEF SearchReturns
  <2>6. r.query \in Query /\ r.answer \subseteq Paper
    BY <2>1, <2>2 DEF Request
  <2>3. crashed' \in BOOLEAN
    BY <1>3 DEF SearchReturns, IInv, Searches
  <2>4. UNCHANGED << listError, asked >>
    BY <1>3 DEF SearchReturns
  <2>5. Searches'
    BY <2>1, <2>2, <2>3, <2>4, <2>6 DEF IInv, Searches
  <2> QED
    BY <1>3, <2>5, SearchMoves DEF SearchReturns
<1>4. ASSUME NEW r \in requests, SearchFails(r) PROVE IInv'
  <2>1. Searches'
    BY <1>4 DEF SearchFails, IInv, Searches
  <2> QED
    BY <1>4, <2>1, SearchMoves DEF SearchFails
<1> QED
  BY <1>1, <1>2, <1>3, <1>4

LEMMA ReloadStep ==
  ASSUME IInv, Reload
  PROVE  IInv'
<1>1. Storage'
  BY DEF Reload, IInv, Storage, OneOfEachTitle, Titles
<1>2. Fetches'
  BY NoTitles DEF Reload, FreshPage, Fetches, Progress, OneOfEachTitle
<1>3. Searches'
  BY DEF Reload, FreshPage, Searches, Request
<1> QED
  BY <1>1, <1>2, <1>3 DEF IInv

LEMMA StepInvariant == IInv /\ [Next]_vars => IInv'
<1> SUFFICES ASSUME IInv, [Next]_vars PROVE IInv'
  OBVIOUS
<1>1. CASE Retract
  BY <1>1, RetractStep
<1>2. CASE RestartBackend \/ \E p \in Uploaded : ListPaper(p)
  BY <1>2, BackendSteps
<1>3. CASE Reload
  BY <1>3, ReloadStep
<1>4. CASE \E p \in Paper : StorePaper(p)
  BY <1>4, StoreStep
<1>5. CASE \E c \in Connection : Connect(c) \/ ReadKeys(c) \/ ReadValues(c)
                                  \/ TakePapers(c) \/ FetchFails(c)
  BY <1>5, FetchSteps
<1>6. CASE \/ \E q \in Query : Search(q)
           \/ \E r \in requests : RankPapers(r) \/ SearchReturns(r) \/ SearchFails(r)
  BY <1>6, SearchSteps
<1>7. CASE UNCHANGED vars
  BY <1>7, SearchMoves, SameSearches DEF vars, IInv
<1> QED
  BY <1>1, <1>2, <1>3, <1>4, <1>5, <1>6, <1>7 DEF Next

-----------------------------------------------------------------------------
(* Storage, the fetches and the searches of the page keep to each other.   *)
THEOREM Invariant == Spec => []IInv
<1>1. Init => IInv
  BY InitInvariant
<1>2. IInv /\ [Next]_vars => IInv'
  BY StepInvariant
<1> QED
  BY <1>1, <1>2, PTL DEF Spec

(* At most one search is under way, and no two papers of a title are       *)
(* stored or shown, for any papers (page.jsx:14, PaperList.js:79-83).      *)
THEOREM TypeCorrect == Spec => []TypeOK
<1>1. IInv => TypeOK
  <2> SUFFICES ASSUME IInv PROVE TypeOK
    OBVIOUS
  <2>1. \A set \in {chain, before, papers} : OneOfEachTitle(set)
    BY DEF IInv, Storage, Fetches
  <2>2. \A set \in {chain, before, papers} :
          set \subseteq Paper /\ Cardinality(Titles(set)) = Cardinality(set)
    BY <2>1, TitleCount DEF OneOfEachTitle
  <2>3. answers \in [Connection -> (SUBSET Titles(Paper)) \cup (SUBSET Paper)]
    <3>1. ASSUME NEW c \in Connection
          PROVE  answers[c] \in (SUBSET Titles(Paper)) \cup (SUBSET Paper)
      <4>1. connection[c] \in Progress
        BY DEF IInv, Fetches
      <4>2. answers[c] \subseteq Titles(Paper) \/ answers[c] \subseteq Paper
        BY <4>1 DEF IInv, Fetches, OneOfEachTitle
      <4> QED
        BY <4>2
    <3>2. answers \in [Connection -> SUBSET (Titles(Paper) \cup Paper)]
      BY DEF IInv, Fetches
    <3> QED
      BY <3>1, <3>2
  <2>4. Cardinality(requests) <= 1
    <3>1. CASE requests = {}
      BY <3>1, FS_EmptySet
    <3>2. CASE requests # {}
      <4>1. PICK r \in requests : requests = {r}
        BY <3>2 DEF IInv, Searches
      <4> QED
        BY <4>1, FS_Singleton
    <3> QED
      BY <3>1, <3>2
  <2> QED
    BY <2>2, <2>3, <2>4 DEF TypeOK, IInv, Storage, Fetches, Searches, Progress
<1> QED
  BY <1>1, Invariant, PTL

(* Whichever fetch returns first, and whatever blocks come and go under    *)
(* it, the page shows all that was stored since it was loaded and nothing  *)
(* that never was (page.jsx:34, 65, 74).                                   *)
THEOREM PageShowsStored == Spec => []FetchShowsStored
<1>1. IInv => FetchShowsStored
  BY DEF IInv, Fetches, FetchShowsStored
<1> QED
  BY <1>1, Invariant, PTL

(* What is shown as found is the answer to the last search, unless one has *)
(* failed (PaperList.js:93-103, 127).                                      *)
THEOREM LastSearchShown == Spec => []ResultsOfLastSearch
<1>1. IInv => ResultsOfLastSearch
  BY DEF IInv, Searches, ResultsOfLastSearch
<1> QED
  BY <1>1, Invariant, PTL
===============================================================================
