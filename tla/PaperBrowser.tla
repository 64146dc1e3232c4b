---------------------------- MODULE PaperBrowser ----------------------------
(***************************************************************************)
(* The home page, app/page.jsx, and its list of papers, PaperList.js: it   *)
(* shows what pallet-papermgmt stores or, after a search that found        *)
(* something, what the backend answered.                                   *)
(*                                                                         *)
(* The development server renders in React's strict mode, which runs the   *)
(* effect of useSubstrate twice when the page loads.  The clean-up between *)
(* the two sees no api yet, so that both connections stay, and each starts *)
(* a fetch when it is set.  Which cards are expanded is left out.          *)
(***************************************************************************)
EXTENDS Integers, FiniteSets

CONSTANTS
  Paper,        \* papers, as records of a title and what else they contain
  Uploaded,     \* those of them that the backend may come to list
  Query,        \* what people search for
  Gap,          \* pairs of a query and a paper that have no similarity
  NoQuery,      \* stands for the query of a list that was not searched
  NoAnswer,     \* stands for the answer the backend has not given yet
  Connection    \* the runs of the effect of useSubstrate in one load

ASSUME PaperAssumption ==
  Uploaded \subseteq Paper /\ \A p \in Paper : DOMAIN p = {"title", "content"}
ASSUME QueryAssumption == NoQuery \notin Query /\ Gap \subseteq Query \X Paper

VARIABLES
  chain,        \* the papers in Papers on the node's best chain
  before,       \* the same before the last block, which may be retracted
  listed,       \* the papers in the backend's memory
  connection,   \* how far each connection and its fetch are
  answers,      \* the keys, or later the values, that each fetch was answered
  papers,       \* papers of the page
  requests,     \* searches that are under way, with the backend's answer
  results,      \* searchResults, with the query they are for
  listError,    \* whether error of the list is set
  crashed,      \* whether rendering has thrown an exception
  asked,        \* history: what was searched for last
  kept,         \* history: titles on the chain ever since the page was loaded
  seen          \* history: papers on the chain at some time since then

chainVars == << chain, before, kept, seen >>
fetchVars == << connection, answers, papers >>
listVars  == << requests, results, listError, crashed, asked >>
vars == << chainVars, listed, fetchVars, listVars >>

Titles(set) == {p.title : p \in set}

(* The list is mounted while there is an api and no error.                 *)
Visible ==
  /\ ~ crashed
  /\ \E c \in Connection : connection[c] \in {"fetching", "has keys", "has values", "done"}
  /\ \A c \in Connection : connection[c] \notin {"failed", "fetch failed"}

-----------------------------------------------------------------------------
(* Mutant of StorePaper: the key depends on all of the paper.              *)
StorePaperBeside(p) ==
  /\ p \notin chain
  /\ chain' = chain \cup {p}
  /\ before' = chain
  /\ seen' = seen \cup {p}
  /\ UNCHANGED << kept, listed, fetchVars, listVars >>

(* A block that stores a paper under the hash of its title.                *)
StorePaper(p) ==
  /\ p \notin chain
  /\ chain' = {other \in chain : other.title # p.title} \cup {p}
  /\ before' = chain
  /\ seen' = seen \cup {p}
  /\ UNCHANGED << kept, listed, fetchVars, listVars >>

(* The last block is retracted.                                            *)
Retract ==
  /\ chain # before
  /\ chain' = before
  /\ kept' = kept \cap Titles(before)
  /\ seen' = seen \cup before
  /\ UNCHANGED << before, listed, fetchVars, listVars >>

(* An upload is complete at the backend.                                   *)
ListPaper(p) ==
  /\ p \notin listed
  /\ listed' = listed \cup {p}
  /\ UNCHANGED << chainVars, fetchVars, listVars >>

(* The backend is restarted: requests fail, and its memory is lost.        *)
RestartBackend ==
  /\ listed' = {}
  /\ requests' = {}
  /\ listError' = (listError \/ requests # {})
  /\ UNCHANGED << chainVars, fetchVars, results, crashed, asked >>

-----------------------------------------------------------------------------
(* ApiPromise.create settles: setApi, which starts a fetch, or setError.   *)
Connect(c) ==
  /\ connection[c] = "connecting"
  /\ \E settled \in {"fetching", "failed"} :
       connection' = [connection EXCEPT ![c] = settled]
  /\ UNCHANGED << chainVars, listed, answers, papers, listVars >>

(* Mutant of ReadKeys: the keys before the last block are read.            *)
ReadKeysBefore(c) ==
  /\ connection[c] = "fetching"
  /\ connection' = [connection EXCEPT ![c] = "has keys"]
  /\ answers' = [answers EXCEPT ![c] = Titles(before)]
  /\ UNCHANGED << chainVars, listed, papers, listVars >>

(* papers.entries(): first all keys are read ...                           *)
ReadKeys(c) ==
  /\ connection[c] = "fetching"
  /\ connection' = [connection EXCEPT ![c] = "has keys"]
  /\ answers' = [answers EXCEPT ![c] = Titles(chain)]
  /\ UNCHANGED << chainVars, listed, papers, listVars >>

(* ... and later their values.                                             *)
ReadValues(c) ==
  /\ connection[c] = "has keys"
  /\ answers[c] \subseteq Titles(chain)
  /\ connection' = [connection EXCEPT ![c] = "has values"]
  /\ answers' = [answers EXCEPT ![c] = {p \in chain : p.title \in @}]
  /\ UNCHANGED << chainVars, listed, papers, listVars >>

(* The values arrive at the page: setPapers.                               *)
TakePapers(c) ==
  /\ connection[c] = "has values"
  /\ connection' = [connection EXCEPT ![c] = "done"]
  /\ papers' = answers[c]
  /\ answers' = [answers EXCEPT ![c] = {}]
  /\ UNCHANGED << chainVars, listed, listVars >>

(* The catch block of fetchPapers: a query was rejected, or one of the     *)
(* keys had no value any more, and value.toHuman() was null.               *)
FetchFails(c) ==
  /\ connection[c] \in {"fetching", "has keys", "has values"}
  /\ connection' = [connection EXCEPT ![c] = "fetch failed"]
  /\ answers' = [answers EXCEPT ![c] = {}]
  /\ UNCHANGED << chainVars, listed, papers, listVars >>

-----------------------------------------------------------------------------
(* Mutant of Search: the button is not disabled during a search.           *)
SearchAgain(q) ==
  /\ Visible
  /\ requests' = requests \cup {[query |-> q, answer |-> NoAnswer]}
  /\ asked' = q
  /\ UNCHANGED << chainVars, listed, fetchVars, results, listError, crashed >>

(* handleSearch, up to its await.                                          *)
Search(q) ==
  /\ Visible
  /\ requests = {}
  /\ requests' = {[query |-> q, answer |-> NoAnswer]}
  /\ asked' = q
  /\ UNCHANGED << chainVars, listed, fetchVars, results, listError, crashed >>

(* The backend ranks what it has listed.                                   *)
RankPapers(r) ==
  /\ r.answer = NoAnswer
  /\ requests' = (requests \ {r}) \cup {[r EXCEPT !.answer = listed]}
  /\ UNCHANGED << chainVars, listed, fetchVars, results, listError, crashed, asked >>

(* The answer arrives and is rendered: a similarity that was NaN is null   *)
(* now, and has no toFixed.                                                *)
SearchReturns(r) ==
  /\ r.answer # NoAnswer
  /\ requests' = requests \ {r}
  /\ results' = r
  /\ crashed' = (crashed \/ (Visible /\ \E p \in r.answer : << r.query, p >> \in Gap))
  /\ UNCHANGED << chainVars, listed, fetchVars, listError, asked >>

(* The catch block of handleSearch.  No result is removed.                 *)
SearchFails(r) ==
  /\ requests' = requests \ {r}
  /\ listError' = TRUE
  /\ UNCHANGED << chainVars, listed, fetchVars, results, crashed, asked >>

(* What the list shows.                                                    *)
DisplayPapers == IF results.answer # {} THEN results.answer ELSE papers

FreshPage ==
  /\ connection' = [c \in Connection |-> "connecting"]
  /\ answers' = [c \in Connection |-> {}]
  /\ papers' = {}
  /\ requests' = {} /\ results' = [query |-> NoQuery, answer |-> {}]
  /\ listError' = FALSE /\ crashed' = FALSE /\ asked' = NoQuery

(* The page is loaded anew, or somebody comes back to it.                  *)
Reload ==
  /\ FreshPage
  /\ kept' = Titles(chain) /\ seen' = chain
  /\ UNCHANGED << chain, before, listed >>

Init ==
  /\ chain = {} /\ before = {} /\ listed = {}
  /\ connection = [c \in Connection |-> "connecting"]
  /\ answers = [c \in Connection |-> {}]
  /\ papers = {}
  /\ requests = {} /\ results = [query |-> NoQuery, answer |-> {}]
  /\ listError = FALSE /\ crashed = FALSE /\ asked = NoQuery
  /\ kept = {} /\ seen = {}

Next ==
  \/ Retract \/ RestartBackend \/ Reload
  \/ \E p \in Paper : StorePaper(p)
  \/ \E p \in Uploaded : ListPaper(p)
  \/ \E c \in Connection : Connect(c) \/ ReadKeys(c) \/ ReadValues(c)
                             \/ TakePapers(c) \/ FetchFails(c)
  \/ \E q \in Query : Search(q)
  \/ \E r \in requests : RankPapers(r) \/ SearchReturns(r) \/ SearchFails(r)

Spec == Init /\ [][Next]_vars

-----------------------------------------------------------------------------
Request == [query : Query, answer : (SUBSET Paper) \cup {NoAnswer}]

(* At most one search is under way, and no two papers of a title are       *)
(* stored or shown (page.jsx:14, PaperList.js:79-83).                      *)
TypeOK ==
  /\ \A set \in {chain, before, papers} :
       set \subseteq Paper /\ Cardinality(Titles(set)) = Cardinality(set)
  /\ listed \subseteq Paper
  /\ connection \in [Connection -> {"connecting", "failed", "fetching", "has keys",
                                    "has values", "done", "fetch failed"}]
  /\ answers \in [Connection -> (SUBSET Titles(Paper)) \cup (SUBSET Paper)]
  /\ requests \subseteq Request /\ Cardinality(requests) <= 1
  /\ results.query \in Query \cup {NoQuery} /\ results.answer \subseteq Paper
  /\ listError \in BOOLEAN /\ crashed \in BOOLEAN /\ asked \in Query \cup {NoQuery}

(* Once the page shows papers of the chain, it shows each title that has   *)
(* been on the chain since the page was loaded, and nothing that was not   *)
(* there at some time since then, whichever of its two fetches returns     *)
(* first and whatever blocks come and go between the reading of keys and   *)
(* of values (page.jsx:34, 65, 74).                                        *)
FetchShowsStored ==
  Visible /\ (\E c \in Connection : connection[c] = "done") =>
    /\ kept \subseteq Titles(papers)
    /\ papers \subseteq seen

(* When no search is under way, what is shown as found was found by the    *)
(* last search, never by an earlier one that was answered later, unless a  *)
(* search has failed (PaperList.js:93-103, 127).                           *)
ResultsOfLastSearch ==
  Visible /\ requests = {} /\ ~ listError =>
    results.query = asked

=============================================================================
