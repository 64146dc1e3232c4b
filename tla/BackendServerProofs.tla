-------------------------- MODULE BackendServerProofs --------------------------
(***************************************************************************)
(* Proofs about backend/server.js.  BackendServer: for any number of       *)
(* uploads and searches, all interleavings, failures and restarts; only    *)
(* the integrity of papers needs that no two uploads share a millisecond.  *)
(* VectorCodec: which components of an embedding survive, and when a       *)
(* search has a similarity, for vectors of every length.                   *)
(***************************************************************************)
EXTENDS BackendServer, VectorCodec, SequenceTheorems, FiniteSetTheorems,
        WellFoundedInduction, TLAPS

(* The process: a request that waits belongs to the process that runs, and *)
(* the memory of a process goes with it.                                   *)
Process ==
  /\ clock >= 1
  /\ \A r \in Upload : upload[r].run <= starts
  /\ \A r \in Upload : upload[r].state \in Waiting => Running /\ upload[r].run = starts
  /\ \A q \in Query : search[q].state = "embedding" => Running
  /\ ~ Running => papers = << >>

(* Where the content of an upload is at IPFS.                              *)
Pinned ==
  \A r \in Upload : upload[r].state \in {"pinned", "unlinked"} => upload[r].url \in ipfs

IInv == TypeOK /\ Process /\ Pinned /\ PinnedBeforeListed /\ FilesAccountedFor /\ ListedIffAnswered

-----------------------------------------------------------------------------
(* The records of TypeOK, by name.                                         *)
State == {"unsent"} \cup Waiting \cup Settled
UploadRecord == [state : State, name : Nat, text : Content, url : Content, run : 0..MaxStarts]
SearchRecord == [state : {"unsent", "embedding", "failed", "answered", "dropped"},
                 hits : SUBSET Upload]
PaperRecord == [id : Upload, text : Content, url : Content]
Directory == disk \in [DOMAIN disk -> Content] /\ DOMAIN disk \subseteq 1..clock

Types ==
  /\ upload \in [Upload -> UploadRecord]
  /\ search \in [Query -> SearchRecord]
  /\ papers \in Seq(PaperRecord)
  /\ client \in BOOLEAN
  /\ boot \in {"login", "ready", "down"}
  /\ starts \in 1..MaxStarts
  /\ Directory
  /\ ipfs \subseteq Content
  /\ clock \in Nat

LEMMA SameTypes == TypeOK <=> Types
BY DEF TypeOK, Types, State, UploadRecord, SearchRecord, PaperRecord, Directory

LEMMA SameTypesNext == TypeOK' <=> Types'
BY DEF TypeOK, Types, State, UploadRecord, SearchRecord, PaperRecord, Directory

(* A request that goes on to another state.                                *)
LEMMA Going ==
  ASSUME upload \in [Upload -> UploadRecord], NEW r \in Upload, NEW s \in State, Goto(r, s)
  PROVE  /\ upload' \in [Upload -> UploadRecord]
         /\ upload'[r].state = s
         /\ \A q \in Upload : q # r => upload'[q] = upload[q]
         /\ \A q \in Upload : /\ upload'[q].name = upload[q].name
                              /\ upload'[q].text = upload[q].text
                              /\ upload'[q].url = upload[q].url
                              /\ upload'[q].run = upload[q].run
<1>1. upload' = [upload EXCEPT ![r] = [upload[r] EXCEPT !.state = s]]
  BY DEF Goto
<1>2. upload[r] \in UploadRecord
  OBVIOUS
<1> DEFINE new == [upload[r] EXCEPT !.state = s]
<1>3. /\ new \in UploadRecord /\ new.state = s
      /\ new.name = upload[r].name /\ new.text = upload[r].text
      /\ new.url = upload[r].url /\ new.run = upload[r].run
  BY <1>2 DEF UploadRecord
<1> HIDE DEF new
<1>4. upload' = [upload EXCEPT ![r] = new]
  BY <1>1 DEF new
<1>5. QED  BY <1>3, <1>4

-----------------------------------------------------------------------------
LEMMA InitInv == Init => IInv
<1> SUFFICES ASSUME Init  PROVE IInv
  OBVIOUS
<1>1. TypeOK
  <2>1. upload \in [Upload -> UploadRecord] /\ search \in [Query -> SearchRecord]
    <3>1. [state |-> "unsent", name |-> 0, text |-> {}, url |-> {}, run |-> 0] \in UploadRecord
      BY MaxStartsAssumption DEF UploadRecord, State, Content
    <3>2. [state |-> "unsent", hits |-> {}] \in SearchRecord
      BY DEF SearchRecord
    <3>3. QED  BY <3>1, <3>2 DEF Init
  <2>2. papers \in Seq(PaperRecord)
    BY DEF Init
  <2>3. Directory
    <3>1. DOMAIN disk = {} /\ disk = [n \in DOMAIN disk |-> {}]
      BY DEF Init
    <3>2. QED  BY <3>1 DEF Directory
  <2>4. starts \in 1..MaxStarts /\ clock \in Nat /\ ipfs \subseteq Content
    BY MaxStartsAssumption DEF Init
  <2>5. QED  BY <2>1, <2>2, <2>3, <2>4, SameTypes DEF Init, Types
<1>2. Process
  BY DEF Init, Process, Waiting, Running
<1>3. Pinned /\ PinnedBeforeListed /\ FilesAccountedFor
  BY DEF Init, Pinned, PinnedBeforeListed, FilesAccountedFor
<1>4. ListedIffAnswered
  <2>1. \A r \in Upload : ~ At(r, "answered")
    BY DEF Init, At
  <2>2. \A r \in Upload : {i \in 1..Len(papers) : papers[i].id = r} = {}
    <3>1. 1..Len(papers) = {}
      BY DEF Init
    <3>2. QED  BY <3>1
  <2>3. QED  BY <2>1, <2>2, Zenon DEF ListedIffAnswered
<1>5. QED  BY <1>1, <1>2, <1>3, <1>4 DEF IInv

-----------------------------------------------------------------------------
(* The file of a new upload, and its record.                               *)
LEMMA Receiving ==
  ASSUME Types, clock >= 1, NEW r \in Upload, Receive(r)
  PROVE  \E name \in Nat :
           /\ name >= clock /\ name > 0 /\ clock' = name
           /\ disk' = [n \in DOMAIN disk \cup {name} |-> IF n = name THEN {} ELSE disk[n]]
           /\ upload' \in [Upload -> UploadRecord]
           /\ \A q \in Upload : q # r => upload'[q] = upload[q]
           /\ upload'[r].state = "writing" /\ upload'[r].name = name /\ upload'[r].run = starts
           /\ 0 \notin ClockStep => name > clock
<1>1. PICK step \in ClockStep :
        /\ clock' = clock + step
        /\ disk' = [n \in DOMAIN disk \cup {clock + step} |->
                      IF n = clock + step THEN {} ELSE disk[n]]
        /\ upload' = [upload EXCEPT ![r] = [upload[r] EXCEPT !.state = "writing",
                                              !.name = clock + step, !.run = starts]]
  BY DEF Receive, FileName
<1>2. step \in Nat /\ clock \in Nat /\ starts \in 0..MaxStarts /\ upload[r] \in UploadRecord
  BY ClockStepAssumption, MaxStartsAssumption DEF Types
<1> DEFINE new == [upload[r] EXCEPT !.state = "writing", !.name = clock + step, !.run = starts]
<1>3. clock + step \in Nat /\ clock + step >= clock /\ clock + step > 0
  BY <1>2
<1>4. new \in UploadRecord /\ new.state = "writing" /\ new.name = clock + step /\ new.run = starts
  BY <1>2, <1>3 DEF UploadRecord, State, Waiting
<1>5. upload' = [upload EXCEPT ![r] = new]
  BY <1>1
<1>6. 0 \notin ClockStep => clock + step > clock
  BY <1>1, <1>2
<1> HIDE DEF new
<1>7. upload \in [Upload -> UploadRecord]
  BY DEF Types
<1>8. /\ upload' \in [Upload -> UploadRecord]
      /\ \A q \in Upload : q # r => upload'[q] = upload[q]
      /\ upload'[r] = new
  BY <1>4, <1>5, <1>7
<1>9. QED  BY <1>1, <1>3, <1>4, <1>6, <1>8

(* What one of the two reads of a file does to the record of its upload.   *)
LEMMA Reading ==
  ASSUME Types, NEW r \in Upload, ReadText(r) \/ ReadForIpfs(r)
  PROVE  /\ upload' \in [Upload -> UploadRecord]
         /\ \A q \in Upload : q # r => upload'[q] = upload[q]
         /\ upload'[r].state \in {"read", "reread", "failed"}
         /\ upload'[r].name = upload[r].name /\ upload'[r].run = upload[r].run
<1>1. upload \in [Upload -> UploadRecord] /\ upload[r] \in UploadRecord
  BY DEF Types
<1>2. CASE Goto(r, "failed")
  BY <1>1, <1>2, Going DEF State, Settled
<1>3. CASE /\ upload[r].name \in DOMAIN disk
           /\ upload' = [upload EXCEPT ![r].state = "read", ![r].text = disk[upload[r].name]]
  <2> DEFINE new == [upload[r] EXCEPT !.state = "read", !.text = disk[upload[r].name]]
  <2>1. disk[upload[r].name] \in Content
    BY <1>3 DEF Types, Directory
  <2>2. /\ new \in UploadRecord /\ new.state = "read"
        /\ new.name = upload[r].name /\ new.run = upload[r].run
    BY <1>1, <2>1 DEF UploadRecord, State, Waiting
  <2>3. upload' = [upload EXCEPT ![r] = new]
    BY <1>3
  <2> HIDE DEF new
  <2>4. QED  BY <1>1, <2>2, <2>3
<1>4. CASE /\ upload[r].name \in DOMAIN disk
           /\ upload' = [upload EXCEPT ![r].state = "reread", ![r].url = disk[upload[r].name]]
  <2> DEFINE new == [upload[r] EXCEPT !.state = "reread", !.url = disk[upload[r].name]]
  <2>1. disk[upload[r].name] \in Content
    BY <1>4 DEF Types, Directory
  <2>2. /\ new \in UploadRecord /\ new.state = "reread"
        /\ new.name = upload[r].name /\ new.run = upload[r].run
    BY <1>1, <2>1 DEF UploadRecord, State, Waiting
  <2>3. upload' = [upload EXCEPT ![r] = new]
    BY <1>4
  <2> HIDE DEF new
  <2>4. QED  BY <1>1, <2>2, <2>3
<1>5. QED  BY <1>2, <1>3, <1>4 DEF ReadText, ReadForIpfs, Fail

(* What a search is answered with.                                         *)
LEMMA Searching ==
  ASSUME Types, NEW q \in Query, SearchArrives(q) \/ SearchAnswers(q)
  PROVE  /\ search' \in [Query -> SearchRecord]
         /\ \A other \in Query : other # q => search'[other] = search[other]
         /\ \/ papers = << >>
            \/ search'[q].state \in {"embedding", "failed"}
            \/ search'[q].state = "answered" /\ search'[q].hits = Listed
<1>1. search \in [Query -> SearchRecord] /\ search[q] \in SearchRecord
  BY DEF Types
<1>2. CASE SearchArrives(q)
  <2> DEFINE new == [search[q] EXCEPT
                       !.state = IF papers = << >> THEN "answered" ELSE "embedding"]
  <2>1. new \in SearchRecord /\ (papers = << >> \/ new.state = "embedding")
    BY <1>1 DEF SearchRecord
  <2>2. search' = [search EXCEPT ![q] = new]
    BY <1>2 DEF SearchArrives
  <2> HIDE DEF new
  <2>3. QED  BY <1>1, <2>1, <2>2
<1>3. CASE search' = [search EXCEPT ![q].state = "answered", ![q].hits = Listed]
  <2> DEFINE new == [search[q] EXCEPT !.state = "answered", !.hits = Listed]
  <2>1. Listed \in SUBSET Upload
    <3>1. \A i \in 1..Len(papers) : papers[i] \in PaperRecord
      BY DEF Types
    <3>2. QED  BY <3>1 DEF Listed, PaperRecord
  <2>2. new \in SearchRecord /\ new.state = "answered" /\ new.hits = Listed
    BY <1>1, <2>1 DEF SearchRecord
  <2>3. search' = [search EXCEPT ![q] = new]
    BY <1>3
  <2> HIDE DEF new
  <2>4. QED  BY <1>1, <2>2, <2>3
<1>4. CASE search' = [search EXCEPT ![q].state = "failed"]
  <2> DEFINE new == [search[q] EXCEPT !.state = "failed"]
  <2>1. new \in SearchRecord /\ new.state = "failed"
    BY <1>1 DEF SearchRecord
  <2>2. search' = [search EXCEPT ![q] = new]
    BY <1>4
  <2> HIDE DEF new
  <2>3. QED  BY <1>1, <2>1, <2>2
<1>5. QED  BY <1>2, <1>3, <1>4 DEF SearchAnswers

(* The end of the process, as each request finds it.                       *)
LEMMA Exiting ==
  ASSUME Types, Exit
  PROVE  /\ upload' \in [Upload -> UploadRecord]
         /\ \A r \in Upload :
              /\ upload'[r].name = upload[r].name /\ upload'[r].run = upload[r].run
              /\ upload[r].state \in Waiting => upload'[r].state = "dropped"
              /\ upload[r].state \notin Waiting => upload'[r].state = upload[r].state
         /\ search' \in [Query -> SearchRecord]
         /\ \A q \in Query : search'[q].state # "embedding"
<1>1. ASSUME NEW r \in Upload
      PROVE  /\ upload'[r] \in UploadRecord
             /\ upload'[r].name = upload[r].name /\ upload'[r].run = upload[r].run
             /\ upload[r].state \in Waiting => upload'[r].state = "dropped"
             /\ upload[r].state \notin Waiting => upload'[r].state = upload[r].state
  <2>1. upload[r] \in UploadRecord
    BY DEF Types
  <2>2. CASE upload[r].state \in Waiting
    <3>1. upload'[r] = [upload[r] EXCEPT !.state = "dropped"]
      BY <2>2 DEF Exit
    <3>2. QED  BY <2>1, <2>2, <3>1 DEF UploadRecord, State, Settled
  <2>3. CASE upload[r].state \notin Waiting
    BY <2>1, <2>3 DEF Exit
  <2>4. QED  BY <2>2, <2>3
<1>2. ASSUME NEW q \in Query  PROVE search'[q] \in SearchRecord /\ search'[q].state # "embedding"
  <2>1. search[q] \in SearchRecord
    BY DEF Types
  <2>2. CASE search[q].state = "embedding"
    <3>1. search'[q] = [search[q] EXCEPT !.state = "dropped"]
      BY <2>2 DEF Exit
    <3>2. QED  BY <2>1, <3>1 DEF SearchRecord
  <2>3. CASE search[q].state # "embedding"
    BY <2>1, <2>3 DEF Exit
  <2>4. QED  BY <2>2, <2>3
<1>3. upload' = [r \in Upload |-> upload'[r]] /\ search' = [q \in Query |-> search'[q]]
  BY DEF Exit
<1>4. QED  BY <1>1, <1>2, <1>3

-----------------------------------------------------------------------------
LEMMA TypeStep == ASSUME TypeOK, clock >= 1, [Next]_vars  PROVE TypeOK'
<1> SUFFICES Types'
  BY SameTypesNext
<1>0. Types
  BY SameTypes
<1>1. CASE UNCHANGED vars
  BY <1>0, <1>1 DEF Types, Directory, vars
<1>2. ASSUME NEW r \in Upload, Receive(r)  PROVE Types'
  <2>1. PICK name \in Nat :
          /\ name >= clock /\ name > 0 /\ clock' = name
          /\ disk' = [n \in DOMAIN disk \cup {name} |-> IF n = name THEN {} ELSE disk[n]]
          /\ upload' \in [Upload -> UploadRecord]
    BY <1>0, <1>2, Receiving
  <2>2. Directory'
    <3>1. DOMAIN disk' = DOMAIN disk \cup {name} /\ {} \in Content
      BY <2>1 DEF Content
    <3>2. disk' \in [DOMAIN disk' -> Content]
      BY <1>0, <2>1, <3>1 DEF Types, Directory
    <3>3. clock \in Nat
      BY <1>0 DEF Types
    <3>4. DOMAIN disk' \subseteq 1..clock'
      BY <1>0, <2>1, <3>1, <3>3 DEF Types, Directory
    <3>5. QED  BY <3>2, <3>4 DEF Directory
  <2>3. QED  BY <1>0, <1>2, <2>1, <2>2 DEF Types, Receive
<1>3. ASSUME NEW r \in Upload, Reject(r)  PROVE Types'
  <2>1. upload[r] \in UploadRecord /\ starts \in 0..MaxStarts
    BY <1>0, MaxStartsAssumption DEF Types
  <2> DEFINE new == [upload[r] EXCEPT !.state = "rejected", !.run = starts]
  <2>2. new \in UploadRecord
    BY <2>1 DEF UploadRecord, State, Settled
  <2>3. upload' = [upload EXCEPT ![r] = new]
    BY <1>3 DEF Reject
  <2> HIDE DEF new
  <2>4. QED  BY <1>0, <1>3, <2>2, <2>3 DEF Types, Directory, Reject
<1>4. ASSUME NEW r \in Upload, Store(r)  PROVE Types'
  <2>1. upload' \in [Upload -> UploadRecord]
    BY <1>0, <1>4, Going DEF Types, Store, State, Waiting
  <2>2. Directory'
    <3>1. \A n \in DOMAIN disk : disk[n] \cup {r} \in Content
      BY <1>0 DEF Types, Directory, Content
    <3>2. QED  BY <1>0, <1>4, <3>1 DEF Types, Directory, Store
  <2>3. QED  BY <1>0, <1>4, <2>1, <2>2 DEF Types, Store
<1>5. ASSUME NEW r \in Upload, LoggedIn(r)  PROVE Types'
  <2>1. upload' \in [Upload -> UploadRecord]
    BY <1>0, <1>5, Going DEF Types, LoggedIn, Fail, State, Waiting, Settled
  <2>2. QED  BY <1>0, <1>5, <2>1 DEF Types, Directory, LoggedIn
<1>6. ASSUME NEW r \in Upload, Continue(r)  PROVE Types'
  <2>1. CASE ReadText(r) \/ ReadForIpfs(r)
    <3>1. upload' \in [Upload -> UploadRecord]
      BY <1>0, <2>1, Reading
    <3>2. QED  BY <1>0, <2>1, <3>1 DEF Types, Directory, ReadText, ReadForIpfs
  <2>2. CASE Extract(r) \/ GetClient(r)
    <3>1. upload' \in [Upload -> UploadRecord]
      BY <1>0, <2>2, Going DEF Types, Extract, GetClient, Fail, State, Waiting, Settled
    <3>2. QED  BY <1>0, <2>2, <3>1 DEF Types, Directory, Extract, GetClient
  <2>3. CASE UploadFile(r)
    <3>1. upload' \in [Upload -> UploadRecord]
      BY <1>0, <2>3, Going DEF Types, UploadFile, Fail, State, Waiting, Settled
    <3>2. upload[r].url \in Content
      BY <1>0 DEF Types, UploadRecord
    <3>3. ipfs' \subseteq Content
      BY <1>0, <2>3, <3>2 DEF Types, UploadFile
    <3>4. QED  BY <1>0, <2>3, <3>1, <3>3 DEF Types, Directory, UploadFile
  <2>4. CASE Unlink(r)
    <3>1. upload' \in [Upload -> UploadRecord]
      BY <1>0, <2>4, Going DEF Types, Unlink, Fail, State, Waiting, Settled
    <3>2. Directory'
      BY <1>0, <2>4 DEF Types, Directory, Unlink
    <3>3. QED  BY <1>0, <2>4, <3>1, <3>2 DEF Types, Unlink
  <2>5. CASE Publish(r)
    <3>1. upload' \in [Upload -> UploadRecord]
      BY <1>0, <2>5, Going DEF Types, Publish, State, Settled
    <3>2. Paper(r) \in PaperRecord
      BY <1>0 DEF Types, UploadRecord, Paper, PaperRecord
    <3>3. papers' \in Seq(PaperRecord)
      BY <1>0, <2>5, <3>2 DEF Types, Publish
    <3>4. QED  BY <1>0, <2>5, <3>1, <3>3 DEF Types, Directory, Publish
  <2>6. QED  BY <1>6, <2>1, <2>2, <2>3, <2>4, <2>5 DEF Continue
<1>7. ASSUME NEW q \in Query, SearchArrives(q) \/ SearchAnswers(q)  PROVE Types'
  <2>1. search' \in [Query -> SearchRecord]
    BY <1>0, <1>7, Searching
  <2>2. QED  BY <1>0, <1>7, <2>1 DEF Types, Directory, SearchArrives, SearchAnswers
<1>8. CASE Exit
  <2>1. << >> \in Seq(PaperRecord)
    OBVIOUS
  <2>2. QED  BY <1>0, <1>8, <2>1, Exiting DEF Types, Directory, Exit
<1>9. CASE BootLogin \/ Crash
  BY <1>0, <1>8, <1>9 DEF BootLogin, Crash, Types, Directory
<1>10. CASE Start
  <2>1. starts' \in 1..MaxStarts
    BY <1>0, <1>10, MaxStartsAssumption DEF Types, Start
  <2>2. QED  BY <1>0, <1>10, <2>1 DEF Types, Directory, Start
<1>11. QED
  BY <1>1, <1>2, <1>3, <1>4, <1>5, <1>6, <1>7, <1>9, <1>10 DEF Next

-----------------------------------------------------------------------------
(* States whose file may be in uploads/.                                   *)
Keeping == (Waiting \ {"unlinked"}) \cup {"failed", "dropped"}

(* The steps of an upload after the first: its own record changes, and     *)
(* papers only with the answer.                                            *)
LEMMA UploadStep ==
  ASSUME Types, NEW r \in Upload, Store(r) \/ LoggedIn(r) \/ Continue(r)
  PROVE  /\ upload[r].state \in Waiting
         /\ upload' \in [Upload -> UploadRecord]
         /\ \A q \in Upload : q # r => upload'[q] = upload[q]
         /\ upload'[r].name = upload[r].name /\ upload'[r].run = upload[r].run
         /\ \/ Publish(r) /\ upload'[r].state = "answered"
            \/ Unlink(r) /\ upload'[r].state = "unlinked" /\ papers' = papers
            \/ /\ upload'[r].state \in Keeping /\ papers' = papers
               /\ DOMAIN disk' = DOMAIN disk
         /\ UNCHANGED << search, boot, starts, clock >>
<1>1. upload \in [Upload -> UploadRecord]
  BY DEF Types
<1>2. CASE Store(r) \/ LoggedIn(r) \/ Extract(r) \/ GetClient(r) \/ UploadFile(r)
  <2>1. PICK s \in Keeping : Goto(r, s)
    BY <1>2 DEF Store, LoggedIn, Extract, GetClient, UploadFile, Fail, Keeping, Waiting
  <2>2. s \in State
    BY DEF Keeping, State, Settled
  <2>3. upload[r].state \in Waiting /\ DOMAIN disk' = DOMAIN disk
    BY <1>2 DEF Store, LoggedIn, Extract, GetClient, UploadFile, At, Waiting
  <2>4. papers' = papers /\ UNCHANGED << search, boot, starts, clock >>
    BY <1>2 DEF Store, LoggedIn, Extract, GetClient, UploadFile
  <2>5. QED  BY <1>1, <2>1, <2>2, <2>3, <2>4, Going
<1>3. CASE ReadText(r) \/ ReadForIpfs(r)
  <2>1. /\ upload' \in [Upload -> UploadRecord]
        /\ \A q \in Upload : q # r => upload'[q] = upload[q]
        /\ upload'[r].state \in Keeping
        /\ upload'[r].name = upload[r].name /\ upload'[r].run = upload[r].run
    BY <1>3, Reading DEF Keeping, Waiting
  <2>2. upload[r].state \in Waiting
    BY <1>3 DEF ReadText, ReadForIpfs, At, Waiting
  <2>3. UNCHANGED << search, papers, boot, starts, disk, clock >>
    BY <1>3 DEF ReadText, ReadForIpfs
  <2>4. QED  BY <2>1, <2>2, <2>3
<1>4. CASE Unlink(r)
  <2>1. upload[r].state \in Waiting /\ papers' = papers /\ UNCHANGED << search, boot, starts, clock >>
    BY <1>4 DEF Unlink, At, Waiting
  <2>2. \/ Goto(r, "unlinked")
        \/ Goto(r, "failed") /\ disk' = disk
    BY <1>4 DEF Unlink, Fail
  <2>3. {"unlinked", "failed"} \subseteq State /\ "failed" \in Keeping
    BY DEF State, Waiting, Settled, Keeping
  <2>4. CASE Goto(r, "unlinked")
    BY <1>1, <1>4, <2>1, <2>3, <2>4, Going
  <2>5. CASE Goto(r, "failed") /\ disk' = disk
    BY <1>1, <2>1, <2>3, <2>5, Going
  <2>6. QED  BY <2>2, <2>4, <2>5
<1>5. CASE Publish(r)
  <2>1. Goto(r, "answered") /\ "answered" \in State
    BY <1>5 DEF Publish, State, Settled
  <2>2. upload[r].state \in Waiting /\ UNCHANGED << search, boot, starts, clock >>
    BY <1>5 DEF Publish, At, Waiting
  <2>3. QED  BY <1>1, <1>5, <2>1, <2>2, Going
<1>6. QED  BY <1>2, <1>3, <1>4, <1>5 DEF Continue

(* A request that arrives: a file is opened for it, or it is rejected.     *)
LEMMA Arriving ==
  ASSUME Types, clock >= 1, NEW r \in Upload, Receive(r) \/ Reject(r)
  PROVE  /\ Running /\ upload[r].state = "unsent"
         /\ upload' \in [Upload -> UploadRecord]
         /\ \A q \in Upload : q # r => upload'[q] = upload[q]
         /\ upload'[r].state \in {"writing", "rejected"} /\ upload'[r].run = starts
         /\ \/ DOMAIN disk' = DOMAIN disk
            \/ /\ DOMAIN disk' = DOMAIN disk \cup {upload'[r].name}
               /\ upload'[r].state = "writing"
         /\ clock' >= 1
         /\ UNCHANGED << search, papers, boot, starts, ipfs >>
<1>1. CASE Receive(r)
  <2>1. PICK name \in Nat :
          /\ name > 0 /\ clock' = name
          /\ disk' = [n \in DOMAIN disk \cup {name} |-> IF n = name THEN {} ELSE disk[n]]
          /\ upload' \in [Upload -> UploadRecord]
          /\ \A q \in Upload : q # r => upload'[q] = upload[q]
          /\ upload'[r].state = "writing" /\ upload'[r].name = name /\ upload'[r].run = starts
    BY <1>1, Receiving
  <2>2. Running /\ upload[r].state = "unsent" /\ UNCHANGED << search, papers, boot, starts, ipfs >>
    BY <1>1 DEF Receive, At
  <2>3. QED  BY <2>1, <2>2
<1>2. CASE Reject(r)
  <2>1. upload[r] \in UploadRecord /\ starts \in 0..MaxStarts
    BY MaxStartsAssumption DEF Types
  <2> DEFINE new == [upload[r] EXCEPT !.state = "rejected", !.run = starts]
  <2>2. new \in UploadRecord /\ new.state = "rejected" /\ new.run = starts
    BY <2>1 DEF UploadRecord, State, Settled
  <2>3. upload' = [upload EXCEPT ![r] = new] /\ upload \in [Upload -> UploadRecord]
    BY <1>2 DEF Reject, Types
  <2>4. Running /\ upload[r].state = "unsent"
    BY <1>2 DEF Reject, At
  <2>5. UNCHANGED << search, papers, boot, starts, disk, ipfs, clock >> /\ clock \in Nat
    BY <1>2 DEF Reject, Types
  <2> HIDE DEF new
  <2>6. QED  BY <2>2, <2>3, <2>4, <2>5
<1>3. QED  BY <1>1, <1>2

-----------------------------------------------------------------------------
LEMMA ProcessStep == ASSUME Types, Process, [Next]_vars  PROVE Process'
<1>1. CASE UNCHANGED vars
  BY <1>1 DEF Process, Running, vars
<1>2. ASSUME NEW r \in Upload, Receive(r) \/ Reject(r)  PROVE Process'
  <2>1. starts <= starts /\ clock' >= 1 /\ UNCHANGED << search, papers, boot, starts >> /\ Running
    <3>1. starts \in Nat
      BY MaxStartsAssumption DEF Types
    <3>2. clock' >= 1 /\ UNCHANGED << search, papers, boot, starts >> /\ Running
      <4>1. clock >= 1
        BY DEF Process
      <4>2. QED  BY <1>2, <4>1, Arriving
    <3>3. QED  BY <3>1, <3>2
  <2>2. /\ upload'[r].run = starts
        /\ \A q \in Upload : q # r => upload'[q] = upload[q]
    BY <1>2, Arriving DEF Process
  <2>3. QED  BY <2>1, <2>2 DEF Process, Running
<1>3. ASSUME NEW r \in Upload, Store(r) \/ LoggedIn(r) \/ Continue(r)  PROVE Process'
  <2>1. Running /\ upload[r].run = starts
    BY <1>3, UploadStep DEF Process
  <2>2. QED  BY <1>3, <2>1, UploadStep DEF Process, Running
<1>4. ASSUME NEW q \in Query, SearchArrives(q) \/ SearchAnswers(q)  PROVE Process'
  <2>1. Running
    BY <1>4 DEF SearchArrives, SearchAnswers, Process
  <2>2. QED  BY <1>4, <2>1 DEF Process, Running, SearchArrives, SearchAnswers
<1>5. CASE Exit
  <2>1. \A r \in Upload : upload'[r].state \notin Waiting /\ upload'[r].run = upload[r].run
    BY <1>5, Exiting DEF Waiting
  <2>2. QED  BY <1>5, <2>1, Exiting DEF Process, Running, Exit
<1>6. CASE BootLogin \/ Crash
  BY <1>5, <1>6 DEF BootLogin, Crash, Process, Running
<1>7. CASE Start
  <2>1. \A r \in Upload : upload[r].state \notin Waiting /\ upload[r].run \in Int
    BY <1>7 DEF Start, Process, Types, UploadRecord
  <2>2. starts \in Nat
    BY MaxStartsAssumption DEF Types
  <2>3. QED  BY <1>7, <2>1, <2>2 DEF Start, Process, Running
<1>8. QED
  BY <1>1, <1>2, <1>3, <1>4, <1>6, <1>7 DEF Next

(* IPFS never forgets, and an upload is only pinned by UploadFile.         *)
LEMMA PinnedStep ==
  ASSUME Types, Process, Pinned, PinnedBeforeListed, [Next]_vars
  PROVE  Pinned' /\ PinnedBeforeListed'
<1>1. CASE UNCHANGED vars
  BY <1>1 DEF Pinned, PinnedBeforeListed, vars
<1>2. ASSUME NEW r \in Upload, Receive(r) \/ Reject(r)  PROVE Pinned' /\ PinnedBeforeListed'
  BY <1>2, Arriving DEF Pinned, PinnedBeforeListed, Process
<1>3. ASSUME NEW r \in Upload, Store(r) \/ LoggedIn(r) \/ Continue(r)
      PROVE  Pinned' /\ PinnedBeforeListed'
  <2>1. ipfs \subseteq ipfs'
    BY <1>3 DEF Store, LoggedIn, Continue, ReadText, Extract, GetClient, ReadForIpfs, UploadFile,
                Unlink, Publish
  <2>2. upload \in [Upload -> UploadRecord]
    BY DEF Types
  <2>3. ASSUME upload'[r].state \in {"pinned", "unlinked"}
        PROVE  upload'[r].url \in ipfs'
    <3>1. CASE UploadFile(r)
      <4>1. ASSUME Goto(r, "failed")  PROVE FALSE
        BY <2>2, <2>3, <4>1, Going DEF State, Settled
      <4>2. ipfs' = ipfs \cup {upload[r].url} /\ Goto(r, "pinned")
        BY <3>1, <4>1 DEF UploadFile, Fail
      <4>3. upload'[r].url = upload[r].url
        BY <2>2, <4>2, Going DEF State, Waiting
      <4>4. QED  BY <4>2, <4>3
    <3>2. CASE Unlink(r)
      <4>1. PICK s \in {"unlinked", "failed"} : Goto(r, s)
        BY <3>2 DEF Unlink, Fail
      <4>2. upload'[r].url = upload[r].url
        BY <2>2, <4>1, Going DEF State, Waiting, Settled
      <4>3. upload[r].url \in ipfs
        BY <3>2 DEF Unlink, At, Pinned
      <4>4. QED  BY <2>1, <4>2, <4>3
    <3>3. CASE Store(r) \/ LoggedIn(r) \/ Extract(r) \/ GetClient(r) \/ Publish(r)
      <4>1. PICK s \in {"stored", "connected", "extracted", "login", "answered", "failed"} :
              Goto(r, s)
        BY <3>3 DEF Store, LoggedIn, Extract, GetClient, Publish, Fail
      <4>2. QED  BY <2>2, <2>3, <4>1, Going DEF State, Waiting, Settled
    <3>4. CASE ReadText(r) \/ ReadForIpfs(r)
      BY <2>3, <3>4, Reading
    <3>5. QED  BY <1>3, <3>1, <3>2, <3>3, <3>4 DEF Continue
  <2>4. Pinned'
    BY <1>3, <2>1, <2>3, UploadStep DEF Pinned
  <2>5. CASE papers' = papers
    BY <2>1, <2>4, <2>5 DEF PinnedBeforeListed
  <2>6. CASE Publish(r)
    <3>1. papers' = Append(papers, Paper(r)) /\ papers \in Seq(PaperRecord)
      BY <2>6 DEF Publish, Types
    <3>2. Paper(r).url \in ipfs
      BY <2>6 DEF Publish, At, Pinned, Paper
    <3>3. ASSUME NEW i \in 1..Len(papers')  PROVE papers'[i].url \in ipfs'
      <4>1. Len(papers') = Len(papers) + 1 /\ Len(papers) \in Nat
        BY <3>1
      <4>2. CASE i \in 1..Len(papers)
        BY <2>1, <3>1, <4>1, <4>2 DEF PinnedBeforeListed
      <4>3. CASE i = Len(papers) + 1
        BY <2>1, <3>1, <3>2, <4>1, <4>3
      <4>4. QED  BY <4>1, <4>2, <4>3
    <3>4. QED  BY <2>4, <3>3 DEF PinnedBeforeListed
  <2>7. QED  BY <1>3, <2>5, <2>6, UploadStep
<1>4. CASE Exit
  <2>1. \A r \in Upload : upload'[r].state \notin {"pinned", "unlinked"}
    BY <1>4, Exiting DEF Waiting
  <2>2. papers' = << >>
    BY <1>4 DEF Exit
  <2>3. QED  BY <2>1, <2>2 DEF Pinned, PinnedBeforeListed
<1>5. CASE BootLogin \/ Crash
  BY <1>4, <1>5 DEF BootLogin, Crash, Pinned, PinnedBeforeListed
<1>6. CASE Start \/ \E q \in Query : SearchArrives(q) \/ SearchAnswers(q)
  BY <1>6 DEF Start, SearchArrives, SearchAnswers, Pinned, PinnedBeforeListed
<1>7. QED
  BY <1>1, <1>2, <1>3, <1>5, <1>6 DEF Next

(* An upload goes on keeping its file until it has removed it.             *)
LEMMA FilesStep ==
  ASSUME Types, Process, FilesAccountedFor, [Next]_vars
  PROVE  FilesAccountedFor'
<1> DEFINE Keeps(r, n) == upload[r].name = n /\ upload[r].state \in Keeping
<1>0. \A n \in DOMAIN disk : \E r \in Upload : Keeps(r, n)
  BY DEF FilesAccountedFor, Keeping
<1> SUFFICES ASSUME NEW n \in DOMAIN disk'
             PROVE  \E r \in Upload : upload'[r].name = n /\ upload'[r].state \in Keeping
  BY DEF FilesAccountedFor, Keeping
<1>1. CASE UNCHANGED << upload, disk >>
  BY <1>0, <1>1
<1>2. ASSUME NEW r \in Upload, Receive(r) \/ Reject(r)
      PROVE  \E q \in Upload : upload'[q].name = n /\ upload'[q].state \in Keeping
  <2>1. CASE n \in DOMAIN disk
    <3>1. PICK q \in Upload : Keeps(q, n)
      BY <1>0, <2>1
    <3>2. q # r
      BY <1>2, <3>1, Arriving DEF Process, Keeping, Waiting
    <3>3. QED  BY <1>2, <3>1, <3>2, Arriving DEF Process
  <2>2. CASE n \notin DOMAIN disk
    <3>1. upload'[r].name = n /\ upload'[r].state = "writing"
      BY <1>2, <2>2, Arriving DEF Process
    <3>2. QED  BY <3>1 DEF Keeping, Waiting
  <2>3. QED  BY <2>1, <2>2
<1>3. ASSUME NEW r \in Upload, Store(r) \/ LoggedIn(r) \/ Continue(r)
      PROVE  \E q \in Upload : upload'[q].name = n /\ upload'[q].state \in Keeping
  <2>1. CASE upload'[r].state \in Keeping /\ DOMAIN disk' = DOMAIN disk
    <3>1. PICK q \in Upload : Keeps(q, n)
      BY <1>0, <2>1
    <3>2. QED  BY <1>3, <2>1, <3>1, UploadStep
  <2>2. CASE Publish(r)
    <3>1. PICK q \in Upload : Keeps(q, n)
      BY <1>0, <2>2 DEF Publish
    <3>2. q # r
      BY <2>2, <3>1 DEF Publish, At, Keeping
    <3>3. QED  BY <1>3, <3>1, <3>2, UploadStep
  <2>3. CASE Unlink(r) /\ upload'[r].state = "unlinked"
    <3>1. upload \in [Upload -> UploadRecord]
      BY DEF Types
    <3>2. ASSUME Goto(r, "failed")  PROVE FALSE
      BY <2>3, <3>1, <3>2, Going DEF State, Settled
    <3>3. DOMAIN disk' = DOMAIN disk \ {upload[r].name}
      BY <2>3, <3>2 DEF Unlink, Fail
    <3>4. PICK q \in Upload : Keeps(q, n)
      BY <1>0, <3>3
    <3>5. q # r
      BY <3>3, <3>4
    <3>6. QED  BY <1>3, <3>4, <3>5, UploadStep
  <2>4. QED  BY <1>3, <2>1, <2>2, <2>3, UploadStep
<1>4. CASE Exit
  <2>1. PICK r \in Upload : Keeps(r, n)
    BY <1>0, <1>4 DEF Exit
  <2>2. QED  BY <1>4, <2>1, Exiting DEF Keeping
<1>5. CASE BootLogin \/ Crash
  BY <1>1, <1>4, <1>5 DEF BootLogin, Crash
<1>6. CASE \/ Start \/ UNCHANGED vars
           \/ \E q \in Query : SearchArrives(q) \/ SearchAnswers(q)
  BY <1>1, <1>6 DEF Start, SearchArrives, SearchAnswers, vars
<1>7. QED
  BY <1>2, <1>3, <1>5, <1>6 DEF Next

-----------------------------------------------------------------------------
(* Where an upload is listed, and whether it should be.                    *)
Places(r) == {i \in 1..Len(papers) : papers[i].id = r}
Live(r) == upload[r].state = "answered" /\ upload[r].run = starts /\ Running

LEMMA Listing ==
  /\ ListedIffAnswered <=>
       \A r \in Upload : IF Live(r) THEN \E i \in Places(r) : Places(r) = {i} ELSE Places(r) = {}
  /\ ListedIffAnswered' <=>
       \A r \in Upload : (IF Live(r) THEN \E i \in Places(r) : Places(r) = {i}
                                     ELSE Places(r) = {})'
BY DEF ListedIffAnswered, Places, Live, At

(* Only the answer to an upload adds to papers, once.                      *)
LEMMA ListingStep ==
  ASSUME Types, Process, ListedIffAnswered, [Next]_vars
  PROVE  ListedIffAnswered'
<1> DEFINE Right(r) == IF Live(r) THEN \E i \in Places(r) : Places(r) = {i} ELSE Places(r) = {}
<1>0. \A r \in Upload : Right(r)
  BY Listing
<1> SUFFICES ASSUME NEW r \in Upload  PROVE Right(r)'
  BY Listing
<1>1. ASSUME papers' = papers, Live(r)' <=> Live(r)  PROVE Right(r)'
  BY <1>0, <1>1 DEF Places
<1>2. ASSUME NEW q \in Upload, Receive(q) \/ Reject(q)  PROVE Right(r)'
  <2>1. ~ Live(q) /\ ~ Live(q)'
    BY <1>2, Arriving DEF Process, Live
  <2>2. q # r => (Live(r)' <=> Live(r))
    BY <1>2, Arriving DEF Process, Live, Running
  <2>3. papers' = papers
    BY <1>2, Arriving DEF Process
  <2>4. QED  BY <1>1, <2>1, <2>2, <2>3
<1>3. ASSUME NEW q \in Upload, Store(q) \/ LoggedIn(q) \/ Continue(q)  PROVE Right(r)'
  <2>1. ~ Live(q)
    BY <1>3, UploadStep DEF Live, Waiting
  <2>2. q # r => (Live(r)' <=> Live(r))
    BY <1>3, UploadStep DEF Live, Running
  <2>3. CASE papers' = papers /\ upload'[q].state # "answered"
    <3>1. ~ Live(q)'
      BY <2>3 DEF Live
    <3>2. QED  BY <1>1, <2>1, <2>2, <2>3, <3>1
  <2>4. CASE Publish(q) /\ upload'[q].state = "answered"
    <3>1. papers' = Append(papers, Paper(q)) /\ papers \in Seq(PaperRecord) /\ Paper(q).id = q
      BY <2>4 DEF Publish, Types, Paper
    <3>2. /\ Len(papers) \in Nat /\ Len(papers') = Len(papers) + 1
          /\ \A i \in 1..Len(papers) : papers'[i] = papers[i]
          /\ papers'[Len(papers) + 1].id = q
      BY <3>1
    <3>3. CASE q = r
      <4>1. Places(r) = {}
        BY <1>0, <2>1, <3>3
      <4>2. Places(r)' = {Len(papers) + 1}
        BY <3>2, <3>3, <4>1 DEF Places
      <4>3. Live(r)'
        BY <1>3, <2>4, <3>3, UploadStep DEF Live, Process, Running
      <4>4. QED  BY <4>2, <4>3
    <3>4. CASE q # r
      <4>1. Places(r)' = Places(r)
        BY <3>2, <3>4 DEF Places
      <4>2. QED  BY <1>0, <2>2, <3>4, <4>1
    <3>5. QED  BY <3>3, <3>4
  <2>5. QED  BY <1>3, <2>3, <2>4, UploadStep DEF Keeping, Waiting
<1>4. ASSUME NEW q \in Query, SearchArrives(q) \/ SearchAnswers(q)  PROVE Right(r)'
  <2>1. UNCHANGED << upload, papers, boot, starts >>
    BY <1>4 DEF SearchArrives, SearchAnswers
  <2>2. QED  BY <1>1, <2>1 DEF Live, Running
<1>5. CASE Exit
  <2>1. ~ Live(r)' /\ papers' = << >>
    BY <1>5 DEF Exit, Live, Running
  <2>2. Places(r)' = {}
    BY <2>1 DEF Places
  <2>3. QED  BY <2>1, <2>2
<1>6. CASE BootLogin \/ Crash
  <2>1. CASE Exit
    BY <1>5, <2>1
  <2>2. CASE boot = "login" /\ boot' = "ready" /\ UNCHANGED << upload, papers, starts >>
    BY <1>1, <2>2 DEF Live, Running
  <2>3. QED  BY <1>6, <2>1, <2>2 DEF BootLogin, Crash
<1>7. CASE Start
  <2>1. starts \in Nat /\ upload[r].run \in Nat
    BY MaxStartsAssumption DEF Types, UploadRecord
  <2>2. upload[r].run <= starts /\ starts' = starts + 1 /\ upload' = upload
    BY <1>7 DEF Process, Start
  <2>3. upload'[r].run # starts'
    BY <2>1, <2>2
  <2>4. ~ Live(r)' /\ ~ Live(r) /\ papers' = papers
    BY <1>7, <2>3 DEF Start, Live
  <2>5. QED  BY <1>1, <2>4
<1>8. CASE UNCHANGED vars
  BY <1>1, <1>8 DEF vars, Live, Running
<1>9. QED
  BY <1>2, <1>3, <1>4, <1>6, <1>7, <1>8 DEF Next

-----------------------------------------------------------------------------
LEMMA StepInvariant == IInv /\ [Next]_vars => IInv'
<1> SUFFICES ASSUME IInv, [Next]_vars  PROVE IInv'
  OBVIOUS
<1>1. Types /\ TypeOK'
  BY SameTypes, TypeStep DEF IInv, Process
<1>2. QED
  BY <1>1, ProcessStep, PinnedStep, FilesStep, ListingStep DEF IInv

THEOREM Invariant == Spec => []IInv
BY InitInv, StepInvariant, PTL DEF Spec

(* Requests, papers, files and what is at IPFS keep their types, for any   *)
(* number of requests and restarts (server.js:12-231).                     *)
THEOREM TypeCorrect == Spec => []TypeOK
BY Invariant, PTL DEF IInv

(* No url is listed whose content is not at IPFS (server.js:49-67).        *)
THEOREM UrlsPinned == Spec => []PinnedBeforeListed
BY Invariant, PTL DEF IInv

(* Each file in uploads/ is that of an upload that is under way or failed, *)
(* also if uploads share a name and remove each other's file               *)
(* (server.js:177, 189-192).                                               *)
THEOREM FilesOwned == Spec => []FilesAccountedFor
BY Invariant, PTL DEF IInv

(* What is listed is what was answered since the process was started, each *)
(* once (server.js:186-188).                                               *)
THEOREM ListingRight == Spec => []ListedIffAnswered
BY Invariant, PTL DEF IInv

(* A search misses no paper that was answered before it was                *)
(* (server.js:206-212).                                                    *)
THEOREM SearchesFresh == Spec => SearchSeesAnswered
<1>1. ASSUME IInv, [Next]_vars
      PROVE  \A q \in Query :
               search'[q].state = "answered" /\ search[q].state # "answered"
                 => \A r \in Upload :
                      At(r, "answered") /\ upload[r].run = starts => r \in search'[q].hits
  <2> SUFFICES ASSUME NEW q \in Query, search'[q].state = "answered",
                      search[q].state # "answered",
                      NEW r \in Upload, At(r, "answered"), upload[r].run = starts
               PROVE  r \in search'[q].hits
    OBVIOUS
  <2>1. Types /\ Process
    BY <1>1, SameTypes DEF IInv
  <2>2. CASE SearchArrives(q) \/ SearchAnswers(q)
    <3>1. Running
      BY <2>1, <2>2 DEF SearchArrives, SearchAnswers, Process
    <3>2. PICK i \in Places(r) : Places(r) = {i}
      BY <1>1, <3>1, Listing DEF IInv, Live, At
    <3>3. i \in 1..Len(papers) /\ papers[i].id = r
      BY <3>2 DEF Places
    <3>4. papers # << >> /\ r \in Listed
      BY <3>3 DEF Listed
    <3>5. QED  BY <2>1, <2>2, <3>4, Searching
  <2>3. ASSUME NEW other \in Query, other # q, SearchArrives(other) \/ SearchAnswers(other)
        PROVE  FALSE
    BY <2>1, <2>3, Searching
  <2>4. ASSUME search' = search  PROVE FALSE
    BY <2>4
  <2>5. CASE Exit
    <3>1. search'[q] = IF search[q].state = "embedding"
                       THEN [search[q] EXCEPT !.state = "dropped"] ELSE search[q]
      BY <2>5 DEF Exit
    <3>2. search[q] \in SearchRecord
      BY <2>1 DEF Types
    <3>3. QED  BY <3>1, <3>2 DEF SearchRecord
  <2>6. CASE \E p \in Upload : \/ Receive(p) \/ Reject(p)
                               \/ Store(p) \/ LoggedIn(p) \/ Continue(p)
    BY <2>1, <2>4, <2>6, Arriving, UploadStep DEF Process
  <2>7. CASE BootLogin \/ Crash \/ Start \/ UNCHANGED vars
    BY <2>4, <2>5, <2>7 DEF BootLogin, Crash, Start, vars
  <2>8. QED
    BY <1>1, <2>2, <2>3, <2>6, <2>7 DEF Next
<1>2. QED  BY <1>1, Invariant, PTL DEF Spec, SearchSeesAnswered

-----------------------------------------------------------------------------
(* Without two uploads in one millisecond, each has a file of its own, and *)
(* what is read of it is its own.                                          *)
Alone == \A r, q \in Upload : upload[r].name = upload[q].name /\ upload[r].name # 0 => r = q

Named ==
  \A r \in Upload : /\ upload[r].name <= clock
                    /\ upload[r].state \in Waiting => upload[r].name # 0

OwnFile ==
  \A r \in Upload :
    upload[r].name \in DOMAIN disk =>
      /\ disk[upload[r].name] \subseteq {r}
      /\ upload[r].state \in Waiting \ {"writing"} => disk[upload[r].name] = {r}

OwnText ==
  \A r \in Upload : upload[r].state \in Waiting \ {"writing", "stored"} => upload[r].text = {r}

OwnUrl ==
  \A r \in Upload : upload[r].state \in {"reread", "pinned", "unlinked"} => upload[r].url = {r}

Own == Alone /\ Named /\ OwnFile /\ OwnText /\ OwnUrl /\ PaperIntegrity

LEMMA OwnInit == Init => Own
<1> SUFFICES ASSUME Init  PROVE Own
  OBVIOUS
<1>1. \A r \in Upload : upload[r].name = 0 /\ upload[r].state = "unsent"
  BY DEF Init
<1>2. DOMAIN disk = {} /\ papers = << >> /\ clock = 1
  BY DEF Init
<1>3. Alone /\ Named
  BY <1>1, <1>2 DEF Alone, Named, Waiting
<1>4. OwnFile /\ OwnText /\ OwnUrl
  BY <1>1, <1>2 DEF OwnFile, OwnText, OwnUrl, Waiting
<1>5. PaperIntegrity
  BY <1>2 DEF PaperIntegrity
<1>6. QED  BY <1>3, <1>4, <1>5 DEF Own

(* A step that only moves uploads on.                                      *)
LEMMA OwnArrives ==
  ASSUME 0 \notin ClockStep, Types, Process, Own, NEW r \in Upload, Receive(r)
  PROVE  Own'
<1>1. PICK name \in Nat :
        /\ name > clock /\ name > 0 /\ clock' = name
        /\ disk' = [n \in DOMAIN disk \cup {name} |-> IF n = name THEN {} ELSE disk[n]]
        /\ \A q \in Upload : q # r => upload'[q] = upload[q]
        /\ upload'[r].state = "writing" /\ upload'[r].name = name
  BY Receiving DEF Process
<1>2. clock \in Nat /\ \A q \in Upload : upload[q].name \in Nat /\ upload[q].name <= clock
  BY DEF Types, UploadRecord, Own, Named
<1>3. \A q \in Upload : upload[q].name # name
  BY <1>1, <1>2
<1>4. Alone' /\ Named'
  <2>1. Alone'
    BY <1>1, <1>3 DEF Own, Alone
  <2>2. Named'
    BY <1>1, <1>2 DEF Own, Named
  <2>3. QED  BY <2>1, <2>2
<1>5. OwnFile'
  BY <1>1, <1>3 DEF Own, OwnFile
<1>6. OwnText' /\ OwnUrl'
  BY <1>1 DEF Own, OwnText, OwnUrl
<1>7. PaperIntegrity'
  BY DEF Own, PaperIntegrity, Receive
<1>8. QED  BY <1>4, <1>5, <1>6, <1>7 DEF Own

(* The names of files and the clock stay as they are.                      *)
LEMMA OwnNames ==
  ASSUME Own, \A r \in Upload : /\ upload'[r].name = upload[r].name
                                /\ upload'[r].state \in Waiting => upload[r].state \in Waiting,
         clock' = clock
  PROVE  Alone' /\ Named'
BY DEF Own, Alone, Named

(* An upload that goes on by Goto, and files that stay as they are.        *)
LEMMA OwnGoes ==
  ASSUME Types, Own, NEW r \in Upload, NEW s \in State, Goto(r, s),
         upload[r].state \in Waiting \ {"writing"},
         s \in Waiting => s # "writing",
         s \in Waiting \ {"stored"} => upload[r].state # "stored",
         s \in {"reread", "pinned", "unlinked"}
           => upload[r].state \in {"reread", "pinned", "unlinked"},
         DOMAIN disk' \subseteq DOMAIN disk, \A n \in DOMAIN disk' : disk'[n] = disk[n],
         UNCHANGED << papers, clock >>
  PROVE  Own'
<1>1. /\ upload'[r].state = s
      /\ \A q \in Upload : q # r => upload'[q] = upload[q]
      /\ \A q \in Upload : /\ upload'[q].name = upload[q].name
                           /\ upload'[q].text = upload[q].text
                           /\ upload'[q].url = upload[q].url
  BY Going DEF Types
<1>2. Alone' /\ Named'
  BY <1>1, OwnNames
<1>3. OwnFile'
  BY <1>1 DEF Own, OwnFile
<1>4. OwnText' /\ OwnUrl'
  BY <1>1 DEF Own, OwnText, OwnUrl
<1>5. PaperIntegrity'
  BY DEF Own, PaperIntegrity
<1>6. QED  BY <1>2, <1>3, <1>4, <1>5 DEF Own

LEMMA OwnStep ==
  ASSUME 0 \notin ClockStep, Types, Process, Own, [Next]_vars
  PROVE  Own'
<1>1. CASE UNCHANGED << upload, papers, disk, clock >>
  BY <1>1 DEF Own, Alone, Named, OwnFile, OwnText, OwnUrl, PaperIntegrity
<1>2. ASSUME NEW r \in Upload, Receive(r)  PROVE Own'
  BY <1>2, OwnArrives
<1>3. ASSUME NEW r \in Upload, Reject(r)  PROVE Own'
  <2>1. /\ \A q \in Upload : q # r => upload'[q] = upload[q]
        /\ upload'[r].state = "rejected" /\ upload'[r].name = upload[r].name
    <3>1. upload[r] \in UploadRecord /\ upload \in [Upload -> UploadRecord]
      BY DEF Types
    <3> DEFINE new == [upload[r] EXCEPT !.state = "rejected", !.run = starts]
    <3>2. new.state = "rejected" /\ new.name = upload[r].name
      BY <3>1 DEF UploadRecord
    <3>3. upload' = [upload EXCEPT ![r] = new]
      BY <1>3 DEF Reject
    <3> HIDE DEF new
    <3>4. QED  BY <3>1, <3>2, <3>3
  <2>2. UNCHANGED << papers, disk, clock >>
    BY <1>3 DEF Reject
  <2>3. Alone' /\ Named'
    BY <2>1, <2>2, OwnNames DEF Waiting
  <2>4. OwnFile'
    BY <2>1, <2>2 DEF Own, OwnFile, Waiting
  <2>5. OwnText' /\ OwnUrl'
    BY <2>1 DEF Own, OwnText, OwnUrl, Waiting
  <2>6. PaperIntegrity'
    BY <2>2 DEF Own, PaperIntegrity
  <2>7. QED  BY <2>3, <2>4, <2>5, <2>6 DEF Own
<1>4. ASSUME NEW r \in Upload, Store(r)  PROVE Own'
  <2>1. /\ upload'[r].state = "stored" /\ upload[r].state = "writing"
        /\ \A q \in Upload : q # r => upload'[q] = upload[q]
        /\ \A q \in Upload : upload'[q].name = upload[q].name
    BY <1>4, Going DEF Types, Store, At, State, Waiting
  <2>2. /\ DOMAIN disk' = DOMAIN disk
        /\ \A n \in DOMAIN disk : disk'[n] = IF n = upload[r].name THEN disk[n] \cup {r}
                                             ELSE disk[n]
        /\ UNCHANGED << papers, clock >>
    BY <1>4 DEF Store
  <2>3. Alone' /\ Named'
    BY <2>1, <2>2, OwnNames DEF Waiting
  <2>4. ASSUME NEW q \in Upload, upload'[q].name \in DOMAIN disk'
        PROVE  /\ disk'[upload'[q].name] \subseteq {q}
               /\ upload'[q].state \in Waiting \ {"writing"} => disk'[upload'[q].name] = {q}
    <3>1. CASE q = r
      BY <2>1, <2>2, <2>4, <3>1 DEF Own, OwnFile
    <3>2. CASE q # r
      <4>1. upload[r].name # 0
        BY <2>1 DEF Own, Named, Waiting
      <4>2. upload[q].name # upload[r].name
        BY <3>2, <4>1 DEF Own, Alone
      <4>3. QED  BY <2>1, <2>2, <2>4, <3>2, <4>2 DEF Own, OwnFile
    <3>3. QED  BY <3>1, <3>2
  <2>5. OwnFile'
    BY <2>4 DEF OwnFile
  <2>6. OwnText' /\ OwnUrl'
    BY <2>1 DEF Own, OwnText, OwnUrl
  <2>7. PaperIntegrity'
    BY <2>2 DEF Own, PaperIntegrity
  <2>8. QED  BY <2>3, <2>5, <2>6, <2>7 DEF Own
<1>5. ASSUME NEW r \in Upload, ReadText(r) \/ ReadForIpfs(r)  PROVE Own'
  <2>1. UNCHANGED << papers, disk, clock >>
    BY <1>5 DEF ReadText, ReadForIpfs
  <2>2. CASE Goto(r, "failed")
    <3>1. upload[r].state \in Waiting \ {"writing"}
      BY <1>5 DEF ReadText, ReadForIpfs, At, Waiting
    <3>2. "failed" \in State /\ "failed" \notin Waiting
      BY DEF State, Settled, Waiting
    <3>3. QED  BY <2>1, <2>2, <3>1, <3>2, OwnGoes
  <2>3. CASE ~ Goto(r, "failed")
    <3>1. upload[r].name \in DOMAIN disk /\ upload[r] \in UploadRecord
          /\ upload \in [Upload -> UploadRecord]
      BY <1>5, <2>3 DEF ReadText, ReadForIpfs, Fail, Types
    <3>2. upload[r].state \in Waiting \ {"writing"}
      BY <1>5 DEF ReadText, ReadForIpfs, At, Waiting
    <3>3. disk[upload[r].name] = {r}
      BY <3>1, <3>2 DEF Own, OwnFile
    <3>4. PICK new \in UploadRecord :
            /\ upload' = [upload EXCEPT ![r] = new]
            /\ new.name = upload[r].name /\ new.state \in Waiting \ {"writing", "stored"}
            /\ new.text = {r}
            /\ new.state \in {"reread", "pinned", "unlinked"} => new.url = {r}
      <4>1. CASE ReadText(r)
        <5> DEFINE new == [upload[r] EXCEPT !.state = "read", !.text = {r}]
        <5>1. upload' = [upload EXCEPT ![r] = new]
          BY <2>3, <3>1, <3>3, <4>1 DEF ReadText, Fail
        <5>2. {r} \in Content
          BY DEF Content
        <5>3. /\ new \in UploadRecord /\ new.name = upload[r].name
              /\ new.state = "read" /\ new.text = {r}
          BY <3>1, <5>2 DEF UploadRecord, State, Waiting
        <5> HIDE DEF new
        <5>4. QED  BY <5>1, <5>3 DEF Waiting
      <4>2. CASE ReadForIpfs(r)
        <5> DEFINE new == [upload[r] EXCEPT !.state = "reread", !.url = {r}]
        <5>1. upload' = [upload EXCEPT ![r] = new]
          BY <2>3, <3>1, <3>3, <4>2 DEF ReadForIpfs, Fail
        <5>2. {r} \in Content /\ upload[r].text = {r}
          BY <4>2 DEF Content, ReadForIpfs, At, Own, OwnText, Waiting
        <5>3. /\ new \in UploadRecord /\ new.name = upload[r].name
              /\ new.state = "reread" /\ new.text = upload[r].text /\ new.url = {r}
          BY <3>1, <5>2 DEF UploadRecord, State, Waiting
        <5> HIDE DEF new
        <5>4. QED  BY <5>1, <5>2, <5>3 DEF Waiting
      <4>3. QED  BY <1>5, <4>1, <4>2
    <3>5. /\ upload'[r] = new
          /\ \A q \in Upload : q # r => upload'[q] = upload[q]
      BY <3>1, <3>4
    <3>6. Alone' /\ Named'
      BY <2>1, <3>2, <3>4, <3>5, OwnNames
    <3>7. OwnFile'
      BY <2>1, <3>2, <3>4, <3>5 DEF Own, OwnFile
    <3>8. OwnText' /\ OwnUrl'
      BY <3>4, <3>5 DEF Own, OwnText, OwnUrl
    <3>9. PaperIntegrity'
      BY <2>1 DEF Own, PaperIntegrity
    <3>10. QED  BY <3>6, <3>7, <3>8, <3>9 DEF Own
  <2>4. QED  BY <2>2, <2>3
<1>6. ASSUME NEW r \in Upload, Extract(r) \/ GetClient(r) \/ LoggedIn(r)  PROVE Own'
  <2>1. PICK s \in {"extracted", "connected", "login", "failed"} : Goto(r, s)
    BY <1>6 DEF Extract, GetClient, LoggedIn, Fail
  <2>2. upload[r].state \in {"read", "extracted", "login"} /\ UNCHANGED << papers, disk, clock >>
    BY <1>6 DEF Extract, GetClient, LoggedIn, At
  <2>3. s \in State
    BY DEF State, Waiting, Settled
  <2>4. QED  BY <2>1, <2>2, <2>3, OwnGoes DEF Waiting
<1>7. ASSUME NEW r \in Upload, UploadFile(r) \/ Unlink(r)  PROVE Own'
  <2>1. PICK s \in {"pinned", "unlinked", "failed"} : Goto(r, s)
    BY <1>7 DEF UploadFile, Unlink, Fail
  <2>2. upload[r].state \in {"reread", "pinned"} /\ UNCHANGED << papers, clock >>
    BY <1>7 DEF UploadFile, Unlink, At
  <2>3. DOMAIN disk' \subseteq DOMAIN disk /\ \A n \in DOMAIN disk' : disk'[n] = disk[n]
    BY <1>7 DEF UploadFile, Unlink
  <2>4. s \in State
    BY DEF State, Waiting, Settled
  <2>5. QED  BY <2>1, <2>2, <2>3, <2>4, OwnGoes DEF Waiting
<1>8. ASSUME NEW r \in Upload, Publish(r)  PROVE Own'
  <2>1. /\ upload'[r].state = "answered" /\ upload[r].state = "unlinked"
        /\ \A q \in Upload : q # r => upload'[q] = upload[q]
        /\ \A q \in Upload : upload'[q].name = upload[q].name
    BY <1>8, Going DEF Types, Publish, At, State, Settled
  <2>2. UNCHANGED << disk, clock >>
    BY <1>8 DEF Publish
  <2>3. Alone' /\ Named'
    BY <2>1, <2>2, OwnNames DEF Waiting
  <2>4. OwnFile'
    BY <2>1, <2>2 DEF Own, OwnFile, Waiting
  <2>5. OwnText' /\ OwnUrl'
    BY <2>1 DEF Own, OwnText, OwnUrl, Waiting
  <2>6. PaperIntegrity'
    <3>1. papers' = Append(papers, Paper(r)) /\ papers \in Seq(PaperRecord)
      BY <1>8 DEF Publish, Types
    <3>2. Paper(r).id = r /\ Paper(r).text = {r} /\ Paper(r).url = {r}
      BY <2>1 DEF Paper, Own, OwnText, OwnUrl, Waiting
    <3>3. ASSUME NEW i \in 1..Len(papers')
          PROVE  papers'[i].text = {papers'[i].id} /\ papers'[i].url = {papers'[i].id}
      <4>1. Len(papers') = Len(papers) + 1 /\ Len(papers) \in Nat
        BY <3>1
      <4>2. CASE i \in 1..Len(papers)
        BY <3>1, <4>1, <4>2 DEF Own, PaperIntegrity
      <4>3. CASE i = Len(papers) + 1
        BY <3>1, <3>2, <4>1, <4>3
      <4>4. QED  BY <4>1, <4>2, <4>3
    <3>4. QED  BY <3>3 DEF PaperIntegrity
  <2>7. QED  BY <2>3, <2>4, <2>5, <2>6 DEF Own
<1>9. CASE Exit
  <2>1. \A r \in Upload : upload'[r].name = upload[r].name /\ upload'[r].state \notin Waiting
    BY <1>9, Exiting DEF Waiting
  <2>2. papers' = << >> /\ UNCHANGED << disk, clock >>
    BY <1>9 DEF Exit
  <2>3. Alone' /\ Named'
    BY <2>1, <2>2, OwnNames
  <2>4. OwnFile'
    BY <2>1, <2>2 DEF Own, OwnFile
  <2>5. OwnText' /\ OwnUrl'
    BY <2>1 DEF OwnText, OwnUrl, Waiting
  <2>6. PaperIntegrity'
    BY <2>2 DEF PaperIntegrity
  <2>7. QED  BY <2>3, <2>4, <2>5, <2>6 DEF Own
<1>10. CASE BootLogin \/ Crash
  BY <1>1, <1>9, <1>10 DEF BootLogin, Crash
<1>11. CASE \/ Start \/ UNCHANGED vars
            \/ \E q \in Query : SearchArrives(q) \/ SearchAnswers(q)
  BY <1>1, <1>11 DEF Start, SearchArrives, SearchAnswers, vars
<1>12. QED
  BY <1>2, <1>3, <1>4, <1>5, <1>6, <1>7, <1>8, <1>10, <1>11 DEF Next, Continue

(* If no two uploads share a millisecond, a listed paper has the text and  *)
(* the content of its own upload, for any number of them (server.js:17,    *)
(* 53, 109).                                                               *)
THEOREM PapersIntegral == 0 \notin ClockStep => (Spec => []PaperIntegrity)
<1> SUFFICES ASSUME 0 \notin ClockStep  PROVE Spec => []PaperIntegrity
  OBVIOUS
<1>1. Own /\ IInv /\ [Next]_vars => Own'
  BY OwnStep, SameTypes DEF IInv
<1>2. Own => PaperIntegrity
  BY DEF Own
<1>3. QED  BY OwnInit, <1>1, <1>2, Invariant, PTL DEF Spec

-----------------------------------------------------------------------------
(* A set with 0, and with n + 1 for each n in it, has all numbers.         *)
LEMMA NatSetInduction ==
  ASSUME NEW T, 0 \in T, \A n \in Nat : n \in T => n + 1 \in T
  PROVE  \A n \in Nat : n \in T
<1> DEFINE Below   == {ss \in Nat \X Nat : ss[1] < ss[2]}
           Missing == {n \in Nat : n \notin T}
<1>1. SUFFICES ASSUME Missing # {} PROVE FALSE
  OBVIOUS
<1>2. IsWellFoundedOn(Below, Nat)
  BY NatLessThanWellFounded DEF OpToRel
<1>3. PICK x \in Missing : \A y \in Missing : ~ (<< y, x >> \in Below)
  <2>1. Missing \subseteq Nat
    OBVIOUS
  <2> HIDE DEF Below, Missing
  <2> QED
    BY <1>1, <1>2, <2>1, WFMin, Zenon
<1>4. \A y \in Missing : ~ (y < x)
  BY <1>3
<1>5. x \in Nat /\ x # 0 /\ x - 1 \in Nat
  OBVIOUS
<1>6. x - 1 \in T
  <2>1. x - 1 \notin Missing
    BY <1>4, <1>5
  <2> QED
    BY <1>5, <2>1
<1> QED
  BY <1>5, <1>6

(* Joining a character with one or two others.                             *)
LEMMA JoinOne ==
  ASSUME NEW c \in Int, NEW d \in Int PROVE << c >> \o << d >> = << c, d >>
<1> DEFINE s == << c >> \o << d >>
           t == << c, d >>
<1>1. s \in Seq(Int) /\ Len(s) = 2 /\ s[1] = c /\ s[2] = d
  OBVIOUS
<1>2. t \in Seq(Int) /\ Len(t) = 2 /\ t[1] = c /\ t[2] = d
  OBVIOUS
<1> HIDE DEF s, t
<1>3. \A i \in 1..Len(s) : s[i] = t[i]
  <2> TAKE i \in 1..Len(s)
  <2>1. i = 1 \/ i = 2
    BY <1>1
  <2> QED BY <2>1, <1>1, <1>2
<1>4. s = t
  BY <1>1, <1>2, <1>3, SeqEqual
<1> QED BY <1>4 DEF s, t

LEMMA JoinTwo ==
  ASSUME NEW c \in Int, NEW d \in Int, NEW e \in Int
  PROVE  << c >> \o << d, e >> = << c, d, e >>
<1> DEFINE s == << c >> \o << d, e >>
           t == << c, d, e >>
<1>1. s \in Seq(Int) /\ Len(s) = 3 /\ s[1] = c /\ s[2] = d /\ s[3] = e
  OBVIOUS
<1>2. t \in Seq(Int) /\ Len(t) = 3 /\ t[1] = c /\ t[2] = d /\ t[3] = e
  OBVIOUS
<1> HIDE DEF s, t
<1>3. \A i \in 1..Len(s) : s[i] = t[i]
  <2> TAKE i \in 1..Len(s)
  <2>1. i = 1 \/ i = 2 \/ i = 3
    BY <1>1
  <2> QED BY <2>1, <1>1, <1>2
<1>4. s = t
  BY <1>1, <1>2, <1>3, SeqEqual
<1> QED BY <1>4 DEF s, t

-----------------------------------------------------------------------------
(* The digits, and Sign.                                                   *)
Character == -1..15

(* What the string of a component is made of.                              *)
LEMMA HexShape ==
  ASSUME NEW n \in Component
  PROVE  /\ Hex(n) \in Seq(Character) /\ Len(Hex(n)) = IF n > -16 THEN 2 ELSE 3
         /\ \A i \in 1..Len(Hex(n)) :
              Hex(n)[i] = Sign => i < Len(Hex(n)) /\ Hex(n)[i + 1] # Sign
         /\ LET read == ParseInt(<< Hex(n)[1], Hex(n)[2] >>)
            IN  IF n > -16 THEN read = n ELSE read # n /\ read # 0
<1>1. CASE n \in 0..15
  <2>1. Hex(n) = << 0, n >>
    BY <1>1, JoinOne DEF Hex, PadStart, Digits, ToHex
  <2> QED BY <1>1, <2>1 DEF ParseInt, Number, Sign, Character
<1>2. CASE n \in 16..255
  <2>1. Hex(n) = << n \div 16, n % 16 >>
    BY <1>2 DEF Hex, PadStart, Digits, ToHex
  <2>2. /\ n \div 16 \in 0..15 /\ n % 16 \in 0..15
        /\ 16 * (n \div 16) + (n % 16) = n
    BY <1>2
  <2> QED BY <1>2, <2>1, <2>2 DEF ParseInt, Number, Sign, Character
<1>3. CASE n \in -15..-1
  <2>1. Hex(n) = << Sign, -n >>
    <3>1. Digits(-n) = << -n >>
      BY <1>3 DEF Digits
    <3>2. << Sign >> \o << -n >> = << Sign, -n >>
      BY <1>3, JoinOne DEF Sign
    <3>3. n < 0
      BY <1>3
    <3>4. ToHex(n) = << Sign >> \o Digits(-n)
      BY <3>3, Zenon DEF ToHex
    <3>5. ToHex(n) = << Sign, -n >>
      BY <3>1, <3>2, <3>4, Zenon
    <3> QED BY <3>5 DEF Hex, PadStart
  <2> QED BY <1>3, <2>1 DEF ParseInt, Sign, Character
<1>4. CASE n \in -255..-16
  <2>1. PICK m \in 16..255 : m = -n
    BY <1>4
  <2>2. Hex(n) = << Sign, m \div 16, m % 16 >>
    <3>1. Digits(m) = << m \div 16, m % 16 >>
      BY DEF Digits
    <3>2. << Sign >> \o << m \div 16, m % 16 >> = << Sign, m \div 16, m % 16 >>
      BY JoinTwo DEF Sign
    <3>3. n < 0
      BY <1>4
    <3>4. ToHex(n) = << Sign >> \o Digits(-n)
      BY <3>3, Zenon DEF ToHex
    <3>5. ToHex(n) = << Sign, m \div 16, m % 16 >>
      BY <2>1, <3>1, <3>2, <3>4, Zenon
    <3> QED BY <3>5 DEF Hex, PadStart
  <2>3. m \div 16 \in 1..15 /\ m % 16 \in 0..15
    BY <2>1
  <2> HIDE DEF Hex
  <2>4. ParseInt(<< Hex(n)[1], Hex(n)[2] >>) = -(m \div 16)
    BY <2>2, <2>3 DEF ParseInt, Sign
  <2> QED BY <1>4, <2>2, <2>3, <2>4 DEF Sign, Character
<1> QED BY <1>1, <1>2, <1>3, <1>4 DEF Component

(* Every component down to -15 is two characters that parseInt reads as    *)
(* that component, and every smaller one is three, whose first two are     *)
(* another number: the encoding (server.js:183, 207) and hexToVector       *)
(* (server.js:88-91) fit together down to -15 and no further.              *)
THEOREM ComponentBoundary ==
  ASSUME NEW n \in Component
  PROVE  IF n > -16 THEN Len(Hex(n)) = 2 /\ ParseInt(Hex(n)) = n
                    ELSE Len(Hex(n)) = 3 /\ ParseInt(<< Hex(n)[1], Hex(n)[2] >>) # n
BY HexShape

-----------------------------------------------------------------------------
(* flat[i] joins the first i strings of hs.                                *)
Join(s, t) == s \o t

Flattens(flat, hs, n) ==
  flat = [i \in 1..n |-> IF i = 1 THEN hs[i] ELSE Join(flat[i - 1], hs[i])]

LEMMA FlattensExist ==
  ASSUME NEW hs
  PROVE  \A n \in Nat : \E f : Flattens(f, hs, n)
<1> DEFINE T == {n \in Nat : \E f : Flattens(f, hs, n)}
<1>1. 0 \in T
  <2> DEFINE f == [i \in 1..0 |-> hs[i]]
  <2>1. Flattens(f, hs, 0)
    BY DEF Flattens
  <2> HIDE DEF f
  <2> QED
    BY <2>1
<1>2. ASSUME NEW n \in Nat, n \in T  PROVE n + 1 \in T
  <2>1. PICK f : Flattens(f, hs, n)
    BY <1>2
  <2> DEFINE g == [i \in 1..(n + 1) |-> IF i <= n THEN f[i]
                                        ELSE IF i = 1 THEN hs[i] ELSE Join(f[n], hs[i])]
  <2>2. ASSUME NEW i \in 1..(n + 1)
        PROVE  g[i] = IF i = 1 THEN hs[i] ELSE Join(g[i - 1], hs[i])
    <3>1. CASE i <= n
      BY <2>1, <3>1 DEF Flattens
    <3>2. CASE i = n + 1
      BY <3>2
    <3> QED
      BY <3>1, <3>2
  <2>3. Flattens(g, hs, n + 1)
    <3>1. g = [i \in 1..(n + 1) |-> g[i]]
      OBVIOUS
    <3> HIDE DEF g
    <3> QED
      BY <2>2, <3>1 DEF Flattens
  <2> HIDE DEF g
  <2> QED
    BY <2>3
<1> HIDE DEF T
<1>3. \A n \in Nat : n \in T
  BY <1>1, <1>2, NatSetInduction
<1> QED
  BY <1>3 DEF T

(* text[k] is the string of the first k components of v.                   *)
Texts(text, v) ==
  /\ text[0] = << >>
  /\ \A k \in Nat : k + 1 <= Len(v) => text[k + 1] = text[k] \o Hex(v[k + 1])

LEMMA EncodeTexts ==
  ASSUME NEW v \in Seq(Component)
  PROVE  \E text : Texts(text, v) /\ Encode(v) = text[Len(v)]
<1> DEFINE n  == Len(v)
           hs == [i \in 1..n |-> Hex(v[i])]
           f  == CHOOSE f : Flattens(f, hs, n)
<1>1. n \in Nat /\ \A i \in 1..n : v[i] \in Component
  BY LenProperties, ElementOfSeq
<1>2. Flattens(f, hs, n)
  <2> HIDE DEF hs, n
  <2>1. \E g : Flattens(g, hs, n)
    BY <1>1, FlattensExist
  <2> QED
    BY <2>1
<1>3. Len(hs) = n
  BY <1>1
<1>4. Encode(v) = IF n = 0 THEN hs ELSE f[n]
  <2>1. Encode(v) = FlattenSeq(hs)
    BY DEF Encode
  <2> HIDE DEF hs, n
  <2>2. FlattenSeq(hs) = IF n = 0 THEN hs ELSE f[n]
    BY <1>3 DEF FlattenSeq, Flattens, Join
  <2> QED
    BY <2>1, <2>2
<1> HIDE DEF f
<1> DEFINE text == [k \in 0..n |-> IF k = 0 THEN << >> ELSE f[k]]
<1>5. ASSUME NEW k \in Nat, k + 1 <= n  PROVE text[k + 1] = text[k] \o Hex(v[k + 1])
  <2>1. k + 1 \in 1..n /\ hs[k + 1] = Hex(v[k + 1])
    BY <1>1, <1>5
  <2>2. text[k + 1] = f[k + 1] /\ text[k] = IF k = 0 THEN << >> ELSE f[k]
    BY <1>1, <1>5
  <2>3. v[k + 1] \in Component
    BY <1>1, <2>1
  <2> HIDE DEF hs, text
  <2>4. Hex(v[k + 1]) \in Seq(Character)
    BY <2>3, HexShape
  <2>5. CASE k = 0
    <3>1. f[1] = hs[1]
      BY <1>2, <2>1, <2>5 DEF Flattens
    <3>2. << >> \o Hex(v[k + 1]) = Hex(v[k + 1])
      BY <2>4
    <3> QED
      BY <2>1, <2>2, <2>5, <3>1, <3>2
  <2>6. CASE k > 0
    <3>1. f[k + 1] = Join(f[k], hs[k + 1])
      BY <1>2, <2>1, <2>6 DEF Flattens
    <3>2. text[k + 1] = Join(text[k], Hex(v[k + 1]))
      BY <2>1, <2>2, <2>6, <3>1
    <3> QED
      BY <3>2 DEF Join
  <2>7. k = 0 \/ k > 0
    OBVIOUS
  <2> QED
    BY <2>5, <2>6, <2>7, Zenon
<1>6. Encode(v) = text[n] /\ text[0] = << >>
  <2>1. CASE n = 0
    <3>1. hs = << >>
      BY <2>1
    <3> QED
      BY <1>1, <1>4, <2>1, <3>1
  <2>2. CASE n # 0
    BY <1>1, <1>4, <2>2
  <2> QED
    BY <2>1, <2>2
<1> HIDE DEF text
<1>7. Texts(text, v)
  BY <1>5, <1>6 DEF Texts
<1> QED
  BY <1>6, <1>7

-----------------------------------------------------------------------------
(* The components among the first k that take three characters.            *)
WideTo(v, k) == {i \in 1..k : v[i] <= -16}

(* No sign is the last character or stands before another.                 *)
SignsApart(s) == \A i \in 1..Len(s) : s[i] = Sign => i < Len(s) /\ s[i + 1] # Sign

(* Up to the first wide component, that included, each component begins at *)
(* a pair.                                                                 *)
Aligned(s, v, k) ==
  \A j \in 0..(k - 1) : WideTo(v, j) = {} =>
    s[2*j + 1] = Hex(v[j + 1])[1] /\ s[2*j + 2] = Hex(v[j + 1])[2]

InOrder(s, v, k) ==
  /\ s \in Seq(Character)
  /\ IsFiniteSet(WideTo(v, k)) /\ Len(s) = 2 * k + Cardinality(WideTo(v, k))
  /\ SignsApart(s)
  /\ Aligned(s, v, k)

(* A concatenation, by its two parts.                                      *)
LEMMA Concatenated ==
  ASSUME NEW S, NEW s \in Seq(S), NEW h \in Seq(S)
  PROVE  /\ s \o h \in Seq(S) /\ Len(s \o h) = Len(s) + Len(h)
         /\ \A i \in 1..Len(s) : (s \o h)[i] = s[i]
         /\ \A i \in 1..Len(h) : (s \o h)[Len(s) + i] = h[i]
<1>1. Len(s) \in Nat /\ Len(h) \in Nat
  BY LenProperties
<1> QED
  BY <1>1

(* One component more.                                                     *)
LEMMA WideNext ==
  ASSUME NEW v \in Seq(Component), NEW k \in Nat, k + 1 <= Len(v), IsFiniteSet(WideTo(v, k))
  PROVE  /\ IsFiniteSet(WideTo(v, k + 1))
         /\ Cardinality(WideTo(v, k)) \in Nat
         /\ Cardinality(WideTo(v, k + 1)) =
              Cardinality(WideTo(v, k)) + IF v[k + 1] > -16 THEN 0 ELSE 1
<1> DEFINE W == WideTo(v, k)
<1>1. v[k + 1] \in Component
  BY LenProperties, ElementOfSeq
<1>2. v[k + 1] \in Int
  <2>1. Component \subseteq Int
    BY DEF Component
  <2> QED
    BY <1>1, <2>1, Zenon
<1>3. WideTo(v, k + 1) = IF v[k + 1] > -16 THEN W ELSE W \cup {k + 1}
  <2>1. 1..(k + 1) = (1..k) \cup {k + 1}
    OBVIOUS
  <2>2. CASE v[k + 1] > -16
    BY <1>2, <2>1, <2>2 DEF WideTo
  <2>3. CASE ~ (v[k + 1] > -16)
    BY <1>2, <2>1, <2>3 DEF WideTo
  <2> QED
    BY <2>2, <2>3
<1>4. k + 1 \notin W
  BY DEF WideTo
<1>5. Cardinality(W) \in Nat
  BY FS_CardinalityType
<1>6. IsFiniteSet(W \cup {k + 1}) /\ Cardinality(W \cup {k + 1}) = Cardinality(W) + 1
  <2> HIDE DEF W
  <2> QED
    BY <1>4, FS_AddElement DEF W
<1> QED
  BY <1>2, <1>3, <1>5, <1>6

LEMMA TextsInOrder ==
  ASSUME NEW v \in Seq(Component), NEW text, Texts(text, v)
  PROVE  \A k \in 0..Len(v) : InOrder(text[k], v, k)
<1> DEFINE n == Len(v)
           T == {k \in Nat : k <= n => InOrder(text[k], v, k)}
<1>1. n \in Nat /\ \A i \in 1..n : v[i] \in Component
  BY LenProperties, ElementOfSeq
<1>2. 0 \in T
  <2>1. text[0] = << >>
    BY DEF Texts
  <2>2. WideTo(v, 0) = {}
    BY DEF WideTo
  <2>3. IsFiniteSet({}) /\ Cardinality({}) = 0
    BY FS_EmptySet
  <2>4. SignsApart(<< >>) /\ Aligned(<< >>, v, 0)
    BY DEF SignsApart, Aligned
  <2>5. InOrder(<< >>, v, 0)
    <3>1. << >> \in Seq(Character) /\ Len(<< >>) = 0 /\ 0 = 2 * 0 + 0
      OBVIOUS
    <3> QED
      BY <2>2, <2>3, <2>4, <3>1, Zenon DEF InOrder
  <2> QED
    BY <2>1, <2>5
<1>3. ASSUME NEW k \in Nat, k \in T  PROVE k + 1 \in T
  <2>1. SUFFICES ASSUME k + 1 <= n  PROVE InOrder(text[k + 1], v, k + 1)
    OBVIOUS
  <2> DEFINE s == text[k]
             h == Hex(v[k + 1])
             t == text[k + 1]
             l == Len(s)
             d == Len(h)
             w == Cardinality(WideTo(v, k))
  <2>2. InOrder(s, v, k)
    BY <1>1, <1>3, <2>1
  <2>3. t = s \o h
    BY <2>1 DEF Texts
  <2>4. v[k + 1] \in Component
    BY <1>1, <2>1
  <2>5. /\ h \in Seq(Character) /\ d = IF v[k + 1] > -16 THEN 2 ELSE 3
        /\ SignsApart(h)
    BY <2>4, HexShape DEF SignsApart
  <2>6. s \in Seq(Character) /\ l = 2 * k + w /\ SignsApart(s) /\ Aligned(s, v, k)
    BY <2>2 DEF InOrder
  <2>7. /\ IsFiniteSet(WideTo(v, k + 1)) /\ w \in Nat
        /\ Cardinality(WideTo(v, k + 1)) = w + IF v[k + 1] > -16 THEN 0 ELSE 1
    <3>1. IsFiniteSet(WideTo(v, k))
      BY <2>2 DEF InOrder
    <3> QED
      BY <2>1, <3>1, WideNext
  <2> HIDE DEF s, h, t, w, n, l, d
  <2>8. /\ t \in Seq(Character) /\ l \in Nat /\ d \in {2, 3} /\ Len(t) = l + d
        /\ \A i \in 1..l : t[i] = s[i]
        /\ \A i \in 1..d : t[l + i] = h[i]
    <3>1. l \in Nat /\ d \in {2, 3}
      BY <2>5, <2>6, <2>7
    <3>2. s \in Seq(Character) /\ h \in Seq(Character)
      BY <2>5, <2>6
    <3>3. /\ t \in Seq(Character) /\ Len(t) = l + d
          /\ \A i \in 1..l : t[i] = s[i]
          /\ \A i \in 1..d : t[l + i] = h[i]
      <4>1. /\ s \o h \in Seq(Character) /\ Len(s \o h) = Len(s) + Len(h)
            /\ \A i \in 1..Len(s) : (s \o h)[i] = s[i]
            /\ \A i \in 1..Len(h) : (s \o h)[Len(s) + i] = h[i]
        BY <3>2, Concatenated
      <4> QED
        BY <2>3, <4>1, Zenon DEF l, d
    <3> QED
      BY <3>1, <3>3
  <2>9. Len(t) = 2 * (k + 1) + Cardinality(WideTo(v, k + 1))
    <3> DEFINE u == Cardinality(WideTo(v, k + 1))
    <3>1. u = w + IF v[k + 1] > -16 THEN 0 ELSE 1
      BY <2>7
    <3>2. d = IF v[k + 1] > -16 THEN 2 ELSE 3
      BY <2>5
    <3> HIDE DEF u
    <3>3. l + d = 2 * (k + 1) + u
      <4>1. l = 2 * k + w /\ w \in Nat
        BY <2>6, <2>7
      <4>2. CASE v[k + 1] > -16
        <5>1. u = w /\ d = 2
          BY <3>1, <3>2, <4>1, <4>2
        <5> QED
          BY <4>1, <5>1
      <4>3. CASE ~ (v[k + 1] > -16)
        <5>1. u = w + 1 /\ d = 3
          BY <3>1, <3>2, <4>1, <4>3
        <5> QED
          BY <4>1, <5>1
      <4> QED
        BY <4>2, <4>3
    <3> QED
      BY <2>8, <3>3 DEF u
  <2>10. SignsApart(t)
    <3>1. SUFFICES ASSUME NEW i \in 1..(l + d), t[i] = Sign
                   PROVE  i < l + d /\ t[i + 1] # Sign
      BY <2>8 DEF SignsApart
    <3>2. CASE i \in 1..l
      <4>1. s[i] = Sign
        BY <2>8, <3>1, <3>2
      <4>2. i < l /\ s[i + 1] # Sign
        BY <2>6, <3>2, <4>1 DEF SignsApart, l
      <4>3. i + 1 \in 1..l
        BY <2>8, <3>2, <4>2
      <4> QED
        BY <2>8, <4>2, <4>3
    <3>3. CASE i \in (l + 1)..(l + d)
      <4>1. PICK j \in 1..d : i = l + j
        <5>1. i - l \in 1..d /\ i = l + (i - l)
          BY <2>8, <3>3
        <5> QED
          BY <5>1
      <4>2. h[j] = Sign
        BY <2>8, <3>1, <4>1
      <4>3. j < d /\ h[j + 1] # Sign
        BY <2>5, <4>2 DEF SignsApart, d
      <4>4. j + 1 \in 1..d /\ i + 1 = l + (j + 1)
        BY <2>8, <4>1, <4>3
      <4>5. t[l + (j + 1)] = h[j + 1]
        BY <2>8, <4>4
      <4> QED
        BY <2>8, <4>1, <4>3, <4>4, <4>5
    <3> QED
      BY <2>8, <3>2, <3>3
  <2>11. Aligned(t, v, k + 1)
    <3>1. SUFFICES ASSUME NEW j \in 0..k, WideTo(v, j) = {}
                   PROVE  t[2*j + 1] = Hex(v[j + 1])[1] /\ t[2*j + 2] = Hex(v[j + 1])[2]
      BY DEF Aligned
    <3>2. CASE j < k
      <4>1. s[2*j + 1] = Hex(v[j + 1])[1] /\ s[2*j + 2] = Hex(v[j + 1])[2]
        <5>1. j \in 0..(k - 1)
          BY <3>2
        <5>2. Aligned(s, v, k)
          BY <2>6
        <5> QED
          BY <3>1, <5>1, <5>2, Zenon DEF Aligned
      <4>2. 2*j + 1 \in 1..l /\ 2*j + 2 \in 1..l
        BY <2>6, <2>7, <3>2
      <4> QED
        BY <2>8, <4>1, <4>2
    <3>3. CASE j = k
      <4>1. w = 0
        BY <3>1, <3>3, FS_EmptySet DEF w
      <4>2. l = 2 * j
        BY <2>6, <3>3, <4>1
      <4>3. t[l + 1] = h[1] /\ t[l + 2] = h[2]
        <5>1. 1 \in 1..d /\ 2 \in 1..d
          BY <2>8
        <5> QED
          BY <2>8, <5>1
      <4> QED
        BY <3>3, <4>2, <4>3 DEF h
    <3> QED
      BY <3>2, <3>3
  <2> QED
    BY <2>7, <2>8, <2>9, <2>10, <2>11 DEF InOrder, t
<1> HIDE DEF T
<1>4. \A k \in Nat : k \in T
  BY <1>2, <1>3, NatSetInduction
<1> QED
  BY <1>1, <1>4 DEF T

(* The string of a vector, and the pairs that it is read in.               *)
LEMMA EncodeInOrder ==
  ASSUME NEW v \in Seq(Component)
  PROVE  InOrder(Encode(v), v, Len(v))
<1>1. PICK text : Texts(text, v) /\ Encode(v) = text[Len(v)]
  BY EncodeTexts
<1>2. Len(v) \in 0..Len(v)
  BY LenProperties
<1> QED
  BY <1>1, <1>2, TextsInOrder

(* How a string is read.                                                   *)
LEMMA ReadInPairs ==
  ASSUME NEW s, NEW l \in Nat, Len(s) = l
  PROVE  /\ Len(Decode(s)) = (l + 1) \div 2
         /\ \A i \in 1..((l + 1) \div 2) :
              Decode(s)[i] = ParseInt(IF 2 * i <= l THEN << s[2*i - 1], s[2*i] >>
                                                    ELSE << s[2*i - 1] >>)
<1> DEFINE m == (l + 1) \div 2
<1>1. m \in Nat
  OBVIOUS
<1>2. /\ Len(Pairs(s)) = m
      /\ \A i \in 1..m : Pairs(s)[i] = IF 2 * i <= l THEN << s[2*i - 1], s[2*i] >>
                                                     ELSE << s[2*i - 1] >>
  BY <1>1 DEF Pairs
<1> HIDE DEF m
<1>3. Len(Decode(s)) = m /\ \A i \in 1..m : Decode(s)[i] = ParseInt(Pairs(s)[i])
  BY <1>1, <1>2 DEF Decode
<1>4. ASSUME NEW i \in 1..m
      PROVE  Decode(s)[i] = ParseInt(IF 2 * i <= l THEN << s[2*i - 1], s[2*i] >>
                                                   ELSE << s[2*i - 1] >>)
  BY <1>2, <1>3, Zenon
<1> QED
  BY <1>3, <1>4 DEF m

(* What is read is a number wherever it begins: a sign has a digit behind  *)
(* it.                                                                     *)
LEMMA AllNumbers ==
  ASSUME NEW s \in Seq(Character), SignsApart(s)
  PROVE  \A i \in 1..Len(Decode(s)) : Decode(s)[i] # NaN
<1> DEFINE l == Len(s)
<1>1. l \in Nat /\ \A i \in 1..l : s[i] \in Character
  BY LenProperties, ElementOfSeq
<1>2. \A i \in 1..l : s[i] = Sign => i < l /\ s[i + 1] # Sign
  BY DEF SignsApart
<1> HIDE DEF l
<1>3. SUFFICES ASSUME NEW i \in 1..((l + 1) \div 2)  PROVE Decode(s)[i] # NaN
  BY <1>1, ReadInPairs DEF l
<1>4. Decode(s)[i] = ParseInt(IF 2 * i <= l THEN << s[2*i - 1], s[2*i] >> ELSE << s[2*i - 1] >>)
  BY <1>1, ReadInPairs DEF l
<1>5. 2*i - 1 \in 1..l /\ s[2*i - 1] \in Character
  BY <1>1
<1>6. CASE 2 * i <= l
  <2>1. 2*i \in 1..l /\ s[2*i] \in Character /\ 2*i - 1 + 1 = 2*i
    BY <1>1, <1>6
  <2> DEFINE a == s[2*i - 1]
             b == s[2*i]
  <2>2. a = Sign => b # Sign
    BY <1>2, <1>5, <2>1
  <2>3. a \in -1..15 /\ b \in -1..15
    BY <1>5, <2>1 DEF Character
  <2>4. Decode(s)[i] = ParseInt(<< a, b >>)
    BY <1>4, <1>6
  <2> HIDE DEF a, b
  <2>5. ParseInt(<< a, b >>) # NaN
    <3> DEFINE p == << a, b >>
    <3>1. Len(p) = 2 /\ p[1] = a /\ p[2] = b
      OBVIOUS
    <3> HIDE DEF p
    <3>2. ParseInt(p) # NaN
      BY <2>2, <2>3, <3>1 DEF ParseInt, Number, Sign, NaN
    <3> QED
      BY <3>2 DEF p
  <2> QED
    BY <2>4, <2>5
<1>7. CASE ~ (2 * i <= l)
  <2>1. 2*i - 1 = l
    BY <1>1, <1>5, <1>7
  <2> DEFINE a == s[2*i - 1]
  <2>2. a # Sign
    BY <1>2, <1>5, <2>1
  <2>3. a \in -1..15
    BY <1>5 DEF Character
  <2>4. Decode(s)[i] = ParseInt(<< a >>)
    BY <1>4, <1>7
  <2> HIDE DEF a
  <2>5. ParseInt(<< a >>) # NaN
    <3> DEFINE p == << a >>
    <3>1. Len(p) = 1 /\ p[1] = a
      OBVIOUS
    <3> HIDE DEF p
    <3>2. ParseInt(p) # NaN
      BY <2>2, <2>3, <3>1 DEF ParseInt, Number, Sign, NaN
    <3> QED
      BY <3>2 DEF p
  <2> QED
    BY <2>4, <2>5
<1> QED
  BY <1>6, <1>7

(* A vector, read back: each component up to the first wide one is what it *)
(* was, and a wide one at that place is not taken for 0.                   *)
LEMMA ReadBack ==
  ASSUME NEW v \in Seq(Component)
  PROVE  /\ Len(Decode(Encode(v))) =
              Len(v) + (Cardinality(WideTo(v, Len(v))) + 1) \div 2
         /\ Cardinality(WideTo(v, Len(v))) \in Nat
         /\ \A i \in 1..Len(Decode(Encode(v))) : Decode(Encode(v))[i] # NaN
         /\ \A j \in 0..(Len(v) - 1) : WideTo(v, j) = {} =>
              LET read == Decode(Encode(v))[j + 1]
              IN  IF v[j + 1] > -16 THEN read = v[j + 1] ELSE read # 0
<1> DEFINE s == Encode(v)
           n == Len(v)
           w == Cardinality(WideTo(v, n))
           l == Len(s)
<1>1. s \in Seq(Character) /\ SignsApart(s) /\ Aligned(s, v, n)
      /\ l = 2 * n + w /\ IsFiniteSet(WideTo(v, n))
  BY EncodeInOrder DEF InOrder
<1>2. n \in Nat /\ \A i \in 1..n : v[i] \in Component
  BY LenProperties, ElementOfSeq
<1>3. w \in Nat
  BY <1>1, FS_CardinalityType
<1> HIDE DEF s, w
<1>4. \A i \in 1..Len(Decode(s)) : Decode(s)[i] # NaN
  BY <1>1, AllNumbers
<1> HIDE DEF n, l
<1>5. l \in Nat
  BY <1>1, <1>2, <1>3
<1>6. /\ Len(Decode(s)) = (l + 1) \div 2
      /\ \A i \in 1..((l + 1) \div 2) :
           Decode(s)[i] = ParseInt(IF 2 * i <= l THEN << s[2*i - 1], s[2*i] >>
                                                 ELSE << s[2*i - 1] >>)
  BY <1>5, ReadInPairs DEF l
<1>7. (l + 1) \div 2 = n + (w + 1) \div 2
  BY <1>1, <1>2, <1>3
<1>8. ASSUME NEW j \in 0..(n - 1), WideTo(v, j) = {}
      PROVE  IF v[j + 1] > -16 THEN Decode(s)[j + 1] = v[j + 1] ELSE Decode(s)[j + 1] # 0
  <2> DEFINE h == Hex(v[j + 1])
  <2>1. j + 1 \in 1..((l + 1) \div 2) /\ 2 * (j + 1) <= l
        /\ 2 * (j + 1) - 1 = 2*j + 1 /\ 2 * (j + 1) = 2*j + 2
    BY <1>1, <1>2, <1>3
  <2>2. Decode(s)[j + 1] = ParseInt(<< s[2*j + 1], s[2*j + 2] >>)
    BY <1>6, <2>1
  <2>3. s[2*j + 1] = h[1] /\ s[2*j + 2] = h[2]
    BY <1>1, <1>8 DEF Aligned
  <2>4. v[j + 1] \in Component
    BY <1>2
  <2>5. LET read == ParseInt(<< h[1], h[2] >>)
        IN  IF v[j + 1] > -16 THEN read = v[j + 1] ELSE read # 0
    BY <2>4, HexShape
  <2> HIDE DEF h
  <2> QED
    BY <2>2, <2>3, <2>5
<1>9. Len(Decode(s)) = n + (w + 1) \div 2
  BY <1>6, <1>7
<1> QED
  BY <1>3, <1>4, <1>8, <1>9 DEF s, n, w

(* A vector is read as zero exactly if it is.                              *)
LEMMA ZeroReadBack ==
  ASSUME NEW v \in Seq(Component)
  PROVE  IsZero(Decode(Encode(v))) <=> IsZero(v)
<1> DEFINE n == Len(v)
           r == Decode(Encode(v))
           w == Cardinality(WideTo(v, n))
<1>1. n \in Nat /\ \A i \in 1..n : v[i] \in Int
  <2>1. n \in Nat /\ \A i \in 1..n : v[i] \in Component
    BY LenProperties, ElementOfSeq
  <2>2. Component \subseteq Int
    BY DEF Component
  <2> QED
    BY <2>1, <2>2
<1>2. /\ Len(r) = n + (w + 1) \div 2 /\ w \in Nat
      /\ \A j \in 0..(n - 1) : WideTo(v, j) = {} =>
           IF v[j + 1] > -16 THEN r[j + 1] = v[j + 1] ELSE r[j + 1] # 0
  BY ReadBack
<1> HIDE DEF r
<1>3. ASSUME IsZero(v)  PROVE IsZero(r)
  <2>1. \A i \in 1..n : v[i] = 0
    BY <1>3 DEF IsZero
  <2>2. \A j \in 0..n : WideTo(v, j) = {}
    BY <1>1, <2>1 DEF WideTo
  <2>3. w = 0
    <3>1. WideTo(v, n) = {}
      BY <1>1, <2>2
    <3> QED
      BY <3>1, FS_EmptySet
  <2>4. Len(r) = n
    <3> HIDE DEF n, w
    <3> QED
      BY <1>1, <1>2, <2>3
  <2>5. ASSUME NEW i \in 1..n  PROVE r[i] = 0
    <3>1. i - 1 \in 0..(n - 1) /\ i - 1 \in 0..n /\ i - 1 + 1 = i
      BY <1>1
    <3>2. v[i] = 0 /\ v[i] > -16
      BY <2>1
    <3> QED
      BY <1>2, <2>2, <3>1, <3>2
  <2> QED
    BY <2>4, <2>5 DEF IsZero
<1>4. ASSUME IsZero(r)  PROVE IsZero(v)
  <2>1. \A i \in 1..n : r[i] = 0
    <3> HIDE DEF n, w
    <3>1. 1..n \subseteq 1..Len(r)
      BY <1>1, <1>2
    <3> QED
      BY <1>4, <3>1 DEF IsZero
  <2> DEFINE T == {k \in Nat : k <= n => \A i \in 1..k : v[i] = 0}
  <2>2. 0 \in T
    OBVIOUS
  <2>3. ASSUME NEW k \in Nat, k \in T  PROVE k + 1 \in T
    <3>1. SUFFICES ASSUME k + 1 <= n  PROVE \A i \in 1..(k + 1) : v[i] = 0
      OBVIOUS
    <3>2. \A i \in 1..k : v[i] = 0
      BY <1>1, <2>3, <3>1
    <3>3. WideTo(v, k) = {}
      BY <3>2 DEF WideTo
    <3>4. k \in 0..(n - 1) /\ k + 1 \in 1..n
      BY <1>1, <3>1
    <3>5. r[k + 1] = 0
      BY <2>1, <3>4
    <3>6. v[k + 1] = 0
      BY <1>2, <3>3, <3>4, <3>5
    <3> QED
      BY <3>2, <3>6
  <2> HIDE DEF T
  <2>4. \A k \in Nat : k \in T
    BY <2>2, <2>3, NatSetInduction
  <2>5. \A i \in 1..n : v[i] = 0
    BY <1>1, <2>4 DEF T
  <2> QED
    BY <2>5 DEF IsZero
<1> QED
  BY <1>3, <1>4 DEF r

-----------------------------------------------------------------------------
(* The embeddings of a query and of a paper that Embed makes.              *)
Embedded ==
  query \in Seq(Component) /\ paper \in Seq(Component) /\ Len(query) = Len(paper)

LEMMA EmbeddedAlways == Embeddings => []Embedded
<1>1. Unembedded => Embedded
  BY DEF Unembedded, Embedded
<1>2. Embedded /\ [Embed]_<< query, paper >> => Embedded'
  <2> SUFFICES ASSUME Embedded, [Embed]_<< query, paper >>  PROVE Embedded'
    OBVIOUS
  <2>1. ASSUME NEW x \in Sample, NEW y \in Sample, Extend(x, y)  PROVE Embedded'
    <3>1. x \in Component /\ y \in Component
      BY SampleAssumption
    <3>2. query' = Append(query, x) /\ paper' = Append(paper, y)
      BY <2>1 DEF Extend
    <3>3. query \in Seq(Component) /\ paper \in Seq(Component) /\ Len(query) = Len(paper)
      BY DEF Embedded
    <3>4. query' \in Seq(Component) /\ Len(query') = Len(query) + 1
      BY <3>1, <3>2, <3>3, AppendProperties
    <3>5. paper' \in Seq(Component) /\ Len(paper') = Len(paper) + 1
      BY <3>1, <3>2, <3>3, AppendProperties
    <3> QED
      BY <3>3, <3>4, <3>5 DEF Embedded
  <2>2. CASE UNCHANGED << query, paper >>
    BY <2>2 DEF Embedded
  <2> QED
    BY <2>1, <2>2 DEF Embed
<1> QED
  BY <1>1, <1>2, PTL DEF Embeddings

(* For every length and all components: what comes before the first        *)
(* component of -16 or less is read back as it was sent (server.js:183,    *)
(* 88-91).                                                                 *)
THEOREM NarrowSurvives == Embeddings => []NarrowPrefixSurvives
<1>1. ASSUME Embedded  PROVE NarrowPrefixSurvives
  <2> DEFINE n == Len(paper)
             r == Decode(Encode(paper))
  <2>1. paper \in Seq(Component)
    BY <1>1 DEF Embedded
  <2>2. n \in Nat /\ \A i \in 1..n : paper[i] \in Int
    <3>1. n \in Nat /\ \A i \in 1..n : paper[i] \in Component
      BY <2>1, LenProperties, ElementOfSeq
    <3>2. Component \subseteq Int
      BY DEF Component
    <3> QED
      BY <3>1, <3>2
  <2>3. \A j \in 0..(n - 1) : WideTo(paper, j) = {} =>
          IF paper[j + 1] > -16 THEN r[j + 1] = paper[j + 1] ELSE r[j + 1] # 0
    BY <2>1, ReadBack
  <2> HIDE DEF r
  <2>4. ASSUME NEW k \in 1..n, \A i \in 1..k : i \notin Wide(paper)  PROVE r[k] = paper[k]
    <3>1. \A i \in 1..k : paper[i] > -16
      BY <2>2, <2>4 DEF Wide
    <3>2. PICK j \in 0..(n - 1) : j + 1 = k
      BY <2>2
    <3>3. WideTo(paper, j) = {}
      BY <2>2, <3>1, <3>2 DEF WideTo
    <3>4. IF paper[k] > -16 THEN r[k] = paper[k] ELSE r[k] # 0
      BY <2>3, <3>2, <3>3, Zenon
    <3>5. paper[k] > -16
      BY <2>2, <3>1
    <3> QED
      BY <3>4, <3>5
  <2> QED
    BY <2>4 DEF NarrowPrefixSurvives, r
<1> QED
  BY <1>1, EmbeddedAlways, PTL

(* For every length and all components: a search has a similarity for a    *)
(* paper exactly if neither is zero and the query, which every two         *)
(* components of -16 or less make longer by one, does not come out longer  *)
(* than the paper (server.js:93-101, 207-212).                             *)
THEOREM GapsExact == Embeddings => []SimilarityGaps
<1>1. ASSUME Embedded  PROVE SimilarityGaps
  <2> DEFINE a == Decode(Encode(query))
             b == Decode(Encode(paper))
             x == (Cardinality(Wide(query)) + 1) \div 2
             y == (Cardinality(Wide(paper)) + 1) \div 2
             n == Len(paper)
  <2>1. query \in Seq(Component) /\ paper \in Seq(Component) /\ Len(query) = n
    BY <1>1 DEF Embedded
  <2>2. n \in Nat
    BY <2>1, LenProperties
  <2>3. WideTo(query, n) = Wide(query) /\ WideTo(paper, n) = Wide(paper)
    BY <2>1 DEF WideTo, Wide
  <2>4. Len(a) = n + x /\ \A i \in 1..Len(a) : a[i] # NaN
    <3>1. Len(a) = Len(query) + (Cardinality(WideTo(query, Len(query))) + 1) \div 2
          /\ \A i \in 1..Len(a) : a[i] # NaN
      BY <2>1, ReadBack
    <3> QED
      BY <2>1, <2>3, <3>1, Zenon
  <2>5. Len(b) = n + y /\ \A i \in 1..Len(b) : b[i] # NaN
    <3>1. Len(b) = n + (Cardinality(WideTo(paper, n)) + 1) \div 2
          /\ \A i \in 1..Len(b) : b[i] # NaN
      BY <2>1, ReadBack
    <3> QED
      BY <2>3, <3>1, Zenon
  <2>6. x \in Nat /\ y \in Nat
    <3>1. Cardinality(Wide(query)) \in Nat /\ Cardinality(Wide(paper)) \in Nat
      <4>1. Cardinality(WideTo(query, Len(query))) \in Nat
            /\ Cardinality(WideTo(paper, n)) \in Nat
        BY <2>1, ReadBack
      <4> QED
        BY <2>1, <2>3, <4>1, Zenon
    <3> QED
      BY <3>1
  <2>7. IsZero(a) <=> IsZero(query)
    BY <2>1, ZeroReadBack
  <2>8. IsZero(b) <=> IsZero(paper)
    BY <2>1, ZeroReadBack
  <2> HIDE DEF a, b, x, y, n
  <2>9. DotDefined(a, b) <=> x <= y
    <3>1. DotDefined(a, b) <=> \A i \in 1..(n + x) : i <= n + y
      BY <2>2, <2>4, <2>5, <2>6 DEF DotDefined
    <3>2. ASSUME \A i \in 1..(n + x) : i <= n + y  PROVE x <= y
      <4>1. CASE n + x = 0
        BY <2>2, <2>6, <4>1
      <4>2. CASE n + x # 0
        <5>1. n + x \in 1..(n + x)
          BY <2>2, <2>6, <4>2
        <5> QED
          BY <2>2, <2>6, <3>2, <5>1
      <4> QED
        BY <4>1, <4>2
    <3>3. x <= y => \A i \in 1..(n + x) : i <= n + y
      BY <2>2, <2>6
    <3> QED
      BY <3>1, <3>2, <3>3
  <2>10. SimilarityDefined(Encode(query), Encode(paper))
           <=> DotDefined(a, b) /\ ~ IsZero(a) /\ ~ IsZero(b)
    BY <2>5 DEF SimilarityDefined, a, b
  <2>11. SimilarityDefined(Encode(query), Encode(paper))
           <=> x <= y /\ ~ IsZero(query) /\ ~ IsZero(paper)
    BY <2>7, <2>8, <2>9, <2>10, Zenon
  <2> QED
    BY <2>11, Zenon DEF SimilarityGaps, x, y
<1> QED
  BY <1>1, EmbeddedAlways, PTL

=============================================================================
