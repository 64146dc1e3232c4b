---------------------------- MODULE BackendServer ----------------------------
(***************************************************************************)
(* The Express server (backend/server.js).  Node runs one piece of         *)
(* JavaScript at a time, so an action is the code between two awaits and   *)
(* what the awaited call does; between two actions any other request may   *)
(* run.  The uploads directory and IPFS outlive the process, papers and    *)
(* the w3up client do not.                                                 *)
(*                                                                         *)
(* The content of a file is the set of the uploads whose bytes are in it:  *)
(* {r} for a file that holds the paper of upload r and nothing else, {}    *)
(* for a file that was opened and not written yet.                         *)
(***************************************************************************)
EXTENDS Integers, Sequences

CONSTANTS
  Upload,        \* the POST /upload requests of a behaviour
  Query,         \* the POST /search requests of a behaviour
  ClockStep,     \* by how many milliseconds Date.now() may advance from one
                 \* upload to the next: {1} when no two share a millisecond
  MaxStarts      \* bound of the model on how often the process is started

ASSUME ClockStepAssumption == ClockStep # {} /\ ClockStep \subseteq Nat
ASSUME MaxStartsAssumption == MaxStarts \in Nat \ {0}

VARIABLES
  upload,        \* each upload: where it is, its file, what was read of it
  search,        \* each search: where it is and the papers it returned
  papers,        \* let papers = []: text and url of each, by upload
  client,        \* whether w3upClient is set
  boot,          \* the process: "login" and "ready" when it runs, or "down"
  starts,        \* how often it has been started
  disk,          \* the uploads/ directory: content by file name
  ipfs,          \* the contents stored at IPFS
  clock          \* Date.now() as the last upload saw it

vars == << upload, search, papers, client, boot, starts, disk, ipfs, clock >>

Content == SUBSET Upload

Waiting == {"writing", "stored", "read", "extracted", "login", "connected", "reread",
            "pinned", "unlinked"}
Settled == {"rejected", "failed", "answered", "dropped"}

TypeOK ==
  /\ upload \in [Upload -> [state : {"unsent"} \cup Waiting \cup Settled, name : Nat,
                            text : Content, url : Content, run : 0..MaxStarts]]
  /\ search \in [Query -> [state : {"unsent", "embedding", "failed", "answered", "dropped"},
                           hits : SUBSET Upload]]
  /\ papers \in Seq([id : Upload, text : Content, url : Content])
  /\ client \in BOOLEAN
  /\ boot \in {"login", "ready", "down"}
  /\ starts \in 1..MaxStarts
  /\ disk \in [DOMAIN disk -> Content] /\ DOMAIN disk \subseteq 1..clock
  /\ ipfs \subseteq Content
  /\ clock \in Nat

Running == boot # "down"

At(r, state) == upload[r].state = state
Goto(r, state) == upload' = [upload EXCEPT ![r].state = state]

(* The catch block of /upload: 500, and the file stays in uploads/.        *)
Fail(r) == Goto(r, "failed")

-----------------------------------------------------------------------------
(* Mutant of FileName: fieldname and extension only.                       *)
FileNameConstant(now) == 1

(* filename(): all uploads share fieldname and extension, and differ only  *)
(* by the millisecond.                                                     *)
FileName(now) == now

(* multer opens the file of a new upload, truncating one of that name.     *)
(* An upload that has read its file back is not of this millisecond any    *)
(* more.                                                                   *)
Receive(r) ==
  /\ Running /\ At(r, "unsent")
  /\ \E step \in ClockStep :
       /\ \A q \in Upload :
            upload[q].name = clock + step => upload[q].state \in {"writing", "stored"}
       /\ clock' = clock + step
       /\ LET name == FileName(clock + step)
          IN  /\ disk' = [n \in DOMAIN disk \cup {name} |-> IF n = name THEN {} ELSE disk[n]]
              /\ upload' = [upload EXCEPT ![r].state = "writing", ![r].name = name,
                                          ![r].run = starts]
  /\ UNCHANGED << search, papers, client, boot, starts, ipfs >>

(* No file in the form: 400.                                               *)
Reject(r) ==
  /\ Running /\ At(r, "unsent")
  /\ upload' = [upload EXCEPT ![r].state = "rejected", ![r].run = starts]
  /\ UNCHANGED << search, papers, client, boot, starts, disk, ipfs, clock >>

(* The last byte is written: what others wrote since the file was opened   *)
(* stays in it, and a file unlinked meanwhile has lost its name.           *)
Store(r) ==
  /\ At(r, "writing")
  /\ disk' = [n \in DOMAIN disk |->
                IF n = upload[r].name THEN disk[n] \cup {r} ELSE disk[n]]
  /\ Goto(r, "stored")
  /\ UNCHANGED << search, papers, client, boot, starts, ipfs, clock >>

(* await fs.readFile(req.file.path), for the text.                         *)
ReadText(r) ==
  /\ At(r, "stored")
  /\ IF upload[r].name \in DOMAIN disk
     THEN upload' = [upload EXCEPT ![r].state = "read", ![r].text = disk[upload[r].name]]
     ELSE Fail(r)
  /\ UNCHANGED << search, papers, client, boot, starts, disk, ipfs, clock >>

(* pdf(), the chat completion, the regular expressions and the embedding:  *)
(* four awaits that share nothing with other requests, each of which may   *)
(* fail.  An empty file is no PDF.                                         *)
Extract(r) ==
  /\ At(r, "read")
  /\ (upload[r].text # {} /\ Goto(r, "extracted")) \/ Fail(r)
  /\ UNCHANGED << search, papers, client, boot, starts, disk, ipfs, clock >>

(* Mutant of GetClient: a request waits for the login of the process.      *)
GetClientWaits(r) ==
  /\ At(r, "extracted") /\ client
  /\ Goto(r, "connected")
  /\ UNCHANGED << search, papers, client, boot, starts, disk, ipfs, clock >>

(* getW3UpClient(): without a client the request logs in for itself, even  *)
(* if another login is under way.                                          *)
GetClient(r) ==
  /\ At(r, "extracted")
  /\ Goto(r, IF client THEN "connected" ELSE "login")
  /\ UNCHANGED << search, papers, client, boot, starts, disk, ipfs, clock >>

(* setupW3UpClient() comes back to the request that called it: with a      *)
(* client, which replaces the one there may be by now, or rejected, which  *)
(* uploadToIPFS does not catch and the handler does.                       *)
LoggedIn(r) ==
  /\ At(r, "login")
  /\ \/ client' = TRUE /\ Goto(r, "connected")
     \/ client' = client /\ Fail(r)
  /\ UNCHANGED << search, papers, boot, starts, disk, ipfs, clock >>

(* await fs.readFile(filePath) in uploadToIPFS: the file is read again.    *)
ReadForIpfs(r) ==
  /\ At(r, "connected")
  /\ IF upload[r].name \in DOMAIN disk
     THEN upload' = [upload EXCEPT ![r].state = "reread", ![r].url = disk[upload[r].name]]
     ELSE Fail(r)
  /\ UNCHANGED << search, papers, client, boot, starts, disk, ipfs, clock >>

(* Mutant of UploadFile: the null of a failed upload is not looked at.     *)
UploadFileUnchecked(r) ==
  /\ At(r, "reread")
  /\ ipfs' \in {ipfs, ipfs \cup {upload[r].url}}
  /\ Goto(r, "pinned")
  /\ UNCHANGED << search, papers, client, boot, starts, disk, clock >>

(* await client.uploadFile(file): the cid stands for the content.  On an   *)
(* error, which may come after the content has arrived, uploadToIPFS       *)
(* returns null and the handler throws.                                    *)
UploadFile(r) ==
  /\ At(r, "reread")
  /\ \/ ipfs' = ipfs \cup {upload[r].url} /\ Goto(r, "pinned")
     \/ ipfs' \in {ipfs, ipfs \cup {upload[r].url}} /\ Fail(r)
  /\ UNCHANGED << search, papers, client, boot, starts, disk, clock >>

(* Mutant of Unlink: the file is left where it is.                         *)
UnlinkNothing(r) ==
  /\ At(r, "pinned")
  /\ Goto(r, "unlinked")
  /\ UNCHANGED << search, papers, client, boot, starts, disk, ipfs, clock >>

(* await fs.unlink(req.file.path): fails if another upload of the same     *)
(* name has removed the file.                                              *)
Unlink(r) ==
  /\ At(r, "pinned")
  /\ IF upload[r].name \in DOMAIN disk
     THEN /\ disk' = [n \in DOMAIN disk \ {upload[r].name} |-> disk[n]]
          /\ Goto(r, "unlinked")
     ELSE disk' = disk /\ Fail(r)
  /\ UNCHANGED << search, papers, client, boot, starts, ipfs, clock >>

(* Mutant of Paper: the upload it came from is not kept.                   *)
PaperAnonymous(r) == [text |-> upload[r].text, url |-> upload[r].url]

(* const paper: the metadata of the text, and the url.                     *)
Paper(r) == [id |-> r, text |-> upload[r].text, url |-> upload[r].url]

(* Mutant of Publish: papers is replaced by a copy read at the start.      *)
PublishAlone(r) ==
  /\ At(r, "unlinked")
  /\ papers' = << Paper(r) >>
  /\ Goto(r, "answered")
  /\ UNCHANGED << search, client, boot, starts, disk, ipfs, clock >>

(* papers.push(paper) and res.json(paper), in one piece.                   *)
Publish(r) ==
  /\ At(r, "unlinked")
  /\ papers' = Append(papers, Paper(r))
  /\ Goto(r, "answered")
  /\ UNCHANGED << search, client, boot, starts, disk, ipfs, clock >>

-----------------------------------------------------------------------------
(* Mutant of Listed: the last paper is left out.                           *)
ListedButLast == {papers[i].id : i \in 1..(Len(papers) - 1)}

(* The papers a search ranks: papers.map(...).                             *)
Listed == {papers[i].id : i \in 1..Len(papers)}

(* /search up to generateEmbedding: no paper, and the answer is [] at once.*)
SearchArrives(q) ==
  /\ Running /\ search[q].state = "unsent"
  /\ search' = [search EXCEPT ![q].state = IF papers = << >> THEN "answered" ELSE "embedding"]
  /\ UNCHANGED << upload, papers, client, boot, starts, disk, ipfs, clock >>

(* The embedding of the query is there, or is not: every paper is ranked.  *)
SearchAnswers(q) ==
  /\ search[q].state = "embedding"
  /\ \/ search' = [search EXCEPT ![q].state = "answered", ![q].hits = Listed]
     \/ search' = [search EXCEPT ![q].state = "failed"]
  /\ UNCHANGED << upload, papers, client, boot, starts, disk, ipfs, clock >>

-----------------------------------------------------------------------------
(* The process ends: requests that were not answered never are, memory is  *)
(* gone.                                                                   *)
Exit ==
  /\ boot' = "down"
  /\ upload' = [r \in Upload |->
                  IF upload[r].state \in Waiting
                  THEN [upload[r] EXCEPT !.state = "dropped"] ELSE upload[r]]
  /\ search' = [q \in Query |->
                  IF search[q].state = "embedding"
                  THEN [search[q] EXCEPT !.state = "dropped"] ELSE search[q]]
  /\ papers' = << >>
  /\ client' = FALSE
  /\ UNCHANGED << starts, disk, ipfs, clock >>

Crash == Running /\ Exit

(* The callback of app.listen: the server is already accepting requests    *)
(* while it logs in, and a rejected login is an unhandled rejection, which *)
(* ends the process.                                                       *)
BootLogin ==
  /\ boot = "login"
  /\ \/ /\ boot' = "ready"
        /\ client' = TRUE
        /\ UNCHANGED << upload, search, papers, starts, disk, ipfs, clock >>
     \/ Exit

(* node server.js, by hand: nothing restarts the process by itself.        *)
Start ==
  /\ ~ Running /\ starts < MaxStarts
  /\ starts' = starts + 1
  /\ boot' = "login"
  /\ UNCHANGED << upload, search, papers, client, disk, ipfs, clock >>

Init ==
  /\ upload = [r \in Upload |-> [state |-> "unsent", name |-> 0, text |-> {}, url |-> {},
                                 run |-> 0]]
  /\ search = [q \in Query |-> [state |-> "unsent", hits |-> {}]]
  /\ papers = << >>
  /\ client = FALSE
  /\ boot = "login"
  /\ starts = 1
  /\ disk = [n \in {} |-> {}]
  /\ ipfs = {}
  /\ clock = 1

(* The steps of an upload after its body has arrived, but for its login.   *)
Continue(r) ==
  \/ ReadText(r) \/ Extract(r) \/ GetClient(r) \/ ReadForIpfs(r)
  \/ UploadFile(r) \/ Unlink(r) \/ Publish(r)

Next ==
  \/ \E r \in Upload : Receive(r) \/ Reject(r) \/ Store(r) \/ LoggedIn(r) \/ Continue(r)
  \/ \E q \in Query : SearchArrives(q) \/ SearchAnswers(q)
  \/ BootLogin \/ Crash \/ Start

(* Node runs every continuation that is ready, the file system answers,    *)
(* and the HTTP calls to OpenAI and IPFS are answered or time out.         *)
(* Nothing is assumed of the client that sends the body, nor of a login,   *)
(* which waits for a person to confirm an e-mail.                          *)
Fairness ==
  /\ \A r \in Upload : WF_vars(Continue(r))
  /\ \A q \in Query : WF_vars(SearchAnswers(q))

Spec == Init /\ [][Next]_vars /\ Fairness

-----------------------------------------------------------------------------
(* A listed paper is one paper: its metadata was extracted from, and its   *)
(* IPFS url leads to, the file of its own upload, although the file is     *)
(* read twice with six awaits in between (server.js:109, 53) in a          *)
(* directory all uploads share.  Relies on no two uploads getting the      *)
(* same name, that is, the same millisecond (server.js:17).                *)
PaperIntegrity ==
  \A i \in 1..Len(papers) :
    papers[i].text = {papers[i].id} /\ papers[i].url = {papers[i].id}

(* No url is listed whose content has not arrived at IPFS, whichever of    *)
(* the reads, the login and the upload fail (server.js:49-67, 171-175).    *)
PinnedBeforeListed ==
  \A i \in 1..Len(papers) : papers[i].url \in ipfs

(* A file in uploads/ belongs to an upload that is still under way, or     *)
(* that was never answered with a paper: 200 means the file is gone.       *)
(* (Files of failed and dropped uploads stay, server.js:177, 189-192.)     *)
FilesAccountedFor ==
  \A n \in DOMAIN disk :
    \E r \in Upload : upload[r].name = n
                        /\ upload[r].state \in (Waiting \ {"unlinked"}) \cup {"failed", "dropped"}

(* Since the process was started, the papers listed are exactly those of   *)
(* the uploads answered with one, each once, however uploads interleave    *)
(* (server.js:186-188).                                                    *)
ListedIffAnswered ==
  \A r \in Upload :
    LET places == {i \in 1..Len(papers) : papers[i].id = r}
    IN  IF At(r, "answered") /\ upload[r].run = starts /\ Running
        THEN \E i \in places : places = {i}
        ELSE places = {}

(* A search is answered from the papers as they are when it is answered,   *)
(* not when it arrived: no upload answered in between, while the query was *)
(* being embedded, is missing (server.js:206-212).                         *)
SearchSeesAnswered ==
  [][\A q \in Query :
       search'[q].state = "answered" /\ search[q].state # "answered"
         => \A r \in Upload :
              At(r, "answered") /\ upload[r].run = starts => r \in search'[q].hits]_vars

(* An upload whose body has arrived is settled, if with an error, unless   *)
(* it has begun a login of its own: that is the only thing that can hold a *)
(* request up for ever, also when another login has set the client.        *)
(* Every search is answered, fails or is cut off by the end of the process,*)
(* whatever the uploads wait for (server.js:42-47, 169, 206).              *)
OnlyLoginBlocks ==
  /\ \A r \in Upload :
       upload[r].state \in Waiting \ {"writing"}
         ~> upload[r].state \in Settled \cup {"login"}
  /\ \A q \in Query :
       search[q].state = "embedding" ~> search[q].state \in {"answered", "failed", "dropped"}

=============================================================================
