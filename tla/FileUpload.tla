------------------------------ MODULE FileUpload ------------------------------
(***************************************************************************)
(* The upload page (frontend/app/components/FileUpload.js with             *)
(* hooks/useSubstrate.js) between the backend, the wallet and the node.    *)
(* The handler of a click runs from await to await; the backend, the       *)
(* person at the wallet and the chain act in between, and the page may be  *)
(* reloaded at any time.  Attempts are numbered; the paper and the         *)
(* transaction of an attempt go by its number.                             *)
(*                                                                         *)
(* The pool and the chain are external: what handleSubmit sees of them is  *)
(* the stream of transaction statuses that signAndSend delivers.           *)
(***************************************************************************)
EXTENDS Integers

CONSTANTS MaxAttempts,   \* bound of the model on the clicks on the button
          MaxForks       \* bound of the model on retracted blocks

ASSUME BoundsAssumption == MaxAttempts \in Nat /\ MaxForks \in Nat

Attempt == 1..MaxAttempts

VARIABLES
  api,         \* useSubstrate: whether the node is connected
  file,        \* a file is chosen
  uploading,   \* isUploading: the button is disabled
  pc,          \* the await the handler is in, "idle" when none runs
  seenApi,     \* api as the running handler closed over it at the click
  attempt,     \* number of the last attempt
  shown,       \* the attempt whose response is shown, 0 when none is
  ended,       \* how each attempt ended for the person at the page
  kept,        \* the attempts whose paper the backend has pinned and listed
  tx,          \* where the transaction of each attempt is
  outcome,     \* what add_paper returned in the block it is in
  watched,     \* the attempts whose statuses are still delivered
  forks        \* blocks retracted so far

pageVars  == << api, file, uploading, pc, seenApi, attempt, shown, ended >>
chainVars == << tx, outcome, forks >>
vars == << pageVars, kept, chainVars, watched >>

TypeOK ==
  /\ api \in {"connecting", "ready", "failed"}
  /\ file \in BOOLEAN /\ uploading \in BOOLEAN /\ seenApi \in BOOLEAN
  /\ pc \in {"idle", "posting", "wallet", "signing", "watching"}
  /\ attempt \in 0..MaxAttempts /\ shown \in 0..MaxAttempts
  /\ ended \in [Attempt -> {"open", "success", "error", "reloaded"}]
  /\ kept \subseteq Attempt
  /\ tx \in [Attempt -> {"none", "pool", "block", "final", "gone"}]
  /\ outcome \in [Attempt -> {"none", "Ok", "error"}]
  /\ watched \subseteq Attempt
  /\ forks \in 0..MaxForks

(* How handleSubmit ends: by its last line or by its catch block, and then *)
(* by its finally block.                                                   *)
Finish(how) ==
  /\ pc' = "idle"
  /\ uploading' = FALSE
  /\ ended' = [ended EXCEPT ![attempt] = how]

-----------------------------------------------------------------------------
(* ApiPromise.create resolves or rejects, once per mount of the page.      *)
Connect ==
  /\ api = "connecting"
  /\ api' \in {"ready", "failed"}
  /\ UNCHANGED << file, uploading, pc, seenApi, attempt, shown, ended, kept, chainVars, watched >>

(* handleDrop, handleFileChange: also while a handler runs, and to no file *)
(* when the chooser is cancelled.                                          *)
ChooseFile ==
  /\ file' = ~ file
  /\ UNCHANGED << api, uploading, pc, seenApi, attempt, shown, ended, kept, chainVars, watched >>

(* A click on the button, up to the POST.  The button is disabled without  *)
(* a file, so the check of handleSubmit for one never fails.               *)
Submit ==
  /\ file /\ ~ uploading
  /\ attempt < MaxAttempts
  /\ attempt' = attempt + 1
  /\ uploading' = TRUE
  /\ pc' = "posting"
  /\ seenApi' = (api = "ready")
  /\ shown' = 0
  /\ UNCHANGED << api, file, ended, kept, chainVars, watched >>

(* Mutant of PostAnswered: the paper is filed under the next number.       *)
PostAnsweredNext ==
  /\ pc = "posting"
  /\ kept' = kept \cup {attempt + 1}
  /\ shown' = attempt
  /\ IF seenApi THEN pc' = "wallet" /\ UNCHANGED << uploading, ended >>
                ELSE Finish("error")
  /\ UNCHANGED << api, file, seenApi, attempt, chainVars, watched >>

(* The backend answers with the paper it has pinned and listed; the        *)
(* handler goes on only if it closed over an api, connected or not since.  *)
PostAnswered ==
  /\ pc = "posting"
  /\ kept' = kept \cup {attempt}
  /\ shown' = attempt
  /\ IF seenApi THEN pc' = "wallet" /\ UNCHANGED << uploading, ended >>
                ELSE Finish("error")
  /\ UNCHANGED << api, file, seenApi, attempt, chainVars, watched >>

(* Mutant of PostFailed: the error is shown, and the handler goes on.      *)
PostFailedGoesOn ==
  /\ pc = "posting"
  /\ kept' \in {kept, kept \cup {attempt}}
  /\ pc' = "wallet"
  /\ ended' = [ended EXCEPT ![attempt] = "error"]
  /\ UNCHANGED << api, file, uploading, seenApi, attempt, shown, chainVars, watched >>

(* The backend answers with an error, or its answer is lost, in which case *)
(* it may have kept the paper.                                             *)
PostFailed ==
  /\ pc = "posting"
  /\ kept' \in {kept, kept \cup {attempt}}
  /\ Finish("error")
  /\ UNCHANGED << api, file, seenApi, attempt, shown, chainVars, watched >>

(* web3Enable, web3Accounts, web3FromSource and addPaper, or one of them   *)
(* throws: no extension, no account.                                       *)
Wallet ==
  /\ pc = "wallet"
  /\ \/ pc' = "signing" /\ UNCHANGED << uploading, ended >>
     \/ Finish("error")
  /\ UNCHANGED << api, file, seenApi, attempt, shown, kept, chainVars, watched >>

(* signAndSend: the person signs and the node takes the transaction; or it *)
(* rejects, as the person declines, the node refuses the transaction, or   *)
(* the connection is cut before the node has answered, which may have it.  *)
(* Whichever it was, the page shows an error.                              *)
Sign ==
  /\ pc = "signing"
  /\ \/ /\ pc' = "watching"
        /\ tx' = [tx EXCEPT ![attempt] = "pool"]
        /\ watched' = watched \cup {attempt}
        /\ UNCHANGED << uploading, ended >>
     \/ /\ Finish("error")
        /\ tx' \in {tx, [tx EXCEPT ![attempt] = "pool"]}
        /\ UNCHANGED watched
  /\ UNCHANGED << api, file, seenApi, attempt, shown, kept, outcome, forks >>

(* Mutant of Notified: the promise resolves when the block is made.        *)
NotifiedInBlock ==
  /\ pc = "watching" /\ attempt \in watched
  /\ tx[attempt] \in {"block", "final"}
  /\ Finish("success")
  /\ watched' = watched \ {attempt}
  /\ UNCHANGED << api, file, seenApi, attempt, shown, kept, chainVars >>

(* Mutant of Notified: only the status InBlock resolves it.                *)
NotifiedOnlyInBlock ==
  /\ pc = "watching" /\ attempt \in watched
  /\ tx[attempt] = "block"
  /\ Finish("success")
  /\ watched' = watched \ {attempt}
  /\ UNCHANGED << api, file, seenApi, attempt, shown, kept, chainVars >>

(* The callback with the status Finalized resolves the promise.  With      *)
(* InBlock it only shows the block and logs the events, and with every     *)
(* other status it does nothing, as dispatchError is only ever set along   *)
(* with one of the two that are tested before it: no branch looks at the   *)
(* outcome.                                                                *)
Notified ==
  /\ pc = "watching" /\ attempt \in watched
  /\ tx[attempt] = "final"
  /\ Finish("success")
  /\ watched' = watched \ {attempt}
  /\ UNCHANGED << api, file, seenApi, attempt, shown, kept, chainVars >>

(* The page is loaded again: its state and the handler are gone, and what  *)
(* it was waiting for may have been done or not.                           *)
Reload ==
  /\ api' = "connecting" /\ file' = FALSE /\ uploading' = FALSE
  /\ pc' = "idle" /\ seenApi' = FALSE /\ shown' = 0
  /\ ended' = [k \in Attempt |->
                 IF k = attempt /\ pc # "idle" THEN "reloaded" ELSE ended[k]]
  /\ watched' = {}
  /\ kept' \in {kept, IF pc = "posting" THEN kept \cup {attempt} ELSE kept}
  /\ tx' \in {tx, IF pc = "signing" THEN [tx EXCEPT ![attempt] = "pool"] ELSE tx}
  /\ UNCHANGED << attempt, outcome, forks >>

-----------------------------------------------------------------------------
(* A block author includes the transaction, with either outcome: nothing   *)
(* on the way checks the limits of add_paper.                              *)
Include(k) ==
  /\ tx[k] = "pool"
  /\ tx' = [tx EXCEPT ![k] = "block"]
  /\ \E how \in {"Ok", "error"} : outcome' = [outcome EXCEPT ![k] = how]
  /\ UNCHANGED << pageVars, kept, forks, watched >>

(* Another fork becomes the best: the transaction is back in the pool.     *)
Retract(k) ==
  /\ tx[k] = "block" /\ forks < MaxForks
  /\ tx' = [tx EXCEPT ![k] = "pool"]
  /\ outcome' = [outcome EXCEPT ![k] = "none"]
  /\ forks' = forks + 1
  /\ UNCHANGED << pageVars, kept, watched >>

Finalize(k) ==
  /\ tx[k] = "block"
  /\ tx' = [tx EXCEPT ![k] = "final"]
  /\ UNCHANGED << pageVars, kept, outcome, forks, watched >>

(* Dropped, Invalid or Usurped: the last status there is.                  *)
Discard(k) ==
  /\ tx[k] = "pool"
  /\ tx' = [tx EXCEPT ![k] = "gone"]
  /\ watched' = watched \ {k}
  /\ UNCHANGED << pageVars, kept, outcome, forks >>

(* FinalityTimeout, or the connection is cut: no status is delivered any   *)
(* more, and the transaction goes its way.                                 *)
LoseWatch(k) ==
  /\ k \in watched
  /\ watched' = watched \ {k}
  /\ UNCHANGED << pageVars, kept, chainVars >>

Init ==
  /\ api = "connecting" /\ file = FALSE /\ uploading = FALSE
  /\ pc = "idle" /\ seenApi = FALSE /\ attempt = 0 /\ shown = 0
  /\ ended = [k \in Attempt |-> "open"]
  /\ kept = {}
  /\ tx = [k \in Attempt |-> "none"]
  /\ outcome = [k \in Attempt |-> "none"]
  /\ watched = {} /\ forks = 0

Next ==
  \/ Connect \/ ChooseFile \/ Submit \/ PostAnswered \/ PostFailed \/ Wallet \/ Sign
  \/ Notified \/ Reload
  \/ \E k \in Attempt :
       Include(k) \/ Retract(k) \/ Finalize(k) \/ Discard(k) \/ LoseWatch(k)

(* Blocks are made and finalised (service.rs:222-313), and a status that   *)
(* has arrived is handled.  Nothing is assumed of the backend, for which   *)
(* axios waits without a timeout, nor of the person at the wallet.         *)
Fairness ==
  /\ WF_vars(Notified)
  /\ \A k \in Attempt : WF_vars(Include(k)) /\ WF_vars(Finalize(k))

Spec == Init /\ [][Next]_vars /\ Fairness

-----------------------------------------------------------------------------
(* The page calls an upload completed only when it is irrevocable: its     *)
(* block is finalised, although statuses come for blocks that are          *)
(* retracted later (FileUpload.js:103-111, 127).                           *)
SuccessIsFinal ==
  \A k \in Attempt : ended[k] = "success" => tx[k] = "final"

(* Only papers that the backend has pinned to IPFS and answered with are   *)
(* sent to the chain, whichever answers are errors or get lost             *)
(* (FileUpload.js:65, 86-95).                                              *)
ChainPapersKept ==
  \A k \in Attempt : tx[k] # "none" => k \in kept

(* What the person was told stands: once an attempt has ended, by whatever *)
(* error or by a reload, its paper is never sent to the chain any more, so *)
(* that a second attempt publishes it twice only if the first had sent it  *)
(* before it failed.  And what is sent is a paper that the backend has     *)
(* kept, although its answers may get lost (FileUpload.js:65, 71, 98-131). *)
SentInTurn ==
  [][\A k \in Attempt :
       tx[k] = "none" /\ tx'[k] # "none"
         => k = attempt /\ ended[k] = "open" /\ k \in kept]_vars

(* The button is disabled exactly while a handler runs, whichever await    *)
(* throws: it never stays disabled after one has ended, and never allows a *)
(* second one beside it (FileUpload.js:55, 132-134, 167).                  *)
ButtonFollowsHandler == uploading <=> pc # "idle"

(* No attempt begins before the one before it has ended for the person at  *)
(* the page, by its result or by a reload (FileUpload.js:167).             *)
OneAttemptAtATime ==
  [][attempt' # attempt => \A k \in 1..attempt : ended[k] # "open"]_vars

(* A transaction that is sent ends the upload, unless its statuses stop    *)
(* coming: dropped, replaced, not finalised in time or cut off, it leaves  *)
(* the page waiting, as no branch of the callback handles any of these     *)
(* (FileUpload.js:101-120).                                                *)
SentUploadsEnd ==
  \A k \in Attempt :
    pc = "watching" /\ attempt = k ~> ended[k] # "open" \/ k \notin watched

(* FileUpload.js:127 reports 'Transaction completed successfully', and     *)
(* lines 112-119 are there to reject with 'Transaction failed' when        *)
(* add_paper returned an error.  Fails: that branch is not reached, for    *)
(* the error comes with the statuses that the branches before it take.     *)
SuccessMeansStored ==
  \A k \in Attempt : ended[k] = "success" => outcome[k] = "Ok"

=============================================================================
