--------------------------- MODULE FileUploadProofs ---------------------------
(***************************************************************************)
(* Proofs about FileUpload for any number of attempts and forks.  The      *)
(* safety properties are proved from one inductive invariant, which says   *)
(* what is true of the attempt in progress at each await of the handler:   *)
(* it is open, its transaction has not been sent before "watching", and    *)
(* the backend has its paper after "posting".                              *)
(***************************************************************************)
EXTENDS FileUpload, TLAPS

USE BoundsAssumption

(* What the handler has and has not done when it is at each await.         *)
HandlerState ==
  /\ pc # "idle" => attempt \in Attempt /\ ended[attempt] = "open"
  /\ pc \in {"posting", "wallet", "signing"} => tx[attempt] = "none"
  /\ pc \in {"wallet", "signing", "watching"} => attempt \in kept

(* Attempts that have not been made have left no trace.                    *)
Untouched ==
  \A k \in Attempt : k > attempt => tx[k] = "none" /\ ended[k] = "open"

(* Before the one in progress, every attempt has ended.                    *)
EarlierEnded ==
  \A k \in Attempt : k < attempt \/ (k = attempt /\ pc = "idle") => ended[k] # "open"

IInv ==
  /\ TypeOK /\ HandlerState /\ Untouched /\ EarlierEnded
  /\ SuccessIsFinal /\ ChainPapersKept /\ ButtonFollowsHandler

(* Types in two parts, as the provers that reason about Boolean variables  *)
(* and about numbers are different ones.                                   *)
Flags == file \in BOOLEAN /\ uploading \in BOOLEAN /\ seenApi \in BOOLEAN

Rest ==
  /\ api \in {"connecting", "ready", "failed"}
  /\ pc \in {"idle", "posting", "wallet", "signing", "watching"}
  /\ attempt \in 0..MaxAttempts /\ shown \in 0..MaxAttempts
  /\ ended \in [Attempt -> {"open", "success", "error", "reloaded"}]
  /\ kept \subseteq Attempt
  /\ tx \in [Attempt -> {"none", "pool", "block", "final", "gone"}]
  /\ outcome \in [Attempt -> {"none", "Ok", "error"}]
  /\ watched \subseteq Attempt
  /\ forks \in 0..MaxForks

LEMMA TypeParts == (TypeOK <=> Flags /\ Rest) /\ (TypeOK' <=> Flags' /\ Rest')
BY Zenon DEF TypeOK, Flags, Rest

(* The ranges of the counters. *)
LEMMA Ranges ==
  ASSUME TypeOK
  PROVE  attempt \in 0..MaxAttempts /\ shown \in 0..MaxAttempts /\ forks \in 0..MaxForks
BY Zenon DEF TypeOK

LEMMA InitInvariant == Init => IInv
<1> SUFFICES ASSUME Init  PROVE IInv
  OBVIOUS
<1>1. TypeOK
  <2>1. Flags
    BY Zenon DEF Init, Flags
  <2>2. Rest
    BY DEF Init, Rest
  <2>3. QED  BY <2>1, <2>2, TypeParts
<1>2. HandlerState /\ ButtonFollowsHandler
  BY DEF Init, HandlerState, ButtonFollowsHandler
<1>3. Untouched /\ EarlierEnded
  BY DEF Init, Untouched, EarlierEnded, Attempt
<1>4. SuccessIsFinal /\ ChainPapersKept
  BY DEF Init, SuccessIsFinal, ChainPapersKept
<1>5. QED  BY <1>1, <1>2, <1>3, <1>4 DEF IInv

(* Steps of the chain and of the pool leave the page alone and never make  *)
(* a transaction of none, nor change a final one.                          *)
LEMMA ChainSteps ==
  ASSUME IInv, NEW k \in Attempt,
         Include(k) \/ Retract(k) \/ Finalize(k) \/ Discard(k) \/ LoseWatch(k)
  PROVE  IInv'
<1>1. /\ UNCHANGED << pageVars, kept >>
      /\ \A j \in Attempt : tx[j] = "none" <=> tx'[j] = "none"
      /\ \A j \in Attempt : tx[j] = "final" => tx'[j] = "final"
  <2>1. CASE Include(k)
    BY <2>1 DEF IInv, TypeOK, Include
  <2>2. CASE Retract(k)
    BY <2>2 DEF IInv, TypeOK, Retract
  <2>3. CASE Finalize(k)
    BY <2>3 DEF IInv, TypeOK, Finalize
  <2>4. CASE Discard(k)
    BY <2>4 DEF IInv, TypeOK, Discard
  <2>5. CASE LoseWatch(k)
    BY <2>5 DEF IInv, TypeOK, LoseWatch, chainVars
  <2>6. QED  BY <2>1, <2>2, <2>3, <2>4, <2>5
<1>2. TypeOK'
  <2>0. Flags /\ Rest /\ Flags'
    <3>1. Flags /\ Rest
      BY TypeParts DEF IInv
    <3>2. Flags'
      BY <1>1, <3>1, Zenon DEF Flags, pageVars
    <3>3. QED  BY <3>1, <3>2
  <2>1. CASE Include(k)
    <3>1. PICK how \in {"Ok", "error"} : outcome' = [outcome EXCEPT ![k] = how]
      BY <2>1 DEF Include
    <3>2. Rest'
      BY <1>1, <2>0, <2>1, <3>1 DEF Include, Rest, pageVars
    <3>3. QED  BY <2>0, <3>2, TypeParts
  <2>2. CASE Retract(k)
    <3>1. forks \in 0..MaxForks /\ forks < MaxForks
      BY <2>2, Ranges, Zenon DEF IInv, Retract
    <3>2. forks + 1 \in 0..MaxForks
      BY <3>1
    <3>3. Rest'
      BY <1>1, <2>0, <2>2, <3>2 DEF Retract, Rest, pageVars
    <3>4. QED  BY <2>0, <3>3, TypeParts
  <2>3. CASE Finalize(k)
    BY <2>3 DEF Finalize, IInv, TypeOK, pageVars
  <2>4. CASE Discard(k)
    BY <2>4 DEF Discard, IInv, TypeOK, pageVars
  <2>5. CASE LoseWatch(k)
    BY <2>5 DEF LoseWatch, IInv, TypeOK, pageVars, chainVars
  <2>6. QED  BY <2>1, <2>2, <2>3, <2>4, <2>5
<1>3. HandlerState' /\ Untouched' /\ EarlierEnded' /\ ButtonFollowsHandler'
  BY <1>1 DEF IInv, HandlerState, Untouched, EarlierEnded, ButtonFollowsHandler, pageVars
<1>4. SuccessIsFinal' /\ ChainPapersKept'
  BY <1>1 DEF IInv, SuccessIsFinal, ChainPapersKept, pageVars
<1>5. QED  BY <1>2, <1>3, <1>4 DEF IInv

(* The end of an attempt, by whichever line of the handler: every conjunct *)
(* but types and the facts about how it ended follows from Finish.         *)
LEMMA Finishing ==
  ASSUME IInv, NEW how, Finish(how), pc # "idle", how # "open",
         UNCHANGED attempt, kept \subseteq kept',
         \A j \in Attempt : j # attempt => tx'[j] = tx[j],
         how = "success" => tx'[attempt] = "final",
         tx'[attempt] # "none" => attempt \in kept'
  PROVE  /\ HandlerState' /\ Untouched' /\ EarlierEnded'
         /\ SuccessIsFinal' /\ ChainPapersKept' /\ ButtonFollowsHandler'
<1>1. /\ attempt \in Attempt
      /\ attempt' = attempt /\ pc' = "idle" /\ uploading' = FALSE
      /\ \A j \in Attempt : ended'[j] = IF j = attempt THEN how ELSE ended[j]
  BY DEF IInv, TypeOK, HandlerState, Finish
<1>2. HandlerState' /\ ButtonFollowsHandler'
  BY <1>1 DEF HandlerState, ButtonFollowsHandler
<1>3. Untouched'
  BY <1>1 DEF IInv, Untouched, Attempt
<1>4. EarlierEnded'
  BY <1>1 DEF IInv, EarlierEnded, Attempt
<1>5. SuccessIsFinal' /\ ChainPapersKept'
  BY <1>1 DEF IInv, SuccessIsFinal, ChainPapersKept
<1>6. QED  BY <1>2, <1>3, <1>4, <1>5

(* The handler goes on to its next await: the attempt stays open.          *)
LEMMA Advancing ==
  ASSUME IInv, HandlerState', pc # "idle", pc' # "idle",
         UNCHANGED << attempt, uploading, ended >>, kept \subseteq kept',
         \A j \in Attempt : j # attempt => tx'[j] = tx[j]
  PROVE  /\ Untouched' /\ EarlierEnded'
         /\ SuccessIsFinal' /\ ButtonFollowsHandler'
<1>1. attempt \in Attempt /\ ended[attempt] = "open"
  BY DEF IInv, HandlerState
<1>2. Untouched' /\ EarlierEnded'
  BY <1>1 DEF IInv, Untouched, EarlierEnded, Attempt
<1>3. SuccessIsFinal'
  BY <1>1 DEF IInv, SuccessIsFinal
<1>4. ButtonFollowsHandler'
  BY DEF IInv, ButtonFollowsHandler
<1>5. QED  BY <1>2, <1>3, <1>4

LEMMA StepInvariant == IInv /\ [Next]_vars => IInv'
<1> SUFFICES ASSUME IInv, [Next]_vars  PROVE IInv'
  OBVIOUS
<1>a. pc # "idle" => attempt \in Attempt /\ ended[attempt] = "open"
  BY DEF IInv, HandlerState
<1>b. pc \in {"posting", "wallet", "signing"} => tx[attempt] = "none"
  BY DEF IInv, HandlerState
<1>c. pc \in {"wallet", "signing", "watching"} => attempt \in kept
  BY DEF IInv, HandlerState
<1>1. CASE Connect
  <2>1. TypeOK'
    BY <1>1 DEF Connect, chainVars, IInv, TypeOK
  <2>2. QED
    BY <1>1, <2>1 DEF Connect, chainVars, IInv, HandlerState, Untouched, EarlierEnded,
       SuccessIsFinal, ChainPapersKept, ButtonFollowsHandler
<1>2. CASE ChooseFile
  <2>1. TypeOK'
    BY <1>2 DEF ChooseFile, chainVars, IInv, TypeOK
  <2>2. QED
    BY <1>2, <2>1 DEF ChooseFile, chainVars, IInv, HandlerState, Untouched, EarlierEnded,
       SuccessIsFinal, ChainPapersKept, ButtonFollowsHandler
<1>3. CASE Submit
  <2>1. attempt \in 0..MaxAttempts /\ attempt < MaxAttempts
    BY <1>3, Ranges, Zenon DEF IInv, Submit
  <2>2. attempt \in Nat /\ attempt + 1 \in 0..MaxAttempts /\ 0 \in 0..MaxAttempts
    BY <2>1
  <2>3. pc = "idle"
    BY <1>3, Zenon DEF Submit, IInv, ButtonFollowsHandler
  <2>4. attempt' = attempt + 1 /\ attempt' \in Attempt /\ attempt' > attempt
    BY <1>3, <2>1, <2>2 DEF Submit, Attempt
  <2>5. TypeOK'
    <3>1. Flags /\ Rest
      BY TypeParts DEF IInv
    <3>2. Flags'
      BY <1>3, <3>1, Zenon DEF Submit, Flags
    <3>3. Rest'
      BY <1>3, <2>2, <3>1 DEF Submit, chainVars, Rest
    <3>4. QED  BY <3>2, <3>3, TypeParts
  <2>6. tx[attempt'] = "none" /\ ended[attempt'] = "open"
    BY <2>4 DEF IInv, Untouched
  <2>7. HandlerState' /\ ButtonFollowsHandler'
    BY <1>3, <2>4, <2>6 DEF Submit, chainVars, HandlerState, ButtonFollowsHandler
  <2>8. Untouched' /\ EarlierEnded'
    BY <1>3, <2>2, <2>3, <2>4 DEF Submit, chainVars, IInv, Untouched, EarlierEnded, Attempt
  <2>9. SuccessIsFinal' /\ ChainPapersKept'
    BY <1>3 DEF Submit, chainVars, IInv, SuccessIsFinal, ChainPapersKept
  <2>10. QED  BY <2>5, <2>7, <2>8, <2>9 DEF IInv
<1>4. CASE PostAnswered
  <2>1. TypeOK'
    BY <1>4, <1>a DEF PostAnswered, Finish, chainVars, IInv, TypeOK
  <2>2. CASE seenApi
    <3>1. HandlerState' /\ ChainPapersKept'
      BY <1>4, <1>a, <1>b, <2>2 DEF PostAnswered, chainVars, IInv, HandlerState, ChainPapersKept
    <3>2. QED  BY <1>4, <2>1, <2>2, <3>1, Advancing DEF PostAnswered, chainVars, IInv
  <2>3. CASE ~ seenApi
    BY <1>4, <1>b, <2>1, <2>3, Finishing DEF PostAnswered, chainVars, IInv
  <2>4. QED  BY <2>2, <2>3
<1>5. CASE PostFailed
  <2>1. TypeOK'
    BY <1>5, <1>a DEF PostFailed, Finish, chainVars, IInv, TypeOK
  <2>2. QED  BY <1>5, <1>b, <2>1, Finishing DEF PostFailed, chainVars, IInv
<1>6. CASE Wallet
  <2>1. TypeOK'
    BY <1>6, <1>a DEF Wallet, Finish, chainVars, IInv, TypeOK
  <2>2. CASE Finish("error")
    BY <1>6, <1>b, <2>1, <2>2, Finishing DEF Wallet, chainVars, IInv
  <2>3. CASE pc' = "signing" /\ UNCHANGED << uploading, ended >>
    <3>1. HandlerState' /\ ChainPapersKept'
      BY <1>6, <1>a, <1>b, <1>c, <2>3 DEF Wallet, chainVars, IInv, HandlerState, ChainPapersKept
    <3>2. QED  BY <1>6, <2>1, <2>3, <3>1, Advancing DEF Wallet, chainVars, IInv
  <2>4. QED  BY <1>6, <2>2, <2>3 DEF Wallet
<1>7. CASE Sign
  <2>1. TypeOK'
    BY <1>7, <1>a DEF Sign, Finish, chainVars, IInv, TypeOK
  <2>2. CASE Finish("error") /\ tx' = tx
    BY <1>7, <1>b, <1>c, <2>1, <2>2, Finishing DEF Sign, IInv
  <2>3. ASSUME tx' = [tx EXCEPT ![attempt] = "pool"]
        PROVE  /\ \A j \in Attempt : j # attempt => tx'[j] = tx[j]
               /\ ChainPapersKept'
    BY <1>7, <1>a, <1>c, <2>3 DEF Sign, IInv, TypeOK, ChainPapersKept
  <2>4. CASE Finish("error") /\ tx' = [tx EXCEPT ![attempt] = "pool"]
    BY <1>7, <1>c, <2>1, <2>3, <2>4, Finishing DEF Sign, IInv
  <2>5. CASE pc' = "watching" /\ tx' = [tx EXCEPT ![attempt] = "pool"]
                /\ UNCHANGED << uploading, ended >>
    <3>1. HandlerState'
      BY <1>7, <1>a, <1>c, <2>5 DEF Sign, HandlerState
    <3>2. QED  BY <1>7, <2>1, <2>3, <2>5, <3>1, Advancing DEF Sign, IInv
  <2>6. QED  BY <1>7, <2>2, <2>4, <2>5 DEF Sign
<1>8. CASE Notified
  <2>1. TypeOK'
    BY <1>8, <1>a DEF Notified, Finish, chainVars, IInv, TypeOK
  <2>2. QED  BY <1>8, <1>c, <2>1, Finishing DEF Notified, chainVars, IInv
<1>9. CASE Reload
  <2>1. pc = "signing" => attempt \in Attempt
    BY <1>a
  <2>2. TypeOK'
    <3>1. Flags /\ Rest
      BY TypeParts DEF IInv
    <3>2. Flags'
      BY <1>9, Zenon DEF Reload, Flags
    <3>3. ended' \in [Attempt -> {"open", "success", "error", "reloaded"}]
      BY <1>9, <3>1 DEF Reload, Rest
    <3>4. tx' \in [Attempt -> {"none", "pool", "block", "final", "gone"}]
      BY <1>9, <1>a, <3>1 DEF Reload, Rest
    <3>5. kept' \subseteq Attempt
      BY <1>9, <1>a, <3>1 DEF Reload, Rest
    <3>6. 0 \in 0..MaxAttempts
      OBVIOUS
    <3>7. Rest'
      BY <1>9, <3>1, <3>3, <3>4, <3>5, <3>6, Zenon DEF Reload, Rest
    <3>8. QED  BY <3>2, <3>7, TypeParts
  <2>3. HandlerState' /\ ButtonFollowsHandler'
    BY <1>9 DEF Reload, HandlerState, ButtonFollowsHandler
  <2>4. /\ \A j \in Attempt : j # attempt \/ pc = "idle" =>
              tx'[j] = tx[j] /\ ended'[j] = ended[j]
        /\ pc # "idle" => ended'[attempt] = "reloaded"
        /\ pc # "idle" /\ pc # "signing" => tx' = tx
        /\ kept \subseteq kept'
    BY <1>9, <1>a DEF Reload, IInv, TypeOK
  <2>5. Untouched' /\ EarlierEnded'
    BY <1>9, <1>a, <2>4 DEF Reload, IInv, TypeOK, Untouched, EarlierEnded, Attempt
  <2>6. SuccessIsFinal' /\ ChainPapersKept'
    BY <1>a, <1>c, <2>4 DEF IInv, SuccessIsFinal, ChainPapersKept
  <2>7. QED  BY <2>2, <2>3, <2>5, <2>6 DEF IInv
<1>10. CASE \E k \in Attempt :
              Include(k) \/ Retract(k) \/ Finalize(k) \/ Discard(k) \/ LoseWatch(k)
  BY <1>10, ChainSteps
<1>11. CASE UNCHANGED vars
  BY <1>11 DEF vars, pageVars, chainVars, IInv, TypeOK, HandlerState, Untouched, EarlierEnded,
     SuccessIsFinal, ChainPapersKept, ButtonFollowsHandler
<1>12. QED
  BY <1>1, <1>2, <1>3, <1>4, <1>5, <1>6, <1>7, <1>8, <1>9, <1>10, <1>11 DEF Next

THEOREM Invariant == Spec => []IInv
<1>1. QED  BY InitInvariant, StepInvariant, PTL DEF Spec

(* Types, for every number of attempts and forks. *)
THEOREM UploadTypes == Spec => []TypeOK
<1>1. IInv => TypeOK
  BY DEF IInv
<1>2. QED  BY <1>1, Invariant, PTL

(* An upload that is called completed is finalised. *)
THEOREM CompletedIsFinal == Spec => []SuccessIsFinal
<1>1. IInv => SuccessIsFinal
  BY DEF IInv
<1>2. QED  BY <1>1, Invariant, PTL

(* Only papers the backend has kept reach the chain. *)
THEOREM SentIsKept == Spec => []ChainPapersKept
<1>1. IInv => ChainPapersKept
  BY DEF IInv
<1>2. QED  BY <1>1, Invariant, PTL

(* No paper is sent for an attempt that has ended for the person, and none *)
(* that the backend has not kept: only Sign and a reload in its place send *)
(* one, and at that await the attempt is open.                             *)
THEOREM SentWhileOpen == Spec => SentInTurn
<1>1. ASSUME IInv, [Next]_vars
      PROVE  \A k \in Attempt : tx[k] = "none" /\ tx'[k] # "none"
                               => k = attempt /\ ended[k] = "open" /\ k \in kept
  <2> SUFFICES ASSUME NEW k \in Attempt, tx[k] = "none", tx'[k] # "none"
               PROVE  k = attempt /\ ended[k] = "open" /\ k \in kept
    OBVIOUS
  <2>1. pc = "signing" /\ k = attempt
    <3>1. CASE Sign
      BY <1>1, <3>1 DEF Sign, IInv, TypeOK
    <3>2. CASE Reload
      BY <1>1, <3>2 DEF Reload, IInv, TypeOK
    <3>3. ASSUME NEW j \in Attempt,
                 Include(j) \/ Retract(j) \/ Finalize(j) \/ Discard(j) \/ LoseWatch(j)
          PROVE  FALSE
      BY <1>1, <3>3 DEF Include, Retract, Finalize, Discard, LoseWatch, chainVars, IInv, TypeOK
    <3>4. ~ (Connect \/ ChooseFile \/ Submit \/ PostAnswered \/ PostFailed \/ Wallet
               \/ Notified \/ UNCHANGED vars)
      BY <1>1 DEF Connect, ChooseFile, Submit, PostAnswered, PostFailed, Wallet, Notified, vars,
                  chainVars
    <3>5. QED  BY <1>1, <3>1, <3>2, <3>3, <3>4 DEF Next
  <2>2. QED  BY <1>1, <2>1 DEF IInv, HandlerState
<1>2. QED  BY <1>1, Invariant, PTL DEF SentInTurn, Spec

(* The button is disabled exactly while a handler runs. *)
THEOREM ButtonReleased == Spec => []ButtonFollowsHandler
<1>1. IInv => ButtonFollowsHandler
  BY DEF IInv
<1>2. QED  BY <1>1, Invariant, PTL

(* Attempts do not overlap: the button is only enabled when the handler of *)
(* the last attempt is gone, and then that attempt has ended.              *)
THEOREM AttemptsApart == Spec => OneAttemptAtATime
<1>1. ASSUME IInv, [Next]_vars
      PROVE  attempt' # attempt => \A k \in 1..attempt : ended[k] # "open"
  <2> SUFFICES ASSUME attempt' # attempt, NEW k \in 1..attempt
               PROVE  ended[k] # "open"
    OBVIOUS
  <2>1. Submit
    <3>1. ~ UNCHANGED vars
      BY DEF vars, pageVars
    <3>2. ~ (\E j \in Attempt : Include(j) \/ Retract(j) \/ Finalize(j) \/ Discard(j)
                                 \/ LoseWatch(j))
      BY DEF Include, Retract, Finalize, Discard, LoseWatch, pageVars
    <3>3. ~ (Connect \/ ChooseFile \/ PostAnswered \/ PostFailed \/ Wallet \/ Sign
               \/ Notified \/ Reload)
      BY DEF Connect, ChooseFile, PostAnswered, PostFailed, Wallet, Sign, Notified, Reload
    <3>4. QED  BY <1>1, <3>1, <3>2, <3>3 DEF Next
  <2>2. pc = "idle"
    BY <1>1, <2>1 DEF Submit, IInv, ButtonFollowsHandler
  <2>3. attempt \in 0..MaxAttempts
    BY <1>1, Ranges DEF IInv
  <2>4. k \in Attempt /\ (k < attempt \/ k = attempt)
    BY <2>3 DEF Attempt
  <2>5. QED  BY <1>1, <2>2, <2>4 DEF IInv, EarlierEnded
<1>2. QED  BY <1>1, Invariant, PTL DEF OneAttemptAtATime, Spec

=============================================================================
