---------------------------- MODULE PaperRegistry ----------------------------
(***************************************************************************)
(* What pallet-papermgmt promises its callers, with nothing of how calls   *)
(* fail or what they announce: a log of hashes of bounded size that is     *)
(* only appended to, and a shelf that holds the last paper published under *)
(* each key.  A call that is refused is a stuttering step.                 *)
(***************************************************************************)
EXTENDS Integers, Sequences

CONSTANTS Hash,        \* what is logged
          Paper,       \* what is published
          Key(_),      \* the key a paper is published under
          Fits(_),     \* the papers that are accepted
          Capacity     \* size of the log

VARIABLES log, shelf

Init == log = << >> /\ shelf = [k \in {} |-> {}]

Record(h) ==
  /\ Len(log) < Capacity
  /\ log' = Append(log, h)
  /\ UNCHANGED shelf

Publish(p) ==
  /\ Fits(p)
  /\ shelf' = [k \in DOMAIN shelf \cup {Key(p)} |-> IF k = Key(p) THEN p ELSE shelf[k]]
  /\ UNCHANGED log

Next == (\E h \in Hash : Record(h)) \/ (\E p \in Paper : Publish(p))

Spec == Init /\ [][Next]_<< log, shelf >>

=============================================================================
