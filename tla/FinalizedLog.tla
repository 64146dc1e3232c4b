---- MODULE FinalizedLog ----
(***************************************************************************)
(* What the parachain promises to those who wait for finality: one list of *)
(* settled transactions and the state they have led to.  Each decision     *)
(* settles a batch more, which the runtime lets through in that very state *)
(* and takes on from there.  Nothing that is settled is taken back.        *)
(***************************************************************************)
EXTENDS Integers, Sequences

CONSTANTS
  Genesis,               \* the state a chain specification starts from
  LetThrough(_, _),      \* whether a state lets a batch through
  Outcome(_, _)          \* the state that a batch leads to

VARIABLES settled, state

Unsettled == settled = << >> /\ state = Genesis

Settle(batch) ==
  /\ batch # << >>
  /\ LetThrough(state, batch)
  /\ settled' = settled \o batch
  /\ state' = Outcome(state, batch)

(* The batch of a step is what comes behind the transactions before it.    *)
SettleMore == Settle(SubSeq(settled', Len(settled) + 1, Len(settled')))

Settling == Unsettled /\ [][SettleMore]_<< settled, state >>

====
