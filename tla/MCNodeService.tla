---------------------------- MODULE MCNodeService ----------------------------
(***************************************************************************)
(* Alice's node with --dev, which is temporary, with --dev and a base      *)
(* path, as one of the two authorities of the local testnet, also with     *)
(* --force-authoring, and as a full node without GRANDPA's voter.          *)
(***************************************************************************)
EXTENDS NodeService

MCCommandLine ==
  {[id |-> "dev", authority |-> TRUE, grandpa |-> TRUE, force |-> TRUE, tmp |-> TRUE],
   [id |-> "dev", authority |-> TRUE, grandpa |-> TRUE, force |-> TRUE, tmp |-> FALSE],
   [id |-> "local", authority |-> TRUE, grandpa |-> TRUE, force |-> FALSE, tmp |-> FALSE],
   [id |-> "local", authority |-> TRUE, grandpa |-> TRUE, force |-> TRUE, tmp |-> FALSE],
   [id |-> "", authority |-> FALSE, grandpa |-> FALSE, force |-> FALSE, tmp |-> FALSE]}

=============================================================================
