----------------------------- MODULE NodeService -----------------------------
(***************************************************************************)
(* One node of Alice's as a process: the command line of node/src/cli.rs   *)
(* and command.rs, the start-up of service.rs step by step, the tasks it   *)
(* leaves running, how it ends, and what is then in its database.  What    *)
(* the node does with transactions is in Chain.                            *)
(*                                                                         *)
(* A chain is the set of the slots of its blocks, and a block is the chain *)
(* that ends with it.  final is the slot of the last final block, 0 for    *)
(* genesis.  Writes to a database are durable when they return.            *)
(***************************************************************************)
EXTENDS Integers, Sequences, FiniteSets

CONSTANTS
  CommandLine,   \* what the node is run with: records of id, authority (as
                 \* --validator with Alice's keys, --alice and --dev ask for),
                 \* grandpa, force and tmp (--dev asks for both)
  MaxSlot        \* bound of the model on the slots

ChainId == {"dev", "", "local"}
Config == [id : ChainId, authority : BOOLEAN, grandpa : BOOLEAN, force : BOOLEAN, tmp : BOOLEAN]

ASSUME MaxSlotAssumption == MaxSlot \in Nat
ASSUME CommandLineAssumption == CommandLine \subseteq Config

VARIABLES
  phase,         \* "down", a subcommand, or how far new_full has come
  config,        \* the command line of the process
  tasks,         \* the tasks that are running
  failed,        \* whether an essential task has told the task manager its end
  online,        \* whether the network has been started, and still runs
  next,          \* the first slot that the aura task may still claim
  slot,          \* the current slot
  db,            \* the databases: one for each chain, and a temporary one
  found,         \* history: the database as a process found it that starts up
  made           \* history: how many blocks Alice has signed for each slot

vars == << phase, config, tasks, failed, online, next, slot, db, found, made >>

-----------------------------------------------------------------------------
Slots == 1..MaxSlot
Genesis == [best |-> {}, final |-> 0]

DevelopmentConfig == [name |-> "dev", authorities |-> << "Alice" >>]
LocalTestnetConfig == [name |-> "local_testnet", authorities |-> << "Alice", "Bob" >>]

ChainName == {"dev", "local_testnet"}

(* load_spec: without an id it is the local testnet.  Chains from a file   *)
(* are left out.                                                           *)
LoadSpec(id) == IF id = "dev" THEN DevelopmentConfig ELSE LocalTestnetConfig

Name == LoadSpec(config.id).name
Authorities == LoadSpec(config.id).authorities

(* Where a process keeps its database: in a temporary directory, or below  *)
(* the base path in one named after the chain.                             *)
DirOf(c) == IF c.tmp THEN "tmp" ELSE LoadSpec(c.id).name
Dir == DirOf(config)

Author(s) == Authorities[(s % Len(Authorities)) + 1]

(* Whether Alice may make blocks, or final ones, without a peer.           *)
Alone == config.authority /\ Len(Authorities) = 1

(* The command line of a subcommand, or of no process at all.              *)
NoOption(id) ==
  [id |-> id, authority |-> FALSE, grandpa |-> FALSE, force |-> FALSE, tmp |-> FALSE]

(* The tasks, as far as they matter here.                                  *)
Task == {"txpool", "import-queue", "network-worker", "aura", "grandpa-voter"}

(* Mutant of Essential: the authoring task is spawned like any other.      *)
EssentialButAura == {"txpool", "import-queue", "grandpa-voter"}

(* Those that spawn_essential_handle spawns.                               *)
Essential == {"txpool", "import-queue", "aura", "grandpa-voter"}

StartUp == {"partial", "network", "rpc", "authoring", "voting"}

(* export-blocks stands for all that only read the database: check-block,  *)
(* export-state and benchmark, too.                                        *)
Subcommand == {"export-blocks", "import-blocks", "revert"}

-----------------------------------------------------------------------------
(* new_partial: the database is opened, genesis written to a new one, and  *)
(* the pool and the import queue run.                                      *)
NewPartial(c, reached) ==
  /\ phase = "down"
  /\ phase' = reached /\ config' = c
  /\ tasks' = {"txpool", "import-queue"}
  /\ found' = IF reached \in StartUp THEN db[DirOf(c)] ELSE found
  /\ UNCHANGED << failed, online, next, slot, db, made >>

RunNode(c) == NewPartial(c, "partial")

(* A step of new_full that spawns some tasks.                              *)
Step(from, to, spawned) ==
  /\ phase = from /\ phase' = to
  /\ tasks' = tasks \cup spawned

(* Mutant of BuildNetwork: the network is not held until start_network.    *)
BuildNetworkStarted ==
  /\ Step("partial", "network", {"network-worker"})
  /\ online' = TRUE
  /\ UNCHANGED << config, failed, next, slot, db, found, made >>

BuildNetwork ==
  /\ Step("partial", "network", {"network-worker"})
  /\ UNCHANGED << config, failed, online, next, slot, db, found, made >>

(* The RPC of rpc.rs is served: it serves Chain's clients.                 *)
SpawnTasks ==
  /\ Step("network", "rpc", {})
  /\ UNCHANGED << config, failed, online, next, slot, db, found, made >>

(* Mutant of FirstClaim: the slot that the process is started in.          *)
FirstClaimNow == slot

(* The task waits for the slot after the one that it is started in.        *)
FirstClaim == slot + 1

StartAura ==
  /\ Step("rpc", "authoring", IF config.authority THEN {"aura"} ELSE {})
  /\ next' = IF config.authority THEN FirstClaim ELSE next
  /\ UNCHANGED << config, failed, online, slot, db, found, made >>

StartVoter ==
  /\ Step("authoring", "voting", IF config.grandpa THEN {"grandpa-voter"} ELSE {})
  /\ UNCHANGED << config, failed, online, next, slot, db, found, made >>

(* Last of all start_network, and new_full returns the task manager.       *)
StartNetwork ==
  /\ Step("voting", "running", {})
  /\ online' = ("network-worker" \in tasks)
  /\ found' = Genesis
  /\ UNCHANGED << config, failed, next, slot, db, made >>

StartSteps == BuildNetwork \/ SpawnTasks \/ StartAura \/ StartVoter \/ StartNetwork

(* The process is gone, and a temporary directory with it.                 *)
End ==
  /\ phase' = "down" /\ config' = NoOption("")
  /\ tasks' = {} /\ failed' = FALSE /\ online' = FALSE /\ next' = 0
  /\ db' = [db EXCEPT !["tmp"] = Genesis]
  /\ found' = Genesis
  /\ UNCHANGED << slot, made >>

(* An error of a step of new_full is returned: the tasks that earlier      *)
(* steps have spawned go with the task manager.                            *)
StartFails == phase \in StartUp /\ End

(* A task panics or returns.  The end of an essential one is noticed by    *)
(* the future of the task manager, not before that is polled.              *)
TaskEnds(t) ==
  /\ t \in tasks
  /\ tasks' = tasks \ {t}
  /\ failed' = (failed \/ t \in Essential)
  /\ online' = (online /\ t # "network-worker")
  /\ UNCHANGED << phase, config, next, slot, db, found, made >>

(* run_node_until_exit: the task manager's future returns.                 *)
Exit == phase = "running" /\ failed /\ End

(* Ctrl-C, or a crash, of the node or of a subcommand.                     *)
Stop == phase # "down" /\ End

-----------------------------------------------------------------------------
Tick ==
  /\ slot < MaxSlot
  /\ slot' = slot + 1
  /\ UNCHANGED << phase, config, tasks, failed, online, next, db, found, made >>

(* The aura task: at most once in a slot, on a best chain that ends before *)
(* it, and, unless forced or alone, not without a network.                 *)
AuthorBlock ==
  /\ "aura" \in tasks
  /\ next <= slot /\ Author(slot) = "Alice"
  /\ config.force \/ Alone \/ online
  /\ \A s \in db[Dir].best : s < slot
  /\ next' = slot + 1
  /\ db' = [db EXCEPT ![Dir].best = @ \cup {slot}]
  /\ made' = [made EXCEPT ![Name][slot] = @ + 1]
  /\ UNCHANGED << phase, config, tasks, failed, online, slot, found >>

(* The slots of a chain that others may have: those of Alice's with the    *)
(* blocks that she has made.                                               *)
Theirs == {s \in 1..slot : Author(s) = "Alice" => made[Name][s] > 0}

UpTo(chain, s) == {b \in chain : b <= s}

(* Blocks are imported up to a chain that is longer and no fork of what is *)
(* final, and a justification that comes with them makes some final.       *)
ImportInto(chain) ==
  LET old == db[Dir]
  IN  /\ "import-queue" \in tasks
      /\ Cardinality(chain) > Cardinality(old.best)
      /\ UpTo(chain, old.final) = UpTo(old.best, old.final)
      /\ \E f \in {old.final} \cup chain :
           f >= old.final /\ db' = [db EXCEPT ![Dir] = [best |-> chain, final |-> f]]
      /\ UNCHANGED << phase, config, tasks, failed, online, next, slot, found, made >>

(* From the network, or from a file by import-blocks.                      *)
ImportBlocks == online /\ \E chain \in SUBSET Theirs : ImportInto(chain)
ImportFile == phase = "import-blocks" /\ \E chain \in SUBSET Theirs : ImportInto(chain)

(* The voter: some blocks of the best chain become final, with the votes   *)
(* of others or, if there are none, Alice's.                               *)
Finalize ==
  /\ "grandpa-voter" \in tasks
  /\ Alone \/ online
  /\ \E f \in db[Dir].best : f > db[Dir].final /\ db' = [db EXCEPT ![Dir].final = f]
  /\ UNCHANGED << phase, config, tasks, failed, online, next, slot, found, made >>

-----------------------------------------------------------------------------
(* A subcommand that uses the database, below the base path.               *)
RunCommand(cmd, id) == NewPartial(NoOption(id), cmd)

(* Mutant of Revertible: final blocks are not spared.                      *)
RevertibleFinal(chain) == chain.best \cup {0}

(* What a revert may leave as the last block.                              *)
Revertible(chain) == {s \in chain.best \cup {0} : s >= chain.final}

(* revert: the number of blocks is capped by those that are not final.     *)
Revert ==
  /\ phase = "revert"
  /\ \E last \in Revertible(db[Dir]) :
       db' = [db EXCEPT ![Dir] = [best  |-> UpTo(@.best, last),
                                  final |-> IF @.final > last THEN last ELSE @.final]]
  /\ UNCHANGED << phase, config, tasks, failed, online, next, slot, found, made >>

EndCommand == phase \in Subcommand /\ End

(* purge-chain, with no process running.  key, build-spec and chain-info   *)
(* touch no database.                                                      *)
PurgeChain(name) ==
  /\ phase = "down" /\ db[name] # Genesis
  /\ db' = [db EXCEPT ![name] = Genesis]
  /\ UNCHANGED << phase, config, tasks, failed, online, next, slot, found, made >>

-----------------------------------------------------------------------------
Init ==
  /\ phase = "down" /\ config = NoOption("")
  /\ tasks = {} /\ failed = FALSE /\ online = FALSE /\ next = 0
  /\ slot = 0
  /\ db = [d \in ChainName \cup {"tmp"} |-> Genesis]
  /\ found = Genesis
  /\ made = [name \in ChainName |-> [s \in Slots |-> 0]]

Next ==
  \/ \E c \in CommandLine : RunNode(c)
  \/ StartSteps \/ StartFails \/ Exit \/ Stop
  \/ \E t \in Task : TaskEnds(t)
  \/ Tick \/ AuthorBlock \/ ImportBlocks \/ Finalize
  \/ \E cmd \in Subcommand, id \in ChainId : RunCommand(cmd, id)
  \/ ImportFile \/ Revert \/ EndCommand
  \/ \E name \in ChainName : PurgeChain(name)

(* new_full does not wait for anything, and the task manager is polled.    *)
Spec == Init /\ [][Next]_vars /\ WF_vars(StartSteps) /\ WF_vars(Exit)

-----------------------------------------------------------------------------
Database == [best : SUBSET Slots, final : 0..MaxSlot]

(* A process runs the tasks that its start-up has reached, is online only  *)
(* when that is complete, and every database has a chain of past slots     *)
(* that contains its last final block (service.rs:126-316).                *)
TypeOK ==
  /\ phase \in {"down", "running"} \cup StartUp \cup Subcommand
  /\ config \in Config
  /\ tasks \subseteq Task /\ failed \in BOOLEAN
  /\ online \in BOOLEAN /\ (online => phase = "running")
  /\ slot \in 0..MaxSlot /\ next \in 0..(MaxSlot + 1)
  /\ db \in [ChainName \cup {"tmp"} -> Database] /\ found \in Database
  /\ made \in [ChainName -> [Slots -> Nat]]
  /\ \A d \in DOMAIN db : db[d].best \subseteq 1..slot /\ db[d].final \in db[d].best \cup {0}

(* Alice never signs two blocks for one slot of a chain, which others can  *)
(* prove as equivocation, however often her node crashes and is started    *)
(* again within a slot, and although revert, purge-chain and a temporary   *)
(* directory make it forget the blocks it made                             *)
(* (service.rs:222-268, command.rs:88-104).                                *)
OneBlockPerSlot ==
  \A name \in ChainName, s \in Slots : made[name][s] <= 1

(* A node leaves its database as it was until new_full has come to its     *)
(* last line, or to start_aura if it may make blocks without a peer: when  *)
(* a later step fails, nothing has been imported, made or finalised        *)
(* (service.rs:126-316).                                                   *)
FailedStartLeavesDatabase ==
  /\ phase \in StartUp /\ ~ Alone /\ ~ config.force => db[Dir] = found
  /\ phase \in {"partial", "network", "rpc"} => db[Dir] = found

(* No step takes back final blocks, but that of purge-chain; and what a    *)
(* temporary node finalised goes with it (command.rs:84-99).               *)
FinalKept ==
  [][\A name \in ChainName : PurgeChain(name) \/
       /\ db'[name].final >= db[name].final
       /\ UpTo(db'[name].best, db[name].final) = UpTo(db[name].best, db[name].final)]_vars

(* The tasks that the comments of service.rs call essential and infallible *)
(* and those new_partial spawns, as far as they have been spawned.         *)
Spawned ==
  CASE phase = "running" \/ phase \in StartUp ->
         {"txpool", "import-queue"}
         \cup {t \in {"aura"} : config.authority /\ phase \in {"authoring", "voting", "running"}}
         \cup {t \in {"grandpa-voter"} : config.grandpa /\ phase \in {"voting", "running"}}
    [] OTHER -> {}

(* A node does not live on without one of them: if it ends, at any moment  *)
(* since it was spawned, the service is taken down                         *)
(* (service.rs:263-267, 306-312).                                          *)
EssentialTaskTakesDown == (Spawned \ tasks # {}) ~> phase = "down"

=============================================================================
