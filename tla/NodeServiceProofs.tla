-------------------------- MODULE NodeServiceProofs --------------------------
(***************************************************************************)
(* What holds of Alice's node for every set of command lines and any       *)
(* number of slots, however often it is stopped and started.               *)
(***************************************************************************)
EXTENDS NodeService, TLAPS

Dirs == ChainName \cup {"tmp"}

(* Which tasks can be running in which phase.                              *)
TasksStarted ==
  /\ "aura" \in tasks => config.authority /\ phase \in {"authoring", "voting", "running"}
  /\ "grandpa-voter" \in tasks => phase \in {"voting", "running"}

(* What the aura task may still claim, Alice has not signed yet: no slot   *)
(* to come, and the current one only if it was claimed by this process.    *)
ClaimsFresh ==
  /\ \A name \in ChainName, s \in Slots : s > slot => made[name][s] = 0
  /\ "aura" \in tasks => next >= 1
  /\ "aura" \in tasks /\ next <= slot => made[Name][slot] = 0

IInv ==
  /\ TypeOK /\ TasksStarted /\ ClaimsFresh
  /\ OneBlockPerSlot /\ FailedStartLeavesDatabase

-----------------------------------------------------------------------------
LEMMA ConfigFacts ==
  /\ CommandLine \subseteq Config
  /\ \A id \in ChainId : NoOption(id) \in Config /\ ~ NoOption(id).authority
  /\ \A c \in Config : DirOf(c) \in Dirs /\ LoadSpec(c.id).name \in ChainName
<1>1. CommandLine \subseteq Config
  BY CommandLineAssumption
<1>2. \A id \in ChainId : NoOption(id) \in Config /\ ~ NoOption(id).authority
  BY DEF NoOption, Config
<1>3. \A c \in Config : LoadSpec(c.id).name \in ChainName
  BY DEF LoadSpec, DevelopmentConfig, LocalTestnetConfig, ChainName
<1>4. \A c \in Config : DirOf(c) \in Dirs
  BY <1>3 DEF DirOf, Dirs
<1>5. QED  BY <1>1, <1>2, <1>3, <1>4

LEMMA GenesisFacts ==
  /\ Genesis \in Database /\ Genesis.best = {} /\ Genesis.final = 0
BY MaxSlotAssumption DEF Genesis, Database

LEMMA InitInv == Init => IInv
<1> SUFFICES ASSUME Init  PROVE IInv
  OBVIOUS
<1>1. db \in [Dirs -> Database] /\ found \in Database
  BY GenesisFacts DEF Init, Dirs
<1>2. \A d \in DOMAIN db : db[d].best \subseteq 1..slot /\ db[d].final \in db[d].best \cup {0}
  BY GenesisFacts DEF Init
<1>3. /\ made \in [ChainName -> [Slots -> Nat]]
      /\ \A name \in ChainName, s \in Slots : made[name][s] = 0
  BY DEF Init
<1>4. config \in Config
  BY ConfigFacts DEF Init, ChainId
<1>5. /\ phase = "down" /\ tasks = {} /\ failed = FALSE /\ online = FALSE
      /\ slot = 0 /\ next = 0
  BY DEF Init
<1>6. TypeOK
  <2>1. /\ slot \in 0..MaxSlot /\ next \in 0..(MaxSlot + 1)
    BY <1>5, MaxSlotAssumption
  <2>2. /\ phase \in {"down", "running"} \cup StartUp \cup Subcommand
        /\ tasks \subseteq Task /\ failed \in BOOLEAN
        /\ online \in BOOLEAN /\ (online => phase = "running")
    BY <1>5
  <2>3. QED  BY <1>1, <1>2, <1>3, <1>4, <2>1, <2>2, Zenon DEF TypeOK, Dirs
<1>7. TasksStarted /\ ClaimsFresh /\ OneBlockPerSlot /\ FailedStartLeavesDatabase
  BY <1>3, <1>5 DEF TasksStarted, ClaimsFresh, OneBlockPerSlot, FailedStartLeavesDatabase, StartUp
<1>8. QED  BY <1>6, <1>7 DEF IInv

(* A process that begins has no tasks that sign or vote.                   *)
LEMMA BeginInv ==
  ASSUME IInv, NEW c \in Config, NEW reached \in {"partial"} \cup Subcommand,
         NewPartial(c, reached)
  PROVE  IInv'
<1>1. /\ phase' = reached /\ config' = c /\ tasks' = {"txpool", "import-queue"}
      /\ UNCHANGED << failed, online, next, slot, db, made >>
      /\ found' = IF reached \in StartUp THEN db[DirOf(c)] ELSE found
      /\ phase = "down"
  BY DEF NewPartial
<1>2. found' \in Database
  BY <1>1, ConfigFacts DEF IInv, TypeOK, Dirs
<1>3. TypeOK'
  <2>1. /\ phase' \in {"down", "running"} \cup StartUp \cup Subcommand
        /\ tasks' \subseteq Task /\ ~ online
    BY <1>1 DEF IInv, TypeOK, Task, StartUp, Subcommand
  <2>2. QED  BY <1>1, <1>2, <2>1 DEF IInv, TypeOK
<1>4. TasksStarted' /\ ClaimsFresh' /\ OneBlockPerSlot'
  BY <1>1 DEF IInv, TasksStarted, ClaimsFresh, OneBlockPerSlot
<1>5. FailedStartLeavesDatabase'
  BY <1>1 DEF FailedStartLeavesDatabase, StartUp, Subcommand, Dir
<1>6. QED  BY <1>3, <1>4, <1>5 DEF IInv

LEMMA EndInv ==
  ASSUME IInv, End
  PROVE  IInv'
<1>1. TypeOK'
  <2>1. /\ db' = [db EXCEPT !["tmp"] = Genesis] /\ found' = Genesis /\ config' = NoOption("")
        /\ phase' = "down" /\ tasks' = {} /\ failed' = FALSE /\ online' = FALSE /\ next' = 0
        /\ slot' = slot /\ made' = made
    BY DEF End
  <2>2. db \in [Dirs -> Database]
    BY DEF IInv, TypeOK, Dirs
  <2>3. db' \in [Dirs -> Database] /\ found' \in Database
    BY <2>1, <2>2, GenesisFacts
  <2>4. \A d \in Dirs : db'[d] = Genesis \/ db'[d] = db[d]
    BY <2>1, <2>2
  <2>5. \A d \in DOMAIN db' :
          db'[d].best \subseteq 1..slot' /\ db'[d].final \in db'[d].best \cup {0}
    BY <2>1, <2>2, <2>3, <2>4, GenesisFacts DEF IInv, TypeOK
  <2>6. config' \in Config
    BY <2>1, ConfigFacts DEF ChainId
  <2>7. next' \in 0..(MaxSlot + 1)
    <3>1. next' = 0
      BY <2>1, Zenon
    <3>2. QED  BY <3>1, MaxSlotAssumption
  <2>8. /\ phase' \in {"down", "running"} \cup StartUp \cup Subcommand
        /\ tasks' \subseteq Task /\ failed' \in BOOLEAN
        /\ online' \in BOOLEAN /\ (online' => phase' = "running")
    BY <2>1
  <2>9. slot' \in 0..MaxSlot /\ made' \in [ChainName -> [Slots -> Nat]]
    BY <2>1 DEF IInv, TypeOK
  <2>10. QED  BY <2>3, <2>5, <2>6, <2>7, <2>8, <2>9, Zenon DEF TypeOK, Dirs
<1>2. TasksStarted' /\ ClaimsFresh' /\ OneBlockPerSlot' /\ FailedStartLeavesDatabase'
  BY DEF IInv, End, TasksStarted, ClaimsFresh, OneBlockPerSlot, FailedStartLeavesDatabase, StartUp
<1>3. QED  BY <1>1, <1>2 DEF IInv

(* A step of new_full moves on and spawns; the aura task begins with a     *)
(* slot to come.                                                           *)
LEMMA StartInv ==
  ASSUME IInv, StartSteps
  PROVE  IInv'
<1>1. TypeOK'
  <2>1. /\ phase' \in {"running"} \cup StartUp
        /\ tasks' \subseteq Task
    BY DEF IInv, TypeOK, StartSteps, BuildNetwork, SpawnTasks, StartAura, StartVoter,
           StartNetwork, Step, Task, StartUp
  <2>2. next' \in 0..(MaxSlot + 1)
    BY MaxSlotAssumption
       DEF IInv, TypeOK, StartSteps, BuildNetwork, SpawnTasks, StartAura, StartVoter,
           StartNetwork, FirstClaim
  <2>3. online' \in BOOLEAN /\ (online' => phase' = "running")
    <3>1. CASE StartNetwork
      <4>1. ("network-worker" \in tasks) \in BOOLEAN
        OBVIOUS
      <4>2. online' = ("network-worker" \in tasks)
        BY <3>1, Zenon DEF StartNetwork
      <4>3. phase' = "running"
        BY <3>1 DEF StartNetwork, Step
      <4>4. QED  BY <4>1, <4>2, <4>3, Zenon
    <3>2. CASE BuildNetwork \/ SpawnTasks \/ StartAura \/ StartVoter
      <4>1. UNCHANGED online /\ phase # "running"
        BY <3>2 DEF BuildNetwork, SpawnTasks, StartAura, StartVoter, Step
      <4>2. QED  BY <4>1, Zenon DEF IInv, TypeOK
    <3>3. QED  BY <3>1, <3>2 DEF StartSteps
  <2>4. found' \in Database
    BY GenesisFacts
       DEF IInv, TypeOK, StartSteps, BuildNetwork, SpawnTasks, StartAura, StartVoter, StartNetwork
  <2>5. UNCHANGED << config, failed, slot, db, made >>
    BY DEF StartSteps, BuildNetwork, SpawnTasks, StartAura, StartVoter, StartNetwork
  <2>6. QED  BY <2>1, <2>2, <2>3, <2>4, <2>5 DEF IInv, TypeOK
<1>2. TasksStarted'
  BY DEF IInv, TypeOK, TasksStarted, StartSteps, BuildNetwork, SpawnTasks, StartAura, StartVoter,
         StartNetwork, Step
<1>3. ClaimsFresh'
  <2>1. CASE StartAura
    BY <2>1 DEF IInv, TypeOK, ClaimsFresh, StartAura, Step, FirstClaim, Name
  <2>2. CASE BuildNetwork \/ SpawnTasks \/ StartVoter \/ StartNetwork
    BY <2>2 DEF IInv, ClaimsFresh, BuildNetwork, SpawnTasks, StartVoter, StartNetwork, Step, Name
  <2>3. QED  BY <2>1, <2>2 DEF StartSteps
<1>4. OneBlockPerSlot'
  BY DEF IInv, OneBlockPerSlot, StartSteps, BuildNetwork, SpawnTasks, StartAura, StartVoter,
         StartNetwork
<1>5. FailedStartLeavesDatabase'
  <2>1. CASE StartNetwork
    BY <2>1 DEF StartNetwork, Step, FailedStartLeavesDatabase, StartUp
  <2>2. CASE BuildNetwork \/ SpawnTasks \/ StartAura \/ StartVoter
    BY <2>2 DEF IInv, FailedStartLeavesDatabase, StartUp, BuildNetwork, SpawnTasks, StartAura,
                StartVoter, Step, Alone, Authorities, Dir
  <2>3. QED  BY <2>1, <2>2 DEF StartSteps
<1>6. QED  BY <1>1, <1>2, <1>3, <1>4, <1>5 DEF IInv

LEMMA TaskEndsInv ==
  ASSUME IInv, NEW t \in Task, TaskEnds(t)
  PROVE  IInv'
BY DEF IInv, TypeOK, TasksStarted, ClaimsFresh, OneBlockPerSlot, FailedStartLeavesDatabase,
       TaskEnds, Name, Alone, Authorities, Dir

LEMMA TickInv ==
  ASSUME IInv, Tick
  PROVE  IInv'
<1>1. TypeOK'
  BY MaxSlotAssumption DEF IInv, TypeOK, Tick
<1>2. ClaimsFresh'
  <2>1. slot \in Nat /\ slot' = slot + 1 /\ slot + 1 \in Slots
    BY MaxSlotAssumption DEF IInv, TypeOK, Tick, Slots
  <2>2. Name \in ChainName
    BY ConfigFacts DEF IInv, TypeOK, Name
  <2>3. made[Name][slot + 1] = 0
    BY <2>1, <2>2 DEF IInv, ClaimsFresh
  <2>4. QED  BY <2>1, <2>3 DEF IInv, ClaimsFresh, Tick, Name, Slots
<1>3. TasksStarted' /\ OneBlockPerSlot' /\ FailedStartLeavesDatabase'
  BY DEF IInv, TasksStarted, OneBlockPerSlot, FailedStartLeavesDatabase, Tick, Alone,
         Authorities, Dir
<1>4. QED  BY <1>1, <1>2, <1>3 DEF IInv

(* A step that replaces one database by another that is in order, and not  *)
(* that of a node which is starting up, unless it may make blocks.         *)
Replaces(d, new) ==
  /\ d \in Dirs /\ new \in Database
  /\ new.best \subseteq 1..slot /\ new.final \in new.best \cup {0}
  /\ db' = [db EXCEPT ![d] = new]

MayWrite ==
  phase \in StartUp => phase \in {"authoring", "voting"} /\ (Alone \/ config.force)

LEMMA DbInv ==
  ASSUME IInv, NEW d, NEW new, Replaces(d, new), MayWrite,
         UNCHANGED << phase, config, tasks, failed, online, next, slot, found, made >>
  PROVE  IInv'
<1>1. db \in [Dirs -> Database]
  BY DEF IInv, TypeOK, Dirs
<1>2. /\ db' \in [Dirs -> Database] /\ db'[d] = new
      /\ \A e \in Dirs : e # d => db'[e] = db[e]
  BY <1>1 DEF Replaces
<1>3. \A e \in DOMAIN db' :
        db'[e].best \subseteq 1..slot' /\ db'[e].final \in db'[e].best \cup {0}
  BY <1>1, <1>2 DEF Replaces, IInv, TypeOK
<1>4. TypeOK'
  BY <1>2, <1>3 DEF IInv, TypeOK, Dirs
<1>5. TasksStarted' /\ ClaimsFresh' /\ OneBlockPerSlot'
  BY DEF IInv, TasksStarted, ClaimsFresh, OneBlockPerSlot, Name
<1>6. FailedStartLeavesDatabase'
  BY DEF MayWrite, FailedStartLeavesDatabase, StartUp, Alone, Authorities
<1>7. QED  BY <1>4, <1>5, <1>6 DEF IInv

LEMMA DirFacts ==
  ASSUME TypeOK
  PROVE  /\ Dir \in Dirs /\ Name \in ChainName
         /\ db[Dir] \in Database /\ db[Dir].best \subseteq 1..slot
         /\ db[Dir].final \in db[Dir].best \cup {0}
         /\ slot \in Nat /\ slot <= MaxSlot /\ MaxSlot \in Nat
         /\ db[Dir] = [best |-> db[Dir].best, final |-> db[Dir].final]
<1>1. Dir \in Dirs /\ Name \in ChainName
  BY ConfigFacts DEF TypeOK, Dir, Name
<1>2. db[Dir] \in Database /\ DOMAIN db = Dirs
  BY <1>1 DEF TypeOK, Dirs
<1>3. slot \in Nat /\ slot <= MaxSlot /\ MaxSlot \in Nat
  BY MaxSlotAssumption DEF TypeOK
<1>4. db[Dir] = [best |-> db[Dir].best, final |-> db[Dir].final]
  BY <1>2 DEF Database
<1>5. QED  BY <1>1, <1>2, <1>3, <1>4 DEF TypeOK

(* What each of the steps that write a database replaces it by.            *)
LEMMA AuthorReplaces ==
  ASSUME IInv, AuthorBlock
  PROVE  /\ Replaces(Dir, [best |-> db[Dir].best \cup {slot}, final |-> db[Dir].final])
         /\ MayWrite /\ slot \in Slots
         /\ \A s \in db[Dir].best : s < slot
<1>1. /\ "aura" \in tasks /\ next <= slot /\ (config.force \/ Alone \/ online)
      /\ \A s \in db[Dir].best : s < slot
      /\ db' = [db EXCEPT ![Dir].best = @ \cup {slot}]
  BY DEF AuthorBlock
<1>2. slot \in Slots
  BY <1>1, DirFacts DEF IInv, TypeOK, ClaimsFresh, Slots
<1>3. db' = [db EXCEPT ![Dir] = [best |-> db[Dir].best \cup {slot}, final |-> db[Dir].final]]
  <2>1. [db[Dir] EXCEPT !.best = @ \cup {slot}]
          = [best |-> db[Dir].best \cup {slot}, final |-> db[Dir].final]
    BY DirFacts DEF IInv, Database
  <2>2. db' = [db EXCEPT ![Dir] = [db[Dir] EXCEPT !.best = db[Dir].best \cup {slot}]]
    BY <1>1
  <2>3. QED  BY <2>1, <2>2, Zenon
<1>4. MayWrite
  BY <1>1 DEF IInv, TasksStarted, TypeOK, MayWrite, StartUp
<1>5. [best |-> db[Dir].best \cup {slot}, final |-> db[Dir].final] \in Database
  BY <1>2, DirFacts DEF IInv, Database
<1>6. db[Dir].best \cup {slot} \subseteq 1..slot
  BY <1>2, DirFacts DEF IInv, Slots
<1>7. QED  BY <1>1, <1>2, <1>3, <1>4, <1>5, <1>6, DirFacts DEF Replaces, IInv

LEMMA ImportReplaces ==
  ASSUME IInv, NEW chain \in SUBSET Theirs, ImportInto(chain), online \/ phase = "import-blocks"
  PROVE  /\ MayWrite
         /\ \E new : /\ Replaces(Dir, new) /\ new.final >= db[Dir].final
                     /\ UpTo(new.best, db[Dir].final) = UpTo(db[Dir].best, db[Dir].final)
<1>1. MayWrite
  BY DEF IInv, TypeOK, MayWrite, StartUp
<1>2. PICK f \in {db[Dir].final} \cup chain :
        /\ f >= db[Dir].final /\ UpTo(chain, db[Dir].final) = UpTo(db[Dir].best, db[Dir].final)
        /\ db' = [db EXCEPT ![Dir] = [best |-> chain, final |-> f]]
  BY DEF ImportInto
<1>3. chain \subseteq 1..slot /\ chain \subseteq Slots
  BY DirFacts DEF IInv, Theirs, Slots
<1>4. f \in chain \cup {0}
  <2>1. CASE f = db[Dir].final /\ f # 0
    <3>1. f \in UpTo(db[Dir].best, db[Dir].final)
      BY <2>1, DirFacts DEF IInv, UpTo
    <3>2. QED  BY <1>2, <3>1 DEF UpTo
  <2>2. QED  BY <1>2, <2>1
<1>5. [best |-> chain, final |-> f] \in Database
  BY <1>3, <1>4, DirFacts DEF IInv, Database, Slots
<1>6. Replaces(Dir, [best |-> chain, final |-> f])
  BY <1>2, <1>3, <1>4, <1>5, DirFacts DEF IInv, Replaces
<1> DEFINE new == [best |-> chain, final |-> f]
<1>7. new.best = chain /\ new.final = f
  OBVIOUS
<1>8. QED  BY <1>1, <1>2, <1>6, <1>7

LEMMA FinalizeReplaces ==
  ASSUME IInv, Finalize
  PROVE  /\ MayWrite
         /\ \E f \in db[Dir].best :
              f > db[Dir].final /\ Replaces(Dir, [best |-> db[Dir].best, final |-> f])
<1>1. MayWrite
  BY DEF IInv, TypeOK, TasksStarted, Finalize, MayWrite, StartUp
<1>2. PICK f \in db[Dir].best : f > db[Dir].final /\ db' = [db EXCEPT ![Dir].final = f]
  BY DEF Finalize
<1>3. db' = [db EXCEPT ![Dir] = [best |-> db[Dir].best, final |-> f]]
  <2>1. [db[Dir] EXCEPT !.final = f] = [best |-> db[Dir].best, final |-> f]
    BY DirFacts DEF IInv, Database
  <2>2. db' = [db EXCEPT ![Dir] = [db[Dir] EXCEPT !.final = f]]
    BY <1>2
  <2>3. QED  BY <2>1, <2>2, Zenon
<1>4. [best |-> db[Dir].best, final |-> f] \in Database
  BY <1>2, DirFacts DEF IInv, Database, Slots
<1>5. QED  BY <1>1, <1>2, <1>3, <1>4, DirFacts DEF IInv, Replaces

LEMMA RevertReplaces ==
  ASSUME IInv, Revert
  PROVE  /\ MayWrite
         /\ \E last \in Nat :
              /\ last >= db[Dir].final
              /\ Replaces(Dir, [best |-> UpTo(db[Dir].best, last), final |-> db[Dir].final])
<1>1. MayWrite
  BY DEF Revert, MayWrite, StartUp
<1>2. PICK last \in Revertible(db[Dir]) :
        db' = [db EXCEPT ![Dir] =
                 [best  |-> UpTo(db[Dir].best, last),
                  final |-> IF db[Dir].final > last THEN last ELSE db[Dir].final]]
  BY DEF Revert
<1>3. last \in Nat /\ last >= db[Dir].final /\ db[Dir].final \in Nat
  BY <1>2, DirFacts DEF IInv, Revertible
<1>4. db' = [db EXCEPT ![Dir] = [best |-> UpTo(db[Dir].best, last), final |-> db[Dir].final]]
  <2>1. (IF db[Dir].final > last THEN last ELSE db[Dir].final) = db[Dir].final
    BY <1>3
  <2>2. QED  BY <1>2, <2>1
<1>5. /\ UpTo(db[Dir].best, last) \subseteq db[Dir].best
      /\ db[Dir].final \in UpTo(db[Dir].best, last) \cup {0}
  BY <1>3, DirFacts DEF IInv, UpTo
<1>6. [best |-> UpTo(db[Dir].best, last), final |-> db[Dir].final] \in Database
  BY <1>5, DirFacts DEF IInv, Database
<1>7. QED  BY <1>1, <1>3, <1>4, <1>5, <1>6, DirFacts DEF IInv, Replaces

-----------------------------------------------------------------------------
(* A block is signed once: the claim is used up with it.                   *)
LEMMA AuthorInv ==
  ASSUME IInv, AuthorBlock
  PROVE  IInv'
<1> DEFINE new == [best |-> db[Dir].best \cup {slot}, final |-> db[Dir].final]
<1>1. /\ "aura" \in tasks /\ next <= slot /\ next' = slot + 1
      /\ made' = [made EXCEPT ![Name][slot] = @ + 1]
      /\ UNCHANGED << phase, config, tasks, failed, online, slot, found >>
  BY DEF AuthorBlock
<1>2. Replaces(Dir, new) /\ MayWrite /\ slot \in Slots
  BY AuthorReplaces
<1> HIDE DEF new
<1>3. /\ Name \in ChainName /\ made \in [ChainName -> [Slots -> Nat]]
      /\ made[Name][slot] = 0
  BY <1>1, DirFacts DEF IInv, TypeOK, ClaimsFresh
<1>4. /\ made' \in [ChainName -> [Slots -> Nat]]
      /\ made'[Name][slot] = 1
      /\ \A name \in ChainName, s \in Slots :
           name # Name \/ s # slot => made'[name][s] = made[name][s]
  BY <1>1, <1>2, <1>3
<1>5. db \in [Dirs -> Database]
  BY DEF IInv, TypeOK, Dirs
<1>6. /\ db' \in [Dirs -> Database]
      /\ \A d \in DOMAIN db' :
           db'[d].best \subseteq 1..slot' /\ db'[d].final \in db'[d].best \cup {0}
  BY <1>1, <1>2, <1>5 DEF Replaces, IInv, TypeOK, Dirs
<1>7. next' \in 0..(MaxSlot + 1)
  BY <1>1, <1>2, MaxSlotAssumption DEF Slots
<1>8. TypeOK'
  BY <1>1, <1>4, <1>6, <1>7 DEF IInv, TypeOK, Dirs
<1>9. ClaimsFresh'
  BY <1>1, <1>2, <1>4 DEF IInv, ClaimsFresh, Slots
<1>10. OneBlockPerSlot'
  BY <1>1, <1>2, <1>3, <1>4 DEF IInv, OneBlockPerSlot
<1>11. TasksStarted' /\ FailedStartLeavesDatabase'
  BY <1>1, <1>2
     DEF IInv, TasksStarted, MayWrite, FailedStartLeavesDatabase, StartUp, Alone, Authorities
<1>12. QED  BY <1>8, <1>9, <1>10, <1>11 DEF IInv

LEMMA WriteInv ==
  ASSUME IInv, ImportBlocks \/ ImportFile \/ Finalize \/ Revert
  PROVE  IInv'
<1>1. UNCHANGED << phase, config, tasks, failed, online, next, slot, found, made >>
  BY DEF ImportBlocks, ImportFile, ImportInto, Finalize, Revert
<1>2. MayWrite /\ \E new : Replaces(Dir, new)
  <2>1. CASE ImportBlocks \/ ImportFile
    BY <2>1, ImportReplaces DEF ImportBlocks, ImportFile
  <2>2. CASE Finalize
    BY <2>2, FinalizeReplaces
  <2>3. CASE Revert
    BY <2>3, RevertReplaces
  <2>4. QED  BY <2>1, <2>2, <2>3
<1>3. QED  BY <1>1, <1>2, DbInv

LEMMA PurgeInv ==
  ASSUME IInv, NEW name \in ChainName, PurgeChain(name)
  PROVE  IInv'
<1>1. Replaces(name, Genesis)
  BY GenesisFacts DEF PurgeChain, Replaces, Dirs
<1>2. MayWrite /\ UNCHANGED << phase, config, tasks, failed, online, next, slot, found, made >>
  BY DEF PurgeChain, MayWrite, StartUp
<1>3. QED  BY <1>1, <1>2, DbInv

(* Every action keeps the invariant.                                       *)
THEOREM Invariant == Spec => []IInv
<1>1. IInv /\ [Next]_vars => IInv'
  <2> SUFFICES ASSUME IInv, [Next]_vars  PROVE IInv'
    OBVIOUS
  <2>1. ASSUME NEW c \in CommandLine, RunNode(c)  PROVE IInv'
    BY <2>1, BeginInv, ConfigFacts DEF RunNode
  <2>2. ASSUME NEW cmd \in Subcommand, NEW id \in ChainId, RunCommand(cmd, id)  PROVE IInv'
    BY <2>2, BeginInv, ConfigFacts DEF RunCommand
  <2>3. CASE StartFails \/ Exit \/ Stop \/ EndCommand
    BY <2>3, EndInv DEF StartFails, Exit, Stop, EndCommand
  <2>4. CASE UNCHANGED vars
    BY <2>4 DEF vars, IInv, TypeOK, TasksStarted, ClaimsFresh, OneBlockPerSlot,
                FailedStartLeavesDatabase, Name, Alone, Authorities, Dir
  <2>5. QED
    BY <2>1, <2>2, <2>3, <2>4, StartInv, TaskEndsInv, TickInv, AuthorInv, WriteInv, PurgeInv
       DEF Next
<1>2. QED  BY <1>1, InitInv, PTL DEF Spec

(* The process, its tasks and its databases keep their types.              *)
THEOREM TypeCorrect == Spec => []TypeOK
<1>1. IInv => TypeOK
  BY DEF IInv
<1>2. QED  BY <1>1, Invariant, PTL

(* No equivocation, for any number of crashes, reverts and purges.         *)
THEOREM NoEquivocation == Spec => []OneBlockPerSlot
<1>1. IInv => OneBlockPerSlot
  BY DEF IInv
<1>2. QED  BY <1>1, Invariant, PTL

(* A start that fails has written nothing.                                 *)
THEOREM CleanStart == Spec => []FailedStartLeavesDatabase
<1>1. IInv => FailedStartLeavesDatabase
  BY DEF IInv
<1>2. QED  BY <1>1, Invariant, PTL

(* A database that is replaced by one with the final blocks of the old one *)
(* keeps them.                                                             *)
LEMMA Kept ==
  ASSUME IInv, NEW new, Replaces(Dir, new), new.final >= db[Dir].final,
         UpTo(new.best, db[Dir].final) = UpTo(db[Dir].best, db[Dir].final),
         NEW name \in ChainName
  PROVE  /\ db'[name].final >= db[name].final
         /\ UpTo(db'[name].best, db[name].final) = UpTo(db[name].best, db[name].final)
<1>1. db \in [Dirs -> Database] /\ name \in Dirs
  BY DEF IInv, TypeOK, Dirs
<1>2. db[name].final >= db[name].final
  BY <1>1, MaxSlotAssumption DEF Database
<1>3. CASE name = Dir
  BY <1>1, <1>3 DEF Replaces
<1>4. CASE name # Dir
  BY <1>1, <1>2, <1>4 DEF Replaces
<1>5. QED  BY <1>3, <1>4

(* Finality outlives everything but purge-chain.                           *)
THEOREM FinalityKept == Spec => FinalKept
<1> DEFINE Keeps(name) ==
             /\ db'[name].final >= db[name].final
             /\ UpTo(db'[name].best, db[name].final) = UpTo(db[name].best, db[name].final)
<1>1. ASSUME IInv, [Next]_vars, NEW name \in ChainName  PROVE PurgeChain(name) \/ Keeps(name)
  <2>1. db \in [Dirs -> Database] /\ name \in Dirs /\ name # "tmp"
    BY <1>1 DEF IInv, TypeOK, Dirs, ChainName
  <2>2. db[name].final >= db[name].final
    BY <2>1, MaxSlotAssumption DEF Database
  <2>3. CASE db'[name] = db[name]
    BY <2>2, <2>3
  <2>4. CASE AuthorBlock
    <3> DEFINE new == [best |-> db[Dir].best \cup {slot}, final |-> db[Dir].final]
    <3>1. Replaces(Dir, new) /\ slot \in Slots /\ \A s \in db[Dir].best : s < slot
      BY <1>1, <2>4, AuthorReplaces
    <3>2. db[Dir].final < slot /\ db[Dir].final \in Nat
      BY <1>1, <3>1, DirFacts DEF IInv, Slots
    <3>3. new.final >= db[Dir].final
      BY <3>2
    <3>4. UpTo(new.best, db[Dir].final) = UpTo(db[Dir].best, db[Dir].final)
      BY <1>1, <3>1, <3>2, DirFacts DEF IInv, UpTo, Slots
    <3> HIDE DEF new
    <3>5. QED  BY <1>1, <3>1, <3>3, <3>4, Kept
  <2>5. CASE ImportBlocks \/ ImportFile
    <3>1. \E new : /\ Replaces(Dir, new) /\ new.final >= db[Dir].final
                  /\ UpTo(new.best, db[Dir].final) = UpTo(db[Dir].best, db[Dir].final)
      BY <1>1, <2>5, ImportReplaces DEF ImportBlocks, ImportFile
    <3>2. QED  BY <1>1, <3>1, Kept
  <2>6. CASE Finalize
    <3>1. PICK f \in db[Dir].best :
            f > db[Dir].final /\ Replaces(Dir, [best |-> db[Dir].best, final |-> f])
      BY <1>1, <2>6, FinalizeReplaces
    <3> DEFINE new == [best |-> db[Dir].best, final |-> f]
    <3>2. new.best = db[Dir].best /\ new.final >= db[Dir].final
      BY <1>1, <3>1, DirFacts DEF IInv
    <3>3. Replaces(Dir, new)
      BY <3>1
    <3> HIDE DEF new
    <3>4. QED  BY <1>1, <3>2, <3>3, Kept
  <2>7. CASE Revert
    <3>1. PICK last \in Nat :
            /\ last >= db[Dir].final
            /\ Replaces(Dir, [best |-> UpTo(db[Dir].best, last), final |-> db[Dir].final])
      BY <1>1, <2>7, RevertReplaces
    <3> DEFINE new == [best |-> UpTo(db[Dir].best, last), final |-> db[Dir].final]
    <3>2. UpTo(new.best, db[Dir].final) = UpTo(db[Dir].best, db[Dir].final)
      BY <1>1, <3>1, DirFacts DEF IInv, UpTo
    <3>3. new.final >= db[Dir].final
      BY <1>1, DirFacts DEF IInv
    <3>4. Replaces(Dir, new)
      BY <3>1
    <3> HIDE DEF new
    <3>5. QED  BY <1>1, <3>2, <3>3, <3>4, Kept
  <2>8. CASE StartFails \/ Exit \/ Stop \/ EndCommand
    <3>1. db' = [db EXCEPT !["tmp"] = Genesis]
      BY <2>8 DEF StartFails, Exit, Stop, EndCommand, End
    <3>2. QED  BY <2>1, <2>3, <3>1
  <2>9. ASSUME NEW other \in ChainName, PurgeChain(other)  PROVE PurgeChain(name) \/ Keeps(name)
    <3>1. CASE other = name
      BY <2>9, <3>1
    <3>2. CASE other # name
      BY <2>1, <2>3, <2>9, <3>2 DEF PurgeChain
    <3>3. QED  BY <3>1, <3>2
  <2>10. ASSUME UNCHANGED db  PROVE Keeps(name)
    BY <2>2, <2>10
  <2>11. CASE \/ StartSteps \/ Tick \/ UNCHANGED vars
              \/ \E c \in CommandLine : RunNode(c)
              \/ \E cmd \in Subcommand, id \in ChainId : RunCommand(cmd, id)
              \/ \E t \in Task : TaskEnds(t)
    <3>1. UNCHANGED db
      BY <2>11 DEF StartSteps, BuildNetwork, SpawnTasks, StartAura, StartVoter, StartNetwork, Tick,
                   vars, RunNode, RunCommand, NewPartial, TaskEnds
    <3>2. QED  BY <2>10, <3>1
  <2>12. QED
    BY <1>1, <2>4, <2>5, <2>6, <2>7, <2>8, <2>9, <2>11 DEF Next
<1>2. ASSUME IInv, [Next]_vars
      PROVE  \A name \in ChainName : PurgeChain(name) \/
               /\ db'[name].final >= db[name].final
               /\ UpTo(db'[name].best, db[name].final) = UpTo(db[name].best, db[name].final)
  BY <1>1, <1>2
<1>3. QED  BY <1>2, Invariant, PTL DEF Spec, FinalKept

=============================================================================
