# Paperbaum in TLA+

Paperbaum publishes academic papers. A web page takes a PDF, a backend extracts its metadata and pins it to
IPFS, and the page sends the metadata to a Substrate chain whose pallet stores it. This directory models
that system, checks the models with TLC on small instances and proves their main safety properties with
TLAPS. Paths are relative to the repository (`src/` here); `lib.rs` alone is the pallet's, `service.rs` the
node's.

## 1. Inventory

| Component | State it keeps | Operations |
|---|---|---|
| pallet-papermgmt (`parachain/pallets/pallet-papermgmt/src/lib.rs`) | `Leaves`, a bounded list of hashes; `Papers`, a map from title hashes to metadata; events | `add_leaf`, `verify_proof`, `add_paper` |
| binary-merkle-tree (crate) | none | `merkle_root`, `merkle_proof`, `verify_proof` |
| runtime (`parachain/runtime/src/lib.rs`) | nonce and balance of each account, the pallets' storage | validate, apply a signed transaction; sudo, transfers |
| pallet-template (`parachain/pallets/template/src/lib.rs`) | `Something`, a `u32` or none; events | `do_something`, `cause_error` |
| node (`parachain/node/src/service.rs`, `chain_spec.rs`, `command.rs`, `cli.rs`) | blocks, best and final block, transaction pool; running tasks | author (Aura), import, finalise (GRANDPA), pool, RPC; start-up, subcommands |
| backend (`backend/server.js`) | `papers` and `w3upClient` in memory, `uploads/` on disk | `POST /upload`, `POST /search`, `GET /papers`, login at start |
| vector similarity engine (in `server.js`) | none | encode an embedding, `hexToVector`, `cosineSimilarity` |
| upload page (`frontend/app/components/FileUpload.js`, `hooks/useSubstrate.js`) | file, button, response, `api` | choose, upload, sign and watch a transaction |
| home page (`frontend/app/page.jsx`, `components/PaperList.js`) | `papers`, `searchResults`, errors | connect, fetch, search, expand |
| benchmarks, weights, unmounted components, layout | | not modelled (section 8) |

**Interactions.** The upload page posts the PDF to the backend and then sends `add_paper` to a node over a
WebSocket; wallet, pool and chain answer with a stream of statuses. The home page reads `Papers` from a node
and searches at the backend. Backend and chain never talk: the same paper gets into both only if the page
does its two steps. The backend calls OpenAI and IPFS over HTTP. Nodes exchange blocks, votes and
transactions.

**What is hard.** Every await in the backend and in the pages lets others run: two uploads share a
directory, a search overlaps uploads, the home page fetches twice. Calls fail between two effects (an IPFS
upload that failed after the content arrived, a file removed only on success, a call of the pallet that
fails after it has deposited an event). The backend's memory is lost in a restart. Forks take transactions
out of blocks again. The codec of the embeddings depends on the sign and size of components. The full list,
line by line, is `hazards` in `PROJECT.json`.

**What makes each part correct.**

- *pallet*: a refused call changes nothing; leaves keep value and index; papers are filed under the hash of
  their title, within all limits; events tell exactly what storage holds; nothing is verified that is not in
  the tree.
- *Merkle tree*: a proof of the present tree is accepted, a stale or foreign one is not.
- *runtime*: transactions of an account in nonce order on every fork, each paid for; nothing minted or lost,
  no account left as dust; the value of `pallet-template` can be replayed from the blocks.
- *node*: finality never reverted; the final chain is a ledger that only grows, by transactions that are
  applicable where they stand. No slot is signed twice; a failed start leaves the database alone; a node
  does not live on without an essential task.
- *backend*: a listed paper is that of one upload, and at IPFS; list and answers agree; a search misses
  nothing that was answered before it; no request hangs but for a login.
- *codec*: when a similarity is a number.
- *upload page*: "completed" means final; nothing is sent after "failed" was shown, although it may have
  been before; one upload at a time, the button is released.
- *home page*: shows what is stored, and what the last search found.

## 2. Modules

| Module | Models | Lines of code it follows |
|---|---|---|
| `BinaryMerkleTree` | the crate, with symbolic hashes (`LeafHash(x)`, `NodeHash(x, y)` are injective tuples) | external, as `lib.rs:99-107` uses it |
| `TreeGrowth` | all lists of leaves, as inputs of the crate, and the tree of RFC 6962 as a reference | what `lib.rs:99-107` rests on |
| `PaperMgmt` | the pallet: one action for each call | `lib.rs:30-171` |
| `PaperRegistry` | what the pallet promises: an append-only bounded log and a shelf | abstract specification |
| `Runtime` | the state transition function of the chain: no variables | `runtime/src/lib.rs:209-421`, `template/src/lib.rs:89-201`, `benchmarking.rs:95-148`, `chain_spec.rs:94-117` |
| `Executive` | one chain without forks that applies transactions with `Runtime` | the events of `template/src/lib.rs:106-132` |
| `Chain` | nodes, authorities, forks, finality, pools, crashes; its blocks carry states of `Runtime` | `runtime/src/lib.rs:133-437`, `service.rs:65-313`, `chain_spec.rs:61-92` |
| `FinalizedLog` | what a chain promises: a list of settled transactions and the state they have led to; each batch more is let through in that state, and nothing is taken back | abstract specification |
| `NodeService` | one node as a process: command line, start-up step by step, tasks, end, database | `service.rs:39-317`, `command.rs:38-104, 183-188`, `cli.rs:3-51`, `chain_spec.rs:36-92` |
| `BackendServer` | the server, one action from await to await | `server.js:12-231` |
| `VectorCodec` | strings of hex digits and what is read back; two vectors that grow are its inputs | `server.js:69-101, 183, 207` |
| `FileUpload` | the upload page with wallet, pool and chain around it | `FileUpload.js:8-171`, `useSubstrate.js` |
| `PaperBrowser` | the home page with node and backend around it | `page.jsx:12-106`, `PaperList.js:78-165` |
| `MC...` | constants and bounds of a run | |
| `PaperMgmtProofs`, `RuntimeProofs`, `ExecutiveProofs`, `ChainProofs`, `NodeServiceProofs`, `BackendServerProofs`, `FileUploadProofs`, `PaperBrowserProofs` | theorems and proofs; `RuntimeProofs` holds the lemmas that the next two share, `BackendServerProofs` the theorems about `VectorCodec` too | |

`PaperMgmt` EXTENDS `BinaryMerkleTree` and instantiates `PaperRegistry` for the refinement. `Executive` and
`Chain` EXTEND `Runtime`, which knows of pallet-papermgmt how many leaves there are and which calls fail;
`Chain` instantiates `FinalizedLog` with the transactions of the decided chain and the state its last block
carries. `NodeService` looks at one node of `Chain` from the side of its process: a block is its slot, a
chain a set of slots, transactions are left out. `FileUpload` abstracts `Chain` to the life of one
transaction (pool, block, final, gone), `PaperBrowser` abstracts it to a best chain whose last block may be
retracted, and both pages abstract `BackendServer` to its answers.

An operator whose comment begins "Mutant of" is a plausible bug in the definition after it. It is not part
of any specification; it shows that a property can fail (`mutants` in `PROJECT.json`).

### How state and actions correspond to the code

**PaperMgmt.** `leaves`, `papers` are the storage items, `events` is what an observer of all blocks has
seen, `result` what the last call returned. Each action takes an origin and arguments, computes the result
by the code's checks in the code's order, and passes it with the writes and the events to `StorageLayer`,
FRAME's transactional dispatch: an error undoes both. This is why `verify_proof`, which deposits its event
before its check (`lib.rs:109`), never shows `ProofVerified(false)`. Byte strings are model values with a
size, the key of a paper is a symbolic hash of its title. Proofs given to `verify_proof` are those of the
present list, those of any earlier list, and the empty proof. The repository names no feature of the crate,
so it is modelled with unsorted pairs; no property depends on this.

**Chain.** A block is identified by the chain that ends with it and carries the state after it.
`ProposeBlock` is an authority in its slot (`service.rs:222-268`): it extends its best chain by any
applicable selection of its pool. `ImportBlock` is the import queue with the rule of the longest chain
(`service.rs:65, 83-112`). `Decide` is GRANDPA reaching a decision: more than two thirds of the authorities
have a block on their best chains, some blocks behind the end, as the default voting rules ask
(`service.rs:299`). The rounds of voting are not modelled: the decision is one step. `ImportJustification`
is a node hearing of it, and leaving a fork for it. `Restart` is a node that crashes and is started again:
its pool was in memory (`service.rs:67-73`).

When a best chain changes (`SetBest`), the pool of the node stays as it is until the task that maintains it
runs, one of those that `spawn_tasks` starts (`MaintainPool`, `service.rs:207-220`). Until then an author
proposes from a stale pool, and what was retracted is nowhere but in the notification (`retracted`). The
model joins the notifications that are waiting into one: handling them one by one gives no other pools, as
`Drop` may remove what one of them would. `Drop` is the pool giving up any transaction at any time: for its
limits (`config.transaction_pool`, `service.rs:68`), because a proposer or its own revalidation found it
invalid, or for its age. Which of two transactions with the same nonce a pool keeps depends on priorities,
which depend on weight and length: the model leaves the choice open.

**Runtime and Executive.** A call is a record of its name and arguments, a transaction what
`create_benchmark_extrinsic` signs. `PreDispatch` and `ApplyExtrinsic` are `SignedExtra` and `Executive`:
nonce and fee are taken before the call, and stay taken when it fails; the fee is burnt, as
`CurrencyAdapter<Balances, ()>` does. Of the Merkle tree only the number of leaves is left: `verify_proof`
succeeds with a proof that was made when there were as many leaves as now (`leaves`). Sudo dispatches its
call as Root, for which `ensure_signed` fails, and pays its fee back. `EXISTENTIAL_DEPOSIT` and fees are
small numbers that keep their order. In the module `Executive`, `burnt`, `stored` and `bumps` are what an
observer of all blocks adds up: the fees, the value in the last `SomethingStored`, and the `cause_error`s
that succeeded since, which deposit no event of their own.

**NodeService.** `phase` is how far `new_full` has come, one step for each call in it that may fail, or the
subcommand that runs. `StartFails` is the `?` of each step. The tasks run from the moment they are spawned,
so a node on a chain of its own may make blocks before `start_network`. `next` is the memory of the slot
worker, which waits for the slot after its start (`FirstClaim`). `failed` is the message of an essential
task that ends; `Exit` takes it up when the task manager is polled, after start-up. `db` outlives the
process, but for a temporary directory; the process is alone with it. `ImportInto` takes any chain that
others may have: with Alice's own blocks as she made them, and any of the others'. `found` and `made` are
history.

**BackendServer.** `upload[r].state` names the await request `r` is suspended at. Node runs one piece of
JavaScript at a time, so the code between two awaits is one step. Awaits that share nothing with other
requests (PDF, chat completion, embedding) are one action, `Extract`. The content of a file is the set of
uploads whose bytes are in it; that is exact as long as at most two uploads share a name, which the bounds
ensure. `Crash` and `Start` are the end of the process and the next one by hand; a rejected login at start
(`server.js:228`) ends it as well. `disk` and `ipfs` outlive it.

**VectorCodec.** A component is the integer `Math.round(x * 255)`, a string a sequence of digits and signs.
Dividing by 255 again and the value of the similarity are left out; whether it is a number is not.

**FileUpload.** `pc` is the await the handler of a click is in, `seenApi` the `api` it closed over. `ended`
records what the person at the page was told. `Sign` ends with the same `"error"` whether the node has taken
the transaction by then or not (`FileUpload.js:121-131`). `tx`, `outcome` and `watched` are the
transactions, what `add_paper` returned in the block, and the live subscriptions. `Notified` is the
callback: it does something that matters only for `Finalized`.

**PaperBrowser.** React's strict mode, on by default in the development server that README.md:78 starts,
runs the effect of `useSubstrate` twice on each load, and its clean-up disconnects nothing: there are two
connections and two fetches, each of which reads keys and later their values (`entries()`). `kept` and
`seen` are history: what has been on the chain all the time since the page was loaded, and at some time.

## 3. Runs

Each run is `tlc -config <cfg> <module>`; `PROJECT.json` lists them with their properties.

| Run | Module, cfg | Question and answer |
|---|---|---|
| `merkle_tree` | `TreeGrowth`, `MCTreeGrowth.cfg` | Over all lists of up to 7 leaves: the rows of the crate give the tree that is split at powers of two (`RowsMatchSplit`), and a proof of an earlier list is refused (`StaleProofsRefused`). |
| `papermgmt` | `MCPaperMgmt` | All sequences of four successful calls with any failing ones between: leaves can be replayed from events, papers are those announced, no event tells of a proof that was not one, the proofs of stored leaves are accepted (`HonestProofsVerify`), no other leaf is (`OnlyMembersVerify`), and the pallet implements `PaperRegistry`. |
| `executive` | `MCExecutive` | The key, a second account and an empty one, three transactions of each: no money is minted or lost, no dust is left, and the value of `pallet-template` can be replayed, up to its maximum. |
| `chain` | `MCChain` | Alice, Bob and a full node over three slots, all forks, late or missing finality, crashes: nonces in order on every fork; no node builds on a fork of what it knows to be final; no authority ever leaves a final block; what is decided is a `FinalizedLog`, although pools lag behind, lose transactions and offer stale ones. |
| `node` | `MCNodeService` | One node of Alice's over three slots, five command lines, every subcommand, failures and crashes at every step: no slot is signed twice, a failed start leaves the database alone, final blocks stay, and an essential task that ends takes the node down. |
| `backend` | `BackendServer`, `MCBackendServer.cfg` | Two uploads, two searches, all interleavings and failures, a crash and a restart, no two uploads in one millisecond: every safety property, and what may hold a request up. |
| `vector_codec` | `MCVectorCodec` | All pairs of vectors of up to three components from both sides of each boundary: which components survive, and exactly when there is no similarity. |
| `upload_page` | `FileUpload`, `MCFileUpload.cfg` | Two attempts, errors before and after sending, reloads, lost statuses, a retracted block: "completed" means final, nothing is sent after an attempt has ended or without an answer from the backend, and an upload that was sent ends while its statuses come. |
| `browser` | `MCPaperBrowser` | Two fetches that overlap with blocks and a retraction, searches against a backend that restarts: what is shown was stored, or was found by the last search. |

Three more runs check a statement of the repository that the code does not fulfil (`findings`):

| Run | Statement | What the code does |
|---|---|---|
| `stored_hashes_verify` | README.md:22-23, 39: a Merkle tree of papers, whose stored hashes can be proved | `add_paper` never adds a leaf (`lib.rs:166`). And for those that `add_leaf` stores, the tree hashes the stored hashes, while `verify_proof` does not hash the one submitted (`lib.rs:99, 106`): only the hash of a stored hash verifies. |
| `same_millisecond` | README.md:28, 34: a paper's metadata and content are its own | Two uploads of one millisecond share a file (`server.js:17`), and one is listed with the content of the other or of both. |
| `success_means_stored` | `FileUpload.js:112-119, 127`: "Transaction failed" or "completed successfully" | The branch for a failed call comes after the two that are taken first; a failed call is reported as completed. |

Two more disagreements have no run of their own. README.md:31 promises a similarity of two vectors:
components from -16 down take three characters (`server.js:183`), vectors decode to different lengths, and a
longer query gives `NaN`; `SimilarityGaps` states exactly when. And `parachain/README.md` names Alice and
Bob as the default authorities, while `--dev` starts a chain of Alice alone (`chain_spec.rs:36-59`); the
node's model has both chains.

### Bounds, and why they are enough

- `MaxEvents = 4`, `MaxLeaves = 3`: a full list, a refused fourth leaf, and a further successful call in one
  behaviour; failing calls are not bounded. The submissions differ from a good one in one field or two, so
  that each conversion is the first to fail at least once; sizes are at and just beyond each limit, which is
  1.
- `MaxTree = 7`: every shape of the last row up to a tree of height three, both promotions of odd nodes
  included.
- `MaxNonce = 3`, `MaxU32 = 3`, `Existential = 2`, `MaxLeaves = 1` in `MCExecutive`: the value can be stored
  one below its maximum and bumped to it and once more; leaves can be full; Bob can pay for a transfer that
  would leave dust with him or with Carol, who has nothing, and for one that would not.
- `MaxSlot = 3` in `MCChain`: Alice and Bob can each make a fork and one can be overtaken; a fork of what is
  final exists while a node has not heard of finality. `VoteBehind = 0` allows every decision that the
  voting rules of the code, which stay two blocks and more behind, allow on longer chains. Clients submit to
  Alice (`Rpc`), who passes transactions on to Bob (`Gossip`); the full node first sees them in a block, and
  gets some into its pool when one is retracted. Three transactions compete: two for one nonce;
  two leaves for one place (`MaxLeaves = 1`); and fees of 1 and 2 against an endowment of 3, so that the one
  with the next nonce can be paid for on one fork and not on the other.
- `MaxSlot = 3` in `MCNodeService`: a block, a restart in the same slot, and a slot of the other authority.
  The five command lines are `--dev`, which is temporary, `--dev` with a base path, Alice on the local
  testnet with and without `--force-authoring`, and a full node without GRANDPA.
- `Upload`, `Query` of two requests each: all properties relate at most two uploads or an upload and a
  search. `MaxStarts = 2`: one restart, after which nothing of the memory is there. `ClockStep` is `{1}`
  when no two uploads share a millisecond and `{0, 1}` in `same_millisecond`.
- `Dimension = 3` over eight values (both ends of the range, both sides of each change of the number of
  characters): a wide component shifts all pairs after it by one character, a second one realigns them, and
  the third shows the realignment.
- `MaxAttempts = 2`, `MaxForks = 1`: a second attempt after each way the first can end; one retraction shows
  the return to the pool.
- `PaperBrowser` has no bound on its steps. Two versions of a paper and another paper; only the latter may
  be listed by the backend, as searches and fetches touch in nothing but what is displayed.

The theorems of section 4 hold for all values of these constants.

Deadlock is checked except where behaviours end by a bound on what is enumerated or because the system may
stop: the trees and vectors stop growing (`MaxTree`, `Dimension`), nonces and slots end (`MaxNonce`,
`MaxSlot`), and the server may be down for good (`MaxStarts`). Symmetry is used for the two hashes of
`MCPaperMgmt` and for the two connections of `MCPaperBrowser`, whose properties are all safety.

### Fairness

- `BackendServer`: weak fairness for the steps of an upload after its body has arrived, and for the answer
  of a search. Node's event loop runs every continuation that is ready; reads of files return; the OpenAI
  and IPFS calls are answered or fail by the time-outs of their clients. None for the arrival of a body,
  which a client sends, nor for a login, which waits for a person to confirm an e-mail (`server.js:35-40`).
  So `OnlyLoginBlocks` says: an upload is settled, or in a login of its own, and a search is settled.
- `FileUpload`: weak fairness for inclusion and finality of each transaction, which authoring and GRANDPA
  provide while the authorities run, and for the callback. None for the backend (axios waits without a
  time-out), the person at the wallet, or the subscription. `SentUploadsEnd` therefore has the case that
  statuses stop coming.
- `NodeService`: weak fairness for the steps of `new_full`, which waits for nothing, and for `Exit`: the
  task manager's future is polled while the node runs. Each step may also fail, and any process may be
  stopped.
- `PaperMgmt`, `Executive`, `Chain`, `PaperBrowser`: none; only safety is stated.

## 4. What is proved

Each theorem holds for all values of the constants, under the named assumptions of its module.

**PaperMgmtProofs**, from `SizeAssumption`, `LimitsAssumption` and `SubmissionAssumption` (limits are
natural numbers, texts have sizes, submissions are records of texts): `TypeCorrect`, `LeavesReplayed`,
`AnnouncedPapers`, `ProofEvents`, its parts `NoFalseProof` and `VerifiedAfterLeaf`, `StoredPapersFit`,
`LossFree`, and `RegistryImplemented`, that the pallet refines `PaperRegistry`. The argument goes through
one lemma, `StepEffects`: a step is refused and leaves storage and events alone, or stores a leaf below the
limit, or accepts a proof that `IsValid`, or stores a paper all of whose conversions fit.
`ConversionOutcome` supplies the last. With the types, each property is then inductive, except two.
`EventsReplayLeaves` claims a witness, the places of the leaves' events, which the proof extends by one.
That nothing verifies before a leaf needs `EventsReplayLeaves`: a verified proof means that a leaf is
stored, and that one was announced. None of these assumes anything of hashes: they use only the range check
of the index.

The Merkle tree has theorems of its own in the same module, for lists of any length. Here hashes are
symbolic, so that two that are equal were made of equal parts. Rows, paths and the reference tree are
recursive functions; the lemmas `LevelsExist`, `PathsExist` and their like name such a function, and
`NatSetInduction`, which puts a set of numbers in the place of an induction hypothesis, goes through it.

- `HonestAccepted`: the proof of a stored leaf is accepted. The invariant is `StandsAt`: the hash, index and
  width that the verifier has climbed to are those of a node of the row that the prover has reached.
- `OthersRefused`, `MembersOnly`: whatever hashes a proof consists of and whichever index it comes with, it
  proves no leaf that is not stored. With a node, the nodes of the tree contain what it was hashed from, so
  that every hash on the way down from the root is a node, the last one a leaf.
- `RowsSplit`: each row cuts the list up into pieces, all but the last of them as long as the power of two
  of the row, and its hashes are the reference trees of the pieces (`CutUp`).
- `StaleRefused`: the size of a reference tree can be told from its hash (`BlockSize`). A hash that climbs
  a proof made for fewer leaves and gets to a node at all gets to one that is as large as the node the
  proof was made at (`StaleClimb`), which is too small for the root.

**RuntimeProofs**, from the assumptions of `Runtime` (transactions are well formed, fees and balances are
natural numbers, no account is endowed with dust), says what the state transition function does to a storage
that is in order. `ChargedKeeps`, `CallKeeps` and their like take each half of one transaction: the types
remain, no dust is left, the nonce goes up by one. `ApplyAll` applies a whole block and is recursive;
`ApplyNone`, `ApplyLast`, `ApplyNext` and `ApplyBoth` are its laws, `AllKeep` and `NoncesPassed` what a
block that is let through does.

**ExecutiveProofs**, from the same assumptions and `AccountAssumption` (accounts are finitely many):
`TypeCorrect`, `DustFree`, `ValueReplayed`, `FundsKept`. The first three are inductive together: that a fee
leaves the account alive needs the types, and that a `cause_error` is counted rightly needs to know that the
value did not wrap. `FundsKept` rests on a law of finite sums (`TotalChange`): when one balance changes, the
total changes by as much. A transfer is two such changes, a fee one, and `burnt` takes up the rest.

**ChainProofs**, from the assumptions of `Chain`, for any nodes and authorities. First `FinalityAgrees`,
which looks at chains as sequences only: each node knows a prefix of what was decided and its best chain
contains it, and two prefixes of one chain are comparable (`PrefixesAgree`). `BestMoves` is the step of
every action that changes a best chain. Then `LedgerInvariant`: every chain that was ever made is `Sound`,
that is, its blocks in order can be executed from genesis on and carry the state that this gives. It implies
`TypeCorrect` and `NoncesOrdered`, and `LedgerImplemented` follows: the transactions of a chain that extends
another are those of the other and a batch behind them (`TransactionsPrefix`, `PrefixAndRest`), and what is
applicable from genesis on is applicable from where the first part has come to (`ApplicableAfter`,
`ApplyBoth`). Nothing is assumed of the pools but that they hold transactions: `Sound` depends on what an
author checks, not on what a pool offers.
`AuthoritiesFollow` has the hypothesis `FewAuthorities`, at most two of them, as in both chain
specifications of the sources (`chain_spec.rs:36-92`): then all have to vote (`AllVote`), so that each has a
decided block on its best chain. What keeps it there is `Leads`: a chain that is longer than the best one of
an authority is on the best chain of an authority. With three authorities this is false, although all of
them have to vote: one that has only the first blocks of the decided chain may import an old fork that the
others have left.

**NodeServiceProofs**, from `MaxSlotAssumption` and `CommandLineAssumption`: `TypeCorrect`,
`NoEquivocation`, `CleanStart`, `FinalityKept`. That no slot is signed twice needs `ClaimsFresh`: the
authoring task, which is the only memory of what was signed, may claim only slots that Alice has not signed,
as it waits for the slot after its start and signs none to come. That the database is untouched in start-up
needs `TasksStarted`: who could touch it does not run yet.

**BackendServerProofs**, from `ClockStepAssumption` and `MaxStartsAssumption`, for any number of uploads,
searches and restarts: `TypeCorrect`, `UrlsPinned`, `FilesOwned`, `ListingRight`, `SearchesFresh`. The
invariant adds `Process` (a request that waits belongs to the process that runs, and a process that is down
has no papers) and `Pinned` (from the upload to IPFS on, the url is there). These hold also when uploads
share files. Only `PapersIntegral` needs that no two uploads share a millisecond, `0 \notin ClockStep`, and
says so in its statement: then names are unique (`Alone`, `Named`), and what is in a file, what was read of
it and what was pinned is of its own upload (`OwnFile`, `OwnText`, `OwnUrl`).

**FileUploadProofs**, from `BoundsAssumption`, for every number of attempts and forks: `UploadTypes`,
`CompletedIsFinal`, `SentIsKept`, `SentWhileOpen`, `ButtonReleased`, `AttemptsApart`. None but the types is
inductive alone. `IInv` adds `HandlerState` (at each await: the attempt is open, the backend has kept its
paper once the POST is over, and its transaction is not sent before `Sign`), `Untouched` (later attempts
have done nothing) and `EarlierEnded` (earlier ones have ended). `StepInvariant` goes through the actions;
those of the chain and those that end the handler or move it on share the lemmas `ChainSteps`, `Finishing`
and `Advancing`.

**PaperBrowserProofs**, from `PaperAssumption`: `TypeCorrect`, `PageShowsStored`, `LastSearchShown`, for any
number of papers, queries and connections. `PageShowsStored` needs to follow each fetch: the keys it has
read contain every title that stays, and so do the values it reads for them later. `LastSearchShown` needs
that the one search under way is the one that was asked for last.

**BackendServerProofs**, of the codec, for vectors of any length over any `Sample` (`SampleAssumption`: its
members are components): `ComponentBoundary`, `NarrowSurvives`, `GapsExact`. A component down to -15 takes
two characters and is read back as it was; from -16 on it takes three, and the first two are read as another
number. The texts of the components are joined, so those before the first wide one are pairs that stay in
place (`TextsInOrder`, `ReadInPairs`), and a vector is at least as long when it comes back. A vector reads
back as zeros only if it was zero: the first pair of the first wide component is read as a number below 0.

## 5. What is only model-checked

Liveness, which rests on fairness: `OnlyLoginBlocks`, `SentUploadsEnd`, `EssentialTaskTakesDown`. Every
other property of section 3 that the code fulfils is a theorem of section 4, two of them under a hypothesis
of the theorem: `PaperIntegrity` if no two uploads share a millisecond, as the run assumes too, and
`AuthoritiesKeepFinal` if there are at most two authorities.

## 6. Hazards and properties

`hazards` in `PROJECT.json` gives for each line the properties that watch it. Four have none, each for the
reason in its note, since the code lets them happen:

- the statuses that `FileUpload.js:101-120` handles nowhere, which leave the page waiting: `SentUploadsEnd`
  exempts an upload that is no longer watched;
- the error after the transaction was sent (`FileUpload.js:121`), which makes people publish twice:
  attempts of the model end so, and `SentInTurn` shows only that nothing is sent any more afterwards;
- the second listing that a failed attempt leaves in the backend (`FileUpload.js:71`), which needs the
  composition of page and backend (section 7);
- a start that fails at its last step when a node that is alone, or forced, has made blocks
  (`service.rs:311`): `FailedStartLeavesDatabase` exempts these nodes and no others.

Of two others the property shows a part. `FilesAccountedFor` admits the files that failed uploads leave
behind (`server.js:177`). And transactions are lost with a pool, in a crash or by its limits
(`service.rs:67-73`): what is checked is that those that come back later are applied in order or not at all.

The expansion of cards is left out: papers from the backend have no hash, so that expanding one
result of a search expands all of them (`PaperList.js:138`), which concerns the display alone.

## 7. Plan

Done, in this order: `BinaryMerkleTree`, `PaperMgmt` with `PaperRegistry`, `BackendServer`, `FileUpload`,
`VectorCodec`, `Chain`, `PaperBrowser`; `Runtime` with `Executive` (instead of a module for
`pallet-template` alone), `FinalizedLog` and its refinement by `Chain`, `NodeService`; the proofs of section
4 for each of them.

Left:

1. `Paperbaum`, the composition of upload page, backend and chain by a common set of papers: a paper that is
   reported as completed is at IPFS, listed while the backend runs, and final; second attempts list a paper
   twice.
2. GRANDPA's rounds as a module that `Decide` abstracts.

## 8. Not modelled

- *Other calls of System, Balances and Sudo*: `remark`, `transfer_keep_alive` and `sudo` are those that the
  sources make or give a key to. Not modelled are `set_code`, `force_transfer` and their like, eras, which
  are longer than the chains of the model, and the inherents. Block weight and length are the bound
  `MaxBlockTx`.
- *GRANDPA's rounds, networking, storage of blocks*: dependencies; modelled as the decisions and imports
  they lead to. `Decide` is guarded by `IsPrefix(decided, chain)`: that two decisions agree is assumed of
  GRANDPA, and what follows for the nodes is checked and proved.
- *The limits, priorities, revalidation and bans of the transaction pool*: part of what `Drop` and the
  choice in `OneForEach` leave open. A transaction that a node took may get lost, in the model as in the
  program; nothing is claimed of when it gets into a block.
- *Of the node*: chain specifications from a file, GRANDPA's voter state in the database, which `revert`
  takes back before the blocks (`command.rs:98-101`), the loss of writes that were not synced, a purge of
  the database of a node that runs (which a process lock prevents), the methods of the RPC, telemetry, and
  offchain workers, for which the runtime has no code.
- *Benchmarks and weights*: generated constants and a measurement harness, but for the form of a signed
  transaction, which `Runtime` takes from `create_benchmark_extrinsic`.
- *`AddLeaf.js`, `MerkleLeaves.js`*: no page mounts them. *Layout, navigation, styles*: static.
- *`GET /papers`*: changes nothing, and no page calls it. *Expansion of cards and the graph drawn for them.*
- *Regular expressions, prompts, the values of embeddings and similarities*: no property depends on them.
