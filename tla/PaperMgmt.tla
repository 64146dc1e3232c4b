------------------------------ MODULE PaperMgmt ------------------------------
(***************************************************************************)
(* The pallet pallet-papermgmt: a bounded list of hashes whose Merkle tree *)
(* proofs are verified against, and a map from title hashes to paper       *)
(* metadata.  One action per dispatchable call; a call is dispatched by    *)
(* FRAME inside a storage layer, which keeps the writes and the events of  *)
(* a call that returns Ok and discards both when it returns an error.      *)
(***************************************************************************)
EXTENDS BinaryMerkleTree

CONSTANTS
  Hash,                \* values of T::Hash that clients send to add_leaf
  Text,                \* byte strings that clients send to add_paper
  Size,                \* the length of each
  Submission,          \* the arguments clients call add_paper with
  Origin,              \* origins calls are dispatched with, "Signed" among them
  MaxLeaves,           \* T::MaxLeaves, and so on for the limits below
  MaxTitleLength,
  MaxAuthorsLength,
  MaxAbstractLength,
  MaxIpfsUrlLength,
  MaxVectorLength,
  MaxKeywords,
  MaxEvents            \* bound of the model on the number of successful calls

PaperArguments ==
  [title : Text, authors : Text, abstract_text : Text, ipfs_url : Text,
   vector : Text, keywords : Seq(Text)]

ASSUME SizeAssumption == Size \in [Text -> Nat]

ASSUME LimitsAssumption ==
  /\ MaxLeaves \in Nat /\ MaxTitleLength \in Nat /\ MaxAuthorsLength \in Nat
  /\ MaxAbstractLength \in Nat /\ MaxIpfsUrlLength \in Nat
  /\ MaxVectorLength \in Nat /\ MaxKeywords \in Nat /\ MaxEvents \in Nat

(* Each submission is a record of texts; stated field by field, because    *)
(* Seq(Text) is infinite.                                                  *)
ASSUME SubmissionAssumption ==
  \A a \in Submission : a \in PaperArguments

VARIABLES
  leaves,              \* Leaves: the sequence of hashes
  papers,              \* Papers: a function from the title hashes in the map
  events,              \* the events of all blocks, in the order deposited
  result               \* what the last dispatched call returned

vars == << leaves, papers, events, result >>

(* Event::LeafAdded(hash), ProofVerified(bool) and PaperAdded(hash).       *)
LeafAdded(h)     == [kind |-> "LeafAdded", hash |-> h]
ProofVerified(v) == [kind |-> "ProofVerified", valid |-> v]
PaperAdded(h)    == [kind |-> "PaperAdded", hash |-> h]

(* T::Hasher::hash_of(&bounded_title): the key of a paper in Papers.       *)
TitleHash(title) == << "hash_of", title >>

(* StorageMap::insert.                                                     *)
Inserted(map, key, value) ==
  [k \in DOMAIN map \cup {key} |-> IF k = key THEN value ELSE map[k]]

-----------------------------------------------------------------------------
(* The storage layer a call is dispatched in: err is what the call         *)
(* returned, ls, ps and deposited the storage and the events as it left    *)
(* them.  MaxEvents bounds the successful calls of a behaviour.            *)
StorageLayer(err, ls, ps, deposited) ==
  /\ result' = err
  /\ \/ /\ err = "Ok"
        /\ Len(events) < MaxEvents
        /\ leaves' = ls
        /\ papers' = ps
        /\ events' = deposited
     \/ /\ err # "Ok"
        /\ UNCHANGED << leaves, papers, events >>

(* ensure_signed(origin)?, then the rest of the call's outcome.            *)
IfSigned(origin, outcome) == IF origin = "Signed" THEN outcome ELSE "BadOrigin"

(* Mutant of AddLeaf: nothing looks at the length.                         *)
AddLeafOverfull(origin, leaf) ==
  StorageLayer(IfSigned(origin, "Ok"), Append(leaves, leaf), papers,
               Append(events, LeafAdded(leaf)))

(* Mutant of AddLeaf: the event is deposited before the push is tried.     *)
AddLeafUnbounded(origin, leaf) ==
  StorageLayer(IfSigned(origin, "Ok"),
               IF Len(leaves) < MaxLeaves THEN Append(leaves, leaf) ELSE leaves, papers,
               Append(events, LeafAdded(leaf)))

(* Mutant of AddLeaf: a full list loses its oldest leaf to the new one.    *)
AddLeafEvicts(origin, leaf) ==
  StorageLayer(IfSigned(origin, "Ok"),
               Append(IF Len(leaves) < MaxLeaves THEN leaves ELSE Tail(leaves), leaf), papers,
               Append(events, LeafAdded(leaf)))

(* add_leaf: try_push refuses a leaf when MaxLeaves are stored.            *)
AddLeaf(origin, leaf) ==
  StorageLayer(
    IfSigned(origin, IF Len(leaves) < MaxLeaves THEN "Ok" ELSE "TooManyLeaves"),
    Append(leaves, leaf), papers, Append(events, LeafAdded(leaf)))

(* The boolean verify_proof computes: the root is that of the stored       *)
(* hashes, each hashed once more; leaf goes in as Leaf::Hash, as it is.    *)
IsValid(proof, leaf_index, leaf) ==
  VerifyProof(MerkleRoot(leaves), proof, Len(leaves), leaf_index, leaf)

(* Mutant of VerifyLeaf: no error is returned after the event.             *)
VerifyLeafUnchecked(origin, proof, leaf_index, leaf) ==
  StorageLayer(IfSigned(origin, "Ok"), leaves, papers,
               Append(events, ProofVerified(IsValid(proof, leaf_index, leaf))))

(* verify_proof: the event is deposited before the check that may fail.    *)
VerifyLeaf(origin, proof, leaf_index, leaf) ==
  LET is_valid == IsValid(proof, leaf_index, leaf)
  IN  StorageLayer(
        IfSigned(origin, IF is_valid THEN "Ok" ELSE "ProofVerificationFailed"),
        leaves, papers, Append(events, ProofVerified(is_valid)))

(* The conversions of add_paper to bounded vectors, in the order they are  *)
(* tried: every keyword is measured before their number is.                *)
Conversions(a) ==
  << [fits |-> Size[a.title] <= MaxTitleLength,            error |-> "TitleTooLong"],
     [fits |-> Size[a.authors] <= MaxAuthorsLength,        error |-> "AuthorsTooLong"],
     [fits |-> Size[a.abstract_text] <= MaxAbstractLength, error |-> "AbstractTooLong"],
     [fits |-> Size[a.ipfs_url] <= MaxIpfsUrlLength,       error |-> "IpfsUrlTooLong"],
     [fits |-> Size[a.vector] <= MaxVectorLength,          error |-> "VectorTooLong"],
     [fits |-> \A k \in 1..Len(a.keywords) : Size[a.keywords[k]] <= MaxTitleLength,
      error |-> "TitleTooLong"],
     [fits |-> Len(a.keywords) <= MaxKeywords,             error |-> "TooManyKeywords"] >>

(* The error of the first conversion that fails, "Ok" when none does.      *)
ConversionResult(a) ==
  LET failing == {i \in 1..7 : ~ Conversions(a)[i].fits}
  IN  IF failing = {} THEN "Ok"
      ELSE Conversions(a)[CHOOSE i \in failing : \A j \in failing : i <= j].error

(* Mutant of AddPaper: the paper is announced under the hash of all of it. *)
AddPaperHashesAll(origin, a) ==
  StorageLayer(IfSigned(origin, ConversionResult(a)), leaves,
               Inserted(papers, TitleHash(a.title), a),
               Append(events, PaperAdded(<< "hash_of", a >>)))

(* add_paper: the key is the hash of the title alone, insert replaces what *)
(* was stored under it, and the list of leaves is not touched.             *)
AddPaper(origin, a) ==
  StorageLayer(
    IfSigned(origin, ConversionResult(a)),
    leaves, Inserted(papers, TitleHash(a.title), a),
    Append(events, PaperAdded(TitleHash(a.title))))

-----------------------------------------------------------------------------
(* The proofs a client can hold: one for some leaf of the list as it is or *)
(* as it was when it was shorter, or the empty proof.                      *)
Proofs ==
  {<< >>} \cup
  UNION {{MerkleProof(SubSeq(leaves, 1, n), i) : i \in 0..(n - 1)} : n \in 1..Len(leaves)}

(* What a client gives as the leaf: a hash as it was sent to add_leaf, or  *)
(* hashed as the tree hashes it, or the hash of no content.                *)
LeafArguments == Hash \cup {LeafHash(h) : h \in Hash} \cup {DefaultHash}

Init ==
  /\ leaves = << >>
  /\ papers = [k \in {} |-> {}]
  /\ events = << >>
  /\ result = "Ok"

Next ==
  \E origin \in Origin :
    \/ \E leaf \in Hash : AddLeaf(origin, leaf)
    \/ \E proof \in Proofs, i \in 0..Len(leaves), leaf \in LeafArguments :
         VerifyLeaf(origin, proof, i, leaf)
    \/ \E a \in Submission : AddPaper(origin, a)

Spec == Init /\ [][Next]_vars

-----------------------------------------------------------------------------
Event ==
  [kind : {"LeafAdded"}, hash : Hash]
    \cup [kind : {"ProofVerified"}, valid : BOOLEAN]
    \cup [kind : {"PaperAdded"}, hash : {TitleHash(t) : t \in Text}]

Result ==
  {"Ok", "BadOrigin", "TooManyLeaves", "ProofVerificationFailed", "TitleTooLong",
   "AuthorsTooLong", "AbstractTooLong", "IpfsUrlTooLong", "VectorTooLong", "TooManyKeywords"}

(* The types of the storage items, the events and the call results         *)
(* (lib.rs:33-70), with the bound of Leaves.                               *)
TypeOK ==
  /\ leaves \in Seq(Hash) /\ Len(leaves) <= MaxLeaves
  /\ DOMAIN papers \subseteq {TitleHash(t) : t \in Text}
  /\ papers \in [DOMAIN papers -> Submission]
  /\ events \in Seq(Event)
  /\ result \in Result

(* What an indexer that only sees events knows of Leaves is exact: the     *)
(* LeafAdded events, in their order, carry the stored hashes, one event    *)
(* for each, although a call can fail after it has written or deposited.   *)
EventsReplayLeaves ==
  \E at \in [1..Len(leaves) -> 1..Len(events)] :
    /\ \A i, j \in 1..Len(leaves) : i < j => at[i] < at[j]
    /\ \A i \in 1..Len(leaves) : events[at[i]] = LeafAdded(leaves[i])
    /\ \A e \in 1..Len(events) :
         events[e].kind = "LeafAdded" => \E i \in 1..Len(leaves) : at[i] = e

(* A paper is in Papers exactly if an event announced its key, however     *)
(* many submissions were refused or replaced: no announced paper is gone,  *)
(* none is stored silently (lib.rs:164-167).                               *)
PapersAnnounced ==
  \A k \in {TitleHash(t) : t \in Text} :
    k \in DOMAIN papers <=> \E e \in 1..Len(events) : events[e] = PaperAdded(k)

(* ProofVerified(false) is deposited by verify_proof for every proof that  *)
(* fails (lib.rs:109) and yet never reaches an observer: the error         *)
(* returned right after it takes the event back.                           *)
NoFalseProofEvent ==
  \A e \in 1..Len(events) : events[e] # ProofVerified(FALSE)

(* No proof is announced as verified before the first leaf is: in the      *)
(* empty tree the root is the default hash, and only the range check of    *)
(* the index keeps a leaf of that value from matching it.                  *)
NothingVerifiesBeforeALeaf ==
  \A e \in 1..Len(events) :
    events[e].kind = "ProofVerified"
      => \E d \in 1..(e - 1) : events[d].kind = "LeafAdded"

(* What the events say of verifications is all there is to say: the proof  *)
(* of each was valid, and there was a leaf to prove (lib.rs:98-110).       *)
ProofEventsHonest == NoFalseProofEvent /\ NothingVerifiesBeforeALeaf

(* Completeness: for each leaf the proof that a client makes from the      *)
(* leaves in storage is accepted at that leaf's index (lib.rs:101-107), at *)
(* every size of the tree, those with promoted nodes on the path included. *)
HonestProofsVerify ==
  \A i \in 1..Len(leaves) :
    IsValid(MerkleProof(leaves, i - 1), i - 1, LeafHash(leaves[i]))

(* Soundness: with no proof that was ever good for a leaf, whichever and   *)
(* at whatever index, verify_proof accepts a hash that is not in storage   *)
(* (lib.rs:98-110).                                                        *)
OnlyMembersVerify ==
  \A proof \in Proofs, i \in 0..Len(leaves), h \in Hash :
    IsValid(proof, i, LeafHash(h)) => \E k \in 1..Len(leaves) : leaves[k] = h

(* Within the limits of every field, so that a is a PaperMetadata          *)
(* (lib.rs:43-50).                                                         *)
FitsAll(a) ==
  /\ Size[a.title] <= MaxTitleLength
  /\ Size[a.authors] <= MaxAuthorsLength
  /\ Size[a.abstract_text] <= MaxAbstractLength
  /\ Size[a.ipfs_url] <= MaxIpfsUrlLength
  /\ Size[a.vector] <= MaxVectorLength
  /\ Len(a.keywords) <= MaxKeywords
  /\ \A i \in 1..Len(a.keywords) : Size[a.keywords[i]] <= MaxTitleLength

(* Each stored paper is filed under the hash of its own title and is       *)
(* within all limits, whatever the order the conversions fail in.          *)
PapersFit ==
  \A k \in DOMAIN papers : k = TitleHash(papers[k].title) /\ FitsAll(papers[k])

(* A leaf keeps its value and its index for ever, and a paper its place:   *)
(* the list is only appended to, whatever it is full of (lib.rs:79-82),    *)
(* so an index handed out with a leaf stays good for later proofs.         *)
NothingIsLost ==
  [][/\ Len(leaves) <= Len(leaves')
     /\ \A i \in 1..Len(leaves) : leaves'[i] = leaves[i]
     /\ DOMAIN papers \subseteq DOMAIN papers']_vars

(* The registry this pallet implements: the leaves are its log, the papers *)
(* its shelf.                                                              *)
TitleKey(a) == TitleHash(a.title)

Registry == INSTANCE PaperRegistry
              WITH log <- leaves, shelf <- papers, Paper <- Submission,
                   Key <- TitleKey, Fits <- FitsAll, Capacity <- MaxLeaves

(* Every call is one atomic step of the registry or none: a refused call   *)
(* leaves no part of its work, an accepted add_paper is within all limits, *)
(* whichever conversion fails first, replaces the paper of the same title  *)
(* and touches nothing else (lib.rs:74-170).                               *)
ImplementsRegistry == Registry!Spec

(* README.md:22-23, "Managing a Merkle tree of paper hashes", "Verifying   *)
(* Merkle proofs": when papers and leaves are stored, there is a proof for *)
(* the hash of a paper, or at least that of a leaf is accepted.  Fails:    *)
(* add_paper adds no leaf (lib.rs:117-170), and the leaves of the tree are *)
(* hashes of the stored hashes (lib.rs:99), while the hash that is         *)
(* submitted for verification is not hashed (lib.rs:106).                  *)
StoredHashesVerify ==
  DOMAIN papers # {} /\ leaves # << >> =>
    \/ \E k \in DOMAIN papers, proof \in Proofs, i \in 0..Len(leaves) : IsValid(proof, i, k)
    \/ \E i \in 1..Len(leaves) : IsValid(MerkleProof(leaves, i - 1), i - 1, leaves[i])

=============================================================================
