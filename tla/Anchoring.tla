------------------------------ MODULE Anchoring ------------------------------
(***************************************************************************)
(* What a release puts on the chain about an escrow's audit trail:         *)
(* release_escrow reads the trail, MerkleService hashes it to a root, and  *)
(* the root is given to the contract and to an anchoring transaction,      *)
(* while the trail grows.  When the trail is empty or cannot be read a     *)
(* stub is hashed that is made up from the escrow row.  Proofs of single   *)
(* entries are made later; nothing in src calls for them, the tests do.    *)
(*                                                                         *)
(* An entry is a number; no two are equal, each holding its own hash in    *)
(* the chain.  A hash is a sequence of numbers that spells out what was    *)
(* hashed: SHA-256 is taken to be injective, and the numbers stand for     *)
(* every order the digests can have.                                       *)
(***************************************************************************)
EXTENDS Integers, Sequences, FiniteSets, SequencesExt

CONSTANTS
    Entries,   \* entries of the trail
    Stub       \* the entries _build_stub_audit_entries can make, in their order

AnchoringAssumption ==
    /\ Entries \subseteq Nat \ {0} /\ Stub \in Seq(Nat \ {0}) /\ Stub # <<>>
    /\ IsInjective(Stub) /\ ToSet(Stub) \cap Entries = {}

VARIABLES
    trail,     \* the audit entries of the escrow
    attempt,   \* the release: the entries it has read (<<>>: it reads next)
    anchored   \* the entries whose root is on the chain, and that root

anchoringVars == <<trail, attempt, anchored>>

----------------------------------------------------------------------------
(* MerkleService.  Positions in a layer count from 0, as in the source. *)

Sha256(entry) == <<entry>>

Precedes(left, right) ==
    \E i \in DOMAIN left \cap DOMAIN right :
        left[i] < right[i] /\ \A j \in 1..i - 1 : left[j] = right[j]

\* _hash_pair: the lesser digest first.
HashPair(left, right) ==
    <<0>> \o IF Precedes(left, right) THEN left \o right ELSE right \o left

\* An odd layer gets its last node twice.
Padded(layer) == IF Len(layer) % 2 = 1 THEN Append(layer, Last(layer)) ELSE layer

NextLayer(layer) ==
    LET even == Padded(layer)
    IN  [i \in 1..Len(even) \div 2 |-> HashPair(even[2 * i - 1], even[2 * i])]

\* The layers of the tree, from the leaves up.
Layers(entries) ==
    LET layer[h \in 0..Len(entries)] ==
            IF h = 0 THEN [i \in DOMAIN entries |-> Sha256(entries[i])]
            ELSE NextLayer(layer[h - 1])
    IN  layer

\* How often a layer is halved until one node is left.
Height(entries) ==
    CHOOSE h \in 0..Len(entries) :
        /\ Len(Layers(entries)[h]) = 1
        /\ \A g \in 0..h - 1 : Len(Layers(entries)[g]) # 1

ComputeRoot(entries) == Layers(entries)[Height(entries)][1]

\* Mutation check only: pos | 1 for pos ^ 1.
SiblingRight(pos) == IF pos % 2 = 0 THEN pos + 1 ELSE pos

\* pos ^ 1.
Sibling(pos) == IF pos % 2 = 0 THEN pos + 1 ELSE pos - 1

\* generate_proof: per layer, the sibling of the node above the entry.
GenerateProof(entries, index) ==
    LET pos[h \in 0..Height(entries)] == IF h = 0 THEN index ELSE pos[h - 1] \div 2
    IN  [h \in 1..Height(entries) |->
            [side |-> IF Sibling(pos[h - 1]) > pos[h - 1] THEN "R" ELSE "L",
             hash |-> Padded(Layers(entries)[h - 1])[Sibling(pos[h - 1]) + 1]]]

\* What verify_proof has hashed after each step.
Climbed(entry, proof) ==
    LET current[h \in 0..Len(proof)] ==
            IF h = 0 THEN Sha256(entry)
            ELSE IF proof[h].side = "R" THEN HashPair(current[h - 1], proof[h].hash)
            ELSE HashPair(proof[h].hash, current[h - 1])
    IN  current

VerifyProof(root, entry, proof) == Climbed(entry, proof)[Len(proof)] = root

----------------------------------------------------------------------------
(* The escrow. *)

NotAnchored == [entries |-> <<>>, root |-> <<>>]

Init == trail = <<>> /\ attempt = <<>> /\ anchored = NotAnchored

\* An audit entry is appended.
AppendEntry ==
    /\ \E e \in Entries \ ToSet(trail) : trail' = Append(trail, e)
    /\ UNCHANGED <<attempt, anchored>>

\* _build_stub_audit_entries: the deployment, and the transactions that are known.
Stubs == {SubSeq(Stub, 1, n) : n \in 1..Len(Stub)}

\* _get_real_audit_entries: the whole trail, or a stub.
ReadTrail ==
    /\ attempt = <<>> /\ anchored = NotAnchored
    /\ attempt' \in Stubs \cup ({trail} \ {<<>>})
    /\ UNCHANGED <<trail, anchored>>

\* release_escrow: the contract takes the root once.
Release ==
    /\ attempt # <<>>
    /\ anchored' = [entries |-> attempt, root |-> ComputeRoot(attempt)]
    /\ attempt' = <<>>
    /\ UNCHANGED trail

\* The call fails, or the process ends before it; the release is asked for again.
ReleaseFails ==
    /\ attempt # <<>>
    /\ attempt' = <<>>
    /\ UNCHANGED <<trail, anchored>>

Next == AppendEntry \/ ReadTrail \/ Release \/ ReleaseFails

Spec == Init /\ [][Next]_anchoringVars

----------------------------------------------------------------------------
(* Properties. *)

\* The anchored root belongs to a beginning of the trail, and to no other, or to a
\* stub; and the proof made for the entry at a position verifies that entry and no
\* other of the trail.
ProofsVerify ==
    anchored # NotAnchored =>
        LET entries == anchored.entries
        IN  /\ \A b \in {SubSeq(trail, 1, n) : n \in 1..Len(trail)} \cup Stubs :
                  ComputeRoot(b) = anchored.root <=> b = entries
            /\ IsPrefix(entries, trail) \/ entries \in Stubs
            /\ \A i \in DOMAIN entries :
                  LET proof == GenerateProof(entries, i - 1)
                  IN  \A e \in ToSet(trail) \cup ToSet(entries) :
                        VerifyProof(anchored.root, e, proof) <=> e = entries[i]
=============================================================================
