----------------------------- MODULE MCMerkleTree -----------------------------
(***************************************************************************)
(* The Merkle functions over every list of at most MaxLeaves leaves drawn  *)
(* from Leaves, reached by appending one leaf after another.               *)
(***************************************************************************)
EXTENDS MerkleTree

CONSTANTS Leaves, MaxLeaves

VARIABLE digests

Init == digests = <<>>

Grow ==
  /\ Len(digests) < MaxLeaves
  /\ \E d \in Leaves : digests' = Append(digests, d)

Next == Grow

Spec == Init /\ [][Next]_digests

-----------------------------------------------------------------------------
(* The tree of RFC 6962 built level by level: neighbours are hashed in     *)
(* pairs and an odd last node is carried up unchanged.                     *)

PairUp(level) ==
  [i \in 1..((Len(level) + 1) \div 2) |->
     IF 2 * i <= Len(level) THEN NodeHash(level[2 * i - 1], level[2 * i])
                            ELSE level[2 * i - 1]]

\* The levels above the leaf hashes; a level of one node stays as it is.
Levels(hashes) ==
  LET level[k \in Nat] == IF k = 0 THEN hashes ELSE PairUp(level[k - 1])
  IN level

\* As many levels as there are leaves are more than enough.
ReferenceRoot ==
  IF digests = <<>> THEN EmptyHash
  ELSE Levels([i \in 1..Len(digests) |-> LeafHash(digests[i])])[Len(digests)][1]

\* _merkle_root, which splits from the top, computes the RFC 6962 root that a
\* level-by-level construction computes.
RootIsReference == Root(digests) = ReferenceRoot

\* The path _merkle_path gives for an index leads validate_receipt from a
\* leaf to the root exactly when the leaf is the one at that index.
PathProvesItsLeaf ==
  \A index \in 0..(Len(digests) - 1), d \in Leaves :
    (FoldPath(LeafHash(d), Path(digests, index)) = Root(digests))
      <=> d = digests[index + 1]

AllLists(n) == UNION {[1..k -> Leaves] : k \in 0..n}

\* No other list of leaves of this size or below has the same root: what
\* _verify_unlocked compares through root_hash is the list of entries.
RootCommits ==
  Len(digests) <= 4 => \A other \in AllLists(4) : Root(other) = Root(digests) => other = digests
=============================================================================
