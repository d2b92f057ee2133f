------------------------------ MODULE MerkleTree ------------------------------
(***************************************************************************)
(* The Merkle hashing of transparency_log.py: _merkle_root and             *)
(* _merkle_path split a list of leaves at the largest power of two below   *)
(* its length; a receipt folds a path back to the root.  SHA-256 is        *)
(* collision free and its inputs are domain separated, so a hash is a      *)
(* tagged tuple.                                                           *)
(*                                                                         *)
(* Recursion over a list is a recursive function on the lists over its     *)
(* elements.                                                               *)
(***************************************************************************)
EXTENDS Naturals, Sequences

LeafHash(digest) == <<"leaf", digest>>

NodeHash(left, right) == <<"node", left, right>>

EmptyHash == <<"empty">>

\* 1 << k
PowerOfTwo[k \in Nat] == IF k = 0 THEN 1 ELSE 2 * PowerOfTwo[k - 1]

\* bit_length() of a positive integer.
BitLength(value) ==
  CHOOSE k \in 1..value : PowerOfTwo[k - 1] <= value /\ value < PowerOfTwo[k]

\* _largest_power_of_two_less_than, for a value of at least 2.
LargestPowerOfTwoLessThan(value) == PowerOfTwo[BitLength(value - 1) - 1]

Lists(digests) == Seq({digests[i] : i \in 1..Len(digests)})

Split(list) == LargestPowerOfTwoLessThan(Len(list))

Left(list) == SubSeq(list, 1, Split(list))

Right(list) == SubSeq(list, Split(list) + 1, Len(list))

\* Mutant: the list is split in the middle.
RootOfHalves(digests) ==
  LET root[list \in Lists(digests)] ==
        CASE list = <<>>    -> EmptyHash
          [] Len(list) = 1  -> LeafHash(list[1])
          [] OTHER          -> NodeHash(root[SubSeq(list, 1, Len(list) \div 2)],
                                        root[SubSeq(list, Len(list) \div 2 + 1, Len(list))])
  IN root[digests]

\* Mutant: a list of odd length is padded with its last leaf.
RootPadded(digests) ==
  LET root[list \in Lists(digests)] ==
        CASE list = <<>>    -> EmptyHash
          [] Len(list) = 1  -> LeafHash(list[1])
          [] Len(list) > 1 /\ Len(list) % 2 = 1 -> root[Append(list, list[Len(list)])]
          [] OTHER          -> NodeHash(root[Left(list)], root[Right(list)])
  IN root[digests]

\* _merkle_root
Root(digests) ==
  LET root[list \in Lists(digests)] ==
        CASE list = <<>>    -> EmptyHash
          [] Len(list) = 1  -> LeafHash(list[1])
          [] OTHER          -> NodeHash(root[Left(list)], root[Right(list)])
  IN root[digests]

\* Mutant: every sibling is put on the right.
PathOneSided(digests, index) ==
  LET path[list \in Lists(digests)] ==
        [i \in 0..(Len(list) - 1) |->
           IF Len(list) = 1 THEN <<>>
           ELSE IF i < Split(list)
             THEN Append(path[Left(list)][i], [side |-> "right", digest |-> Root(Right(list))])
             ELSE Append(path[Right(list)][i - Split(list)],
                         [side |-> "right", digest |-> Root(Left(list))])]
  IN path[digests][index]

\* _merkle_path: the siblings from the leaf with this index up to the root.
Path(digests, index) ==
  LET path[list \in Lists(digests)] ==
        [i \in 0..(Len(list) - 1) |->
           IF Len(list) = 1 THEN <<>>
           ELSE IF i < Split(list)
             THEN Append(path[Left(list)][i], [side |-> "right", digest |-> Root(Right(list))])
             ELSE Append(path[Right(list)][i - Split(list)],
                         [side |-> "left", digest |-> Root(Left(list))])]
  IN path[digests][index]

\* One step of the loop: the hash of the node above.
Above(node, hash) ==
  IF node.side = "left" THEN NodeHash(node.digest, hash) ELSE NodeHash(hash, node.digest)

\* The root TransparencyInclusionReceipt.validate_receipt computes.
FoldPath(leafHash, path) ==
  LET root[i \in 0..Len(path)] == IF i = 0 THEN leafHash ELSE Above(path[i], root[i - 1])
  IN root[Len(path)]
=============================================================================
