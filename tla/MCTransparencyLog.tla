--------------------------- MODULE MCTransparencyLog ---------------------------
(* TransparencyLog with the Merkle hashing of the code, for TLC.            *)
EXTENDS TransparencyLog, MerkleTree
=============================================================================
