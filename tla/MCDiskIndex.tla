----------------------------- MODULE MCDiskIndex -----------------------------
(***************************************************************************)
(* Instances of DiskIndex.  Nothing tells identities or contents apart     *)
(* except equality, so they may be permuted.                               *)
(***************************************************************************)
EXTENDS DiskIndex

Interchangeable == Permutations(Identity) \cup Permutations(Content)
=============================================================================
