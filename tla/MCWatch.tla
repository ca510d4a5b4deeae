------------------------------ MODULE MCWatch ------------------------------
(* Small instances of Watch: one file in the root, one in a directory.      *)
EXTENDS Watch, TLC

CONSTANTS x, y, d

MCIn == (x :> Root) @@ (y :> d)
MCInDir == y :> d
=============================================================================
