----------------------------- MODULE MCEmbedPool -----------------------------
(***************************************************************************)
(* Instances of EmbedPool.                                                 *)
(***************************************************************************)
EXTENDS EmbedPool

CONSTANTS A, B, w1, w2, text, code, x, y, r1

OneCorpus == [w \in Worker |-> A]
TwoCorpora == [w \in Worker |-> IF w = w1 THEN A ELSE B]
EveryAxis == [w \in Worker |-> Kind]
NoReps == [c \in Chunk |-> NoRep]
OneRep == [c \in Chunk |-> r1]
OneKind == [t \in Text |-> text]
KindPerText == [t \in Text |-> IF t = x THEN text ELSE code]
=============================================================================
