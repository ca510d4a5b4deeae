------------------------------ MODULE MCReindex ------------------------------
(* A corpus of one text and one source document, each with an index file.  *)
EXTENDS Reindex

CONSTANTS text, code, d1, d2
Kind == [d \in Doc |-> IF d = d1 THEN text ELSE code]
=============================================================================
