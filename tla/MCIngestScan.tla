---------------------------- MODULE MCIngestScan ----------------------------
(* Small instances of IngestScan.                                           *)
EXTENDS IngestScan, TLC

CONSTANTS f, a, m, c1, c2, img

MCOf == [x \in {m} |-> a]
Packings == {[x \in {m} |-> c1], [x \in {m} |-> c2], [x \in {m} |-> Big]}
=============================================================================
