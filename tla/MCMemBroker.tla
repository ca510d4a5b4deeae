----------------------------- MODULE MCMemBroker -----------------------------
(***************************************************************************)
(* MemBroker with one job in each of two corpora: enough for a job to be   *)
(* stuck behind another that keeps failing, behind a delayed one and       *)
(* behind a foreign backlog.                                               *)
(***************************************************************************)
EXTENDS MemBroker

CONSTANTS A, B

ChunkJob(cp, c) ==
  [corpus |-> cp, kind |-> CHOOSE k \in Kind : TRUE, rep |-> NoRep, chunk |-> c,
   chunks |-> {c}, text |-> CHOOSE x \in Text : TRUE]

SentJobs == {ChunkJob(A, 1), ChunkJob(B, 1)}
=============================================================================
