----------------------------- MODULE EmbedQueue -----------------------------
(***************************************************************************)
(* The embedding job queue of internal/embedqueue: the Broker interface    *)
(* and what its two implementations, MemBroker and SQLiteBroker, promise.  *)
(*                                                                         *)
(* A row is a live job: pending, or in flight under a lease.  The order in *)
(* which claimable rows are handed out is left free here; MemBroker.tla    *)
(* models the in-process broker's FIFO and implements this module.         *)
(*                                                                         *)
(* Time is abstracted to what the code compares: a lease is "live" before  *)
(* its deadline, "due" at it and "past" after it, and a row delayed by a   *)
(* Nack waits until its notBefore has passed.                              *)
(***************************************************************************)
EXTENDS Naturals, FiniteSets

CONSTANTS
  Corpus,       (* corpora sharing the queue                                *)
  AnyCorpus,    (* the empty corpus id of an unscoped Lease                 *)
  Kind,         (* index kinds: the vector axes                             *)
  Chunk,        (* chunk ids, rowids of each corpus's own store             *)
  Rep,          (* representations a late-chunking document job names       *)
  NoRep,        (* the zero rep_id of a per-chunk job                       *)
  Text,         (* text hashes: the payload identity of a job               *)
  Token,        (* lease tokens                                             *)
  NoToken,
  MaxAttempts,  (* redelivery budget                                        *)
  Durable       (* TRUE: SQLiteBroker's transactions; FALSE: MemBroker      *)

ASSUME QueueAssumption ==
  /\ AnyCorpus \notin Corpus
  /\ NoRep \notin Rep
  /\ NoToken \notin Token
  /\ MaxAttempts \in Nat \ {0}
  /\ Durable \in BOOLEAN

VARIABLES
  rows,   (* the live jobs                                                  *)
  dead,   (* the jobs that have been dead-lettered                          *)
  held    (* the leases callers still hold, expired ones included           *)

qvars == <<rows, dead, held>>

-----------------------------------------------------------------------------
(* Jobs and rows *)

(* What Validate accepts: a document job names its first chunk among its    *)
(* chunks, a per-chunk job names one chunk and no representation.           *)
Job ==
  {j \in [corpus : Corpus, kind : Kind, rep : Rep \cup {NoRep},
          chunk : Chunk, chunks : SUBSET Chunk, text : Text] :
     /\ j.chunk \in j.chunks
     /\ j.rep = NoRep => j.chunks = {j.chunk}}

IsDocument(j) == j.rep # NoRep

Row ==
  [job : Job, state : {"pending", "inflight"}, attempts : 0..MaxAttempts,
   token : Token \cup {NoToken}, age : {"none", "live", "due", "past"},
   wait : BOOLEAN]

Lease == [job : Job, token : Token, attempts : 1..MaxAttempts]

(* Mutated form: one delivery late.                                         *)
FinalLate(l) == l.attempts > MaxAttempts

(* A Nack under this lease dead-letters the job instead of redelivering it. *)
Final(l) == l.attempts >= MaxAttempts

(* Mutated form: a document job is keyed by its first chunk.                *)
SameFirstChunk(existing, incoming) ==
  /\ existing.corpus = incoming.corpus
  /\ existing.kind = incoming.kind
  /\ existing.chunk = incoming.chunk

(* The dedup key is chosen by the incoming job: a document job collides     *)
(* with a live document job of its representation, a per-chunk job with     *)
(* any live job of its chunk id.                                            *)
SameJobKey(existing, incoming) ==
  /\ existing.corpus = incoming.corpus
  /\ existing.kind = incoming.kind
  /\ IF IsDocument(incoming)
       THEN IsDocument(existing) /\ existing.rep = incoming.rep
       ELSE existing.chunk = incoming.chunk

-----------------------------------------------------------------------------
(* Reclaiming expired leases *)

(* Mutated forms: at the deadline already; only while deliveries are left.  *)
ExpiredAtDeadline(r) == r.state = "inflight" /\ r.age # "live"
ExpiredInBudget(r) ==
  r.state = "inflight" /\ r.age = "past" /\ r.attempts < MaxAttempts

Expired(r) == r.state = "inflight" /\ r.age = "past"

Requeued(r, delay) ==
  [r EXCEPT !.state = "pending", !.token = NoToken, !.age = "none",
            !.wait = delay]

Reclaimed ==
  {r \in rows : ~Expired(r)} \cup
  {Requeued(r, r.wait) :
     r \in {s \in rows : Expired(s) /\ s.attempts < MaxAttempts}}

Exhausted ==
  {r.job : r \in {s \in rows : Expired(s) /\ s.attempts >= MaxAttempts}}

Claimable(r, cp) ==
  /\ r.state = "pending"
  /\ ~r.wait
  /\ cp # AnyCorpus => r.job.corpus = cp

-----------------------------------------------------------------------------
(* Operations of the Broker interface *)

QInit ==
  /\ rows = {}
  /\ dead = {}
  /\ held = {}

(* Mutated form: only a pending job swallows the incoming one.              *)
EnqueueBesideInflight(j) ==
  /\ ~ \E r \in rows : r.state = "pending" /\ SameJobKey(r.job, j)
  /\ rows' = rows \cup
       {[job |-> j, state |-> "pending", attempts |-> 0, token |-> NoToken,
         age |-> "none", wait |-> FALSE]}
  /\ UNCHANGED <<dead, held>>

(* A live job with the same key swallows the incoming one; a dead-lettered  *)
(* job does not.                                                            *)
Enqueue(j) ==
  /\ ~ \E r \in rows : SameJobKey(r.job, j)
  /\ rows' = rows \cup
       {[job |-> j, state |-> "pending", attempts |-> 0, token |-> NoToken,
         age |-> "none", wait |-> FALSE]}
  /\ UNCHANGED <<dead, held>>

(* Mutated form: a token nobody in the queue carries may still be held.     *)
UnusedToken(t) == \A r \in Reclaimed : r.token # t

(* A token is fresh: no row carries it once expired leases are reclaimed,   *)
(* and no caller still holds it.  The memory broker counts, the SQLite      *)
(* broker draws 128 random bits.                                            *)
FreshToken(t) ==
  /\ \A r \in Reclaimed : r.token # t
  /\ \A l \in held : l.token # t

Leased(r, t) ==
  [r EXCEPT !.state = "inflight", !.token = t, !.age = "live",
            !.attempts = r.attempts + 1]

LeaseRow(r, t) ==
  /\ FreshToken(t)
  /\ rows' = (Reclaimed \ {r}) \cup {Leased(r, t)}
  /\ dead' = dead \cup Exhausted
  /\ held' = held \cup {[job |-> r.job, token |-> t, attempts |-> r.attempts + 1]}

LeaseForCorpus(cp, t) ==
  \E r \in Reclaimed : Claimable(r, cp) /\ LeaseRow(r, t)

(* ErrNoJob. The memory broker has reclaimed by then; the SQLite broker     *)
(* returns out of its transaction, which rolls the reclaim back.            *)
LeaseNoJob(cp) ==
  /\ ~ \E r \in Reclaimed : Claimable(r, cp)
  /\ \/ Durable /\ UNCHANGED <<rows, dead>>
     \/ ~Durable /\ rows' = Reclaimed /\ dead' = dead \cup Exhausted
  /\ UNCHANGED held

Delivered(l) == {r \in rows : r.state = "inflight" /\ r.token = l.token}

(* An unknown or expired token settles nothing; the caller is done with it  *)
(* either way.                                                              *)
Ack(l) ==
  /\ rows' = rows \ Delivered(l)
  /\ held' = held \ {l}
  /\ UNCHANGED dead

(* Mutated form: the budget is left to the reclaim.                         *)
NackUnbounded(l, delay) ==
  /\ rows' = (rows \ Delivered(l)) \cup {Requeued(r, delay) : r \in Delivered(l)}
  /\ held' = held \ {l}
  /\ UNCHANGED dead

Nack(l, delay) ==
  LET back == {r \in Delivered(l) : r.attempts < MaxAttempts}
  IN  /\ rows' = (rows \ Delivered(l)) \cup {Requeued(r, delay) : r \in back}
      /\ dead' = dead \cup {r.job : r \in Delivered(l) \ back}
      /\ held' = held \ {l}

Stats ==
  /\ rows' = Reclaimed
  /\ dead' = dead \cup Exhausted
  /\ UNCHANGED held

-----------------------------------------------------------------------------
(* The environment: clocks, and callers that stop without settling *)

LaterAge(a) == IF a = "live" THEN "due" ELSE "past"

Age(r) ==
  /\ r.state = "inflight" /\ r.age # "past"
  /\ rows' = (rows \ {r}) \cup {[r EXCEPT !.age = LaterAge(r.age)]}
  /\ UNCHANGED <<dead, held>>

WaitOver(r) ==
  /\ r.wait
  /\ rows' = (rows \ {r}) \cup {[r EXCEPT !.wait = FALSE]}
  /\ UNCHANGED <<dead, held>>

Forget(gone) ==
  /\ held' = held \ gone
  /\ UNCHANGED <<rows, dead>>

-----------------------------------------------------------------------------

QNext ==
  \/ \E j \in Job : Enqueue(j)
  \/ \E cp \in Corpus \cup {AnyCorpus}, t \in Token : LeaseForCorpus(cp, t)
  \/ \E cp \in Corpus \cup {AnyCorpus} : LeaseNoJob(cp)
  \/ \E l \in held : Ack(l)
  \/ \E l \in held, delay \in BOOLEAN : Nack(l, delay)
  \/ Stats
  \/ \E r \in rows : Age(r)
  \/ \E r \in rows : WaitOver(r)
  \/ \E gone \in SUBSET held : Forget(gone)

QSpec == QInit /\ [][QNext]_qvars

-----------------------------------------------------------------------------
(* Properties *)

TypeOK ==
  /\ rows \subseteq Row
  /\ dead \subseteq Job
  /\ held \subseteq Lease

(* Whether two jobs are the same unit of work whichever came first: the     *)
(* same chunk, or the same representation, of the same corpus and axis.     *)
SameUnit(i, j) ==
  /\ IsDocument(i) <=> IsDocument(j)
  /\ SameJobKey(i, j)

(* Enqueue's dedup across coordinator ticks, leases, redeliveries and       *)
(* reclaims: no unit of work is ever in the queue twice, so a corpus's      *)
(* backlog cannot pile up duplicates and one representation is pooled by    *)
(* one live document job.                                                   *)
OneLiveJob ==
  \A r, s \in rows : SameUnit(r.job, s.job) => r = s

(* The redelivery budget: a job waiting for delivery has deliveries left,   *)
(* and a delivery never exceeds the budget, whatever mix of Nack and lease  *)
(* expiry brought it back.                                                  *)
BudgetRespected ==
  \A r \in rows :
    /\ r.state = "pending" => r.attempts < MaxAttempts
    /\ r.state = "inflight" => r.attempts \in 1..MaxAttempts

(* A token names one delivery: whatever lease a caller still holds, however *)
(* late, settling it can only touch the delivery it was handed, and the     *)
(* attempt count it was told (which decides Final) is the broker's own.     *)
LeaseNamesDelivery ==
  /\ \A l \in held, r \in rows :
       r.token = l.token => r.job = l.job /\ r.attempts = l.attempts
  /\ \A l, m \in held : l.token = m.token => l = m

(* Rows in flight carry a token of their own, pending rows carry none.      *)
TokensExclusive ==
  /\ \A r \in rows : r.state = "inflight" <=> r.token # NoToken
  /\ \A r, s \in rows : r.token = s.token /\ r.token # NoToken => r = s

(* A lease protects its delivery until its deadline has passed: no other    *)
(* call takes the job back, requeues it, dead-letters it or changes what    *)
(* was delivered before the holder settles it or the deadline is behind.    *)
LiveLeaseKept ==
  [][\A r \in rows :
       r.state = "inflight" /\ r.age # "past" =>
         \/ \E s \in rows' : /\ s.token = r.token /\ s.job = r.job
                             /\ s.state = "inflight" /\ s.attempts = r.attempts
         \/ \E l \in held \ held' : l.token = r.token]_qvars

QueueInv == OneLiveJob /\ BudgetRespected /\ LeaseNamesDelivery /\ TokensExclusive

=============================================================================
