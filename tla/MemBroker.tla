------------------------------ MODULE MemBroker ------------------------------
(***************************************************************************)
(* MemBroker, the in-process broker of the single-binary deployment: a     *)
(* FIFO of pending jobs, a map of in-flight jobs keyed by lease token, and *)
(* a dead-letter list, all under one mutex.  It implements EmbedQueue with *)
(* Durable = FALSE and adds the order in which jobs are handed out, which  *)
(* decides whether every job gets its turn.                                *)
(***************************************************************************)
EXTENDS Naturals, Sequences, FiniteSets, SequencesExt

CONSTANTS
  Corpus, AnyCorpus, Kind, Chunk, Rep, NoRep, Text, Token, NoToken, MaxAttempts,
  Sent,      (* the jobs the coordinators send: a bound on the instance     *)
  Served     (* the corpora some running worker is bound to                 *)

VARIABLES
  pending,   (* FIFO of memJobs: claimable ones and delayed ones            *)
  inflight,  (* the in-flight memJobs; the map's key is the job's token     *)
  dead,      (* the dead-lettered jobs; the list's order is never read      *)
  held       (* the leases callers still hold, expired ones included        *)

mvars == <<pending, inflight, dead, held>>

RowOf(mj, state) ==
  [job |-> mj.job, state |-> state, attempts |-> mj.attempts,
   token |-> mj.token, age |-> mj.age, wait |-> mj.wait]

Queue ==
  INSTANCE EmbedQueue WITH
    Durable <- FALSE,
    rows <- {RowOf(mj, "pending") : mj \in ToSet(pending)}
              \cup {RowOf(mj, "inflight") : mj \in inflight}

ASSUME MemAssumption ==
  /\ NoToken \notin Token
  /\ MaxAttempts \in Nat \ {0}
  /\ Sent \subseteq Queue!Job

-----------------------------------------------------------------------------
(* Operations, each under b.mu *)

MInit ==
  /\ pending = <<>>
  /\ inflight = {}
  /\ dead = {}
  /\ held = {}

MEnqueue(j) ==
  /\ ~ \E mj \in ToSet(pending) \cup inflight : Queue!SameJobKey(mj.job, j)
  /\ pending' = Append(pending, [job |-> j, attempts |-> 0, token |-> NoToken,
                                 age |-> "none", wait |-> FALSE])
  /\ UNCHANGED <<inflight, dead, held>>

Expired == {mj \in inflight : mj.age = "past"}

(* Mutated form: one delivery over budget.                                  *)
SpentLate(mj) == mj.attempts > MaxAttempts

Spent(mj) == mj.attempts >= MaxAttempts

Returned(mj, delay) ==
  [mj EXCEPT !.token = NoToken, !.age = "none", !.wait = delay]

(* The FIFO once the expired jobs are back in it.  They are visited in the  *)
(* order a Go map range takes, which may be any.                            *)
AfterReclaim ==
  {pending \o back : back \in SetToSeqs({Returned(mj, mj.wait) :
                                mj \in {e \in Expired : ~Spent(e)}})}

ReclaimedDead == dead \cup {mj.job : mj \in {e \in Expired : Spent(e)}}

Claimable(mj, cp) == ~mj.wait /\ (cp # AnyCorpus => mj.job.corpus = cp)

(* Mutated form: only the head of the FIFO is looked at.                    *)
HeadClaimable(queue, cp, i) ==
  /\ i = 1 /\ queue # <<>>
  /\ Claimable(queue[i], cp)

(* The first job of the FIFO that is neither delayed nor another corpus's.  *)
FirstClaimable(queue, cp, i) ==
  /\ i \in DOMAIN queue
  /\ Claimable(queue[i], cp)
  /\ \A k \in 1..(i - 1) : ~Claimable(queue[k], cp)

(* tokenSeq never repeats a token; here a token is fresh once nobody uses   *)
(* it any more.                                                             *)
FreshTokens ==
  {t \in Token : /\ \A mj \in inflight \ Expired : mj.token # t
                 /\ \A l \in held : l.token # t}

MLeaseForCorpus(cp) ==
  \E queue \in AfterReclaim, i \in 1..Len(pending) + Cardinality(Expired) :
    LET t  == CHOOSE u \in FreshTokens : TRUE
        mj == [queue[i] EXCEPT !.attempts = @ + 1, !.token = t, !.age = "live"]
    IN  /\ FreshTokens # {}
        /\ FirstClaimable(queue, cp, i)
        /\ pending' = RemoveAt(queue, i)
        /\ inflight' = (inflight \ Expired) \cup {mj}
        /\ dead' = ReclaimedDead
        /\ held' = held \cup {[job |-> mj.job, token |-> t, attempts |-> mj.attempts]}

(* Reclaiming without a claim: ErrNoJob, and Stats.                         *)
MReclaim ==
  /\ pending' \in AfterReclaim
  /\ inflight' = inflight \ Expired
  /\ dead' = ReclaimedDead
  /\ UNCHANGED held

MLeaseNoJob(cp) ==
  /\ \A mj \in ToSet(pending) \cup {Returned(e, e.wait) : e \in {x \in Expired : ~Spent(x)}} :
       ~Claimable(mj, cp)
  /\ MReclaim

Delivery(l) == {mj \in inflight : mj.token = l.token}

MAck(l) ==
  /\ inflight' = inflight \ Delivery(l)
  /\ held' = held \ {l}
  /\ UNCHANGED <<pending, dead>>

(* An unknown token is a no-op; the caller is done with its lease anyway.   *)
MNack(l, delay) ==
  /\ inflight' = inflight \ Delivery(l)
  /\ held' = held \ {l}
  /\ dead' = dead \cup {mj.job : mj \in {d \in Delivery(l) : Spent(d)}}
  /\ pending' = pending \o
       SetToSeq({Returned(mj, delay) : mj \in {d \in Delivery(l) : ~Spent(d)}})

MStats == MReclaim

-----------------------------------------------------------------------------
(* The environment: clocks, and callers that stop without settling *)

MAge(mj) ==
  /\ mj.age # "past"
  /\ inflight' = (inflight \ {mj})
       \cup {[mj EXCEPT !.age = IF mj.age = "live" THEN "due" ELSE "past"]}
  /\ UNCHANGED <<pending, dead, held>>

MWaitOver(i) ==
  /\ pending[i].wait
  /\ pending' = [pending EXCEPT ![i].wait = FALSE]
  /\ UNCHANGED <<inflight, dead, held>>

MForget(l) ==
  /\ held' = held \ {l}
  /\ UNCHANGED <<pending, inflight, dead>>

MSettle(l) ==
  \/ MAck(l)
  \/ \E delay \in BOOLEAN : MNack(l, delay)
  \/ MForget(l)

MNext ==
  \/ \E j \in Sent : MEnqueue(j)
  \/ \E cp \in Corpus \cup {AnyCorpus} : MLeaseForCorpus(cp)
  \/ \E cp \in Corpus \cup {AnyCorpus} : MLeaseNoJob(cp)
  \/ MStats
  \/ \E l \in held : MSettle(l)
  \/ \E mj \in inflight : MAge(mj)
  \/ \E i \in DOMAIN pending : MWaitOver(i)

(* Workers poll their corpora for ever; a worker settles what it leased or  *)
(* stops, and clocks run.  Leasing is strongly fair because Token is finite *)
(* here and tokenSeq is not: a lease must not starve for want of a token.   *)
MSpec ==
  /\ MInit /\ [][MNext]_mvars
  /\ \A cp \in Served : SF_mvars(MLeaseForCorpus(cp))
  /\ \A t \in Token : WF_mvars(\E l \in held : l.token = t /\ MSettle(l))
  /\ \A t \in Token : WF_mvars(\E mj \in inflight : mj.token = t /\ MAge(mj))
  /\ \A j \in Sent :
       WF_mvars(\E i \in DOMAIN pending : pending[i].job = j /\ MWaitOver(i))

-----------------------------------------------------------------------------
(* Properties *)

(* Every step of the memory broker is a step of the queue the Broker        *)
(* interface promises: reclaim order, FIFO position and token choice are    *)
(* its own business, no job is lost, doubled or delivered over budget.      *)
ImplementsQueue == Queue!QSpec

(* Every pending job of a served corpus is delivered in the end, to a       *)
(* worker that only leases that corpus, whatever is queued in front of it:  *)
(* jobs that fail and come back, delayed jobs, and the backlog of a corpus  *)
(* nobody serves.                                                           *)
EveryJobGetsItsTurn ==
  \A j \in {k \in Sent : k.corpus \in Served} :
    (\E mj \in ToSet(pending) : mj.job = j)
      ~> (\A mj \in ToSet(pending) : mj.job # j)

=============================================================================
