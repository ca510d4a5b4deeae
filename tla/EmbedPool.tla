------------------------------ MODULE EmbedPool ------------------------------
(***************************************************************************)
(* Embedding through the queue: the coordinator that turns pending chunks  *)
(* of the metadata store into jobs, the workers that lease jobs, embed the *)
(* chunks, write the vectors and record the outcome, and the actors that   *)
(* change chunks meanwhile: ingest, the operator's retry, and a query that *)
(* evicts the vectors of chunks it found tombstoned.                       *)
(*                                                                         *)
(* A worker is one goroutine: it drains a batch of leases, prepares them   *)
(* one by one, embeds the prepared jobs axis by axis, and settles each.    *)
(* Between any two of its calls to the store, the index or the broker the  *)
(* other actors may run.                                                   *)
(***************************************************************************)
EXTENDS EmbedQueue

CONSTANTS
  Worker,
  Serves,      (* the corpus each worker is bound to                        *)
  Fits,        (* the workers whose embed identity is the coordinators'     *)
  Axes,        (* the index kinds each worker has an embedder for           *)
  Scoped,      (* the broker can filter leases by corpus                    *)
  Late,        (* late chunking: one document job per representation        *)
  RepOf,       (* the representation of each chunk, or NoRep                *)
  KindOf,      (* the index kind a text is embedded on                      *)
  NoText,      (* no vector                                                 *)
  FirstText,   (* what ingest first wrote into the chunks                   *)
  BornStatus,  (* the status of a chunk as ingest writes it                 *)
  BatchSize,   (* leases a worker drains before it embeds                   *)
  Killers,     (* texts whose embedding kills the worker every time         *)
  Searched,    (* queries run and evict the tombstoned hits they meet       *)
  MaxMishaps   (* bound on rewrites, failures, crashes and outlived leases  *)

ASSUME PoolAssumption ==
  /\ Serves \in [Worker -> Corpus]
  /\ Fits \subseteq Worker
  /\ Axes \in [Worker -> SUBSET Kind]
  /\ Scoped \in BOOLEAN /\ Late \in BOOLEAN /\ Searched \in BOOLEAN
  /\ RepOf \in [Chunk -> Rep \cup {NoRep}]
  /\ KindOf \in [Text -> Kind]
  /\ NoText \notin Text
  /\ Chunk \subseteq Nat
  /\ FirstText \subseteq Text /\ Killers \subseteq Text
  /\ BornStatus \subseteq {"pending", "error"}
  /\ BatchSize \in Nat \ {0}
  /\ MaxMishaps \in Nat

VARIABLES
  chunk,    (* the chunks table of each corpus                              *)
  vec,      (* each corpus's vector index per axis: the text embedded       *)
  work,     (* what each worker holds: its leases and how far each has got  *)
  page,     (* the coordinator's page of pending tasks still to be sent     *)
  offer,    (* the document job it has built and not yet enqueued           *)
  evict,    (* the tombstoned hits a query is about to evict                *)
  mishaps,  (* how many of MaxMishaps have happened                         *)
  tainted   (* history: chunks changed while someone was working on them    *)

store == <<chunk, vec>>
coord == <<page, offer>>
pvars == <<qvars, store, work, coord, evict, mishaps, tainted>>

-----------------------------------------------------------------------------
(* Types *)

Task == [chunk : Chunk, text : Text]

Stage == {"leased", "queued", "ready", "solo", "embed", "mark", "ack",
          "reject", "nack", "unrecorded"}

Item == [lease : Lease, stage : Stage, todo : SUBSET Task]

Status == {"pending", "ok", "error"}

PoolTypeOK ==
  /\ TypeOK
  /\ chunk \in [Corpus -> [Chunk -> [text : Text, status : Status, live : BOOLEAN]]]
  /\ vec \in [Corpus -> [Kind -> [Chunk -> Text \cup {NoText}]]]
  /\ work \in [Worker -> SUBSET Item]
  /\ page \in [Corpus -> SUBSET Task]
  /\ offer \in [Corpus -> SUBSET Job]
  /\ evict \in [Corpus -> SUBSET Chunk]
  /\ mishaps \in 0..MaxMishaps
  /\ tainted \in [Corpus -> SUBSET Chunk]

PoolInit ==
  /\ QInit
  /\ chunk \in [Corpus -> [Chunk -> [text : FirstText, status : {"pending"}, live : {TRUE}]]]
  /\ vec = [cp \in Corpus |-> [k \in Kind |-> [c \in Chunk |-> NoText]]]
  /\ work = [w \in Worker |-> {}]
  /\ page = [cp \in Corpus |-> {}]
  /\ offer = [cp \in Corpus |-> {}]
  /\ evict = [cp \in Corpus |-> {}]
  /\ mishaps = 0
  /\ tainted = [cp \in Corpus |-> {}]

Mishap ==
  /\ mishaps < MaxMishaps
  /\ mishaps' = mishaps + 1

Chunks(tasks) == {t.chunk : t \in tasks}

SetStatus(cp, cs, status) ==
  chunk' = [chunk EXCEPT ![cp] =
              [c \in Chunk |-> IF c \in cs THEN [@[c] EXCEPT !.status = status]
                                           ELSE @[c]]]

-----------------------------------------------------------------------------
(* The coordinator: EnqueuePending, one page at a time *)

Pending(cp) ==
  {t \in Task : LET row == chunk[cp][t.chunk]
                IN  row.live /\ row.status = "pending" /\ row.text = t.text}

ReadPage(cp) ==
  /\ page[cp] = {} /\ offer[cp] = {}
  /\ Pending(cp) # {}
  /\ page' = [page EXCEPT ![cp] = Pending(cp)]
  /\ UNCHANGED <<qvars, store, work, offer, evict, mishaps, tainted>>

(* Mutated form: a job with a live key's payload replaces the queued one.   *)
SendJobReplacing(j) ==
  \/ Enqueue(j)
  \/ /\ \E r \in rows : SameJobKey(r.job, j)
     /\ rows' = {IF SameJobKey(r.job, j) THEN [r EXCEPT !.job = j] ELSE r : r \in rows}
     /\ UNCHANGED <<dead, held>>

(* Enqueue as the caller sees it: a live job with the key makes it a no-op. *)
SendJob(j) ==
  \/ Enqueue(j)
  \/ /\ \E r \in rows : SameJobKey(r.job, j)
     /\ UNCHANGED qvars

ChunkJob(cp, t) ==
  [corpus |-> cp, kind |-> KindOf[t.text], rep |-> NoRep, chunk |-> t.chunk,
   chunks |-> {t.chunk}, text |-> t.text]

SendChunk(cp, t) ==
  /\ ~Late \/ RepOf[t.chunk] = NoRep
  /\ offer[cp] = {}
  /\ SendJob(ChunkJob(cp, t))
  /\ page' = [page EXCEPT ![cp] = @ \ {t}]
  /\ UNCHANGED <<store, work, offer, evict, mishaps, tainted>>

(* The representation's pending chunks are read again, after the page was.  *)
RepPending(cp, rep, k) ==
  {t \in Pending(cp) : RepOf[t.chunk] = rep /\ KindOf[t.text] = k}

(* The smallest chunk id names the job; no chunk left, no job.              *)
DocumentJob(cp, rep, k, tasks) ==
  {[corpus |-> cp, kind |-> k, rep |-> rep, chunk |-> first.chunk,
    chunks |-> Chunks(tasks), text |-> first.text] :
      first \in {t \in tasks : \A u \in tasks : t.chunk <= u.chunk}}

BuildDocument(cp, t) ==
  LET rep   == RepOf[t.chunk]
      k     == KindOf[t.text]
      fresh == RepPending(cp, rep, k)
  IN  /\ Late /\ rep # NoRep
      /\ offer[cp] = {}
      /\ offer' = [offer EXCEPT ![cp] = DocumentJob(cp, rep, k, fresh)]
      /\ page' = [page EXCEPT ![cp] =
                    {u \in @ : u # t /\ u.chunk \notin Chunks(fresh)}]
      /\ UNCHANGED <<qvars, store, work, evict, mishaps, tainted>>

SendDocument(cp, j) ==
  /\ SendJob(j)
  /\ offer' = [offer EXCEPT ![cp] = {}]
  /\ UNCHANGED <<store, work, page, evict, mishaps, tainted>>

(* A read or an Enqueue that fails ends the call; the next tick starts over. *)
PassFails(cp) ==
  /\ page[cp] # {} \/ offer[cp] # {}
  /\ Mishap
  /\ page' = [page EXCEPT ![cp] = {}]
  /\ offer' = [offer EXCEPT ![cp] = {}]
  /\ UNCHANGED <<qvars, store, work, evict, tainted>>

-----------------------------------------------------------------------------
(* Leasing: Run and drainBatch *)

At(w, stages) == {it \in work[w] : it.stage \in stages}

Moved(items, stage) == {[it EXCEPT !.stage = stage] : it \in items}

Scope(w) == IF Scoped THEN Serves[w] ELSE AnyCorpus

(* A worker leases until its batch is full, the queue is empty or a lease   *)
(* call fails.                                                              *)
LeaseNext(w) ==
  /\ work[w] = At(w, {"leased"})
  /\ Cardinality(work[w]) < BatchSize
  /\ \E t \in Token :
       /\ \A u \in Token : FreshToken(u) => t <= u
       /\ LeaseForCorpus(Scope(w), t)
  /\ LET new   == {[lease |-> l, stage |-> "leased", todo |-> {}] : l \in held' \ held}
         batch == work[w] \cup new
     IN  work' = [work EXCEPT ![w] = IF Cardinality(batch) = BatchSize
                                       THEN Moved(batch, "queued") ELSE batch]
  /\ UNCHANGED <<store, coord, evict, mishaps, tainted>>

LeaseEmpty(w) ==
  /\ work[w] = At(w, {"leased"})
  /\ LeaseNoJob(Scope(w))
  /\ work' = [work EXCEPT ![w] = Moved(@, "queued")]
  /\ UNCHANGED <<store, coord, evict, mishaps, tainted>>

DrainEnds(w) ==
  /\ work[w] # {} /\ work[w] = At(w, {"leased"})
  /\ work' = [work EXCEPT ![w] = Moved(@, "queued")]
  /\ UNCHANGED <<qvars, store, coord, evict, mishaps, tainted>>

-----------------------------------------------------------------------------
(* Preparing: servesCorpus, acceptsJob, routeToCurrentAxis, routeDocumentJob *)

Idle(w) ==
  At(w, {"leased", "embed", "mark", "ack", "reject", "nack", "unrecorded"}) = {}

(* The live chunks a job names, as the worker's own store has them now.     *)
Fetched(w, j) ==
  LET table == chunk[Serves[w]]
  IN  {[chunk |-> c, text |-> table[c].text] : c \in {d \in j.chunks : table[d].live}}

Current(j, t) ==
  /\ KindOf[t.text] = j.kind
  /\ ~IsDocument(j) => t.text = j.text

(* Mutated form: the worker trusts the broker to filter by corpus.          *)
VerdictUngated(w, j, tasks) ==
  IF w \notin Fits \/ (Late /\ ~IsDocument(j)) THEN "reject"
  ELSE IF tasks = {} THEN "ack"
  ELSE IF j.kind \notin Axes[w] THEN "reject" ELSE "ready"

(* The stage a delivery goes to once the gates have been passed in order.   *)
Verdict(w, j, tasks) ==
  IF j.corpus # Serves[w] THEN "nack"
  ELSE IF w \notin Fits \/ (Late /\ ~IsDocument(j)) THEN "reject"
  ELSE IF tasks = {} THEN "ack"
  ELSE IF j.kind \notin Axes[w] THEN "reject" ELSE "ready"

Prepare(w, it) ==
  LET j     == it.lease.job
      tasks == {t \in Fetched(w, j) : Current(j, t)}
      stage == Verdict(w, j, tasks)
  IN  /\ Idle(w) /\ it.stage = "queued"
      /\ work' = [work EXCEPT ![w] = (@ \ {it}) \cup
           {[it EXCEPT !.stage = stage, !.todo = IF stage = "ready" THEN tasks ELSE {}]}]
      /\ UNCHANGED <<qvars, store, coord, evict, mishaps, tainted>>

(* The store could not be read: the job is redelivered.                     *)
FetchFails(w, it) ==
  /\ Idle(w) /\ it.stage = "queued"
  /\ it.lease.job.corpus = Serves[w] /\ w \in Fits
  /\ Late => IsDocument(it.lease.job)
  /\ Mishap
  /\ work' = [work EXCEPT ![w] = (@ \ {it}) \cup Moved({it}, "reject")]
  /\ UNCHANGED <<qvars, store, coord, evict, tainted>>

-----------------------------------------------------------------------------
(* Embedding: embedGroup, EmbedAndIndex, embedOne *)

(* liveLeases compares the clock with the deadline the worker was told.     *)
InTime(l) == \E r \in Delivered(l) : r.age = "live"

(* The prepared jobs of one axis go to the provider together; one whose     *)
(* lease has run out is left where it is for the broker to reclaim.         *)
EmbedGroup(w, k) ==
  LET group == {it \in At(w, {"ready"}) : it.lease.job.kind = k}
      live  == {it \in group : InTime(it.lease)}
  IN  /\ Idle(w) /\ At(w, {"queued", "solo"}) = {}
      /\ group # {}
      /\ work' = [work EXCEPT ![w] = (@ \ group) \cup Moved(live, "embed")]
      /\ Forget({it.lease : it \in group \ live})
      /\ UNCHANGED <<store, coord, evict, mishaps, tainted>>

EmbedOne(w, it) ==
  /\ Idle(w) /\ At(w, {"queued"}) = {}
  /\ it.stage = "solo"
  /\ work' = [work EXCEPT ![w] = (@ \ {it}) \cup Moved({it}, "embed")]
  /\ UNCHANGED <<qvars, store, coord, evict, mishaps, tainted>>

Todo(items) == UNION {it.todo : it \in items}

Written(cp, tasks) ==
  vec' = [vec EXCEPT ![cp] = [k \in Kind |-> [c \in Chunk |->
            IF \E t \in tasks : t.chunk = c /\ KindOf[t.text] = k
              THEN (CHOOSE t \in tasks : t.chunk = c /\ KindOf[t.text] = k).text
              ELSE @[k][c]]]]

Survivable(w) == \A t \in Todo(At(w, {"embed"})) : t.text \notin Killers

(* The provider answered and every vector of the batch is in the index.     *)
WriteVectors(w) ==
  LET E == At(w, {"embed"})
  IN  /\ E # {} /\ Survivable(w)
      /\ Written(Serves[w], Todo(E))
      /\ work' = [work EXCEPT ![w] = (@ \ E) \cup Moved(E, "mark")]
      /\ UNCHANGED <<qvars, chunk, coord, evict, mishaps, tainted>>

(* Mutated form: every chunk the job names is marked, embedded or not.      *)
MarkWholeJob(w) ==
  LET E == At(w, {"mark"})
  IN  /\ E # {}
      /\ SetStatus(Serves[w], UNION {it.lease.job.chunks : it \in E}, "ok")
      /\ work' = [work EXCEPT ![w] = (@ \ E) \cup Moved(E, "ack")]
      /\ UNCHANGED <<qvars, vec, coord, evict, mishaps, tainted>>

(* MarkEmbedded: by chunk id alone.                                         *)
Mark(w) ==
  LET E == At(w, {"mark"})
  IN  /\ E # {}
      /\ SetStatus(Serves[w], Chunks(Todo(E)), "ok")
      /\ work' = [work EXCEPT ![w] = (@ \ E) \cup Moved(E, "ack")]
      /\ UNCHANGED <<qvars, vec, coord, evict, mishaps, tainted>>

(* Mutated form: a lone job that fails is nacked without rejectJob.         *)
IsolatedNacked(E) == Moved(E, IF Cardinality(E) = 1 THEN "nack" ELSE "solo")

(* What a failed call leads to: a lone job is rejected, the jobs of a batch *)
(* are embedded again one by one.                                           *)
Isolated(E) == Moved(E, IF Cardinality(E) = 1 THEN "reject" ELSE "solo")

(* A transient provider error, or MarkEmbedded failing for good: nothing is *)
(* recorded.                                                                *)
CallFails(w, stage) ==
  LET E == At(w, {stage})
  IN  /\ E # {} /\ stage \in {"embed", "mark"}
      /\ Mishap
      /\ work' = [work EXCEPT ![w] = (@ \ E) \cup Isolated(E)]
      /\ UNCHANGED <<qvars, store, coord, evict, tainted>>

(* A permanent refusal of the whole call: a single rejected input, a fatal  *)
(* or an authentication error.                                              *)
EmbedRefused(w) ==
  LET E == At(w, {"embed"})
  IN  /\ E # {}
      /\ Mishap
      /\ SetStatus(Serves[w], Chunks(Todo(E)), "error")
      /\ work' = [work EXCEPT ![w] = (@ \ E) \cup Isolated(E)]
      /\ UNCHANGED <<qvars, vec, coord, evict, tainted>>

Without(items, bad) == {[it EXCEPT !.todo = {t \in @ : t \notin bad}] : it \in items}

(* Inputs taken out of the batch on their own, oversized ones before the    *)
(* call and rejected ones by bisecting it: they are recorded as failed, if  *)
(* the store takes the record, and the rest goes on as if they had not been *)
(* there.                                                                   *)
DropInputs(w, bad) ==
  LET E    == At(w, {"embed"})
      rest == Without(E, bad)
  IN  /\ bad # {} /\ bad \subseteq Todo(E)
      /\ Mishap
      /\ SetStatus(Serves[w], Chunks(bad), "error") \/ UNCHANGED chunk
      /\ work' = [work EXCEPT ![w] = (@ \ E) \cup
                    (IF Todo(rest) = {} THEN Moved(rest, "ack") ELSE rest)]
      /\ UNCHANGED <<qvars, vec, coord, evict, tainted>>

(* Mutated form: the whole batch is marked when part of it was written.     *)
IndexFailsMarkingAll(w, done, refused) ==
  LET E == At(w, {"embed"})
  IN  /\ E # {}
      /\ done \subseteq Todo(E) /\ refused \in Todo(E) \ done
      /\ Mishap
      /\ Written(Serves[w], done)
      /\ SetStatus(Serves[w], Chunks(Todo(E)), "ok")
      /\ work' = [work EXCEPT ![w] = (@ \ E) \cup Isolated(E)]
      /\ UNCHANGED <<qvars, coord, evict, tainted>>

(* The index takes some vectors of the batch, refuses one and the rest are  *)
(* not tried: the first are marked, a permanent refusal is recorded.        *)
IndexFails(w, done, refused) ==
  LET E == At(w, {"embed"})
  IN  /\ E # {}
      /\ done \subseteq Todo(E) /\ refused \in Todo(E) \ done
      /\ Mishap
      /\ Written(Serves[w], done)
      /\ \/ SetStatus(Serves[w], Chunks(done), "ok")
         \/ chunk' = [chunk EXCEPT ![Serves[w]] = [c \in Chunk |->
              IF c = refused.chunk THEN [@[c] EXCEPT !.status = "error"]
              ELSE IF c \in Chunks(done) THEN [@[c] EXCEPT !.status = "ok"] ELSE @[c]]]
      /\ work' = [work EXCEPT ![w] = (@ \ E) \cup Isolated(E)]
      /\ UNCHANGED <<qvars, coord, evict, tainted>>

-----------------------------------------------------------------------------
(* Settling: Ack, rejectJob, Nack *)

AckItem(w, it) ==
  /\ it.stage = "ack"
  /\ Ack(it.lease)
  /\ work' = [work EXCEPT ![w] = @ \ {it}]
  /\ UNCHANGED <<store, coord, evict, mishaps, tainted>>

(* The last delivery of the budget records the failure against every chunk  *)
(* the job names, then gives the job up.                                    *)
Reject(w, it) ==
  /\ it.stage = "reject"
  /\ IF Final(it.lease)
       THEN SetStatus(Serves[w], it.lease.job.chunks, "error")
       ELSE UNCHANGED chunk
  /\ work' = [work EXCEPT ![w] = (@ \ {it}) \cup Moved({it}, "nack")]
  /\ UNCHANGED <<qvars, vec, coord, evict, mishaps, tainted>>

(* The failure could not be recorded: failChunk says so and gives up.       *)
FailChunkFails(w, it) ==
  /\ it.stage = "reject" /\ Final(it.lease)
  /\ Mishap
  /\ work' = [work EXCEPT ![w] = (@ \ {it}) \cup Moved({it}, "unrecorded")]
  /\ UNCHANGED <<qvars, store, coord, evict, tainted>>

NackItem(w, it) ==
  /\ it.stage \in {"nack", "unrecorded"}
  /\ Nack(it.lease, TRUE)
  /\ work' = [work EXCEPT ![w] = @ \ {it}]
  /\ UNCHANGED <<store, coord, evict, mishaps, tainted>>

(* A broker call that fails is logged and the lease left to expire.         *)
SettleFails(w, it) ==
  /\ it.stage \in {"ack", "nack", "unrecorded"}
  /\ Mishap
  /\ Forget({it.lease})
  /\ work' = [work EXCEPT ![w] = @ \ {it}]
  /\ UNCHANGED <<store, coord, evict, tainted>>

(* The process dies and comes back without its leases.                      *)
Crash(w) ==
  /\ work[w] # {}
  /\ IF Survivable(w) THEN Mishap ELSE UNCHANGED mishaps
  /\ Forget({it.lease : it \in work[w]})
  /\ work' = [work EXCEPT ![w] = {}]
  /\ UNCHANGED <<store, coord, evict, tainted>>

-----------------------------------------------------------------------------
(* The other actors *)

Reading(cp, c) ==
  \/ c \in evict[cp]
  \/ \E w \in Worker : \E it \in work[w] : Serves[w] = cp /\ c \in Chunks(it.todo)

Failing(cp, c) ==
  \E w \in Worker : \E it \in At(w, {"nack"}) :
    Serves[w] = cp /\ c \in it.lease.job.chunks

(* Mutated form: the upsert leaves the embedding status as it was.          *)
ReingestKeepsStatus(cp, c, text, status) ==
  /\ Mishap
  /\ chunk' = [chunk EXCEPT ![cp][c].text = text, ![cp][c].live = TRUE]
  /\ tainted' = [tainted EXCEPT ![cp] =
                   IF Reading(cp, c) \/ Failing(cp, c) THEN @ \cup {c} ELSE @ \ {c}]
  /\ UNCHANGED <<qvars, vec, work, coord, evict>>

(* Ingest writes the chunk of a (representation, ordinal) again, in place:  *)
(* new text, live, and pending, or born failed when the text is degenerate. *)
Reingest(cp, c, text, status) ==
  /\ Mishap
  /\ chunk' = [chunk EXCEPT ![cp][c] = [text |-> text, status |-> status, live |-> TRUE]]
  /\ tainted' = [tainted EXCEPT ![cp] =
                   IF Reading(cp, c) \/ Failing(cp, c) THEN @ \cup {c} ELSE @ \ {c}]
  /\ UNCHANGED <<qvars, vec, work, coord, evict>>

Tombstone(cp, c) ==
  /\ chunk[cp][c].live
  /\ Mishap
  /\ chunk' = [chunk EXCEPT ![cp][c].live = FALSE]
  /\ UNCHANGED <<qvars, vec, work, coord, evict, tainted>>

(* dir2mcp's retry of failed embeddings, while the daemon runs.             *)
RequeueFailedChunks(cp) ==
  LET failed == {c \in Chunk : chunk[cp][c].live /\ chunk[cp][c].status = "error"}
  IN  /\ failed # {}
      /\ Mishap
      /\ SetStatus(cp, failed, "pending")
      /\ tainted' = [tainted EXCEPT ![cp] = @ \cup {c \in failed : Failing(cp, c)}]
      /\ UNCHANGED <<qvars, vec, work, coord, evict>>

(* A query finds hits whose chunk is tombstoned, then evicts their vectors. *)
FindTombstoned(cp) ==
  LET hits == {c \in Chunk : ~chunk[cp][c].live /\ \E k \in Kind : vec[cp][k][c] # NoText}
  IN  /\ Searched
      /\ evict[cp] = {} /\ hits # {}
      /\ evict' = [evict EXCEPT ![cp] = hits]
      /\ UNCHANGED <<qvars, store, work, coord, mishaps, tainted>>

EvictChunks(cp) ==
  /\ evict[cp] # {}
  /\ vec' = [vec EXCEPT ![cp] = [k \in Kind |-> [c \in Chunk |->
               IF c \in evict[cp] THEN NoText ELSE @[k][c]]]]
  /\ evict' = [evict EXCEPT ![cp] = {}]
  /\ UNCHANGED <<qvars, chunk, work, coord, mishaps, tainted>>

(* Time: a lease somebody works under runs out only as a mishap; one whose  *)
(* holder is gone always does.                                              *)
Attended(r) == \E l \in held : l.token = r.token

Outlive(r) ==
  /\ Attended(r) /\ Age(r)
  /\ IF r.age = "live" THEN Mishap ELSE UNCHANGED mishaps
  /\ UNCHANGED <<store, work, coord, evict, tainted>>

Expire(r) ==
  /\ ~Attended(r) /\ Age(r)
  /\ UNCHANGED <<store, work, coord, evict, mishaps, tainted>>

RetryDue(r) ==
  /\ WaitOver(r)
  /\ UNCHANGED <<store, work, coord, evict, mishaps, tainted>>

-----------------------------------------------------------------------------

Coordinate(cp) ==
  \/ ReadPage(cp)
  \/ \E t \in page[cp] : SendChunk(cp, t) \/ BuildDocument(cp, t)
  \/ \E j \in offer[cp] : SendDocument(cp, j)

Settle(w) ==
  \E it \in work[w] : AckItem(w, it) \/ Reject(w, it) \/ NackItem(w, it)

Embed(w) ==
  \/ \E k \in Kind : EmbedGroup(w, k)
  \/ \E it \in work[w] : EmbedOne(w, it)
  \/ WriteVectors(w)
  \/ Mark(w)

(* What a worker does when nothing goes wrong.                              *)
Proceed(w) ==
  \/ LeaseNext(w) \/ LeaseEmpty(w) \/ DrainEnds(w)
  \/ \E it \in work[w] : Prepare(w, it)
  \/ Embed(w)
  \/ Settle(w)

Fail(w) ==
  \/ \E it \in work[w] : FetchFails(w, it) \/ FailChunkFails(w, it) \/ SettleFails(w, it)
  \/ \E stage \in {"embed", "mark"} : CallFails(w, stage)
  \/ EmbedRefused(w)
  \/ \E bad \in SUBSET Todo(At(w, {"embed"})) : DropInputs(w, bad)
  \/ \E done \in SUBSET Todo(At(w, {"embed"})), refused \in Todo(At(w, {"embed"})) :
       IndexFails(w, done, refused)
  \/ Crash(w)

Time == \E r \in rows : Outlive(r) \/ Expire(r) \/ RetryDue(r)

Others(cp) ==
  \/ \E c \in Chunk :
       \/ \E text \in Text, status \in BornStatus : Reingest(cp, c, text, status)
       \/ Tombstone(cp, c)
  \/ RequeueFailedChunks(cp)
  \/ PassFails(cp)
  \/ FindTombstoned(cp)
  \/ EvictChunks(cp)

PoolNext ==
  \/ \E cp \in Corpus : Coordinate(cp) \/ Others(cp)
  \/ \E w \in Worker : Proceed(w) \/ Fail(w)
  \/ Time

PoolSpec == PoolInit /\ [][PoolNext]_pvars

(* The coordinator ticks, workers poll and finish what they hold, clocks    *)
(* run, and a killing text kills.  Nothing makes a mishap happen.           *)
FairPool ==
  /\ PoolSpec
  /\ \A cp \in Corpus : WF_pvars(Coordinate(cp))
  /\ \A w \in Worker : WF_pvars(Proceed(w))
  /\ \A w \in Worker : WF_pvars(~Survivable(w) /\ Crash(w))
  /\ WF_pvars(\E r \in rows : Expire(r))
  /\ WF_pvars(\E r \in rows : RetryDue(r))

-----------------------------------------------------------------------------
(* Properties *)

(* A chunk the store calls embedded has the vector of its current text: a   *)
(* crash, an outlived lease, a redelivery, a batch that failed half way or  *)
(* a second worker on the same chunk never leaves a stale or missing vector *)
(* behind an "ok".  The one window excepted is a rewrite of the chunk       *)
(* between a worker's read of it and that worker's mark (tainted).          *)
OkIsCurrent ==
  \A cp \in Corpus, c \in Chunk :
    LET row == chunk[cp][c]
    IN  row.live /\ row.status = "ok" /\ c \notin tainted[cp]
          => vec[cp][KindOf[row.text]][c] = row.text

(* Two deliveries whose leases are both still current never embed the same  *)
(* chunk of one axis: dedup, the document job of a representation and the   *)
(* lease together keep the work of a chunk in one pair of hands.            *)
NoDoubleWork ==
  \A v, w \in Worker : \A i \in At(v, {"embed", "mark"}), j \in At(w, {"embed", "mark"}) :
    /\ i.lease # j.lease
    /\ Delivered(i.lease) # {} /\ Delivered(j.lease) # {}
    /\ Serves[v] = Serves[w]
    => {t \in i.todo : \E u \in j.todo : u.chunk = t.chunk /\ KindOf[u.text] = KindOf[t.text]} = {}

(* A job that a worker's Nack dead-letters has left its chunks recorded as  *)
(* failed, or at least not pending, unless the store refused the record:    *)
(* otherwise the coordinator would mint a new job with a new budget, for    *)
(* ever.                                                                    *)
DeadLetterIsTerminal ==
  [][\A w \in Worker : \A it \in At(w, {"nack"}) :
       /\ it.lease.job.corpus = Serves[w]
       /\ Delivered(it.lease) # {}
       /\ \A r \in rows' : r.job # it.lease.job
       => \A c \in it.lease.job.chunks \ tainted[Serves[w]] :
            chunk[Serves[w]][c].status # "pending"]_pvars

(* A delivery of another corpus's job changes no store and does not settle  *)
(* the job: it goes back to the queue, or to the dead letters when the      *)
(* wrong worker burnt its last delivery.                                    *)
ForeignJobsReturned ==
  [][\A w \in Worker : \A it \in work[w] :
       /\ it.lease.job.corpus # Serves[w]
       /\ Delivered(it.lease) # {}
       /\ it \notin work'[w]
       => /\ UNCHANGED store
          /\ \/ it.lease.job \in dead'
             \/ \E r \in rows' : r.job = it.lease.job]_pvars

(* The window OkIsCurrent excepts, closed: an "ok" always means that the     *)
(* current text is what was embedded.                                       *)
NeverStale ==
  \A cp \in Corpus, c \in Chunk :
    LET row == chunk[cp][c]
    IN  row.live /\ row.status = "ok" => vec[cp][KindOf[row.text]][c] = row.text

(* The redelivery budget ends the attempts on a chunk that kills every      *)
(* worker it is given to: it is not leased again and again for ever.        *)
NotLeasedForever ==
  \A cp \in Corpus, c \in Chunk :
    <>[](\A r \in rows : r.job.corpus = cp /\ c \in r.job.chunks => r.age # "live")

(* Every pending chunk is settled in the end: embedded, failed, rewritten   *)
(* or tombstoned.                                                           *)
PendingSettles ==
  \A cp \in Corpus, c \in Chunk :
    (chunk[cp][c].live /\ chunk[cp][c].status = "pending")
      ~> ~(chunk[cp][c].live /\ chunk[cp][c].status = "pending")

=============================================================================
