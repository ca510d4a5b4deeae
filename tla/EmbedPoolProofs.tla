--------------------------- MODULE EmbedPoolProofs ---------------------------
(***************************************************************************)
(* Proofs about EmbedPool: the coordinator, the workers and the failures   *)
(* around them use the queue only through the Broker's operations, so the  *)
(* pool implements EmbedQueue and inherits what is proved there.           *)
(*                                                                         *)
(* The argument needs one fact about the workers that no single action     *)
(* shows: the lease a worker is about to settle is still its own (held,    *)
(* and in no other item of its own or of another worker).                  *)
(*                                                                         *)
(* The second half proves what the pool itself promises: one pair of hands *)
(* on a chunk, foreign jobs given back, dead letters that are terminal and *)
(* an "ok" that means the current text.  It rests on three descriptions of *)
(* a step: what it asks of the queue (StepUsesQueue), how it moves the     *)
(* items of a worker (ItemSteps) and how it changes a chunk (ChunkSteps).  *)
(***************************************************************************)
EXTENDS EmbedPool, EmbedQueueProofs

StoreOK ==
  /\ chunk \in [Corpus -> [Chunk -> [text : Text, status : Status, live : BOOLEAN]]]
  /\ vec \in [Corpus -> [Kind -> [Chunk -> Text \cup {NoText}]]]

CoordOK ==
  /\ page \in [Corpus -> SUBSET Task]
  /\ offer \in [Corpus -> SUBSET Job]

RestOK ==
  /\ evict \in [Corpus -> SUBSET Chunk]
  /\ mishaps \in 0..MaxMishaps
  /\ tainted \in [Corpus -> SUBSET Chunk]

WorkOK == work \in [Worker -> SUBSET Item]

LeasesHeld == \A w \in Worker : \A it \in work[w] : it.lease \in held

OneHolder ==
  \A v, w \in Worker : \A i \in work[v], j \in work[w] :
    i.lease = j.lease => v = w /\ i = j

Holding == WorkOK /\ LeasesHeld /\ OneHolder

PoolShape == StoreOK /\ CoordOK /\ RestOK /\ Holding

-----------------------------------------------------------------------------
(* How the items of one worker change *)

(* A batch as a worker may hold it, given what it held before.              *)
From(old, new) ==
  /\ new \subseteq Item
  /\ \A i \in new : \E o \in old : o.lease = i.lease
  /\ \A i, j \in new : i.lease = j.lease => i = j

(* A worker that keeps, moves or drops items of its own, and gives up only  *)
(* leases of its own it no longer lists, leaves every lease in one place.   *)
LEMMA WorkerStep ==
  ASSUME Holding, NEW w \in Worker, NEW new, NEW gone,
         From(work[w], new), work' = [work EXCEPT ![w] = new],
         held' = held \ gone,
         \A g \in gone : \E o \in work[w] : o.lease = g,
         \A i \in new : i.lease \notin gone
  PROVE  Holding'
  <1>1. /\ work'[w] = new
        /\ \A v \in Worker : v # w => work'[v] = work[v]
    BY DEF Holding, WorkOK
  <1>2. WorkOK'
    BY DEF Holding, WorkOK, From
  <1>3. LeasesHeld'
    <2>1. ASSUME NEW v \in Worker, NEW it \in work'[v]
          PROVE  it.lease \in held'
      <3>1. CASE v = w
        BY <1>1, <2>1, <3>1 DEF Holding, LeasesHeld, From
      <3>2. CASE v # w
        BY <1>1, <2>1, <3>2 DEF Holding, LeasesHeld, OneHolder
      <3>3. QED
        BY <3>1, <3>2
    <2>2. QED
      BY <2>1 DEF LeasesHeld
  <1>4. OneHolder'
    <2>1. ASSUME NEW u \in Worker, NEW v \in Worker,
                 NEW i \in work'[u], NEW j \in work'[v], i.lease = j.lease
          PROVE  u = v /\ i = j
      <3>1. CASE u = w /\ v = w
        BY <1>1, <2>1, <3>1 DEF From
      <3>2. CASE u # w /\ v # w
        BY <1>1, <2>1, <3>2 DEF Holding, OneHolder
      <3>3. CASE u = w /\ v # w
        BY <1>1, <2>1, <3>3 DEF Holding, OneHolder, From
      <3>4. CASE u # w /\ v = w
        BY <1>1, <2>1, <3>4 DEF Holding, OneHolder, From
      <3>5. QED
        BY <3>1, <3>2, <3>3, <3>4
    <2>2. QED
      BY <2>1 DEF OneHolder
  <1>5. QED
    BY <1>2, <1>3, <1>4 DEF Holding

(* Moving some of a worker's items to another stage, with fewer tasks       *)
(* perhaps, and dropping others, keeps the batch well formed.               *)
LEMMA MovedFrom ==
  ASSUME Holding, NEW w \in Worker, NEW kept \in SUBSET work[w],
         NEW moved \in SUBSET work[w], kept \cap moved = {}, NEW stage \in Stage
  PROVE  From(work[w], kept \cup Moved(moved, stage))
  <1>1. \A it \in work[w] : it \in Item
    BY DEF Holding, WorkOK
  <1>2. \A it \in moved : /\ [it EXCEPT !.stage = stage] \in Item
                          /\ [it EXCEPT !.stage = stage].lease = it.lease
    BY <1>1 DEF Item
  <1>3. \A i, j \in work[w] : i.lease = j.lease => i = j
    BY DEF Holding, OneHolder
  <1> DEFINE new == kept \cup Moved(moved, stage)
  <1>4. \A i \in new : \/ i \in kept
                       \/ \E it \in moved : i = [it EXCEPT !.stage = stage] /\ i.lease = it.lease
    BY <1>2 DEF Moved
  <1>5. new \subseteq Item
    BY <1>1, <1>2, <1>4
  <1>6. \A i \in new : \E o \in work[w] : o.lease = i.lease
    BY <1>4
  <1>7. ASSUME NEW i \in new, NEW j \in new, i.lease = j.lease
        PROVE  i = j
    <2>1. CASE i \in kept /\ j \in kept
      BY <1>3, <1>7, <2>1
    <2>2. CASE i \notin kept /\ j \notin kept
      BY <1>3, <1>4, <1>7, <2>2
    <2>3. CASE i \in kept /\ j \notin kept
      BY <1>3, <1>4, <1>7, <2>3
    <2>4. CASE i \notin kept /\ j \in kept
      BY <1>3, <1>4, <1>7, <2>4
    <2>5. QED
      BY <2>1, <2>2, <2>3, <2>4
  <1>8. QED
    BY <1>5, <1>6, <1>7 DEF From

-----------------------------------------------------------------------------
(* How the store changes *)

(* Recording an outcome changes the status of chunks and nothing else.      *)
LEMMA StatusStep ==
  ASSUME StoreOK, NEW cp \in Corpus, NEW cs, NEW status \in Status,
         SetStatus(cp, cs, status), vec' = vec
  PROVE  StoreOK'
  <1> DEFINE row == [text : Text, status : Status, live : BOOLEAN]
             new == [c \in Chunk |-> IF c \in cs THEN [chunk[cp][c] EXCEPT !.status = status]
                                               ELSE chunk[cp][c]]
  <1>1. chunk' = [chunk EXCEPT ![cp] = new]
    BY DEF SetStatus
  <1>2. \A c \in Chunk : chunk[cp][c] \in row
    BY DEF StoreOK
  <1>3. new \in [Chunk -> row]
    BY <1>2
  <1> HIDE DEF new, row
  <1>4. chunk \in [Corpus -> [Chunk -> row]]
    BY DEF StoreOK, row
  <1>5. chunk' \in [Corpus -> [Chunk -> row]]
    BY <1>1, <1>3, <1>4
  <1>6. QED
    BY <1>5 DEF StoreOK, row

(* Writing vectors puts texts, and nothing else, into the index.            *)
LEMMA WrittenStep ==
  ASSUME StoreOK, NEW cp \in Corpus, NEW tasks \in SUBSET Task, Written(cp, tasks)
  PROVE  vec' \in [Corpus -> [Kind -> [Chunk -> Text \cup {NoText}]]]
  <1> DEFINE Hit(k, c) == \E t \in tasks : t.chunk = c /\ KindOf[t.text] = k
             Of(k, c) == (CHOOSE t \in tasks : t.chunk = c /\ KindOf[t.text] = k).text
  <1>1. ASSUME NEW k \in Kind, NEW c \in Chunk, Hit(k, c)
        PROVE  Of(k, c) \in Text
    <2>1. (CHOOSE t \in tasks : t.chunk = c /\ KindOf[t.text] = k) \in tasks
      BY <1>1
    <2>2. QED
      BY <2>1 DEF Task
  <1> HIDE DEF Of
  <1>2. vec' = [vec EXCEPT ![cp] = [k \in Kind |-> [c \in Chunk |->
                  IF Hit(k, c) THEN Of(k, c) ELSE @[k][c]]]]
    BY DEF Written, Of
  <1>3. QED
    BY <1>1, <1>2 DEF StoreOK

(* The tasks a worker's items still have to embed are tasks.                *)
LEMMA TodoTasks ==
  ASSUME Holding, NEW w \in Worker, NEW E \in SUBSET work[w]
  PROVE  Todo(E) \in SUBSET Task
  BY DEF Holding, WorkOK, Item, Todo

-----------------------------------------------------------------------------
(* The coordinator *)

(* What the coordinator offers the broker is a job Validate accepts, and a  *)
(* job the broker already has leaves the queue alone.                       *)
LEMMA SendStep ==
  ASSUME NEW j \in Job, SendJob(j)
  PROVE  [QNext]_qvars /\ held' = held
  BY DEF SendJob, Enqueue, QNext, qvars

(* The jobs of pending tasks are well formed.                               *)
LEMMA JobsOK ==
  ASSUME NEW cp \in Corpus
  PROVE  /\ \A t \in Task : ChunkJob(cp, t) \in Job
         /\ \A r \in Rep, k \in Kind, tasks \in SUBSET Task :
              DocumentJob(cp, r, k, tasks) \in SUBSET Job
  <1>1. ASSUME NEW t \in Task
        PROVE  ChunkJob(cp, t) \in Job
    BY PoolAssumption DEF ChunkJob, Job, Task
  <1>2. ASSUME NEW r \in Rep, NEW k \in Kind, NEW tasks \in SUBSET Task,
               NEW j \in DocumentJob(cp, r, k, tasks)
        PROVE  j \in Job
    <2>1. PICK first \in tasks :
            j = [corpus |-> cp, kind |-> k, rep |-> r, chunk |-> first.chunk,
                 chunks |-> Chunks(tasks), text |-> first.text]
      BY DEF DocumentJob
    <2>2. first.chunk \in Chunks(tasks) /\ Chunks(tasks) \in SUBSET Chunk
      BY DEF Chunks, Task
    <2>3. r # NoRep
      BY QueueAssumption
    <2>4. QED
      BY <2>1, <2>2, <2>3 DEF Job, Task
  <1>3. QED
    BY <1>1, <1>2

(* Every step of a coordinator is an Enqueue, or leaves the queue alone.    *)
LEMMA CoordinateStep ==
  ASSUME PoolShape, NEW cp \in Corpus, Coordinate(cp)
  PROVE  [QNext]_qvars /\ PoolShape'
  <1>1. ASSUME UNCHANGED <<store, work, evict, mishaps, tainted>>, held' = held
        PROVE  StoreOK' /\ RestOK' /\ Holding'
    BY <1>1 DEF PoolShape, StoreOK, RestOK, Holding, WorkOK, LeasesHeld, OneHolder, store
  <1>2. CASE ReadPage(cp)
    <2>1. Pending(cp) \in SUBSET Task
      BY DEF Pending
    <2>2. CoordOK'
      BY <1>2, <2>1 DEF ReadPage, PoolShape, CoordOK
    <2>3. QED
      BY <1>1, <1>2, <2>2 DEF ReadPage, PoolShape, qvars
  <1>3. CASE \E t \in page[cp] : SendChunk(cp, t)
    <2>1. PICK t \in page[cp] : SendChunk(cp, t)
      BY <1>3
    <2>2. t \in Task
      BY DEF PoolShape, CoordOK
    <2>3. [QNext]_qvars /\ held' = held
      BY <2>1, <2>2, JobsOK, SendStep DEF SendChunk
    <2>4. CoordOK'
      BY <2>1 DEF SendChunk, PoolShape, CoordOK
    <2>5. QED
      BY <1>1, <2>1, <2>3, <2>4 DEF SendChunk, PoolShape
  <1>4. CASE \E t \in page[cp] : BuildDocument(cp, t)
    <2>1. PICK t \in page[cp] : BuildDocument(cp, t)
      BY <1>4
    <2> DEFINE fresh == RepPending(cp, RepOf[t.chunk], KindOf[t.text])
    <2>2. t.chunk \in Chunk /\ t.text \in Text /\ RepOf[t.chunk] # NoRep
      BY <2>1 DEF PoolShape, CoordOK, Task, BuildDocument
    <2>3. RepOf[t.chunk] \in Rep /\ KindOf[t.text] \in Kind
      BY <2>2, PoolAssumption
    <2>4. fresh \in SUBSET Task
      BY DEF RepPending, Pending
    <2>5. DocumentJob(cp, RepOf[t.chunk], KindOf[t.text], fresh) \in SUBSET Job
      BY <2>3, <2>4, JobsOK
    <2>6. CoordOK'
      BY <2>1, <2>5 DEF BuildDocument, PoolShape, CoordOK
    <2>7. QED
      BY <1>1, <2>1, <2>6 DEF BuildDocument, PoolShape, qvars
  <1>5. CASE \E j \in offer[cp] : SendDocument(cp, j)
    <2>1. PICK j \in offer[cp] : SendDocument(cp, j)
      BY <1>5
    <2>2. j \in Job
      BY DEF PoolShape, CoordOK
    <2>3. [QNext]_qvars /\ held' = held
      BY <2>1, <2>2, SendStep DEF SendDocument
    <2>4. CoordOK'
      BY <2>1 DEF SendDocument, PoolShape, CoordOK
    <2>5. QED
      BY <1>1, <2>1, <2>3, <2>4 DEF SendDocument, PoolShape
  <1>6. QED
    BY <1>2, <1>3, <1>4, <1>5 DEF Coordinate

-----------------------------------------------------------------------------
(* Ingest, retry, queries and the clocks *)

(* The actors beside the pool change the store and never touch the queue.   *)
LEMMA OthersStep ==
  ASSUME PoolShape, NEW cp \in Corpus, Others(cp)
  PROVE  [QNext]_qvars /\ PoolShape'
  <1>0. ASSUME UNCHANGED <<qvars, work>>
        PROVE  [QNext]_qvars /\ Holding'
    BY <1>0 DEF PoolShape, Holding, WorkOK, LeasesHeld, OneHolder, qvars
  <1>1. ASSUME UNCHANGED <<qvars, work, coord>>
        PROVE  [QNext]_qvars /\ CoordOK' /\ Holding'
    BY <1>0, <1>1 DEF PoolShape, CoordOK, coord
  <1>2. CASE \E c \in Chunk, text \in Text, status \in BornStatus : Reingest(cp, c, text, status)
    <2>1. PICK c \in Chunk, text \in Text, status \in Status : Reingest(cp, c, text, status)
      BY <1>2, PoolAssumption DEF Status
    <2>2. StoreOK'
      BY <2>1 DEF Reingest, PoolShape, StoreOK
    <2>3. RestOK'
      BY <2>1, PoolAssumption DEF Reingest, Mishap, PoolShape, RestOK
    <2>4. QED
      BY <1>1, <2>1, <2>2, <2>3 DEF Reingest, PoolShape
  <1>3. CASE \E c \in Chunk : Tombstone(cp, c)
    <2>1. PICK c \in Chunk : Tombstone(cp, c)
      BY <1>3
    <2>2. StoreOK'
      <3> DEFINE row == [text : Text, status : Status, live : BOOLEAN]
                 new == [chunk[cp][c] EXCEPT !.live = FALSE]
      <3>1. chunk \in [Corpus -> [Chunk -> row]]
        BY DEF PoolShape, StoreOK
      <3>2. new \in row
        <4>1. chunk[cp][c] \in row
          BY <3>1
        <4>2. QED
          BY <4>1
      <3>3. chunk' = [chunk EXCEPT ![cp] = [chunk[cp] EXCEPT ![c] = new]] /\ vec' = vec
        BY <2>1, <3>1 DEF Tombstone
      <3> HIDE DEF row, new
      <3>4. chunk' \in [Corpus -> [Chunk -> row]]
        BY <3>1, <3>2, <3>3
      <3>5. QED
        BY <3>3, <3>4 DEF PoolShape, StoreOK, row
    <2>3. RestOK'
      BY <2>1, PoolAssumption DEF Tombstone, Mishap, PoolShape, RestOK
    <2>4. QED
      BY <1>1, <2>1, <2>2, <2>3 DEF Tombstone, PoolShape
  <1>4. CASE RequeueFailedChunks(cp)
    <2>1. StoreOK'
      BY <1>4, StatusStep DEF RequeueFailedChunks, PoolShape, Status
    <2>2. RestOK'
      BY <1>4, PoolAssumption DEF RequeueFailedChunks, Mishap, PoolShape, RestOK
    <2>3. QED
      BY <1>1, <1>4, <2>1, <2>2 DEF RequeueFailedChunks, PoolShape
  <1>5. CASE FindTombstoned(cp)
    <2>1. StoreOK'
      BY <1>5 DEF FindTombstoned, PoolShape, StoreOK, store
    <2>2. RestOK'
      BY <1>5 DEF FindTombstoned, PoolShape, RestOK
    <2>3. QED
      BY <1>1, <1>5, <2>1, <2>2 DEF FindTombstoned, PoolShape
  <1>6. CASE EvictChunks(cp)
    <2>1. StoreOK'
      <3> DEFINE new == [k \in Kind |-> [c \in Chunk |->
                           IF c \in evict[cp] THEN NoText ELSE vec[cp][k][c]]]
      <3>1. vec' = [vec EXCEPT ![cp] = new] /\ chunk' = chunk
        BY <1>6 DEF EvictChunks
      <3>2. new \in [Kind -> [Chunk -> Text \cup {NoText}]]
        BY DEF PoolShape, StoreOK
      <3> HIDE DEF new
      <3>3. QED
        BY <3>1, <3>2 DEF PoolShape, StoreOK
    <2>2. RestOK'
      BY <1>6 DEF EvictChunks, PoolShape, RestOK
    <2>3. QED
      BY <1>1, <1>6, <2>1, <2>2 DEF EvictChunks, PoolShape
  <1>7. CASE PassFails(cp)
    <2>1. StoreOK' /\ CoordOK'
      BY <1>7 DEF PassFails, PoolShape, StoreOK, CoordOK, store
    <2>2. RestOK'
      BY <1>7, PoolAssumption DEF PassFails, Mishap, PoolShape, RestOK
    <2>3. QED
      BY <1>0, <1>7, <2>1, <2>2 DEF PassFails, PoolShape
  <1>8. QED
    BY <1>2, <1>3, <1>4, <1>5, <1>6, <1>7 DEF Others

(* Deadlines and delays passing are steps of the queue's environment.       *)
LEMMA TimeStep ==
  ASSUME PoolShape, Time
  PROVE  [QNext]_qvars /\ PoolShape'
  <1>1. PICK r \in rows : Outlive(r) \/ Expire(r) \/ RetryDue(r)
    BY DEF Time
  <1>2. [QNext]_qvars /\ held' = held
    BY <1>1 DEF Outlive, Expire, RetryDue, QNext, Age, WaitOver
  <1>3. mishaps' \in 0..MaxMishaps
    BY <1>1, PoolAssumption DEF Outlive, Expire, RetryDue, Mishap, PoolShape, RestOK
  <1>4. UNCHANGED <<store, work, coord, evict, tainted>>
    BY <1>1 DEF Outlive, Expire, RetryDue
  <1>5. StoreOK' /\ CoordOK' /\ RestOK'
    BY <1>3, <1>4 DEF PoolShape, StoreOK, CoordOK, RestOK, store, coord
  <1>6. Holding'
    BY <1>2, <1>4 DEF PoolShape, Holding, WorkOK, LeasesHeld, OneHolder
  <1>7. QED
    BY <1>2, <1>5, <1>6 DEF PoolShape

-----------------------------------------------------------------------------
(* The workers *)

(* A worker that moves some items of its batch on, keeps others, and gives  *)
(* up the leases of the rest.                                               *)
LEMMA MoveStep ==
  ASSUME Holding, NEW w \in Worker, NEW kept \in SUBSET work[w],
         NEW moved \in SUBSET work[w], kept \cap moved = {}, NEW stage \in Stage,
         work' = [work EXCEPT ![w] = kept \cup Moved(moved, stage)],
         held' = held \ {it.lease : it \in work[w] \ (kept \cup moved)}
           \/ held' = held
  PROVE  Holding'
  <1> DEFINE new == kept \cup Moved(moved, stage)
             gone == {it.lease : it \in work[w] \ (kept \cup moved)}
  <1>1. From(work[w], new)
    BY MovedFrom
  <1>2. CASE held' = held
    <2>1. held' = held \ {}
      BY <1>2
    <2>2. QED
      BY <1>1, <2>1, WorkerStep
  <1>3. CASE held' = held \ gone
    <2>1. \A i \in new : \E o \in kept \cup moved : o.lease = i.lease
      <3>1. \A it \in work[w] : it \in Item
        BY DEF Holding, WorkOK
      <3>2. QED
        BY <3>1 DEF Moved, Item
    <2>2. \A i \in new : i.lease \notin gone
      BY <2>1 DEF Holding, OneHolder
    <2>3. \A g \in gone : \E o \in work[w] : o.lease = g
      OBVIOUS
    <2> HIDE DEF new, gone
    <2>4. work' = [work EXCEPT ![w] = new]
      BY DEF new
    <2>5. QED
      BY <1>1, <1>3, <2>2, <2>3, <2>4, WorkerStep
  <1>4. QED
    BY <1>2, <1>3

(* What every worker step leaves alone.                                     *)
LEMMA WorkerFrame ==
  ASSUME PoolShape, UNCHANGED <<coord, evict, tainted>>, mishaps' = mishaps \/ Mishap
  PROVE  CoordOK' /\ RestOK'
  BY PoolAssumption DEF PoolShape, CoordOK, RestOK, coord, Mishap

(* Leasing is a Lease of the Broker, for the worker's corpus or unscoped,   *)
(* and the lease it returns is nobody else's.                               *)
LEMMA LeasingStep ==
  ASSUME TypeOK, QueueInv, TypeOK', PoolShape, NEW w \in Worker,
         LeaseNext(w) \/ LeaseEmpty(w) \/ DrainEnds(w)
  PROVE  [QNext]_qvars /\ PoolShape'
  <1>1. CoordOK' /\ RestOK' /\ StoreOK'
    <2>1. UNCHANGED <<store, coord, evict, mishaps, tainted>>
      BY DEF LeaseNext, LeaseEmpty, DrainEnds
    <2>2. StoreOK'
      BY <2>1 DEF PoolShape, StoreOK, store
    <2>3. QED
      BY <2>1, <2>2, WorkerFrame
  <1>2. Scope(w) \in Corpus \cup {AnyCorpus}
    BY PoolAssumption DEF Scope
  <1>3. "queued" \in Stage /\ "leased" \in Stage
    BY DEF Stage
  <1>4. CASE LeaseEmpty(w) \/ DrainEnds(w)
    <2>1. work' = [work EXCEPT ![w] = {} \cup Moved(work[w], "queued")]
      BY <1>4 DEF LeaseEmpty, DrainEnds
    <2>2. [QNext]_qvars /\ held' = held
      BY <1>2, <1>4 DEF LeaseEmpty, DrainEnds, LeaseNoJob, QNext, qvars
    <2>3. Holding'
      BY <1>3, <2>1, <2>2, MoveStep DEF PoolShape
    <2>4. QED
      BY <1>1, <2>2, <2>3 DEF PoolShape
  <1>5. CASE LeaseNext(w)
    <2>1. PICK t \in Token : LeaseForCorpus(Scope(w), t)
      BY <1>5 DEF LeaseNext
    <2>2. PICK r \in Reclaimed : FreshToken(t) /\ held' =
            held \cup {[job |-> r.job, token |-> t, attempts |-> r.attempts + 1]}
      BY <2>1 DEF LeaseForCorpus, LeaseRow
    <2> DEFINE l == [job |-> r.job, token |-> t, attempts |-> r.attempts + 1]
               got == [lease |-> l, stage |-> "leased", todo |-> {}]
               batch == work[w] \cup {got}
    <2>3. l \notin held /\ l \in Lease
      BY <2>2 DEF FreshToken, TypeOK
    <2>4. {[lease |-> m, stage |-> "leased", todo |-> {}] : m \in held' \ held} = {got}
      BY <2>2, <2>3
    <2>5. work' = [work EXCEPT ![w] = batch] \/ work' = [work EXCEPT ![w] = Moved(batch, "queued")]
      BY <1>5, <2>4 DEF LeaseNext
    <2>6. got \in Item /\ got.lease = l
      BY <1>3, <2>3 DEF Item
    <2> HIDE DEF l, got
    <2>7. \A v \in Worker : \A it \in work[v] : it \in Item /\ it.lease \in held /\ it.lease # l
      BY <2>3 DEF PoolShape, Holding, WorkOK, LeasesHeld
    <2>8. held' = held \cup {l}
      BY <2>2 DEF l
    <2>9. \A i, j \in batch : i.lease = j.lease => i = j
      BY <2>6, <2>7 DEF PoolShape, Holding, OneHolder
    <2> DEFINE Mine(i) == i \in Item /\ \E o \in batch : o.lease = i.lease
    <2>10. /\ \A i \in work'[w] : Mine(i)
           /\ \A i, j \in work'[w] : i.lease = j.lease => i = j
      <3>1. w \in DOMAIN work
        BY DEF PoolShape, Holding, WorkOK
      <3>2. CASE work'[w] = batch
        BY <2>6, <2>7, <2>9, <3>2
      <3>3. CASE work'[w] = Moved(batch, "queued")
        <4>1. \A o \in batch : /\ [o EXCEPT !.stage = "queued"] \in Item
                               /\ [o EXCEPT !.stage = "queued"].lease = o.lease
          <5>1. \A o \in batch : o \in Item
            BY <2>6, <2>7
          <5>2. QED
            BY <1>3, <5>1 DEF Item
        <4>2. \A i \in work'[w] : \E o \in batch :
                i = [o EXCEPT !.stage = "queued"] /\ i.lease = o.lease /\ i \in Item
          BY <3>3, <4>1 DEF Moved
        <4>3. QED
          BY <2>9, <4>2
      <3>4. QED
        BY <2>5, <3>1, <3>2, <3>3
    <2>11. \A v \in Worker : v # w => work'[v] = work[v]
      BY <2>5 DEF PoolShape, Holding, WorkOK
    <2>12. WorkOK'
      BY <2>5, <2>10 DEF PoolShape, Holding, WorkOK
    <2>13. LeasesHeld'
      BY <2>6, <2>7, <2>8, <2>10, <2>11 DEF LeasesHeld
    <2>14. OneHolder'
      <3>1. ASSUME NEW u \in Worker, NEW v \in Worker,
                   NEW i \in work'[u], NEW j \in work'[v], i.lease = j.lease
            PROVE  u = v /\ i = j
        <4>1. CASE u = w /\ v = w
          BY <2>10, <3>1, <4>1
        <4>2. CASE u # w /\ v # w
          BY <2>11, <3>1, <4>2 DEF PoolShape, Holding, OneHolder
        <4>3. CASE u = w /\ v # w
          BY <2>6, <2>7, <2>10, <2>11, <3>1, <4>3 DEF PoolShape, Holding, OneHolder
        <4>4. CASE u # w /\ v = w
          BY <2>6, <2>7, <2>10, <2>11, <3>1, <4>4 DEF PoolShape, Holding, OneHolder
        <4>5. QED
          BY <4>1, <4>2, <4>3, <4>4
      <3>2. QED
        BY <3>1 DEF OneHolder
    <2>15. QNext
      BY <1>2, <2>1 DEF QNext
    <2>16. QED
      BY <1>1, <2>12, <2>13, <2>14, <2>15 DEF PoolShape, Holding
  <1>6. QED
    BY <1>4, <1>5

(* The gates only decide the stage of one item and read the store.          *)
LEMMA PrepareStep ==
  ASSUME PoolShape, NEW w \in Worker, NEW it \in work[w],
         Prepare(w, it) \/ FetchFails(w, it)
  PROVE  [QNext]_qvars /\ PoolShape'
  <1>1. /\ UNCHANGED <<qvars, store, coord, evict, tainted>>
        /\ mishaps' = mishaps \/ Mishap
    BY DEF Prepare, FetchFails
  <1>2. CoordOK' /\ RestOK' /\ StoreOK'
    BY <1>1, WorkerFrame DEF PoolShape, StoreOK, store
  <1>3. it \in Item
    BY DEF PoolShape, Holding, WorkOK
  <1>4. PICK new \in Item : new.lease = it.lease /\ work' = [work EXCEPT ![w] = (@ \ {it}) \cup {new}]
    <2>1. CASE Prepare(w, it)
      <3> DEFINE tasks == {t \in Fetched(w, it.lease.job) : Current(it.lease.job, t)}
                 stage == Verdict(w, it.lease.job, tasks)
                 todo == IF stage = "ready" THEN tasks ELSE {}
                 new == [it EXCEPT !.stage = stage, !.todo = todo]
      <3>1. it.lease.job.chunks \in SUBSET Chunk
        BY <1>3 DEF Item, Lease, Job
      <3>2. Fetched(w, it.lease.job) \in SUBSET Task
        BY <3>1, PoolAssumption DEF Fetched, Task, PoolShape, StoreOK
      <3>3. stage \in Stage
        BY DEF Verdict, Stage
      <3>4. todo \in SUBSET Task
        BY <3>2
      <3> HIDE DEF tasks, stage, todo
      <3>5. new \in Item /\ new.lease = it.lease
        BY <1>3, <3>3, <3>4 DEF Item
      <3>6. work' = [work EXCEPT ![w] = (@ \ {it}) \cup {new}]
        BY <2>1 DEF Prepare, tasks, stage, todo
      <3>7. QED
        BY <3>5, <3>6
    <2>2. CASE FetchFails(w, it)
      <3> DEFINE new == [it EXCEPT !.stage = "reject"]
      <3>1. new \in Item /\ new.lease = it.lease
        BY <1>3 DEF Item, Stage
      <3>2. Moved({it}, "reject") = {new}
        BY DEF Moved
      <3>3. work' = [work EXCEPT ![w] = (@ \ {it}) \cup {new}]
        BY <2>2, <3>2 DEF FetchFails
      <3>4. QED
        BY <3>1, <3>3
    <2>3. QED
      BY <2>1, <2>2
  <1>5. From(work[w], (work[w] \ {it}) \cup {new})
    <2>1. /\ \A i \in work[w] : i \in Item
          /\ \A i, j \in work[w] : i.lease = j.lease => i = j
      BY DEF PoolShape, Holding, WorkOK, OneHolder
    <2>2. \A i \in work[w] \ {it} : i.lease # new.lease
      BY <1>4, <2>1
    <2>3. QED
      BY <1>4, <2>1, <2>2 DEF From
  <1>6. held' = held \ {}
    BY <1>1 DEF qvars
  <1>7. Holding'
    <2> DEFINE batch == (work[w] \ {it}) \cup {new}
               gone == {}
    <2>1. work' = [work EXCEPT ![w] = batch] /\ From(work[w], batch) /\ held' = held \ gone
      BY <1>4, <1>5, <1>6
    <2>2. \A g \in gone : \E o \in work[w] : o.lease = g
      OBVIOUS
    <2>3. \A i \in batch : i.lease \notin gone
      OBVIOUS
    <2> HIDE DEF batch, gone
    <2>4. QED
      BY <2>1, <2>2, <2>3, WorkerStep DEF PoolShape
  <1>8. QED
    BY <1>1, <1>2, <1>7 DEF PoolShape

(* Embedding, writing and marking leave the queue alone, except that jobs   *)
(* whose lease has run out are let go.                                      *)
LEMMA EmbedStep ==
  ASSUME PoolShape, NEW w \in Worker, Embed(w)
  PROVE  [QNext]_qvars /\ PoolShape'
  <1>0. {"embed", "mark", "ack", "reject", "nack", "solo"} \subseteq Stage /\ "ok" \in Status
    BY DEF Stage, Status
  <1>1. CASE \E k \in Kind : EmbedGroup(w, k)
    <2>1. PICK k \in Kind : EmbedGroup(w, k)
      BY <1>1
    <2> DEFINE group == {it \in At(w, {"ready"}) : it.lease.job.kind = k}
               live == {it \in group : InTime(it.lease)}
               kept == work[w] \ group
    <2>2. /\ work' = [work EXCEPT ![w] = kept \cup Moved(live, "embed")]
          /\ Forget({it.lease : it \in group \ live})
          /\ UNCHANGED <<store, coord, evict, mishaps, tainted>>
      BY <2>1 DEF EmbedGroup
    <2>3. group \subseteq work[w]
      BY DEF At
    <2> HIDE DEF group
    <2>4. group \ live = work[w] \ (kept \cup live)
      BY <2>3
    <2>5. held' = held \ {it.lease : it \in work[w] \ (kept \cup live)}
      BY <2>2, <2>4 DEF Forget
    <2>6. kept \in SUBSET work[w] /\ live \in SUBSET work[w] /\ kept \cap live = {}
      BY <2>3
    <2>7. Holding'
      BY <1>0, <2>2, <2>5, <2>6, MoveStep DEF PoolShape
    <2>8. QNext
      <3>1. {it.lease : it \in group \ live} \in SUBSET held
        BY <2>3 DEF PoolShape, Holding, LeasesHeld
      <3>2. QED
        BY <2>2, <3>1 DEF QNext
    <2>9. CoordOK' /\ RestOK' /\ StoreOK'
      BY <2>2, WorkerFrame DEF PoolShape, StoreOK, store
    <2>10. QED
      BY <2>7, <2>8, <2>9 DEF PoolShape
  <1>2. CASE \E it \in work[w] : EmbedOne(w, it)
    <2>1. PICK it \in work[w] : EmbedOne(w, it)
      BY <1>2
    <2>2. work' = [work EXCEPT ![w] = (work[w] \ {it}) \cup Moved({it}, "embed")]
      BY <2>1 DEF EmbedOne
    <2>3. held' = held
      BY <2>1 DEF EmbedOne, qvars
    <2>4. Holding'
      BY <1>0, <2>2, <2>3, MoveStep DEF PoolShape
    <2>5. CoordOK' /\ RestOK' /\ StoreOK'
      BY <2>1, WorkerFrame DEF EmbedOne, PoolShape, StoreOK, store
    <2>6. QED
      BY <2>1, <2>4, <2>5 DEF EmbedOne, PoolShape
  <1>3. CASE WriteVectors(w) \/ Mark(w)
    <2>1. \A stages : At(w, stages) \in SUBSET work[w]
      BY DEF At
    <2>2. PICK E \in SUBSET work[w] :
            \/ /\ Written(Serves[w], Todo(E)) /\ UNCHANGED chunk
               /\ work' = [work EXCEPT ![w] = (work[w] \ E) \cup Moved(E, "mark")]
            \/ /\ SetStatus(Serves[w], Chunks(Todo(E)), "ok") /\ UNCHANGED vec
               /\ work' = [work EXCEPT ![w] = (work[w] \ E) \cup Moved(E, "ack")]
      <3>1. CASE WriteVectors(w)
        BY <2>1, <3>1 DEF WriteVectors
      <3>2. CASE Mark(w)
        BY <2>1, <3>2 DEF Mark
      <3>3. QED
        BY <1>3, <3>1, <3>2
    <2>3. UNCHANGED <<qvars, coord, evict, mishaps, tainted>>
      BY <1>3 DEF WriteVectors, Mark
    <2>4. Holding'
      <3>1. held' = held
        BY <2>3 DEF qvars
      <3>2. QED
        BY <1>0, <2>2, <3>1, MoveStep DEF PoolShape
    <2>5. Serves[w] \in Corpus /\ Todo(E) \in SUBSET Task
      BY TodoTasks, PoolAssumption DEF PoolShape
    <2>6. StoreOK'
      <3>1. CASE Written(Serves[w], Todo(E)) /\ UNCHANGED chunk
        BY <2>5, <3>1, WrittenStep DEF PoolShape, StoreOK
      <3>2. CASE SetStatus(Serves[w], Chunks(Todo(E)), "ok") /\ UNCHANGED vec
        BY <1>0, <2>5, <3>2, StatusStep DEF PoolShape
      <3>3. QED
        BY <2>2, <3>1, <3>2
    <2>7. CoordOK' /\ RestOK'
      BY <2>3, WorkerFrame
    <2>8. QED
      BY <2>3, <2>4, <2>6, <2>7 DEF PoolShape
  <1>4. QED
    BY <1>1, <1>2, <1>3 DEF Embed

(* Items with some of their tasks taken out are the same deliveries.        *)
LEMMA RestFrom ==
  ASSUME Holding, NEW w \in Worker, NEW E \in SUBSET work[w], NEW bad
  PROVE  /\ From(work[w], (work[w] \ E) \cup Without(E, bad))
         /\ From(work[w], (work[w] \ E) \cup Moved(Without(E, bad), "ack"))
  <1> DEFINE rest == Without(E, bad)
             Out(it) == [it EXCEPT !.todo = {t \in @ : t \notin bad}]
             Gone(it) == [Out(it) EXCEPT !.stage = "ack"]
  <1>1. /\ \A i \in work[w] : i \in Item
        /\ \A i, j \in work[w] : i.lease = j.lease => i = j
    BY DEF Holding, WorkOK, OneHolder
  <1>2. \A it \in E : /\ Out(it) \in Item /\ Out(it).lease = it.lease
                      /\ Gone(it) \in Item /\ Gone(it).lease = it.lease
    <2>1. ASSUME NEW it \in E
          PROVE  /\ Out(it) \in Item /\ Out(it).lease = it.lease
                 /\ Gone(it) \in Item /\ Gone(it).lease = it.lease
      <3>1. it \in Item
        BY <1>1
      <3>2. {t \in it.todo : t \notin bad} \in SUBSET Task
        BY <3>1 DEF Item
      <3>3. QED
        BY <3>1, <3>2 DEF Item, Stage
    <2>2. QED
      BY <2>1
  <1>3. rest = {Out(it) : it \in E}
    BY DEF Without
  <1> HIDE DEF Out
  <1>4. Moved(rest, "ack") = {Gone(it) : it \in E}
    BY <1>3 DEF Moved
  <1> HIDE DEF Gone
  <1>5. ASSUME NEW items,
               \/ \A i \in items : \E it \in E : i = Out(it)
               \/ \A i \in items : \E it \in E : i = Gone(it)
        PROVE  From(work[w], (work[w] \ E) \cup items)
    <2>1. \A i \in items : \E it \in E : i \in Item /\ i.lease = it.lease
      BY <1>2, <1>5
    <2>2. ASSUME NEW i \in items, NEW j \in items, i.lease = j.lease
          PROVE  i = j
      <3>1. CASE \A k \in items : \E it \in E : k = Out(it)
        BY <1>1, <1>2, <2>2, <3>1
      <3>2. CASE \A k \in items : \E it \in E : k = Gone(it)
        BY <1>1, <1>2, <2>2, <3>2
      <3>3. QED
        BY <1>5, <3>1, <3>2
    <2>3. \A i \in work[w] \ E, j \in items : i.lease # j.lease
      BY <1>1, <2>1
    <2>4. QED
      BY <1>1, <2>1, <2>2, <2>3 DEF From
  <1>6. QED
    BY <1>3, <1>4, <1>5

(* A failed call isolates or rejects the batch and records at most          *)
(* statuses and vectors.                                                    *)
LEMMA EmbedFailStep ==
  ASSUME PoolShape, NEW w \in Worker,
         \/ \E stage \in {"embed", "mark"} : CallFails(w, stage)
         \/ EmbedRefused(w)
         \/ \E bad \in SUBSET Todo(At(w, {"embed"})) : DropInputs(w, bad)
         \/ \E done \in SUBSET Todo(At(w, {"embed"})), refused \in Todo(At(w, {"embed"})) :
              IndexFails(w, done, refused)
  PROVE  [QNext]_qvars /\ PoolShape'
  <1>1. UNCHANGED <<qvars, coord, evict, tainted>> /\ Mishap
    BY DEF CallFails, EmbedRefused, DropInputs, IndexFails
  <1>2. CoordOK' /\ RestOK'
    BY <1>1, WorkerFrame
  <1>3. held' = held /\ [QNext]_qvars
    BY <1>1 DEF qvars
  <1>4. \A stages : At(w, stages) \in SUBSET work[w]
    BY DEF At
  <1>5. Serves[w] \in Corpus
    BY PoolAssumption
  <1>6. "error" \in Status /\ "ok" \in Status
    BY DEF Status
  <1>7. ASSUME NEW E \in SUBSET work[w],
               work' = [work EXCEPT ![w] = (work[w] \ E) \cup Isolated(E)]
        PROVE  Holding'
    <2>1. PICK stage \in Stage : Isolated(E) = Moved(E, stage)
      BY DEF Isolated, Stage
    <2> DEFINE kept == work[w] \ E
    <2>2. kept \in SUBSET work[w] /\ kept \cap E = {}
      OBVIOUS
    <2>3. work' = [work EXCEPT ![w] = kept \cup Moved(E, stage)]
      BY <1>7, <2>1
    <2> HIDE DEF kept
    <2>4. QED
      BY <1>3, <2>2, <2>3, MoveStep DEF PoolShape
  <1>8. CASE \E stage \in {"embed", "mark"} : CallFails(w, stage)
    <2>1. PICK stage \in {"embed", "mark"} : CallFails(w, stage)
      BY <1>8
    <2>2. Holding'
      BY <1>4, <1>7, <2>1 DEF CallFails
    <2>3. StoreOK'
      BY <2>1 DEF CallFails, PoolShape, StoreOK, store
    <2>4. QED
      BY <1>2, <1>3, <2>2, <2>3 DEF PoolShape
  <1>9. CASE EmbedRefused(w)
    <2>1. Holding'
      BY <1>4, <1>7, <1>9 DEF EmbedRefused
    <2>2. StoreOK'
      BY <1>5, <1>6, <1>9, StatusStep DEF EmbedRefused, PoolShape
    <2>3. QED
      BY <1>2, <1>3, <2>1, <2>2 DEF PoolShape
  <1>10. CASE \E bad \in SUBSET Todo(At(w, {"embed"})) : DropInputs(w, bad)
    <2>1. PICK bad : DropInputs(w, bad)
      BY <1>10
    <2> DEFINE E == At(w, {"embed"})
               rest == Without(E, bad)
    <2>2. PICK new \in {rest, Moved(rest, "ack")} :
            work' = [work EXCEPT ![w] = (work[w] \ E) \cup new]
      BY <2>1 DEF DropInputs
    <2>3. E \in SUBSET work[w]
      BY <1>4
    <2>4. From(work[w], (work[w] \ E) \cup new)
      BY <2>2, <2>3, RestFrom DEF PoolShape
    <2>5. Holding'
      <3> DEFINE batch == (work[w] \ E) \cup new
                 gone == {}
      <3>1. work' = [work EXCEPT ![w] = batch] /\ From(work[w], batch) /\ held' = held \ gone
        BY <1>3, <2>2, <2>4
      <3>2. \A g \in gone : \E o \in work[w] : o.lease = g
        OBVIOUS
      <3>3. \A i \in batch : i.lease \notin gone
        OBVIOUS
      <3> HIDE DEF batch, gone
      <3>4. QED
        BY <3>1, <3>2, <3>3, WorkerStep DEF PoolShape
    <2>6. StoreOK'
      <3>1. CASE SetStatus(Serves[w], Chunks(bad), "error")
        BY <1>5, <1>6, <2>1, <3>1, StatusStep DEF DropInputs, PoolShape
      <3>2. CASE UNCHANGED chunk
        BY <2>1, <3>2 DEF DropInputs, PoolShape, StoreOK
      <3>3. QED
        BY <2>1, <3>1, <3>2 DEF DropInputs
    <2>7. QED
      BY <1>2, <1>3, <2>5, <2>6 DEF PoolShape
  <1>11. CASE \E done \in SUBSET Todo(At(w, {"embed"})), refused \in Todo(At(w, {"embed"})) :
                IndexFails(w, done, refused)
    <2>1. PICK done, refused : IndexFails(w, done, refused)
      BY <1>11
    <2>2. Holding'
      BY <1>4, <1>7, <2>1 DEF IndexFails
    <2>3. done \in SUBSET Task
      BY <1>4, <2>1, TodoTasks DEF IndexFails, PoolShape
    <2>4. vec' \in [Corpus -> [Kind -> [Chunk -> Text \cup {NoText}]]]
      BY <1>5, <2>1, <2>3, WrittenStep DEF IndexFails, PoolShape
    <2> DEFINE row == [text : Text, status : Status, live : BOOLEAN]
               table == chunk[Serves[w]]
               marked == [c \in Chunk |-> IF c \in Chunks(done) THEN [table[c] EXCEPT !.status = "ok"]
                                                              ELSE table[c]]
               refusal == [c \in Chunk |->
                 IF c = refused.chunk THEN [table[c] EXCEPT !.status = "error"]
                 ELSE IF c \in Chunks(done) THEN [table[c] EXCEPT !.status = "ok"] ELSE table[c]]
    <2>5. \/ chunk' = [chunk EXCEPT ![Serves[w]] = marked]
          \/ chunk' = [chunk EXCEPT ![Serves[w]] = refusal]
      BY <2>1 DEF IndexFails, SetStatus
    <2>6. \A c \in Chunk : table[c] \in row
      BY <1>5 DEF PoolShape, StoreOK
    <2>7. \A c \in Chunk : /\ [table[c] EXCEPT !.status = "ok"] \in row
                           /\ [table[c] EXCEPT !.status = "error"] \in row
      BY <1>6, <2>6
    <2>8. marked \in [Chunk -> row] /\ refusal \in [Chunk -> row]
      <3> HIDE DEF row, table
      <3>1. QED
        BY <2>6, <2>7
    <2> HIDE DEF marked, refusal, row
    <2>9. chunk \in [Corpus -> [Chunk -> row]]
      BY DEF PoolShape, StoreOK, row
    <2>10. chunk' \in [Corpus -> [Chunk -> row]]
      BY <2>5, <2>8, <2>9
    <2>11. QED
      BY <1>2, <1>3, <2>2, <2>4, <2>10 DEF PoolShape, StoreOK, row
  <1>12. QED
    BY <1>8, <1>9, <1>10, <1>11

(* Settling goes through the broker with a lease the worker holds; a crash  *)
(* drops every lease of the worker.                                         *)
LEMMA SettleStep ==
  ASSUME PoolShape, NEW w \in Worker,
         \/ Settle(w) \/ Crash(w)
         \/ \E it \in work[w] : FailChunkFails(w, it) \/ SettleFails(w, it)
  PROVE  [QNext]_qvars /\ PoolShape'
  <1>1. /\ UNCHANGED <<vec, coord, evict, tainted>>
        /\ mishaps' = mishaps \/ Mishap
    BY DEF Settle, AckItem, Reject, NackItem, FailChunkFails, SettleFails, Crash, store
  <1>2. CoordOK' /\ RestOK'
    BY <1>1, WorkerFrame
  <1>3. \A it \in work[w] : it.lease \in held /\ it \in Item
    BY DEF PoolShape, Holding, LeasesHeld, WorkOK
  <1>4. ASSUME NEW it \in work[w], AckItem(w, it) \/ NackItem(w, it) \/ SettleFails(w, it)
        PROVE  [QNext]_qvars /\ PoolShape'
    <2>1. QNext /\ held' = held \ {it.lease}
      <3>1. CASE AckItem(w, it)
        BY <1>3, <3>1 DEF AckItem, Ack, QNext
      <3>2. CASE NackItem(w, it)
        BY <1>3, <3>2 DEF NackItem, Nack, QNext
      <3>3. CASE SettleFails(w, it)
        <4>1. {it.lease} \in SUBSET held
          BY <1>3
        <4>2. QED
          BY <3>3, <4>1 DEF SettleFails, Forget, QNext
      <3>4. QED
        BY <1>4, <3>1, <3>2, <3>3
    <2>2. work' = [work EXCEPT ![w] = work[w] \ {it}] /\ chunk' = chunk
      BY <1>4 DEF AckItem, NackItem, SettleFails, store
    <2>3. From(work[w], work[w] \ {it})
      BY DEF From, PoolShape, Holding, WorkOK, OneHolder
    <2>4. \A i \in work[w] \ {it} : i.lease \notin {it.lease}
      BY DEF PoolShape, Holding, OneHolder
    <2>5. Holding'
      BY <2>1, <2>2, <2>3, <2>4, WorkerStep DEF PoolShape
    <2>6. QED
      BY <1>1, <1>2, <2>1, <2>2, <2>5 DEF PoolShape, StoreOK
  <1>5. ASSUME NEW it \in work[w], Reject(w, it) \/ FailChunkFails(w, it)
        PROVE  [QNext]_qvars /\ PoolShape'
    <2> DEFINE kept == work[w] \ {it}
    <2>1. PICK stage \in {"nack", "unrecorded"} :
            work' = [work EXCEPT ![w] = kept \cup Moved({it}, stage)] /\ held' = held
      BY <1>5 DEF Reject, FailChunkFails, qvars
    <2>2. kept \in SUBSET work[w] /\ {it} \in SUBSET work[w] /\ kept \cap {it} = {} /\ stage \in Stage
      BY DEF Stage
    <2> HIDE DEF kept
    <2>3. Holding'
      BY <2>1, <2>2, MoveStep DEF PoolShape
    <2>4. Serves[w] \in Corpus /\ "error" \in Status
      BY PoolAssumption DEF Status
    <2>5. StoreOK'
      <3>1. CASE SetStatus(Serves[w], it.lease.job.chunks, "error")
        BY <1>1, <2>4, <3>1, StatusStep DEF PoolShape
      <3>2. CASE UNCHANGED chunk
        BY <1>1, <3>2 DEF PoolShape, StoreOK
      <3>3. QED
        BY <1>5, <3>1, <3>2 DEF Reject, FailChunkFails, store
    <2>6. QED
      BY <1>2, <1>5, <2>3, <2>5 DEF Reject, FailChunkFails, PoolShape
  <1>6. CASE Crash(w)
    <2> DEFINE gone == {it.lease : it \in work[w]}
    <2>1. gone \in SUBSET held
      BY <1>3
    <2>2. Forget(gone) /\ work' = [work EXCEPT ![w] = {}] /\ chunk' = chunk
      BY <1>6 DEF Crash, store
    <2>3. QNext /\ held' = held \ gone
      BY <2>1, <2>2 DEF QNext, Forget
    <2> DEFINE batch == {}
    <2>4. /\ From(work[w], batch) /\ work' = [work EXCEPT ![w] = batch]
          /\ \A i \in batch : i.lease \notin gone
      BY <2>2 DEF From
    <2>5. \A g \in gone : \E o \in work[w] : o.lease = g
      OBVIOUS
    <2> HIDE DEF gone, batch
    <2>6. Holding'
      BY <2>3, <2>4, <2>5, WorkerStep DEF PoolShape
    <2>7. QED
      BY <1>1, <1>2, <2>2, <2>3, <2>6 DEF PoolShape, StoreOK
  <1>7. QED
    BY <1>4, <1>5, <1>6 DEF Settle

-----------------------------------------------------------------------------
(* The theorems *)

(* The empty pool is well formed and its queue is empty.                    *)
LEMMA PoolStart ==
  ASSUME PoolInit
  PROVE  QInit /\ PoolShape
  <1>1. QInit
    BY DEF PoolInit
  <1>2. StoreOK
    <2> DEFINE first == [text : FirstText, status : {"pending"}, live : {TRUE}]
               row == [text : Text, status : Status, live : BOOLEAN]
    <2>1. first \subseteq row
      BY PoolAssumption DEF Status
    <2>2. chunk \in [Corpus -> [Chunk -> first]]
      BY DEF PoolInit
    <2> HIDE DEF first, row
    <2>3. [Chunk -> first] \subseteq [Chunk -> row]
      BY <2>1
    <2>4. chunk \in [Corpus -> [Chunk -> row]]
      BY <2>2, <2>3
    <2>5. vec \in [Corpus -> [Kind -> [Chunk -> Text \cup {NoText}]]]
      BY DEF PoolInit
    <2>6. QED
      BY <2>4, <2>5 DEF StoreOK, row
  <1>3. CoordOK /\ RestOK /\ Holding
    BY PoolAssumption DEF PoolInit, CoordOK, RestOK, Holding, WorkOK, LeasesHeld, OneHolder
  <1>4. QED
    BY <1>1, <1>2, <1>3 DEF PoolShape

(* Every step of the pool is a step of the queue or leaves it alone.        *)
LEMMA PoolStep ==
  ASSUME TypeOK, QueueInv, PoolShape, [PoolNext]_pvars
  PROVE  [QNext]_qvars /\ TypeOK' /\ QueueInv' /\ PoolShape'
  <1>1. CASE \E cp \in Corpus : Coordinate(cp) \/ Others(cp)
    BY <1>1, CoordinateStep, OthersStep, QueueStep
  <1>2. CASE \E w \in Worker : Proceed(w)
    <2>1. PICK w \in Worker : Proceed(w)
      BY <1>2
    <2>2. CASE LeaseNext(w) \/ LeaseEmpty(w) \/ DrainEnds(w)
      <3>1. [QNext]_qvars
        BY <2>2, PoolAssumption DEF LeaseNext, LeaseEmpty, DrainEnds, LeaseNoJob, QNext, qvars, Scope
      <3>2. TypeOK' /\ QueueInv'
        BY <3>1, QueueStep
      <3>3. QED
        BY <2>2, <3>2, LeasingStep
    <2>3. CASE \E it \in work[w] : Prepare(w, it)
      BY <2>3, PrepareStep, QueueStep
    <2>4. CASE Embed(w)
      BY <2>4, EmbedStep, QueueStep
    <2>5. CASE Settle(w)
      BY <2>5, SettleStep, QueueStep
    <2>6. QED
      BY <2>1, <2>2, <2>3, <2>4, <2>5 DEF Proceed
  <1>3. CASE \E w \in Worker : Fail(w)
    BY <1>3, PrepareStep, EmbedFailStep, SettleStep, QueueStep DEF Fail
  <1>4. CASE Time
    BY <1>4, TimeStep, QueueStep
  <1>5. CASE UNCHANGED pvars
    <2>1. UNCHANGED qvars
      BY <1>5 DEF pvars
    <2>2. PoolShape'
      BY <1>5 DEF pvars, qvars, store, coord, PoolShape, StoreOK, CoordOK, RestOK, Holding,
                  WorkOK, LeasesHeld, OneHolder
    <2>3. QED
      BY <2>1, <2>2, QueueStep
  <1>6. QED
    BY <1>1, <1>2, <1>3, <1>4, <1>5 DEF PoolNext

(* The pool implements the queue: whatever coordinators, workers, crashes   *)
(* and failed calls do, the broker's rows change only by Enqueue, Lease,    *)
(* Ack and Nack with leases their callers really hold, and by time.         *)
THEOREM PoolImplementsQueue == PoolSpec => QSpec
  <1>1. PoolInit => QInit /\ TypeOK /\ QueueInv /\ PoolShape
    BY PoolStart, QueueStart
  <1>2. TypeOK /\ QueueInv /\ PoolShape /\ [PoolNext]_pvars =>
          [QNext]_qvars /\ (TypeOK /\ QueueInv /\ PoolShape)'
    BY PoolStep
  <1>3. QED
    BY <1>1, <1>2, PTL DEF PoolSpec, QSpec

(* In every reachable state of the pool the store, the vectors, the         *)
(* coordinators' pages and every worker's batch are well formed.            *)
THEOREM PoolTypeCorrect == PoolSpec => []PoolTypeOK
  <1>1. PoolInit => TypeOK /\ QueueInv /\ PoolShape
    BY PoolStart, QueueStart
  <1>2. TypeOK /\ QueueInv /\ PoolShape /\ [PoolNext]_pvars =>
          (TypeOK /\ QueueInv /\ PoolShape)'
    BY PoolStep
  <1>3. TypeOK /\ PoolShape => PoolTypeOK
    BY DEF PoolTypeOK, PoolShape, StoreOK, CoordOK, RestOK, Holding, WorkOK
  <1>4. QED
    BY <1>1, <1>2, <1>3, PTL DEF PoolSpec

(* In every reachable state of the pool no unit of work is queued twice, no *)
(* job is delivered over budget, and a stale lease can settle nothing but   *)
(* its own delivery.                                                        *)
THEOREM PoolQueueSafe == PoolSpec => []QueueInv
  BY PoolImplementsQueue, QueueSafe, PTL

(* In every behaviour of the pool a worker that is within its deadline      *)
(* keeps its delivery until it settles, crashes or lets go of it.           *)
THEOREM PoolLeaseKept == PoolSpec => LiveLeaseKept
  BY PoolImplementsQueue, LeaseKept, PTL

-----------------------------------------------------------------------------
(* What a step of the pool asks of the queue *)

QueueUse ==
  \/ UNCHANGED qvars
  \/ \E cp \in Corpus :
       \/ \E t \in page[cp] : Enqueue(ChunkJob(cp, t))
       \/ \E j \in offer[cp] : Enqueue(j)
  \/ \E w \in Worker :
       \/ \E t \in Token : LeaseForCorpus(Scope(w), t)
       \/ LeaseNoJob(Scope(w))
       \/ \E it \in work[w] : Ack(it.lease) \/ Nack(it.lease, TRUE)
  \/ \E gone \in SUBSET held : Forget(gone)
  \/ \E r \in rows : Age(r) \/ WaitOver(r)

(* A worker changes neither the coordinators' pages nor a query's hits nor  *)
(* the taint of a chunk.                                                    *)
LEMMA WorkerLeaves ==
  ASSUME NEW w \in Worker, Proceed(w) \/ Fail(w)
  PROVE  UNCHANGED coord /\ UNCHANGED evict /\ UNCHANGED tainted
  <1>1. CASE \/ LeaseNext(w) \/ LeaseEmpty(w) \/ DrainEnds(w)
             \/ \E it \in work[w] : Prepare(w, it)
    BY <1>1 DEF LeaseNext, LeaseEmpty, DrainEnds, Prepare
  <1>2. CASE Embed(w)
    BY <1>2 DEF Embed, EmbedGroup, EmbedOne, WriteVectors, Mark
  <1>3. CASE Settle(w)
    BY <1>3 DEF Settle, AckItem, Reject, NackItem
  <1>4. CASE Fail(w)
    <2>1. CASE \E it \in work[w] : FetchFails(w, it) \/ FailChunkFails(w, it) \/ SettleFails(w, it)
      BY <2>1 DEF FetchFails, FailChunkFails, SettleFails
    <2>2. CASE EmbedRefused(w) \/ Crash(w) \/ \E stage \in {"embed", "mark"} : CallFails(w, stage)
      BY <2>2 DEF EmbedRefused, Crash, CallFails
    <2>3. CASE \/ \E bad \in SUBSET Todo(At(w, {"embed"})) : DropInputs(w, bad)
               \/ \E done \in SUBSET Todo(At(w, {"embed"})), refused \in Todo(At(w, {"embed"})) :
                    IndexFails(w, done, refused)
      BY <2>3 DEF DropInputs, IndexFails
    <2>4. QED
      BY <1>4, <2>1, <2>2, <2>3 DEF Fail
  <1>5. QED
    BY <1>1, <1>2, <1>3, <1>4 DEF Proceed

(* Every step of the pool is one of these.                                  *)
LEMMA StepUsesQueue ==
  ASSUME PoolShape, [PoolNext]_pvars
  PROVE  QueueUse
  <1>1. CASE \E cp \in Corpus : Coordinate(cp)
    BY <1>1 DEF Coordinate, ReadPage, SendChunk, BuildDocument, SendDocument, SendJob, QueueUse, qvars
  <1>2. CASE \E cp \in Corpus : Others(cp)
    BY <1>2 DEF Others, Reingest, Tombstone, RequeueFailedChunks, PassFails, FindTombstoned,
                EvictChunks, QueueUse
  <1>3. CASE Time
    BY <1>3 DEF Time, Outlive, Expire, RetryDue, QueueUse
  <1>4. CASE UNCHANGED pvars
    BY <1>4 DEF pvars, QueueUse
  <1>5. ASSUME NEW w \in Worker, Proceed(w) \/ Fail(w)
        PROVE  QueueUse
    <2>1. \A gone : gone \subseteq work[w] => {it.lease : it \in gone} \in SUBSET held
      BY DEF PoolShape, Holding, LeasesHeld
    <2>2. CASE LeaseNext(w) \/ LeaseEmpty(w) \/ DrainEnds(w)
      BY <2>2 DEF LeaseNext, LeaseEmpty, DrainEnds, QueueUse
    <2>3. CASE \E it \in work[w] : Prepare(w, it) \/ FetchFails(w, it) \/ FailChunkFails(w, it)
                                   \/ EmbedOne(w, it) \/ Reject(w, it)
      BY <2>3 DEF Prepare, FetchFails, FailChunkFails, EmbedOne, Reject, QueueUse
    <2>4. CASE \E k \in Kind : EmbedGroup(w, k)
      <3>1. PICK gone \in SUBSET work[w] : Forget({it.lease : it \in gone})
        <4>1. PICK k \in Kind : EmbedGroup(w, k)
          BY <2>4
        <4>2. \A stages : At(w, stages) \subseteq work[w]
          BY DEF At
        <4> DEFINE gone == {it \in At(w, {"ready"}) : it.lease.job.kind = k} \
                       {it \in {it \in At(w, {"ready"}) : it.lease.job.kind = k} : InTime(it.lease)}
        <4>3. gone \in SUBSET work[w] /\ Forget({it.lease : it \in gone})
          BY <4>1, <4>2 DEF EmbedGroup
        <4>4. QED
          BY <4>3
      <3>2. QED
        BY <2>1, <3>1 DEF QueueUse
    <2>5. CASE \E it \in work[w] : AckItem(w, it) \/ NackItem(w, it)
      BY <2>5 DEF AckItem, NackItem, QueueUse
    <2>6. CASE \E it \in work[w] : SettleFails(w, it)
      <3>1. PICK it \in work[w] : Forget({it.lease})
        BY <2>6 DEF SettleFails
      <3>2. {it.lease} \in SUBSET held
        BY DEF PoolShape, Holding, LeasesHeld
      <3>3. QED
        BY <3>1, <3>2 DEF QueueUse
    <2>7. CASE Crash(w)
      BY <2>1, <2>7 DEF Crash, QueueUse
    <2>8. CASE \/ WriteVectors(w) \/ Mark(w) \/ EmbedRefused(w)
               \/ \E stage \in {"embed", "mark"} : CallFails(w, stage)
               \/ \E bad \in SUBSET Todo(At(w, {"embed"})) : DropInputs(w, bad)
               \/ \E done \in SUBSET Todo(At(w, {"embed"})), refused \in Todo(At(w, {"embed"})) :
                    IndexFails(w, done, refused)
      BY <2>8 DEF WriteVectors, Mark, EmbedRefused, CallFails, DropInputs, IndexFails, QueueUse
    <2>9. QED
      BY <1>5, <2>2, <2>3, <2>4, <2>5, <2>6, <2>7, <2>8 DEF Proceed, Fail, Embed, Settle
  <1>6. QED
    BY <1>1, <1>2, <1>3, <1>4, <1>5 DEF PoolNext

(* A job is in the queue because it was there or the coordinator has sent   *)
(* it, and a lease is of a job of the queue.                                *)
LEMMA JobsFrom ==
  ASSUME TypeOK, QueueUse
  PROVE  /\ \A r \in rows' :
              \/ \E s \in rows : s.job = r.job
              \/ \E cp \in Corpus : \/ \E t \in page[cp] : r.job = ChunkJob(cp, t)
                                    \/ r.job \in offer[cp]
         /\ \A l \in held' : l \in held \/ \E s \in rows : s.job = l.job
  <1>1. rows \subseteq Row
    BY DEF TypeOK
  <1>2. \A r \in Reclaimed : r \in Row /\ \E s \in rows : s.job = r.job
    BY ReclaimedFrom
  <1>3. CASE UNCHANGED qvars \/ \E gone \in SUBSET held : Forget(gone)
    BY <1>3 DEF qvars, Forget
  <1>4. CASE \E cp \in Corpus : \/ \E t \in page[cp] : Enqueue(ChunkJob(cp, t))
                                \/ \E j \in offer[cp] : Enqueue(j)
    BY <1>4 DEF Enqueue
  <1>5. ASSUME NEW w \in Worker, NEW t \in Token, LeaseForCorpus(Scope(w), t)
        PROVE  /\ \A r \in rows' : \E s \in rows : s.job = r.job
               /\ \A l \in held' : l \in held \/ \E s \in rows : s.job = l.job
    <2>1. PICK r \in Reclaimed : LeaseRow(r, t)
      BY <1>5 DEF LeaseForCorpus
    <2>2. Leased(r, t).job = r.job
      BY <1>2 DEF Leased, Row
    <2>3. QED
      BY <1>2, <2>1, <2>2 DEF LeaseRow
  <1>6. CASE \E w \in Worker : LeaseNoJob(Scope(w))
    BY <1>2, <1>6 DEF LeaseNoJob
  <1>7. ASSUME NEW l, Ack(l) \/ Nack(l, TRUE)
        PROVE  (\A r \in rows' : \E s \in rows : s.job = r.job) /\ held' \subseteq held
    <2>1. \A r \in rows : Requeued(r, TRUE).job = r.job
      BY <1>1, RequeuedRow
    <2>2. QED
      BY <1>7, <2>1 DEF Ack, Nack, Delivered
  <1>8. ASSUME NEW r \in rows, Age(r) \/ WaitOver(r)
        PROVE  (\A s \in rows' : \E q \in rows : q.job = s.job) /\ held' = held
    <2>1. \A a, b : [r EXCEPT !.age = a].job = r.job /\ [r EXCEPT !.wait = b].job = r.job
      BY <1>1 DEF Row
    <2>2. QED
      BY <1>8, <2>1 DEF Age, WaitOver
  <1>9. QED
    BY <1>3, <1>4, <1>5, <1>6, <1>7, <1>8 DEF QueueUse

(* A delivered job stays in the queue, or is dead-lettered on its last      *)
(* delivery, unless its own lease is acked or forgotten.                    *)
LEMMA JobStays ==
  ASSUME TypeOK, QueueInv, LeasesHeld, QueueUse, NEW l \in held, Delivered(l) # {},
         l \in held' \/ Nack(l, TRUE) \/ UNCHANGED rows
  PROVE  \/ \E s \in rows' : s.job = l.job
         \/ l.job \in dead' /\ Final(l)
  <1>1. PICK r \in rows : r.state = "inflight" /\ r.token = l.token
    BY DEF Delivered
  <1>2. r \in Row /\ r.job = l.job /\ r.attempts = l.attempts /\ r.attempts \in Nat
    <2>1. r.attempts \in Nat
      BY QueueAssumption DEF TypeOK, Row
    <2>2. QED
      BY <1>1, <2>1 DEF TypeOK, QueueInv, LeaseNamesDelivery
  <1>3. CASE r \in rows'
    BY <1>2, <1>3
  <1>4. \/ \E s \in Reclaimed : s.job = l.job /\ s \in Row
        \/ l.job \in Exhausted /\ Final(l)
    <2>1. CASE ~Expired(r)
      BY <1>2, <2>1 DEF Reclaimed
    <2>2. CASE Expired(r) /\ r.attempts < MaxAttempts
      <3>1. Requeued(r, r.wait) \in Reclaimed /\ r.wait \in BOOLEAN
        BY <1>2, <2>2 DEF Reclaimed, Row
      <3>2. QED
        BY <1>2, <3>1, RequeuedRow
    <2>3. CASE Expired(r) /\ ~(r.attempts < MaxAttempts)
      <3>1. r.attempts >= MaxAttempts
        BY <1>2, <2>3, QueueAssumption
      <3>2. QED
        BY <1>2, <2>3, <3>1 DEF Exhausted, Final
    <2>4. QED
      BY <2>1, <2>2, <2>3
  <1>5. CASE \/ \E w \in Worker, t \in Token : LeaseForCorpus(Scope(w), t)
             \/ \E w \in Worker : LeaseNoJob(Scope(w))
    <2>1. CASE \E w \in Worker, t \in Token : LeaseForCorpus(Scope(w), t)
      <3>1. PICK q \in Reclaimed, t \in Token : LeaseRow(q, t)
        BY <2>1 DEF LeaseForCorpus
      <3>2. q \in Row => Leased(q, t).job = q.job
        BY DEF Leased, Row
      <3>3. QED
        BY <1>4, <3>1, <3>2 DEF LeaseRow
    <2>2. CASE \E w \in Worker : LeaseNoJob(Scope(w))
      BY <1>3, <1>4, <2>2 DEF LeaseNoJob
    <2>3. QED
      BY <1>5, <2>1, <2>2
  <1>6. ASSUME NEW w \in Worker, NEW it \in work[w], Ack(it.lease) \/ Nack(it.lease, TRUE)
        PROVE  \/ \E s \in rows' : s.job = l.job
               \/ l.job \in dead' /\ Final(l)
    <2>1. CASE r \in Delivered(it.lease)
      <3>1. it.lease = l
        BY <1>1, <2>1 DEF LeasesHeld, Delivered, QueueInv, LeaseNamesDelivery
      <3>2. CASE UNCHANGED rows
        BY <1>3, <3>2
      <3>3. CASE Nack(l, TRUE)
        <4>1. CASE r.attempts < MaxAttempts
          <5>1. Requeued(r, TRUE) \in rows'
            BY <2>1, <3>1, <3>3, <4>1 DEF Nack
          <5>2. Requeued(r, TRUE).job = r.job
            BY <1>2, RequeuedRow
          <5>3. QED
            BY <1>2, <5>1, <5>2
        <4>2. CASE ~(r.attempts < MaxAttempts)
          <5>1. r.attempts >= MaxAttempts
            BY <1>2, <4>2, QueueAssumption
          <5>2. l.job \in dead'
            BY <1>2, <2>1, <3>1, <3>3, <4>2 DEF Nack
          <5>3. QED
            BY <1>2, <5>1, <5>2 DEF Final
        <4>3. QED
          BY <4>1, <4>2
      <3>4. QED
        BY <1>6, <3>1, <3>2, <3>3 DEF Ack, Nack
    <2>2. CASE r \notin Delivered(it.lease)
      BY <1>3, <1>6, <2>2 DEF Ack, Nack
    <2>3. QED
      BY <2>1, <2>2
  <1>7. CASE UNCHANGED qvars \/ \E gone \in SUBSET held : Forget(gone)
    BY <1>3, <1>7 DEF qvars, Forget
  <1>8. CASE \E cp \in Corpus : \/ \E t \in page[cp] : Enqueue(ChunkJob(cp, t))
                                \/ \E j \in offer[cp] : Enqueue(j)
    BY <1>3, <1>8 DEF Enqueue
  <1>9. ASSUME NEW q \in rows, Age(q) \/ WaitOver(q)
        PROVE  \E s \in rows' : s.job = l.job
    <2>1. \A a, b : [q EXCEPT !.age = a].job = q.job /\ [q EXCEPT !.wait = b].job = q.job
      BY DEF TypeOK, Row
    <2>2. QED
      BY <1>2, <1>9, <2>1 DEF Age, WaitOver
  <1>10. QED
    BY <1>5, <1>6, <1>7, <1>8, <1>9 DEF QueueUse

-----------------------------------------------------------------------------
(* What a step of the pool does to the items of the workers *)

(* An item as a lease brings it in.                                         *)
Arrived(i) == i.stage \in {"leased", "queued"} /\ i.todo = {}

(* How an item o of worker w may go on as i within one step.                *)
Onward(w, o, i) ==
  /\ i.lease = o.lease
  /\ \/ o.stage = "leased" /\ i.stage = "queued" /\ i.todo = o.todo
     \/ LET j     == o.lease.job
            tasks == {t \in Fetched(w, j) : Current(j, t)}
        IN  /\ o.stage = "queued"
            /\ i.stage = Verdict(w, j, tasks)
            /\ i.todo = IF i.stage = "ready" THEN tasks ELSE {}
            /\ UNCHANGED <<store, tainted>>
     \/ /\ o.stage = "queued" /\ i.stage = "reject" /\ i.todo = o.todo
        /\ o.lease.job.corpus = Serves[w]
     \/ o.stage \in {"ready", "solo"} /\ i.stage = "embed" /\ i.todo = o.todo
     \/ /\ o.stage = "embed" /\ i.stage \in {"embed", "mark", "ack", "reject", "solo"}
        /\ i.todo \subseteq o.todo
        /\ i.stage = "mark" => Written(Serves[w], Todo(At(w, {"embed"})))
     \/ o.stage = "mark" /\ i.stage \in {"ack", "reject", "solo"} /\ i.todo = o.todo
     \/ /\ o.stage = "reject" /\ i.stage \in {"nack", "unrecorded"} /\ i.todo = o.todo
        /\ i.stage = "nack" /\ Final(o.lease) =>
             SetStatus(Serves[w], o.lease.job.chunks, "error")

(* Moving an item changes its stage alone.                                  *)
LEMMA MovedItem ==
  ASSUME Holding, NEW w \in Worker, NEW items \in SUBSET work[w], NEW stage,
         NEW i \in Moved(items, stage)
  PROVE  \E o \in items : i.lease = o.lease /\ i.stage = stage /\ i.todo = o.todo
  <1>1. PICK o \in items : i = [o EXCEPT !.stage = stage]
    BY DEF Moved
  <1>2. o \in Item
    BY DEF Holding, WorkOK
  <1>3. QED
    BY <1>1, <1>2 DEF Item

(* Every item of a worker was there before, has just been leased, or comes  *)
(* of one of its items in one of these ways.                                *)
LEMMA ItemSteps ==
  ASSUME PoolShape, [PoolNext]_pvars, NEW v \in Worker, NEW i \in work'[v]
  PROVE  i \in work[v] \/ Arrived(i) \/ \E o \in work[v] : Onward(v, o, i)
  <1>0. /\ Holding /\ work \in [Worker -> SUBSET Item]
        /\ \A w \in Worker : \A stages : At(w, stages) \in SUBSET work[w]
    BY DEF PoolShape, Holding, WorkOK, At
  <1>1. CASE UNCHANGED work
    BY <1>1
  <1>2. CASE (\E cp \in Corpus : Coordinate(cp) \/ Others(cp)) \/ Time \/ UNCHANGED pvars
    <2>1. UNCHANGED work
      BY <1>2 DEF Coordinate, ReadPage, SendChunk, BuildDocument, SendDocument, Others, Reingest,
                  Tombstone, RequeueFailedChunks, PassFails, FindTombstoned, EvictChunks, Time,
                  Outlive, Expire, RetryDue, pvars
    <2>2. QED
      BY <1>1, <2>1
  <1>3. ASSUME NEW w \in Worker, Proceed(w) \/ Fail(w), v # w
        PROVE  i \in work[v]
    BY <1>0, <1>3 DEF Proceed, LeaseNext, LeaseEmpty, DrainEnds, Prepare, Embed, EmbedGroup, EmbedOne,
              WriteVectors, Mark, Settle, AckItem, Reject, NackItem, Fail, FetchFails,
              FailChunkFails, SettleFails, CallFails, EmbedRefused, DropInputs, IndexFails, Crash
  <1>4. CASE LeaseEmpty(v) \/ DrainEnds(v)
    <2>1. work'[v] = Moved(work[v], "queued") /\ \A o \in work[v] : o.stage = "leased"
      BY <1>0, <1>4 DEF LeaseEmpty, DrainEnds, At
    <2>2. PICK o \in work[v] : i.lease = o.lease /\ i.stage = "queued" /\ i.todo = o.todo
      BY <1>0, <2>1, MovedItem
    <2>3. QED
      BY <2>1, <2>2 DEF Onward
  <1>5. CASE LeaseNext(v)
    <2> DEFINE new == {[lease |-> l, stage |-> "leased", todo |-> {}] : l \in held' \ held}
    <2>1. /\ work'[v] = work[v] \cup new \/ work'[v] = Moved(work[v] \cup new, "queued")
          /\ \A o \in work[v] : o.stage = "leased"
      BY <1>0, <1>5 DEF LeaseNext, At
    <2>2. \A o \in new : Arrived(o) /\ Arrived([o EXCEPT !.stage = "queued"])
      BY DEF Arrived
    <2> HIDE DEF new
    <2>3. CASE work'[v] = work[v] \cup new
      BY <2>2, <2>3
    <2>4. CASE work'[v] = Moved(work[v] \cup new, "queued")
      <3>1. PICK o \in work[v] \cup new : i = [o EXCEPT !.stage = "queued"]
        BY <2>4 DEF Moved
      <3>2. CASE o \in work[v]
        <4>1. i.lease = o.lease /\ i.stage = "queued" /\ i.todo = o.todo
          BY <1>0, <3>1, <3>2 DEF Item
        <4>2. QED
          BY <2>1, <3>2, <4>1 DEF Onward
      <3>3. QED
        BY <2>2, <3>1, <3>2
    <2>5. QED
      BY <2>1, <2>3, <2>4
  <1>6. ASSUME NEW o \in work[v], Prepare(v, o)
        PROVE  i \in work[v] \/ Onward(v, o, i)
    <2> DEFINE tasks == {t \in Fetched(v, o.lease.job) : Current(o.lease.job, t)}
               stage == Verdict(v, o.lease.job, tasks)
               todo == IF stage = "ready" THEN tasks ELSE {}
    <2>1. work'[v] = (work[v] \ {o}) \cup {[o EXCEPT !.stage = stage, !.todo = todo]}
      BY <1>0, <1>6 DEF Prepare
    <2>2. CASE i = [o EXCEPT !.stage = stage, !.todo = todo]
      <3>1. i.lease = o.lease /\ i.stage = stage /\ i.todo = todo
        <4>1. o \in Item
          BY <1>0
        <4> HIDE DEF stage, todo
        <4>2. QED
          BY <2>2, <4>1 DEF Item
      <3>2. o.stage = "queued" /\ UNCHANGED <<store, tainted>>
        BY <1>6 DEF Prepare
      <3>3. QED
        BY <3>1, <3>2 DEF Onward
    <2>3. QED
      BY <2>1, <2>2
  <1>7. ASSUME NEW o \in work[v], FetchFails(v, o) \/ EmbedOne(v, o)
        PROVE  i \in work[v] \/ Onward(v, o, i)
    <2>1. PICK stage : /\ work'[v] = (work[v] \ {o}) \cup Moved({o}, stage)
                       /\ \/ stage = "embed" /\ o.stage = "solo"
                          \/ stage = "reject" /\ o.stage = "queued" /\ o.lease.job.corpus = Serves[v]
      BY <1>0, <1>7 DEF FetchFails, EmbedOne
    <2>2. i \in Moved({o}, stage) => i.lease = o.lease /\ i.stage = stage /\ i.todo = o.todo
      BY <1>0, MovedItem
    <2>3. QED
      BY <2>1, <2>2 DEF Onward
  <1>8. ASSUME NEW k \in Kind, EmbedGroup(v, k)
        PROVE  i \in work[v] \/ \E o \in work[v] : Onward(v, o, i)
    <2>1. PICK live \in SUBSET At(v, {"ready"}) : i \in work[v] \/ i \in Moved(live, "embed")
      BY <1>0, <1>8 DEF EmbedGroup
    <2>2. CASE i \in Moved(live, "embed")
      <3>1. PICK o \in live : i.lease = o.lease /\ i.stage = "embed" /\ i.todo = o.todo
        BY <1>0, <2>1, <2>2, MovedItem
      <3>2. o \in work[v] /\ o.stage = "ready"
        BY <2>1 DEF At
      <3>3. QED
        BY <3>1, <3>2 DEF Onward
    <2>3. QED
      BY <2>1, <2>2
  <1>9. ASSUME \/ WriteVectors(v) \/ Mark(v) \/ EmbedRefused(v)
               \/ \E stage \in {"embed", "mark"} : CallFails(v, stage)
               \/ \E done \in SUBSET Todo(At(v, {"embed"})), refused \in Todo(At(v, {"embed"})) :
                    IndexFails(v, done, refused)
        PROVE  i \in work[v] \/ \E o \in work[v] : Onward(v, o, i)
    <2>1. PICK from \in {"embed", "mark"}, to \in {"mark", "ack", "reject", "solo"} :
            /\ work'[v] = (work[v] \ At(v, {from})) \cup Moved(At(v, {from}), to)
            /\ to = "mark" => from = "embed" /\ Written(Serves[v], Todo(At(v, {"embed"})))
      <3>1. CASE WriteVectors(v)
        BY <1>0, <3>1 DEF WriteVectors
      <3>2. CASE Mark(v)
        BY <1>0, <3>2 DEF Mark
      <3>3. \A E : \E to \in {"reject", "solo"} : Isolated(E) = Moved(E, to)
        BY DEF Isolated
      <3>4. CASE EmbedRefused(v)
        BY <1>0, <3>3, <3>4 DEF EmbedRefused
      <3>5. CASE \E stage \in {"embed", "mark"} : CallFails(v, stage)
        BY <1>0, <3>3, <3>5 DEF CallFails
      <3>6. CASE \E done \in SUBSET Todo(At(v, {"embed"})), refused \in Todo(At(v, {"embed"})) :
                   IndexFails(v, done, refused)
        BY <1>0, <3>3, <3>6 DEF IndexFails
      <3>7. QED
        BY <1>9, <3>1, <3>2, <3>4, <3>5, <3>6
    <2>2. CASE i \in Moved(At(v, {from}), to)
      <3>1. PICK o \in At(v, {from}) : i.lease = o.lease /\ i.stage = to /\ i.todo = o.todo
        BY <1>0, <2>2, MovedItem
      <3>2. o \in work[v] /\ o.stage = from
        BY DEF At
      <3>3. QED
        BY <2>1, <3>1, <3>2 DEF Onward
    <2>3. QED
      BY <2>1, <2>2
  <1>10. ASSUME NEW bad, DropInputs(v, bad)
         PROVE  i \in work[v] \/ \E o \in work[v] : Onward(v, o, i)
    <2> DEFINE E == At(v, {"embed"})
               rest == Without(E, bad)
    <2>1. i \in work[v] \/ i \in rest \/ i \in Moved(rest, "ack")
      BY <1>0, <1>10 DEF DropInputs
    <2>2. ASSUME NEW o \in E
          PROVE  LET m == [o EXCEPT !.todo = {t \in @ : t \notin bad}]
                 IN  Onward(v, o, m) /\ Onward(v, o, [m EXCEPT !.stage = "ack"])
      <3>1. o \in Item /\ o.stage = "embed"
        BY <1>0 DEF At
      <3> DEFINE todo == {t \in o.todo : t \notin bad}
                 m == [o EXCEPT !.todo = todo]
      <3>2. todo \subseteq o.todo
        OBVIOUS
      <3> HIDE DEF todo
      <3>3. /\ m.lease = o.lease /\ m.stage = "embed" /\ m.todo = todo
            /\ [m EXCEPT !.stage = "ack"].lease = o.lease
            /\ [m EXCEPT !.stage = "ack"].stage = "ack"
            /\ [m EXCEPT !.stage = "ack"].todo = todo
        BY <3>1 DEF Item
      <3> HIDE DEF m
      <3>4. Onward(v, o, m) /\ Onward(v, o, [m EXCEPT !.stage = "ack"])
        BY <3>1, <3>2, <3>3 DEF Onward
      <3>5. QED
        BY <3>4 DEF m, todo
    <2>3. E \subseteq work[v]
      BY <1>0
    <2>4. CASE i \in rest
      BY <2>2, <2>3, <2>4 DEF Without
    <2>5. CASE i \in Moved(rest, "ack")
      <3>1. PICK m \in rest : i = [m EXCEPT !.stage = "ack"]
        BY <2>5 DEF Moved
      <3>2. PICK o \in E : m = [o EXCEPT !.todo = {t \in @ : t \notin bad}]
        BY DEF Without
      <3>3. QED
        BY <2>2, <2>3, <3>1, <3>2
    <2>6. QED
      BY <2>1, <2>4, <2>5
  <1>11. ASSUME NEW o \in work[v], Reject(v, o) \/ FailChunkFails(v, o)
         PROVE  i \in work[v] \/ Onward(v, o, i)
    <2>1. PICK stage \in {"nack", "unrecorded"} :
            /\ work'[v] = (work[v] \ {o}) \cup Moved({o}, stage)
            /\ o.stage = "reject"
            /\ stage = "nack" /\ Final(o.lease) => SetStatus(Serves[v], o.lease.job.chunks, "error")
      BY <1>0, <1>11 DEF Reject, FailChunkFails
    <2>2. i \in Moved({o}, stage) => i.lease = o.lease /\ i.stage = stage /\ i.todo = o.todo
      BY <1>0, MovedItem
    <2>3. QED
      BY <2>1, <2>2 DEF Onward
  <1>12. ASSUME NEW o \in work[v], AckItem(v, o) \/ NackItem(v, o) \/ SettleFails(v, o)
         PROVE  i \in work[v]
    BY <1>0, <1>12 DEF AckItem, NackItem, SettleFails
  <1>13. CASE Crash(v)
    BY <1>0, <1>13 DEF Crash
  <1>14. QED
    BY <1>2, <1>3, <1>4, <1>5, <1>6, <1>7, <1>8, <1>9, <1>10, <1>11, <1>12, <1>13
       DEF PoolNext, Proceed, Fail, Embed, Settle

-----------------------------------------------------------------------------
(* One pair of hands, and other corpora's jobs *)

(* A document job is minted only under late chunking, and all its chunks    *)
(* are of the representation it names.                                      *)
Coordinated(j) == IsDocument(j) => Late /\ \A c \in j.chunks : RepOf[c] = j.rep

JobsCoordinated ==
  /\ \A r \in rows : Coordinated(r.job)
  /\ \A l \in held : Coordinated(l.job)
  /\ \A cp \in Corpus : \A j \in offer[cp] : Coordinated(j)

(* What the gates have let an item become.                                  *)
ItemOK(w, it) ==
  LET j == it.lease.job
  IN  /\ j.corpus # Serves[w] => it.stage \in {"leased", "queued", "nack"}
      /\ \A t \in it.todo : t.chunk \in j.chunks /\ KindOf[t.text] = j.kind
      /\ it.todo # {} => (Late => IsDocument(j))

ItemsOK == \A w \in Worker : \A it \in work[w] : ItemOK(w, it)

PoolInv == TypeOK /\ QueueInv /\ PoolShape /\ JobsCoordinated /\ ItemsOK

(* The coordinator mints such jobs only, and nobody else mints any.         *)
LEMMA JobsStep ==
  ASSUME TypeOK, PoolShape, JobsCoordinated, [PoolNext]_pvars
  PROVE  JobsCoordinated'
  <1>1. \A cp, t : Coordinated(ChunkJob(cp, t))
    BY DEF ChunkJob, Coordinated, IsDocument
  <1>2. /\ \A r \in rows' :
              \/ \E s \in rows : s.job = r.job
              \/ \E cp \in Corpus : \/ \E t \in page[cp] : r.job = ChunkJob(cp, t)
                                    \/ r.job \in offer[cp]
        /\ \A l \in held' : l \in held \/ \E s \in rows : s.job = l.job
    BY StepUsesQueue, JobsFrom
  <1>3. (\A r \in rows' : Coordinated(r.job)) /\ (\A l \in held' : Coordinated(l.job))
    BY <1>1, <1>2 DEF JobsCoordinated
  <1>4. ASSUME NEW cp \in Corpus, NEW j \in offer'[cp], j \notin offer[cp]
        PROVE  Coordinated(j)
    <2>1. PICK t \in page[cp] : BuildDocument(cp, t)
      <3>1. offer \in [Corpus -> SUBSET Job]
        BY DEF PoolShape, CoordOK
      <3>2. CASE UNCHANGED offer
        BY <1>4, <3>2
      <3>3. CASE \E b \in Corpus : Coordinate(b) \/ Others(b)
        <4>1. PICK b \in Corpus : Coordinate(b) \/ Others(b)
          BY <3>3
        <4>2. CASE Others(b)
          BY <1>4, <3>1, <4>2 DEF Others, Reingest, Tombstone, RequeueFailedChunks, PassFails,
                                  FindTombstoned, EvictChunks, coord
        <4>3. CASE Coordinate(b)
          BY <1>4, <3>1, <4>3 DEF Coordinate, ReadPage, SendChunk, SendDocument, BuildDocument
        <4>4. QED
          BY <4>1, <4>2, <4>3
      <3>4. CASE \E w \in Worker : Proceed(w) \/ Fail(w)
        <4>1. UNCHANGED coord
          BY <3>4, WorkerLeaves
        <4>2. QED
          BY <3>2, <4>1 DEF coord
      <3>5. CASE Time \/ UNCHANGED pvars
        BY <3>2, <3>5 DEF Time, Outlive, Expire, RetryDue, pvars, coord
      <3>6. QED
        BY <3>3, <3>4, <3>5 DEF PoolNext
    <2> DEFINE rep == RepOf[t.chunk]
               tasks == RepPending(cp, rep, KindOf[t.text])
    <2>2. Late /\ j \in DocumentJob(cp, rep, KindOf[t.text], tasks)
      BY <1>4, <2>1 DEF BuildDocument, PoolShape, CoordOK
    <2>3. \A c \in Chunks(tasks) : RepOf[c] = rep
      BY DEF Chunks, RepPending
    <2> HIDE DEF rep, tasks
    <2>4. j.rep = rep /\ j.chunks = Chunks(tasks)
      BY <2>2 DEF DocumentJob
    <2>5. QED
      BY <2>2, <2>3, <2>4 DEF Coordinated
  <1>5. QED
    BY <1>3, <1>4 DEF JobsCoordinated, Coordinated, IsDocument

(* The gates keep what they promise.                                        *)
LEMMA ItemsStep ==
  ASSUME PoolShape, ItemsOK, [PoolNext]_pvars
  PROVE  ItemsOK'
  <1>1. ASSUME NEW w \in Worker, NEW i \in work'[w]
        PROVE  ItemOK(w, i)
    <2>1. CASE i \in work[w]
      BY <2>1 DEF ItemsOK
    <2>2. CASE Arrived(i)
      BY <2>2 DEF Arrived, ItemOK
    <2>3. ASSUME NEW o \in work[w], Onward(w, o, i)
          PROVE  ItemOK(w, i)
      <3> DEFINE j == o.lease.job
                 tasks == {t \in Fetched(w, j) : Current(j, t)}
      <3>1. i.lease = o.lease /\ ItemOK(w, o)
        BY <2>3 DEF Onward, ItemsOK
      <3>2. CASE /\ o.stage = "queued"
                 /\ i.stage = Verdict(w, j, tasks)
                 /\ i.todo = IF i.stage = "ready" THEN tasks ELSE {}
        <4>1. \A t \in tasks : t.chunk \in j.chunks /\ KindOf[t.text] = j.kind
          BY DEF Fetched, Current
        <4>2. CASE i.stage = "ready"
          <5>1. j.corpus = Serves[w] /\ (Late => IsDocument(j))
            BY <3>2, <4>2 DEF Verdict
          <5>2. QED
            BY <3>1, <3>2, <4>1, <4>2, <5>1 DEF ItemOK
        <4>3. CASE i.stage # "ready"
          <5>1. j.corpus # Serves[w] => i.stage = "nack"
            BY <3>2 DEF Verdict
          <5>2. QED
            BY <3>1, <3>2, <4>3, <5>1 DEF ItemOK
        <4>4. QED
          BY <4>2, <4>3
      <3> HIDE DEF tasks
      <3>3. CASE i.todo \subseteq o.todo
        BY <2>3, <3>1, <3>2, <3>3 DEF Onward, ItemOK, tasks
      <3>4. QED
        BY <2>3, <3>2, <3>3 DEF Onward, tasks
    <2>4. QED
      BY <2>1, <2>2, <2>3, ItemSteps
  <1>2. QED
    BY <1>1 DEF ItemsOK, ItemOK, IsDocument

(* The invariant is one.                                                    *)
LEMMA PoolInvariant == PoolSpec => []PoolInv
  <1>1. PoolInit => PoolInv
    <2> SUFFICES ASSUME PoolInit PROVE PoolInv
      OBVIOUS
    <2>1. TypeOK /\ QueueInv /\ PoolShape
      BY PoolStart, QueueStart
    <2>2. JobsCoordinated /\ ItemsOK
      BY DEF PoolInit, QInit, JobsCoordinated, ItemsOK
    <2>3. QED
      BY <2>1, <2>2 DEF PoolInv
  <1>2. PoolInv /\ [PoolNext]_pvars => PoolInv'
    BY PoolStep, JobsStep, ItemsStep DEF PoolInv
  <1>3. QED
    BY <1>1, <1>2, PTL DEF PoolSpec

(* In every reachable state two deliveries that are both still current are  *)
(* of different work: no chunk of an axis is embedded under both, whether   *)
(* its jobs are per chunk or per representation.                            *)
THEOREM PoolNoDoubleWork == PoolSpec => []NoDoubleWork
  <1>1. ASSUME PoolInv
        PROVE  NoDoubleWork
    <2> SUFFICES ASSUME NEW v \in Worker, NEW w \in Worker,
                        NEW i \in work[v], NEW k \in work[w],
                        i.lease # k.lease, Delivered(i.lease) # {}, Delivered(k.lease) # {},
                        Serves[v] = Serves[w], NEW t \in i.todo, NEW u \in k.todo,
                        i.stage \in {"embed", "mark"}, k.stage \in {"embed", "mark"},
                        u.chunk = t.chunk, KindOf[u.text] = KindOf[t.text]
                 PROVE  FALSE
      BY DEF NoDoubleWork, At
    <2> DEFINE I == i.lease.job
               K == k.lease.job
    <2>1. i.lease \in held /\ k.lease \in held
      BY <1>1 DEF PoolInv, PoolShape, Holding, LeasesHeld
    <2>2. I \in Job /\ K \in Job /\ Coordinated(I) /\ Coordinated(K)
      BY <1>1, <2>1 DEF PoolInv, TypeOK, Lease, JobsCoordinated
    <2>3. /\ I.corpus = K.corpus /\ I.kind = K.kind
          /\ t.chunk \in I.chunks /\ t.chunk \in K.chunks
          /\ Late => IsDocument(I) /\ IsDocument(K)
      BY <1>1 DEF PoolInv, ItemsOK, ItemOK
    <2>4. SameUnit(I, K)
      <3>1. CASE Late
        BY <2>2, <2>3, <3>1 DEF Coordinated, SameUnit, SameJobKey
      <3>2. CASE ~Late
        <4>1. ~IsDocument(I) /\ ~IsDocument(K)
          BY <2>2, <3>2 DEF Coordinated
        <4>2. I.chunks = {I.chunk} /\ K.chunks = {K.chunk}
          BY <2>2, <4>1 DEF Job, IsDocument
        <4>3. QED
          BY <2>3, <4>1, <4>2 DEF SameUnit, SameJobKey
      <3>3. QED
        BY <3>1, <3>2
    <2>5. PICK r \in rows, s \in rows : r.token = i.lease.token /\ s.token = k.lease.token
      BY DEF Delivered
    <2>6. r.job = I /\ s.job = K
      BY <1>1, <2>1, <2>5 DEF PoolInv, QueueInv, LeaseNamesDelivery
    <2>7. r = s
      BY <1>1, <2>4, <2>6 DEF PoolInv, QueueInv, OneLiveJob
    <2>8. QED
      BY <1>1, <2>1, <2>5, <2>7 DEF PoolInv, QueueInv, LeaseNamesDelivery
  <1>2. QED
    BY <1>1, PoolInvariant, PTL

(* A worker that moves or drops an item it has not started to embed, or has *)
(* given up, changes no store, and unless it nacks the delivery it keeps    *)
(* the lease or leaves the queue alone.                                     *)
LEMMA LetGo ==
  ASSUME PoolShape, PoolNext, NEW w \in Worker, NEW it \in work[w],
         it.stage \in {"leased", "queued", "nack"}, it \notin work'[w]
  PROVE  /\ UNCHANGED store
         /\ it.lease \in held' \/ Nack(it.lease, TRUE) \/ UNCHANGED rows
  <1>0. /\ work \in [Worker -> SUBSET Item] /\ it.lease \in held
        /\ \A v \in Worker : \A stages : At(v, stages) \in SUBSET work[v]
    BY DEF PoolShape, Holding, WorkOK, LeasesHeld, At
  <1>1. PICK v \in Worker : Proceed(v) \/ Fail(v)
    BY DEF PoolNext, Coordinate, ReadPage, SendChunk, BuildDocument, SendDocument, Others, Reingest,
           Tombstone, RequeueFailedChunks, PassFails, FindTombstoned, EvictChunks, Time,
           Outlive, Expire, RetryDue
  <1>2. v = w
    BY <1>0, <1>1 DEF Proceed, LeaseNext, LeaseEmpty, DrainEnds, Prepare, Embed, EmbedGroup,
            EmbedOne, WriteVectors, Mark, Settle, AckItem, Reject, NackItem, Fail, FetchFails,
            FailChunkFails, SettleFails, CallFails, EmbedRefused, DropInputs, IndexFails, Crash
  <1>3. CASE LeaseNext(w) \/ LeaseEmpty(w) \/ DrainEnds(w)
    <2>1. UNCHANGED store /\ held \subseteq held'
      BY <1>3 DEF LeaseNext, LeaseEmpty, DrainEnds, LeaseForCorpus, LeaseRow, LeaseNoJob, qvars
    <2>2. QED
      BY <1>0, <2>1
  <1>4. CASE \E o \in work[w] : Prepare(w, o) \/ FetchFails(w, o)
    BY <1>4 DEF Prepare, FetchFails, qvars
  <1>5. CASE \E o \in work[w] : AckItem(w, o) \/ Reject(w, o) \/ FailChunkFails(w, o)
                                \/ EmbedOne(w, o)
    BY <1>0, <1>5 DEF AckItem, Reject, FailChunkFails, EmbedOne
  <1>6. CASE \E o \in work[w] : NackItem(w, o) \/ SettleFails(w, o)
    <2>1. PICK o \in work[w] : NackItem(w, o) \/ SettleFails(w, o)
      BY <1>6
    <2>2. o = it
      BY <1>0, <2>1 DEF NackItem, SettleFails
    <2>3. QED
      BY <2>1, <2>2 DEF NackItem, SettleFails, Forget
  <1>7. CASE Crash(w)
    BY <1>7 DEF Crash, Forget
  <1>8. CASE \/ \E k \in Kind : EmbedGroup(w, k)
             \/ WriteVectors(w) \/ Mark(w)
    BY <1>0, <1>8 DEF EmbedGroup, WriteVectors, Mark, At
  <1>9. CASE EmbedRefused(w) \/ \E stage \in {"embed", "mark"} : CallFails(w, stage)
    BY <1>0, <1>9 DEF EmbedRefused, CallFails, At
  <1>10. CASE \/ \E bad \in SUBSET Todo(At(w, {"embed"})) : DropInputs(w, bad)
              \/ \E done \in SUBSET Todo(At(w, {"embed"})), refused \in Todo(At(w, {"embed"})) :
                   IndexFails(w, done, refused)
    <2>1. it \notin At(w, {"embed"})
      BY DEF At
    <2>2. \E new : work' = [work EXCEPT ![w] = (@ \ At(w, {"embed"})) \cup new]
      BY <1>10 DEF DropInputs, IndexFails
    <2>3. QED
      BY <1>0, <2>1, <2>2
  <1>11. QED
    BY <1>1, <1>2, <1>3, <1>4, <1>5, <1>6, <1>7, <1>8, <1>9, <1>10 DEF Proceed, Fail, Embed, Settle

(* A worker that lets go of a job of another corpus has touched no store,   *)
(* and the job is back in the queue, or dead-lettered by its last delivery. *)
THEOREM PoolForeignJobsReturned == PoolSpec => ForeignJobsReturned
  <1>1. ASSUME PoolInv, PoolNext, NEW w \in Worker, NEW it \in work[w],
               it.lease.job.corpus # Serves[w], Delivered(it.lease) # {}, it \notin work'[w]
        PROVE  /\ UNCHANGED store
               /\ it.lease.job \in dead' \/ \E r \in rows' : r.job = it.lease.job
    <2>1. it.stage \in {"leased", "queued", "nack"} /\ it.lease \in held
      BY <1>1 DEF PoolInv, PoolShape, Holding, LeasesHeld, ItemsOK, ItemOK
    <2>2. UNCHANGED store /\ (it.lease \in held' \/ Nack(it.lease, TRUE) \/ UNCHANGED rows)
      BY <1>1, <2>1, LetGo DEF PoolInv
    <2>3. QueueUse
      BY <1>1, StepUsesQueue DEF PoolInv
    <2>4. QED
      BY <1>1, <2>1, <2>2, <2>3, JobStays DEF PoolInv, PoolShape, Holding
  <1>2. PoolInv /\ [PoolNext]_pvars =>
          [\A w \in Worker : \A it \in work[w] :
             /\ it.lease.job.corpus # Serves[w]
             /\ Delivered(it.lease) # {}
             /\ it \notin work'[w]
             => /\ UNCHANGED store
                /\ \/ it.lease.job \in dead'
                   \/ \E r \in rows' : r.job = it.lease.job]_pvars
    BY <1>1
  <1>3. QED
    BY <1>2, PoolInvariant, PTL DEF PoolSpec, ForeignJobsReturned

-----------------------------------------------------------------------------
(* What a step of the pool does to the chunks *)

(* Why the status of a chunk may change: a failure is recorded; a retry     *)
(* makes it pending again, which taints it for a worker that is giving its  *)
(* job up; or it has been embedded, by a batch whose vectors are all        *)
(* written or by the part of one that got through.                          *)
Recorded(cp, c) ==
  \/ chunk'[cp][c].status = "error"
  \/ /\ chunk'[cp][c].status = "pending"
     /\ Failing(cp, c) => c \in tainted'[cp]
  \/ /\ chunk'[cp][c].status = "ok"
     /\ \E w \in Worker :
          /\ Serves[w] = cp
          /\ \/ vec' = vec /\ c \in Chunks(Todo(At(w, {"mark"})))
             \/ \E done \in SUBSET Todo(At(w, {"embed"})) :
                  Written(cp, done) /\ c \in Chunks(done)

(* What everyone but ingest leaves alone in a chunk.                        *)
ChunkKept(cp, c) ==
  /\ chunk'[cp][c].text = chunk[cp][c].text
  /\ chunk'[cp][c].live => chunk[cp][c].live
  /\ c \in tainted[cp] => c \in tainted'[cp]
  /\ chunk'[cp][c].status = chunk[cp][c].status \/ Recorded(cp, c)

IngestWrites ==
  \E cp \in Corpus, c \in Chunk, text \in Text, status \in BornStatus : Reingest(cp, c, text, status)

(* SetStatus, chunk by chunk.                                               *)
LEMMA StatusSet ==
  ASSUME StoreOK, NEW cp \in Corpus, NEW cs, NEW status, SetStatus(cp, cs, status),
         NEW b \in Corpus, NEW d \in Chunk
  PROVE  /\ chunk'[b][d].text = chunk[b][d].text
         /\ chunk'[b][d].live = chunk[b][d].live
         /\ chunk'[b][d].status = IF b = cp /\ d \in cs THEN status ELSE chunk[b][d].status
  <1> DEFINE new == [c \in Chunk |-> IF c \in cs THEN [chunk[cp][c] EXCEPT !.status = status]
                                               ELSE chunk[cp][c]]
  <1>1. chunk' = [chunk EXCEPT ![cp] = new]
    BY DEF SetStatus
  <1>2. chunk'[b][d] = IF b = cp THEN new[d] ELSE chunk[b][d]
    BY <1>1 DEF StoreOK
  <1>3. chunk[b][d] \in [text : Text, status : Status, live : BOOLEAN]
    BY DEF StoreOK
  <1>4. QED
    BY <1>2, <1>3

LEMMA ChunkSteps ==
  ASSUME PoolShape, [PoolNext]_pvars, NEW cp \in Corpus, NEW c \in Chunk
  PROVE  ChunkKept(cp, c) \/ IngestWrites
  <1>0. /\ chunk[cp][c] \in [text : Text, status : Status, live : BOOLEAN]
        /\ StoreOK /\ \A w \in Worker : Serves[w] \in Corpus
        /\ chunk \in [Corpus -> [Chunk -> [text : Text, status : Status, live : BOOLEAN]]]
        /\ tainted \in [Corpus -> SUBSET Chunk]
    BY PoolAssumption DEF PoolShape, StoreOK, RestOK
  <1>1. ASSUME UNCHANGED chunk /\ UNCHANGED tainted
        PROVE  ChunkKept(cp, c)
    BY <1>1 DEF ChunkKept
  <1>2. ASSUME NEW b \in Corpus, NEW cs, NEW status, SetStatus(b, cs, status),
               tainted'[cp] = tainted[cp] \/ tainted[cp] \subseteq tainted'[cp],
               b = cp /\ c \in cs /\ status # chunk[cp][c].status => Recorded(cp, c)
        PROVE  ChunkKept(cp, c)
    BY <1>0, <1>2, StatusSet DEF ChunkKept
  <1>3. ASSUME NEW b \in Corpus, Others(b)
        PROVE  ChunkKept(cp, c) \/ IngestWrites
    <2>1. CASE \E d \in Chunk, text \in Text, status \in BornStatus : Reingest(b, d, text, status)
      BY <2>1 DEF IngestWrites
    <2>2. ASSUME NEW d \in Chunk, Tombstone(b, d)
          PROVE  ChunkKept(cp, c)
      <3>1. chunk' = [chunk EXCEPT ![b][d].live = FALSE] /\ tainted' = tainted
        BY <2>2 DEF Tombstone
      <3>2. chunk[b] \in [Chunk -> [text : Text, status : Status, live : BOOLEAN]]
        BY <1>0
      <3>3. chunk'[cp][c] = IF cp = b /\ c = d THEN [chunk[b][d] EXCEPT !.live = FALSE]
                                               ELSE chunk[cp][c]
        BY <1>0, <3>1, <3>2
      <3>4. QED
        BY <1>0, <3>1, <3>3 DEF ChunkKept
    <2>3. CASE RequeueFailedChunks(b)
      <3> DEFINE failed == {d \in Chunk : chunk[b][d].live /\ chunk[b][d].status = "error"}
      <3>1. /\ SetStatus(b, failed, "pending")
            /\ tainted' = [tainted EXCEPT ![b] = @ \cup {d \in failed : Failing(b, d)}]
        BY <2>3 DEF RequeueFailedChunks
      <3>2. tainted'[cp] = IF cp = b THEN tainted[cp] \cup {d \in failed : Failing(b, d)}
                                     ELSE tainted[cp]
        BY <1>0, <3>1
      <3>3. c \in failed /\ b = cp => chunk'[cp][c].status = "pending"
        BY <1>0, <3>1, StatusSet
      <3>4. b = cp /\ c \in failed => Recorded(cp, c)
        BY <3>2, <3>3 DEF Recorded
      <3> HIDE DEF failed
      <3>5. tainted[cp] \subseteq tainted'[cp]
        BY <3>2
      <3>6. SetStatus(b, failed, "pending")
        BY <3>1
      <3>7. QED
        BY <1>0, <3>4, <3>5, <3>6, StatusSet DEF ChunkKept
    <2>4. CASE PassFails(b) \/ FindTombstoned(b) \/ EvictChunks(b)
      BY <1>1, <2>4 DEF PassFails, FindTombstoned, EvictChunks, store
    <2>5. QED
      BY <1>3, <2>1, <2>2, <2>3, <2>4 DEF Others
  <1>4. ASSUME NEW w \in Worker, NEW cs, SetStatus(Serves[w], cs, "error"), tainted' = tainted
        PROVE  ChunkKept(cp, c)
    <2>1. Serves[w] = cp /\ c \in cs => chunk'[cp][c].status = "error"
      BY <1>0, <1>4, StatusSet
    <2>2. QED
      BY <1>0, <1>2, <1>4, <2>1 DEF Recorded
  <1>5. ASSUME NEW w \in Worker, Mark(w)
        PROVE  ChunkKept(cp, c)
    <2>1. /\ SetStatus(Serves[w], Chunks(Todo(At(w, {"mark"}))), "ok")
          /\ vec' = vec /\ tainted' = tainted
      BY <1>5 DEF Mark
    <2>2. Serves[w] = cp /\ c \in Chunks(Todo(At(w, {"mark"}))) => chunk'[cp][c].status = "ok"
      BY <1>0, <2>1, StatusSet
    <2>3. Serves[w] = cp /\ c \in Chunks(Todo(At(w, {"mark"}))) => Recorded(cp, c)
      BY <2>1, <2>2 DEF Recorded
    <2>4. QED
      BY <1>0, <1>2, <2>1, <2>3
  <1>6. ASSUME NEW w \in Worker, NEW done \in SUBSET Todo(At(w, {"embed"})),
               NEW refused \in Todo(At(w, {"embed"})), IndexFails(w, done, refused)
        PROVE  ChunkKept(cp, c)
    <2>1. Written(Serves[w], done) /\ tainted' = tainted
      BY <1>6 DEF IndexFails
    <2>2. ASSUME chunk'[cp][c].status = "ok", Serves[w] = cp, c \in Chunks(done)
          PROVE  Recorded(cp, c)
      BY <2>1, <2>2 DEF Recorded
    <2>3. CASE SetStatus(Serves[w], Chunks(done), "ok")
      <3>1. Serves[w] = cp /\ c \in Chunks(done) => chunk'[cp][c].status = "ok"
        BY <1>0, <2>3, StatusSet
      <3>2. QED
        BY <1>0, <1>2, <2>1, <2>2, <2>3, <3>1
    <2>4. CASE chunk' = [chunk EXCEPT ![Serves[w]] = [d \in Chunk |->
              IF d = refused.chunk THEN [@[d] EXCEPT !.status = "error"]
              ELSE IF d \in Chunks(done) THEN [@[d] EXCEPT !.status = "ok"] ELSE @[d]]]
      <3> DEFINE new == [d \in Chunk |->
              IF d = refused.chunk THEN [chunk[cp][d] EXCEPT !.status = "error"]
              ELSE IF d \in Chunks(done) THEN [chunk[cp][d] EXCEPT !.status = "ok"]
              ELSE chunk[cp][d]]
      <3>1. chunk'[cp] = IF cp = Serves[w] THEN new ELSE chunk[cp]
        BY <1>0, <2>4
      <3>2. CASE cp # Serves[w] \/ c \notin Chunks(done) \cup {refused.chunk}
        BY <2>1, <3>1, <3>2 DEF ChunkKept
      <3>3. CASE cp = Serves[w] /\ c = refused.chunk
        <4>1. chunk'[cp][c] = [chunk[cp][c] EXCEPT !.status = "error"]
          BY <3>1, <3>3
        <4>2. QED
          BY <1>0, <2>1, <4>1 DEF ChunkKept, Recorded
      <3>4. CASE cp = Serves[w] /\ c \in Chunks(done) /\ c # refused.chunk
        <4>1. chunk'[cp][c] = [chunk[cp][c] EXCEPT !.status = "ok"]
          BY <3>1, <3>4
        <4>2. chunk'[cp][c].status = "ok"
          BY <1>0, <4>1
        <4>3. Recorded(cp, c)
          BY <2>2, <3>4, <4>2
        <4>4. QED
          BY <1>0, <2>1, <4>1, <4>3 DEF ChunkKept
      <3>5. QED
        BY <3>2, <3>3, <3>4
    <2>5. QED
      BY <1>6, <2>3, <2>4 DEF IndexFails
  <1>7. ASSUME NEW w \in Worker, Proceed(w) \/ Fail(w)
        PROVE  ChunkKept(cp, c)
    <2>1. \/ UNCHANGED chunk /\ UNCHANGED tainted
          \/ \E cs : SetStatus(Serves[w], cs, "error") /\ tainted' = tainted
          \/ Mark(w)
          \/ \E done \in SUBSET Todo(At(w, {"embed"})), refused \in Todo(At(w, {"embed"})) :
               IndexFails(w, done, refused)
      BY <1>7 DEF Proceed, LeaseNext, LeaseEmpty, DrainEnds, Prepare, Embed, EmbedGroup, EmbedOne,
              WriteVectors, Settle, AckItem, Reject, NackItem, Fail, FetchFails, FailChunkFails,
              SettleFails, CallFails, EmbedRefused, DropInputs, Crash, store
    <2>2. CASE UNCHANGED chunk /\ UNCHANGED tainted
      BY <1>1, <2>2
    <2>3. CASE \E cs : SetStatus(Serves[w], cs, "error") /\ tainted' = tainted
      BY <1>4, <2>3
    <2>4. CASE Mark(w)
      BY <1>5, <2>4
    <2>5. CASE \E done \in SUBSET Todo(At(w, {"embed"})), refused \in Todo(At(w, {"embed"})) :
                 IndexFails(w, done, refused)
      BY <1>6, <2>5
    <2>6. QED
      BY <2>1, <2>2, <2>3, <2>4, <2>5
  <1>8. CASE (\E b \in Corpus : Coordinate(b)) \/ Time \/ UNCHANGED pvars
    BY <1>1, <1>8 DEF Coordinate, ReadPage, SendChunk, BuildDocument, SendDocument, Time, Outlive,
                      Expire, RetryDue, pvars, store
  <1>9. QED
    BY <1>3, <1>7, <1>8 DEF PoolNext

-----------------------------------------------------------------------------
(* What a dead letter leaves behind *)

(* A worker that gives up the last delivery of a job has recorded it: none  *)
(* of the job's chunks is pending, but for those changed since.             *)
NackRecorded ==
  \A w \in Worker : \A it \in At(w, {"nack"}) :
    it.lease.job.corpus = Serves[w] /\ Final(it.lease) =>
      \A c \in it.lease.job.chunks \ tainted[Serves[w]] : chunk[Serves[w]][c].status # "pending"

LEMMA NackRecordedStep ==
  ASSUME TypeOK, PoolShape, NackRecorded, [PoolNext]_pvars
  PROVE  NackRecorded'
  <1> SUFFICES ASSUME NEW w \in Worker, NEW i \in work'[w], i.stage = "nack",
                      i.lease.job.corpus = Serves[w], Final(i.lease),
                      NEW c \in i.lease.job.chunks, c \notin tainted'[Serves[w]]
               PROVE  chunk'[Serves[w]][c].status # "pending"
    BY DEF NackRecorded, At, Final
  <1> DEFINE cp == Serves[w]
  <1>1. cp \in Corpus /\ StoreOK /\ tainted \in [Corpus -> SUBSET Chunk]
    BY PoolAssumption DEF PoolShape, RestOK
  <1>2. i \in work[w] \/ \E o \in work[w] : Onward(w, o, i)
    <2>1. ~Arrived(i)
      BY DEF Arrived
    <2>2. QED
      BY <2>1, ItemSteps
  <1>3. c \in Chunk
    <2>1. PICK o \in work[w] : o.lease = i.lease
      BY <1>2 DEF Onward
    <2>2. o.lease.job \in Job
      BY <2>1 DEF PoolShape, Holding, WorkOK, Item, Lease
    <2>3. QED
      BY <2>1, <2>2 DEF Job
  <1>4. CASE i \in work[w]
    <2>1. Failing(cp, c)
      BY <1>4 DEF Failing, At
    <2>2. CASE IngestWrites
      <3>1. PICK b \in Corpus, d \in Chunk, text \in Text, status \in BornStatus :
              Reingest(b, d, text, status)
        BY <2>2 DEF IngestWrites
      <3>2. /\ chunk' = [chunk EXCEPT ![b][d] = [text |-> text, status |-> status, live |-> TRUE]]
            /\ tainted' = [tainted EXCEPT ![b] =
                   IF Reading(b, d) \/ Failing(b, d) THEN @ \cup {d} ELSE @ \ {d}]
        BY <3>1 DEF Reingest
      <3>3. ~(b = cp /\ d = c)
        BY <1>1, <2>1, <3>2
      <3>4. chunk'[cp][c] = chunk[cp][c]
        BY <1>1, <1>3, <3>2, <3>3 DEF StoreOK
      <3>5. c \notin tainted[cp]
        BY <1>1, <3>2, <3>3
      <3>6. QED
        BY <1>4, <3>4, <3>5 DEF NackRecorded, At
    <2>3. CASE ChunkKept(cp, c)
      <3>1. c \notin tainted[cp]
        BY <2>3 DEF ChunkKept
      <3>2. chunk[cp][c].status # "pending"
        BY <1>4, <3>1 DEF NackRecorded, At
      <3>3. QED
        BY <2>1, <2>3, <3>2 DEF ChunkKept, Recorded
    <2>4. QED
      BY <1>1, <1>3, <2>2, <2>3, ChunkSteps
  <1>5. ASSUME NEW o \in work[w], Onward(w, o, i)
        PROVE  chunk'[cp][c].status # "pending"
    <2>1. i.lease = o.lease
      BY <1>5 DEF Onward
    <2>2. ~(o.stage = "queued" /\ \E tasks : i.stage = Verdict(w, o.lease.job, tasks))
      BY <2>1 DEF Verdict
    <2>3. SetStatus(cp, o.lease.job.chunks, "error")
      BY <1>5, <2>1, <2>2 DEF Onward
    <2>4. chunk'[cp][c].status = "error"
      BY <1>1, <1>3, <2>1, <2>3, StatusSet
    <2>5. QED
      BY <2>4
  <1>6. QED
    BY <1>2, <1>4, <1>5

(* A job no longer in the queue after the Nack of a worker under a current  *)
(* lease was on its last delivery, so the worker has recorded the failure   *)
(* against its chunks before giving it up.                                  *)
THEOREM PoolDeadLetterIsTerminal == PoolSpec => DeadLetterIsTerminal
  <1>1. PoolSpec => []NackRecorded
    <2>1. PoolInit => NackRecorded
      BY DEF PoolInit, NackRecorded, At
    <2>2. PoolInv /\ NackRecorded /\ [PoolNext]_pvars => NackRecorded'
      BY NackRecordedStep DEF PoolInv
    <2>3. QED
      BY <2>1, <2>2, PoolInvariant, PTL DEF PoolSpec
  <1>2. ASSUME PoolInv, PoolInv', NackRecorded, PoolNext, NEW w \in Worker, NEW it \in work[w],
               it.stage = "nack", it.lease.job.corpus = Serves[w], Delivered(it.lease) # {},
               \A r \in rows' : r.job # it.lease.job,
               NEW c \in it.lease.job.chunks, c \notin tainted[Serves[w]]
        PROVE  chunk[Serves[w]][c].status # "pending"
    <2>1. it.lease \in held
      BY <1>2 DEF PoolInv, PoolShape, Holding, LeasesHeld
    <2>2. it.lease \in held' \/ Nack(it.lease, TRUE) \/ UNCHANGED rows
      <3>1. CASE it \in work'[w]
        BY <1>2, <3>1 DEF PoolInv, PoolShape, Holding, LeasesHeld
      <3>2. CASE it \notin work'[w]
        BY <1>2, <3>2, LetGo DEF PoolInv
      <3>3. QED
        BY <3>1, <3>2
    <2>3. Final(it.lease)
      <3>1. QueueUse
        BY <1>2, StepUsesQueue DEF PoolInv
      <3>2. QED
        BY <1>2, <2>1, <2>2, <3>1, JobStays DEF PoolInv, PoolShape, Holding
    <2>4. QED
      BY <1>2, <2>3 DEF NackRecorded, At
  <1>3. PoolInv /\ PoolInv' /\ NackRecorded /\ [PoolNext]_pvars =>
          [\A w \in Worker : \A it \in At(w, {"nack"}) :
             /\ it.lease.job.corpus = Serves[w]
             /\ Delivered(it.lease) # {}
             /\ \A r \in rows' : r.job # it.lease.job
             => \A c \in it.lease.job.chunks \ tainted[Serves[w]] :
                  chunk[Serves[w]][c].status # "pending"]_pvars
    BY <1>2 DEF At
  <1>4. QED
    BY <1>1, <1>3, PoolInvariant, PTL DEF PoolSpec, DeadLetterIsTerminal

-----------------------------------------------------------------------------
(* An "ok" means the current text *)

Embedded(cp, c) == vec[cp][KindOf[chunk[cp][c].text]][c] = chunk[cp][c].text

(* OkIsCurrent, strengthened: as long as a chunk is live and not rewritten  *)
(* under somebody's hands, whoever works on it has its current text, a      *)
(* worker about to mark it has written that text's vector, and no query is  *)
(* about to evict it.                                                       *)
UpToDate(cp, c) ==
  chunk[cp][c].live /\ c \notin tainted[cp] =>
    /\ chunk[cp][c].status = "ok" => Embedded(cp, c)
    /\ c \notin evict[cp]
    /\ \A w \in Worker : \A it \in work[w] : \A t \in it.todo :
         Serves[w] = cp /\ t.chunk = c =>
           /\ t.text = chunk[cp][c].text
           /\ it.stage = "mark" => Embedded(cp, c)

AllUpToDate == \A cp \in Corpus, c \in Chunk : UpToDate(cp, c)

(* The vectors of a chunk change by an eviction of it, or when a worker of  *)
(* its corpus writes some of what it is embedding.                          *)
LEMMA VectorSteps ==
  ASSUME PoolShape, [PoolNext]_pvars, NEW cp \in Corpus, NEW c \in Chunk
  PROVE  \/ \A k \in Kind : vec'[cp][k][c] = vec[cp][k][c]
         \/ c \in evict[cp]
         \/ \E w \in Worker : \E tasks \in SUBSET Todo(At(w, {"embed"})) :
              Serves[w] = cp /\ Written(cp, tasks)
  <1>0. vec \in [Corpus -> [Kind -> [Chunk -> Text \cup {NoText}]]]
    BY DEF PoolShape, StoreOK
  <1>1. CASE UNCHANGED vec
    BY <1>1
  <1>2. ASSUME NEW b \in Corpus, EvictChunks(b)
        PROVE  (\A k \in Kind : vec'[cp][k][c] = vec[cp][k][c]) \/ c \in evict[cp]
    BY <1>0, <1>2 DEF EvictChunks
  <1>3. ASSUME NEW w \in Worker, NEW tasks \in SUBSET Todo(At(w, {"embed"})),
               Written(Serves[w], tasks), Serves[w] # cp
        PROVE  vec'[cp] = vec[cp]
    BY <1>0, <1>3 DEF Written
  <1>4. ASSUME NEW w \in Worker, Proceed(w) \/ Fail(w)
        PROVE  UNCHANGED vec \/ \E tasks \in SUBSET Todo(At(w, {"embed"})) : Written(Serves[w], tasks)
    <2>1. CASE WriteVectors(w)
      BY <2>1 DEF WriteVectors
    <2>2. CASE \E done \in SUBSET Todo(At(w, {"embed"})), refused \in Todo(At(w, {"embed"})) :
                 IndexFails(w, done, refused)
      BY <2>2 DEF IndexFails
    <2>3. QED
      BY <1>4, <2>1, <2>2 DEF Proceed, LeaseNext, LeaseEmpty, DrainEnds, Prepare, Embed, EmbedGroup,
          EmbedOne, Mark, Settle, AckItem, Reject, NackItem, Fail, FetchFails, FailChunkFails,
          SettleFails, CallFails, EmbedRefused, DropInputs, Crash, store
  <1>5. CASE \/ \E b \in Corpus : Coordinate(b) \/ (Others(b) /\ ~EvictChunks(b))
             \/ Time \/ UNCHANGED pvars
    BY <1>1, <1>5 DEF Coordinate, ReadPage, SendChunk, BuildDocument, SendDocument, Others, Reingest,
          Tombstone, RequeueFailedChunks, PassFails, FindTombstoned, Time, Outlive, Expire, RetryDue,
          pvars, store
  <1>6. QED
    BY <1>1, <1>2, <1>3, <1>4, <1>5 DEF PoolNext

(* Writing what a worker is embedding puts the current text of a chunk that *)
(* is up to date into the index, and spoils no vector that was current.     *)
LEMMA WrittenCurrent ==
  ASSUME PoolShape, NEW cp \in Corpus, NEW c \in Chunk, UpToDate(cp, c),
         chunk[cp][c].live, c \notin tainted[cp],
         NEW w \in Worker, Serves[w] = cp,
         NEW tasks \in SUBSET Todo(At(w, {"embed"})), Written(cp, tasks),
         chunk'[cp][c].text = chunk[cp][c].text
  PROVE  Embedded(cp, c) \/ c \in Chunks(tasks) => Embedded(cp, c)'
  <1> DEFINE text == chunk[cp][c].text
             k    == KindOf[text]
             Hits == {t \in tasks : t.chunk = c /\ KindOf[t.text] = k}
  <1>1. text \in Text /\ k \in Kind
    BY PoolAssumption DEF PoolShape, StoreOK
  <1>2. \A t \in tasks : t.chunk = c => t.text = text
    BY DEF Todo, At, UpToDate
  <1>3. vec'[cp][k][c] = IF \E t \in tasks : t.chunk = c /\ KindOf[t.text] = k
                           THEN (CHOOSE t \in tasks : t.chunk = c /\ KindOf[t.text] = k).text
                           ELSE vec[cp][k][c]
    <2>1. vec' = [vec EXCEPT ![cp] = [l \in Kind |-> [d \in Chunk |->
            IF \E t \in tasks : t.chunk = d /\ KindOf[t.text] = l
              THEN (CHOOSE t \in tasks : t.chunk = d /\ KindOf[t.text] = l).text
              ELSE vec[cp][l][d]]]]
      BY DEF Written
    <2>2. cp \in DOMAIN vec
      BY DEF PoolShape, StoreOK
    <2>3. QED
      BY <1>1, <2>1, <2>2
  <1>4. CASE \E t \in tasks : t.chunk = c /\ KindOf[t.text] = k
    <2>1. (CHOOSE t \in tasks : t.chunk = c /\ KindOf[t.text] = k) \in tasks
          /\ (CHOOSE t \in tasks : t.chunk = c /\ KindOf[t.text] = k).chunk = c
      BY <1>4
    <2>2. vec'[cp][k][c] = text
      BY <1>2, <1>3, <1>4, <2>1
    <2>3. QED
      BY <2>2 DEF Embedded
  <1>5. CASE ~\E t \in tasks : t.chunk = c /\ KindOf[t.text] = k
    <2>1. c \notin Chunks(tasks)
      BY <1>2, <1>5 DEF Chunks
    <2>2. QED
      BY <1>3, <1>5, <2>1 DEF Embedded
  <1>6. QED
    BY <1>4, <1>5

(* A chunk ingest does not write stays up to date.                          *)
LEMMA KeptUpToDate ==
  ASSUME PoolShape, [PoolNext]_pvars, NEW cp \in Corpus, NEW c \in Chunk,
         ChunkKept(cp, c), UpToDate(cp, c)
  PROVE  UpToDate(cp, c)'
  <1> SUFFICES ASSUME chunk'[cp][c].live, c \notin tainted'[cp]
               PROVE  /\ chunk'[cp][c].status = "ok" => Embedded(cp, c)'
                      /\ c \notin evict'[cp]
                      /\ \A w \in Worker : \A i \in work'[w] : \A t \in i.todo :
                           Serves[w] = cp /\ t.chunk = c =>
                             /\ t.text = chunk'[cp][c].text
                             /\ i.stage = "mark" => Embedded(cp, c)'
    BY DEF UpToDate
  <1>1. /\ chunk[cp][c].live /\ c \notin tainted[cp]
        /\ chunk'[cp][c].text = chunk[cp][c].text
        /\ chunk'[cp][c].text \in Text
    BY DEF ChunkKept, PoolShape, StoreOK
  <1>2. /\ chunk[cp][c].status = "ok" => Embedded(cp, c)
        /\ c \notin evict[cp]
        /\ \A w \in Worker : \A it \in work[w] : \A t \in it.todo :
             Serves[w] = cp /\ t.chunk = c =>
               t.text = chunk[cp][c].text /\ (it.stage = "mark" => Embedded(cp, c))
    BY <1>1 DEF UpToDate
  <1>3. Embedded(cp, c) => Embedded(cp, c)'
    <2>1. KindOf[chunk[cp][c].text] \in Kind
      BY <1>1, PoolAssumption
    <2>2. CASE \A k \in Kind : vec'[cp][k][c] = vec[cp][k][c]
      BY <1>1, <2>1, <2>2 DEF Embedded
    <2>3. CASE \E w \in Worker : \E tasks \in SUBSET Todo(At(w, {"embed"})) :
                 Serves[w] = cp /\ Written(cp, tasks)
      BY <1>1, <2>3, WrittenCurrent
    <2>4. QED
      BY <1>2, <2>2, <2>3, VectorSteps
  <1>4. c \notin evict'[cp]
    <2>1. \/ evict' = evict
          \/ \E b \in Corpus : EvictChunks(b) \/ FindTombstoned(b)
      <3>1. CASE \E w \in Worker : Proceed(w) \/ Fail(w)
        BY <3>1, WorkerLeaves
      <3>2. CASE \E b \in Corpus : Coordinate(b) \/ Others(b)
        BY <3>2 DEF Coordinate, ReadPage, SendChunk, BuildDocument, SendDocument, Others, Reingest,
          Tombstone, RequeueFailedChunks, PassFails
      <3>3. CASE Time \/ UNCHANGED pvars
        BY <3>3 DEF Time, Outlive, Expire, RetryDue, pvars
      <3>4. QED
        BY <3>1, <3>2, <3>3 DEF PoolNext
    <2>2. evict \in [Corpus -> SUBSET Chunk]
      BY DEF PoolShape, RestOK
    <2>3. QED
      BY <1>1, <1>2, <2>1, <2>2 DEF EvictChunks, FindTombstoned
  <1>5. ASSUME chunk'[cp][c].status = "ok"
        PROVE  Embedded(cp, c)'
    <2>1. CASE chunk[cp][c].status = "ok"
      BY <1>2, <1>3, <2>1
    <2>2. ASSUME NEW w \in Worker, Serves[w] = cp, c \in Chunks(Todo(At(w, {"mark"})))
          PROVE  Embedded(cp, c)'
      BY <1>2, <1>3, <2>2 DEF Chunks, Todo, At
    <2>3. ASSUME NEW w \in Worker, Serves[w] = cp, NEW done \in SUBSET Todo(At(w, {"embed"})),
                 Written(cp, done), c \in Chunks(done)
          PROVE  Embedded(cp, c)'
      BY <1>1, <2>3, WrittenCurrent
    <2>4. QED
      BY <1>5, <2>1, <2>2, <2>3 DEF ChunkKept, Recorded
  <1>6. ASSUME NEW w \in Worker, NEW i \in work'[w], NEW t \in i.todo, Serves[w] = cp, t.chunk = c
        PROVE  /\ t.text = chunk'[cp][c].text
               /\ i.stage = "mark" => Embedded(cp, c)'
    <2>1. CASE i \in work[w]
      BY <1>1, <1>2, <1>3, <1>6, <2>1
    <2>2. ASSUME NEW o \in work[w], Onward(w, o, i)
          PROVE  /\ t.text = chunk'[cp][c].text
                 /\ i.stage = "mark" => Embedded(cp, c)'
      <3> DEFINE tasks == {u \in Fetched(w, o.lease.job) : Current(o.lease.job, u)}
      <3>1. CASE i.stage = "ready" /\ i.todo = tasks
        <4>1. t.text = chunk[cp][c].text
          BY <1>6, <3>1 DEF Fetched
        <4>2. QED
          BY <1>1, <3>1, <4>1
      <3>2. CASE i.todo \subseteq o.todo
        <4>1. t.text = chunk'[cp][c].text
          BY <1>1, <1>2, <1>6, <3>2
        <4>2. ASSUME o.stage = "embed", Written(cp, Todo(At(w, {"embed"})))
              PROVE  Embedded(cp, c)'
          <5>1. c \in Chunks(Todo(At(w, {"embed"})))
            BY <1>6, <3>2, <4>2 DEF Chunks, Todo, At
          <5>2. QED
            BY <1>1, <1>6, <4>2, <5>1, WrittenCurrent
        <4>3. i.stage = "mark" => o.stage = "embed" /\ Written(cp, Todo(At(w, {"embed"})))
          BY <1>6, <2>2 DEF Onward, Verdict
        <4>4. QED
          BY <4>1, <4>2, <4>3
      <3> HIDE DEF tasks
      <3>3. i.todo = {} \/ (i.stage = "ready" /\ i.todo = tasks) \/ i.todo \subseteq o.todo
        BY <2>2 DEF Onward, tasks
      <3>4. QED
        BY <1>6, <3>1, <3>2, <3>3
    <2>3. ~Arrived(i)
      BY <1>6 DEF Arrived
    <2>4. QED
      BY <2>1, <2>2, <2>3, ItemSteps
  <1>7. QED
    BY <1>4, <1>5, <1>6

(* A chunk ingest writes is up to date while nobody reads it, and tainted   *)
(* otherwise; the write marks none as embedded.                             *)
LEMMA WrittenUpToDate ==
  ASSUME PoolShape, IngestWrites, NEW cp \in Corpus, NEW c \in Chunk, UpToDate(cp, c)
  PROVE  UpToDate(cp, c)'
  <1>1. PICK b \in Corpus, d \in Chunk, text \in Text, status \in BornStatus :
          Reingest(b, d, text, status)
    BY DEF IngestWrites
  <1>2. /\ chunk' = [chunk EXCEPT ![b][d] = [text |-> text, status |-> status, live |-> TRUE]]
        /\ tainted' = [tainted EXCEPT ![b] =
               IF Reading(b, d) \/ Failing(b, d) THEN @ \cup {d} ELSE @ \ {d}]
        /\ vec' = vec /\ work' = work /\ evict' = evict
    BY <1>1 DEF Reingest
  <1>3. /\ chunk \in [Corpus -> [Chunk -> [text : Text, status : Status, live : BOOLEAN]]]
        /\ tainted \in [Corpus -> SUBSET Chunk]
    BY DEF PoolShape, StoreOK, RestOK
  <1>4. CASE b = cp /\ d = c
    <2>1. chunk'[cp][c].status # "ok"
      BY <1>2, <1>3, <1>4, PoolAssumption
    <2>2. c \notin tainted'[cp] => ~Reading(cp, c)
      BY <1>2, <1>3, <1>4
    <2>3. QED
      BY <1>2, <2>1, <2>2 DEF UpToDate, Reading, Chunks
  <1>5. CASE ~(b = cp /\ d = c)
    <2>1. chunk'[cp][c] = chunk[cp][c]
      BY <1>2, <1>3, <1>5
    <2>2. c \in tainted'[cp] <=> c \in tainted[cp]
      BY <1>2, <1>3, <1>5
    <2>3. Embedded(cp, c)' <=> Embedded(cp, c)
      BY <1>2, <2>1 DEF Embedded
    <2>4. QED
      BY <1>2, <2>1, <2>2, <2>3 DEF UpToDate
  <1>6. QED
    BY <1>4, <1>5

(* In every reachable state a live chunk that is "ok" has the vector of its *)
(* current text, unless ingest rewrote it under a worker's hands.           *)
THEOREM PoolOkIsCurrent == PoolSpec => []OkIsCurrent
  <1>1. PoolInit => AllUpToDate
    <2> SUFFICES ASSUME PoolInit, NEW cp \in Corpus, NEW c \in Chunk
                 PROVE  UpToDate(cp, c)
      BY DEF AllUpToDate
    <2>1. chunk[cp][c] \in [text : FirstText, status : {"pending"}, live : {TRUE}]
      BY DEF PoolInit
    <2>2. evict[cp] = {} /\ \A w \in Worker : work[w] = {}
      BY DEF PoolInit
    <2>3. QED
      BY <2>1, <2>2 DEF UpToDate
  <1>2. PoolShape /\ AllUpToDate /\ [PoolNext]_pvars => AllUpToDate'
    BY ChunkSteps, KeptUpToDate, WrittenUpToDate DEF AllUpToDate
  <1>3. AllUpToDate => OkIsCurrent
    BY DEF AllUpToDate, UpToDate, Embedded, OkIsCurrent
  <1>4. PoolInv => PoolShape
    BY DEF PoolInv
  <1>5. QED
    BY <1>1, <1>2, <1>3, <1>4, PoolInvariant, PTL DEF PoolSpec

=============================================================================
