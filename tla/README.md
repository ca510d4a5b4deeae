# dir2mcp: a TLA+ verification of its indexing pipeline, its recovery and its paid calls

dir2mcp indexes a directory and serves it to language-model clients. Between a file on disk and a
search hit lie the watcher's queues, the documents table, a queue of embedding jobs, a vector index
per axis (text and code) and the files the index is persisted in, written by different goroutines
and sometimes by different processes; no transaction spans any two of them. Beside that path stand
two more protocols: a rebuild of everything that must survive a kill at any point, and tool calls
that are paid for and must be neither run nor charged twice. This directory models them, one
critical section, statement or file operation at a time. TLC checks the models on small instances;
TLAPS proves most of their safety for every instance.

## 1. The system

| part (source under `src/internal`) | state | operations | who calls it | hard because |
|---|---|---|---|---|
| watcher (`ingest/watch.go`) | kernel buffer, a debounce timer per path, bounded job queue, rescan slot, ledger of drops | event loop, timer callbacks, worker, periodic rescan | file events | timers re-armed while they fire, a full queue, rules that change, whole directories that move |
| ingest scan (`ingest/service.go`) | one row and one set of chunks per document | runScan, processDocument, archives, the closing sweep | watcher, start-up, reindex | a document is several commits; what was unseen is tombstoned |
| job queue (`embedqueue/membroker.go`, `sqlitebroker.go`) | jobs pending, in flight, dead; lease tokens, deadlines, attempt counts | Enqueue, Lease / LeaseForCorpus, Ack, Nack, Stats | coordinators, workers, several processes on SQLite | leases expire under working workers; two brokers must agree; reclaim and claim are one call |
| coordinator (`coordinator.go`, `coordinator_loop.go`) | none between ticks | EnqueuePending | ticking loop, one per corpus | polls a database other actors change; two reads under late chunking |
| worker (`worker.go`, `index/embedding_worker.go`) | its leases and how far each has got | Run: drain, prepare, embed, index, mark, settle | a pool of goroutines, or `embed-worker` processes | five calls to three stores per job, each of which may fail, and a process that may die between any two |
| chunk table (`store/sqlite_store.go`, `requeue.go`) | text, liveness, embedding status per chunk | pending page, task by id, in-place upsert, soft delete, mark ok / failed, requeue | everybody | status is what the whole pipeline polls |
| vector index, disk (`index/diskindex`) | append-only segment, locator map, identity sidecar | Upsert, BatchUpsert, Delete, Search, Save, Load, Reset | workers, queries, autosave, start-up | crash consistency of two files |
| vector index, memory and its snapshots (`index/hnsw_index.go`, `persistence.go`, `reconcile.go`) | graph, dirty flag, snapshot file | upsert, autosave, LoadAll, reconciliation | daemon | what the snapshot lacks after a kill is known only to the database |
| reindex and start-up repair (`cli/reindex.go`, `cli/up.go`) | backups of the index files, a table of saved hashes, a commit marker | stage, rebuild, commit, roll back, recover | operator, start-up | a kill at any rename or statement of a multi-file swap |
| paid tool calls (`mcp/payment.go`, `nonce_ledger.go`) | nonce ledger and outcomes, in memory and in the store | verify, reserve, run, settle, commit, replay | HTTP requests | money: retries, restarts, lost answers, a store that fails |
| retrieval (`retrieval/service.go`) | none that lasts | Search, Ask, EvictChunks | MCP tools | evicts vectors of chunks it found tombstoned a moment ago |
| store's caches and lifetime (`store/list_files_cache.go`, `Close`) | memo by data_version, active count | list, close | requests | a memo that outlives a commit |
| everything else | | config, corpusfs, mcp server, provider clients, subtitle and text helpers, bridge, annotator | | pure functions, I/O, or per-request code; see `components` in PROJECT.json |

How they meet. A file event arms a timer; the timer, once quiet, hands a job to the worker, and
what does not fit in the queue becomes a request for a rescan. A job or a scan writes the
document's row without its hash, replaces its chunks as pending, and stamps the hash last. A tick
of the coordinator reads a page of pending chunks and enqueues a job for each, deduplicated by the
broker; a worker leases up to a batch of jobs, looks each one's chunk up again in its own store,
drops or rejects what does not fit, sends the rest to the provider axis by axis, writes the vectors
to the index, marks the chunks and acks the jobs. Nothing notifies anybody: every retry comes from
polling or rescanning, so the pipeline is right as long as "pending", "hash recorded" and "rescan
requested" are true of exactly what still needs, or no longer needs, work. Those three relations
are what the invariants of `EmbedPool`, `IngestScan` and `Watch` state. `reindex` takes the index
files and the hashes away and puts new ones in their place, and every start repairs what a killed
one left. Paid calls use the same store and nothing else of the pipeline.

What makes each part correct:

* watcher: as long as the index differs from the corpus, something on its way will correct it; no
  file that was there all the time is tombstoned; a drop is always followed by a rescan;
* ingest scan: a recorded hash names the content the chunks were cut from, whatever crashes; after
  a scan, what did not change meanwhile is served as it is; what is served never blinks;
* queue: one live job per unit of work; deliveries bounded by the budget; a token names one
  delivery, so a late settle hits nothing else; an unexpired lease is never taken away; every job
  of a served corpus gets its turn;
* pool: a chunk marked embedded has its current text's vector; no two current deliveries embed the
  same chunk; a dead-lettered job leaves no pending chunk behind; another corpus's job is given
  back untouched; every pending chunk is settled in the end;
* disk index: searches read what was acknowledged; every crash recovers it, under its identity;
* reindex: what the next recovery leaves live is replaced as a whole; no recorded hash is lost but
  by a finished rebuild; what a scan skips can be found; everything left behind is settled;
* paid calls: one request per nonce; nothing recorded is run again; what was paid for has a result
  and keeps it; a settlement known to be done is not sent again; every stored result is settled.

## 2. Modules

| module | what it models |
|---|---|
| `EmbedQueue` | the Broker interface: rows, leases, budget, dedup, reclaim; `Durable` picks SQLite's transaction or the memory broker's behaviour on ErrNoJob. The abstract specification. |
| `MemBroker` | the in-process broker: its FIFO, in-flight map and dead letters; implements `EmbedQueue` (`Queue == INSTANCE EmbedQueue WITH ...`) and adds order |
| `EmbedPool` | EXTENDS `EmbedQueue` with the coordinator, the workers, the chunk table, the vector index as the pool sees it, and ingest, requeue and query eviction beside them |
| `DiskIndex` | the disk index, one file operation per step, with faults, kills and power losses |
| `IngestScan` | the scan and the watcher's jobs over the documents and chunks tables, one commit per step, with archives, failures, crashes and a corpus that changes underneath |
| `Watch` | the watcher: kernel buffer, event loop, timers, queue, rescan slot, worker, and the initial scan beside it |
| `Reindex` | the rebuild, its backups, marker and saved hashes, both commands' recovery, and the daemon's memory index with its snapshots |
| `PaidCalls` | gated calls from proof to settlement over the ledger and the outcomes, in memory and in the store |
| `EmbedQueueProofs`, `MemBrokerProofs`, `EmbedPoolProofs`, `DiskIndexProofs`, `IngestScanProofs`, `WatchProofs`, `ReindexProofs`, `PaidCallsProofs` | theorems |
| `MCMemBroker`, `MCEmbedPool`, `MCDiskIndex`, `MCIngestScan`, `MCWatch`, `MCReindex`, `MCPaidCalls` | instances for TLC |

`IngestScan` sees of embedding only that replaced chunks are pending, `Watch` of a document's
processing only what is served when it is done, and `Reindex` of both only a few steps per
document: each module has in full what the next one takes as a step.

### EmbedQueue and the code

`rows` is the table `embed_jobs` (SQLite) or the pending list and the in-flight map together
(memory); `dead` is the dead letters; `held` is history: the leases callers still intend to settle,
expired or not. A deadline is only ever compared with the clock, so a row's `age` is `live` before
it, `due` at it and `past` after it; the code reclaims only what is strictly past
(`now.After(deadline)`, `deadline_ns < ?`), and `LiveLeaseKept` depends on it. A Nack's `notBefore` is `wait`. A
token is fresh when no row and no caller has it: the memory broker counts, SQLite draws 128 bits,
and both are that. Lease reclaims first, so `LeaseForCorpus` claims from `Reclaimed`; when nothing
is claimable the memory broker has still reclaimed, while the SQLite broker leaves its transaction
by the deferred rollback (`LeaseNoJob`). A text stands for a payload hash.

### MemBroker and the code

`pending` is the slice, `inflight` the map (its key is the job's token), both under `b.mu`, so each
method is one action. Reclaimed jobs are appended in Go's map order, which may be any.

### EmbedPool and the code

A worker's state is the set of its leases, each in a stage: `leased` (draining), `queued` (to be
prepared), `ready` (to be embedded with its axis), `solo` (after a failed batch, one by one),
`embed` (with the provider), `mark`, `ack`, `reject`, `nack`, `unrecorded`. Each action is the code
between two calls to another component: `Prepare` is the chain of gates servesCorpus, acceptsJob,
routing to the current axis; `EmbedGroup` filters leases that have run out; `WriteVectors` is the
index upsert, `Mark` MarkEmbedded, `Reject` rejectJob with its record on the final delivery.
`CallFails`, `EmbedRefused`, `DropInputs` and `IndexFails` are the error returns of EmbedAndIndex:
transient, permanent, inputs dropped by size or by bisection, and a batch upsert replayed one by
one until a vector is refused. The coordinator's `ReadPage`, `SendChunk`, `BuildDocument`,
`SendDocument` keep the page and the document job in variables of their own, because both are read
before they are used. `Reingest` is the in-place upsert of a (representation, ordinal);
`FindTombstoned` and `EvictChunks` are the two halves of a query's liveness pass.

`tainted` is history: the chunks rewritten while somebody had read them and not yet written back.
`OkIsCurrent` excepts them; section 5 says what the exception hides.

### DiskIndex and the code

A segment is a sequence of cells: the header, then records (a vector, or a tombstone as a record
without one), with `Torn` for a record cut off and `Gap` for a hole. `seg` is the file as the file
system shows it; `disk` is the set of contents a power loss may leave, which an fsync reduces to
`{seg}`; `stale` is what the file's name may still lead to until its directory is synced (no file
after a creation, the old file after a rename); `side` and `sideDisk` are the same for the sidecar.
`loc`, `end`, `identity`, `dirty`, `view` are the fields of the struct. All operations hold the
index's lock, so `step` is the one operation under way, and a crash may come between any two steps.
A start-up error ends the process, which is what `Kill` does at a start-up step. `acked` and
`limbo` are history: what completed operations left, and what uncompleted ones may have left of
each chunk. `spoiled` is history too: a rollback whose truncation failed, or a header of which only
the first write went through.

### IngestScan and the code

`disk` is the corpus, with a change signal that is cheaper than the content (mtime and size, or an
ETag) for the paths in `Signalled`; `doc` is the documents table, `chunks` the content a document's
chunks were cut from and whether they are tombstoned. `pc` is where the one worker of the service
stands between two commits: the row is written without its hash (`generate`), the chunks are
replaced in one transaction, and the hash is stamped last (`finalize`, finalizeContentHash); for an
archive the members come first and the container's hash is sealed when all of them went through
(`extract`, `members`). `listed` is what discovery saw, which may be older than what is read;
`existing` and `seen` are the maps the closing sweep (markMissingAsDeleted) subtracts. Every error
return is a step of its own that costs a fault, and `Crash` forgets the worker's variables.
`clean` is history: the sources that neither changed nor failed since the scan began.
`Drift` names kinds of change that break `ReconciledAfterScan`, each on its own (section 5); an
instance without a kind does not make those changes. The kinds are stated on what the tables and
the worker hold (`Restores`, `Narrows`), not on the order of edits, so that excluding them suffices
for any number of edits: a hash may not come back to a document that is tombstoned, whose chunks
are, that is out of the corpus at the moment, or that the running scan has missed and will sweep
(`Out`). An archive packs its own members only.

### Watch and the code

`events` is the kernel's buffer with `overflow` for ErrEventOverflow; `pending[p]` is the map entry
of a path and `timers` the timers that are not stopped and not finished, because Stop does not stop
a callback that already runs: the two differ exactly when a timer was re-armed while it fired. The
stages of a timer are the sections of its callback (lock, send or drop, count). `fire` is the job
channel, `rescanReq` the one-place channel of rescans, `unreconciledDrops` the counter, `dropped`
what the running rescan has claimed of it. `at[w]` is where a worker stands: `watch` is the
watcher's own, `initial` the start-up scan, which runs beside it on the same service when `Drift`
has "overlap". `tree` is a directory being registered, whose files are turned into events.
`steady` and `late` are history: the files eligible ever since the current job began, and those a
failure has left to the ticker.

### Reindex and the code

`live` and `back` are the index files and their backups, `marker` the commit marker, `snap` the
table of saved hashes; `hash`, `rows`, `queued`, `bad` are what the store knows of each document;
`mem`, `dirty`, `saving`, `copy`, `changed` are the daemon's index and a snapshot being written
while upserts go on. `pc` walks through both commands: recovery (`finish` the removal of the
backups of a committed rebuild, or `adopt` them), `load`, `restore` and `drop` of the hashes,
`reconcile`, `serving`; and `snapshot`, `clear`, `forget`, `stage`, `build`/`cut`/`stamp` per
document, `commit`, `unlink`, `discard`, with `undo_hashes`, `undo_drop`, `undo_files` as the
rollback. Restoring the hashes is an UPDATE and a DROP that are not one transaction
(RestoreContentHashes), so they are two steps. A document's contents are numbered, and an edit
moves on to the next number.

### PaidCalls and the code

`call[c]` is one goroutine's progress from the gate to the answer; `Lock` is the lock of its
execution key. `ledger` and `outcome` are the maps under nonceMu and paymentMu, `ledgerRow` and
`outcomeRow` the store's tables. What is kept for a nonce lives for fifteen minutes
(nonceLedgerDefaultTTL) and a proof for at most five (DefaultMaxTimeoutSeconds), so `shut[n]`, the
end of the window, comes before anything of `n` may expire; a call that reserves has just been
verified, so nothing expires between its check and its row. `captured`, `ran`, `produced` and
`sure` are history: whose money the facilitator took, whose tool ran, whose tool gave a result, and
what this process knows to be settled. The facilitator may do a settlement and lose the answer.

### Mutated forms

Definitions marked "Mutated form" are not used by any specification. Each is a plausible slip in
the code it stands beside (a dropped guard, an off-by-one, a missing reset, a swapped order), kept
to confirm that the property named with it in PROJECT.json ("mutants") notices.

## 3. Runs

| run | instance | shows |
|---|---|---|
| `mem_broker` | two jobs of two corpora with one chunk id, 2 tokens, budget 2; corpus B served | every step of the memory broker is a step of `EmbedQueue`; a job of B is delivered whatever of A, delayed or failing is in front of it |
| `pool_safety` | 2 workers, 1 chunk, 2 texts, queries evicting, 3 mishaps | type, queue invariants, the pool as an implementation of the queue, live leases, `OkIsCurrent`, `NoDoubleWork` |
| `pool_batch` | 1 worker with a batch of 2, 2 chunks, 2 mishaps, SQLite broker | over dropped inputs, partial index writes and isolation one by one, a dead-lettered job leaves no pending chunk |
| `pool_documents` | late chunking: 2 chunks of one representation, 2 axes, 2 workers, 2 mishaps | document jobs built from a second read, with chunks moving to the other axis, never mark old text |
| `pool_foreign` | 2 corpora, 1 worker each, a broker that cannot filter, 1 mishap | a foreign delivery changes no store and the job survives it |
| `pool_liveness` | memory broker, one fitting and one unfitting worker, 3 mishaps, fairness | every pending chunk is settled |
| `disk_index` | 2 chunks, 2 identities, 2 contents, batches of 2, 4 cells, 2 mishaps among six kinds of failed file operation, kills, power losses | what is acknowledged is found, survives, and keeps its identity |
| `ingest_scan` | a file with a change signal, an archive with one member, two contents and a refused one, 2 edits, 1 fault or crash (968,905 states) | recorded hashes are honest, an undisturbed scan reconciles, nothing present is tombstoned, nothing blinks, the index converges |
| `watch` | one file in a directory, 2 contents, a buffer and a queue of one place, 2 timers at once, 2 changes of the corpus, 1 fault (271,345 states) | no change is forgotten and none waits for the ticker; drops are rescanned; present files are kept |
| `paid_calls` | 2 goroutines, 1 nonce, 2 requests, 1 fault, 1 restart (70,886 states) | one request per nonce, no second run, no lost result, no settlement of what is known settled, every stored result settled |
| `reindex` | 2 index files, 1 document with 2 contents, 2 faults, 2 kills (243,437 states) | atomic replacement, hashes kept, skipped means searchable, everything left behind is settled |
| `disk_save` (violation) | one failed directory sync | Save leaves the memory describing the old file |

Bounds of the queue, pool and disk runs, and why they are enough. `MaxAttempts = 2` has a first and
a final delivery, which is all the code tells apart (`attempts >= maxAttempts`). `Token` is finite
and a token is reused only when nobody can name it any more; three of them let two workers hold
leases while an abandoned one is outstanding. `MaxMishaps` bounds rewrites, tombstones, requeues,
failed calls, crashes and outlived leases together; the runs use 1 to 3, and every hazard listed
needs at most two of them in a row (an outlived lease and a rewrite; a failed record and a crash).
One chunk suffices for everything that concerns a job's life; a second one is there when jobs share
a batch or a document, which is why `pool_batch` and `pool_documents` are instances of their own.
Two workers suffice because every property compares at most two deliveries. Four cells of a segment
hold a header, a batch of two and one append more, or a record, its successor and a compaction:
enough for a shorter append over the remains of a longer one. `SYMMETRY` in the disk runs permutes
identities and contents, which are only compared.

Bounds of the others. `ingest_scan`: the two edits give a content and its successor during one
scan, or one before and one within it; the archive comes, goes, is packed
again with its member changed, or has it over the size cap; documents do not meet in any step but
the sweep, which compares sets. `watch`: with one place each, the second event overflows the buffer and
the second job is dropped; two timers of one path are alive at once only while the older is firing,
and a third would need the older to be held at the map's lock over two debounce delays. Two files
in the root with one content (1.2 million states) pass as well. `paid_calls`: two goroutines
contend for a key or, with two requests, for a nonce; nonces share nothing but the ledger's
capacity, and `Evict` stands for the pressure of the others. `reindex`: two files are what
atomicity is about; two kills let recovery itself be killed. Two documents with one failure and
one kill (5 million states) pass as well.

`CHECK_DEADLOCK FALSE` is where the system does stop: a start-up of the disk index refuses a
segment with half a header, and a watcher or a scan whose bounds on edits are used up has nothing
left to do.

Fairness. *Pool* (`FairPool`): the coordinator's loop ticks, the worker's loop polls and finishes
the step it is at (`WF` of `Coordinate` and of `Proceed`: both are goroutines in a loop with a
ticker or a poll interval); wall clocks pass, so leases whose holder is gone expire and delays end;
a text that kills its worker does so when the worker gets there. *MemBroker*: the lease of a served
corpus is strongly fair, because with a finite `Token` a lease can be disabled for want of a token,
which cannot happen to the code's counter. *IngestScan*: the worker goes on (`WF`), and a plain
scan is started again and again, as the safety ticker does (`SF`, since a job may be under way
whenever it fires). *Watch*: the event loop, the runtime's timers and the worker go on (`WF`); of
two ready channels Go's select takes either at random, so neither is starved (`SF` of `TakeJob` and
`TakeRescan`); `CatchesUp` does without the ticker, which is assumed only inside `Converges`.
*PaidCalls*: a goroutine goes on (`WF`), a mutex reaches everyone who waits (`SF` of `Lock`, Go's
starvation mode), a client without an answer asks again, and the facilitator does not refuse one
settlement for ever (`SF`); the last two are assumptions about the outside that the promise "every
stored result is settled" is made under. *Reindex*: a running command goes on and somebody starts
the daemon again (`WF`). No failure, edit or crash is fair: none ever has to happen.

## 4. What is proved

TLAPS proves the following for every value of the constants that satisfies the assumptions beside
them: any number of files, documents, chunks, workers, calls, nonces, tokens, any budget and bound.

* *EmbedQueueProofs*: `TypeCorrect`, `QueueSafe`, `LeaseKept`: `QSpec` keeps `TypeOK` and
  `QueueInv` and satisfies `LiveLeaseKept`. `TypeOK /\ QueueInv` is inductive as it stands. One
  lemma per kind of step carries the argument; the ones about a reclaim are stated on the set
  `Reclaimed`, because Lease claims from the reclaimed rows in the same step, and use that every
  reclaimed row descends from exactly one row of the same job.
* *MemBrokerProofs*: `MemBrokerImplements`: `MSpec => ImplementsQueue`. The queue's rows are a set,
  the broker's FIFO a sequence, so a job taken out of the FIFO is a row taken out of the queue only
  if no job is there twice; the invariant `MemInv` says so of the FIFO and the in-flight map
  together, and that each delivery has a token of its own. Jobs that come back do so in the order
  of a permutation of a finite set, about which the lemmas at the beginning are.
* *EmbedPoolProofs*: `PoolImplementsQueue`: `PoolSpec => QSpec`. A worker settles a lease by value;
  that this is a step of the queue needs the lease to be in `held`, which is not visible in any
  single action. The strengthening is `PoolShape`: every item of a worker is an `Item` (`WorkOK`),
  its lease is held (`LeasesHeld`), and no lease is in two items or with two workers
  (`OneHolder`), beside the types of the store, the coordinator and the rest. `OneHolder` is what
  lets a worker drop its leases without taking another's; it is preserved by Lease because a fresh
  token is in no held lease. `PoolTypeCorrect`, `PoolQueueSafe`, `PoolLeaseKept` follow from the
  refinement and the queue's theorems.

  What the pool promises beyond the queue is proved from `PoolInv`, which adds that a document job
  is minted under late chunking only and names chunks of its own representation (`JobsCoordinated`),
  and that an item has passed the gates its stage is behind: what it is to do is among its job's
  chunks and on its job's axis, and another corpus's job never gets past the queue (`ItemsOK`).
  `PoolNoDoubleWork` (`NoDoubleWork`): two jobs that share a chunk of an axis are one unit of
  work, which has one row (`OneLiveJob`), and a row has one current lease (`LeaseNamesDelivery`).
  `PoolForeignJobsReturned` (`ForeignJobsReturned`): an item that has not come to the provider is
  let go without touching a store, and by a Nack unless its row is left as it is (`LetGo`).
  `PoolDeadLetterIsTerminal` (`DeadLetterIsTerminal`): a job that leaves the rows by a worker's
  Nack was on its final delivery, and a worker about to send that Nack has recorded the failure,
  which only a rewrite or a requeue undoes, and those are in `tainted` (`NackRecorded`).
  `PoolOkIsCurrent` (`OkIsCurrent`): the status alone is not inductive, because the mark trusts what
  happened two calls earlier; `AllUpToDate` says of every chunk that is live and not `tainted` that
  whoever works on it has its current text, that a worker about to mark it has written that text's
  vector, and that no query is about to evict it. The lemmas `StepUsesQueue`, `ItemSteps`,
  `ChunkSteps` and `VectorSteps` say once what any step can do to the rows, to an item, to a chunk
  and to a vector; each invariant is then a case split over those and not over all actions.
* *DiskIndexProofs*: `SearchesAgree` (`SearchSeesAcked`), `IdentityKept`
  (`IdentityFollowsVectors`) and `CrashesLoseNothing` (`AckedIsDurable`), from `DiskInvariant`:
  `DiskInv` is inductive where no directory sync fails (`DirectoriesSync`, the one kind of failure
  whose counterexample is the run `disk_save`). The properties speak of the whole file and of the
  locators, and neither determines the other in the middle of an operation, so the invariant says
  of every `step` what is written behind `end` and what of it the memory already counts
  (`SegmentInv`), that the locators read what was acknowledged (`AgreesInv`), which vectors and
  sidecars a crash may bring back (`NamedInv`), and that, while nothing is `spoiled`, the file
  ends at `end` outside an append and a scan of it gives the locators again (`DurableInv`).
* *IngestScanProofs*: `IngestTypeCorrect`, `MarkerHonest` (`MarkerIsHonest`),
  `OnlyMissingIsTombstoned` (`OnlyMissingTombstoned`) and `SearchNeverBlinks` (`NeverBlinks`), with
  every kind of drift allowed; `ReconciledWithoutDrift` (`ReconciledAfterScan`) where `Drift = {}`,
  because each kind does break it.

  The marker: `IngestInv` says of every stage between two commits what the row and the chunks of
  the document in hand are: in `generate` the row carries no hash, in `finalize` the chunks are of
  the content in hand.

  The sweep: it subtracts two sets collected over many commits, so `ScanInv` says what they mean
  half way. What the worker has in hand fits its stage (`AtHand`); what is listed is of a kind the
  path can have (`Bodies`); every listed source is still to be visited, in hand, or seen, and every
  member of the archive in hand likewise (`Accounted`); what was listed is still there where
  nothing changed (`Steady`); what will be swept is active (`StillActive`); an archive that did not
  change is seen only together with the members it still has (`MembersFirst`); and a watcher's job
  sweeps only the members of an archive that is gone (`JobSweeps`).

  Reconciliation: a scan skips most documents, so a finished one is right only if every reason to
  skip was true already, of rows written by any earlier scan, job, failure or crash.
  `ReconcileInv` states each reason as a relation between tables and corpus. `Rows`, `InWork`: a
  tombstoned row has tombstoned chunks, and how far a document in work has come. `Heard`, `Signed`,
  `HandSigned`: an equal signal means equal content, for what the walk listed, for the row, and for
  what the worker has read but not yet written; the last is there because the row's signal is
  written two commits before its hash. `Gate`: a leaf whose hash is that of what is there has
  chunks to serve, and the running scan will not sweep it. `Narrow`: what may not be indexed never
  was. `Packed`: a member that is active is in its archive, and what was extracted is what was
  hashed unless the archive changed since. `Sealed`: the marker of an archive implies those of its
  members, and while `whole` holds so do the members done so far. `GoneIsLeft`: what was gone when
  it was listed is accounted for by nobody and stays for the sweep. `Settled`: a clean source that
  was seen is served as it is, which at the end of the scan is the theorem. The
  conjuncts lean on each other: `Settled` rests on `Gate` and `Sealed` for the skipped, on `Signed`
  for those skipped unread, on `GoneIsLeft` for the swept, and these on the rest. The step lemmas (`Looks`, `Commits`,
  `MovesStep`, `TouchedStep`, `HashingStep`, `DeletingStep`, `MissingStep`, `SettlingStep`) say once
  how any step looks at the corpus, commits to the tables, moves through the account, sets a
  marker, tombstones, misses and settles.
* *WatchProofs*: `WatchTypeCorrect`, and under `Drift = {}` `ChangesRemembered`
  (`NoChangeForgotten`), `DropsReconciled` (`DropsAwaitRescan`), `PresentKept` (`PresentIsKept`).
  The invariant `WatchInv` adds to the property that the watcher is alone with the store (`Alone`),
  that every directory present is watched or about to be (`TreeInv`), what a worker's variables
  mean at each stage of a job and of a scan (`Stage`, `JobInv`, `ScanInv`), and that a file's
  disagreement has a cause still under way (`KeepsUp`). The case that needs most care is a timer
  that fires while it is re-armed: the map then points at another timer than the one that sends.
* *PaidCallsProofs*: `PaidTypeCorrect`, `NonceSingleUse` (`OneRequestPerNonce`) and `RowHolds`
  (`LedgerHolds`) unless live reservations are evicted; `NeverRerun` (`NeverRunAgain`),
  `ResultKept` (`PaidResultKept`), `NotSettledTwice` (`SettledOnce`) under `Drift = {}`. There are
  two invariants: `LedgerInv` (who holds a key, one claim per nonce, memory backed by its row, a
  verified reservation not expired, the row shadowing memory, a run belonging to the entry) and on
  top `OutcomeInv` (what each stage of a call knows of the outcome; memory and row agree; what is
  recorded was produced; what is captured is recorded; what is sure is settled).
* *ReindexProofs*: `ReindexTypeCorrect`, `HashesKept` (`GateKept`), `AtomicGeneration`
  (`GenerationIsAtomic`) without further assumption, from `Inv`: what the running command knows of
  the saved hashes (`HashInv`), of the marker (`MarkerInv`) and of the files its loops have come to
  (`StageInv`). `SkippedSearchable` (`SkippedIsSearchable`) under `Drift = {}` adds what a recorded
  hash says of the chunks, of what is queued and of the vectors in memory and on disk (`RowInv`,
  `SettledInv`, `VectorInv`, `ServeInv`).

The assumptions on the constants are the named ASSUMEs of the modules, which TLC evaluates in every
run. `Drift = {}` is stated in the theorems that need it; each excluded kind has a counterexample,
described in section 5.

Every safety property of a passing run is thereby a theorem about every instance. Only
model-checked is liveness (`PendingSettles`, `EveryJobGetsItsTurn`, `Converges`, `CatchesUp`,
`StoredResultSettles`, `Answered`, `Recovers`), which is beyond the proof system.

## 5. Where the code and its promises differ

`disk_save` is a run of its own: `finalizeFile` reports the directory sync's failure after the
rename has happened; Save returns before taking the new locators, and the next append makes
searches read through the old ones.

The rest was met while modelling. Each is either an exception named in a property or a kind in
`Drift`, a constant that the runs leave empty; giving `Drift` the kind in the module's .cfg brings
the counterexample back.

*Embedding.*
* With the SQLite broker, `LeaseForCorpus` reclaims inside the transaction that ErrNoJob rolls
  back (`LeaseNoJob`). With nothing else claimable, a row whose last permitted lease expired is
  never dead-lettered, its dedup key stays taken and its chunk pending: `PendingSettles` fails with
  `Durable = TRUE`.
* The payload hash is compared before the provider call; the mark afterwards goes by chunk id
  alone. A rewrite in between is marked embedded with the old vector (`tainted` in `OkIsCurrent`).
* A text that kills its worker (`Killers`) is dead-lettered by the reclaim, which leaves the chunk
  pending; the next tick mints a job with a fresh budget.
* Disk index: when a rollback's truncation fails, a later and shorter append leaves the rest of the
  abandoned records to be scanned at the next start; when the second write of a new header fails,
  appends go on behind half a header and start-up refuses the file. A Save or Reset ends either
  (`spoiled` in `AckedIsDurable`).

*Ingest scan* (each kind violates `ReconciledAfterScan`).
* "restore": a deleted document that comes back with its old content is not processed:
  MarkDocumentDeleted keeps the hash, needsReprocessing does not look at `deleted`, and
  processDocument returns at service.go:2640 with the row active again and its chunks tombstoned,
  until the content changes or somebody reindexes. The same gate lets pass a file whose
  chunks alone were tombstoned (an oversize file keeps its row), and one that comes
  back after the running scan has listed the corpus without it and before its sweep. Instances of
  two edits meet only the first of these, three edits all of them; `Out` names all.
* "narrow", "link": a path that becomes ineligible keeps its chunks under a row with status
  `skipped`, and search hides only the deleted and the failed.
* "drop": a member that leaves an archive is retained (retainArchiveMembers) until the container's
  hash changes again. "archive failure": the members of an archive that could not be read count as
  unseen and are tombstoned with their hashes. "member failure": a member's soft error does not
  keep the container from being sealed.

*Watcher.*
* "overlap": up.go:1186 says of the initial scan beside the watcher that "any overlap is a cheap
  no-op". A file created after the scan's walk and indexed by the watcher at once is among the
  documents the sweep (service.go:2123) compares with what the walk saw, if it is listed as active by then,
  and is tombstoned; no event follows. Only the ticker brings it back.
* "unwatched": the kernel reports nothing of a directory it does not watch yet, so a file that goes
  away again before its new directory is registered leaves no event, and a directory whose
  appearance overflowed the buffer is rescanned but never registered. "replaced": a directory that
  appears under a name whose former documents are still served has its files turned into events,
  and nobody asks for those that are not in it any more.

*Paid calls.*
* A crash between the consumption of the nonce and the outcome's mark leaves the one consumed and
  the other pending; the retry settles again, although nonce_ledger.go:59-61 says that a consumed
  nonce is "never re-executed or re-charged". Whether that charges is the facilitator's business:
  an authorization can be used once.
* "save": an outcome whose first write fails is only in memory, and a restart loses a result that
  was paid for. "load": outcomes that cannot be listed at the start are run again. "evict": a
  reservation evicted for want of room before its row is written lets a second request in.

*Reindex.*
* "revert": hashes saved by a rebuild that is rolled back, and a file that meanwhile returns to an
  older content: the restored hash matches while the rows are of the other content
  (reindex.go:308-310 says that the next scan redoes more than it must "and converges on
  its own").
* "overwritten": a daemon killed after a chunk was embedded again under its id and before the
  autosave comes back with the older vector, which reconciliation does not see because it asks only
  whether there is one (persistence.go:128 says that it "rebuilds the lost tail").
* A marker that could not be removed does not stop the next rebuild: reindex.go:896-899 says that
  staging refuses occupied slots, but free ones are staged beside it, and a crash then lets the
  recovery discard the last good generation. `GenerationIsAtomic` excepts it, and the mixed window
  of a marker that could not be written, of which commit warns.
* A crash between the snapshot of the hashes of an empty corpus and its end makes the next start
  fail once.

## 6. Not modelled

* EmbedQueue: the id order of SQLite's claimable rows (any claimable row may be claimed; the FIFO
  is in `MemBroker`); rows with unreadable JSON; the memory queue vanishing with its process.
* EmbedPool: the page limit of 256 (a hazard no property covers: 256 pending chunks whose jobs are
  stuck would keep the rest from being enqueued), the stall signal, the coordinator's file lock and
  the guard that counts a chunk once; the in-process Run loop that polls NextPending instead of
  leasing; both axes wired to one index; media payloads; the order in which a batch's axes are
  embedded.
* DiskIndex: byte lengths, so a hole scanned as records of zeros is a `Gap` that ends the scan; a
  power loss that keeps later pages and loses earlier ones of one write; a search that loses its
  view between two locks and answers with nothing; directory updates that stay unwritten across a
  restart of the process (`Kill` settles the directory); a damaged sidecar, which a file synced
  before its rename does not become.
* IngestScan: derived outputs (transcripts, translations, summaries) and their identities, secret
  exclusion, sampled identity of large media, the two-phase pass, the batch manifest.
* Watch: followed links and the size cap (both go the way of an ignored file), path excludes.
* PaidCalls: a server without a store, `on` mode (no nonces), the registry of cancellations (a
  cancel is a failing Verify or RunTool) and the payment log.
* Reindex: `up` started while a rebuild runs, which nobody refuses (only the daemon leaves a pid
  file); transcript repairs; the autosave's thresholds; a reconciliation that fails; the networked
  index backends; the HNSW graph.
* The store's list_files memo, keyed by data_version, and the lifetime of its handle against active
  operations: two protocols of one lock each.
* Everything else in the repository. Most of it is parsing and merging of configuration, HTTP
  clients of providers, cutting, decoding and formatting of text and subtitles, schema migrations,
  ranking, command-line output and the tables of the tools: functions of their inputs, or one call
  to the outside, with no state that a second actor or a crash could meet. That is by far the
  larger part of its lines, and modelling it would say nothing that its unit tests do not.

## 7. What comes next

1. The page limit of the coordinator, as a bound on `ReadPage`, and whether pending chunks beyond
   it are ever reached.
2. The in-process embedding loop and the two-axes-one-index wiring as variants of `EmbedPool`.
3. The store's memo and lifetime.
4. Derived outputs on top of `IngestScan`: a second set of chunks per document, with its own
   identity.
5. Theorems: that an idle coordinator and worker leave nothing undone, as far as it is a safety
   property (a pending chunk always has a live job, or is in the next page); the segment's
   compaction as a refinement of an abstract map from chunks to vectors.
