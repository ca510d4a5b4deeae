----------------------------- MODULE IngestScan -----------------------------
(***************************************************************************)
(* The ingest service: one corpus, one documents table, one worker that    *)
(* runs scans (service.go, runScan) and, between them, the jobs of the     *)
(* file watcher (watch.go, process).  Every commit to the store is a step  *)
(* of its own, so a crash can fall between any two of them.                *)
(*                                                                         *)
(* A document is done when its row carries the hash of its content.  The   *)
(* row is first written without it, the chunks are then replaced in one    *)
(* transaction, and the hash is stamped last.                              *)
(*                                                                         *)
(* Left out: derived outputs (transcripts, translations, summaries) beyond *)
(* the one set of chunks a document has, derivation identities and stale   *)
(* types, secret exclusion, the two-phase pass, counters, events and the   *)
(* batch manifest.                                                         *)
(***************************************************************************)
EXTENDS Naturals

CONSTANTS
  File,       \* paths of plain documents
  Archive,    \* paths of archive containers
  Member,     \* paths of archive members
  Of,         \* the container of a member
  Content,    \* what a document can hold, which is also its content hash
  Refused,    \* contents whose type is never ingested
  Packing,    \* what an archive can hold: functions from members to contents
  Gone,       \* nothing at the path, or an ignored path
  Link,       \* a symbolic link, not followed
  Big,        \* a file over the size cap
  None,       \* no hash, no content, no document
  Signalled,  \* sources with a change signal cheaper than their content
  Drift,      \* kinds of corpus changes and failures this instance has
  MaxEdits,   \* bound on changes of the corpus
  MaxFaults   \* bound on failures and crashes

Source == File \cup Archive
Path == Source \cup Member
Ingestible(p) ==
  IF p \in Archive THEN {f \in Packing : \A m \in DOMAIN f : Of[m] = p} ELSE Content
Body(p) == Ingestible(p) \cup IF p \in Archive THEN {Gone} ELSE {Gone, Link, Big}
Held == Content \cup Packing \cup {Gone, Link, Big}
Kinds == {"restore", "narrow", "link", "drop", "archive failure", "member failure"}

ASSUME Paths ==
  /\ File \cap Archive = {} /\ File \cap Member = {} /\ Archive \cap Member = {}
  /\ None \notin Path
  /\ Of \in [Member -> Archive]
ASSUME Contents ==
  /\ Refused \subseteq Content
  /\ \A f \in Packing : DOMAIN f \subseteq Member /\ \A m \in DOMAIN f : f[m] \in Content \cup {Big}
  /\ Content \cap Packing = {}
  /\ {Gone, Link, Big, None} \cap (Content \cup Packing) = {}
  /\ None \notin {Gone, Link, Big}
  /\ Gone # Link /\ Gone # Big /\ Link # Big
ASSUME Bounds == MaxEdits \in Nat /\ MaxFaults \in Nat /\ Drift \subseteq Kinds
              /\ Signalled \subseteq Source

VARIABLES
  disk,      \* what is at each path, and its change signal
  doc,       \* the documents table
  chunks,    \* the content a document's chunks were cut from, and their tombstone
  pc,        \* where the worker is
  scanning,  \* a scan, not a single job of the watcher
  force,     \* a reindex, which trusts no recorded hash
  listed,    \* what discovery saw at each path
  todo,      \* discovered paths not processed yet
  existing,  \* documents active when the scan began
  seen,      \* paths the scan accounted for
  cur,       \* the document whose representations are being generated
  body,      \* its content
  box,       \* the archive being extracted
  boxBody,   \* the content its container's hash was computed from
  pack,      \* the members and contents found in it
  rest,      \* members not ingested yet
  whole,     \* every member so far was ingested
  clean,     \* sources neither changed nor failed since the scan began
  edits, faults

store == <<doc, chunks>>
run == <<scanning, force, listed, existing>>
archive == <<box, boxBody, pack, rest, whole>>
env == <<disk, edits>>
vars == <<disk, doc, chunks, pc, scanning, force, listed, todo, existing, seen,
          cur, body, box, boxBody, pack, rest, whole, clean, edits, faults>>

Hash == Content \cup Packing \cup {None}
Row == [status : {"none", "ok", "skipped", "link", "big", "error"},
        hash : Hash, deleted : BOOLEAN, sig : 0..MaxEdits]
Entry == [body : Held \cup {None}, sig : 0..MaxEdits]
NotListed == [p \in Source |-> [body |-> None, sig |-> 0]]

TypeOK ==
  /\ disk \in [Source -> Entry] /\ listed \in [Source -> Entry]
  /\ doc \in [Path -> Row]
  /\ chunks \in [Path -> [of : Content \cup {None}, deleted : BOOLEAN]]
  /\ pc \in {"idle", "scan", "generate", "finalize", "extract", "members",
             "refuse", "done"}
  /\ scanning \in BOOLEAN /\ force \in BOOLEAN /\ whole \in BOOLEAN
  /\ todo \subseteq Source /\ existing \subseteq Path /\ seen \subseteq Path
  /\ cur \in Path \cup {None} /\ body \in Content \cup {None}
  /\ box \in Archive \cup {None} /\ boxBody \in Packing \cup {None}
  /\ pack \in Packing \cup {None} /\ rest \subseteq Member
  /\ clean \subseteq Source
  /\ edits \in 0..MaxEdits /\ faults \in 0..MaxFaults

NoRow == [status |-> "none", hash |-> None, deleted |-> FALSE, sig |-> 0]

Init ==
  /\ disk \in [Source -> [body : Held, sig : {0}]]
  /\ \A p \in Source : disk[p].body \in Body(p)
  /\ doc = [p \in Path |-> NoRow]
  /\ chunks = [p \in Path |-> [of |-> None, deleted |-> FALSE]]
  /\ pc = "idle" /\ scanning = FALSE /\ force = FALSE
  /\ listed = NotListed
  /\ todo = {} /\ existing = {} /\ seen = {}
  /\ cur = None /\ body = None
  /\ box = None /\ boxBody = None /\ pack = None /\ rest = {} /\ whole = TRUE
  /\ clean = {} /\ edits = 0 /\ faults = 0

-----------------------------------------------------------------------------
(* The documents table *)

Active == {p \in Path : doc[p].status # "none" /\ ~doc[p].deleted}
MembersOf(a) == {m \in Member : Of[m] = a}
Src(p) == IF p \in Member THEN Of[p] ELSE p

(* A chunk is served unless it, or its document, is tombstoned, or its      *)
(* document is in error.                                                    *)
Searchable(p) ==
  IF ~doc[p].deleted /\ doc[p].status # "error" /\ ~chunks[p].deleted
  THEN chunks[p].of ELSE None

Put(p, status, hash, sig) ==
  doc' = [doc EXCEPT ![p] = [status |-> status, hash |-> hash,
                             deleted |-> FALSE, sig |-> sig]]

RetireChunks(p) ==
  chunks' = [chunks EXCEPT ![p].deleted = (@ \/ chunks[p].of # None)]

(* The document, its representations and its chunks, in one transaction.    *)
(* The row keeps its hash.                                                  *)
MarkDocumentDeleted(p) ==
  /\ doc' = [doc EXCEPT ![p].deleted = (@ \/ doc[p].status # "none")]
  /\ RetireChunks(p)

(* A call of the store or of the corpus fails.                              *)
Fault ==
  /\ faults < MaxFaults
  /\ faults' = faults + 1
  /\ clean' = {}
NoFault == UNCHANGED <<faults, clean>>

-----------------------------------------------------------------------------
(* A scan or a job begins *)

(* The walk, the list of active documents, then the entries the walk itself *)
(* dropped.                                                                 *)
StartScan(reindex) ==
  /\ pc \in {"idle", "done"}
  /\ pc' = "scan" /\ scanning' = TRUE /\ force' = reindex
  /\ listed' = disk /\ existing' = Active /\ clean' = Source
  /\ todo' = {p \in Source : disk[p].body \in Ingestible(p)}
  /\ seen' = {}
  /\ UNCHANGED <<store, cur, body, archive, env, faults>>

(* A job of the watcher handles one path by what Lstat says of it now.      *)
StartJob(p) ==
  /\ pc \in {"idle", "done"}
  /\ scanning' = FALSE /\ force' = FALSE /\ seen' = {} /\ clean' = {p}
  /\ listed' = [listed EXCEPT ![p] = disk[p]]
  /\ UNCHANGED <<cur, body, archive, env, faults>>

WatchChanged(p) ==
  /\ disk[p].body \in Ingestible(p)
  /\ StartJob(p)
  /\ pc' = "scan" /\ todo' = {p} /\ existing' = {}
  /\ UNCHANGED store

(* Mutant: a delete event is believed without a look at the path.           *)
WatchGoneUnchecked(p) ==
  /\ StartJob(p)
  /\ MarkDocumentDeleted(p)
  /\ pc' = "scan" /\ todo' = {}
  /\ existing' \in {{}, MembersOf(p) \cap Active}

(* A path that is gone takes everything below it along; a path that is only *)
(* ignored does not.                                                        *)
WatchGone(p) ==
  /\ disk[p].body = Gone
  /\ StartJob(p)
  /\ MarkDocumentDeleted(p)
  /\ pc' = "scan" /\ todo' = {}
  /\ existing' \in {{}, MembersOf(p) \cap Active}

(* Mutant: the reason is stored as discovery phrases it.                    *)
ReasonUnmapped(p) == IF listed[p].body = Link THEN "link" ELSE "size_cap"

Reason(p) == IF listed[p].body = Link THEN "link" ELSE "big"

(* The row of a path that may not be indexed any more is rewritten only     *)
(* when it does not say so yet: first tombstoned, then written as a skip.   *)
WatchIneligible(p) ==
  /\ disk[p].body \in {Link, Big}
  /\ p \in Active
  /\ doc[p].status # (IF disk[p].body = Link THEN "link" ELSE "big")
  /\ pc \in {"idle", "done"}
  /\ scanning' = FALSE /\ force' = FALSE /\ seen' = {} /\ clean' = {p}
  /\ listed' = [listed EXCEPT ![p] = disk[p]]
  /\ MarkDocumentDeleted(p)
  /\ pc' = "refuse" /\ cur' = p /\ todo' = {} /\ existing' = {}
  /\ UNCHANGED <<body, archive, env, faults>>

-----------------------------------------------------------------------------
(* Entries the walk drops *)

Dropped == IF scanning THEN {p \in Source : listed[p].body \in {Link, Big}} \ seen ELSE {}

(* Only a scan keeps account of what it has seen.                           *)
Account(ps) == seen' = IF scanning THEN seen \cup ps ELSE {}

Settle(ps) == pc' = "scan" /\ Account(ps)

PersistSymlinkSkip(p) ==
  /\ pc = "scan" /\ p \in Dropped /\ listed[p].body = Link
  /\ \/ Put(p, "link", None, 0) /\ NoFault
     \/ Fault /\ UNCHANGED doc
  /\ Settle({p})
  /\ UNCHANGED <<chunks, run, todo, cur, body, archive, env>>

(* Over the cap: the representations go first, the row that says so second. *)
RetireOversize(p) ==
  /\ pc = "scan" /\ p \in Dropped /\ listed[p].body = Big
  /\ \/ RetireChunks(p) /\ pc' = "refuse" /\ cur' = p /\ NoFault /\ UNCHANGED seen
     \/ Fault /\ Settle({p}) /\ UNCHANGED <<chunks, cur>>
  /\ UNCHANGED <<doc, run, todo, body, archive, env>>

PersistSkipRow ==
  /\ pc = "refuse"
  /\ \/ Put(cur, Reason(cur), None, 0) /\ NoFault
     \/ Fault /\ UNCHANGED doc
  /\ Settle({cur}) /\ cur' = None
  /\ UNCHANGED <<chunks, run, todo, body, archive, env>>

-----------------------------------------------------------------------------
(* One document *)

Visit(p) ==
  /\ pc = "scan" /\ Dropped = {} /\ p \in todo
  /\ todo' = todo \ {p}
  /\ UNCHANGED <<run, env>>

(* Mutant: the signal alone decides, whether or not the work was finished.  *)
SignalAlone(p) ==
  /\ p \in Signalled /\ ~force
  /\ ~doc[p].deleted /\ doc[p].status # "error"
  /\ doc[p].sig = listed[p].sig

(* The recorded hash must be there: it is what says that the document was   *)
(* finished.                                                                *)
SignalUnchanged(p) ==
  /\ p \in Signalled /\ ~force
  /\ ~doc[p].deleted /\ doc[p].status # "error"
  /\ doc[p].sig = listed[p].sig
  /\ doc[p].hash # None

(* Mutant: an archive that is not opened accounts for itself only.          *)
RetainedNone(a) == {}

Retained(a) == IF a \in Archive THEN MembersOf(a) \cap Active ELSE {}

SkipUnchanged(p) ==
  /\ Visit(p)
  /\ SignalUnchanged(p)
  /\ Settle({p} \cup Retained(p))
  /\ NoFault
  /\ UNCHANGED <<store, cur, body, archive>>

(* The file is gone by now, or the read fails; the row may fail too.        *)
BuildFails(p) ==
  /\ Visit(p)
  /\ ~SignalUnchanged(p)
  /\ \/ disk[p].body \in {Gone, Link} /\ NoFault
     \/ Fault /\ (p \in Archive => "archive failure" \in Drift)
  /\ \/ Put(p, "error", None, listed[p].sig)
     \/ faults' # faults /\ UNCHANGED doc
  /\ Settle({p})
  /\ UNCHANGED <<chunks, cur, body, archive>>

(* The bytes read pass the cap, although discovery measured fewer.          *)
SizeCapSkip(p) ==
  /\ Visit(p)
  /\ ~SignalUnchanged(p)
  /\ disk[p].body = Big
  /\ RetireChunks(p) /\ pc' = "refuse" /\ cur' = p
  /\ NoFault
  /\ UNCHANGED <<doc, seen, body, archive>>

NeedsProcessing(p, hash) ==
  force \/ doc[p].hash = None \/ doc[p].hash # hash \/ doc[p].status = "error"

(* Mutant: the done marker goes in with the row.                            *)
NotWithheld(work, hash) == hash

Withheld(work, hash) == IF work THEN None ELSE hash

(* The row goes first, and without the hash when there is work to do.       *)
BuildFile(p) ==
  /\ p \in File /\ Visit(p)
  /\ ~SignalUnchanged(p)
  /\ disk[p].body \in Content
  /\ LET hash == disk[p].body
         status == IF hash \in Refused THEN "skipped" ELSE "ok"
         work == NeedsProcessing(p, hash) /\ status = "ok"
     IN  /\ Put(p, status, Withheld(work, hash), listed[p].sig)
         /\ IF work THEN /\ pc' = "generate" /\ cur' = p /\ body' = hash
                         /\ UNCHANGED seen
                    ELSE Settle({p}) /\ UNCHANGED <<cur, body>>
  /\ NoFault
  /\ UNCHANGED <<chunks, archive>>

BuildArchive(p) ==
  /\ p \in Archive /\ Visit(p)
  /\ ~SignalUnchanged(p)
  /\ disk[p].body \in Packing
  /\ LET hash == disk[p].body
         work == NeedsProcessing(p, hash)
     IN  /\ Put(p, "skipped", Withheld(work, hash), listed[p].sig)
         /\ IF work THEN /\ pc' = "extract" /\ box' = p /\ boxBody' = hash
                         /\ UNCHANGED seen
                    ELSE Settle({p} \cup Retained(p)) /\ UNCHANGED <<box, boxBody>>
  /\ NoFault
  /\ UNCHANGED <<chunks, cur, body, pack, rest, whole>>

-----------------------------------------------------------------------------
(* The representations of a document, and its done marker *)

(* A member returns to its archive, a file to the scan.                     *)
Leave ==
  /\ cur' = None /\ body' = None
  /\ IF cur \in Member THEN pc' = "members" /\ Account({cur})
                       ELSE Settle({cur})

GenerateRepresentations ==
  /\ pc = "generate"
  /\ chunks' = [chunks EXCEPT ![cur] = [of |-> body, deleted |-> FALSE]]
  /\ pc' = "finalize"
  /\ NoFault
  /\ UNCHANGED <<doc, run, todo, seen, cur, body, archive, env>>

(* The transaction did not commit; the row that says so may fail as well.   *)
GenerationFails ==
  /\ pc = "generate"
  /\ Fault
  /\ \/ Put(cur, "error", None, doc[cur].sig)
     \/ UNCHANGED doc
  /\ Leave
  /\ whole' = IF cur \in Member THEN FALSE ELSE whole
  /\ UNCHANGED <<chunks, run, todo, box, boxBody, pack, rest, env>>

(* A provider is out: the row is put in error and the document goes on.     *)
GenerationDegrades ==
  /\ pc = "generate"
  /\ Fault /\ (cur \in Member => "member failure" \in Drift)
  /\ Put(cur, "error", None, doc[cur].sig)
  /\ pc' = "finalize"
  /\ UNCHANGED <<chunks, run, todo, seen, cur, body, archive, env>>

(* Recognition ran out of its budget: what there is stays, unmarked.        *)
GenerationIncomplete ==
  /\ pc = "generate"
  /\ Fault /\ (cur \in Member => "member failure" \in Drift)
  /\ chunks' = [chunks EXCEPT ![cur] = [of |-> body, deleted |-> FALSE]]
  /\ Leave
  /\ UNCHANGED <<doc, run, todo, archive, env>>

FinalizeContentHash ==
  /\ pc = "finalize"
  /\ \/ /\ doc' = IF doc[cur].status = "ok" THEN [doc EXCEPT ![cur].hash = body] ELSE doc
        /\ NoFault /\ UNCHANGED whole
     \/ /\ Fault /\ UNCHANGED doc
        /\ whole' = IF cur \in Member THEN FALSE ELSE whole
  /\ Leave
  /\ UNCHANGED <<chunks, run, todo, box, boxBody, pack, rest, env>>

-----------------------------------------------------------------------------
(* The members of an archive *)

(* The archive is opened a second time, so what is extracted need not be    *)
(* what was hashed.                                                         *)
ExtractArchiveMembers ==
  /\ pc = "extract" /\ disk[box].body \in Packing
  /\ pack' = disk[box].body /\ rest' = DOMAIN disk[box].body /\ whole' = TRUE
  /\ pc' = "members"
  /\ NoFault
  /\ UNCHANGED <<store, run, todo, seen, cur, body, box, boxBody, env>>

CloseArchive ==
  /\ Settle({box})
  /\ box' = None /\ boxBody' = None /\ pack' = None /\ rest' = {} /\ whole' = TRUE
  /\ UNCHANGED <<chunks, run, todo, cur, body, env>>

(* It cannot be fetched, which leaves it as it is, or it cannot be read,    *)
(* which puts it in error.                                                  *)
ExtractionFails ==
  /\ pc = "extract"
  /\ \/ disk[box].body = Gone /\ NoFault
     \/ Fault /\ "archive failure" \in Drift
  /\ UNCHANGED doc \/ Put(box, "error", None, doc[box].sig)
  /\ CloseArchive

(* A member too large is written down as a skip; one of a refused type is   *)
(* passed over; any other is gated by its hash like a file.                 *)
IngestMember(m) ==
  /\ pc = "members" /\ m \in rest
  /\ rest' = rest \ {m}
  /\ LET hash == pack[m]
         work == NeedsProcessing(m, hash)
     IN  \/ /\ hash = Big /\ Put(m, "big", None, 0)
            /\ Account({m}) /\ UNCHANGED <<pc, cur, body>>
         \/ /\ hash \in Refused
            /\ Account({m}) /\ UNCHANGED <<doc, pc, cur, body>>
         \/ /\ hash \in Content \ Refused
            /\ Put(m, "ok", Withheld(work, hash), 0)
            /\ IF work THEN pc' = "generate" /\ cur' = m /\ body' = hash /\ UNCHANGED seen
                       ELSE Account({m}) /\ UNCHANGED <<pc, cur, body>>
  /\ NoFault
  /\ UNCHANGED <<chunks, run, todo, box, boxBody, pack, whole, env>>

MemberFails(m) ==
  /\ pc = "members" /\ m \in rest
  /\ Fault
  /\ rest' = rest \ {m} /\ whole' = FALSE
  /\ Account({m})
  /\ UNCHANGED <<store, pc, run, todo, cur, body, box, boxBody, pack, env>>

(* Mutant: the container is marked done although a member failed.           *)
SealArchiveAnyway ==
  /\ pc = "members" /\ rest = {}
  /\ \/ /\ doc' = IF doc[box].status = "skipped"
                  THEN [doc EXCEPT ![box].hash = boxBody] ELSE doc
        /\ NoFault
     \/ Fault /\ UNCHANGED doc
  /\ CloseArchive

(* Only a container every member of which was ingested is marked done.      *)
SealArchive ==
  /\ pc = "members" /\ rest = {}
  /\ \/ /\ doc' = IF whole /\ doc[box].status = "skipped"
                  THEN [doc EXCEPT ![box].hash = boxBody] ELSE doc
        /\ NoFault
     \/ Fault /\ UNCHANGED doc
  /\ CloseArchive

-----------------------------------------------------------------------------
(* Documents that were not seen *)

(* Everything listed was visited: runScan comes to finishScan.              *)
Swept == pc = "scan" /\ Dropped = {} /\ todo = {}

(* What the scan or the job knew is forgotten.                              *)
Reset ==
  /\ scanning' = FALSE /\ force' = FALSE /\ listed' = NotListed
  /\ todo' = {} /\ existing' = {} /\ seen' = {}

MarkMissing(p) ==
  /\ Swept /\ p \in existing \ seen
  /\ existing' = existing \ {p}
  /\ \/ MarkDocumentDeleted(p) /\ NoFault
     \/ Fault /\ UNCHANGED store
  /\ UNCHANGED <<pc, scanning, force, listed, todo, seen, cur, body, archive, env>>

FinishScan ==
  /\ Swept /\ existing \subseteq seen
  /\ pc' = IF scanning THEN "done" ELSE "idle"
  /\ clean' = IF scanning THEN clean ELSE {}
  /\ Reset
  /\ UNCHANGED <<store, cur, body, archive, faults, env>>

-----------------------------------------------------------------------------
(* The process dies and comes back; the corpus changes *)

Crash ==
  /\ pc \notin {"idle", "done"}
  /\ Fault
  /\ pc' = "idle" /\ Reset
  /\ cur' = None /\ body' = None
  /\ box' = None /\ boxBody' = None /\ pack' = None /\ rest' = {} /\ whole' = TRUE
  /\ UNCHANGED <<store, env>>

(* The document or its chunks are tombstoned, it is out of the corpus now,  *)
(* or the scan that runs has missed it and will sweep it.                   *)
Out(p) ==
  \/ doc[p].deleted \/ chunks[p].deleted
  \/ disk[Src(p)].body \notin Ingestible(Src(p))
  \/ p \in existing \ seen /\ Src(p) \notin todo \cup {box}

(* The edits that only an instance with that kind of drift makes.           *)
Restores(p, b) ==
  \/ Out(p) /\ doc[p].hash = b
  \/ b \in Packing /\ \E m \in DOMAIN b : Out(m) /\ doc[m].hash = b[m]
  \/ b \in Packing /\ box = p /\ boxBody = b /\ pack \notin {None, b}
  \/ b \in Packing /\ box # p /\ doc[p].hash = b
       /\ \E m \in DOMAIN b : doc[m].hash # b[m]
Narrows(b) ==
  \/ b \in Refused
  \/ b \in Packing /\ \E m \in DOMAIN b : b[m] \in Refused \cup {Big}
Drops(p, b) ==
  /\ b \in Packing
  /\ ~((MembersOf(p) \cap Active) \cup (IF box = p THEN rest ELSE {}) \subseteq DOMAIN b)

Allowed(p, b) ==
  /\ Restores(p, b) => "restore" \in Drift
  /\ Narrows(b) => "narrow" \in Drift
  /\ b = Link => "link" \in Drift
  /\ Drops(p, b) => "drop" \in Drift

Edit(p, b) ==
  /\ edits < MaxEdits
  /\ b \in Body(p) \ {disk[p].body} /\ Allowed(p, b)
  /\ disk' = [disk EXCEPT ![p] = [body |-> b, sig |-> IF p \in Signalled THEN @.sig + 1 ELSE 0]]
  /\ edits' = edits + 1
  /\ clean' = clean \ {p}
  /\ UNCHANGED <<store, pc, run, todo, seen, cur, body, archive, faults>>

-----------------------------------------------------------------------------

Work ==
  \/ \E p \in Source :
       \/ PersistSymlinkSkip(p) \/ RetireOversize(p)
       \/ SkipUnchanged(p) \/ BuildFails(p) \/ SizeCapSkip(p)
       \/ BuildFile(p) \/ BuildArchive(p)
  \/ PersistSkipRow
  \/ GenerateRepresentations \/ GenerationFails \/ GenerationDegrades
  \/ GenerationIncomplete \/ FinalizeContentHash
  \/ ExtractArchiveMembers \/ ExtractionFails \/ SealArchive
  \/ \E m \in Member : IngestMember(m) \/ MemberFails(m)
  \/ (\E p \in Path : MarkMissing(p)) \/ FinishScan

Watch == \E p \in Source : WatchChanged(p) \/ WatchGone(p) \/ WatchIneligible(p)

Next ==
  \/ \E reindex \in BOOLEAN : StartScan(reindex)
  \/ Watch \/ Work \/ Crash
  \/ \E p \in Source, b \in Held : Edit(p, b)

Spec == Init /\ [][Next]_vars

(* The worker never stops; the watcher's select picks at random between a   *)
(* job and a rescan, and the safety ticker keeps asking for rescans.        *)
FairSpec == Spec /\ WF_vars(Work) /\ SF_vars(StartScan(FALSE))

-----------------------------------------------------------------------------

(* A document is marked done with a content only when its chunks were cut   *)
(* from that content (withholdContentHash, finalizeContentHash): a crash or *)
(* a failure between the row, the chunks and the marker leaves it unmarked. *)
MarkerIsHonest ==
  \A p \in Path :
    doc[p].status = "ok" /\ doc[p].hash # None => chunks[p].of = doc[p].hash

Wanted(p) ==
  LET b == disk[Src(p)].body
  IN  IF p \in File THEN IF b \in Content \ Refused THEN b ELSE None
      ELSE IF p \in Member /\ b \in Packing /\ p \in DOMAIN b
           THEN IF b[p] \in Content \ Refused THEN b[p] ELSE None
      ELSE None

(* After a scan that nothing disturbed, search serves of every document     *)
(* exactly what the corpus holds: whatever scans, watcher jobs, failures    *)
(* and crashes came before, and however the hash gate, the signals and the  *)
(* account of seen paths cut the work short.                                *)
ReconciledAfterScan ==
  pc = "done" => \A p \in Path : Src(p) \in clean => Searchable(p) = Wanted(p)

(* Nothing is taken out of the corpus whose source is there, unchanged and  *)
(* readable since the scan or job began (markMissingAsDeleted trusts the    *)
(* paths every branch of the scan recorded as seen).                        *)
OnlyMissingTombstoned ==
  [][\A p \in Path : ~doc[p].deleted /\ doc'[p].deleted =>
       Src(p) \notin clean \/ Wanted(p) = None]_vars

(* A document that is edited again and again stays searchable while it is   *)
(* processed: only a failure, a deletion or a refusal takes its content     *)
(* away (processDocument; watch.go, process, issue #409).                   *)
NeverBlinks ==
  [][\A p \in File : Searchable(p) # None /\ Searchable(p)' = None =>
       faults' # faults \/ listed'[p].body \notin Content \/ disk[p].body \notin Content
       \/ disk[p].body \in Refused]_vars

(* Once the corpus and the failures come to rest, the index reflects it.    *)
Converges == <>[](\A p \in Path : Searchable(p) = Wanted(p))
=============================================================================
