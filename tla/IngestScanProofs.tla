-------------------------- MODULE IngestScanProofs --------------------------
(***************************************************************************)
(* Proofs about IngestScan. For every corpus, every kind of drift and any  *)
(* number of edits, failures and crashes: its states are well typed, a     *)
(* document carries the hash of a content only when its chunks were cut    *)
(* from that content, the sweep tombstones nothing that was there, and     *)
(* search never loses a file that stayed. Without drift, what did not      *)
(* change during a scan is served as it is when the scan is done.          *)
(*                                                                         *)
(* What makes the marker inductive is what the worker knows between two    *)
(* commits: a document in work has no hash, its chunks are the ones of the *)
(* content in hand by the time the marker is stamped, and a row skipped    *)
(* with a hash is that of an archive or of a refused content, so that an   *)
(* equal hash never turns it into a finished document.                     *)
(*                                                                         *)
(* What the sweep may take follows from the account a scan keeps: each     *)
(* source that is still to be visited, in hand or seen is accounted for,   *)
(* and an archive's active members are seen with it or before it.          *)
(*                                                                         *)
(* Reconciliation (the last part) needs beside this that every reason to   *)
(* skip a document is true of its rows: a recorded signal is of the        *)
(* content whose hash is recorded, a marked leaf is served as that         *)
(* content, and the marker of an archive implies those of its members.     *)
(***************************************************************************)
EXTENDS IngestScan, TLAPS

DocsOK ==
  /\ doc \in [Path -> Row]
  /\ chunks \in [Path -> [of : Content \cup {None}, deleted : BOOLEAN]]

CorpusOK ==
  /\ disk \in [Source -> Entry] /\ listed \in [Source -> Entry]
  /\ \A p \in Source : disk[p].sig <= edits
  /\ edits \in 0..MaxEdits /\ faults \in 0..MaxFaults
  /\ clean \subseteq Source

WorkerOK ==
  /\ pc \in {"idle", "scan", "generate", "finalize", "extract", "members",
             "refuse", "done"}
  /\ scanning \in BOOLEAN /\ force \in BOOLEAN /\ whole \in BOOLEAN
  /\ todo \subseteq Source /\ existing \subseteq Path /\ seen \subseteq Path
  /\ cur \in Path \cup {None} /\ body \in Content \cup {None}
  /\ box \in Archive \cup {None} /\ boxBody \in Packing \cup {None}
  /\ pack \in Packing \cup {None} /\ rest \subseteq Member

Marking(p, status, hash, of) ==
  hash # None => \/ status = "ok" /\ of = hash
                 \/ status = "skipped" /\ (p \in Archive \/ hash \in Refused)

Marked == \A p \in Path : Marking(p, doc[p].status, doc[p].hash, chunks[p].of)

InMember ==
  \/ pc = "members"
  \/ pc \in {"generate", "finalize"} /\ cur \in Member

Stage ==
  /\ pc \in {"generate", "finalize"} =>
       cur \in File \cup Member /\ body \in Content /\ doc[cur].hash = None
  /\ pc = "finalize" => (doc[cur].status = "ok" => chunks[cur].of = body)
  /\ pc = "refuse" => cur \in Source
  /\ pc = "extract" \/ InMember => box \in Archive /\ boxBody \in Packing
  /\ InMember => pack \in Packing /\ rest \subseteq DOMAIN pack

IngestInv == DocsOK /\ CorpusOK /\ WorkerOK /\ Marked /\ Stage

-----------------------------------------------------------------------------
(* The documents table *)

KeptOf ==
  /\ chunks' \in [Path -> [of : Content \cup {None}, deleted : BOOLEAN]]
  /\ \A q \in Path : chunks'[q].of = chunks[q].of

(* A row may be written when its hash is allowed to stand beside the chunks. *)
LEMMA PutMarks ==
  ASSUME DocsOK, Marked, KeptOf, NEW p \in Path,
         NEW status \in {"none", "ok", "skipped", "link", "big", "error"},
         NEW hash \in Hash, NEW sig \in 0..MaxEdits,
         Put(p, status, hash, sig), Marking(p, status, hash, chunks[p].of)
  PROVE  DocsOK' /\ Marked' /\ doc'[p].hash = hash /\ doc'[p].status = status
  <1>1. [status |-> status, hash |-> hash, deleted |-> FALSE, sig |-> sig] \in Row
    BY DEF Row
  <1>2. doc' \in [Path -> Row]
    BY <1>1 DEF Put, DocsOK
  <1>3. /\ doc'[p].hash = hash /\ doc'[p].status = status
        /\ \A q \in Path : q # p => doc'[q] = doc[q]
    BY DEF Put, DocsOK
  <1>4. DocsOK'
    BY <1>2 DEF DocsOK, KeptOf
  <1>5. Marked'
    BY <1>3 DEF Marked, Marking, KeptOf
  <1>6. QED
    BY <1>3, <1>4, <1>5

LEMMA RetireKeeps ==
  ASSUME DocsOK, NEW p \in Path, RetireChunks(p)
  PROVE  KeptOf
  <1>1. chunks' \in [Path -> [of : Content \cup {None}, deleted : BOOLEAN]]
    BY DEF RetireChunks, DocsOK
  <1>2. \A q \in Path : chunks'[q].of = chunks[q].of
    BY DEF RetireChunks, DocsOK
  <1>3. QED
    BY <1>1, <1>2 DEF KeptOf

LEMMA UnchangedKeeps ==
  ASSUME DocsOK, UNCHANGED chunks
  PROVE  KeptOf
  BY DEF DocsOK, KeptOf

LEMMA RowsKept ==
  ASSUME DocsOK, Marked, KeptOf, UNCHANGED doc
  PROVE  DocsOK' /\ Marked'
  BY DEF DocsOK, Marked, Marking, KeptOf

(* A tombstone keeps the hash, and the chunks it belongs to.                *)
LEMMA DeleteMarks ==
  ASSUME DocsOK, Marked, NEW p \in Path, MarkDocumentDeleted(p)
  PROVE  DocsOK' /\ Marked'
  <1>1. KeptOf
    BY RetireKeeps DEF MarkDocumentDeleted
  <1>2. doc' \in [Path -> Row]
    BY ZenonT(60) DEF MarkDocumentDeleted, DocsOK, Row
  <1>3. \A q \in Path : doc'[q].hash = doc[q].hash /\ doc'[q].status = doc[q].status
    BY DEF MarkDocumentDeleted, DocsOK, Row
  <1>4. QED
    BY <1>1, <1>2, <1>3 DEF DocsOK, Marked, Marking, KeptOf

(* New chunks may replace those of a document without a hash.               *)
LEMMA ReplaceMarks ==
  ASSUME DocsOK, Marked, NEW p \in Path, NEW b \in Content, doc[p].hash = None,
         chunks' = [chunks EXCEPT ![p] = [of |-> b, deleted |-> FALSE]], UNCHANGED doc
  PROVE  DocsOK' /\ Marked' /\ chunks'[p].of = b
  <1>1. DocsOK' /\ chunks'[p].of = b /\ \A q \in Path : q # p => chunks'[q] = chunks[q]
    BY DEF DocsOK
  <1>2. QED
    BY <1>1 DEF Marked, Marking

(* An equal hash, with no error, says that the chunks are there.            *)
LEMMA GateMarks ==
  ASSUME Marked, NEW p \in Path \ Archive, NEW hash \in Content \ Refused,
         ~NeedsProcessing(p, hash)
  PROVE  Marking(p, "ok", hash, chunks[p].of)
  BY DEF Marked, Marking, NeedsProcessing

-----------------------------------------------------------------------------

(* What most steps leave alone *)

LEMMA StoreKept ==
  ASSUME DocsOK, Marked, UNCHANGED store
  PROVE  DocsOK' /\ Marked'
  BY UnchangedKeeps, RowsKept DEF store

LEMMA EnvKept ==
  ASSUME CorpusOK, UNCHANGED <<disk, listed, edits>>, Fault \/ NoFault
  PROVE  CorpusOK'
  BY Bounds DEF CorpusOK, Fault, NoFault

LEMMA ListedKept ==
  ASSUME CorpusOK, UNCHANGED <<disk, edits, faults>>, clean' \subseteq Source,
         listed' \in [Source -> Entry]
  PROVE  CorpusOK'
  BY DEF CorpusOK

LEMMA Sigs ==
  ASSUME CorpusOK, NEW p \in Source
  PROVE  listed[p].sig \in 0..MaxEdits /\ disk[p] \in Entry
  BY DEF CorpusOK, Entry

LEMMA NamesDiffer ==
  /\ File \subseteq Path /\ Archive \subseteq Path
  /\ Source \subseteq Path /\ Member \subseteq Path
  /\ \A p \in File : p \notin Archive /\ p \notin Member
  /\ \A p \in Archive : p \notin Member
  /\ None \notin Path /\ None \notin Content
  /\ \A f \in Packing : DOMAIN f \subseteq Member
  /\ \A m \in Member : Of[m] \in Archive
  /\ Big \notin Content /\ Gone \notin Content \cup Packing
  BY Paths, Contents DEF Source, Path


(* The marker goes onto a row in good health, whose chunks are those of the *)
(* content it names.                                                        *)
LEMMA StampMarks ==
  ASSUME DocsOK, Marked, NEW p \in Path, NEW b \in Content,
         doc[p].status = "ok" => chunks[p].of = b, UNCHANGED chunks,
         doc' = IF doc[p].status = "ok" THEN [doc EXCEPT ![p].hash = b] ELSE doc
  PROVE  DocsOK' /\ Marked'
  <1>1. CASE doc[p].status = "ok"
    <2>1. [doc[p] EXCEPT !.hash = b] \in Row
      BY DEF DocsOK, Row, Hash
    <2>2. DocsOK' /\ doc' = [doc EXCEPT ![p] = [doc[p] EXCEPT !.hash = b]]
      BY <1>1, <2>1 DEF DocsOK
    <2>3. /\ doc'[p].status = "ok" /\ doc'[p].hash = b
          /\ \A q \in Path : q # p => doc'[q] = doc[q]
      BY <1>1, <2>2 DEF DocsOK, Row
    <2>4. QED
      BY <1>1, <2>2, <2>3 DEF Marked, Marking
  <1>2. CASE doc[p].status # "ok"
    BY <1>2, UnchangedKeeps, RowsKept
  <1>3. QED
    BY <1>1, <1>2

LEMMA SealMarks ==
  ASSUME DocsOK, Marked, NEW p \in Archive, p \in Path, NEW b \in Packing,
         NEW sealed \in BOOLEAN, UNCHANGED chunks,
         doc' = IF sealed /\ doc[p].status = "skipped" THEN [doc EXCEPT ![p].hash = b] ELSE doc
  PROVE  DocsOK' /\ Marked'
  <1>1. CASE sealed /\ doc[p].status = "skipped"
    <2>1. [doc[p] EXCEPT !.hash = b] \in Row
      BY DEF DocsOK, Row, Hash
    <2>2. DocsOK' /\ doc' = [doc EXCEPT ![p] = [doc[p] EXCEPT !.hash = b]]
      BY <1>1, <2>1 DEF DocsOK
    <2>3. /\ doc'[p].status = "skipped" /\ doc'[p].hash = b
          /\ \A q \in Path : q # p => doc'[q] = doc[q]
      BY <1>1, <2>2 DEF DocsOK, Row
    <2>4. QED
      BY <1>1, <2>2, <2>3 DEF Marked, Marking
  <1>2. CASE ~(sealed /\ doc[p].status = "skipped")
    BY <1>2, UnchangedKeeps, RowsKept
  <1>3. QED
    BY <1>1, <1>2

LEMMA LeaveKeeps ==
  ASSUME Leave, cur \in Path, seen \subseteq Path
  PROVE  /\ cur' = None /\ body' = None
         /\ pc' \in {"scan", "members"} /\ seen' \subseteq Path
  BY DEF Leave, Settle, Account

LEMMA NothingListed == NotListed \in [Source -> Entry]
  BY Bounds DEF NotListed, Entry

(* An edit counts, and so bounds every signal.                              *)
LEMMA EditKeeps ==
  ASSUME CorpusOK, NEW p \in Source, NEW b \in Held, Edit(p, b), UNCHANGED listed
  PROVE  CorpusOK'
  <1>1. disk[p].sig \in 0..edits /\ edits \in 0..MaxEdits /\ edits < MaxEdits
    BY DEF CorpusOK, Entry, Edit
  <1>2. PICK s \in {0, disk[p].sig + 1} :
          disk' = [disk EXCEPT ![p] = [body |-> b, sig |-> s]]
    BY DEF Edit, CorpusOK, Entry
  <1>3. [body |-> b, sig |-> s] \in Entry /\ s <= edits + 1
    BY <1>1, Bounds DEF Entry
  <1>4. disk' \in [Source -> Entry]
    BY <1>2, <1>3 DEF CorpusOK
  <1>5. \A q \in Source : disk'[q].sig <= edits + 1
    <2>1. TAKE q \in Source
    <2>2. CASE q = p
      BY <1>2, <1>3, <2>2 DEF CorpusOK
    <2>3. CASE q # p
      BY <1>1, <1>2, <2>3, Bounds DEF CorpusOK, Entry
    <2>4. QED
      BY <2>2, <2>3
  <1>6. QED
    BY <1>1, <1>4, <1>5, Bounds DEF Edit, CorpusOK

-----------------------------------------------------------------------------
(* A scan or a job begins *)

LEMMA BeginStep ==
  ASSUME IngestInv, 
         \/ \E reindex \in BOOLEAN : StartScan(reindex)
         \/ \E p \in Source : WatchChanged(p)
         \/ \E p \in Source : WatchGone(p)
         \/ \E p \in Source : WatchIneligible(p)
  PROVE  IngestInv'
  <1> USE NamesDiffer DEF IngestInv
  <1>1. ASSUME NEW reindex \in BOOLEAN, StartScan(reindex)
        PROVE  IngestInv'
    <2>1. DocsOK' /\ Marked'
      BY <1>1, StoreKept DEF StartScan
    <2>2. CorpusOK'
      BY <1>1, ListedKept DEF CorpusOK, StartScan, env
    <2>3. WorkerOK'
      BY <1>1 DEF WorkerOK, StartScan, archive, Active
    <2>4. Stage'
      BY <1>1 DEF Stage, InMember, StartScan
    <2>5. QED
      BY <2>1, <2>2, <2>3, <2>4
  <1>2. ASSUME NEW p \in Source, WatchChanged(p)
        PROVE  IngestInv'
    <2>1. DocsOK' /\ Marked'
      BY <1>2, StoreKept DEF WatchChanged
    <2>2. CorpusOK'
      BY <1>2, ListedKept DEF CorpusOK, WatchChanged, StartJob, env
    <2>3. WorkerOK'
      BY <1>2 DEF WorkerOK, WatchChanged, StartJob, archive
    <2>4. Stage'
      BY <1>2 DEF Stage, InMember, WatchChanged
    <2>5. QED
      BY <2>1, <2>2, <2>3, <2>4
  <1>3. ASSUME NEW p \in Source, WatchGone(p)
        PROVE  IngestInv'
    <2>1. DocsOK' /\ Marked'
      BY <1>3, DeleteMarks DEF WatchGone
    <2>2. CorpusOK'
      BY <1>3, ListedKept DEF CorpusOK, WatchGone, StartJob, env
    <2>3. WorkerOK'
      BY <1>3 DEF WorkerOK, WatchGone, StartJob, archive, Active, MembersOf
    <2>4. Stage'
      BY <1>3 DEF Stage, InMember, WatchGone
    <2>5. QED
      BY <2>1, <2>2, <2>3, <2>4
  <1>4. ASSUME NEW p \in Source, WatchIneligible(p)
        PROVE  IngestInv'
    <2>1. DocsOK' /\ Marked'
      BY <1>4, DeleteMarks DEF WatchIneligible
    <2>2. CorpusOK'
      BY <1>4, ListedKept DEF CorpusOK, WatchIneligible, env
    <2>3. WorkerOK'
      BY <1>4 DEF WorkerOK, WatchIneligible, archive
    <2>4. Stage'
      BY <1>4 DEF Stage, InMember, WatchIneligible
    <2>5. QED
      BY <2>1, <2>2, <2>3, <2>4
  <1>5. QED
    BY <1>1, <1>2, <1>3, <1>4
-----------------------------------------------------------------------------
(* Entries the walk drops *)

LEMMA DropStep ==
  ASSUME IngestInv, 
         \/ \E p \in Source : PersistSymlinkSkip(p)
         \/ \E p \in Source : RetireOversize(p)
         \/ PersistSkipRow
  PROVE  IngestInv'
  <1> USE NamesDiffer DEF IngestInv
  <1>1. ASSUME NEW p \in Source, PersistSymlinkSkip(p)
        PROVE  IngestInv'
    <2>1. DocsOK' /\ Marked'
      BY <1>1, UnchangedKeeps, PutMarks, RowsKept, Bounds DEF PersistSymlinkSkip, Hash,
             Marking
    <2>2. CorpusOK'
      BY <1>1, EnvKept DEF PersistSymlinkSkip, Settle, Account, run, env
    <2>3. WorkerOK'
      BY <1>1 DEF WorkerOK, PersistSymlinkSkip, Settle, Account, run, archive
    <2>4. Stage'
      BY <1>1 DEF Stage, InMember, PersistSymlinkSkip, Settle
    <2>5. QED
      BY <2>1, <2>2, <2>3, <2>4
  <1>2. ASSUME NEW p \in Source, RetireOversize(p)
        PROVE  IngestInv'
    <2>1. DocsOK' /\ Marked'
      BY <1>2, RetireKeeps, UnchangedKeeps, RowsKept DEF RetireOversize
    <2>2. CorpusOK'
      BY <1>2, EnvKept DEF RetireOversize, Settle, Account, run, env
    <2>3. WorkerOK'
      BY <1>2 DEF WorkerOK, RetireOversize, Settle, Account, run, archive
    <2>4. Stage'
      BY <1>2 DEF Stage, InMember, RetireOversize, Settle
    <2>5. QED
      BY <2>1, <2>2, <2>3, <2>4
  <1>3. CASE PersistSkipRow
    <2>1. cur \in Path
      BY <1>3 DEF Stage, PersistSkipRow
    <2>2. DocsOK' /\ Marked'
      BY <1>3, <2>1, UnchangedKeeps, PutMarks, RowsKept, Bounds DEF PersistSkipRow,
             Hash, Marking, Reason
    <2>3. CorpusOK'
      BY <1>3, EnvKept DEF PersistSkipRow, Settle, Account, run, env
    <2>4. WorkerOK'
      BY <1>3, <2>1 DEF WorkerOK, PersistSkipRow, Settle, Account, run, archive
    <2>5. Stage'
      BY <1>3 DEF Stage, InMember, PersistSkipRow, Settle
    <2>6. QED
      BY <2>1, <2>2, <2>3, <2>4, <2>5
  <1>4. QED
    BY <1>1, <1>2, <1>3
-----------------------------------------------------------------------------
(* One document *)

LEMMA BuildStep ==
  ASSUME IngestInv, 
         \/ \E p \in Source : SkipUnchanged(p)
         \/ \E p \in Source : BuildFails(p)
         \/ \E p \in Source : SizeCapSkip(p)
         \/ \E p \in File : BuildFile(p)
         \/ \E p \in Archive : BuildArchive(p)
  PROVE  IngestInv'
  <1> USE NamesDiffer DEF IngestInv
  <1>1. ASSUME NEW p \in Source, SkipUnchanged(p)
        PROVE  IngestInv'
    <2>1. DocsOK' /\ Marked'
      BY <1>1, StoreKept DEF SkipUnchanged
    <2>2. CorpusOK'
      BY <1>1, EnvKept DEF SkipUnchanged, Visit, run, env
    <2>3. WorkerOK'
      BY <1>1 DEF WorkerOK, SkipUnchanged, Visit, Settle, Account, Retained, MembersOf,
             Active, run, archive
    <2>4. Stage'
      BY <1>1 DEF Stage, InMember, SkipUnchanged, Settle
    <2>5. QED
      BY <2>1, <2>2, <2>3, <2>4
  <1>2. ASSUME NEW p \in Source, BuildFails(p)
        PROVE  IngestInv'
    <2>1. DocsOK' /\ Marked'
      BY <1>2, UnchangedKeeps, PutMarks, RowsKept, Sigs DEF BuildFails, Hash, Marking
    <2>2. CorpusOK'
      BY <1>2, EnvKept DEF BuildFails, Visit, run, env
    <2>3. WorkerOK'
      BY <1>2 DEF WorkerOK, BuildFails, Visit, Settle, Account, run, archive
    <2>4. Stage'
      BY <1>2 DEF Stage, InMember, BuildFails, Settle
    <2>5. QED
      BY <2>1, <2>2, <2>3, <2>4
  <1>3. ASSUME NEW p \in Source, SizeCapSkip(p)
        PROVE  IngestInv'
    <2>1. DocsOK' /\ Marked'
      BY <1>3, RetireKeeps, RowsKept DEF SizeCapSkip
    <2>2. CorpusOK'
      BY <1>3, EnvKept DEF SizeCapSkip, Visit, run, env
    <2>3. WorkerOK'
      BY <1>3 DEF WorkerOK, SizeCapSkip, Visit, run, archive
    <2>4. Stage'
      BY <1>3 DEF Stage, InMember, SizeCapSkip
    <2>5. QED
      BY <2>1, <2>2, <2>3, <2>4
  <1>4. ASSUME NEW p \in File, BuildFile(p)
        PROVE  IngestInv'
    <2> DEFINE hash == disk[p].body
           status == IF hash \in Refused THEN "skipped" ELSE "ok"
           work == NeedsProcessing(p, hash) /\ status = "ok"
           written == Withheld(work, hash)
    <2>1. p \in Source /\ hash \in Content /\ work \in BOOLEAN
      BY <1>4 DEF BuildFile, Source, NeedsProcessing
    <2>2. Marking(p, status, written, chunks[p].of)
      BY <2>1, GateMarks DEF Marking, Withheld
    <2>3. DocsOK' /\ Marked' /\ doc'[p].hash = written
      BY <1>4, <2>1, <2>2, UnchangedKeeps, PutMarks, Sigs DEF BuildFile, Hash, Withheld
    <2>4. CorpusOK'
      BY <1>4, EnvKept DEF BuildFile, Visit, run, env
    <2>5. WorkerOK'
      BY <1>4 DEF WorkerOK, BuildFile, Visit, Settle, Account, run, archive
    <2>6. Stage'
      BY <1>4, <2>1, <2>3 DEF Stage, InMember, BuildFile, Settle, Withheld
    <2>7. QED
      BY <2>1, <2>2, <2>3, <2>4, <2>5, <2>6
  <1>5. ASSUME NEW p \in Archive, BuildArchive(p)
        PROVE  IngestInv'
    <2> DEFINE hash == disk[p].body
           written == Withheld(NeedsProcessing(p, hash), hash)
    <2>1. p \in Source /\ hash \in Packing /\ written \in Hash
      BY <1>5 DEF BuildArchive, Source, NeedsProcessing, Withheld, Hash
    <2>2. DocsOK' /\ Marked'
      BY <1>5, <2>1, UnchangedKeeps, PutMarks, Sigs DEF BuildArchive, Marking
    <2>3. CorpusOK'
      BY <1>5, EnvKept DEF BuildArchive, Visit, run, env
    <2>4. WorkerOK'
      BY <1>5 DEF WorkerOK, BuildArchive, Visit, Settle, Account, Retained, MembersOf,
             Active, run, archive
    <2>5. Stage'
      BY <1>5, <2>1 DEF Stage, InMember, BuildArchive, Settle
    <2>6. QED
      BY <2>1, <2>2, <2>3, <2>4, <2>5
  <1>6. QED
    BY <1>1, <1>2, <1>3, <1>4, <1>5
-----------------------------------------------------------------------------
(* The representations of a document *)

LEMMA GenerateStep ==
  ASSUME IngestInv, 
         \/ GenerateRepresentations
         \/ GenerationFails
         \/ GenerationDegrades
         \/ GenerationIncomplete
         \/ FinalizeContentHash
  PROVE  IngestInv'
  <1> USE NamesDiffer DEF IngestInv
  <1>1. CASE GenerateRepresentations
    <2>1. cur \in Path /\ body \in Content /\ doc[cur].hash = None
      BY <1>1 DEF Stage, GenerateRepresentations
    <2>2. DocsOK' /\ Marked' /\ chunks'[cur].of = body
      BY <1>1, <2>1, ReplaceMarks DEF GenerateRepresentations
    <2>3. CorpusOK'
      BY <1>1, EnvKept DEF GenerateRepresentations, run, env
    <2>4. WorkerOK'
      BY <1>1 DEF WorkerOK, GenerateRepresentations, run, archive
    <2>5. Stage'
      BY <1>1, <2>1, <2>2 DEF Stage, InMember, GenerateRepresentations, archive
    <2>6. QED
      BY <2>1, <2>2, <2>3, <2>4, <2>5
  <1>2. CASE GenerationFails
    <2>1. cur \in Path /\ doc[cur].sig \in 0..MaxEdits
      BY <1>2 DEF Stage, GenerationFails, DocsOK, Row
    <2>2. DocsOK' /\ Marked'
      BY <1>2, <2>1, UnchangedKeeps, PutMarks, RowsKept DEF GenerationFails, Hash, Marking
    <2>3. CorpusOK'
      BY <1>2, EnvKept DEF GenerationFails, run, env
    <2>4. WorkerOK'
      BY <1>2, <2>1, LeaveKeeps DEF WorkerOK, GenerationFails, run
    <2>5. Stage'
      BY <1>2 DEF Stage, InMember, GenerationFails, Leave, Settle
    <2>6. QED
      BY <2>1, <2>2, <2>3, <2>4, <2>5
  <1>3. CASE GenerationDegrades
    <2>1. cur \in Path /\ doc[cur].sig \in 0..MaxEdits
      BY <1>3 DEF Stage, GenerationDegrades, DocsOK, Row
    <2>2. DocsOK' /\ Marked' /\ doc'[cur].status = "error" /\ doc'[cur].hash = None
      BY ZenonT(60), <1>3, <2>1, UnchangedKeeps, PutMarks DEF GenerationDegrades, Hash,
             Marking
    <2>3. CorpusOK'
      BY <1>3, EnvKept DEF GenerationDegrades, run, env
    <2>4. WorkerOK'
      BY <1>3 DEF WorkerOK, GenerationDegrades, run, archive
    <2>5. Stage'
      BY <1>3, <2>1, <2>2 DEF Stage, InMember, GenerationDegrades, archive
    <2>6. QED
      BY <2>1, <2>2, <2>3, <2>4, <2>5
  <1>4. CASE GenerationIncomplete
    <2>1. cur \in Path /\ body \in Content /\ doc[cur].hash = None
      BY <1>4 DEF Stage, GenerationIncomplete
    <2>2. DocsOK' /\ Marked'
      BY <1>4, <2>1, ReplaceMarks DEF GenerationIncomplete
    <2>3. CorpusOK'
      BY <1>4, EnvKept DEF GenerationIncomplete, run, env
    <2>4. WorkerOK'
      BY <1>4, <2>1, LeaveKeeps DEF WorkerOK, GenerationIncomplete, run, archive
    <2>5. Stage'
      BY <1>4 DEF Stage, InMember, GenerationIncomplete, Leave, Settle, archive
    <2>6. QED
      BY <2>1, <2>2, <2>3, <2>4, <2>5
  <1>5. CASE FinalizeContentHash
    <2>1. /\ cur \in Path /\ body \in Content
          /\ doc[cur].status = "ok" => chunks[cur].of = body
      BY <1>5 DEF Stage, FinalizeContentHash
    <2>2. DocsOK' /\ Marked'
      BY <1>5, <2>1, StampMarks, UnchangedKeeps, RowsKept DEF FinalizeContentHash
    <2>3. CorpusOK'
      BY <1>5, EnvKept DEF FinalizeContentHash, run, env
    <2>4. WorkerOK'
      BY <1>5, <2>1, LeaveKeeps DEF WorkerOK, FinalizeContentHash, run
    <2>5. Stage'
      BY <1>5 DEF Stage, InMember, FinalizeContentHash, Leave, Settle
    <2>6. QED
      BY <2>1, <2>2, <2>3, <2>4, <2>5
  <1>6. QED
    BY <1>1, <1>2, <1>3, <1>4, <1>5
-----------------------------------------------------------------------------
(* The members of an archive *)

LEMMA ArchiveStep ==
  ASSUME IngestInv, 
         \/ ExtractArchiveMembers
         \/ ExtractionFails
         \/ \E m \in Member : IngestMember(m)
         \/ \E m \in Member : MemberFails(m)
         \/ SealArchive
  PROVE  IngestInv'
  <1> USE NamesDiffer DEF IngestInv
  <1>1. CASE ExtractArchiveMembers
    <2>1. DocsOK' /\ Marked'
      BY <1>1, StoreKept DEF ExtractArchiveMembers
    <2>2. CorpusOK'
      BY <1>1, EnvKept DEF ExtractArchiveMembers, run, env
    <2>3. WorkerOK'
      BY <1>1 DEF WorkerOK, ExtractArchiveMembers, run, archive
    <2>4. Stage'
      BY <1>1 DEF Stage, InMember, ExtractArchiveMembers
    <2>5. QED
      BY <2>1, <2>2, <2>3, <2>4
  <1>2. CASE ExtractionFails
    <2>1. box \in Path /\ doc[box].sig \in 0..MaxEdits
      BY <1>2 DEF Stage, ExtractionFails, DocsOK, Row
    <2>2. DocsOK' /\ Marked'
      BY <1>2, <2>1, UnchangedKeeps, PutMarks, RowsKept DEF ExtractionFails,
             CloseArchive, Hash, Marking
    <2>3. CorpusOK'
      BY <1>2, EnvKept DEF ExtractionFails, CloseArchive, run, env
    <2>4. WorkerOK'
      BY <1>2, <2>1 DEF WorkerOK, ExtractionFails, CloseArchive, Settle, Account, run
    <2>5. Stage'
      BY <1>2 DEF Stage, InMember, ExtractionFails, CloseArchive, Settle
    <2>6. QED
      BY <2>1, <2>2, <2>3, <2>4, <2>5
  <1>3. ASSUME NEW m \in Member, IngestMember(m)
        PROVE  IngestInv'
    <2> DEFINE hash == pack[m]
           work == NeedsProcessing(m, hash)
    <2>1. m \in Path \ Archive /\ work \in BOOLEAN
      BY <1>3 DEF NeedsProcessing, DocsOK, WorkerOK
    <2>2. Put(m, "big", None, 0) => DocsOK' /\ Marked'
      BY <1>3, <2>1, UnchangedKeeps, PutMarks, Bounds DEF IngestMember, Hash, Marking
    <2>3. /\ hash \in Content \ Refused
          /\ Put(m, "ok", Withheld(work, hash), 0)
          => DocsOK' /\ Marked' /\ doc'[m].hash = Withheld(work, hash)
      BY <1>3, <2>1, GateMarks, UnchangedKeeps, PutMarks, Bounds DEF IngestMember,
             Hash, Marking, Withheld
    <2>4. DocsOK' /\ Marked'
      BY <1>3, <2>2, <2>3, UnchangedKeeps, RowsKept DEF IngestMember
    <2>5. CorpusOK'
      BY <1>3, EnvKept DEF IngestMember, run, env
    <2>6. WorkerOK'
      BY <1>3, <2>1 DEF WorkerOK, IngestMember, Account, run
    <2>7. InMember /\ box \in Archive /\ boxBody \in Packing /\ pack \in Packing
          /\ rest' \subseteq DOMAIN pack
      BY <1>3 DEF Stage, InMember, IngestMember
    <2>8. pc' = "members" \/ /\ pc' = "generate" /\ cur' = m /\ body' \in Content
                               /\ doc'[m].hash = None
      BY <1>3, <2>1, <2>3 DEF IngestMember, Withheld, InMember
    <2>9. Stage'
      BY <1>3, <2>1, <2>7, <2>8 DEF Stage, InMember, IngestMember
    <2>10. QED
      BY <2>1, <2>2, <2>3, <2>4, <2>5, <2>6, <2>7, <2>8, <2>9
  <1>4. ASSUME NEW m \in Member, MemberFails(m)
        PROVE  IngestInv'
    <2>1. DocsOK' /\ Marked'
      BY <1>4, StoreKept DEF MemberFails
    <2>2. CorpusOK'
      BY <1>4, EnvKept DEF MemberFails, Account, run, env
    <2>3. WorkerOK'
      BY <1>4 DEF WorkerOK, MemberFails, Account, run, archive
    <2>4. Stage'
      BY <1>4 DEF Stage, InMember, MemberFails
    <2>5. QED
      BY <2>1, <2>2, <2>3, <2>4
  <1>5. CASE SealArchive
    <2>1. box \in Archive /\ box \in Path /\ boxBody \in Packing
      BY <1>5 DEF Stage, InMember, SealArchive
    <2>2. DocsOK' /\ Marked'
      BY <1>5, <2>1, SealMarks, UnchangedKeeps, RowsKept DEF SealArchive, CloseArchive
    <2>3. CorpusOK'
      BY <1>5, EnvKept DEF SealArchive, CloseArchive, run, env
    <2>4. WorkerOK'
      BY <1>5, <2>1 DEF WorkerOK, SealArchive, CloseArchive, Settle, Account, run
    <2>5. Stage'
      BY <1>5 DEF Stage, InMember, SealArchive, CloseArchive, Settle
    <2>6. QED
      BY <2>1, <2>2, <2>3, <2>4, <2>5
  <1>6. QED
    BY <1>1, <1>2, <1>3, <1>4, <1>5
-----------------------------------------------------------------------------
(* The sweep, a crash, an edit *)

LEMMA SweepStep ==
  ASSUME IngestInv, 
         \/ \E p \in Path : MarkMissing(p)
         \/ FinishScan
         \/ Crash
         \/ \E p \in Source : (\E b \in Held : Edit(p, b))
  PROVE  IngestInv'
  <1> USE NamesDiffer DEF IngestInv
  <1>1. ASSUME NEW p \in Path, MarkMissing(p)
        PROVE  IngestInv'
    <2>1. DocsOK' /\ Marked'
      BY <1>1, DeleteMarks, StoreKept DEF MarkMissing
    <2>2. CorpusOK'
      BY <1>1, EnvKept DEF MarkMissing, Swept, run, env
    <2>3. WorkerOK'
      BY <1>1 DEF WorkerOK, MarkMissing, Swept, run, archive
    <2>4. Stage'
      BY <1>1 DEF Stage, InMember, MarkMissing, Swept
    <2>5. QED
      BY <2>1, <2>2, <2>3, <2>4
  <1>2. CASE FinishScan
    <2>1. DocsOK' /\ Marked'
      BY <1>2, StoreKept DEF FinishScan
    <2>2. CorpusOK'
      BY <1>2, ListedKept, NothingListed DEF CorpusOK, FinishScan, Reset, env
    <2>3. WorkerOK'
      BY <1>2 DEF WorkerOK, FinishScan, Reset, archive
    <2>4. Stage'
      BY <1>2 DEF Stage, InMember, FinishScan, Swept
    <2>5. QED
      BY <2>1, <2>2, <2>3, <2>4
  <1>3. CASE Crash
    <2>1. DocsOK' /\ Marked'
      BY <1>3, StoreKept DEF Crash
    <2>2. CorpusOK'
      BY <1>3, NothingListed, Bounds DEF CorpusOK, Crash, Fault, Reset, env
    <2>3. WorkerOK'
      BY <1>3 DEF WorkerOK, Crash, Reset
    <2>4. Stage'
      BY <1>3 DEF Stage, InMember, Crash
    <2>5. QED
      BY <2>1, <2>2, <2>3, <2>4
  <1>4. ASSUME NEW p \in Source, (\E b \in Held : Edit(p, b))
        PROVE  IngestInv'
    <2>1. DocsOK' /\ Marked'
      BY <1>4, StoreKept DEF Edit
    <2>2. CorpusOK'
      BY <1>4, EditKeeps DEF Edit, run
    <2>3. WorkerOK'
      BY <1>4 DEF WorkerOK, Edit, run, archive
    <2>4. Stage'
      BY <1>4 DEF Stage, InMember, Edit, store, archive
    <2>5. QED
      BY <2>1, <2>2, <2>3, <2>4
  <1>5. QED
    BY <1>1, <1>2, <1>3, <1>4
-----------------------------------------------------------------------------

LEMMA InitInv == Init => IngestInv
  <1> SUFFICES ASSUME Init PROVE IngestInv
    OBVIOUS
  <1> USE NamesDiffer, Bounds DEF Init
  <1>1. DocsOK /\ Marked
    BY DEF DocsOK, Marked, Marking, NoRow, Row, Hash
  <1>2. CorpusOK
    BY NothingListed DEF CorpusOK, Entry
  <1>3. WorkerOK /\ Stage
    BY DEF WorkerOK, Stage, InMember
  <1>4. QED
    BY <1>1, <1>2, <1>3 DEF IngestInv

LEMMA NextInv == IngestInv /\ [Next]_vars => IngestInv'
  <1> SUFFICES ASSUME IngestInv, [Next]_vars PROVE IngestInv'
    OBVIOUS
  <1>1. CASE (\E reindex \in BOOLEAN : StartScan(reindex)) \/ Watch
    BY <1>1, BeginStep DEF Watch
  <1>2. CASE Work
    <2>1. File \subseteq Source /\ Archive \subseteq Source
      BY DEF Source
    <2>2. \A p \in Source : (BuildFile(p) => p \in File) /\ (BuildArchive(p) => p \in Archive)
      BY DEF BuildFile, BuildArchive
    <2>3. QED
      BY <1>2, <2>1, <2>2, DropStep, BuildStep, GenerateStep, ArchiveStep,
             SweepStep DEF Work
  <1>3. CASE Crash \/ \E p \in Source, b \in Held : Edit(p, b)
    BY <1>3, SweepStep
  <1>4. CASE UNCHANGED vars
    BY <1>4 DEF vars, IngestInv, DocsOK, CorpusOK, WorkerOK, Marked, Marking, Stage,
           InMember
  <1>5. QED
    BY <1>1, <1>2, <1>3, <1>4 DEF Next

LEMMA Invariance == Spec => []IngestInv
  BY InitInv, NextInv, PTL DEF Spec

(* Every state of the ingest service is well typed.                         *)
THEOREM IngestTypeCorrect == Spec => []TypeOK
  <1>1. IngestInv => TypeOK
    BY DEF IngestInv, DocsOK, CorpusOK, WorkerOK, TypeOK
  <1>2. QED
    BY <1>1, Invariance, PTL

(* A document carries the hash of a content only when its chunks were cut   *)
(* from that content: the order of the three commits of processDocument and *)
(* the guard of finalizeContentHash keep the done marker honest through     *)
(* failures and crashes at any point, in any corpus.                        *)
THEOREM MarkerHonest == Spec => []MarkerIsHonest
  <1>1. IngestInv => MarkerIsHonest
    BY DEF IngestInv, Marked, Marking, MarkerIsHonest
  <1>2. QED
    BY <1>1, Invariance, PTL
-----------------------------------------------------------------------------
(* What the worker has in hand, and what it has put away.                   *)
AtHand ==
  /\ cur # None => pc \in {"generate", "finalize", "refuse"}
  /\ IF box = None THEN pack = None /\ rest = {} /\ whole ELSE pc = "extract" \/ InMember
  /\ pc = "extract" => pack = None /\ rest = {}
  /\ pc = "refuse" => cur \in File
  /\ pc \in {"idle", "done"} => ~scanning /\ listed = NotListed /\ existing = {} /\ todo = {}
  /\ InMember => /\ \A m \in DOMAIN pack : Of[m] = box
                 /\ cur # None => cur \in DOMAIN pack \ rest /\ body = pack[cur]

Bodies ==
  /\ \A p \in Source : disk[p].body \in Body(p) /\ listed[p].body \in Body(p) \cup {None}
  /\ \A p \in todo : listed[p].body \in Ingestible(p)

(* A scan accounts for every path it found: it is still to be visited, in   *)
(* work, or seen.                                                           *)
Accounted ==
  scanning =>
    /\ \A p \in Source : listed[p].body \in Ingestible(p) => p \in todo \cup seen \cup {cur, box}
    /\ todo \cap seen = {} /\ {cur, box} \cap (todo \cup (seen \cap Source)) = {}
    /\ InMember => DOMAIN pack \subseteq rest \cup seen \cup {cur}

(* What was found is still so where nothing changed.                        *)
Steady ==
  scanning =>
    /\ \A p \in clean : disk[p] = listed[p]
    /\ InMember /\ box \in clean => pack = disk[box].body

(* What the scan will sweep, if it does not see it, is still there.         *)
StillActive == scanning => existing \subseteq Active

(* An archive is seen after the members it still has.                       *)
MembersFirst ==
  scanning =>
    \A m \in existing \cap Member : Of[m] \in clean \cap seen /\ Wanted(m) # None => m \in seen

(* A job of the watcher sweeps the members of an archive that is gone.      *)
JobSweeps ==
  ~scanning =>
    /\ seen = {}
    /\ existing # {} => pc = "scan" /\ todo = {}
    /\ \A p \in existing : p \in Member /\ (Of[p] \in clean => disk[Of[p]].body = Gone)

-----------------------------------------------------------------------------
(* Members are no sources, and nothing is ingested that is not content.     *)
LEMMA SourcesApart ==
  /\ \A m \in Member : m \notin Source
  /\ \A p \in Source : p \in File \/ p \in Archive
  /\ None \notin Source /\ Source \subseteq Path
  /\ \A p \in Source : {Gone, Link, Big, None} \cap Ingestible(p) = {}
  /\ \A p \in Archive : Ingestible(p) \subseteq Packing
  /\ \A p \in File : Ingestible(p) = Content
  BY Paths, Contents DEF Source, Path, Ingestible


(* Only a file is a link, or over the cap.                                  *)
LEMMA FilesOnly ==
  ASSUME Bodies, NEW p \in Source,
         disk[p].body \in {Link, Big} \/ listed[p].body \in {Link, Big}
  PROVE  p \in File
  BY Contents, SourcesApart DEF Bodies, Body

(* A row that is written is active.                                         *)
LEMMA PutActive ==
  ASSUME DocsOK, NEW p \in Path, NEW status, status # "none", NEW hash, NEW sig,
         Put(p, status, hash, sig)
  PROVE  Active \subseteq Active'
  BY DEF Put, DocsOK, Active

(* The rows say which documents are active.                                 *)
LEMMA SameActive ==
  ASSUME UNCHANGED doc
  PROVE  Active' = Active
  BY DEF Active

(* The done marker is no part of what makes a document active.              *)
LEMMA MarkerActive ==
  ASSUME DocsOK, NEW p \in Path, NEW hash, doc' = [doc EXCEPT ![p].hash = hash]
  PROVE  Active' = Active
  BY DEF Active, DocsOK

(* What an archive that has not changed should serve.                       *)
LEMMA WantedMember ==
  ASSUME NEW m \in Member, Wanted(m) # None
  PROVE  /\ Of[m] \in Archive /\ disk[Of[m]].body \in Packing
         /\ m \in DOMAIN disk[Of[m]].body
  BY Paths DEF Wanted, Src

(* Each step of the worker keeps what it has in hand.                       *)
LEMMA AtHandStep ==
  ASSUME IngestInv, Bodies, AtHand, [Next]_vars
  PROVE  AtHand'
  <1> USE NamesDiffer
  <1>1. ASSUME NEW reindex \in BOOLEAN, StartScan(reindex)
        PROVE  AtHand'
    BY <1>1 DEF IngestInv, WorkerOK, Stage, AtHand, InMember, StartScan, run, store,
          archive, env
  <1>2. ASSUME NEW p \in Source, WatchChanged(p)
        PROVE  AtHand'
    BY <1>2 DEF IngestInv, WorkerOK, Stage, AtHand, InMember, WatchChanged, StartJob,
          archive, env, store
  <1>3. ASSUME NEW p \in Source, WatchGone(p)
        PROVE  AtHand'
    BY <1>3 DEF IngestInv, WorkerOK, Stage, AtHand, InMember, WatchGone, StartJob,
          archive, env
  <1>4. ASSUME NEW p \in Source, WatchIneligible(p)
        PROVE  AtHand'
    BY <1>4, FilesOnly DEF IngestInv, WorkerOK, Stage, AtHand, InMember,
          WatchIneligible, archive, env
  <1>5. ASSUME NEW p \in Source, PersistSymlinkSkip(p)
        PROVE  AtHand'
    BY <1>5 DEF IngestInv, WorkerOK, Stage, AtHand, InMember, PersistSymlinkSkip,
          Settle, Account, run, archive, env, Dropped
  <1>6. ASSUME NEW p \in Source, RetireOversize(p)
        PROVE  AtHand'
    BY <1>6, FilesOnly DEF IngestInv, WorkerOK, Stage, AtHand, InMember, RetireOversize,
          Settle, Account, run, archive, env, Dropped
  <1>7. ASSUME PersistSkipRow
        PROVE  AtHand'
    BY <1>7 DEF IngestInv, WorkerOK, Stage, AtHand, InMember, PersistSkipRow, Settle,
          Account, run, archive, env
  <1>8. ASSUME NEW p \in Source, SkipUnchanged(p)
        PROVE  AtHand'
    BY <1>8 DEF IngestInv, WorkerOK, Stage, AtHand, InMember, SkipUnchanged, Visit,
          Settle, Account, Retained, run, store, archive, env
  <1>9. ASSUME NEW p \in Source, BuildFails(p)
        PROVE  AtHand'
    BY <1>9 DEF IngestInv, WorkerOK, Stage, AtHand, InMember, BuildFails, Visit, Settle,
          Account, run, archive, env
  <1>10. ASSUME NEW p \in Source, SizeCapSkip(p)
        PROVE  AtHand'
    BY <1>10, FilesOnly DEF IngestInv, WorkerOK, Stage, AtHand, InMember, SizeCapSkip,
          Visit, run, archive, env
  <1>11. ASSUME NEW p \in Source, BuildFile(p)
        PROVE  AtHand'
    BY <1>11 DEF IngestInv, WorkerOK, Stage, AtHand, InMember, BuildFile, Visit, Settle,
          Account, run, archive, env
  <1>12. ASSUME NEW p \in Source, BuildArchive(p)
        PROVE  AtHand'
    BY <1>12 DEF IngestInv, WorkerOK, Stage, AtHand, InMember, BuildArchive, Visit,
          Settle, Account, Retained, run, env
  <1>13. ASSUME GenerateRepresentations
        PROVE  AtHand'
    BY <1>13 DEF IngestInv, WorkerOK, Stage, AtHand, InMember, GenerateRepresentations,
          run, archive, env
  <1>14. ASSUME GenerationFails
        PROVE  AtHand'
    BY <1>14 DEF IngestInv, WorkerOK, Stage, AtHand, InMember, GenerationFails, Leave,
          Settle, Account, run, env
  <1>15. ASSUME GenerationDegrades
        PROVE  AtHand'
    BY <1>15 DEF IngestInv, WorkerOK, Stage, AtHand, InMember, GenerationDegrades, run,
          archive, env
  <1>16. ASSUME GenerationIncomplete
        PROVE  AtHand'
    BY <1>16 DEF IngestInv, WorkerOK, Stage, AtHand, InMember, GenerationIncomplete,
          Leave, Settle, Account, run, archive, env
  <1>17. ASSUME FinalizeContentHash
        PROVE  AtHand'
    BY <1>17 DEF IngestInv, WorkerOK, Stage, AtHand, InMember, FinalizeContentHash,
          Leave, Settle, Account, run, env
  <1>18. ASSUME ExtractArchiveMembers
        PROVE  AtHand'
    <2>1. box \in Archive /\ box \in Source /\ disk[box].body \in Packing /\ cur = None
      BY <1>18 DEF ExtractArchiveMembers, AtHand, IngestInv, Stage, InMember, Source
    <2>2. \A m \in DOMAIN disk[box].body : Of[m] = box
      BY <2>1, Contents DEF Bodies, Body, Ingestible
    <2>3. QED
      BY <1>18, <2>1, <2>2 DEF AtHand, InMember, ExtractArchiveMembers, run, env
  <1>19. ASSUME ExtractionFails
        PROVE  AtHand'
    BY <1>19 DEF IngestInv, WorkerOK, Stage, AtHand, InMember, ExtractionFails,
          CloseArchive, Settle, Account, run, env
  <1>20. ASSUME NEW m \in Member, IngestMember(m)
        PROVE  AtHand'
    BY <1>20 DEF IngestInv, WorkerOK, Stage, AtHand, InMember, IngestMember, Account,
          run, env
  <1>21. ASSUME NEW m \in Member, MemberFails(m)
        PROVE  AtHand'
    BY <1>21 DEF IngestInv, WorkerOK, Stage, AtHand, InMember, MemberFails, Account,
          run, store, env
  <1>22. ASSUME SealArchive
        PROVE  AtHand'
    BY <1>22 DEF IngestInv, WorkerOK, Stage, AtHand, InMember, SealArchive,
          CloseArchive, Settle, Account, run, env
  <1>23. ASSUME NEW p \in Path, MarkMissing(p)
        PROVE  AtHand'
    BY <1>23 DEF IngestInv, WorkerOK, Stage, AtHand, InMember, MarkMissing, Swept, env,
          archive, store
  <1>24. ASSUME FinishScan
        PROVE  AtHand'
    BY <1>24 DEF IngestInv, WorkerOK, Stage, AtHand, InMember, FinishScan, Swept, Reset,
          store, archive, env
  <1>25. ASSUME Crash
        PROVE  AtHand'
    BY <1>25 DEF IngestInv, WorkerOK, Stage, AtHand, InMember, Crash, Reset, store, env
  <1>26. ASSUME NEW p \in Source, NEW b \in Held, Edit(p, b)
        PROVE  AtHand'
    BY <1>26 DEF IngestInv, WorkerOK, Stage, AtHand, InMember, Edit, store, run, archive
  <1>27. CASE UNCHANGED vars
    BY <1>27 DEF vars, IngestInv, WorkerOK, Stage, AtHand, InMember
  <1>28. QED
    BY <1>1, <1>2, <1>3, <1>4, <1>5, <1>6, <1>7, <1>8, <1>9, <1>10, <1>11, <1>12, <1>13,
       <1>14, <1>15, <1>16, <1>17, <1>18, <1>19, <1>20, <1>21, <1>22, <1>23, <1>24,
       <1>25, <1>26, <1>27
       DEF Next, Watch, Work, Source

(* A path holds, and a walk lists, only what its kind can hold.             *)
LEMMA BodiesStep ==
  ASSUME IngestInv, Bodies, AtHand, [Next]_vars
  PROVE  Bodies'
  <1> USE NamesDiffer
  <1>1. ASSUME NEW reindex \in BOOLEAN, StartScan(reindex)
        PROVE  Bodies'
    BY <1>1 DEF Bodies, IngestInv, CorpusOK, WorkerOK, StartScan, run, store, archive,
          env
  <1>2. ASSUME NEW p \in Source, WatchChanged(p)
        PROVE  Bodies'
    BY <1>2 DEF Bodies, IngestInv, CorpusOK, WorkerOK, WatchChanged, StartJob, archive,
          env, store
  <1>3. ASSUME NEW p \in Source, WatchGone(p)
        PROVE  Bodies'
    BY <1>3 DEF Bodies, IngestInv, CorpusOK, WorkerOK, WatchGone, StartJob, archive, env
  <1>4. ASSUME NEW p \in Source, WatchIneligible(p)
        PROVE  Bodies'
    BY <1>4 DEF Bodies, IngestInv, CorpusOK, WorkerOK, WatchIneligible, archive, env
  <1>5. ASSUME NEW p \in Source, PersistSymlinkSkip(p)
        PROVE  Bodies'
    BY <1>5 DEF Bodies, IngestInv, CorpusOK, WorkerOK, PersistSymlinkSkip, Settle,
          Account, run, archive, env, Dropped
  <1>6. ASSUME NEW p \in Source, RetireOversize(p)
        PROVE  Bodies'
    BY <1>6 DEF Bodies, IngestInv, CorpusOK, WorkerOK, RetireOversize, Settle, Account,
          run, archive, env, Dropped
  <1>7. ASSUME PersistSkipRow
        PROVE  Bodies'
    BY <1>7 DEF Bodies, IngestInv, CorpusOK, WorkerOK, PersistSkipRow, Settle, Account,
          run, archive, env
  <1>8. ASSUME NEW p \in Source, SkipUnchanged(p)
        PROVE  Bodies'
    BY <1>8 DEF Bodies, IngestInv, CorpusOK, WorkerOK, SkipUnchanged, Visit, Settle,
          Account, Retained, run, store, archive, env
  <1>9. ASSUME NEW p \in Source, BuildFails(p)
        PROVE  Bodies'
    BY <1>9 DEF Bodies, IngestInv, CorpusOK, WorkerOK, BuildFails, Visit, Settle,
          Account, run, archive, env
  <1>10. ASSUME NEW p \in Source, SizeCapSkip(p)
        PROVE  Bodies'
    BY <1>10 DEF Bodies, IngestInv, CorpusOK, WorkerOK, SizeCapSkip, Visit, run,
          archive, env
  <1>11. ASSUME NEW p \in Source, BuildFile(p)
        PROVE  Bodies'
    BY <1>11 DEF Bodies, IngestInv, CorpusOK, WorkerOK, BuildFile, Visit, Settle,
          Account, run, archive, env
  <1>12. ASSUME NEW p \in Source, BuildArchive(p)
        PROVE  Bodies'
    BY <1>12 DEF Bodies, IngestInv, CorpusOK, WorkerOK, BuildArchive, Visit, Settle,
          Account, Retained, run, env
  <1>13. ASSUME GenerateRepresentations
        PROVE  Bodies'
    BY <1>13 DEF Bodies, IngestInv, CorpusOK, WorkerOK, GenerateRepresentations, run,
          archive, env
  <1>14. ASSUME GenerationFails
        PROVE  Bodies'
    BY <1>14 DEF Bodies, IngestInv, CorpusOK, WorkerOK, GenerationFails, Leave, Settle,
          Account, run, env
  <1>15. ASSUME GenerationDegrades
        PROVE  Bodies'
    BY <1>15 DEF Bodies, IngestInv, CorpusOK, WorkerOK, GenerationDegrades, run,
          archive, env
  <1>16. ASSUME GenerationIncomplete
        PROVE  Bodies'
    BY <1>16 DEF Bodies, IngestInv, CorpusOK, WorkerOK, GenerationIncomplete, Leave,
          Settle, Account, run, archive, env
  <1>17. ASSUME FinalizeContentHash
        PROVE  Bodies'
    BY <1>17 DEF Bodies, IngestInv, CorpusOK, WorkerOK, FinalizeContentHash, Leave,
          Settle, Account, run, env
  <1>18. ASSUME ExtractArchiveMembers
        PROVE  Bodies'
    BY <1>18 DEF Bodies, IngestInv, CorpusOK, WorkerOK, ExtractArchiveMembers, run,
          store, env
  <1>19. ASSUME ExtractionFails
        PROVE  Bodies'
    BY <1>19 DEF Bodies, IngestInv, CorpusOK, WorkerOK, ExtractionFails, CloseArchive,
          Settle, Account, run, env
  <1>20. ASSUME NEW m \in Member, IngestMember(m)
        PROVE  Bodies'
    BY <1>20 DEF Bodies, IngestInv, CorpusOK, WorkerOK, IngestMember, Account, run, env
  <1>21. ASSUME NEW m \in Member, MemberFails(m)
        PROVE  Bodies'
    BY <1>21 DEF Bodies, IngestInv, CorpusOK, WorkerOK, MemberFails, Account, run,
          store, env
  <1>22. ASSUME SealArchive
        PROVE  Bodies'
    BY <1>22 DEF Bodies, IngestInv, CorpusOK, WorkerOK, SealArchive, CloseArchive,
          Settle, Account, run, env
  <1>23. ASSUME NEW p \in Path, MarkMissing(p)
        PROVE  Bodies'
    BY <1>23 DEF Bodies, IngestInv, CorpusOK, WorkerOK, MarkMissing, Swept, env,
          archive, store
  <1>24. ASSUME FinishScan
        PROVE  Bodies'
    BY <1>24 DEF Bodies, IngestInv, CorpusOK, WorkerOK, FinishScan, Swept, Reset, store,
          archive, env, NotListed
  <1>25. ASSUME Crash
        PROVE  Bodies'
    BY <1>25 DEF Bodies, IngestInv, CorpusOK, WorkerOK, Crash, Reset, store, env,
          NotListed
  <1>26. ASSUME NEW p \in Source, NEW b \in Held, Edit(p, b)
        PROVE  Bodies'
    BY <1>26 DEF Bodies, IngestInv, CorpusOK, WorkerOK, Edit, store, run, archive
  <1>27. CASE UNCHANGED vars
    BY <1>27 DEF vars, Bodies, IngestInv, CorpusOK, WorkerOK
  <1>28. QED
    BY <1>1, <1>2, <1>3, <1>4, <1>5, <1>6, <1>7, <1>8, <1>9, <1>10, <1>11, <1>12, <1>13,
       <1>14, <1>15, <1>16, <1>17, <1>18, <1>19, <1>20, <1>21, <1>22, <1>23, <1>24,
       <1>25, <1>26, <1>27
       DEF Next, Watch, Work, Source

(* Each branch of a scan takes a path from the list into its account.       *)
LEMMA AccountedStep ==
  ASSUME IngestInv, Bodies, AtHand, Accounted, JobSweeps, [Next]_vars
  PROVE  Accounted'
  <1> USE NamesDiffer
  <1>1. ASSUME NEW reindex \in BOOLEAN, StartScan(reindex)
        PROVE  Accounted'
    BY <1>1, SourcesApart DEF Accounted, Bodies, AtHand, InMember, IngestInv, WorkerOK,
          Stage, CorpusOK, StartScan, run, store, archive, env
  <1>2. ASSUME NEW p \in Source, WatchChanged(p)
        PROVE  Accounted'
    BY <1>2, SourcesApart DEF Accounted, Bodies, AtHand, InMember, IngestInv, WorkerOK,
          Stage, CorpusOK, WatchChanged, StartJob, archive, env, store
  <1>3. ASSUME NEW p \in Source, WatchGone(p)
        PROVE  Accounted'
    BY <1>3, SourcesApart DEF Accounted, Bodies, AtHand, InMember, IngestInv, WorkerOK,
          Stage, CorpusOK, WatchGone, StartJob, archive, env
  <1>4. ASSUME NEW p \in Source, WatchIneligible(p)
        PROVE  Accounted'
    BY <1>4, SourcesApart DEF Accounted, Bodies, AtHand, InMember, IngestInv, WorkerOK,
          Stage, CorpusOK, WatchIneligible, archive, env
  <1>5. ASSUME NEW p \in Source, PersistSymlinkSkip(p)
        PROVE  Accounted'
    BY <1>5, SourcesApart DEF Accounted, Bodies, AtHand, InMember, IngestInv, WorkerOK,
          Stage, CorpusOK, PersistSymlinkSkip, Settle, Account, run, archive, env,
          Dropped
  <1>6. ASSUME NEW p \in Source, RetireOversize(p)
        PROVE  Accounted'
    BY <1>6, SourcesApart DEF Accounted, Bodies, AtHand, InMember, IngestInv, WorkerOK,
          Stage, CorpusOK, RetireOversize, Settle, Account, run, archive, env, Dropped
  <1>7. ASSUME PersistSkipRow
        PROVE  Accounted'
    BY <1>7, SourcesApart DEF Accounted, Bodies, AtHand, InMember, IngestInv, WorkerOK,
          Stage, CorpusOK, PersistSkipRow, Settle, Account, run, archive, env
  <1>8. ASSUME NEW p \in Source, SkipUnchanged(p)
        PROVE  Accounted'
    <2>0. todo \subseteq Source /\ seen \subseteq Path /\ None \notin Path
          /\ box \in Archive \cup {None}
      BY DEF IngestInv, WorkerOK
    <2>1. Retained(p) \subseteq Member
      BY DEF Retained, MembersOf
    <2>2. /\ UNCHANGED <<scanning, listed>> /\ todo' = todo \ {p} /\ p \in todo
          /\ pc = "scan" /\ cur' = cur
          /\ \/ seen' = (IF scanning THEN seen \cup {p} \cup Retained(p) ELSE {})
                /\ box' = box /\ pc' = "scan"
             \/ seen' = seen /\ box' = p /\ pc' = "extract"
      BY <1>8 DEF SkipUnchanged, Visit, Settle, Account, run, archive
    <2>3. cur = None /\ box = None
      BY <2>2 DEF AtHand, InMember
    <2>4. CASE scanning /\ seen' = seen \cup {p} \cup Retained(p) /\ box' = box /\ pc' = "scan"
      BY <2>0, <2>1, <2>2, <2>3, <2>4, SourcesApart DEF Accounted, InMember
    <2>5. CASE scanning /\ seen' = seen /\ box' = p /\ pc' = "extract"
      BY <2>0, <2>1, <2>2, <2>3, <2>5, SourcesApart DEF Accounted, InMember
    <2>6. QED
      BY <2>2, <2>4, <2>5 DEF Accounted
  <1>9. ASSUME NEW p \in Source, BuildFails(p)
        PROVE  Accounted'
    <2>0. todo \subseteq Source /\ seen \subseteq Path /\ None \notin Path
          /\ box \in Archive \cup {None}
      BY DEF IngestInv, WorkerOK
    <2>1. /\ UNCHANGED <<scanning, listed>> /\ todo' = todo \ {p} /\ p \in todo
          /\ pc = "scan" /\ cur' = cur /\ box' = box /\ pc' = "scan"
          /\ seen' = (IF scanning THEN seen \cup {p} ELSE {})
      BY <1>9 DEF BuildFails, Visit, Settle, Account, run, archive
    <2>2. cur = None /\ box = None
      BY <2>1 DEF AtHand, InMember
    <2>3. QED
      BY <2>0, <2>1, <2>2, SourcesApart DEF Accounted, InMember
  <1>10. ASSUME NEW p \in Source, SizeCapSkip(p)
        PROVE  Accounted'
    BY <1>10, SourcesApart DEF Accounted, Bodies, AtHand, InMember, IngestInv, WorkerOK,
          Stage, CorpusOK, SizeCapSkip, Visit, run, archive, env
  <1>11. ASSUME NEW p \in Source, BuildFile(p)
        PROVE  Accounted'
    BY <1>11, SourcesApart DEF Accounted, Bodies, AtHand, InMember, IngestInv, WorkerOK,
          Stage, CorpusOK, BuildFile, Visit, Settle, Account, run, archive, env
  <1>12. ASSUME NEW p \in Source, BuildArchive(p)
        PROVE  Accounted'
    <2>0. todo \subseteq Source /\ seen \subseteq Path /\ None \notin Path
          /\ box \in Archive \cup {None}
      BY DEF IngestInv, WorkerOK
    <2>1. Retained(p) \subseteq Member
      BY DEF Retained, MembersOf
    <2>2. /\ UNCHANGED <<scanning, listed>> /\ todo' = todo \ {p} /\ p \in todo
          /\ pc = "scan" /\ cur' = cur
          /\ \/ seen' = (IF scanning THEN seen \cup {p} \cup Retained(p) ELSE {})
                /\ box' = box /\ pc' = "scan"
             \/ seen' = seen /\ box' = p /\ pc' = "extract"
      BY <1>12 DEF BuildArchive, Visit, Settle, Account, run, archive
    <2>3. cur = None /\ box = None
      BY <2>2 DEF AtHand, InMember
    <2>4. CASE scanning /\ seen' = seen \cup {p} \cup Retained(p) /\ box' = box /\ pc' = "scan"
      BY <2>0, <2>1, <2>2, <2>3, <2>4, SourcesApart DEF Accounted, InMember
    <2>5. CASE scanning /\ seen' = seen /\ box' = p /\ pc' = "extract"
      BY <2>0, <2>1, <2>2, <2>3, <2>5, SourcesApart DEF Accounted, InMember
    <2>6. QED
      BY <2>2, <2>4, <2>5 DEF Accounted
  <1>13. ASSUME GenerateRepresentations
        PROVE  Accounted'
    BY <1>13, SourcesApart DEF Accounted, Bodies, AtHand, InMember, IngestInv, WorkerOK,
          Stage, CorpusOK, GenerateRepresentations, run, archive, env
  <1>14. ASSUME GenerationFails
        PROVE  Accounted'
    BY <1>14, SourcesApart DEF Accounted, Bodies, AtHand, InMember, IngestInv, WorkerOK,
          Stage, CorpusOK, GenerationFails, Leave, Settle, Account, run, env
  <1>15. ASSUME GenerationDegrades
        PROVE  Accounted'
    BY <1>15, SourcesApart DEF Accounted, Bodies, AtHand, InMember, IngestInv, WorkerOK,
          Stage, CorpusOK, GenerationDegrades, run, archive, env
  <1>16. ASSUME GenerationIncomplete
        PROVE  Accounted'
    <2>0. todo \subseteq Source /\ seen \subseteq Path /\ None \notin Path
          /\ box \in Archive \cup {None}
      BY DEF IngestInv, WorkerOK
    <2>1. UNCHANGED <<scanning, listed, todo, box, pack, rest>> /\ Leave
      BY <1>16 DEF GenerationIncomplete, run, archive
    <2>2. pc = "generate" /\ cur \in Path \ Archive
      BY <1>16 DEF GenerationIncomplete, IngestInv, Stage
    <2>3. CASE cur \in Member
      BY <2>0, <2>1, <2>2, <2>3, SourcesApart DEF Accounted, AtHand, InMember, Leave,
             Account
    <2>4. CASE cur \notin Member
      BY <2>0, <2>1, <2>2, <2>4, SourcesApart DEF Accounted, AtHand, InMember, Leave,
             Settle, Account
    <2>5. QED
      BY <2>3, <2>4
  <1>17. ASSUME FinalizeContentHash
        PROVE  Accounted'
    BY <1>17, SourcesApart DEF Accounted, Bodies, AtHand, InMember, IngestInv, WorkerOK,
          Stage, CorpusOK, FinalizeContentHash, Leave, Settle, Account, run, env
  <1>18. ASSUME ExtractArchiveMembers
        PROVE  Accounted'
    BY <1>18, SourcesApart DEF Accounted, Bodies, AtHand, InMember, IngestInv, WorkerOK,
          Stage, CorpusOK, ExtractArchiveMembers, run, store, env
  <1>19. ASSUME ExtractionFails
        PROVE  Accounted'
    <2>0. todo \subseteq Source /\ seen \subseteq Path /\ None \notin Path
          /\ box \in Archive \cup {None}
      BY DEF IngestInv, WorkerOK
    <2>1. /\ UNCHANGED <<scanning, listed, todo, cur>> /\ box' = None /\ pc' = "scan"
          /\ seen' = (IF scanning THEN seen \cup {box} ELSE {}) /\ pc = "extract"
      BY <1>19 DEF ExtractionFails, CloseArchive, Settle, Account, run
    <2>2. cur = None
      BY <2>1 DEF AtHand
    <2>3. box # None
      BY <1>19 DEF ExtractionFails, IngestInv, Stage, InMember, Path, Source
    <2>4. QED
      BY <2>0, <2>1, <2>2, <2>3, SourcesApart DEF Accounted, InMember
  <1>20. ASSUME NEW m \in Member, IngestMember(m)
        PROVE  Accounted'
    BY <1>20, SourcesApart DEF Accounted, Bodies, AtHand, InMember, IngestInv, WorkerOK,
          Stage, CorpusOK, IngestMember, Account, run, env
  <1>21. ASSUME NEW m \in Member, MemberFails(m)
        PROVE  Accounted'
    BY <1>21, SourcesApart DEF Accounted, Bodies, AtHand, InMember, IngestInv, WorkerOK,
          Stage, CorpusOK, MemberFails, Account, run, store, env
  <1>22. ASSUME SealArchive
        PROVE  Accounted'
    BY <1>22, SourcesApart DEF Accounted, Bodies, AtHand, InMember, IngestInv, WorkerOK,
          Stage, CorpusOK, SealArchive, CloseArchive, Settle, Account, run, env
  <1>23. ASSUME NEW p \in Path, MarkMissing(p)
        PROVE  Accounted'
    BY <1>23, SourcesApart DEF Accounted, Bodies, AtHand, InMember, IngestInv, WorkerOK,
          Stage, CorpusOK, MarkMissing, Swept, env, archive, store
  <1>24. ASSUME FinishScan
        PROVE  Accounted'
    BY <1>24, SourcesApart DEF Accounted, Bodies, AtHand, InMember, IngestInv, WorkerOK,
          Stage, CorpusOK, FinishScan, Swept, Reset, store, archive, env
  <1>25. ASSUME Crash
        PROVE  Accounted'
    BY <1>25, SourcesApart DEF Accounted, Bodies, AtHand, InMember, IngestInv, WorkerOK,
          Stage, CorpusOK, Crash, Reset, store, env
  <1>26. ASSUME NEW p \in Source, NEW b \in Held, Edit(p, b)
        PROVE  Accounted'
    BY <1>26, SourcesApart DEF Accounted, Bodies, AtHand, InMember, IngestInv, WorkerOK,
          Stage, CorpusOK, Edit, store, run, archive
  <1>27. CASE UNCHANGED vars
    BY <1>27 DEF vars, Accounted, Bodies, AtHand, InMember, IngestInv, WorkerOK, Stage,
          CorpusOK
  <1>28. QED
    BY <1>1, <1>2, <1>3, <1>4, <1>5, <1>6, <1>7, <1>8, <1>9, <1>10, <1>11, <1>12, <1>13,
       <1>14, <1>15, <1>16, <1>17, <1>18, <1>19, <1>20, <1>21, <1>22, <1>23, <1>24,
       <1>25, <1>26, <1>27
       DEF Next, Watch, Work, Source

(* A watcher job keeps no account, and sweeps only below a path that is gone. *)
LEMMA JobSweepsStep ==
  ASSUME IngestInv, Bodies, AtHand, Accounted, JobSweeps, [Next]_vars
  PROVE  JobSweeps'
  <1> USE NamesDiffer
  <1>1. ASSUME NEW reindex \in BOOLEAN, StartScan(reindex)
        PROVE  JobSweeps'
    BY <1>1 DEF JobSweeps, AtHand, InMember, IngestInv, WorkerOK, Stage, CorpusOK,
          Fault, NoFault, StartScan, run, store, archive, env
  <1>2. ASSUME NEW p \in Source, WatchChanged(p)
        PROVE  JobSweeps'
    BY <1>2 DEF JobSweeps, AtHand, InMember, IngestInv, WorkerOK, Stage, CorpusOK,
          Fault, NoFault, WatchChanged, StartJob, archive, env, store
  <1>3. ASSUME NEW p \in Source, WatchGone(p)
        PROVE  JobSweeps'
    BY <1>3 DEF JobSweeps, AtHand, InMember, IngestInv, WorkerOK, Stage, CorpusOK,
          Fault, NoFault, WatchGone, StartJob, archive, env, MembersOf
  <1>4. ASSUME NEW p \in Source, WatchIneligible(p)
        PROVE  JobSweeps'
    BY <1>4 DEF JobSweeps, AtHand, InMember, IngestInv, WorkerOK, Stage, CorpusOK,
          Fault, NoFault, WatchIneligible, archive, env
  <1>5. ASSUME NEW p \in Source, PersistSymlinkSkip(p)
        PROVE  JobSweeps'
    BY <1>5 DEF JobSweeps, AtHand, InMember, IngestInv, WorkerOK, Stage, CorpusOK,
          Fault, NoFault, PersistSymlinkSkip, Settle, Account, run, archive, env,
          Dropped
  <1>6. ASSUME NEW p \in Source, RetireOversize(p)
        PROVE  JobSweeps'
    BY <1>6 DEF JobSweeps, AtHand, InMember, IngestInv, WorkerOK, Stage, CorpusOK,
          Fault, NoFault, RetireOversize, Settle, Account, run, archive, env, Dropped
  <1>7. ASSUME PersistSkipRow
        PROVE  JobSweeps'
    BY <1>7 DEF JobSweeps, AtHand, InMember, IngestInv, WorkerOK, Stage, CorpusOK,
          Fault, NoFault, PersistSkipRow, Settle, Account, run, archive, env
  <1>8. ASSUME NEW p \in Source, SkipUnchanged(p)
        PROVE  JobSweeps'
    BY <1>8 DEF JobSweeps, AtHand, InMember, IngestInv, WorkerOK, Stage, CorpusOK,
          Fault, NoFault, SkipUnchanged, Visit, Settle, Account, Retained, run, store,
          archive, env
  <1>9. ASSUME NEW p \in Source, BuildFails(p)
        PROVE  JobSweeps'
    BY <1>9 DEF JobSweeps, AtHand, InMember, IngestInv, WorkerOK, Stage, CorpusOK,
          Fault, NoFault, BuildFails, Visit, Settle, Account, run, archive, env
  <1>10. ASSUME NEW p \in Source, SizeCapSkip(p)
        PROVE  JobSweeps'
    BY <1>10 DEF JobSweeps, AtHand, InMember, IngestInv, WorkerOK, Stage, CorpusOK,
          Fault, NoFault, SizeCapSkip, Visit, run, archive, env
  <1>11. ASSUME NEW p \in Source, BuildFile(p)
        PROVE  JobSweeps'
    BY <1>11 DEF JobSweeps, AtHand, InMember, IngestInv, WorkerOK, Stage, CorpusOK,
          Fault, NoFault, BuildFile, Visit, Settle, Account, run, archive, env
  <1>12. ASSUME NEW p \in Source, BuildArchive(p)
        PROVE  JobSweeps'
    BY <1>12 DEF JobSweeps, AtHand, InMember, IngestInv, WorkerOK, Stage, CorpusOK,
          Fault, NoFault, BuildArchive, Visit, Settle, Account, Retained, run, env
  <1>13. ASSUME GenerateRepresentations
        PROVE  JobSweeps'
    BY <1>13 DEF JobSweeps, AtHand, InMember, IngestInv, WorkerOK, Stage, CorpusOK,
          Fault, NoFault, GenerateRepresentations, run, archive, env
  <1>14. ASSUME GenerationFails
        PROVE  JobSweeps'
    BY <1>14 DEF JobSweeps, AtHand, InMember, IngestInv, WorkerOK, Stage, CorpusOK,
          Fault, NoFault, GenerationFails, Leave, Settle, Account, run, env
  <1>15. ASSUME GenerationDegrades
        PROVE  JobSweeps'
    BY <1>15 DEF JobSweeps, AtHand, InMember, IngestInv, WorkerOK, Stage, CorpusOK,
          Fault, NoFault, GenerationDegrades, run, archive, env
  <1>16. ASSUME GenerationIncomplete
        PROVE  JobSweeps'
    BY <1>16 DEF JobSweeps, AtHand, InMember, IngestInv, WorkerOK, Stage, CorpusOK,
          Fault, NoFault, GenerationIncomplete, Leave, Settle, Account, run, archive,
          env
  <1>17. ASSUME FinalizeContentHash
        PROVE  JobSweeps'
    BY <1>17 DEF JobSweeps, AtHand, InMember, IngestInv, WorkerOK, Stage, CorpusOK,
          Fault, NoFault, FinalizeContentHash, Leave, Settle, Account, run, env
  <1>18. ASSUME ExtractArchiveMembers
        PROVE  JobSweeps'
    BY <1>18 DEF JobSweeps, AtHand, InMember, IngestInv, WorkerOK, Stage, CorpusOK,
          Fault, NoFault, ExtractArchiveMembers, run, store, env
  <1>19. ASSUME ExtractionFails
        PROVE  JobSweeps'
    BY <1>19 DEF JobSweeps, AtHand, InMember, IngestInv, WorkerOK, Stage, CorpusOK,
          Fault, NoFault, ExtractionFails, CloseArchive, Settle, Account, run, env
  <1>20. ASSUME NEW m \in Member, IngestMember(m)
        PROVE  JobSweeps'
    BY <1>20 DEF JobSweeps, AtHand, InMember, IngestInv, WorkerOK, Stage, CorpusOK,
          Fault, NoFault, IngestMember, Account, run, env
  <1>21. ASSUME NEW m \in Member, MemberFails(m)
        PROVE  JobSweeps'
    BY <1>21 DEF JobSweeps, AtHand, InMember, IngestInv, WorkerOK, Stage, CorpusOK,
          Fault, NoFault, MemberFails, Account, run, store, env
  <1>22. ASSUME SealArchive
        PROVE  JobSweeps'
    BY <1>22 DEF JobSweeps, AtHand, InMember, IngestInv, WorkerOK, Stage, CorpusOK,
          Fault, NoFault, SealArchive, CloseArchive, Settle, Account, run, env
  <1>23. ASSUME NEW p \in Path, MarkMissing(p)
        PROVE  JobSweeps'
    BY <1>23 DEF JobSweeps, AtHand, InMember, IngestInv, WorkerOK, Stage, CorpusOK,
          Fault, NoFault, MarkMissing, Swept, env, archive, store
  <1>24. ASSUME FinishScan
        PROVE  JobSweeps'
    BY <1>24 DEF JobSweeps, AtHand, InMember, IngestInv, WorkerOK, Stage, CorpusOK,
          Fault, NoFault, FinishScan, Swept, Reset, store, archive, env
  <1>25. ASSUME Crash
        PROVE  JobSweeps'
    BY <1>25 DEF JobSweeps, AtHand, InMember, IngestInv, WorkerOK, Stage, CorpusOK,
          Fault, NoFault, Crash, Reset, store, env
  <1>26. ASSUME NEW p \in Source, NEW b \in Held, Edit(p, b)
        PROVE  JobSweeps'
    BY <1>26 DEF JobSweeps, AtHand, InMember, IngestInv, WorkerOK, Stage, CorpusOK,
          Fault, NoFault, Edit, store, run, archive, env
  <1>27. CASE UNCHANGED vars
    BY <1>27 DEF vars, JobSweeps, AtHand, InMember, IngestInv, WorkerOK, Stage,
          CorpusOK, Fault, NoFault
  <1>28. QED
    BY <1>1, <1>2, <1>3, <1>4, <1>5, <1>6, <1>7, <1>8, <1>9, <1>10, <1>11, <1>12, <1>13,
       <1>14, <1>15, <1>16, <1>17, <1>18, <1>19, <1>20, <1>21, <1>22, <1>23, <1>24,
       <1>25, <1>26, <1>27
       DEF Next, Watch, Work, Source

(* An edit or a failure takes a source out of the clean ones.               *)
LEMMA SteadyStep ==
  ASSUME IngestInv, Bodies, AtHand, Accounted, JobSweeps, Steady, [Next]_vars
  PROVE  Steady'
  <1> USE NamesDiffer
  <1>1. ASSUME NEW reindex \in BOOLEAN, StartScan(reindex)
        PROVE  Steady'
    BY <1>1, SourcesApart DEF Steady, AtHand, InMember, IngestInv, WorkerOK, Stage,
          CorpusOK, Fault, NoFault, StartScan, run, store, archive, env
  <1>2. ASSUME NEW p \in Source, WatchChanged(p)
        PROVE  Steady'
    BY <1>2, SourcesApart DEF Steady, AtHand, InMember, IngestInv, WorkerOK, Stage,
          CorpusOK, Fault, NoFault, WatchChanged, StartJob, archive, env, store
  <1>3. ASSUME NEW p \in Source, WatchGone(p)
        PROVE  Steady'
    BY <1>3, SourcesApart DEF Steady, AtHand, InMember, IngestInv, WorkerOK, Stage,
          CorpusOK, Fault, NoFault, WatchGone, StartJob, archive, env
  <1>4. ASSUME NEW p \in Source, WatchIneligible(p)
        PROVE  Steady'
    BY <1>4, SourcesApart DEF Steady, AtHand, InMember, IngestInv, WorkerOK, Stage,
          CorpusOK, Fault, NoFault, WatchIneligible, archive, env
  <1>5. ASSUME NEW p \in Source, PersistSymlinkSkip(p)
        PROVE  Steady'
    BY <1>5, SourcesApart DEF Steady, AtHand, InMember, IngestInv, WorkerOK, Stage,
          CorpusOK, Fault, NoFault, PersistSymlinkSkip, Settle, Account, run, archive,
          env, Dropped
  <1>6. ASSUME NEW p \in Source, RetireOversize(p)
        PROVE  Steady'
    BY <1>6, SourcesApart DEF Steady, AtHand, InMember, IngestInv, WorkerOK, Stage,
          CorpusOK, Fault, NoFault, RetireOversize, Settle, Account, run, archive, env,
          Dropped
  <1>7. ASSUME PersistSkipRow
        PROVE  Steady'
    BY <1>7, SourcesApart DEF Steady, AtHand, InMember, IngestInv, WorkerOK, Stage,
          CorpusOK, Fault, NoFault, PersistSkipRow, Settle, Account, run, archive, env
  <1>8. ASSUME NEW p \in Source, SkipUnchanged(p)
        PROVE  Steady'
    BY <1>8, SourcesApart DEF Steady, AtHand, InMember, IngestInv, WorkerOK, Stage,
          CorpusOK, Fault, NoFault, SkipUnchanged, Visit, Settle, Account, Retained,
          run, store, archive, env
  <1>9. ASSUME NEW p \in Source, BuildFails(p)
        PROVE  Steady'
    BY <1>9, SourcesApart DEF Steady, AtHand, InMember, IngestInv, WorkerOK, Stage,
          CorpusOK, Fault, NoFault, BuildFails, Visit, Settle, Account, run, archive,
          env
  <1>10. ASSUME NEW p \in Source, SizeCapSkip(p)
        PROVE  Steady'
    BY <1>10, SourcesApart DEF Steady, AtHand, InMember, IngestInv, WorkerOK, Stage,
          CorpusOK, Fault, NoFault, SizeCapSkip, Visit, run, archive, env
  <1>11. ASSUME NEW p \in Source, BuildFile(p)
        PROVE  Steady'
    BY <1>11, SourcesApart DEF Steady, AtHand, InMember, IngestInv, WorkerOK, Stage,
          CorpusOK, Fault, NoFault, BuildFile, Visit, Settle, Account, run, archive, env
  <1>12. ASSUME NEW p \in Source, BuildArchive(p)
        PROVE  Steady'
    BY <1>12, SourcesApart DEF Steady, AtHand, InMember, IngestInv, WorkerOK, Stage,
          CorpusOK, Fault, NoFault, BuildArchive, Visit, Settle, Account, Retained, run,
          env
  <1>13. ASSUME GenerateRepresentations
        PROVE  Steady'
    BY <1>13, SourcesApart DEF Steady, AtHand, InMember, IngestInv, WorkerOK, Stage,
          CorpusOK, Fault, NoFault, GenerateRepresentations, run, archive, env
  <1>14. ASSUME GenerationFails
        PROVE  Steady'
    BY <1>14, SourcesApart DEF Steady, AtHand, InMember, IngestInv, WorkerOK, Stage,
          CorpusOK, Fault, NoFault, GenerationFails, Leave, Settle, Account, run, env
  <1>15. ASSUME GenerationDegrades
        PROVE  Steady'
    BY <1>15, SourcesApart DEF Steady, AtHand, InMember, IngestInv, WorkerOK, Stage,
          CorpusOK, Fault, NoFault, GenerationDegrades, run, archive, env
  <1>16. ASSUME GenerationIncomplete
        PROVE  Steady'
    BY <1>16, SourcesApart DEF Steady, AtHand, InMember, IngestInv, WorkerOK, Stage,
          CorpusOK, Fault, NoFault, GenerationIncomplete, Leave, Settle, Account, run,
          archive, env
  <1>17. ASSUME FinalizeContentHash
        PROVE  Steady'
    BY <1>17, SourcesApart DEF Steady, AtHand, InMember, IngestInv, WorkerOK, Stage,
          CorpusOK, Fault, NoFault, FinalizeContentHash, Leave, Settle, Account, run,
          env
  <1>18. ASSUME ExtractArchiveMembers
        PROVE  Steady'
    BY <1>18, SourcesApart DEF Steady, AtHand, InMember, IngestInv, WorkerOK, Stage,
          CorpusOK, Fault, NoFault, ExtractArchiveMembers, run, store, env
  <1>19. ASSUME ExtractionFails
        PROVE  Steady'
    BY <1>19, SourcesApart DEF Steady, AtHand, InMember, IngestInv, WorkerOK, Stage,
          CorpusOK, Fault, NoFault, ExtractionFails, CloseArchive, Settle, Account, run,
          env
  <1>20. ASSUME NEW m \in Member, IngestMember(m)
        PROVE  Steady'
    BY <1>20, SourcesApart DEF Steady, AtHand, InMember, IngestInv, WorkerOK, Stage,
          CorpusOK, Fault, NoFault, IngestMember, Account, run, env
  <1>21. ASSUME NEW m \in Member, MemberFails(m)
        PROVE  Steady'
    BY <1>21, SourcesApart DEF Steady, AtHand, InMember, IngestInv, WorkerOK, Stage,
          CorpusOK, Fault, NoFault, MemberFails, Account, run, store, env
  <1>22. ASSUME SealArchive
        PROVE  Steady'
    BY <1>22, SourcesApart DEF Steady, AtHand, InMember, IngestInv, WorkerOK, Stage,
          CorpusOK, Fault, NoFault, SealArchive, CloseArchive, Settle, Account, run, env
  <1>23. ASSUME NEW p \in Path, MarkMissing(p)
        PROVE  Steady'
    BY <1>23, SourcesApart DEF Steady, AtHand, InMember, IngestInv, WorkerOK, Stage,
          CorpusOK, Fault, NoFault, MarkMissing, Swept, env, archive, store
  <1>24. ASSUME FinishScan
        PROVE  Steady'
    BY <1>24, SourcesApart DEF Steady, AtHand, InMember, IngestInv, WorkerOK, Stage,
          CorpusOK, Fault, NoFault, FinishScan, Swept, Reset, store, archive, env
  <1>25. ASSUME Crash
        PROVE  Steady'
    BY <1>25, SourcesApart DEF Steady, AtHand, InMember, IngestInv, WorkerOK, Stage,
          CorpusOK, Fault, NoFault, Crash, Reset, store, env
  <1>26. ASSUME NEW p \in Source, NEW b \in Held, Edit(p, b)
        PROVE  Steady'
    BY <1>26, SourcesApart DEF Steady, AtHand, InMember, IngestInv, WorkerOK, Stage,
          CorpusOK, Fault, NoFault, Edit, store, run, archive, env
  <1>27. CASE UNCHANGED vars
    BY <1>27 DEF vars, Steady, AtHand, InMember, IngestInv, WorkerOK, Stage, CorpusOK,
          Fault, NoFault
  <1>28. QED
    BY <1>1, <1>2, <1>3, <1>4, <1>5, <1>6, <1>7, <1>8, <1>9, <1>10, <1>11, <1>12, <1>13,
       <1>14, <1>15, <1>16, <1>17, <1>18, <1>19, <1>20, <1>21, <1>22, <1>23, <1>24,
       <1>25, <1>26, <1>27
       DEF Next, Watch, Work, Source

(* During a scan only its own sweep takes a document out.                   *)
LEMMA StillActiveStep ==
  ASSUME IngestInv, Bodies, AtHand, Accounted, JobSweeps, Steady, StillActive, [Next]_vars
  PROVE  StillActive'
  <1> USE NamesDiffer
  <1>1. ASSUME NEW reindex \in BOOLEAN, StartScan(reindex)
        PROVE  StillActive'
    BY <1>1, SameActive DEF StillActive, AtHand, InMember, IngestInv, WorkerOK, Stage,
          StartScan, run, store, archive, env
  <1>2. ASSUME NEW p \in Source, WatchChanged(p)
        PROVE  StillActive'
    BY <1>2, SameActive DEF StillActive, AtHand, InMember, IngestInv, WorkerOK, Stage,
          WatchChanged, StartJob, archive, env, store
  <1>3. ASSUME NEW p \in Source, WatchGone(p)
        PROVE  StillActive'
    BY <1>3, SameActive DEF StillActive, AtHand, InMember, IngestInv, WorkerOK, Stage,
          WatchGone, StartJob, archive, env
  <1>4. ASSUME NEW p \in Source, WatchIneligible(p)
        PROVE  StillActive'
    BY <1>4, SameActive DEF StillActive, AtHand, InMember, IngestInv, WorkerOK, Stage,
          WatchIneligible, archive, env
  <1>5. ASSUME NEW p \in Source, PersistSymlinkSkip(p)
        PROVE  StillActive'
    BY <1>5, SameActive, PutActive DEF StillActive, AtHand, InMember, IngestInv,
          WorkerOK, Stage, PersistSymlinkSkip, Settle, Account, run, archive, env,
          Dropped
  <1>6. ASSUME NEW p \in Source, RetireOversize(p)
        PROVE  StillActive'
    BY <1>6, SameActive DEF StillActive, AtHand, InMember, IngestInv, WorkerOK, Stage,
          RetireOversize, Settle, Account, run, archive, env, Dropped
  <1>7. ASSUME PersistSkipRow
        PROVE  StillActive'
    BY <1>7, SameActive, PutActive DEF StillActive, AtHand, InMember, IngestInv,
          WorkerOK, Stage, PersistSkipRow, Settle, Account, run, archive, env, Reason
  <1>8. ASSUME NEW p \in Source, SkipUnchanged(p)
        PROVE  StillActive'
    BY <1>8, SameActive DEF StillActive, AtHand, InMember, IngestInv, WorkerOK, Stage,
          SkipUnchanged, Visit, Settle, Account, Retained, run, store, archive, env
  <1>9. ASSUME NEW p \in Source, BuildFails(p)
        PROVE  StillActive'
    BY <1>9, SameActive, PutActive DEF StillActive, AtHand, InMember, IngestInv,
          WorkerOK, Stage, BuildFails, Visit, Settle, Account, run, archive, env
  <1>10. ASSUME NEW p \in Source, SizeCapSkip(p)
        PROVE  StillActive'
    BY <1>10, SameActive DEF StillActive, AtHand, InMember, IngestInv, WorkerOK, Stage,
          SizeCapSkip, Visit, run, archive, env
  <1>11. ASSUME NEW p \in Source, BuildFile(p)
        PROVE  StillActive'
    BY <1>11, SameActive, PutActive DEF StillActive, AtHand, InMember, IngestInv,
          WorkerOK, Stage, BuildFile, Visit, Settle, Account, run, archive, env
  <1>12. ASSUME NEW p \in Source, BuildArchive(p)
        PROVE  StillActive'
    BY <1>12, SameActive, PutActive DEF StillActive, AtHand, InMember, IngestInv,
          WorkerOK, Stage, BuildArchive, Visit, Settle, Account, Retained, run, env
  <1>13. ASSUME GenerateRepresentations
        PROVE  StillActive'
    BY <1>13, SameActive DEF StillActive, AtHand, InMember, IngestInv, WorkerOK, Stage,
          GenerateRepresentations, run, archive, env
  <1>14. ASSUME GenerationFails
        PROVE  StillActive'
    BY <1>14, SameActive, PutActive DEF StillActive, AtHand, InMember, IngestInv,
          WorkerOK, Stage, GenerationFails, Leave, Settle, Account, run, env
  <1>15. ASSUME GenerationDegrades
        PROVE  StillActive'
    BY <1>15, SameActive, PutActive DEF StillActive, AtHand, InMember, IngestInv,
          WorkerOK, Stage, GenerationDegrades, run, archive, env
  <1>16. ASSUME GenerationIncomplete
        PROVE  StillActive'
    BY <1>16, SameActive DEF StillActive, AtHand, InMember, IngestInv, WorkerOK, Stage,
          GenerationIncomplete, Leave, Settle, Account, run, archive, env
  <1>17. ASSUME FinalizeContentHash
        PROVE  StillActive'
    BY <1>17, SameActive, MarkerActive DEF StillActive, AtHand, InMember, IngestInv,
          WorkerOK, Stage, FinalizeContentHash, Leave, Settle, Account, run, env
  <1>18. ASSUME ExtractArchiveMembers
        PROVE  StillActive'
    BY <1>18, SameActive DEF StillActive, AtHand, InMember, IngestInv, WorkerOK, Stage,
          ExtractArchiveMembers, run, store, env
  <1>19. ASSUME ExtractionFails
        PROVE  StillActive'
    BY <1>19, SameActive, PutActive DEF StillActive, AtHand, InMember, IngestInv,
          WorkerOK, Stage, ExtractionFails, CloseArchive, Settle, Account, run, env
  <1>20. ASSUME NEW m \in Member, IngestMember(m)
        PROVE  StillActive'
    BY <1>20, SameActive, PutActive DEF StillActive, AtHand, InMember, IngestInv,
          WorkerOK, Stage, IngestMember, Account, run, env
  <1>21. ASSUME NEW m \in Member, MemberFails(m)
        PROVE  StillActive'
    BY <1>21, SameActive DEF StillActive, AtHand, InMember, IngestInv, WorkerOK, Stage,
          MemberFails, Account, run, store, env
  <1>22. ASSUME SealArchive
        PROVE  StillActive'
    BY <1>22, SameActive, MarkerActive DEF StillActive, AtHand, InMember, IngestInv,
          WorkerOK, Stage, SealArchive, CloseArchive, Settle, Account, run, env
  <1>23. ASSUME NEW p \in Path, MarkMissing(p)
        PROVE  StillActive'
    BY <1>23, SameActive DEF StillActive, AtHand, InMember, IngestInv, WorkerOK, Stage,
          MarkMissing, Swept, env, archive, store, MarkDocumentDeleted, Active, DocsOK
  <1>24. ASSUME FinishScan
        PROVE  StillActive'
    BY <1>24, SameActive DEF StillActive, AtHand, InMember, IngestInv, WorkerOK, Stage,
          FinishScan, Swept, Reset, store, archive, env
  <1>25. ASSUME Crash
        PROVE  StillActive'
    BY <1>25, SameActive DEF StillActive, AtHand, InMember, IngestInv, WorkerOK, Stage,
          Crash, Reset, store, env
  <1>26. ASSUME NEW p \in Source, NEW b \in Held, Edit(p, b)
        PROVE  StillActive'
    BY <1>26, SameActive DEF StillActive, AtHand, InMember, IngestInv, WorkerOK, Stage,
          Edit, store, run, archive
  <1>27. CASE UNCHANGED vars
    BY <1>27, SameActive DEF vars, StillActive, AtHand, InMember, IngestInv, WorkerOK, Stage
  <1>28. QED
    BY <1>1, <1>2, <1>3, <1>4, <1>5, <1>6, <1>7, <1>8, <1>9, <1>10, <1>11, <1>12, <1>13,
       <1>14, <1>15, <1>16, <1>17, <1>18, <1>19, <1>20, <1>21, <1>22, <1>23, <1>24,
       <1>25, <1>26, <1>27
       DEF Next, Watch, Work, Source

(* An archive enters the account with its members, or after them.           *)
LEMMA MembersFirstStep ==
  ASSUME IngestInv, Bodies, AtHand, Accounted, JobSweeps, Steady, StillActive,
         MembersFirst, [Next]_vars
  PROVE  MembersFirst'
  <1> USE NamesDiffer
  <1>1. ASSUME NEW reindex \in BOOLEAN, StartScan(reindex)
        PROVE  MembersFirst'
    BY <1>1, SourcesApart, WantedMember DEF MembersFirst, Steady, Accounted, AtHand,
          InMember, IngestInv, WorkerOK, Stage, CorpusOK, Fault, NoFault, Wanted, Src,
          StartScan, run, store, archive, env
  <1>2. ASSUME NEW p \in Source, WatchChanged(p)
        PROVE  MembersFirst'
    BY <1>2, SourcesApart, WantedMember DEF MembersFirst, Steady, Accounted, AtHand,
          InMember, IngestInv, WorkerOK, Stage, CorpusOK, Fault, NoFault, Wanted, Src,
          WatchChanged, StartJob, archive, env, store
  <1>3. ASSUME NEW p \in Source, WatchGone(p)
        PROVE  MembersFirst'
    BY <1>3, SourcesApart, WantedMember DEF MembersFirst, Steady, Accounted, AtHand,
          InMember, IngestInv, WorkerOK, Stage, CorpusOK, Fault, NoFault, Wanted, Src,
          WatchGone, StartJob, archive, env
  <1>4. ASSUME NEW p \in Source, WatchIneligible(p)
        PROVE  MembersFirst'
    BY <1>4, SourcesApart, WantedMember DEF MembersFirst, Steady, Accounted, AtHand,
          InMember, IngestInv, WorkerOK, Stage, CorpusOK, Fault, NoFault, Wanted, Src,
          WatchIneligible, archive, env
  <1>5. ASSUME NEW p \in Source, PersistSymlinkSkip(p)
        PROVE  MembersFirst'
    BY <1>5, SourcesApart, WantedMember, FilesOnly DEF MembersFirst, Steady, Accounted,
          AtHand, InMember, IngestInv, WorkerOK, Stage, CorpusOK, Fault, NoFault,
          Wanted, Src, PersistSymlinkSkip, Settle, Account, run, archive, env, Dropped
  <1>6. ASSUME NEW p \in Source, RetireOversize(p)
        PROVE  MembersFirst'
    BY <1>6, SourcesApart, WantedMember DEF MembersFirst, Steady, Accounted, AtHand,
          InMember, IngestInv, WorkerOK, Stage, CorpusOK, Fault, NoFault, Wanted, Src,
          RetireOversize, Settle, Account, run, archive, env, Dropped
  <1>7. ASSUME PersistSkipRow
        PROVE  MembersFirst'
    BY <1>7, SourcesApart, WantedMember DEF MembersFirst, Steady, Accounted, AtHand,
          InMember, IngestInv, WorkerOK, Stage, CorpusOK, Fault, NoFault, Wanted, Src,
          PersistSkipRow, Settle, Account, run, archive, env
  <1>8. ASSUME NEW p \in Source, SkipUnchanged(p)
        PROVE  MembersFirst'
    <2>1. /\ UNCHANGED <<scanning, disk, clean, existing>> /\ pc = "scan"
          /\ seen' = (IF scanning THEN seen \cup {p} \cup Retained(p) ELSE {})
             \/ seen' = seen
      BY <1>8 DEF SkipUnchanged, Visit, Settle, Account, run, env, NoFault
    <2>2. ASSUME NEW m \in existing \cap Member, scanning, Of[m] = p
          PROVE  m \in Retained(p)
      BY <2>2, NamesDiffer DEF StillActive, Retained, MembersOf
    <2>3. Retained(p) \subseteq Member
      BY DEF Retained, MembersOf
    <2>4. QED
      BY <2>1, <2>2, <2>3, NamesDiffer DEF MembersFirst, Wanted
  <1>9. ASSUME NEW p \in Source, BuildFails(p)
        PROVE  MembersFirst'
    <2>1. CASE clean' = {}
      BY <2>1 DEF MembersFirst
    <2>2. CASE NoFault /\ disk[p].body \in {Gone, Link} /\ scanning
      <3>1. p \notin clean
        BY <1>9, <2>2, SourcesApart DEF BuildFails, Visit, Bodies, Steady
      <3>2. UNCHANGED <<scanning, disk, clean, existing>> /\ seen' = seen \cup {p}
        BY <1>9, <2>2 DEF BuildFails, Visit, Settle, Account, run, env, NoFault
      <3>3. QED
        BY <3>1, <3>2 DEF MembersFirst, Wanted
    <2>3. CASE ~scanning
      BY <1>9, <2>3 DEF BuildFails, Visit, run, MembersFirst
    <2>4. QED
      BY <1>9, <2>1, <2>2, <2>3 DEF BuildFails, Fault
  <1>10. ASSUME NEW p \in Source, SizeCapSkip(p)
        PROVE  MembersFirst'
    BY <1>10, SourcesApart, WantedMember DEF MembersFirst, Steady, Accounted, AtHand,
          InMember, IngestInv, WorkerOK, Stage, CorpusOK, Fault, NoFault, Wanted, Src,
          SizeCapSkip, Visit, run, archive, env
  <1>11. ASSUME NEW p \in Source, BuildFile(p)
        PROVE  MembersFirst'
    BY <1>11, SourcesApart, WantedMember DEF MembersFirst, Steady, Accounted, AtHand,
          InMember, IngestInv, WorkerOK, Stage, CorpusOK, Fault, NoFault, Wanted, Src,
          BuildFile, Visit, Settle, Account, run, archive, env
  <1>12. ASSUME NEW p \in Source, BuildArchive(p)
        PROVE  MembersFirst'
    <2>1. /\ UNCHANGED <<scanning, disk, clean, existing>> /\ pc = "scan"
          /\ seen' = (IF scanning THEN seen \cup {p} \cup Retained(p) ELSE {})
             \/ seen' = seen
      BY <1>12 DEF BuildArchive, Visit, Settle, Account, run, env, NoFault
    <2>2. ASSUME NEW m \in existing \cap Member, scanning, Of[m] = p
          PROVE  m \in Retained(p)
      BY <2>2, NamesDiffer DEF StillActive, Retained, MembersOf
    <2>3. Retained(p) \subseteq Member
      BY DEF Retained, MembersOf
    <2>4. QED
      BY <2>1, <2>2, <2>3, NamesDiffer DEF MembersFirst, Wanted
  <1>13. ASSUME GenerateRepresentations
        PROVE  MembersFirst'
    BY <1>13, SourcesApart, WantedMember DEF MembersFirst, Steady, Accounted, AtHand,
          InMember, IngestInv, WorkerOK, Stage, CorpusOK, Fault, NoFault, Wanted, Src,
          GenerateRepresentations, run, archive, env
  <1>14. ASSUME GenerationFails
        PROVE  MembersFirst'
    BY <1>14, SourcesApart, WantedMember DEF MembersFirst, Steady, Accounted, AtHand,
          InMember, IngestInv, WorkerOK, Stage, CorpusOK, Fault, NoFault, Wanted, Src,
          GenerationFails, Leave, Settle, Account, run, env
  <1>15. ASSUME GenerationDegrades
        PROVE  MembersFirst'
    BY <1>15, SourcesApart, WantedMember DEF MembersFirst, Steady, Accounted, AtHand,
          InMember, IngestInv, WorkerOK, Stage, CorpusOK, Fault, NoFault, Wanted, Src,
          GenerationDegrades, run, archive, env
  <1>16. ASSUME GenerationIncomplete
        PROVE  MembersFirst'
    BY <1>16, SourcesApart, WantedMember DEF MembersFirst, Steady, Accounted, AtHand,
          InMember, IngestInv, WorkerOK, Stage, CorpusOK, Fault, NoFault, Wanted, Src,
          GenerationIncomplete, Leave, Settle, Account, run, archive, env
  <1>17. ASSUME FinalizeContentHash
        PROVE  MembersFirst'
    <2>1. /\ UNCHANGED <<scanning, disk, existing>> /\ (clean' = clean \/ clean' = {})
          /\ seen' = (IF scanning THEN seen \cup {cur} ELSE {})
      BY <1>17 DEF FinalizeContentHash, Leave, Settle, Account, run, env, NoFault, Fault
    <2>2. cur \notin Archive
      BY <1>17 DEF FinalizeContentHash, IngestInv, Stage
    <2>3. QED
      BY <2>1, <2>2, NamesDiffer DEF MembersFirst, Wanted
  <1>18. ASSUME ExtractArchiveMembers
        PROVE  MembersFirst'
    BY <1>18, SourcesApart, WantedMember DEF MembersFirst, Steady, Accounted, AtHand,
          InMember, IngestInv, WorkerOK, Stage, CorpusOK, Fault, NoFault, Wanted, Src,
          ExtractArchiveMembers, run, store, env
  <1>19. ASSUME ExtractionFails
        PROVE  MembersFirst'
    <2>1. /\ UNCHANGED <<scanning, disk, existing>>
          /\ seen' = (IF scanning THEN seen \cup {box} ELSE {})
          /\ clean' = {} \/ (clean' = clean /\ disk[box].body = Gone)
      BY <1>19 DEF ExtractionFails, CloseArchive, Settle, Account, run, env, NoFault, Fault
    <2>2. ASSUME NEW m \in Member, Of[m] = box, disk[box].body = Gone
          PROVE  Wanted(m) = None
      BY <2>2, WantedMember, NamesDiffer
    <2>3. QED
      BY <2>1, <2>2 DEF MembersFirst, Wanted
  <1>20. ASSUME NEW m \in Member, IngestMember(m)
        PROVE  MembersFirst'
    BY <1>20, SourcesApart, WantedMember DEF MembersFirst, Steady, Accounted, AtHand,
          InMember, IngestInv, WorkerOK, Stage, CorpusOK, Fault, NoFault, Wanted, Src,
          IngestMember, Account, run, env
  <1>21. ASSUME NEW m \in Member, MemberFails(m)
        PROVE  MembersFirst'
    BY <1>21, SourcesApart, WantedMember DEF MembersFirst, Steady, Accounted, AtHand,
          InMember, IngestInv, WorkerOK, Stage, CorpusOK, Fault, NoFault, Wanted, Src,
          MemberFails, Account, run, store, env
  <1>22. ASSUME SealArchive
        PROVE  MembersFirst'
    BY <1>22, SourcesApart, WantedMember DEF MembersFirst, Steady, Accounted, AtHand,
          InMember, IngestInv, WorkerOK, Stage, CorpusOK, Fault, NoFault, Wanted, Src,
          SealArchive, CloseArchive, Settle, Account, run, env
  <1>23. ASSUME NEW p \in Path, MarkMissing(p)
        PROVE  MembersFirst'
    BY <1>23, SourcesApart, WantedMember DEF MembersFirst, Steady, Accounted, AtHand,
          InMember, IngestInv, WorkerOK, Stage, CorpusOK, Fault, NoFault, Wanted, Src,
          MarkMissing, Swept, env, archive, store
  <1>24. ASSUME FinishScan
        PROVE  MembersFirst'
    BY <1>24, SourcesApart, WantedMember DEF MembersFirst, Steady, Accounted, AtHand,
          InMember, IngestInv, WorkerOK, Stage, CorpusOK, Fault, NoFault, Wanted, Src,
          FinishScan, Swept, Reset, store, archive, env
  <1>25. ASSUME Crash
        PROVE  MembersFirst'
    BY <1>25, SourcesApart, WantedMember DEF MembersFirst, Steady, Accounted, AtHand,
          InMember, IngestInv, WorkerOK, Stage, CorpusOK, Fault, NoFault, Wanted, Src,
          Crash, Reset, store, env
  <1>26. ASSUME NEW p \in Source, NEW b \in Held, Edit(p, b)
        PROVE  MembersFirst'
    BY <1>26, SourcesApart, WantedMember DEF MembersFirst, Steady, Accounted, AtHand,
          InMember, IngestInv, WorkerOK, Stage, CorpusOK, Fault, NoFault, Wanted, Src,
          Edit, store, run, archive
  <1>27. CASE UNCHANGED vars
    BY <1>27 DEF vars, MembersFirst, Steady, Accounted, AtHand, InMember, IngestInv,
          WorkerOK, Stage, CorpusOK, Fault, NoFault, Wanted, Src
  <1>28. QED
    BY <1>1, <1>2, <1>3, <1>4, <1>5, <1>6, <1>7, <1>8, <1>9, <1>10, <1>11, <1>12, <1>13,
       <1>14, <1>15, <1>16, <1>17, <1>18, <1>19, <1>20, <1>21, <1>22, <1>23, <1>24,
       <1>25, <1>26, <1>27
       DEF Next, Watch, Work, Source

-----------------------------------------------------------------------------
(* What a scan may take out of the index *)

ScanInv ==
  /\ IngestInv /\ Bodies /\ AtHand /\ Accounted /\ JobSweeps
  /\ Steady /\ StillActive /\ MembersFirst

(* The account holds at the start.                                          *)
LEMMA ScanInit == Init => ScanInv
  <1> SUFFICES ASSUME Init PROVE ScanInv
    OBVIOUS
  <1>1. IngestInv
    BY InitInv
  <1>2. Bodies
    BY DEF Init, Bodies, NotListed
  <1>3. AtHand /\ Accounted /\ JobSweeps /\ Steady /\ StillActive /\ MembersFirst
    BY DEF Init, AtHand, InMember, Accounted, JobSweeps, Steady, StillActive, MembersFirst
  <1>4. QED
    BY <1>1, <1>2, <1>3 DEF ScanInv

(* Every step keeps the account.                                            *)
LEMMA ScanStep == ScanInv /\ [Next]_vars => ScanInv'
  BY NextInv, BodiesStep, AtHandStep, AccountedStep, JobSweepsStep, SteadyStep,
     StillActiveStep, MembersFirstStep DEF ScanInv

(* The account holds in every state.                                        *)
LEMMA ScanInvariance == Spec => []ScanInv
  BY ScanInit, ScanStep, PTL DEF Spec

(* What the sweep takes was not there when it was listed.                   *)
LEMMA SweptMissing ==
  ASSUME ScanInv, NEW p \in Path, MarkMissing(p)
  PROVE  /\ Src(p) \in clean => Wanted(p) = None
         /\ p \in File => listed[p].body \notin Content
  <1> USE NamesDiffer
  <1>1. /\ pc = "scan" /\ cur = None /\ box = None /\ todo = {}
        /\ p \in existing /\ p \notin seen
    BY DEF MarkMissing, Swept, ScanInv, AtHand, InMember
  <1>2. CASE scanning /\ p \in Source
    <2>1. listed[p].body \notin Ingestible(p)
      BY <1>1, <1>2, SourcesApart DEF ScanInv, Accounted
    <2>2. QED
      BY <1>2, <2>1, SourcesApart DEF ScanInv, Steady, Wanted, Src
  <1>3. CASE scanning /\ p \in Member
    <2>1. ASSUME Of[p] \in clean, Wanted(p) # None
          PROVE  FALSE
      <3>1. Of[p] \in Source /\ Of[p] \in Archive /\ disk[Of[p]].body \in Packing
        BY <1>3, <2>1, WantedMember DEF Source
      <3>2. disk[Of[p]].body \in Ingestible(Of[p])
        BY <3>1 DEF ScanInv, Bodies, Body
      <3>3. Of[p] \in seen
        BY <1>1, <1>3, <2>1, <3>1, <3>2, SourcesApart DEF ScanInv, Steady, Accounted
      <3>4. QED
        BY <1>1, <1>3, <2>1, <3>3 DEF ScanInv, MembersFirst
    <2>2. QED
      BY <1>3, <2>1 DEF Src
  <1>4. CASE ~scanning
    BY <1>1, <1>4, WantedMember DEF ScanInv, JobSweeps, Src
  <1>5. QED
    BY <1>2, <1>3, <1>4 DEF Path

(* One step tombstones only what is not wanted.                             *)
LEMMA TombstoneStep ==
  ASSUME ScanInv, [Next]_vars, NEW q \in Path, ~doc[q].deleted, doc'[q].deleted
  PROVE  Src(q) \notin clean \/ Wanted(q) = None
  <1> USE NamesDiffer
  <1>1. DocsOK /\ (cur = None \/ cur \in Path) /\ (box = None \/ box \in Path)
    BY DEF ScanInv, IngestInv, WorkerOK
  <1>2. ASSUME NEW p \in Path, NEW status, NEW hash, NEW sig, Put(p, status, hash, sig)
        PROVE  FALSE
    BY <1>1, <1>2 DEF Put, DocsOK
  <1>3. doc' # doc
    OBVIOUS
  <1>4. ASSUME NEW p \in Path, MarkDocumentDeleted(p)
        PROVE  p = q
    BY <1>1, <1>4 DEF MarkDocumentDeleted, DocsOK
  <1>5. ASSUME NEW p \in Path, NEW hash, doc' = [doc EXCEPT ![p].hash = hash]
        PROVE  FALSE
    BY <1>1, <1>5 DEF DocsOK
  <1>6. ASSUME NEW p \in Source, WatchGone(p) \/ WatchIneligible(p)
        PROVE  Wanted(q) = None
    <2>1. q = p /\ disk[p].body \in {Gone, Link, Big}
      BY <1>4, <1>6 DEF WatchGone, WatchIneligible
    <2>2. QED
      BY <2>1, Contents, SourcesApart DEF Wanted, Src
  <1>7. ASSUME NEW p \in Path, MarkMissing(p)
        PROVE  Src(q) \notin clean \/ Wanted(q) = None
    <2>1. q = p
      BY <1>3, <1>4, <1>7 DEF MarkMissing, store
    <2>2. QED
      BY <1>7, <2>1, SweptMissing
  <1>8. ASSUME NEW reindex \in BOOLEAN, StartScan(reindex)
        PROVE  FALSE
    BY <1>8, <1>1, <1>2, <1>3, <1>5 DEF StartScan, store
  <1>9. ASSUME NEW p \in Source, WatchChanged(p)
        PROVE  FALSE
    BY <1>9, <1>1, <1>2, <1>3, <1>5 DEF WatchChanged, store
  <1>10. ASSUME NEW p \in Source, PersistSymlinkSkip(p)
        PROVE  FALSE
    BY <1>10, <1>1, <1>2, <1>3, <1>5 DEF PersistSymlinkSkip
  <1>11. ASSUME NEW p \in Source, RetireOversize(p)
        PROVE  FALSE
    BY <1>11, <1>1, <1>2, <1>3, <1>5 DEF RetireOversize
  <1>12. ASSUME PersistSkipRow
        PROVE  FALSE
    BY <1>12, <1>1, <1>2, <1>3, <1>5 DEF PersistSkipRow, ScanInv, IngestInv, Stage,
          InMember
  <1>13. ASSUME NEW p \in Source, SkipUnchanged(p)
        PROVE  FALSE
    BY <1>13, <1>1, <1>2, <1>3, <1>5 DEF SkipUnchanged, store
  <1>14. ASSUME NEW p \in Source, BuildFails(p)
        PROVE  FALSE
    BY <1>14, <1>1, <1>2, <1>3, <1>5 DEF BuildFails
  <1>15. ASSUME NEW p \in Source, SizeCapSkip(p)
        PROVE  FALSE
    BY <1>15, <1>1, <1>2, <1>3, <1>5 DEF SizeCapSkip
  <1>16. ASSUME NEW p \in Source, BuildFile(p)
        PROVE  FALSE
    BY <1>16, <1>1, <1>2, <1>3, <1>5 DEF BuildFile
  <1>17. ASSUME NEW p \in Source, BuildArchive(p)
        PROVE  FALSE
    BY <1>17, <1>1, <1>2, <1>3, <1>5 DEF BuildArchive
  <1>18. ASSUME GenerateRepresentations
        PROVE  FALSE
    BY <1>18, <1>1, <1>2, <1>3, <1>5 DEF GenerateRepresentations, ScanInv, IngestInv,
          Stage, InMember
  <1>19. ASSUME GenerationFails
        PROVE  FALSE
    BY <1>19, <1>1, <1>2, <1>3, <1>5 DEF GenerationFails, ScanInv, IngestInv, Stage,
          InMember
  <1>20. ASSUME GenerationDegrades
        PROVE  FALSE
    BY <1>20, <1>1, <1>2, <1>3, <1>5 DEF GenerationDegrades, ScanInv, IngestInv, Stage,
          InMember
  <1>21. ASSUME GenerationIncomplete
        PROVE  FALSE
    BY <1>21, <1>1, <1>2, <1>3, <1>5 DEF GenerationIncomplete, ScanInv, IngestInv,
          Stage, InMember
  <1>22. ASSUME FinalizeContentHash
        PROVE  FALSE
    BY <1>22, <1>1, <1>2, <1>3, <1>5 DEF FinalizeContentHash, ScanInv, IngestInv, Stage,
          InMember
  <1>23. ASSUME ExtractArchiveMembers
        PROVE  FALSE
    BY <1>23, <1>1, <1>2, <1>3, <1>5 DEF ExtractArchiveMembers, store
  <1>24. ASSUME ExtractionFails
        PROVE  FALSE
    BY <1>24, <1>1, <1>2, <1>3, <1>5 DEF ExtractionFails, CloseArchive, ScanInv,
          IngestInv, Stage, InMember
  <1>25. ASSUME NEW m \in Member, IngestMember(m)
        PROVE  FALSE
    BY <1>25, <1>1, <1>2, <1>3, <1>5 DEF IngestMember
  <1>26. ASSUME NEW m \in Member, MemberFails(m)
        PROVE  FALSE
    BY <1>26, <1>1, <1>2, <1>3, <1>5 DEF MemberFails, store
  <1>27. ASSUME SealArchive
        PROVE  FALSE
    BY <1>27, <1>1, <1>2, <1>3, <1>5 DEF SealArchive, ScanInv, IngestInv, Stage,
          InMember
  <1>28. ASSUME FinishScan
        PROVE  FALSE
    BY <1>28, <1>1, <1>2, <1>3, <1>5 DEF FinishScan, store
  <1>29. ASSUME Crash
        PROVE  FALSE
    BY <1>29, <1>1, <1>2, <1>3, <1>5 DEF Crash, store
  <1>30. ASSUME NEW p \in Source, NEW b \in Held, Edit(p, b)
        PROVE  FALSE
    BY <1>30, <1>1, <1>2, <1>3, <1>5 DEF Edit, store
  <1>31. CASE UNCHANGED vars
    BY <1>31, <1>3 DEF vars
  <1>32. QED
    BY <1>6, <1>7, <1>8, <1>9, <1>10, <1>11, <1>12, <1>13, <1>14, <1>15, <1>16, <1>17,
       <1>18, <1>19, <1>20, <1>21, <1>22, <1>23, <1>24, <1>25, <1>26, <1>27, <1>28,
       <1>29, <1>30, <1>31
       DEF Next, Watch, Work, Source

(* Nothing leaves the index whose source is there, unchanged and readable   *)
(* since the scan or the job began: markMissingAsDeleted sweeps only what   *)
(* no branch of the scan saw, in any corpus and through any edits, failures *)
(* and crashes.                                                             *)
THEOREM OnlyMissingIsTombstoned == Spec => OnlyMissingTombstoned
  <1>1. ScanInv /\ [Next]_vars =>
          \A p \in Path : ~doc[p].deleted /\ doc'[p].deleted =>
            Src(p) \notin clean \/ Wanted(p) = None
    BY TombstoneStep
  <1>2. QED
    BY <1>1, ScanInvariance, PTL DEF Spec, OnlyMissingTombstoned

(* A document is searchable as long as its row and its chunks say so.       *)
LEMMA SameAnswer ==
  ASSUME NEW q \in Path, doc'[q] = doc[q], chunks'[q] = chunks[q]
  PROVE  Searchable(q)' = Searchable(q)
  BY DEF Searchable

(* A row that is written in health hides nothing.                           *)
LEMMA PutShows ==
  ASSUME DocsOK, NEW p \in Path, NEW q \in Path, NEW status, NEW hash, NEW sig,
         Put(p, status, hash, sig), UNCHANGED chunks, status # "error" \/ p # q,
         Searchable(q) # None
  PROVE  Searchable(q)' # None
  BY DEF Put, DocsOK, Searchable

(* Nor does the done marker.                                                *)
LEMMA StampShows ==
  ASSUME DocsOK, NEW p \in Path, NEW q \in Path, NEW hash,
         doc' = [doc EXCEPT ![p].hash = hash], UNCHANGED chunks, Searchable(q) # None
  PROVE  Searchable(q)' # None
  BY DEF DocsOK, Searchable

(* New chunks are shown.                                                    *)
LEMMA ChunksShow ==
  ASSUME DocsOK, NEW p \in Path, NEW q \in Path, NEW b \in Content,
         chunks' = [chunks EXCEPT ![p] = [of |-> b, deleted |-> FALSE]], UNCHANGED doc,
         Searchable(q) # None
  PROVE  Searchable(q)' # None
  BY NamesDiffer DEF DocsOK, Searchable

(* What is tombstoned is one document, or its chunks.                       *)
LEMMA OthersShow ==
  ASSUME DocsOK, NEW p \in Path, NEW q \in Path, p # q,
         MarkDocumentDeleted(p) \/ (RetireChunks(p) /\ UNCHANGED doc)
  PROVE  Searchable(q)' = Searchable(q)
  BY DEF DocsOK, Searchable, MarkDocumentDeleted, RetireChunks

(* One step hides only what failed, or what no longer belongs in the index. *)
LEMMA BlinkStep ==
  ASSUME ScanInv, [Next]_vars, NEW q \in File, faults' = faults,
         listed'[q].body \in Content, disk[q].body \in Content, Searchable(q) # None
  PROVE  Searchable(q)' # None
  <1> USE NamesDiffer
  <1>1. DocsOK /\ (cur = None \/ cur \in Path) /\ (box = None \/ box \in Path)
    BY DEF ScanInv, IngestInv, WorkerOK
  <1>2. ~Fault /\ {Gone, Link, Big} \cap Content = {}
    BY Contents DEF Fault, ScanInv, IngestInv, CorpusOK
  <1>3. ASSUME NEW reindex \in BOOLEAN, StartScan(reindex)
        PROVE  Searchable(q)' # None
    BY <1>3, <1>1, <1>2, SameAnswer DEF StartScan, store, run
  <1>4. ASSUME NEW p \in Source, WatchChanged(p)
        PROVE  Searchable(q)' # None
    BY <1>4, <1>1, <1>2, SameAnswer DEF WatchChanged, store
  <1>5. ASSUME NEW p \in Source, WatchGone(p)
        PROVE  Searchable(q)' # None
    BY <1>5, <1>1, <1>2, SameAnswer, OthersShow DEF WatchGone
  <1>6. ASSUME NEW p \in Source, WatchIneligible(p)
        PROVE  Searchable(q)' # None
    BY <1>6, <1>1, <1>2, SameAnswer, OthersShow DEF WatchIneligible
  <1>7. ASSUME NEW p \in Source, PersistSymlinkSkip(p)
        PROVE  Searchable(q)' # None
    BY <1>7, <1>1, <1>2, SameAnswer, PutShows DEF PersistSymlinkSkip, run
  <1>8. ASSUME NEW p \in Source, RetireOversize(p)
        PROVE  Searchable(q)' # None
    BY <1>8, <1>1, <1>2, SameAnswer, OthersShow DEF RetireOversize, run
  <1>9. ASSUME PersistSkipRow
        PROVE  Searchable(q)' # None
    BY <1>9, <1>1, <1>2, SameAnswer, PutShows DEF PersistSkipRow, run, Reason, ScanInv,
          IngestInv, Stage
  <1>10. ASSUME NEW p \in Source, SkipUnchanged(p)
        PROVE  Searchable(q)' # None
    BY <1>10, <1>1, <1>2, SameAnswer DEF SkipUnchanged, store, run, Visit
  <1>11. ASSUME NEW p \in Source, BuildFails(p)
        PROVE  Searchable(q)' # None
    BY <1>11, <1>1, <1>2, SameAnswer, PutShows DEF BuildFails, run, Visit
  <1>12. ASSUME NEW p \in Source, SizeCapSkip(p)
        PROVE  Searchable(q)' # None
    BY <1>12, <1>1, <1>2, SameAnswer, OthersShow DEF SizeCapSkip, run, Visit
  <1>13. ASSUME NEW p \in Source, BuildFile(p)
        PROVE  Searchable(q)' # None
    BY <1>13, <1>1, <1>2, SameAnswer, PutShows DEF BuildFile, run, Visit
  <1>14. ASSUME NEW p \in Source, BuildArchive(p)
        PROVE  Searchable(q)' # None
    BY <1>14, <1>1, <1>2, SameAnswer, PutShows DEF BuildArchive, run, Visit
  <1>15. ASSUME GenerateRepresentations
        PROVE  Searchable(q)' # None
    BY <1>15, <1>1, <1>2, SameAnswer, ChunksShow DEF GenerateRepresentations, run,
          ScanInv, IngestInv, Stage
  <1>16. ASSUME GenerationFails
        PROVE  Searchable(q)' # None
    BY <1>16, <1>1, <1>2, SameAnswer DEF GenerationFails, run
  <1>17. ASSUME GenerationDegrades
        PROVE  Searchable(q)' # None
    BY <1>17, <1>1, <1>2, SameAnswer DEF GenerationDegrades, run
  <1>18. ASSUME GenerationIncomplete
        PROVE  Searchable(q)' # None
    BY <1>18, <1>1, <1>2, SameAnswer, ChunksShow DEF GenerationIncomplete, run, ScanInv,
          IngestInv, Stage
  <1>19. ASSUME FinalizeContentHash
        PROVE  Searchable(q)' # None
    BY <1>19, <1>1, <1>2, SameAnswer, StampShows DEF FinalizeContentHash, run, ScanInv,
          IngestInv, Stage
  <1>20. ASSUME ExtractArchiveMembers
        PROVE  Searchable(q)' # None
    BY <1>20, <1>1, <1>2, SameAnswer DEF ExtractArchiveMembers, store, run
  <1>21. ASSUME ExtractionFails
        PROVE  Searchable(q)' # None
    BY <1>21, <1>1, <1>2, SameAnswer, PutShows DEF ExtractionFails, run, CloseArchive,
          ScanInv, IngestInv, Stage
  <1>22. ASSUME NEW m \in Member, IngestMember(m)
        PROVE  Searchable(q)' # None
    BY <1>22, <1>1, <1>2, SameAnswer, PutShows DEF IngestMember, run
  <1>23. ASSUME NEW m \in Member, MemberFails(m)
        PROVE  Searchable(q)' # None
    BY <1>23, <1>1, <1>2, SameAnswer DEF MemberFails, store, run
  <1>24. ASSUME SealArchive
        PROVE  Searchable(q)' # None
    BY <1>24, <1>1, <1>2, SameAnswer, StampShows DEF SealArchive, run, CloseArchive,
          ScanInv, IngestInv, Stage, InMember
  <1>25. ASSUME NEW p \in Path, MarkMissing(p)
        PROVE  Searchable(q)' # None
    BY <1>25, <1>1, <1>2, SameAnswer, SweptMissing, OthersShow DEF MarkMissing, store,
          ScanInv, AtHand
  <1>26. ASSUME FinishScan
        PROVE  Searchable(q)' # None
    BY <1>26, <1>1, <1>2, SameAnswer DEF FinishScan, store
  <1>27. ASSUME Crash
        PROVE  Searchable(q)' # None
    BY <1>27, <1>1, <1>2, SameAnswer DEF Crash, store
  <1>28. ASSUME NEW p \in Source, NEW b \in Held, Edit(p, b)
        PROVE  Searchable(q)' # None
    BY <1>28, <1>1, <1>2, SameAnswer DEF Edit, store, run
  <1>29. CASE UNCHANGED vars
    BY <1>29, SameAnswer DEF vars
  <1>30. QED
    BY <1>3, <1>4, <1>5, <1>6, <1>7, <1>8, <1>9, <1>10, <1>11, <1>12, <1>13, <1>14,
       <1>15, <1>16, <1>17, <1>18, <1>19, <1>20, <1>21, <1>22, <1>23, <1>24, <1>25,
       <1>26, <1>27, <1>28, <1>29
       DEF Next, Watch, Work, Source

(* A document stays searchable through edits and reprocessing: its new      *)
(* chunks replace the old ones in one transaction, and only a failure, a    *)
(* deletion or a refusal takes it away (processDocument; watch.go, process).*)
THEOREM SearchNeverBlinks == Spec => NeverBlinks
  <1>1. ScanInv /\ [Next]_vars =>
          \A p \in File : Searchable(p) # None /\ Searchable(p)' = None =>
            faults' # faults \/ listed'[p].body \notin Content \/ disk[p].body \notin Content
            \/ disk[p].body \in Refused
    BY BlinkStep
  <1>2. QED
    BY <1>1, ScanInvariance, PTL DEF Spec, NeverBlinks

-----------------------------------------------------------------------------
(* After a scan that nothing disturbed, search serves what is there         *)

Indexable == Content \ Refused
Leaf == File \cup Member

(* What is at a path now: for a member, what its container packs.           *)
Holds(p) ==
  IF p \in Member
  THEN IF disk[Of[p]].body \in Packing /\ p \in DOMAIN disk[Of[p]].body
       THEN disk[Of[p]].body[p] ELSE None
  ELSE disk[p].body

Bare(p) == chunks[p].of = None

(* A tombstone of a document covers its chunks; a path without a row, and   *)
(* an archive, have none.                                                   *)
Rows ==
  \A p \in Path :
    /\ doc[p].deleted => chunks[p].deleted \/ Bare(p)
    /\ doc[p].status = "none" \/ p \in Archive => Bare(p)

(* How far the work on a document has come.                                 *)
InWork ==
  /\ pc \in {"generate", "finalize"} =>
       /\ ~doc[cur].deleted /\ doc[cur].status \in {"ok", "error"}
       /\ pc = "generate" \/ cur \in clean => doc[cur].status = "ok"
       /\ cur \in clean => body = disk[cur].body
  /\ pc = "finalize" /\ doc[cur].status = "ok" => ~chunks[cur].deleted
  /\ pc = "refuse" => chunks[cur].deleted \/ Bare(cur)
  /\ box # None => doc[box].hash = None

(* An equal signal means equal content: of the walk, of the row, and of     *)
(* what the worker has in hand.                                             *)
Heard ==
  \A p \in Signalled : listed[p].body # None =>
    /\ listed[p].sig <= disk[p].sig
    /\ listed[p].sig = disk[p].sig => listed[p].body = disk[p].body

Signed ==
  \A p \in Signalled :
    /\ doc[p].sig <= disk[p].sig
    /\ doc[p].sig = disk[p].sig /\ doc[p].hash # None => doc[p].hash = disk[p].body

HandSigned ==
  \A p \in Signalled : doc[p].sig = disk[p].sig =>
    /\ cur = p /\ pc \in {"generate", "finalize"} => body = disk[p].body
    /\ box = p => boxBody = disk[p].body

(* What may not be indexed has never been, and is not about to be.          *)
Barred(p) == Holds(p) \in Refused \cup {Link} \/ (p \in Member /\ Holds(p) = Big)

Narrow ==
  /\ \A p \in Leaf : Barred(p) => Bare(p) /\ ~(pc = "generate" /\ cur = p)
  /\ InMember /\ disk[box].body \in Packing /\ Narrows(disk[box].body)
       => pack = disk[box].body

(* A document the scan has passed by, and will sweep.                       *)
Missed(p) == p \in existing \ seen /\ Src(p) \notin todo \cup {box}

(* A document whose hash is that of what is there can be served, and will   *)
(* not be swept.                                                            *)
Gate ==
  /\ \A p \in Leaf :
       Holds(p) \in Indexable /\ doc[p].hash = Holds(p) => ~chunks[p].deleted
         /\ ~Missed(p)
  /\ \A p \in Dropped : p \in existing \/ p \notin Active

(* An archive holds what was ingested from it, and what is extracted is     *)
(* what was hashed, unless the archive has changed since.                   *)
Packed ==
  /\ \A b \in Archive : disk[b].body \in Packing =>
       (MembersOf(b) \cap Active) \cup (IF box = b THEN rest ELSE {})
         \subseteq DOMAIN disk[b].body
  /\ InMember => MembersOf(box) \cap Active \subseteq DOMAIN pack
  /\ InMember /\ disk[box].body = boxBody => pack = boxBody

Ingested(m, c) == doc[m].status = "ok" /\ doc[m].hash = c

(* An archive that is marked done has its members done.                     *)
Sealed ==
  /\ \A b \in Archive : disk[b].body \in Packing /\ doc[b].hash = disk[b].body =>
       \A m \in DOMAIN disk[b].body : Holds(m) \in Indexable => Ingested(m, Holds(m))
  /\ InMember /\ whole =>
       \A m \in DOMAIN pack \ (rest \cup {cur}) : pack[m] \in Indexable
         => Ingested(m, pack[m])
  /\ InMember /\ cur # None => doc[cur].status = "ok"
  /\ clean # {} => whole

(* Nothing is accounted for that was gone when it was listed, and it stays  *)
(* for the sweep.                                                           *)
GoneIsLeft ==
  scanning =>
    /\ \A p \in Source : listed[p].body = Gone
         => p \notin todo \cup seen \cup {cur, box}
    /\ \A m \in Member \cap seen : listed[Of[m]].body # Gone
    /\ \A p \in Leaf : Src(p) \in clean /\ listed[Src(p)].body = Gone => p \in existing
         \/ p \notin Active

(* A clean source that was seen is served as it is.                         *)
Settled ==
  scanning =>
    /\ \A p \in Leaf : Src(p) \in clean \cap seen => Searchable(p) = Wanted(p)
    /\ pc = "refuse" /\ cur \in clean => listed[cur].body = Big

-----------------------------------------------------------------------------
(* What a commit does to the tables, row by row *)

LEMMA PutRow ==
  ASSUME DocsOK, NEW p \in Path, NEW status, NEW hash, NEW sig,
         Put(p, status, hash, sig)
  PROVE  /\ doc'[p].status = status /\ doc'[p].hash = hash /\ doc'[p].sig = sig
         /\ ~doc'[p].deleted
         /\ \A q \in Path : q # p => doc'[q] = doc[q]
  BY DEF Put, DocsOK

(* A done marker changes nothing but the hash of its row.                   *)
LEMMA StampRow ==
  ASSUME DocsOK, NEW p \in Path, NEW hash, doc' = [doc EXCEPT ![p].hash = hash]
  PROVE  /\ doc'[p].status = doc[p].status /\ doc'[p].hash = hash
              /\ doc'[p].sig = doc[p].sig
         /\ doc'[p].deleted <=> doc[p].deleted
         /\ \A q \in Path : q # p => doc'[q] = doc[q]
  BY DEF DocsOK, Row

(* Retired chunks are tombstoned if there are any.                          *)
LEMMA RetireRow ==
  ASSUME DocsOK, NEW p \in Path, RetireChunks(p)
  PROVE  /\ chunks'[p].of = chunks[p].of
         /\ chunks'[p].deleted <=> (chunks[p].deleted \/ chunks[p].of # None)
         /\ \A q \in Path : q # p => chunks'[q] = chunks[q]
  BY DEF RetireChunks, DocsOK

(* A tombstone leaves the rest of a row, and what the chunks were cut from. *)
LEMMA DeleteRow ==
  ASSUME DocsOK, NEW p \in Path, MarkDocumentDeleted(p)
  PROVE  /\ doc'[p].status = doc[p].status /\ doc'[p].hash = doc[p].hash
         /\ doc'[p].sig = doc[p].sig
         /\ doc'[p].deleted <=> (doc[p].deleted \/ doc[p].status # "none")
         /\ chunks'[p].of = chunks[p].of
         /\ chunks'[p].deleted <=> (chunks[p].deleted \/ chunks[p].of # None)
         /\ \A q \in Path : q # p => doc'[q] = doc[q] /\ chunks'[q] = chunks[q]
  BY ZenonT(60), RetireRow DEF MarkDocumentDeleted, DocsOK, Row

(* The chunks of one document are replaced.                                 *)
LEMMA ReplaceRow ==
  ASSUME DocsOK, NEW p \in Path, NEW c,
         chunks' = [chunks EXCEPT ![p] = [of |-> c, deleted |-> FALSE]]
  PROVE  /\ chunks'[p].of = c /\ ~chunks'[p].deleted
         /\ \A q \in Path : q # p => chunks'[q] = chunks[q]
  BY DEF DocsOK

(* What the invariant says of the tables and of the worker.                 *)
LEMMA Tables ==
  ASSUME ScanInv
  PROVE  /\ DocsOK /\ Marked /\ Bodies
         /\ todo \subseteq Source /\ existing \subseteq Path /\ seen \subseteq Path
         /\ clean \subseteq Source /\ None \notin Path
  BY NamesDiffer DEF ScanInv, IngestInv, CorpusOK, WorkerOK

(* The document in work, and the file that is refused.                      *)
LEMMA DocInHand ==
  ASSUME ScanInv
  PROVE  /\ pc \in {"generate", "finalize"} =>
              /\ cur \in Path /\ cur \in File \cup Member /\ cur # None
              /\ body \in Content /\ doc[cur].hash = None
              /\ cur \in Member => InMember /\ cur \notin Source /\ cur \notin File
              /\ cur \notin Member => cur \in File /\ cur \in Source /\ box = None
                   /\ ~InMember
         /\ pc = "refuse" => cur \in Path /\ cur \in File /\ cur \in Source
              /\ box = None
         /\ cur = None \/ cur \in Path
  <1>1. WorkerOK /\ Stage /\ AtHand
    BY DEF ScanInv, IngestInv
  <1>2. CASE pc \in {"generate", "finalize"}
    BY <1>1, <1>2, NamesDiffer, SourcesApart DEF Stage, AtHand, InMember, WorkerOK,
           Source
  <1>3. CASE pc = "refuse"
    BY <1>1, <1>3, NamesDiffer, SourcesApart DEF Stage, AtHand, InMember, WorkerOK,
           Source
  <1>4. QED
    BY <1>1, <1>2, <1>3 DEF WorkerOK

(* The archive in hand, and the member taken from it.                       *)
LEMMA ArchiveInHand ==
  ASSUME ScanInv
  PROVE  /\ pc \in {"extract", "members"} => cur = None /\ box # None
         /\ pc \in {"idle", "scan", "done"} => cur = None /\ box = None
         /\ box # None => box \in Path /\ box \in Archive /\ box \in Source
              /\ boxBody \in Packing
         /\ InMember =>
              /\ box # None /\ pack \in Packing /\ rest \subseteq DOMAIN pack
              /\ \A m \in DOMAIN pack : m \in Member /\ m \in Path /\ Of[m] = box
              /\ cur # None => cur \in DOMAIN pack \ rest /\ body = pack[cur]
         /\ box # None => pc = "extract" \/ InMember
  <1>1. WorkerOK /\ Stage /\ AtHand
    BY DEF ScanInv, IngestInv
  <1>2. box # None => box \in Path /\ box \in Archive /\ box \in Source
    BY <1>1, NamesDiffer DEF WorkerOK, Source
  <1>3. /\ pc \in {"extract", "members"} => cur = None /\ box # None
        /\ pc \in {"idle", "scan", "done"} => cur = None /\ box = None
        /\ box # None => pc = "extract" \/ InMember
    BY <1>1, NamesDiffer DEF Stage, AtHand, InMember
  <1>4. InMember =>
              /\ box # None /\ pack \in Packing /\ rest \subseteq DOMAIN pack
              /\ \A m \in DOMAIN pack : m \in Member /\ m \in Path /\ Of[m] = box
              /\ cur # None => cur \in DOMAIN pack \ rest /\ body = pack[cur]
    BY <1>1, NamesDiffer DEF Stage, AtHand
  <1>5. box # None => boxBody \in Packing
    BY <1>1, <1>3 DEF Stage
  <1>6. QED
    BY <1>2, <1>3, <1>4, <1>5

-----------------------------------------------------------------------------
(* What the longer handlers do, in full *)

LEMMA LeaveDoes ==
  ASSUME Leave
  PROVE  /\ cur' = None /\ body' = None
         /\ pc' = (IF cur \in Member THEN "members" ELSE "scan")
         /\ seen' = (IF scanning THEN seen \cup {cur} ELSE {})
  BY DEF Leave, Settle, Account

(* A visit takes a source that was listed and not seen yet.                 *)
LEMMA VisitDoes ==
  ASSUME ScanInv, NEW p \in Source, Visit(p)
  PROVE  /\ pc = "scan" /\ cur = None /\ box = None /\ Dropped = {}
         /\ p \in todo /\ p \in Path /\ listed[p].body \in Ingestible(p)
              /\ p \notin seen
         /\ todo' = todo \ {p}
         /\ UNCHANGED <<scanning, force, listed, existing, disk, edits>>
         /\ p \in clean /\ scanning => disk[p].body \in Ingestible(p)
              /\ disk[p] = listed[p]
  <1>1. /\ pc = "scan" /\ Dropped = {} /\ p \in todo /\ todo' = todo \ {p}
        /\ UNCHANGED <<scanning, force, listed, existing, disk, edits>>
    BY DEF Visit, run, env
  <1>2. cur = None /\ box = None /\ listed[p].body \in Ingestible(p)
    BY <1>1, Tables, DocInHand, ArchiveInHand DEF Bodies
  <1>3. p \in clean /\ scanning => disk[p] = listed[p]
    BY DEF ScanInv, Steady
  <1>4. p \notin seen
    BY <1>1 DEF ScanInv, Accounted, JobSweeps
  <1>5. QED
    BY <1>1, <1>2, <1>3, <1>4, SourcesApart

(* An unchanged source is seen together with the members it still has.      *)
LEMMA SkipDoes ==
  ASSUME ScanInv, NEW p \in Source, SkipUnchanged(p)
  PROVE  /\ Visit(p)
         /\ SignalUnchanged(p) /\ pc' = "scan"
         /\ seen' = (IF scanning THEN seen \cup {p} \cup Retained(p) ELSE {})
         /\ UNCHANGED <<doc, chunks, clean, faults, cur, body, box, boxBody, pack,
              rest, whole>>
  BY DEF SkipUnchanged, Settle, Account, store, archive, NoFault

(* A source that cannot be read is seen, in error or as it was.             *)
LEMMA BuildFailsDoes ==
  ASSUME ScanInv, NEW p \in Source, BuildFails(p)
  PROVE  /\ Visit(p)
         /\ pc' = "scan" /\ seen' = (IF scanning THEN seen \cup {p} ELSE {})
         /\ UNCHANGED <<chunks, cur, body, box, boxBody, pack, rest, whole>>
         /\ \/ UNCHANGED clean /\ disk[p].body \in {Gone, Link}
            \/ clean' = {} /\ (p \in Archive => "archive failure" \in Drift)
         /\ UNCHANGED doc \/ Put(p, "error", None, listed[p].sig)
  BY DEF BuildFails, Settle, Account, archive, Fault, NoFault

(* Only a file is refused for its size.                                     *)
LEMMA SizeCapDoes ==
  ASSUME ScanInv, NEW p \in Source, SizeCapSkip(p)
  PROVE  /\ Visit(p)
         /\ p \in File /\ disk[p].body = Big /\ RetireChunks(p) /\ pc' = "refuse"
              /\ cur' = p
         /\ UNCHANGED <<doc, seen, body, clean, faults, box, boxBody, pack, rest,
              whole>>
  BY FilesOnly, Tables, DocInHand, ArchiveInHand DEF SizeCapSkip, NoFault, archive

(* A file goes to work without its hash, or keeps the hash it has.          *)
LEMMA BuildFileDoes ==
  ASSUME ScanInv, NEW p \in Source, BuildFile(p)
  PROVE  /\ Visit(p)
         /\ p \in File /\ disk[p].body \in Content
         /\ UNCHANGED <<chunks, clean, faults, box, boxBody, pack, rest, whole>>
         /\ doc'[p].status = (IF disk[p].body \in Refused THEN "skipped" ELSE "ok")
         /\ ~doc'[p].deleted /\ doc'[p].sig = listed[p].sig
         /\ \A q \in Path : q # p => doc'[q] = doc[q]
         /\ Put(p, doc'[p].status, doc'[p].hash, listed[p].sig)
         /\ \/ /\ pc' = "generate" /\ cur' = p /\ body' = disk[p].body /\ seen' = seen
               /\ doc'[p].hash = None /\ disk[p].body \notin Refused
            \/ /\ pc' = "scan" /\ cur' = cur /\ body' = body
               /\ seen' = (IF scanning THEN seen \cup {p} ELSE {})
               /\ doc'[p].hash = disk[p].body
               /\ \/ disk[p].body \in Refused
                  \/ doc[p].hash = disk[p].body /\ doc[p].status # "error"
  <1> DEFINE hash == disk[p].body
             status == IF hash \in Refused THEN "skipped" ELSE "ok"
             work == NeedsProcessing(p, hash) /\ status = "ok"
             written == Withheld(work, hash)
  <1>1. p \in Path /\ DocsOK
    BY Tables, DocInHand, ArchiveInHand, NamesDiffer
  <1>2. /\ Visit(p) /\ p \in File /\ hash \in Content
        /\ UNCHANGED <<chunks, clean, faults, box, boxBody, pack, rest, whole>>
        /\ Put(p, status, written, listed[p].sig)
        /\ work => pc' = "generate" /\ cur' = p /\ body' = hash /\ UNCHANGED seen
        /\ ~work => Settle({p}) /\ UNCHANGED <<cur, body>>
    BY DEF BuildFile, archive, NoFault
  <1> HIDE DEF status, written
  <1>3. /\ doc'[p].status = status /\ doc'[p].hash = written
        /\ ~doc'[p].deleted /\ doc'[p].sig = listed[p].sig
        /\ \A q \in Path : q # p => doc'[q] = doc[q]
    <2>1. Put(p, status, written, listed[p].sig)
      BY <1>2
    <2>2. QED
      BY <1>1, <2>1 DEF Put, DocsOK
  <1>4. Put(p, doc'[p].status, doc'[p].hash, listed[p].sig)
    <2>1. Put(p, status, written, listed[p].sig)
      BY <1>2
    <2>2. QED
      BY <1>3, <2>1 DEF Put
  <1>5. CASE work
    BY <1>2, <1>3, <1>4, <1>5 DEF Withheld, written, status
  <1>6. CASE ~work
    <2>1. hash \in Refused \/ (doc[p].hash = hash /\ doc[p].status # "error")
      BY <1>6 DEF NeedsProcessing, status
    <2>2. pc' = "scan" /\ seen' = (IF scanning THEN seen \cup {p} ELSE {})
            /\ doc'[p].hash = hash
      BY <1>2, <1>3, <1>6 DEF Withheld, Settle, Account, written
    <2>3. QED
      BY <1>2, <1>3, <1>4, <1>6, <2>1, <2>2 DEF status
  <1>7. QED
    BY <1>5, <1>6

(* An archive is opened without its hash, or keeps the hash it has.         *)
LEMMA BuildArchiveDoes ==
  ASSUME ScanInv, NEW p \in Source, BuildArchive(p)
  PROVE  /\ Visit(p)
         /\ p \in Archive /\ disk[p].body \in Packing
         /\ UNCHANGED <<chunks, clean, faults, cur, body, pack, rest, whole>>
         /\ doc'[p].status = "skipped"
         /\ ~doc'[p].deleted /\ doc'[p].sig = listed[p].sig
         /\ \A q \in Path : q # p => doc'[q] = doc[q]
         /\ Put(p, doc'[p].status, doc'[p].hash, listed[p].sig)
         /\ \/ /\ pc' = "extract" /\ box' = p /\ boxBody' = disk[p].body /\ seen' = seen
               /\ doc'[p].hash = None
            \/ /\ pc' = "scan" /\ box' = box /\ boxBody' = boxBody
               /\ seen' = (IF scanning THEN seen \cup {p} \cup Retained(p) ELSE {})
               /\ doc'[p].hash = disk[p].body /\ doc[p].hash = disk[p].body
  <1> DEFINE hash == disk[p].body
             work == NeedsProcessing(p, hash)
             written == Withheld(work, hash)
  <1>1. p \in Path /\ DocsOK
    BY Tables, DocInHand, ArchiveInHand, NamesDiffer
  <1>2. /\ Visit(p) /\ p \in Archive /\ hash \in Packing
        /\ UNCHANGED <<chunks, clean, faults, cur, body, pack, rest, whole>>
        /\ Put(p, "skipped", written, listed[p].sig)
        /\ work => pc' = "extract" /\ box' = p /\ boxBody' = hash /\ UNCHANGED seen
        /\ ~work => Settle({p} \cup Retained(p)) /\ UNCHANGED <<box, boxBody>>
    BY DEF BuildArchive, NoFault
  <1> HIDE DEF written
  <1>3. /\ doc'[p].status = "skipped" /\ doc'[p].hash = written
        /\ ~doc'[p].deleted /\ doc'[p].sig = listed[p].sig
        /\ \A q \in Path : q # p => doc'[q] = doc[q]
    <2>1. Put(p, "skipped", written, listed[p].sig)
      BY <1>2
    <2>2. QED
      BY <1>1, <2>1 DEF Put, DocsOK
  <1>4. Put(p, doc'[p].status, doc'[p].hash, listed[p].sig)
    <2>1. Put(p, "skipped", written, listed[p].sig)
      BY <1>2
    <2>2. QED
      BY <1>3, <2>1 DEF Put
  <1>5. CASE work
    BY <1>2, <1>3, <1>4, <1>5 DEF Withheld, written
  <1>6. CASE ~work
    <2>1. doc[p].hash = hash
      BY <1>6 DEF NeedsProcessing
    <2>2. /\ pc' = "scan" /\ doc'[p].hash = hash
          /\ seen' = (IF scanning THEN seen \cup {p} \cup Retained(p) ELSE {})
      BY <1>2, <1>3, <1>6 DEF Withheld, Settle, Account, written
    <2>3. QED
      BY <1>2, <1>3, <1>4, <1>6, <2>1, <2>2
  <1>7. QED
    BY <1>5, <1>6

(* A failed generation leaves the chunks as they were.                      *)
LEMMA GenerationFailsDoes ==
  ASSUME ScanInv, GenerationFails
  PROVE  /\ pc = "generate" /\ Leave /\ clean' = {}
         /\ whole' = (IF cur \in Member THEN FALSE ELSE whole)
         /\ UNCHANGED <<chunks, scanning, force, listed, existing, todo, box, boxBody,
              pack, rest, disk, edits>>
         /\ UNCHANGED doc \/ Put(cur, "error", None, doc[cur].sig)
  BY DEF GenerationFails, Fault, run, env

(* An incomplete recognition replaces the chunks and sets no marker.        *)
LEMMA IncompleteDoes ==
  ASSUME ScanInv, GenerationIncomplete
  PROVE  /\ pc = "generate" /\ Leave /\ clean' = {}
              /\ (cur \in Member => "member failure" \in Drift)
         /\ UNCHANGED <<doc, scanning, force, listed, existing, todo, box, boxBody,
              pack, rest, whole, disk, edits>>
         /\ chunks' = [chunks EXCEPT ![cur] = [of |-> body, deleted |-> FALSE]]
  BY DEF GenerationIncomplete, Fault, run, env, archive

(* The marker is set on a document whose row is ok.                         *)
LEMMA FinalizeDoes ==
  ASSUME ScanInv, FinalizeContentHash
  PROVE  /\ pc = "finalize" /\ Leave
         /\ UNCHANGED <<chunks, scanning, force, listed, existing, todo, box, boxBody,
              pack, rest, disk, edits>>
         /\ \/ /\ UNCHANGED <<clean, whole>> /\ doc[cur].status = "ok"
               /\ doc' = [doc EXCEPT ![cur].hash = body]
            \/ UNCHANGED <<clean, whole, doc>> /\ doc[cur].status # "ok"
            \/ clean' = {} /\ UNCHANGED doc
                 /\ whole' = (IF cur \in Member THEN FALSE ELSE whole)
  BY DEF FinalizeContentHash, Fault, NoFault, run, env

(* An archive that is closed is seen.                                       *)
LEMMA ClosedDoes ==
  ASSUME CloseArchive
  PROVE  /\ pc' = "scan" /\ seen' = (IF scanning THEN seen \cup {box} ELSE {})
         /\ box' = None /\ boxBody' = None /\ pack' = None /\ rest' = {}
              /\ whole' = TRUE
         /\ UNCHANGED <<chunks, scanning, force, listed, existing, todo, cur, body,
              disk, edits>>
  BY DEF CloseArchive, Settle, Account, run, env

(* An archive that cannot be extracted is gone, or a call failed.           *)
LEMMA ExtractionFailsDoes ==
  ASSUME ScanInv, ExtractionFails
  PROVE  /\ pc = "extract" /\ CloseArchive
         /\ \/ UNCHANGED clean /\ disk[box].body = Gone
            \/ clean' = {} /\ "archive failure" \in Drift
         /\ UNCHANGED doc \/ Put(box, "error", None, doc[box].sig)
  BY DEF ExtractionFails, Fault, NoFault

(* An archive is marked only when every member was ingested.                *)
LEMMA SealDoes ==
  ASSUME ScanInv, SealArchive
  PROVE  /\ pc = "members" /\ rest = {} /\ CloseArchive
         /\ \/ /\ UNCHANGED clean /\ whole
               /\ doc' = [doc EXCEPT ![box].hash = boxBody]
            \/ UNCHANGED <<clean, doc>>
            \/ clean' = {} /\ UNCHANGED doc
  BY DEF SealArchive, Fault, NoFault

(* A member is refused, kept as it is, or goes to work without its hash.    *)
LEMMA IngestDoes ==
  ASSUME ScanInv, NEW m \in Member, IngestMember(m)
  PROVE  /\ pc = "members" /\ InMember /\ m \in rest /\ m \in Path /\ rest' = rest \ {m}
         /\ Of[m] = box /\ cur = None
         /\ UNCHANGED <<chunks, scanning, force, listed, existing, todo, box, boxBody,
              pack, whole, clean, faults, disk, edits>>
         /\ \A q \in Path : q # m => doc'[q] = doc[q]
         /\ \/ /\ pc' = "members" /\ UNCHANGED <<cur, body>>
               /\ seen' = (IF scanning THEN seen \cup {m} ELSE {})
               /\ \/ pack[m] = Big /\ Put(m, "big", None, 0)
                  \/ pack[m] \in Refused /\ UNCHANGED doc
                  \/ /\ pack[m] \in Indexable /\ Put(m, "ok", pack[m], 0)
                     /\ doc[m].hash = pack[m] /\ doc[m].status # "error"
            \/ /\ pc' = "generate" /\ cur' = m /\ body' = pack[m] /\ seen' = seen
               /\ pack[m] \in Indexable /\ Put(m, "ok", None, 0)
  <1> DEFINE hash == pack[m]
             work == NeedsProcessing(m, hash)
  <1>1. /\ pc = "members" /\ InMember /\ m \in rest /\ m \in Path /\ rest' = rest \ {m}
        /\ Of[m] = box /\ cur = None /\ DocsOK
        /\ UNCHANGED <<chunks, scanning, force, listed, existing, todo, box, boxBody,
             pack, whole, clean, faults, disk, edits>>
    BY Tables, DocInHand, ArchiveInHand DEF IngestMember, InMember, NoFault, run, env
  <1>2. CASE hash = Big /\ Put(m, "big", None, 0) /\ Account({m})
               /\ UNCHANGED <<pc, cur, body>>
    BY <1>1, <1>2, PutRow DEF Account
  <1>3. CASE hash \in Refused /\ Account({m}) /\ UNCHANGED <<doc, pc, cur, body>>
    BY <1>1, <1>3 DEF Account
  <1>4. CASE /\ hash \in Indexable /\ Put(m, "ok", Withheld(work, hash), 0)
             /\ IF work THEN pc' = "generate" /\ cur' = m /\ body' = hash
                  /\ UNCHANGED seen
                        ELSE Account({m}) /\ UNCHANGED <<pc, cur, body>>
    <2>1. \A q \in Path : q # m => doc'[q] = doc[q]
      BY <1>1, <1>4, PutRow
    <2>2. CASE work
      <3>1. Put(m, "ok", None, 0)
        BY <1>4, <2>2 DEF Withheld
      <3>2. QED
        BY <1>1, <1>4, <2>1, <2>2, <3>1
    <2>3. CASE ~work
      <3>1. Put(m, "ok", hash, 0)
        BY <1>4, <2>3 DEF Withheld
      <3>2. doc[m].hash = hash /\ doc[m].status # "error"
        BY <2>3 DEF NeedsProcessing
      <3>3. QED
        BY <1>1, <1>4, <2>1, <2>3, <3>1, <3>2 DEF Account
    <2>4. QED
      BY <2>2, <2>3
  <1>5. QED
    BY <1>2, <1>3, <1>4 DEF IngestMember, Indexable

(* The sweep takes one document that was not seen.                          *)
LEMMA MarkMissingDoes ==
  ASSUME ScanInv, NEW p \in Path, MarkMissing(p)
  PROVE  /\ pc = "scan" /\ todo = {} /\ cur = None /\ box = None /\ Dropped = {}
         /\ p \in existing /\ p \notin seen /\ existing' = existing \ {p}
         /\ UNCHANGED <<pc, scanning, force, listed, todo, seen, cur, body, box,
              boxBody, pack, rest, whole, disk, edits>>
         /\ \/ MarkDocumentDeleted(p) /\ UNCHANGED clean
            \/ UNCHANGED <<doc, chunks>> /\ clean' = {}
  BY Tables, DocInHand, ArchiveInHand DEF MarkMissing, Swept, Fault, NoFault, archive,
         env, store

(* One commit to the tables: a row, a tombstone, the chunks of the document *)
(* in work, or a done marker.                                               *)
Commit ==
  \/ UNCHANGED <<doc, chunks>>
  \/ \E p \in Path, status \in {"ok", "skipped", "link", "big", "error"} : \E hash,
       sig :
       Put(p, status, hash, sig) /\ UNCHANGED chunks
  \/ \E p \in Path : MarkDocumentDeleted(p)
  \/ \E p \in Path : RetireChunks(p) /\ UNCHANGED doc
  \/ /\ pc = "generate" /\ UNCHANGED doc
     /\ chunks' = [chunks EXCEPT ![cur] = [of |-> body, deleted |-> FALSE]]
  \/ \E p \in Path : \E hash : doc' = [doc EXCEPT ![p].hash = hash] /\ UNCHANGED chunks

(* Every step is one commit to the tables at most.                          *)
LEMMA Commits ==
  ASSUME ScanInv, [Next]_vars
  PROVE  Commit
  <1> USE NamesDiffer DEF Commit
  <1>1. ASSUME NEW reindex \in BOOLEAN, StartScan(reindex)
        PROVE  Commit
    BY <1>1, Tables, DocInHand, ArchiveInHand DEF StartScan, store, archive, env
  <1>2. ASSUME NEW p \in Source, WatchChanged(p)
        PROVE  Commit
    BY <1>2, Tables, DocInHand, ArchiveInHand DEF WatchChanged, StartJob, archive, env,
          store
  <1>3. ASSUME NEW p \in Source, WatchGone(p)
        PROVE  Commit
    BY <1>3, Tables, DocInHand, ArchiveInHand DEF WatchGone, StartJob, archive, env
  <1>4. ASSUME NEW p \in Source, WatchIneligible(p)
        PROVE  Commit
    BY <1>4, Tables, DocInHand, ArchiveInHand DEF WatchIneligible, archive, env
  <1>5. ASSUME NEW p \in Source, PersistSymlinkSkip(p)
        PROVE  Commit
    BY <1>5, Tables, DocInHand, ArchiveInHand DEF PersistSymlinkSkip, Settle, Account,
          run, archive, env
  <1>6. ASSUME NEW p \in Source, RetireOversize(p)
        PROVE  Commit
    BY <1>6, Tables, DocInHand, ArchiveInHand DEF RetireOversize, Settle, Account, run,
          archive, env
  <1>7. ASSUME PersistSkipRow
        PROVE  Commit
    BY <1>7, Tables, DocInHand, ArchiveInHand DEF PersistSkipRow, Settle, Account, run,
          archive, env, Reason
  <1>8. ASSUME NEW p \in Source, SkipUnchanged(p)
        PROVE  Commit
    BY <1>8, Tables, DocInHand, ArchiveInHand, SkipDoes
  <1>9. ASSUME NEW p \in Source, BuildFails(p)
        PROVE  Commit
    BY <1>9, Tables, DocInHand, ArchiveInHand, BuildFailsDoes
  <1>10. ASSUME NEW p \in Source, SizeCapSkip(p)
        PROVE  Commit
    BY <1>10, Tables, DocInHand, ArchiveInHand, SizeCapDoes
  <1>11. ASSUME NEW p \in Source, BuildFile(p)
        PROVE  Commit
    BY <1>11, Tables, DocInHand, ArchiveInHand DEF BuildFile
  <1>12. ASSUME NEW p \in Source, BuildArchive(p)
        PROVE  Commit
    BY <1>12, Tables, DocInHand, ArchiveInHand DEF BuildArchive
  <1>13. ASSUME GenerateRepresentations
        PROVE  Commit
    BY <1>13, Tables, DocInHand, ArchiveInHand DEF GenerateRepresentations, run,
          archive, env
  <1>14. ASSUME GenerationFails
        PROVE  Commit
    BY <1>14, Tables, DocInHand, ArchiveInHand, GenerationFailsDoes, LeaveDoes
  <1>15. ASSUME GenerationDegrades
        PROVE  Commit
    BY <1>15, Tables, DocInHand, ArchiveInHand DEF GenerationDegrades, run, archive, env
  <1>16. ASSUME GenerationIncomplete
        PROVE  Commit
    BY <1>16, Tables, DocInHand, ArchiveInHand, IncompleteDoes, LeaveDoes
  <1>17. ASSUME FinalizeContentHash
        PROVE  Commit
    BY <1>17, Tables, DocInHand, ArchiveInHand, FinalizeDoes, LeaveDoes
  <1>18. ASSUME ExtractArchiveMembers
        PROVE  Commit
    BY <1>18, Tables, DocInHand, ArchiveInHand DEF ExtractArchiveMembers, run, store,
          env
  <1>19. ASSUME ExtractionFails
        PROVE  Commit
    BY <1>19, Tables, DocInHand, ArchiveInHand, ExtractionFailsDoes, ClosedDoes
  <1>20. ASSUME NEW m \in Member, IngestMember(m)
        PROVE  Commit
    BY <1>20, Tables, DocInHand, ArchiveInHand DEF IngestMember, run
  <1>21. ASSUME NEW m \in Member, MemberFails(m)
        PROVE  Commit
    BY <1>21, Tables, DocInHand, ArchiveInHand DEF MemberFails, Account, run, store, env
  <1>22. ASSUME SealArchive
        PROVE  Commit
    BY <1>22, Tables, DocInHand, ArchiveInHand, SealDoes, ClosedDoes
  <1>23. ASSUME NEW p \in Path, MarkMissing(p)
        PROVE  Commit
    BY <1>23, Tables, DocInHand, ArchiveInHand, MarkMissingDoes
  <1>24. ASSUME FinishScan
        PROVE  Commit
    BY <1>24, Tables, DocInHand, ArchiveInHand DEF FinishScan, Swept, Reset, store,
          archive, env
  <1>25. ASSUME Crash
        PROVE  Commit
    BY <1>25, Tables, DocInHand, ArchiveInHand DEF Crash, Reset, store, env
  <1>26. ASSUME NEW p \in Source, NEW b \in Held, Edit(p, b)
        PROVE  Commit
    BY <1>26, Tables, DocInHand, ArchiveInHand DEF Edit, store, run, archive
  <1>27. CASE UNCHANGED vars
    BY <1>27 DEF vars
  <1>28. QED
    BY <1>1, <1>2, <1>3, <1>4, <1>5, <1>6, <1>7, <1>8, <1>9, <1>10, <1>11, <1>12, <1>13,
       <1>14, <1>15, <1>16, <1>17, <1>18, <1>19, <1>20, <1>21, <1>22, <1>23, <1>24,
       <1>25, <1>26, <1>27
       DEF Next, Watch, Work, Source
(* A tombstone covers the chunks, and only a document in work gets chunks.  *)
LEMMA RowsStep ==
  ASSUME ScanInv, Rows, InWork, [Next]_vars
  PROVE  Rows'
  <1>1. Commit /\ DocsOK
    BY Commits, Tables, DocInHand, ArchiveInHand
  <1>2. CASE UNCHANGED <<doc, chunks>>
    BY <1>2 DEF Rows, Bare
  <1>3. ASSUME NEW p \in Path, NEW status \in {"ok", "skipped", "link", "big", "error"},
               NEW hash, NEW sig, Put(p, status, hash, sig), UNCHANGED chunks
        PROVE  Rows'
    BY <1>1, <1>3 DEF Rows, Bare, Put, DocsOK
  <1>4. ASSUME NEW p \in Path, MarkDocumentDeleted(p)
        PROVE  Rows'
    BY <1>1, <1>4, DeleteRow DEF Rows, Bare
  <1>5. ASSUME NEW p \in Path, RetireChunks(p), UNCHANGED doc
        PROVE  Rows'
    BY <1>1, <1>5 DEF Rows, Bare, RetireChunks, DocsOK
  <1>6. CASE /\ pc = "generate" /\ UNCHANGED doc
             /\ chunks' = [chunks EXCEPT ![cur] = [of |-> body, deleted |-> FALSE]]
    <2>1. cur \in Path /\ cur \notin Archive /\ doc[cur].status # "none"
            /\ ~doc[cur].deleted
      BY <1>6, Tables, DocInHand, ArchiveInHand, NamesDiffer DEF InWork
    <2>2. QED
      BY <1>1, <1>6, <2>1, ReplaceRow DEF Rows, Bare
  <1>7. ASSUME NEW p \in Path, NEW hash, doc' = [doc EXCEPT ![p].hash = hash],
               UNCHANGED chunks
        PROVE  Rows'
    BY <1>1, <1>7, StampRow DEF Rows, Bare
  <1>8. QED
    BY <1>1, <1>2, <1>3, <1>4, <1>5, <1>6, <1>7 DEF Commit

(* Only an edit changes the corpus, and what a walk or a job looks at is    *)
(* the corpus.                                                              *)
Look ==
  \/ UNCHANGED <<disk, listed>>
  \/ UNCHANGED disk /\ listed' = disk
  \/ \E p \in Source : UNCHANGED disk /\ listed' = [listed EXCEPT ![p] = disk[p]]
  \/ UNCHANGED disk /\ listed' = NotListed
  \/ \E p \in Source, b \in Held : Edit(p, b)

(* Every step looks at the corpus, or changes it, in one of these ways.     *)
LEMMA Looks ==
  ASSUME ScanInv, [Next]_vars
  PROVE  Look
  <1> USE DEF Look
  <1>1. ASSUME NEW reindex \in BOOLEAN, StartScan(reindex)
        PROVE  Look
    BY <1>1 DEF StartScan, store, archive, env
  <1>2. ASSUME NEW p \in Source, WatchChanged(p)
        PROVE  Look
    BY <1>2 DEF WatchChanged, StartJob, archive, env, store
  <1>3. ASSUME NEW p \in Source, WatchGone(p)
        PROVE  Look
    BY <1>3 DEF WatchGone, StartJob, archive, env
  <1>4. ASSUME NEW p \in Source, WatchIneligible(p)
        PROVE  Look
    BY <1>4 DEF WatchIneligible, archive, env
  <1>5. ASSUME NEW p \in Source, PersistSymlinkSkip(p)
        PROVE  Look
    BY <1>5 DEF PersistSymlinkSkip, Settle, Account, run, archive, env
  <1>6. ASSUME NEW p \in Source, RetireOversize(p)
        PROVE  Look
    BY <1>6 DEF RetireOversize, Settle, Account, run, archive, env
  <1>7. ASSUME PersistSkipRow
        PROVE  Look
    BY <1>7 DEF PersistSkipRow, Settle, Account, run, archive, env, Reason
  <1>8. ASSUME NEW p \in Source, SkipUnchanged(p)
        PROVE  Look
    BY <1>8, SkipDoes, VisitDoes
  <1>9. ASSUME NEW p \in Source, BuildFails(p)
        PROVE  Look
    BY <1>9, BuildFailsDoes, VisitDoes
  <1>10. ASSUME NEW p \in Source, SizeCapSkip(p)
        PROVE  Look
    BY <1>10, SizeCapDoes, VisitDoes
  <1>11. ASSUME NEW p \in Source, BuildFile(p)
        PROVE  Look
    BY <1>11, BuildFileDoes, VisitDoes
  <1>12. ASSUME NEW p \in Source, BuildArchive(p)
        PROVE  Look
    BY <1>12, BuildArchiveDoes, VisitDoes
  <1>13. ASSUME GenerateRepresentations
        PROVE  Look
    BY <1>13 DEF GenerateRepresentations, run, archive, env
  <1>14. ASSUME GenerationFails
        PROVE  Look
    BY <1>14, GenerationFailsDoes, LeaveDoes
  <1>15. ASSUME GenerationDegrades
        PROVE  Look
    BY <1>15 DEF GenerationDegrades, run, archive, env
  <1>16. ASSUME GenerationIncomplete
        PROVE  Look
    BY <1>16, IncompleteDoes, LeaveDoes
  <1>17. ASSUME FinalizeContentHash
        PROVE  Look
    BY <1>17, FinalizeDoes, LeaveDoes
  <1>18. ASSUME ExtractArchiveMembers
        PROVE  Look
    BY <1>18 DEF ExtractArchiveMembers, run, store, env
  <1>19. ASSUME ExtractionFails
        PROVE  Look
    BY <1>19, ExtractionFailsDoes, ClosedDoes
  <1>20. ASSUME NEW m \in Member, IngestMember(m)
        PROVE  Look
    BY <1>20, IngestDoes
  <1>21. ASSUME NEW m \in Member, MemberFails(m)
        PROVE  Look
    BY <1>21 DEF MemberFails, Account, run, store, env
  <1>22. ASSUME SealArchive
        PROVE  Look
    BY <1>22, SealDoes, ClosedDoes
  <1>23. ASSUME NEW p \in Path, MarkMissing(p)
        PROVE  Look
    BY <1>23, MarkMissingDoes
  <1>24. ASSUME FinishScan
        PROVE  Look
    BY <1>24 DEF FinishScan, Swept, Reset, store, archive, env
  <1>25. ASSUME Crash
        PROVE  Look
    BY <1>25 DEF Crash, Reset, store, env
  <1>26. ASSUME NEW p \in Source, NEW b \in Held, Edit(p, b)
        PROVE  Look
    BY <1>26 DEF Edit, store, run, archive
  <1>27. CASE UNCHANGED vars
    BY <1>27 DEF vars
  <1>28. QED
    BY <1>1, <1>2, <1>3, <1>4, <1>5, <1>6, <1>7, <1>8, <1>9, <1>10, <1>11, <1>12, <1>13,
       <1>14, <1>15, <1>16, <1>17, <1>18, <1>19, <1>20, <1>21, <1>22, <1>23, <1>24,
       <1>25, <1>26, <1>27
       DEF Next, Watch, Work, Source

(* A signal is a number, and only a source has one.                         *)
LEMMA SignalTypes ==
  ASSUME ScanInv
  PROVE  /\ disk \in [Source -> Entry] /\ listed \in [Source -> Entry]
         /\ \A p \in Signalled : /\ p \in Source /\ p \in Path /\ p \notin Member
                                /\ disk[p].sig \in Nat /\ listed[p].sig \in Nat
                                /\ doc[p].sig \in Nat
  <1>1. disk \in [Source -> Entry] /\ listed \in [Source -> Entry]
          /\ doc \in [Path -> Row]
    BY DEF ScanInv, IngestInv, CorpusOK, DocsOK
  <1>2. \A p \in Signalled : p \in Source /\ p \in Path /\ p \notin Member
    BY Bounds, SourcesApart
  <1>3. QED
    BY <1>1, <1>2, Bounds DEF Entry, Row

(* An edit of a source with a signal is heard.                              *)
LEMMA EditSignals ==
  ASSUME ScanInv, NEW p \in Source, NEW b \in Held, Edit(p, b)
  PROVE  /\ \A q \in Source : q # p => disk'[q] = disk[q]
         /\ disk'[p].body = b
         /\ p \in Signalled => disk'[p].sig = disk[p].sig + 1
  BY SignalTypes DEF Edit

(* The walk never hears a signal for another content than it lists.         *)
LEMMA HeardStep ==
  ASSUME ScanInv, Heard, [Next]_vars
  PROVE  Heard'
  <1>1. Look
    BY Looks
  <1>2. CASE UNCHANGED <<disk, listed>>
    BY <1>2 DEF Heard
  <1>3. CASE UNCHANGED disk /\ listed' = disk
    BY <1>3, SignalTypes DEF Heard
  <1>4. ASSUME NEW p \in Source, UNCHANGED disk,
               listed' = [listed EXCEPT ![p] = disk[p]]
        PROVE  Heard'
    <2>1. \A q \in Source : listed'[q] = IF q = p THEN disk[q] ELSE listed[q]
      BY <1>4, SignalTypes
    <2>2. QED
      BY <1>4, <2>1, SignalTypes DEF Heard
  <1>5. CASE UNCHANGED disk /\ listed' = NotListed
    BY <1>5, SignalTypes DEF Heard, NotListed
  <1>6. ASSUME NEW p \in Source, NEW b \in Held, Edit(p, b)
        PROVE  Heard'
    <2>1. listed' = listed
      BY <1>6 DEF Edit, run
    <2>2. QED
      BY <1>6, <2>1, EditSignals, SignalTypes DEF Heard
  <1>7. QED
    BY <1>1, <1>2, <1>3, <1>4, <1>5, <1>6 DEF Look

(* Signals stay true where neither rows nor corpus change.                  *)
LEMMA SignedSame ==
  ASSUME Signed, UNCHANGED <<doc, disk>>
  PROVE  Signed'
  BY DEF Signed

(* A row may be written with a signal that is true of its hash.             *)
LEMMA PutSigned ==
  ASSUME ScanInv, Signed, NEW p \in Path, NEW status, NEW hash, NEW sig,
         Put(p, status, hash, sig), UNCHANGED disk,
         p \in Signalled => /\ sig <= disk[p].sig
                            /\ sig = disk[p].sig /\ hash # None => hash = disk[p].body
  PROVE  Signed'
  BY Tables, SignalTypes DEF Signed, Put, DocsOK

(* A row without a hash may keep its signal, or have none.                  *)
LEMMA PutUnsigned ==
  ASSUME ScanInv, Signed, NEW p \in Path, NEW status, NEW sig,
         Put(p, status, None, sig), UNCHANGED disk, sig = 0 \/ sig = doc[p].sig
  PROVE  Signed'
  <1>1. p \in Signalled => sig <= disk[p].sig
    BY SignalTypes DEF Signed
  <1>2. QED
    BY <1>1, PutSigned

(* The row of a member has no signal to keep true.                          *)
LEMMA PutMember ==
  ASSUME ScanInv, Signed, NEW m \in Member, NEW status, NEW hash, NEW sig,
         Put(m, status, hash, sig), UNCHANGED disk
  PROVE  Signed'
  BY PutSigned, SignalTypes, NamesDiffer

(* A marker may be set beside a signal of the same content.                 *)
LEMMA StampSigned ==
  ASSUME ScanInv, Signed, NEW p \in Path, NEW hash,
         doc' = [doc EXCEPT ![p].hash = hash], UNCHANGED disk,
         p \in Signalled /\ doc[p].sig = disk[p].sig => hash = disk[p].body
  PROVE  Signed'
  BY Tables, StampRow, SignalTypes DEF Signed

(* A tombstone leaves the signal and the hash.                              *)
LEMMA DeleteSigned ==
  ASSUME ScanInv, Signed, NEW p \in Path, MarkDocumentDeleted(p), UNCHANGED disk
  PROVE  Signed'
  BY Tables, DeleteRow, SignalTypes DEF Signed

(* The signal of a walk is no newer than that of the path.                  *)
LEMMA ListedSignal ==
  ASSUME ScanInv, Heard, NEW p \in Source, listed[p].body # None, p \in Signalled
  PROVE  listed[p].sig <= disk[p].sig
  BY DEF Heard

(* How far the work has come stays true of rows and chunks.                 *)
LEMMA InWorkStep ==
  ASSUME ScanInv, Rows, InWork, [Next]_vars
  PROVE  InWork'
  <1> USE NamesDiffer
  <1>1. ASSUME NEW reindex \in BOOLEAN, StartScan(reindex)
        PROVE  InWork'
    BY <1>1, Tables, ArchiveInHand DEF InWork, Bare, InMember, NoFault, Fault,
          StartScan, store, archive, env
  <1>2. ASSUME NEW p \in Source, WatchChanged(p)
        PROVE  InWork'
    BY <1>2, Tables, ArchiveInHand DEF InWork, Bare, InMember, NoFault, Fault,
          WatchChanged, StartJob, archive, env, store
  <1>3. ASSUME NEW p \in Source, WatchGone(p)
        PROVE  InWork'
    BY <1>3, Tables, ArchiveInHand, DeleteRow DEF InWork, Bare, InMember, NoFault,
          Fault, WatchGone, StartJob, archive, env
  <1>4. ASSUME NEW p \in Source, WatchIneligible(p)
        PROVE  InWork'
    BY <1>4, Tables, ArchiveInHand, DeleteRow DEF InWork, Bare, InMember, NoFault,
          Fault, WatchIneligible, archive, env
  <1>5. ASSUME NEW p \in Source, PersistSymlinkSkip(p)
        PROVE  InWork'
    BY <1>5, Tables, ArchiveInHand, PutRow DEF InWork, Bare, InMember, NoFault, Fault,
          PersistSymlinkSkip, Settle, Account, run, archive, env
  <1>6. ASSUME NEW p \in Source, RetireOversize(p)
        PROVE  InWork'
    BY <1>6, Tables, ArchiveInHand, RetireRow DEF InWork, Bare, InMember, NoFault,
          Fault, RetireOversize, Settle, Account, run, archive, env
  <1>7. ASSUME PersistSkipRow
        PROVE  InWork'
    BY <1>7, Tables, DocInHand, PutRow DEF InWork, Bare, InMember, NoFault, Fault,
          PersistSkipRow, Settle, Account, run, archive, env, Reason
  <1>8. ASSUME NEW p \in Source, SkipUnchanged(p)
        PROVE  InWork'
    BY <1>8, SkipDoes, VisitDoes, Tables DEF InWork, Bare, InMember, NoFault, Fault
  <1>9. ASSUME NEW p \in Source, BuildFails(p)
        PROVE  InWork'
    BY <1>9, BuildFailsDoes, VisitDoes, Tables, PutRow DEF InWork, Bare, InMember,
          NoFault, Fault
  <1>10. ASSUME NEW p \in Source, SizeCapSkip(p)
        PROVE  InWork'
    BY <1>10, SizeCapDoes, VisitDoes, Tables, RetireRow DEF InWork, Bare, InMember,
          NoFault, Fault
  <1>11. ASSUME NEW p \in Source, BuildFile(p)
        PROVE  InWork'
    BY <1>11, BuildFileDoes, VisitDoes, Tables, PutRow DEF InWork, Bare, InMember,
          NoFault, Fault
  <1>12. ASSUME NEW p \in Source, BuildArchive(p)
        PROVE  InWork'
    BY <1>12, BuildArchiveDoes, VisitDoes, Tables, PutRow DEF InWork, Bare, InMember,
          NoFault, Fault
  <1>13. ASSUME GenerateRepresentations
        PROVE  InWork'
    BY <1>13, Tables, DocInHand, ReplaceRow, ArchiveInHand DEF InWork, Bare, InMember,
          NoFault, Fault, GenerateRepresentations, run, archive, env
  <1>14. ASSUME GenerationFails
        PROVE  InWork'
    BY <1>14, GenerationFailsDoes, LeaveDoes, Tables, DocInHand, PutRow,
       ArchiveInHand DEF
          InWork, Bare, InMember, NoFault, Fault
  <1>15. ASSUME GenerationDegrades
        PROVE  InWork'
    <2>1. /\ cur \in Path /\ cur # box /\ DocsOK
          /\ Put(cur, "error", None, doc[cur].sig)
      BY <1>15, Tables, DocInHand, ArchiveInHand DEF GenerationDegrades
    <2>2. /\ doc'[cur].status = "error" /\ ~doc'[cur].deleted
               /\ doc'[cur].sig = doc[cur].sig
          /\ \A q \in Path : q # cur => doc'[q] = doc[q]
      BY <2>1, PutRow
    <2>3. /\ pc = "generate" /\ pc' = "finalize" /\ clean' = {}
          /\ UNCHANGED <<chunks, cur, body, box, boxBody, disk>>
      BY <1>15 DEF GenerationDegrades, Fault, archive, env
    <2>4. box # None => box \in Path
      BY ArchiveInHand
    <2>5. QED
      BY <2>1, <2>2, <2>3, <2>4 DEF InWork
  <1>16. ASSUME GenerationIncomplete
        PROVE  InWork'
    BY <1>16, IncompleteDoes, LeaveDoes, Tables, DocInHand, ReplaceRow,
       ArchiveInHand DEF
          InWork, Bare, InMember, NoFault, Fault
  <1>17. ASSUME FinalizeContentHash
        PROVE  InWork'
    <2>1. cur \in Path /\ cur # box /\ DocsOK /\ (box # None => box \in Path)
      BY <1>17, Tables, DocInHand, ArchiveInHand, FinalizeDoes
    <2>2. /\ pc' \in {"scan", "members"} /\ cur' = None
          /\ UNCHANGED <<chunks, box, boxBody, disk>>
      BY <1>17, FinalizeDoes, LeaveDoes
    <2>3. \A q \in Path : /\ q # cur => doc'[q] = doc[q]
                        /\ doc'[q].sig = doc[q].sig
      <3>1. CASE doc' = [doc EXCEPT ![cur].hash = body]
        BY <2>1, <3>1, StampRow
      <3>2. QED
        BY <1>17, <3>1, FinalizeDoes
    <2>4. QED
      BY <2>1, <2>2, <2>3 DEF InWork
  <1>18. ASSUME ExtractArchiveMembers
        PROVE  InWork'
    BY <1>18, Tables, ArchiveInHand DEF InWork, Bare, InMember, NoFault, Fault,
          ExtractArchiveMembers, run, store, env
  <1>19. ASSUME ExtractionFails
        PROVE  InWork'
    BY <1>19, ExtractionFailsDoes, ClosedDoes, Tables, ArchiveInHand, PutRow DEF InWork,
          Bare, InMember, NoFault, Fault
  <1>20. ASSUME NEW m \in Member, IngestMember(m)
        PROVE  InWork'
    <2>1. box # m /\ box \in Path /\ DocsOK /\ doc[box].hash = None /\ box' = box
      BY <1>20, Tables, ArchiveInHand, IngestDoes DEF InWork
    <2>2. doc'[box].hash = None
      BY <1>20, <2>1, IngestDoes
    <2>3. CASE pc' = "members"
      BY <2>2, <2>3, <2>1 DEF InWork
    <2>4. CASE pc' = "generate" /\ cur' = m /\ Put(m, "ok", None, 0)
      <3>1. doc'[m].status = "ok" /\ ~doc'[m].deleted
        BY <1>20, <2>1, <2>4, PutRow
      <3>2. m \notin clean' /\ m \in Path
        BY <1>20, IngestDoes, Tables, SourcesApart
      <3>3. QED
        BY <2>1, <2>2, <2>4, <3>1, <3>2 DEF InWork
    <2>5. QED
      BY <1>20, <2>3, <2>4, IngestDoes
  <1>21. ASSUME NEW m \in Member, MemberFails(m)
        PROVE  InWork'
    BY <1>21, Tables, ArchiveInHand DEF InWork, Bare, InMember, NoFault, Fault,
          MemberFails, Account, run, store, env
  <1>22. ASSUME SealArchive
        PROVE  InWork'
    BY <1>22, SealDoes, ClosedDoes, Tables, ArchiveInHand, StampRow DEF InWork, Bare,
          InMember, NoFault, Fault
  <1>23. ASSUME NEW p \in Path, MarkMissing(p)
        PROVE  InWork'
    BY <1>23, MarkMissingDoes, Tables, DeleteRow DEF InWork, Bare, InMember, NoFault,
          Fault
  <1>24. ASSUME FinishScan
        PROVE  InWork'
    BY <1>24, Tables, ArchiveInHand DEF InWork, Bare, InMember, NoFault, Fault,
          FinishScan, Swept, Reset, store, archive, env
  <1>25. ASSUME Crash
        PROVE  InWork'
    BY <1>25, Tables DEF InWork, Bare, InMember, NoFault, Fault, Crash, Reset, store,
          env
  <1>26. ASSUME NEW p \in Source, NEW b \in Held, Edit(p, b)
        PROVE  InWork'
    BY <1>26, Tables DEF InWork, Bare, InMember, NoFault, Fault, Edit, store, run,
          archive
  <1>27. CASE UNCHANGED vars
    BY <1>27 DEF vars, InWork, Bare, InMember, NoFault, Fault
  <1>28. QED
    BY <1>1, <1>2, <1>3, <1>4, <1>5, <1>6, <1>7, <1>8, <1>9, <1>10, <1>11, <1>12, <1>13,
       <1>14, <1>15, <1>16, <1>17, <1>18, <1>19, <1>20, <1>21, <1>22, <1>23, <1>24,
       <1>25, <1>26, <1>27
       DEF Next, Watch, Work, Source

(* A signal in a row stays true of its hash.                                *)
LEMMA SignedStep ==
  ASSUME ScanInv, Heard, Signed, HandSigned, [Next]_vars
  PROVE  Signed'
  <1> USE NamesDiffer
  <1>1. ASSUME NEW reindex \in BOOLEAN, StartScan(reindex)
        PROVE  Signed'
    BY <1>1, Tables, ArchiveInHand, SignedSame DEF StartScan, store, archive, env
  <1>2. ASSUME NEW p \in Source, WatchChanged(p)
        PROVE  Signed'
    BY <1>2, Tables, ArchiveInHand, SignedSame DEF WatchChanged, StartJob, archive, env,
          store
  <1>3. ASSUME NEW p \in Source, WatchGone(p)
        PROVE  Signed'
    BY <1>3, Tables, ArchiveInHand, SignedSame, DeleteSigned DEF WatchGone, StartJob,
          archive, env
  <1>4. ASSUME NEW p \in Source, WatchIneligible(p)
        PROVE  Signed'
    BY <1>4, Tables, ArchiveInHand, SignedSame, DeleteSigned DEF WatchIneligible,
          archive, env
  <1>5. ASSUME NEW p \in Source, PersistSymlinkSkip(p)
        PROVE  Signed'
    BY <1>5, Tables, ArchiveInHand, SignedSame, PutUnsigned DEF PersistSymlinkSkip,
          Settle, Account, run, archive, env
  <1>6. ASSUME NEW p \in Source, RetireOversize(p)
        PROVE  Signed'
    BY <1>6, Tables, ArchiveInHand, SignedSame DEF RetireOversize, Settle, Account, run,
          archive, env
  <1>7. ASSUME PersistSkipRow
        PROVE  Signed'
    BY <1>7, Tables, DocInHand, SignedSame, PutUnsigned DEF PersistSkipRow, Settle,
          Account, run, archive, env, Reason
  <1>8. ASSUME NEW p \in Source, SkipUnchanged(p)
        PROVE  Signed'
    BY <1>8, SkipDoes, VisitDoes, Tables, SignedSame
  <1>9. ASSUME NEW p \in Source, BuildFails(p)
        PROVE  Signed'
    BY <1>9, BuildFailsDoes, VisitDoes, Tables, SignedSame, PutSigned, ListedSignal,
       SourcesApart
  <1>10. ASSUME NEW p \in Source, SizeCapSkip(p)
        PROVE  Signed'
    BY <1>10, SizeCapDoes, VisitDoes, Tables, SignedSame
  <1>11. ASSUME NEW p \in Source, BuildFile(p)
        PROVE  Signed'
    BY <1>11, BuildFileDoes, VisitDoes, Tables, SignedSame, PutSigned, ListedSignal,
       SourcesApart
  <1>12. ASSUME NEW p \in Source, BuildArchive(p)
        PROVE  Signed'
    BY <1>12, BuildArchiveDoes, VisitDoes, Tables, SignedSame, PutSigned, ListedSignal,
       SourcesApart
  <1>13. ASSUME GenerateRepresentations
        PROVE  Signed'
    BY <1>13, Tables, DocInHand, SignedSame DEF GenerateRepresentations, run, archive,
          env
  <1>14. ASSUME GenerationFails
        PROVE  Signed'
    BY <1>14, GenerationFailsDoes, LeaveDoes, Tables, DocInHand, SignedSame, PutUnsigned
  <1>15. ASSUME GenerationDegrades
        PROVE  Signed'
    BY <1>15, Tables, DocInHand, SignedSame, PutUnsigned DEF GenerationDegrades, run,
          archive, env
  <1>16. ASSUME GenerationIncomplete
        PROVE  Signed'
    BY <1>16, IncompleteDoes, LeaveDoes, Tables, DocInHand, SignedSame
  <1>17. ASSUME FinalizeContentHash
        PROVE  Signed'
    BY <1>17, FinalizeDoes, LeaveDoes, Tables, DocInHand, SignedSame, StampSigned DEF
          HandSigned
  <1>18. ASSUME ExtractArchiveMembers
        PROVE  Signed'
    BY <1>18, Tables, ArchiveInHand, SignedSame DEF ExtractArchiveMembers, run, store,
          env
  <1>19. ASSUME ExtractionFails
        PROVE  Signed'
    BY <1>19, ExtractionFailsDoes, ClosedDoes, Tables, ArchiveInHand, SignedSame,
       PutUnsigned
  <1>20. ASSUME NEW m \in Member, IngestMember(m)
        PROVE  Signed'
    BY <1>20, IngestDoes, Tables, ArchiveInHand, SignedSame, PutMember
  <1>21. ASSUME NEW m \in Member, MemberFails(m)
        PROVE  Signed'
    BY <1>21, Tables, ArchiveInHand, SignedSame DEF MemberFails, Account, run, store,
          env
  <1>22. ASSUME SealArchive
        PROVE  Signed'
    BY <1>22, SealDoes, ClosedDoes, Tables, ArchiveInHand, SignedSame, StampSigned DEF
          HandSigned
  <1>23. ASSUME NEW p \in Path, MarkMissing(p)
        PROVE  Signed'
    BY <1>23, MarkMissingDoes, Tables, SignedSame, DeleteSigned
  <1>24. ASSUME FinishScan
        PROVE  Signed'
    BY <1>24, Tables, ArchiveInHand, SignedSame DEF FinishScan, Swept, Reset, store,
          archive, env
  <1>25. ASSUME Crash
        PROVE  Signed'
    BY <1>25, Tables, SignedSame DEF Crash, Reset, store, env
  <1>26. ASSUME NEW p \in Source, NEW b \in Held, Edit(p, b)
        PROVE  Signed'
    BY <1>26, Tables, SignedSame, EditSignals, SignalTypes DEF Edit, store, run,
          archive, Signed
  <1>27. CASE UNCHANGED vars
    BY <1>27, SignedSame DEF vars
  <1>28. QED
    BY <1>1, <1>2, <1>3, <1>4, <1>5, <1>6, <1>7, <1>8, <1>9, <1>10, <1>11, <1>12, <1>13,
       <1>14, <1>15, <1>16, <1>17, <1>18, <1>19, <1>20, <1>21, <1>22, <1>23, <1>24,
       <1>25, <1>26, <1>27
       DEF Next, Watch, Work, Source

(* A signal in a row stays true of the content in hand.                     *)
LEMMA HandSignedStep ==
  ASSUME ScanInv, Heard, Signed, HandSigned, [Next]_vars
  PROVE  HandSigned'
  <1> USE NamesDiffer
  <1>1. ASSUME NEW reindex \in BOOLEAN, StartScan(reindex)
        PROVE  HandSigned'
    BY <1>1, Tables, ArchiveInHand, SignalTypes DEF HandSigned, InMember, StartScan,
          store, archive, env
  <1>2. ASSUME NEW p \in Source, WatchChanged(p)
        PROVE  HandSigned'
    BY <1>2, Tables, ArchiveInHand, SignalTypes DEF HandSigned, InMember, WatchChanged,
          StartJob, archive, env, store
  <1>3. ASSUME NEW p \in Source, WatchGone(p)
        PROVE  HandSigned'
    BY <1>3, Tables, ArchiveInHand, SignalTypes, DeleteRow DEF HandSigned, InMember,
          WatchGone, StartJob, archive, env
  <1>4. ASSUME NEW p \in Source, WatchIneligible(p)
        PROVE  HandSigned'
    BY <1>4, Tables, ArchiveInHand, SignalTypes, DeleteRow DEF HandSigned, InMember,
          WatchIneligible, archive, env
  <1>5. ASSUME NEW p \in Source, PersistSymlinkSkip(p)
        PROVE  HandSigned'
    BY <1>5, Tables, ArchiveInHand, SignalTypes, PutRow DEF HandSigned, InMember,
          PersistSymlinkSkip, Settle, Account, run, archive, env
  <1>6. ASSUME NEW p \in Source, RetireOversize(p)
        PROVE  HandSigned'
    BY <1>6, Tables, ArchiveInHand, SignalTypes, RetireRow DEF HandSigned, InMember,
          RetireOversize, Settle, Account, run, archive, env
  <1>7. ASSUME PersistSkipRow
        PROVE  HandSigned'
    BY <1>7, Tables, DocInHand, SignalTypes, PutRow DEF HandSigned, InMember,
          PersistSkipRow, Settle, Account, run, archive, env, Reason
  <1>8. ASSUME NEW p \in Source, SkipUnchanged(p)
        PROVE  HandSigned'
    BY <1>8, SkipDoes, VisitDoes, Tables, SignalTypes DEF HandSigned, InMember
  <1>9. ASSUME NEW p \in Source, BuildFails(p)
        PROVE  HandSigned'
    BY <1>9, BuildFailsDoes, VisitDoes, Tables, SignalTypes DEF HandSigned
  <1>10. ASSUME NEW p \in Source, SizeCapSkip(p)
        PROVE  HandSigned'
    BY <1>10, SizeCapDoes, VisitDoes, Tables, SignalTypes, RetireRow DEF HandSigned,
          InMember
  <1>11. ASSUME NEW p \in Source, BuildFile(p)
        PROVE  HandSigned'
    BY <1>11, BuildFileDoes, VisitDoes, Tables, SignalTypes, PutRow DEF HandSigned,
          InMember
  <1>12. ASSUME NEW p \in Source, BuildArchive(p)
        PROVE  HandSigned'
    BY <1>12, BuildArchiveDoes, VisitDoes, Tables, SignalTypes, PutRow DEF HandSigned,
          InMember
  <1>13. ASSUME GenerateRepresentations
        PROVE  HandSigned'
    BY <1>13, Tables, DocInHand, SignalTypes, ReplaceRow, ArchiveInHand DEF HandSigned,
          InMember, GenerateRepresentations, run, archive, env
  <1>14. ASSUME GenerationFails
        PROVE  HandSigned'
    BY <1>14, GenerationFailsDoes, LeaveDoes, Tables, DocInHand, SignalTypes, PutRow,
       ArchiveInHand DEF
          HandSigned, InMember
  <1>15. ASSUME GenerationDegrades
        PROVE  HandSigned'
    <2>1. /\ cur \in Path /\ cur # box /\ DocsOK
          /\ Put(cur, "error", None, doc[cur].sig)
      BY <1>15, Tables, DocInHand, ArchiveInHand DEF GenerationDegrades
    <2>2. /\ doc'[cur].status = "error" /\ ~doc'[cur].deleted
               /\ doc'[cur].sig = doc[cur].sig
          /\ \A q \in Path : q # cur => doc'[q] = doc[q]
      BY <2>1, PutRow
    <2>3. /\ pc = "generate" /\ pc' = "finalize" /\ clean' = {}
          /\ UNCHANGED <<chunks, cur, body, box, boxBody, disk>>
      BY <1>15 DEF GenerationDegrades, Fault, archive, env
    <2>4. box # None => box \in Path
      BY ArchiveInHand
    <2>5. \A q \in Path : doc'[q].sig = doc[q].sig
      BY <2>1, <2>2, <2>3
    <2>6. QED
      BY <2>2, <2>3, <2>5, SignalTypes DEF HandSigned
  <1>16. ASSUME GenerationIncomplete
        PROVE  HandSigned'
    BY <1>16, IncompleteDoes, LeaveDoes, Tables, DocInHand, SignalTypes, ReplaceRow,
       ArchiveInHand DEF
          HandSigned, InMember
  <1>17. ASSUME FinalizeContentHash
        PROVE  HandSigned'
    <2>1. cur \in Path /\ cur # box /\ DocsOK /\ (box # None => box \in Path)
      BY <1>17, Tables, DocInHand, ArchiveInHand, FinalizeDoes
    <2>2. /\ pc' \in {"scan", "members"} /\ cur' = None
          /\ UNCHANGED <<chunks, box, boxBody, disk>>
      BY <1>17, FinalizeDoes, LeaveDoes
    <2>3. \A q \in Path : /\ q # cur => doc'[q] = doc[q]
                        /\ doc'[q].sig = doc[q].sig
      <3>1. CASE doc' = [doc EXCEPT ![cur].hash = body]
        BY <2>1, <3>1, StampRow
      <3>2. QED
        BY <1>17, <3>1, FinalizeDoes
    <2>4. QED
      BY <2>1, <2>2, <2>3, SignalTypes DEF HandSigned
  <1>18. ASSUME ExtractArchiveMembers
        PROVE  HandSigned'
    BY <1>18, Tables, ArchiveInHand, SignalTypes DEF HandSigned, InMember,
          ExtractArchiveMembers, run, store, env
  <1>19. ASSUME ExtractionFails
        PROVE  HandSigned'
    BY ZenonT(60), <1>19, ExtractionFailsDoes, ClosedDoes, ArchiveInHand, Tables, SignalTypes
           DEF HandSigned
  <1>20. ASSUME NEW m \in Member, IngestMember(m)
        PROVE  HandSigned'
    BY <1>20, IngestDoes, Tables, ArchiveInHand, SignalTypes, PutRow DEF HandSigned,
          InMember
  <1>21. ASSUME NEW m \in Member, MemberFails(m)
        PROVE  HandSigned'
    BY <1>21, Tables, ArchiveInHand, SignalTypes DEF HandSigned, InMember, MemberFails,
          Account, run, store, env
  <1>22. ASSUME SealArchive
        PROVE  HandSigned'
    BY <1>22, SealDoes, ClosedDoes, Tables, ArchiveInHand, SignalTypes, StampRow DEF
          HandSigned, InMember
  <1>23. ASSUME NEW p \in Path, MarkMissing(p)
        PROVE  HandSigned'
    BY <1>23, MarkMissingDoes, Tables, SignalTypes, DeleteRow DEF HandSigned, InMember
  <1>24. ASSUME FinishScan
        PROVE  HandSigned'
    BY <1>24, Tables, ArchiveInHand, SignalTypes DEF HandSigned, InMember, FinishScan,
          Swept, Reset, store, archive, env
  <1>25. ASSUME Crash
        PROVE  HandSigned'
    BY <1>25, Tables, SignalTypes DEF HandSigned, InMember, Crash, Reset, store, env
  <1>26. ASSUME NEW p \in Source, NEW b \in Held, Edit(p, b)
        PROVE  HandSigned'
    BY <1>26, Tables, SignalTypes, EditSignals DEF HandSigned, InMember, Edit, store,
          run, archive, Signed
  <1>27. CASE UNCHANGED vars
    BY <1>27 DEF vars, HandSigned, InMember
  <1>28. QED
    BY <1>1, <1>2, <1>3, <1>4, <1>5, <1>6, <1>7, <1>8, <1>9, <1>10, <1>11, <1>12, <1>13,
       <1>14, <1>15, <1>16, <1>17, <1>18, <1>19, <1>20, <1>21, <1>22, <1>23, <1>24,
       <1>25, <1>26, <1>27
       DEF Next, Watch, Work, Source

(* How the worker comes to a document, and to the members of an archive.    *)
Handling ==
  /\ pc' = "generate" =>
       \/ pc = "generate" /\ cur' = cur
       \/ \E p \in Source : BuildFile(p) /\ cur' = p
       \/ \E m \in Member : IngestMember(m) /\ cur' = m
  /\ InMember' => \/ InMember /\ UNCHANGED <<box, boxBody, pack>>
                  \/ ExtractArchiveMembers

(* A document comes into work from the scan or from its archive.            *)
LEMMA Handles ==
  ASSUME ScanInv, [Next]_vars
  PROVE  Handling
  <1> USE DEF Handling
  <1>1. ASSUME NEW reindex \in BOOLEAN, StartScan(reindex)
        PROVE  Handling
    BY <1>1, DocInHand, ArchiveInHand DEF StartScan, store, archive, env, InMember
  <1>2. ASSUME NEW p \in Source, WatchChanged(p)
        PROVE  Handling
    BY <1>2, DocInHand, ArchiveInHand DEF WatchChanged, StartJob, archive, env, store,
          InMember
  <1>3. ASSUME NEW p \in Source, WatchGone(p)
        PROVE  Handling
    BY <1>3, DocInHand, ArchiveInHand DEF WatchGone, StartJob, archive, env, InMember
  <1>4. ASSUME NEW p \in Source, WatchIneligible(p)
        PROVE  Handling
    BY <1>4, DocInHand, ArchiveInHand DEF WatchIneligible, archive, env, InMember
  <1>5. ASSUME NEW p \in Source, PersistSymlinkSkip(p)
        PROVE  Handling
    BY <1>5, DocInHand, ArchiveInHand DEF PersistSymlinkSkip, Settle, Account, run,
          archive, env, InMember
  <1>6. ASSUME NEW p \in Source, RetireOversize(p)
        PROVE  Handling
    BY <1>6, DocInHand, ArchiveInHand DEF RetireOversize, Settle, Account, run, archive,
          env, InMember
  <1>7. ASSUME PersistSkipRow
        PROVE  Handling
    BY <1>7, DocInHand, ArchiveInHand DEF PersistSkipRow, Settle, Account, run, archive,
          env, Reason, InMember
  <1>8. ASSUME NEW p \in Source, SkipUnchanged(p)
        PROVE  Handling
    BY <1>8, DocInHand, ArchiveInHand, SkipDoes, VisitDoes DEF InMember
  <1>9. ASSUME NEW p \in Source, BuildFails(p)
        PROVE  Handling
    BY <1>9, DocInHand, ArchiveInHand, BuildFailsDoes, VisitDoes DEF InMember
  <1>10. ASSUME NEW p \in Source, SizeCapSkip(p)
        PROVE  Handling
    BY <1>10, DocInHand, ArchiveInHand, SizeCapDoes, VisitDoes DEF InMember
  <1>11. ASSUME NEW p \in Source, BuildFile(p)
        PROVE  Handling
    <2>1. p \in File /\ p \notin Member /\ ~InMember /\ pc = "scan"
      BY <1>11, BuildFileDoes, VisitDoes, NamesDiffer DEF InMember
    <2>2. CASE pc' = "generate" /\ cur' = p
      BY <1>11, <2>1, <2>2 DEF InMember
    <2>3. CASE pc' = "scan"
      BY <2>3 DEF InMember
    <2>4. QED
      BY <1>11, <2>2, <2>3, BuildFileDoes
  <1>12. ASSUME NEW p \in Source, BuildArchive(p)
        PROVE  Handling
    BY <1>12, DocInHand, ArchiveInHand, BuildArchiveDoes, VisitDoes DEF InMember
  <1>13. ASSUME GenerateRepresentations
        PROVE  Handling
    BY <1>13, DocInHand, ArchiveInHand DEF GenerateRepresentations, run, archive, env,
          InMember
  <1>14. ASSUME GenerationFails
        PROVE  Handling
    BY <1>14, DocInHand, ArchiveInHand, GenerationFailsDoes, LeaveDoes DEF InMember
  <1>15. ASSUME GenerationDegrades
        PROVE  Handling
    BY <1>15, DocInHand, ArchiveInHand DEF GenerationDegrades, run, archive, env,
          InMember
  <1>16. ASSUME GenerationIncomplete
        PROVE  Handling
    BY <1>16, DocInHand, ArchiveInHand, IncompleteDoes, LeaveDoes DEF InMember
  <1>17. ASSUME FinalizeContentHash
        PROVE  Handling
    BY <1>17, DocInHand, ArchiveInHand, FinalizeDoes, LeaveDoes DEF InMember
  <1>18. ASSUME ExtractArchiveMembers
        PROVE  Handling
    BY <1>18, DocInHand, ArchiveInHand DEF ExtractArchiveMembers, run, store, env,
          InMember
  <1>19. ASSUME ExtractionFails
        PROVE  Handling
    BY <1>19, DocInHand, ArchiveInHand, ExtractionFailsDoes, ClosedDoes DEF InMember
  <1>20. ASSUME NEW m \in Member, IngestMember(m)
        PROVE  Handling
    BY <1>20, DocInHand, ArchiveInHand, IngestDoes DEF InMember
  <1>21. ASSUME NEW m \in Member, MemberFails(m)
        PROVE  Handling
    BY <1>21, DocInHand, ArchiveInHand DEF MemberFails, Account, run, store, env,
          InMember
  <1>22. ASSUME SealArchive
        PROVE  Handling
    BY <1>22, DocInHand, ArchiveInHand, SealDoes, ClosedDoes DEF InMember
  <1>23. ASSUME NEW p \in Path, MarkMissing(p)
        PROVE  Handling
    BY <1>23, DocInHand, ArchiveInHand, MarkMissingDoes DEF InMember
  <1>24. ASSUME FinishScan
        PROVE  Handling
    BY <1>24, DocInHand, ArchiveInHand DEF FinishScan, Swept, Reset, store, archive,
          env, InMember
  <1>25. ASSUME Crash
        PROVE  Handling
    BY <1>25, DocInHand, ArchiveInHand DEF Crash, Reset, store, env, InMember
  <1>26. ASSUME NEW p \in Source, NEW b \in Held, Edit(p, b)
        PROVE  Handling
    BY <1>26, DocInHand, ArchiveInHand DEF Edit, store, run, archive, InMember
  <1>27. CASE UNCHANGED vars
    BY <1>27 DEF vars, InMember
  <1>28. QED
    BY <1>1, <1>2, <1>3, <1>4, <1>5, <1>6, <1>7, <1>8, <1>9, <1>10, <1>11, <1>12, <1>13,
       <1>14, <1>15, <1>16, <1>17, <1>18, <1>19, <1>20, <1>21, <1>22, <1>23, <1>24,
       <1>25, <1>26, <1>27
       DEF Next, Watch, Work, Source

(* A leaf is a file, which is its own source, or a member.                  *)
LEMMA LeafPaths ==
  /\ \A p \in Leaf : p \in Path /\ p \notin Archive /\ Src(p) \in Source /\ None # p
  /\ \A p \in Leaf : p \in Member \/ (p \in File /\ p \in Source /\ p \notin Member)
  /\ \A m \in Member : m \in Leaf /\ Src(m) = Of[m] /\ Of[m] \in Archive
       /\ Of[m] \in Source
  /\ \A p \in File : p \in Leaf /\ Src(p) = p
  BY NamesDiffer, SourcesApart DEF Leaf, Src, Source

(* What is at a path only changes by an edit of its source.                 *)
LEMMA HoldsSame ==
  ASSUME NEW p \in Leaf, disk'[Src(p)] = disk[Src(p)]
  PROVE  Holds(p)' = Holds(p) /\ Wanted(p)' = Wanted(p)
  <1>1. CASE p \in Member
    BY <1>1, LeafPaths, NamesDiffer DEF Holds, Wanted, Src
  <1>2. CASE p \in File
    BY <1>2, LeafPaths, NamesDiffer DEF Holds, Wanted, Src
  <1>3. QED
    BY <1>1, <1>2, LeafPaths

(* Without drift an edit bars nothing.                                      *)
LEMMA EditBars ==
  ASSUME ScanInv, Drift = {}, NEW p \in Source, NEW b \in Held, Edit(p, b)
  PROVE  /\ b \notin Refused \cup {Link} /\ ~Narrows(b)
         /\ \A q \in Leaf : Barred(q)' => Barred(q) /\ Src(q) # p
  <1>1. b \notin Refused \cup {Link} /\ ~Narrows(b) /\ b \in Body(p)
    BY DEF Edit, Allowed, Narrows
  <1>2. ASSUME NEW q \in Leaf, Src(q) # p
        PROVE  Barred(q)' <=> Barred(q)
    BY <1>2, HoldsSame, EditSignals, LeafPaths DEF Barred
  <1>3. ASSUME NEW q \in Leaf, Src(q) = p
        PROVE  ~Barred(q)'
    <2>1. disk'[p].body = b
      BY EditSignals
    <2>2. CASE q \in Member
      <3>1. b \in Packing /\ q \in DOMAIN b => b[q] \in Content \ Refused
        BY <1>1, Contents DEF Narrows
      <3>2. CASE b \in Packing /\ q \in DOMAIN b
        BY <1>3, <2>1, <2>2, <3>1, <3>2, LeafPaths, Contents DEF Barred, Holds
      <3>3. CASE ~(b \in Packing /\ q \in DOMAIN b)
        <4>1. Holds(q)' = None
          BY <1>3, <2>1, <2>2, <3>3, LeafPaths DEF Holds
        <4>2. QED
          BY <4>1, Contents DEF Barred
      <3>4. QED
        BY <3>2, <3>3
    <2>3. CASE q \notin Member
      BY <1>1, <1>3, <2>1, <2>3, LeafPaths DEF Barred, Holds
    <2>4. QED
      BY <2>2, <2>3
  <1>4. QED
    BY <1>1, <1>2, <1>3

(* Nothing barred is in hand.                                               *)
LEMMA NarrowStep ==
  ASSUME ScanInv, Drift = {}, Narrow, [Next]_vars
  PROVE  Narrow'
  <1>1. Handling /\ Look /\ Commit /\ DocsOK
    BY Handles, Looks, Commits, Tables
  <1>2. ASSUME NEW q \in Leaf, Barred(q)'
        PROVE  Barred(q)
    <2>1. CASE UNCHANGED disk
      BY <1>2, <2>1, HoldsSame DEF Barred
    <2>2. CASE \E p \in Source, b \in Held : Edit(p, b)
      BY <1>2, <2>2, EditBars
    <2>3. QED
      BY <1>1, <2>1, <2>2 DEF Look
  <1>3. ASSUME NEW q \in Leaf, Barred(q)
        PROVE  Bare(q)'
    <2>1. Bare(q) /\ ~(pc = "generate" /\ cur = q) /\ q \in Path
      BY <1>3, LeafPaths DEF Narrow
    <2>2. CASE UNCHANGED chunks
      BY <2>1, <2>2 DEF Bare
    <2>3. CASE \E p \in Path : MarkDocumentDeleted(p)
      BY <1>1, <2>1, <2>3, DeleteRow DEF Bare
    <2>4. CASE \E p \in Path : RetireChunks(p)
      BY <1>1, <2>1, <2>4, RetireRow DEF Bare
    <2>5. CASE pc = "generate"
                 /\ chunks' = [chunks EXCEPT ![cur] = [of |-> body, deleted |-> FALSE]]
      BY <1>1, <2>1, <2>5, ReplaceRow, DocInHand DEF Bare
    <2>6. QED
      BY <1>1, <2>2, <2>3, <2>4, <2>5 DEF Commit
  <1>4. ASSUME NEW q \in Leaf, Barred(q), Barred(q)', pc' = "generate", cur' = q
        PROVE  FALSE
    <2>1. CASE pc = "generate" /\ cur' = cur
      BY <1>4, <2>1 DEF Narrow
    <2>2. ASSUME NEW p \in Source, BuildFile(p), cur' = p
          PROVE  FALSE
      <3>1. p = q /\ q \in File /\ disk[q].body \in Content
              /\ disk[q].body \notin Refused
        BY <1>4, <2>2, BuildFileDoes
      <3>2. QED
        BY <1>4, <3>1, LeafPaths, Contents DEF Barred, Holds
    <2>3. ASSUME NEW m \in Member, IngestMember(m), cur' = m
          PROVE  FALSE
      <3>1. /\ m = q /\ InMember /\ m \in rest /\ Of[m] = box /\ pack[m] \in Indexable
        BY <1>4, <2>3, IngestDoes
      <3>2. m \in DOMAIN pack
        BY <3>1, ArchiveInHand
      <3>3. CASE disk[box].body \in Packing /\ m \in DOMAIN disk[box].body
        <4>1. Holds(m) = disk[box].body[m]
                /\ Holds(m) \in (Content \cup {Big}) \ Indexable
          BY <1>4, <3>1, <3>3, Contents DEF Barred, Holds, Indexable
        <4>2. Narrows(disk[box].body)
          BY <3>3, <4>1 DEF Narrows, Indexable
        <4>3. QED
          BY <3>1, <3>3, <4>1, <4>2 DEF Narrow
      <3>4. CASE ~(disk[box].body \in Packing /\ m \in DOMAIN disk[box].body)
        <4>1. Holds(m) = None
          BY <3>1, <3>4 DEF Holds
        <4>2. QED
          BY <1>4, <3>1, <4>1, Contents DEF Barred
      <3>5. QED
        BY <3>3, <3>4
    <2>4. QED
      BY <1>1, <1>4, <2>1, <2>2, <2>3 DEF Handling
  <1>5. ASSUME InMember', disk'[box'].body \in Packing, Narrows(disk'[box'].body)
        PROVE  pack' = disk'[box'].body
    <2>1. CASE ExtractArchiveMembers
      BY <2>1 DEF ExtractArchiveMembers, env
    <2>2. CASE InMember /\ UNCHANGED <<box, boxBody, pack>>
      <3>1. disk'[box] = disk[box]
        <4>1. CASE UNCHANGED disk
          BY <4>1
        <4>2. ASSUME NEW p \in Source, NEW b \in Held, Edit(p, b)
              PROVE  disk'[box] = disk[box]
          BY <1>5, <2>2, <4>2, EditBars, EditSignals, ArchiveInHand
        <4>3. QED
          BY <1>1, <4>1, <4>2 DEF Look
      <3>2. QED
        BY <1>5, <2>2, <3>1 DEF Narrow
    <2>3. QED
      BY <1>1, <1>5, <2>1, <2>2 DEF Handling
  <1>6. QED
    BY <1>2, <1>3, <1>4, <1>5 DEF Narrow, Narrows

-----------------------------------------------------------------------------
(* What a step can do to the tables and to the account of a scan            *)

(* Where a scan is at work, or can go next.                                 *)
Reach == todo \cup Dropped \cup {cur, box}

(* Only a member that is ingested becomes active.                           *)
Adds == \A m \in Member : m \in Active' => m \in Active \/ IngestMember(m)

Rests == rest' = {} \/ (rest' \subseteq rest /\ UNCHANGED box) \/ ExtractArchiveMembers

(* Where a done marker comes from.                                          *)
Hashing ==
  \A p \in Path :
    \/ doc'[p].hash \in {None, doc[p].hash}
    \/ p = cur /\ FinalizeContentHash /\ doc[p].status = "ok" /\ doc'[p].hash = body
    \/ p \in Source /\ BuildFile(p) /\ disk[p].body \in Refused
         /\ doc'[p].hash = disk[p].body
    \/ p = box /\ SealArchive /\ whole /\ doc'[p].hash = boxBody

(* What tombstones chunks.                                                  *)
Deleting ==
  \A p \in Path : chunks'[p].deleted =>
    \/ chunks[p].deleted
    \/ p \in Source /\ (WatchGone(p) \/ WatchIneligible(p) \/ RetireOversize(p)
         \/ SizeCapSkip(p))
    \/ MarkMissing(p)

(* The members of an archive change while it is in hand.                    *)
MemberRows ==
  \A m \in Member :
    \/ doc'[m].status = doc[m].status /\ doc'[m].hash = doc[m].hash
    \/ box # None /\ Of[m] = box /\ doc'[box] = doc[box]

(* Without an archive in hand there is nothing left of one.                 *)
LEMMA ScanInHand ==
  ASSUME ScanInv
  PROVE  /\ ~InMember => pack = None /\ rest = {}
         /\ box = None => whole
         /\ box = None => ~InMember
  <1>1. AtHand /\ WorkerOK /\ Stage
    BY DEF ScanInv, IngestInv
  <1>2. QED
    BY <1>1, NamesDiffer DEF AtHand, InMember, Stage, WorkerOK

(* Writing the row of a source, or of an active document, adds no member.   *)
LEMMA PutAdds ==
  ASSUME DocsOK, NEW p \in Path, p \notin Member \/ p \in Active, NEW status, NEW hash,
         NEW sig,
         Put(p, status, hash, sig)
  PROVE  Adds
  BY PutRow, NamesDiffer DEF Adds, Active

(* A row without a hash sets no marker.                                     *)
LEMMA PutHashing ==
  ASSUME DocsOK, NEW p \in Path, NEW status, NEW sig, Put(p, status, None, sig)
  PROVE  Hashing
  BY PutRow DEF Hashing

(* The row of a member is written while its archive is in hand.             *)
LEMMA PutMemberRows ==
  ASSUME DocsOK, NEW p \in Path, NEW status, NEW hash, NEW sig,
         Put(p, status, hash, sig),
         p \in Member => box # None /\ Of[p] = box /\ box # p /\ box \in Path
  PROVE  MemberRows
  BY PutRow, NamesDiffer DEF MemberRows

(* A member is marked while its archive is in hand.                         *)
LEMMA StampMemberRows ==
  ASSUME DocsOK, NEW p \in Path, NEW hash, doc' = [doc EXCEPT ![p].hash = hash],
         p \in Member => box # None /\ Of[p] = box /\ box # p /\ box \in Path
  PROVE  MemberRows
  BY StampRow, NamesDiffer DEF MemberRows

(* A job tombstones the chunks of its own path.                             *)
LEMMA DeleteDeleting ==
  ASSUME DocsOK, NEW p \in Source, MarkDocumentDeleted(p), WatchGone(p)
         \/ WatchIneligible(p)
  PROVE  Deleting
  BY DeleteRow, SourcesApart DEF Deleting

(* A member in work is below the archive in hand.                           *)
LEMMA MemberInHand ==
  ASSUME ScanInv, pc \in {"generate", "finalize"}
  PROVE  /\ cur \in Path
         /\ cur \in Member => box # None /\ Of[cur] = box /\ box # cur /\ box \in Path
  BY DocInHand, ArchiveInHand, NamesDiffer

(* Every step keeps to it: a member becomes active when it is ingested.     *)
LEMMA AddsStep ==
  ASSUME ScanInv, InWork, [Next]_vars
  PROVE  Adds
  <1>1. ASSUME NEW reindex \in BOOLEAN, StartScan(reindex)
        PROVE  Adds
    BY <1>1, Tables, NamesDiffer, ArchiveInHand DEF Adds, Active, StartScan, store,
          archive, env
  <1>2. ASSUME NEW p \in Source, WatchChanged(p)
        PROVE  Adds
    BY <1>2, Tables, NamesDiffer, ArchiveInHand DEF Adds, Active, WatchChanged,
          StartJob, archive, env, store
  <1>3. ASSUME NEW p \in Source, WatchGone(p)
        PROVE  Adds
    BY <1>3, Tables, NamesDiffer, ArchiveInHand, DeleteRow DEF Adds, Active, WatchGone,
          StartJob, archive, env
  <1>4. ASSUME NEW p \in Source, WatchIneligible(p)
        PROVE  Adds
    BY <1>4, Tables, NamesDiffer, ArchiveInHand, DeleteRow DEF Adds, Active,
          WatchIneligible, archive, env
  <1>5. ASSUME NEW p \in Source, PersistSymlinkSkip(p)
        PROVE  Adds
    <2>1. p \in Path /\ DocsOK /\ (UNCHANGED doc \/ Put(p, "link", None, 0))
      BY <1>5, ArchiveInHand, Tables, SourcesApart DEF PersistSymlinkSkip
    <2>2. CASE UNCHANGED doc
      BY <2>2 DEF Adds, Active
    <2>3. CASE Put(p, "link", None, 0)
      BY <1>5, <2>1, <2>3, PutAdds, ArchiveInHand, SourcesApart, NamesDiffer
    <2>4. QED
      BY <2>1, <2>2, <2>3
  <1>6. ASSUME NEW p \in Source, RetireOversize(p)
        PROVE  Adds
    BY <1>6, Tables, NamesDiffer, ArchiveInHand, RetireRow DEF Adds, Active,
          RetireOversize, Settle, Account, run, archive, env
  <1>7. ASSUME PersistSkipRow
        PROVE  Adds
    BY <1>7, Tables, NamesDiffer, DocInHand, PutRow DEF Adds, Active, PersistSkipRow,
          Settle, Account, run, archive, env, Reason
  <1>8. ASSUME NEW p \in Source, SkipUnchanged(p)
        PROVE  Adds
    BY <1>8, SkipDoes, VisitDoes, Tables, NamesDiffer DEF Adds, Active
  <1>9. ASSUME NEW p \in Source, BuildFails(p)
        PROVE  Adds
    <2>1. p \in Path /\ DocsOK
            /\ (UNCHANGED doc \/ Put(p, "error", None, listed[p].sig))
      BY <1>9, BuildFailsDoes, VisitDoes, ArchiveInHand, Tables, SourcesApart
    <2>2. CASE UNCHANGED doc
      BY <2>2 DEF Adds, Active
    <2>3. CASE Put(p, "error", None, listed[p].sig)
      BY <1>9, <2>1, <2>3, PutAdds, ArchiveInHand, SourcesApart, NamesDiffer
    <2>4. QED
      BY <2>1, <2>2, <2>3
  <1>10. ASSUME NEW p \in Source, SizeCapSkip(p)
        PROVE  Adds
    BY <1>10, SizeCapDoes, VisitDoes, Tables, NamesDiffer, RetireRow DEF Adds, Active
  <1>11. ASSUME NEW p \in Source, BuildFile(p)
        PROVE  Adds
    BY <1>11, BuildFileDoes, VisitDoes, Tables, NamesDiffer, PutRow DEF Adds, Active
  <1>12. ASSUME NEW p \in Source, BuildArchive(p)
        PROVE  Adds
    BY <1>12, BuildArchiveDoes, VisitDoes, Tables, NamesDiffer, PutRow DEF Adds, Active
  <1>13. ASSUME GenerateRepresentations
        PROVE  Adds
    BY <1>13, Tables, NamesDiffer, DocInHand, ReplaceRow DEF Adds, Active,
          GenerateRepresentations, run, archive, env
  <1>14. ASSUME GenerationFails
        PROVE  Adds
    <2>1. cur \in Path /\ DocsOK /\ pc = "generate"
            /\ (UNCHANGED doc \/ Put(cur, "error", None, doc[cur].sig))
      BY <1>14, GenerationFailsDoes, MemberInHand, Tables, SourcesApart
    <2>2. CASE UNCHANGED doc
      BY <2>2 DEF Adds, Active
    <2>3. CASE Put(cur, "error", None, doc[cur].sig)
      BY <1>14, <2>1, <2>3, PutAdds, MemberInHand, SourcesApart, NamesDiffer
             DEF Active, InWork
    <2>4. QED
      BY <2>1, <2>2, <2>3
  <1>15. ASSUME GenerationDegrades
        PROVE  Adds
    <2>1. cur \in Path /\ DocsOK /\ pc = "generate"
            /\ (UNCHANGED doc \/ Put(cur, "error", None, doc[cur].sig))
      BY <1>15, MemberInHand, Tables, SourcesApart DEF GenerationDegrades
    <2>2. CASE UNCHANGED doc
      BY <2>2 DEF Adds, Active
    <2>3. CASE Put(cur, "error", None, doc[cur].sig)
      BY <1>15, <2>1, <2>3, PutAdds, MemberInHand, SourcesApart, NamesDiffer
             DEF Active, InWork
    <2>4. QED
      BY <2>1, <2>2, <2>3
  <1>16. ASSUME GenerationIncomplete
        PROVE  Adds
    BY <1>16, IncompleteDoes, LeaveDoes, Tables, NamesDiffer, DocInHand, ReplaceRow DEF
          Adds, Active
  <1>17. ASSUME FinalizeContentHash
        PROVE  Adds
    BY <1>17, FinalizeDoes, LeaveDoes, Tables, NamesDiffer, DocInHand, StampRow DEF
          Adds, Active
  <1>18. ASSUME ExtractArchiveMembers
        PROVE  Adds
    BY <1>18, Tables, NamesDiffer, ArchiveInHand DEF Adds, Active,
          ExtractArchiveMembers, run, store, env
  <1>19. ASSUME ExtractionFails
        PROVE  Adds
    <2>1. box \in Path /\ DocsOK
            /\ (UNCHANGED doc \/ Put(box, "error", None, doc[box].sig))
      BY <1>19, ExtractionFailsDoes, ArchiveInHand, Tables, SourcesApart
    <2>2. CASE UNCHANGED doc
      BY <2>2 DEF Adds, Active
    <2>3. CASE Put(box, "error", None, doc[box].sig)
      BY <1>19, <2>1, <2>3, PutAdds, ArchiveInHand, SourcesApart, NamesDiffer
    <2>4. QED
      BY <2>1, <2>2, <2>3
  <1>20. ASSUME NEW m \in Member, IngestMember(m)
        PROVE  Adds
    BY <1>20, IngestDoes, Tables, NamesDiffer, ArchiveInHand, PutRow DEF Adds, Active
  <1>21. ASSUME NEW m \in Member, MemberFails(m)
        PROVE  Adds
    BY <1>21, Tables, NamesDiffer, ArchiveInHand DEF Adds, Active, MemberFails, Account,
          run, store, env
  <1>22. ASSUME SealArchive
        PROVE  Adds
    BY <1>22, SealDoes, ClosedDoes, Tables, NamesDiffer, ArchiveInHand, StampRow DEF
          Adds, Active
  <1>23. ASSUME NEW p \in Path, MarkMissing(p)
        PROVE  Adds
    BY <1>23, MarkMissingDoes, Tables, NamesDiffer, DeleteRow DEF Adds, Active
  <1>24. ASSUME FinishScan
        PROVE  Adds
    BY <1>24, Tables, NamesDiffer, ArchiveInHand DEF Adds, Active, FinishScan, Swept,
          Reset, store, archive, env
  <1>25. ASSUME Crash
        PROVE  Adds
    BY <1>25, Tables, NamesDiffer DEF Adds, Active, Crash, Reset, store, env
  <1>26. ASSUME NEW p \in Source, NEW b \in Held, Edit(p, b)
        PROVE  Adds
    BY <1>26, Tables, NamesDiffer DEF Adds, Active, Edit, store, run, archive
  <1>27. CASE UNCHANGED vars
    BY <1>27 DEF vars, Adds, Active
  <1>28. QED
    BY <1>1, <1>2, <1>3, <1>4, <1>5, <1>6, <1>7, <1>8, <1>9, <1>10, <1>11, <1>12, <1>13,
       <1>14, <1>15, <1>16, <1>17, <1>18, <1>19, <1>20, <1>21, <1>22, <1>23, <1>24,
       <1>25, <1>26, <1>27
       DEF Next, Watch, Work, Source

(* Every step leaves, takes from or closes the archive in hand.             *)
LEMMA RestsStep ==
  ASSUME ScanInv, [Next]_vars
  PROVE  Rests
  <1>1. ASSUME NEW reindex \in BOOLEAN, StartScan(reindex)
        PROVE  Rests
    BY <1>1, ArchiveInHand, ScanInHand DEF Rests, StartScan, store, archive, env
  <1>2. ASSUME NEW p \in Source, WatchChanged(p)
        PROVE  Rests
    BY <1>2, ArchiveInHand, ScanInHand DEF Rests, WatchChanged, StartJob, archive, env,
          store
  <1>3. ASSUME NEW p \in Source, WatchGone(p)
        PROVE  Rests
    BY <1>3, ArchiveInHand, ScanInHand DEF Rests, WatchGone, StartJob, archive, env
  <1>4. ASSUME NEW p \in Source, WatchIneligible(p)
        PROVE  Rests
    BY <1>4, ArchiveInHand, ScanInHand DEF Rests, WatchIneligible, archive, env
  <1>5. ASSUME NEW p \in Source, PersistSymlinkSkip(p)
        PROVE  Rests
    BY <1>5, ArchiveInHand, ScanInHand DEF Rests, PersistSymlinkSkip, Settle, Account,
          run, archive, env
  <1>6. ASSUME NEW p \in Source, RetireOversize(p)
        PROVE  Rests
    BY <1>6, ArchiveInHand, ScanInHand DEF Rests, RetireOversize, Settle, Account, run,
          archive, env
  <1>7. ASSUME PersistSkipRow
        PROVE  Rests
    BY <1>7, DocInHand, ScanInHand DEF Rests, PersistSkipRow, Settle, Account, run,
          archive, env, Reason
  <1>8. ASSUME NEW p \in Source, SkipUnchanged(p)
        PROVE  Rests
    BY <1>8, SkipDoes, VisitDoes, ScanInHand DEF Rests
  <1>9. ASSUME NEW p \in Source, BuildFails(p)
        PROVE  Rests
    BY <1>9, BuildFailsDoes, VisitDoes, ScanInHand DEF Rests
  <1>10. ASSUME NEW p \in Source, SizeCapSkip(p)
        PROVE  Rests
    BY <1>10, SizeCapDoes, VisitDoes, ScanInHand DEF Rests
  <1>11. ASSUME NEW p \in Source, BuildFile(p)
        PROVE  Rests
    BY <1>11, BuildFileDoes, VisitDoes, ScanInHand DEF Rests
  <1>12. ASSUME NEW p \in Source, BuildArchive(p)
        PROVE  Rests
    BY <1>12, BuildArchiveDoes, VisitDoes, ScanInHand DEF Rests
  <1>13. ASSUME GenerateRepresentations
        PROVE  Rests
    BY <1>13, DocInHand, ScanInHand DEF Rests, GenerateRepresentations, run, archive,
          env
  <1>14. ASSUME GenerationFails
        PROVE  Rests
    BY <1>14, GenerationFailsDoes, LeaveDoes, DocInHand, ScanInHand DEF Rests
  <1>15. ASSUME GenerationDegrades
        PROVE  Rests
    BY <1>15, DocInHand, ScanInHand DEF Rests, GenerationDegrades, run, archive, env
  <1>16. ASSUME GenerationIncomplete
        PROVE  Rests
    BY <1>16, IncompleteDoes, LeaveDoes, DocInHand, ScanInHand DEF Rests
  <1>17. ASSUME FinalizeContentHash
        PROVE  Rests
    BY <1>17, FinalizeDoes, LeaveDoes, DocInHand, ScanInHand DEF Rests
  <1>18. ASSUME ExtractArchiveMembers
        PROVE  Rests
    BY <1>18 DEF Rests
  <1>19. ASSUME ExtractionFails
        PROVE  Rests
    BY <1>19, ExtractionFailsDoes, ClosedDoes, ArchiveInHand, ScanInHand DEF Rests
  <1>20. ASSUME NEW m \in Member, IngestMember(m)
        PROVE  Rests
    BY <1>20, IngestDoes, ArchiveInHand, ScanInHand DEF Rests
  <1>21. ASSUME NEW m \in Member, MemberFails(m)
        PROVE  Rests
    BY <1>21, ArchiveInHand, ScanInHand DEF Rests, MemberFails, Account, run, store, env
  <1>22. ASSUME SealArchive
        PROVE  Rests
    BY <1>22, SealDoes, ClosedDoes, ArchiveInHand, ScanInHand DEF Rests
  <1>23. ASSUME NEW p \in Path, MarkMissing(p)
        PROVE  Rests
    BY <1>23, MarkMissingDoes, ScanInHand DEF Rests
  <1>24. ASSUME FinishScan
        PROVE  Rests
    BY <1>24, ArchiveInHand, ScanInHand DEF Rests, FinishScan, Swept, Reset, store,
          archive, env
  <1>25. ASSUME Crash
        PROVE  Rests
    BY <1>25, ScanInHand DEF Rests, Crash, Reset, store, env
  <1>26. ASSUME NEW p \in Source, NEW b \in Held, Edit(p, b)
        PROVE  Rests
    BY <1>26, ScanInHand DEF Rests, Edit, store, run, archive
  <1>27. CASE UNCHANGED vars
    BY <1>27 DEF vars, Rests
  <1>28. QED
    BY <1>1, <1>2, <1>3, <1>4, <1>5, <1>6, <1>7, <1>8, <1>9, <1>10, <1>11, <1>12, <1>13,
       <1>14, <1>15, <1>16, <1>17, <1>18, <1>19, <1>20, <1>21, <1>22, <1>23, <1>24,
       <1>25, <1>26, <1>27
       DEF Next, Watch, Work, Source

(* Every marker has one of these origins.                                   *)
LEMMA HashingStep ==
  ASSUME ScanInv, [Next]_vars
  PROVE  Hashing
  <1>1. ASSUME NEW reindex \in BOOLEAN, StartScan(reindex)
        PROVE  Hashing
    BY <1>1, Tables, NamesDiffer, ArchiveInHand DEF Hashing, StartScan, store, archive,
          env
  <1>2. ASSUME NEW p \in Source, WatchChanged(p)
        PROVE  Hashing
    BY <1>2, Tables, NamesDiffer, ArchiveInHand DEF Hashing, WatchChanged, StartJob,
          archive, env, store
  <1>3. ASSUME NEW p \in Source, WatchGone(p)
        PROVE  Hashing
    BY <1>3, Tables, NamesDiffer, ArchiveInHand, DeleteRow DEF Hashing, WatchGone,
          StartJob, archive, env
  <1>4. ASSUME NEW p \in Source, WatchIneligible(p)
        PROVE  Hashing
    BY <1>4, Tables, NamesDiffer, ArchiveInHand, DeleteRow DEF Hashing, WatchIneligible,
          archive, env
  <1>5. ASSUME NEW p \in Source, PersistSymlinkSkip(p)
        PROVE  Hashing
    <2>1. p \in Path /\ DocsOK /\ (UNCHANGED doc \/ Put(p, "link", None, 0))
      BY <1>5, ArchiveInHand, Tables, SourcesApart DEF PersistSymlinkSkip
    <2>2. CASE UNCHANGED doc
      BY <2>2 DEF Hashing, Active
    <2>3. CASE Put(p, "link", None, 0)
      BY <1>5, <2>1, <2>3, PutHashing, ArchiveInHand, SourcesApart, NamesDiffer
    <2>4. QED
      BY <2>1, <2>2, <2>3
  <1>6. ASSUME NEW p \in Source, RetireOversize(p)
        PROVE  Hashing
    BY <1>6, Tables, NamesDiffer, ArchiveInHand, RetireRow DEF Hashing, RetireOversize,
          Settle, Account, run, archive, env
  <1>7. ASSUME PersistSkipRow
        PROVE  Hashing
    BY <1>7, Tables, NamesDiffer, DocInHand, PutRow DEF Hashing, PersistSkipRow, Settle,
          Account, run, archive, env, Reason
  <1>8. ASSUME NEW p \in Source, SkipUnchanged(p)
        PROVE  Hashing
    BY <1>8, SkipDoes, VisitDoes, Tables, NamesDiffer DEF Hashing
  <1>9. ASSUME NEW p \in Source, BuildFails(p)
        PROVE  Hashing
    <2>1. p \in Path /\ DocsOK
            /\ (UNCHANGED doc \/ Put(p, "error", None, listed[p].sig))
      BY <1>9, BuildFailsDoes, VisitDoes, ArchiveInHand, Tables, SourcesApart
    <2>2. CASE UNCHANGED doc
      BY <2>2 DEF Hashing, Active
    <2>3. CASE Put(p, "error", None, listed[p].sig)
      BY <1>9, <2>1, <2>3, PutHashing, ArchiveInHand, SourcesApart, NamesDiffer
    <2>4. QED
      BY <2>1, <2>2, <2>3
  <1>10. ASSUME NEW p \in Source, SizeCapSkip(p)
        PROVE  Hashing
    BY <1>10, SizeCapDoes, VisitDoes, Tables, NamesDiffer, RetireRow DEF Hashing
  <1>11. ASSUME NEW p \in Source, BuildFile(p)
        PROVE  Hashing
    BY <1>11, BuildFileDoes, VisitDoes, Tables, NamesDiffer, PutRow DEF Hashing
  <1>12. ASSUME NEW p \in Source, BuildArchive(p)
        PROVE  Hashing
    BY <1>12, BuildArchiveDoes, VisitDoes, Tables, NamesDiffer, PutRow DEF Hashing
  <1>13. ASSUME GenerateRepresentations
        PROVE  Hashing
    BY <1>13, Tables, NamesDiffer, DocInHand, ReplaceRow DEF Hashing,
          GenerateRepresentations, run, archive, env
  <1>14. ASSUME GenerationFails
        PROVE  Hashing
    <2>1. cur \in Path /\ DocsOK /\ pc = "generate"
            /\ (UNCHANGED doc \/ Put(cur, "error", None, doc[cur].sig))
      BY <1>14, GenerationFailsDoes, MemberInHand, Tables, SourcesApart
    <2>2. CASE UNCHANGED doc
      BY <2>2 DEF Hashing, Active
    <2>3. CASE Put(cur, "error", None, doc[cur].sig)
      BY <1>14, <2>1, <2>3, PutHashing, MemberInHand, SourcesApart, NamesDiffer
    <2>4. QED
      BY <2>1, <2>2, <2>3
  <1>15. ASSUME GenerationDegrades
        PROVE  Hashing
    <2>1. cur \in Path /\ DocsOK /\ pc = "generate"
            /\ (UNCHANGED doc \/ Put(cur, "error", None, doc[cur].sig))
      BY <1>15, MemberInHand, Tables, SourcesApart DEF GenerationDegrades
    <2>2. CASE UNCHANGED doc
      BY <2>2 DEF Hashing, Active
    <2>3. CASE Put(cur, "error", None, doc[cur].sig)
      BY <1>15, <2>1, <2>3, PutHashing, MemberInHand, SourcesApart, NamesDiffer
    <2>4. QED
      BY <2>1, <2>2, <2>3
  <1>16. ASSUME GenerationIncomplete
        PROVE  Hashing
    BY <1>16, IncompleteDoes, LeaveDoes, Tables, NamesDiffer, DocInHand, ReplaceRow DEF
          Hashing
  <1>17. ASSUME FinalizeContentHash
        PROVE  Hashing
    <2>1. DocsOK /\ cur \in Path
      BY <1>17, Tables, DocInHand, FinalizeDoes
    <2>2. CASE doc[cur].status = "ok" /\ doc' = [doc EXCEPT ![cur].hash = body]
      BY <1>17, <2>1, <2>2, StampRow DEF Hashing
    <2>3. CASE UNCHANGED doc
      BY <2>3 DEF Hashing
    <2>4. QED
      BY <1>17, <2>2, <2>3, FinalizeDoes
  <1>18. ASSUME ExtractArchiveMembers
        PROVE  Hashing
    BY <1>18, Tables, NamesDiffer, ArchiveInHand DEF Hashing, ExtractArchiveMembers,
          run, store, env
  <1>19. ASSUME ExtractionFails
        PROVE  Hashing
    <2>1. box \in Path /\ DocsOK
            /\ (UNCHANGED doc \/ Put(box, "error", None, doc[box].sig))
      BY <1>19, ExtractionFailsDoes, ArchiveInHand, Tables, SourcesApart
    <2>2. CASE UNCHANGED doc
      BY <2>2 DEF Hashing, Active
    <2>3. CASE Put(box, "error", None, doc[box].sig)
      BY <1>19, <2>1, <2>3, PutHashing, ArchiveInHand, SourcesApart, NamesDiffer
    <2>4. QED
      BY <2>1, <2>2, <2>3
  <1>20. ASSUME NEW m \in Member, IngestMember(m)
        PROVE  Hashing
    BY <1>20, IngestDoes, Tables, NamesDiffer, ArchiveInHand, PutRow DEF Hashing
  <1>21. ASSUME NEW m \in Member, MemberFails(m)
        PROVE  Hashing
    BY <1>21, Tables, NamesDiffer, ArchiveInHand DEF Hashing, MemberFails, Account, run,
          store, env
  <1>22. ASSUME SealArchive
        PROVE  Hashing
    <2>1. DocsOK /\ box \in Path
      BY <1>22, Tables, ArchiveInHand, SealDoes
    <2>2. CASE whole /\ doc' = [doc EXCEPT ![box].hash = boxBody]
      BY <1>22, <2>1, <2>2, StampRow DEF Hashing
    <2>3. CASE UNCHANGED doc
      BY <2>3 DEF Hashing
    <2>4. QED
      BY <1>22, <2>2, <2>3, SealDoes
  <1>23. ASSUME NEW p \in Path, MarkMissing(p)
        PROVE  Hashing
    BY <1>23, MarkMissingDoes, Tables, NamesDiffer, DeleteRow DEF Hashing
  <1>24. ASSUME FinishScan
        PROVE  Hashing
    BY <1>24, Tables, NamesDiffer, ArchiveInHand DEF Hashing, FinishScan, Swept, Reset,
          store, archive, env
  <1>25. ASSUME Crash
        PROVE  Hashing
    BY <1>25, Tables, NamesDiffer DEF Hashing, Crash, Reset, store, env
  <1>26. ASSUME NEW p \in Source, NEW b \in Held, Edit(p, b)
        PROVE  Hashing
    BY <1>26, Tables, NamesDiffer DEF Hashing, Edit, store, run, archive
  <1>27. CASE UNCHANGED vars
    BY <1>27 DEF vars, Hashing
  <1>28. QED
    BY <1>1, <1>2, <1>3, <1>4, <1>5, <1>6, <1>7, <1>8, <1>9, <1>10, <1>11, <1>12, <1>13,
       <1>14, <1>15, <1>16, <1>17, <1>18, <1>19, <1>20, <1>21, <1>22, <1>23, <1>24,
       <1>25, <1>26, <1>27
       DEF Next, Watch, Work, Source

(* Every tombstone on chunks has one of these origins.                      *)
LEMMA DeletingStep ==
  ASSUME ScanInv, [Next]_vars
  PROVE  Deleting
  <1>1. ASSUME NEW reindex \in BOOLEAN, StartScan(reindex)
        PROVE  Deleting
    BY <1>1, Tables, NamesDiffer, ArchiveInHand DEF Deleting, StartScan, store, archive,
          env
  <1>2. ASSUME NEW p \in Source, WatchChanged(p)
        PROVE  Deleting
    BY <1>2, Tables, NamesDiffer, ArchiveInHand DEF Deleting, WatchChanged, StartJob,
          archive, env, store
  <1>3. ASSUME NEW p \in Source, WatchGone(p)
        PROVE  Deleting
    BY <1>3, DeleteDeleting, Tables DEF WatchGone
  <1>4. ASSUME NEW p \in Source, WatchIneligible(p)
        PROVE  Deleting
    BY <1>4, DeleteDeleting, Tables DEF WatchIneligible
  <1>5. ASSUME NEW p \in Source, PersistSymlinkSkip(p)
        PROVE  Deleting
    BY <1>5, Tables, NamesDiffer, ArchiveInHand, PutRow DEF Deleting,
          PersistSymlinkSkip, Settle, Account, run, archive, env
  <1>6. ASSUME NEW p \in Source, RetireOversize(p)
        PROVE  Deleting
    BY <1>6, Tables, NamesDiffer, ArchiveInHand, RetireRow DEF Deleting, RetireOversize,
          Settle, Account, run, archive, env
  <1>7. ASSUME PersistSkipRow
        PROVE  Deleting
    BY <1>7, Tables, NamesDiffer, DocInHand, PutRow DEF Deleting, PersistSkipRow,
          Settle, Account, run, archive, env, Reason
  <1>8. ASSUME NEW p \in Source, SkipUnchanged(p)
        PROVE  Deleting
    BY <1>8, SkipDoes, VisitDoes, Tables, NamesDiffer DEF Deleting
  <1>9. ASSUME NEW p \in Source, BuildFails(p)
        PROVE  Deleting
    BY <1>9, BuildFailsDoes, VisitDoes, Tables, NamesDiffer, PutRow DEF Deleting
  <1>10. ASSUME NEW p \in Source, SizeCapSkip(p)
        PROVE  Deleting
    BY <1>10, SizeCapDoes, VisitDoes, Tables, NamesDiffer, RetireRow DEF Deleting
  <1>11. ASSUME NEW p \in Source, BuildFile(p)
        PROVE  Deleting
    BY <1>11, BuildFileDoes, VisitDoes, Tables, NamesDiffer, PutRow DEF Deleting
  <1>12. ASSUME NEW p \in Source, BuildArchive(p)
        PROVE  Deleting
    BY <1>12, BuildArchiveDoes, VisitDoes, Tables, NamesDiffer, PutRow DEF Deleting
  <1>13. ASSUME GenerateRepresentations
        PROVE  Deleting
    BY <1>13, Tables, NamesDiffer, DocInHand, ReplaceRow DEF Deleting,
          GenerateRepresentations, run, archive, env
  <1>14. ASSUME GenerationFails
        PROVE  Deleting
    BY <1>14, GenerationFailsDoes, LeaveDoes, Tables, NamesDiffer, DocInHand, PutRow DEF
          Deleting
  <1>15. ASSUME GenerationDegrades
        PROVE  Deleting
    BY <1>15, Tables, NamesDiffer, DocInHand, PutRow DEF Deleting, GenerationDegrades,
          run, archive, env
  <1>16. ASSUME GenerationIncomplete
        PROVE  Deleting
    BY <1>16, IncompleteDoes, LeaveDoes, Tables, NamesDiffer, DocInHand, ReplaceRow DEF
          Deleting
  <1>17. ASSUME FinalizeContentHash
        PROVE  Deleting
    BY <1>17, FinalizeDoes, LeaveDoes, Tables, NamesDiffer, DocInHand, StampRow DEF
          Deleting
  <1>18. ASSUME ExtractArchiveMembers
        PROVE  Deleting
    BY <1>18, Tables, NamesDiffer, ArchiveInHand DEF Deleting, ExtractArchiveMembers,
          run, store, env
  <1>19. ASSUME ExtractionFails
        PROVE  Deleting
    BY <1>19, ExtractionFailsDoes, ClosedDoes, Tables, NamesDiffer, ArchiveInHand,
       PutRow DEF
          Deleting
  <1>20. ASSUME NEW m \in Member, IngestMember(m)
        PROVE  Deleting
    BY <1>20, IngestDoes, Tables, NamesDiffer, ArchiveInHand, PutRow DEF Deleting
  <1>21. ASSUME NEW m \in Member, MemberFails(m)
        PROVE  Deleting
    BY <1>21, Tables, NamesDiffer, ArchiveInHand DEF Deleting, MemberFails, Account,
          run, store, env
  <1>22. ASSUME SealArchive
        PROVE  Deleting
    BY <1>22, SealDoes, ClosedDoes, Tables, NamesDiffer, ArchiveInHand, StampRow DEF
          Deleting
  <1>23. ASSUME NEW p \in Path, MarkMissing(p)
        PROVE  Deleting
    BY <1>23, MarkMissingDoes, Tables, NamesDiffer, DeleteRow DEF Deleting
  <1>24. ASSUME FinishScan
        PROVE  Deleting
    BY <1>24, Tables, NamesDiffer, ArchiveInHand DEF Deleting, FinishScan, Swept, Reset,
          store, archive, env
  <1>25. ASSUME Crash
        PROVE  Deleting
    BY <1>25, Tables, NamesDiffer DEF Deleting, Crash, Reset, store, env
  <1>26. ASSUME NEW p \in Source, NEW b \in Held, Edit(p, b)
        PROVE  Deleting
    BY <1>26, Tables, NamesDiffer DEF Deleting, Edit, store, run, archive
  <1>27. CASE UNCHANGED vars
    BY <1>27 DEF vars, Deleting
  <1>28. QED
    BY <1>1, <1>2, <1>3, <1>4, <1>5, <1>6, <1>7, <1>8, <1>9, <1>10, <1>11, <1>12, <1>13,
       <1>14, <1>15, <1>16, <1>17, <1>18, <1>19, <1>20, <1>21, <1>22, <1>23, <1>24,
       <1>25, <1>26, <1>27
       DEF Next, Watch, Work, Source

(* Every change to a member's row happens with its archive in hand.         *)
LEMMA MemberRowsStep ==
  ASSUME ScanInv, [Next]_vars
  PROVE  MemberRows
  <1>1. ASSUME NEW reindex \in BOOLEAN, StartScan(reindex)
        PROVE  MemberRows
    BY <1>1, Tables, NamesDiffer, ArchiveInHand DEF MemberRows, StartScan, store,
          archive, env
  <1>2. ASSUME NEW p \in Source, WatchChanged(p)
        PROVE  MemberRows
    BY <1>2, Tables, NamesDiffer, ArchiveInHand DEF MemberRows, WatchChanged, StartJob,
          archive, env, store
  <1>3. ASSUME NEW p \in Source, WatchGone(p)
        PROVE  MemberRows
    BY <1>3, Tables, NamesDiffer, ArchiveInHand, DeleteRow DEF MemberRows, WatchGone,
          StartJob, archive, env
  <1>4. ASSUME NEW p \in Source, WatchIneligible(p)
        PROVE  MemberRows
    BY <1>4, Tables, NamesDiffer, ArchiveInHand, DeleteRow DEF MemberRows,
          WatchIneligible, archive, env
  <1>5. ASSUME NEW p \in Source, PersistSymlinkSkip(p)
        PROVE  MemberRows
    <2>1. p \in Path /\ DocsOK /\ (UNCHANGED doc \/ Put(p, "link", None, 0))
      BY <1>5, ArchiveInHand, Tables, SourcesApart DEF PersistSymlinkSkip
    <2>2. CASE UNCHANGED doc
      BY <2>2 DEF MemberRows, Active
    <2>3. CASE Put(p, "link", None, 0)
      BY <1>5, <2>1, <2>3, PutMemberRows, ArchiveInHand, SourcesApart, NamesDiffer
    <2>4. QED
      BY <2>1, <2>2, <2>3
  <1>6. ASSUME NEW p \in Source, RetireOversize(p)
        PROVE  MemberRows
    BY <1>6, Tables, NamesDiffer, ArchiveInHand, RetireRow DEF MemberRows,
          RetireOversize, Settle, Account, run, archive, env
  <1>7. ASSUME PersistSkipRow
        PROVE  MemberRows
    BY <1>7, Tables, NamesDiffer, DocInHand, PutRow DEF MemberRows, PersistSkipRow,
          Settle, Account, run, archive, env, Reason
  <1>8. ASSUME NEW p \in Source, SkipUnchanged(p)
        PROVE  MemberRows
    BY <1>8, SkipDoes, VisitDoes, Tables, NamesDiffer DEF MemberRows
  <1>9. ASSUME NEW p \in Source, BuildFails(p)
        PROVE  MemberRows
    <2>1. p \in Path /\ DocsOK
            /\ (UNCHANGED doc \/ Put(p, "error", None, listed[p].sig))
      BY <1>9, BuildFailsDoes, VisitDoes, ArchiveInHand, Tables, SourcesApart
    <2>2. CASE UNCHANGED doc
      BY <2>2 DEF MemberRows, Active
    <2>3. CASE Put(p, "error", None, listed[p].sig)
      BY <1>9, <2>1, <2>3, PutMemberRows, ArchiveInHand, SourcesApart, NamesDiffer
    <2>4. QED
      BY <2>1, <2>2, <2>3
  <1>10. ASSUME NEW p \in Source, SizeCapSkip(p)
        PROVE  MemberRows
    BY <1>10, SizeCapDoes, VisitDoes, Tables, NamesDiffer, RetireRow DEF MemberRows
  <1>11. ASSUME NEW p \in Source, BuildFile(p)
        PROVE  MemberRows
    BY <1>11, BuildFileDoes, VisitDoes, Tables, NamesDiffer, PutRow DEF MemberRows
  <1>12. ASSUME NEW p \in Source, BuildArchive(p)
        PROVE  MemberRows
    BY <1>12, BuildArchiveDoes, VisitDoes, Tables, NamesDiffer, PutRow DEF MemberRows
  <1>13. ASSUME GenerateRepresentations
        PROVE  MemberRows
    BY <1>13, Tables, NamesDiffer, DocInHand, ReplaceRow DEF MemberRows,
          GenerateRepresentations, run, archive, env
  <1>14. ASSUME GenerationFails
        PROVE  MemberRows
    <2>1. cur \in Path /\ DocsOK /\ pc = "generate"
            /\ (UNCHANGED doc \/ Put(cur, "error", None, doc[cur].sig))
      BY <1>14, GenerationFailsDoes, MemberInHand, Tables, SourcesApart
    <2>2. CASE UNCHANGED doc
      BY <2>2 DEF MemberRows, Active
    <2>3. CASE Put(cur, "error", None, doc[cur].sig)
      BY <1>14, <2>1, <2>3, PutMemberRows, MemberInHand, SourcesApart, NamesDiffer
    <2>4. QED
      BY <2>1, <2>2, <2>3
  <1>15. ASSUME GenerationDegrades
        PROVE  MemberRows
    <2>1. cur \in Path /\ DocsOK /\ pc = "generate"
            /\ (UNCHANGED doc \/ Put(cur, "error", None, doc[cur].sig))
      BY <1>15, MemberInHand, Tables, SourcesApart DEF GenerationDegrades
    <2>2. CASE UNCHANGED doc
      BY <2>2 DEF MemberRows, Active
    <2>3. CASE Put(cur, "error", None, doc[cur].sig)
      BY <1>15, <2>1, <2>3, PutMemberRows, MemberInHand, SourcesApart, NamesDiffer
    <2>4. QED
      BY <2>1, <2>2, <2>3
  <1>16. ASSUME GenerationIncomplete
        PROVE  MemberRows
    BY <1>16, IncompleteDoes, LeaveDoes, Tables, NamesDiffer, DocInHand, ReplaceRow DEF
          MemberRows
  <1>17. ASSUME FinalizeContentHash
        PROVE  MemberRows
    <2>1. pc = "finalize" /\ DocsOK
            /\ (UNCHANGED doc \/ doc' = [doc EXCEPT ![cur].hash = body])
      BY <1>17, Tables, FinalizeDoes
    <2>2. QED
      BY <2>1, StampMemberRows, MemberInHand DEF MemberRows
  <1>18. ASSUME ExtractArchiveMembers
        PROVE  MemberRows
    BY <1>18, Tables, NamesDiffer, ArchiveInHand DEF MemberRows, ExtractArchiveMembers,
          run, store, env
  <1>19. ASSUME ExtractionFails
        PROVE  MemberRows
    <2>1. box \in Path /\ DocsOK
            /\ (UNCHANGED doc \/ Put(box, "error", None, doc[box].sig))
      BY <1>19, ExtractionFailsDoes, ArchiveInHand, Tables, SourcesApart
    <2>2. CASE UNCHANGED doc
      BY <2>2 DEF MemberRows, Active
    <2>3. CASE Put(box, "error", None, doc[box].sig)
      BY <1>19, <2>1, <2>3, PutMemberRows, ArchiveInHand, SourcesApart, NamesDiffer
    <2>4. QED
      BY <2>1, <2>2, <2>3
  <1>20. ASSUME NEW m \in Member, IngestMember(m)
        PROVE  MemberRows
    BY <1>20, IngestDoes, Tables, NamesDiffer, ArchiveInHand, PutRow DEF MemberRows
  <1>21. ASSUME NEW m \in Member, MemberFails(m)
        PROVE  MemberRows
    BY <1>21, Tables, NamesDiffer, ArchiveInHand DEF MemberRows, MemberFails, Account,
          run, store, env
  <1>22. ASSUME SealArchive
        PROVE  MemberRows
    BY <1>22, SealDoes, ClosedDoes, Tables, NamesDiffer, ArchiveInHand, StampRow DEF
          MemberRows
  <1>23. ASSUME NEW p \in Path, MarkMissing(p)
        PROVE  MemberRows
    BY <1>23, MarkMissingDoes, Tables, NamesDiffer, DeleteRow DEF MemberRows
  <1>24. ASSUME FinishScan
        PROVE  MemberRows
    BY <1>24, Tables, NamesDiffer, ArchiveInHand DEF MemberRows, FinishScan, Swept,
          Reset, store, archive, env
  <1>25. ASSUME Crash
        PROVE  MemberRows
    BY <1>25, Tables, NamesDiffer DEF MemberRows, Crash, Reset, store, env
  <1>26. ASSUME NEW p \in Source, NEW b \in Held, Edit(p, b)
        PROVE  MemberRows
    BY <1>26, Tables, NamesDiffer DEF MemberRows, Edit, store, run, archive
  <1>27. CASE UNCHANGED vars
    BY <1>27 DEF vars, MemberRows
  <1>28. QED
    BY <1>1, <1>2, <1>3, <1>4, <1>5, <1>6, <1>7, <1>8, <1>9, <1>10, <1>11, <1>12, <1>13,
       <1>14, <1>15, <1>16, <1>17, <1>18, <1>19, <1>20, <1>21, <1>22, <1>23, <1>24,
       <1>25, <1>26, <1>27
       DEF Next, Watch, Work, Source

(* A scan goes from a path to what is listed there, and on to its members.  *)
Moves ==
  scanning' =>
    \/ \E reindex \in BOOLEAN : StartScan(reindex)
    \/ /\ scanning /\ UNCHANGED listed /\ clean' \subseteq clean /\ seen \subseteq seen'
       /\ \A p \in Path : p \in todo' \cup (seen' \ seen) \cup {cur', box'}
            => Src(p) \in Reach
       /\ UNCHANGED existing \/ \E p \in Path : MarkMissing(p)

Touched ==
  scanning' =>
    \A p \in Path :
      (doc'[p] = doc[p] /\ chunks'[p] = chunks[p]) \/ Src(p) \in Reach \/ MarkMissing(p)

(* Every path is a source or a member of one.                               *)
LEMMA Sources ==
  /\ \A p \in Source : Src(p) = p /\ p \in Path
  /\ \A m \in Member : Src(m) = Of[m]
  /\ Src(None) = None
  /\ None \notin Path /\ None \notin Member
  /\ \A p \in Path : p \in Source \/ p \in Member
  BY SourcesApart, Paths DEF Src, Path

(* Where the worker is, the scan has come.                                  *)
LEMMA InReach ==
  ASSUME ScanInv
  PROVE  /\ Src(cur) \in Reach /\ Src(box) \in Reach
         /\ InMember => \A m \in DOMAIN pack \cup rest : Src(m) \in Reach
         /\ todo \subseteq Source
         /\ \A p \in todo \cup Dropped : Src(p) \in Reach /\ p \in Path
  <1>1. todo \subseteq Source /\ (Dropped \subseteq Source)
    BY Tables DEF Dropped
  <1>2. Src(box) \in Reach
    BY ArchiveInHand, Sources DEF Reach
  <1>3. InMember => \A m \in DOMAIN pack \cup rest : Src(m) \in Reach
    BY ArchiveInHand, Sources DEF Reach
  <1>4. Src(cur) \in Reach
    <2>1. CASE cur \in Member /\ pc \in {"generate", "finalize"}
      BY <2>1, MemberInHand, Sources DEF Reach
    <2>2. CASE cur \notin Member
      BY <2>2, DocInHand, Sources DEF Reach
    <2>3. CASE cur \in Member /\ pc \notin {"generate", "finalize"}
      BY <2>3, Sources, SourcesApart DEF ScanInv, AtHand, Source
    <2>4. QED
      BY <2>1, <2>2, <2>3
  <1>5. QED
    BY <1>1, <1>2, <1>3, <1>4, Sources DEF Reach

(* A row written within reach.                                              *)
LEMMA PutTouches ==
  ASSUME DocsOK, NEW p \in Path, Src(p) \in Reach, NEW status, NEW hash, NEW sig,
         Put(p, status, hash, sig), UNCHANGED chunks
  PROVE  Touched
  BY PutRow DEF Touched

(* A marker set within reach.                                               *)
LEMMA StampTouches ==
  ASSUME DocsOK, NEW p \in Path, Src(p) \in Reach, NEW hash,
         doc' = [doc EXCEPT ![p].hash = hash], UNCHANGED chunks
  PROVE  Touched
  BY StampRow DEF Touched

(* Chunks retired within reach.                                             *)
LEMMA RetireTouches ==
  ASSUME DocsOK, NEW p \in Path, Src(p) \in Reach, RetireChunks(p), UNCHANGED doc
  PROVE  Touched
  BY RetireRow DEF Touched

(* Chunks replaced within reach.                                            *)
LEMMA ReplaceTouches ==
  ASSUME DocsOK, NEW p \in Path, Src(p) \in Reach, NEW c, UNCHANGED doc,
         chunks' = [chunks EXCEPT ![p] = [of |-> c, deleted |-> FALSE]]
  PROVE  Touched
  BY ReplaceRow DEF Touched

(* A document swept.                                                        *)
LEMMA SweepTouches ==
  ASSUME DocsOK, NEW p \in Path, MarkMissing(p), MarkDocumentDeleted(p)
  PROVE  Touched
  BY DeleteRow DEF Touched

(* A step that commits nothing.                                             *)
LEMMA NothingTouched ==
  ASSUME UNCHANGED <<doc, chunks>>
  PROVE  Touched
  BY DEF Touched

(* A step of the scan goes no further than its reach.                       *)
LEMMA MovesRule ==
  ASSUME ScanInv, UNCHANGED <<scanning, listed, existing>>, clean' \subseteq clean,
         todo' \subseteq todo,
         scanning => seen \subseteq seen', scanning => \A q \in seen' : q \in seen
           \/ Src(q) \in Reach,
         cur' = None \/ Src(cur') \in Reach, box' = None \/ Src(box') \in Reach
  PROVE  Moves
  <1>1. ASSUME NEW p \in Path, p \in todo' \cup (seen' \ seen) \cup {cur', box'},
               scanning
        PROVE  Src(p) \in Reach
    BY <1>1, InReach, Sources
  <1>2. QED
    BY <1>1 DEF Moves

(* Every step of a scan stays within its reach.                             *)
LEMMA MovesStep ==
  ASSUME ScanInv, [Next]_vars
  PROVE  Moves
  <1>1. ASSUME NEW reindex \in BOOLEAN, StartScan(reindex)
        PROVE  Moves
    BY <1>1 DEF Moves
  <1>2. ASSUME NEW p \in Source, WatchChanged(p)
        PROVE  Moves
    BY <1>2, ArchiveInHand, InReach, Sources DEF Moves, NoFault, Fault, WatchChanged,
          StartJob, archive, env, store
  <1>3. ASSUME NEW p \in Source, WatchGone(p)
        PROVE  Moves
    BY <1>3, ArchiveInHand, InReach, Sources DEF Moves, NoFault, Fault, WatchGone,
          StartJob, archive, env
  <1>4. ASSUME NEW p \in Source, WatchIneligible(p)
        PROVE  Moves
    BY <1>4, ArchiveInHand, InReach, Sources DEF Moves, NoFault, Fault, WatchIneligible,
          archive, env
  <1>5. ASSUME NEW p \in Source, PersistSymlinkSkip(p)
        PROVE  Moves
    BY <1>5, ArchiveInHand, InReach, Sources DEF Moves, NoFault, Fault,
          PersistSymlinkSkip, Settle, Account, run, archive, env
  <1>6. ASSUME NEW p \in Source, RetireOversize(p)
        PROVE  Moves
    BY <1>6, ArchiveInHand, InReach, Sources DEF Moves, NoFault, Fault, RetireOversize,
          Settle, Account, run, archive, env
  <1>7. ASSUME PersistSkipRow
        PROVE  Moves
    BY <1>7, DocInHand, InReach, Sources DEF Moves, NoFault, Fault, PersistSkipRow,
          Settle, Account, run, archive, env, Reason
  <1>8. ASSUME NEW p \in Source, SkipUnchanged(p)
        PROVE  Moves
    <2>0. \A m \in Member : m \in Retained(p) => Src(m) = p
      BY <1>8, Sources DEF Retained, MembersOf
    <2>4. Retained(p) \subseteq Member
      BY DEF Retained, MembersOf
    <2>1. /\ UNCHANGED <<scanning, listed, existing>> /\ clean' \subseteq clean
               /\ todo' \subseteq todo
          /\ cur' = None \/ Src(cur') \in Reach
          /\ box' = None \/ Src(box') \in Reach
      BY <1>8, SkipDoes, VisitDoes, InReach
    <2>2. scanning => seen \subseteq seen' /\ \A q \in seen' : q \in seen
            \/ Src(q) \in Reach
      <3>1. Src(p) \in Reach
        BY <1>8, SkipDoes, VisitDoes, InReach
      <3>2. scanning => seen' = seen \/ seen' = seen \cup {p} \cup Retained(p)
        BY <1>8, SkipDoes, VisitDoes
      <3>3. QED
        BY <3>1, <3>2, Sources, <2>0, <2>4
    <2>3. QED
      BY <2>1, <2>2, MovesRule
  <1>9. ASSUME NEW p \in Source, BuildFails(p)
        PROVE  Moves
    <2>1. /\ UNCHANGED <<scanning, listed, existing>> /\ clean' \subseteq clean
               /\ todo' \subseteq todo
          /\ cur' = None \/ Src(cur') \in Reach
          /\ box' = None \/ Src(box') \in Reach
      BY <1>9, BuildFailsDoes, VisitDoes, InReach
    <2>2. scanning => seen \subseteq seen' /\ \A q \in seen' : q \in seen
            \/ Src(q) \in Reach
      <3>1. Src(p) \in Reach
        BY <1>9, BuildFailsDoes, VisitDoes, InReach
      <3>2. scanning => seen' = seen \/ seen' = seen \cup {p}
        BY <1>9, BuildFailsDoes, VisitDoes
      <3>3. QED
        BY <3>1, <3>2, Sources
    <2>3. QED
      BY <2>1, <2>2, MovesRule
  <1>10. ASSUME NEW p \in Source, SizeCapSkip(p)
        PROVE  Moves
    BY ZenonT(60), <1>10, SizeCapDoes, VisitDoes, InReach, Sources DEF Moves, NoFault, Fault
  <1>11. ASSUME NEW p \in Source, BuildFile(p)
        PROVE  Moves
    <2>1. /\ UNCHANGED <<scanning, listed, existing>> /\ clean' \subseteq clean
               /\ todo' \subseteq todo
          /\ cur' = None \/ Src(cur') \in Reach
          /\ box' = None \/ Src(box') \in Reach
      BY <1>11, BuildFileDoes, VisitDoes, InReach
    <2>2. scanning => seen \subseteq seen' /\ \A q \in seen' : q \in seen
            \/ Src(q) \in Reach
      <3>1. Src(p) \in Reach
        BY <1>11, BuildFileDoes, VisitDoes, InReach
      <3>2. scanning => seen' = seen \/ seen' = seen \cup {p}
        BY <1>11, BuildFileDoes, VisitDoes
      <3>3. QED
        BY <3>1, <3>2, Sources
    <2>3. QED
      BY <2>1, <2>2, MovesRule
  <1>12. ASSUME NEW p \in Source, BuildArchive(p)
        PROVE  Moves
    <2>0. \A m \in Member : m \in Retained(p) => Src(m) = p
      BY <1>12, Sources DEF Retained, MembersOf
    <2>4. Retained(p) \subseteq Member
      BY DEF Retained, MembersOf
    <2>1. /\ UNCHANGED <<scanning, listed, existing>> /\ clean' \subseteq clean
               /\ todo' \subseteq todo
          /\ cur' = None \/ Src(cur') \in Reach
          /\ box' = None \/ Src(box') \in Reach
      BY <1>12, BuildArchiveDoes, VisitDoes, InReach
    <2>2. scanning => seen \subseteq seen' /\ \A q \in seen' : q \in seen
            \/ Src(q) \in Reach
      <3>1. Src(p) \in Reach
        BY <1>12, BuildArchiveDoes, VisitDoes, InReach
      <3>2. scanning => seen' = seen \/ seen' = seen \cup {p} \cup Retained(p)
        BY <1>12, BuildArchiveDoes, VisitDoes
      <3>3. QED
        BY <3>1, <3>2, Sources, <2>0, <2>4
    <2>3. QED
      BY <2>1, <2>2, MovesRule
  <1>13. ASSUME GenerateRepresentations
        PROVE  Moves
    BY <1>13, DocInHand, InReach, Sources DEF Moves, NoFault, Fault,
          GenerateRepresentations, run, archive, env
  <1>14. ASSUME GenerationFails
        PROVE  Moves
    BY ZenonT(60), <1>14, GenerationFailsDoes, LeaveDoes, DocInHand, InReach,
           Sources DEF Moves,
          NoFault, Fault
  <1>15. ASSUME GenerationDegrades
        PROVE  Moves
    BY <1>15, DocInHand, InReach, Sources DEF Moves, NoFault, Fault, GenerationDegrades,
          run, archive, env
  <1>16. ASSUME GenerationIncomplete
        PROVE  Moves
    BY ZenonT(60), <1>16, IncompleteDoes, LeaveDoes, DocInHand, InReach,
           Sources DEF Moves, NoFault,
          Fault
  <1>17. ASSUME FinalizeContentHash
        PROVE  Moves
    BY ZenonT(60), <1>17, FinalizeDoes, LeaveDoes, DocInHand, InReach, Sources DEF Moves,
           NoFault,
          Fault
  <1>18. ASSUME ExtractArchiveMembers
        PROVE  Moves
    BY <1>18, ArchiveInHand, InReach, Sources DEF Moves, NoFault, Fault,
          ExtractArchiveMembers, run, store, env
  <1>19. ASSUME ExtractionFails
        PROVE  Moves
    <2>1. /\ UNCHANGED <<scanning, listed, existing>> /\ clean' \subseteq clean
               /\ todo' \subseteq todo
          /\ cur' = None \/ Src(cur') \in Reach
          /\ box' = None \/ Src(box') \in Reach
      BY <1>19, ExtractionFailsDoes, ClosedDoes, ArchiveInHand, InReach
    <2>2. scanning => seen \subseteq seen' /\ \A q \in seen' : q \in seen
            \/ Src(q) \in Reach
      <3>1. Src(box) \in Reach
        BY <1>19, ExtractionFailsDoes, ClosedDoes, ArchiveInHand, InReach
      <3>2. scanning => seen' = seen \/ seen' = seen \cup {box}
        BY <1>19, ExtractionFailsDoes, ClosedDoes, ArchiveInHand
      <3>3. QED
        BY <3>1, <3>2, Sources
    <2>3. QED
      BY <2>1, <2>2, MovesRule
  <1>20. ASSUME NEW m \in Member, IngestMember(m)
        PROVE  Moves
    <2>1. /\ UNCHANGED <<scanning, listed, existing>> /\ clean' \subseteq clean
               /\ todo' \subseteq todo
          /\ cur' = None \/ Src(cur') \in Reach
          /\ box' = None \/ Src(box') \in Reach
      BY <1>20, IngestDoes, ArchiveInHand, InReach
    <2>2. scanning => seen \subseteq seen' /\ \A q \in seen' : q \in seen
            \/ Src(q) \in Reach
      <3>1. Src(m) \in Reach
        BY <1>20, IngestDoes, ArchiveInHand, InReach
      <3>2. scanning => seen' = seen \/ seen' = seen \cup {m}
        BY <1>20, IngestDoes, ArchiveInHand
      <3>3. QED
        BY <3>1, <3>2, Sources
    <2>3. QED
      BY <2>1, <2>2, MovesRule
  <1>21. ASSUME NEW m \in Member, MemberFails(m)
        PROVE  Moves
    BY <1>21, ArchiveInHand, InReach, Sources DEF Moves, NoFault, Fault, MemberFails,
          Account, run, store, env
  <1>22. ASSUME SealArchive
        PROVE  Moves
    <2>1. /\ UNCHANGED <<scanning, listed, existing>> /\ clean' \subseteq clean
               /\ todo' \subseteq todo
          /\ cur' = None \/ Src(cur') \in Reach
          /\ box' = None \/ Src(box') \in Reach
      BY <1>22, SealDoes, ClosedDoes, ArchiveInHand, InReach
    <2>2. scanning => seen \subseteq seen' /\ \A q \in seen' : q \in seen
            \/ Src(q) \in Reach
      <3>1. Src(box) \in Reach
        BY <1>22, SealDoes, ClosedDoes, ArchiveInHand, InReach
      <3>2. scanning => seen' = seen \/ seen' = seen \cup {box}
        BY <1>22, SealDoes, ClosedDoes, ArchiveInHand
      <3>3. QED
        BY <3>1, <3>2, Sources
    <2>3. QED
      BY <2>1, <2>2, MovesRule
  <1>23. ASSUME NEW p \in Path, MarkMissing(p)
        PROVE  Moves
    BY <1>23, MarkMissingDoes, ArchiveInHand, InReach, Sources DEF Moves
  <1>24. ASSUME FinishScan
        PROVE  Moves
    BY <1>24, ArchiveInHand, InReach, Sources DEF Moves, NoFault, Fault, FinishScan,
          Swept, Reset, store, archive, env
  <1>25. ASSUME Crash
        PROVE  Moves
    BY <1>25, InReach, Sources DEF Moves, NoFault, Fault, Crash, Reset, store, env
  <1>26. ASSUME NEW p \in Source, NEW b \in Held, Edit(p, b)
        PROVE  Moves
    <2>1. /\ UNCHANGED <<scanning, listed, existing>> /\ clean' \subseteq clean
               /\ todo' \subseteq todo
          /\ cur' = None \/ Src(cur') \in Reach
          /\ box' = None \/ Src(box') \in Reach
      BY <1>26, ArchiveInHand, InReach DEF Edit, run, archive
    <2>2. scanning => seen \subseteq seen' /\ \A q \in seen' : q \in seen
            \/ Src(q) \in Reach
      <3>1. Src(box) \in Reach
        BY <1>26, ArchiveInHand, InReach
      <3>2. scanning => seen' = seen \/ FALSE
        BY <1>26, ArchiveInHand DEF Edit, run, archive
      <3>3. QED
        BY <3>1, <3>2, Sources
    <2>3. QED
      BY <2>1, <2>2, MovesRule
  <1>27. CASE UNCHANGED vars
    BY <1>27, InReach, MovesRule DEF vars
  <1>28. QED
    BY <1>1, <1>2, <1>3, <1>4, <1>5, <1>6, <1>7, <1>8, <1>9, <1>10, <1>11, <1>12, <1>13,
       <1>14, <1>15, <1>16, <1>17, <1>18, <1>19, <1>20, <1>21, <1>22, <1>23, <1>24,
       <1>25, <1>26, <1>27
       DEF Next, Watch, Work, Source

(* Every step of a scan writes within its reach, or sweeps.                 *)
LEMMA TouchedStep ==
  ASSUME ScanInv, [Next]_vars
  PROVE  Touched
  <1>1. ASSUME NEW reindex \in BOOLEAN, StartScan(reindex)
        PROVE  Touched
    BY <1>1, NothingTouched DEF StartScan, store
  <1>2. ASSUME NEW p \in Source, WatchChanged(p)
        PROVE  Touched
    BY <1>2 DEF WatchChanged, StartJob, Touched
  <1>3. ASSUME NEW p \in Source, WatchGone(p)
        PROVE  Touched
    BY <1>3 DEF WatchGone, StartJob, Touched
  <1>4. ASSUME NEW p \in Source, WatchIneligible(p)
        PROVE  Touched
    BY <1>4 DEF WatchIneligible, StartJob, Touched
  <1>5. ASSUME NEW p \in Source, PersistSymlinkSkip(p)
        PROVE  Touched
    <2>1. p \in Path /\ Src(p) \in Reach /\ DocsOK /\ UNCHANGED chunks
            /\ (UNCHANGED doc \/ Put(p, "link", None, 0))
      BY <1>5, Tables, InReach, SourcesApart DEF PersistSymlinkSkip, run, NoFault, Fault
    <2>2. CASE UNCHANGED doc
      BY <2>1, <2>2, NothingTouched
    <2>3. CASE Put(p, "link", None, 0)
      BY <2>1, <2>3, PutTouches
    <2>4. QED
      BY <2>1, <2>2, <2>3
  <1>6. ASSUME NEW p \in Source, RetireOversize(p)
        PROVE  Touched
    BY <1>6, InReach, SourcesApart, Tables, RetireTouches, NothingTouched
           DEF RetireOversize
  <1>7. ASSUME PersistSkipRow
        PROVE  Touched
    <2>1. cur \in Path /\ Src(cur) \in Reach /\ DocsOK /\ UNCHANGED chunks
            /\ (UNCHANGED doc \/ Put(cur, Reason(cur), None, 0))
      BY <1>7, DocInHand, Tables, InReach, SourcesApart DEF PersistSkipRow
    <2>2. CASE UNCHANGED doc
      BY <2>1, <2>2, NothingTouched
    <2>3. CASE Put(cur, Reason(cur), None, 0)
      BY <2>1, <2>3, PutTouches
    <2>4. QED
      BY <2>1, <2>2, <2>3
  <1>8. ASSUME NEW p \in Source, SkipUnchanged(p)
        PROVE  Touched
    BY <1>8, NothingTouched DEF SkipUnchanged, store
  <1>9. ASSUME NEW p \in Source, BuildFails(p)
        PROVE  Touched
    <2>1. p \in Path /\ Src(p) \in Reach /\ DocsOK /\ UNCHANGED chunks
            /\ (UNCHANGED doc \/ Put(p, "error", None, listed[p].sig))
      BY <1>9, BuildFailsDoes, VisitDoes, Tables, InReach, SourcesApart
    <2>2. CASE UNCHANGED doc
      BY <2>1, <2>2, NothingTouched
    <2>3. CASE Put(p, "error", None, listed[p].sig)
      BY <2>1, <2>3, PutTouches
    <2>4. QED
      BY <2>1, <2>2, <2>3
  <1>10. ASSUME NEW p \in Source, SizeCapSkip(p)
        PROVE  Touched
    BY <1>10, SizeCapDoes, VisitDoes, InReach, Tables, RetireTouches
  <1>11. ASSUME NEW p \in Source, BuildFile(p)
        PROVE  Touched
    <2>1. p \in Path /\ Src(p) \in Reach /\ DocsOK /\ UNCHANGED chunks
            /\ (UNCHANGED doc \/ Put(p, doc'[p].status, doc'[p].hash, listed[p].sig))
      BY <1>11, BuildFileDoes, VisitDoes, Tables, InReach, SourcesApart
    <2>2. CASE UNCHANGED doc
      BY <2>1, <2>2, NothingTouched
    <2>3. CASE Put(p, doc'[p].status, doc'[p].hash, listed[p].sig)
      BY <2>1, <2>3, PutTouches
    <2>4. QED
      BY <2>1, <2>2, <2>3
  <1>12. ASSUME NEW p \in Source, BuildArchive(p)
        PROVE  Touched
    <2>1. p \in Path /\ Src(p) \in Reach /\ DocsOK /\ UNCHANGED chunks
            /\ (UNCHANGED doc \/ Put(p, doc'[p].status, doc'[p].hash, listed[p].sig))
      BY <1>12, BuildArchiveDoes, VisitDoes, Tables, InReach, SourcesApart
    <2>2. CASE UNCHANGED doc
      BY <2>1, <2>2, NothingTouched
    <2>3. CASE Put(p, doc'[p].status, doc'[p].hash, listed[p].sig)
      BY <2>1, <2>3, PutTouches
    <2>4. QED
      BY <2>1, <2>2, <2>3
  <1>13. ASSUME GenerateRepresentations
        PROVE  Touched
    BY <1>13, MemberInHand, InReach, Tables, ReplaceTouches DEF GenerateRepresentations
  <1>14. ASSUME GenerationFails
        PROVE  Touched
    <2>1. cur \in Path /\ Src(cur) \in Reach /\ DocsOK /\ UNCHANGED chunks
            /\ (UNCHANGED doc \/ Put(cur, "error", None, doc[cur].sig))
      BY <1>14, GenerationFailsDoes, MemberInHand, Tables, InReach, SourcesApart
    <2>2. CASE UNCHANGED doc
      BY <2>1, <2>2, NothingTouched
    <2>3. CASE Put(cur, "error", None, doc[cur].sig)
      BY <2>1, <2>3, PutTouches
    <2>4. QED
      BY <2>1, <2>2, <2>3
  <1>15. ASSUME GenerationDegrades
        PROVE  Touched
    <2>1. cur \in Path /\ Src(cur) \in Reach /\ DocsOK /\ UNCHANGED chunks
            /\ (UNCHANGED doc \/ Put(cur, "error", None, doc[cur].sig))
      BY <1>15, MemberInHand, Tables, InReach, SourcesApart DEF GenerationDegrades
    <2>2. CASE UNCHANGED doc
      BY <2>1, <2>2, NothingTouched
    <2>3. CASE Put(cur, "error", None, doc[cur].sig)
      BY <2>1, <2>3, PutTouches
    <2>4. QED
      BY <2>1, <2>2, <2>3
  <1>16. ASSUME GenerationIncomplete
        PROVE  Touched
    BY <1>16, MemberInHand, InReach, Tables, ReplaceTouches DEF GenerationIncomplete
  <1>17. ASSUME FinalizeContentHash
        PROVE  Touched
    <2>1. cur \in Path /\ Src(cur) \in Reach /\ DocsOK /\ UNCHANGED chunks
            /\ (UNCHANGED doc \/ doc' = [doc EXCEPT ![cur].hash = body])
      BY <1>17, FinalizeDoes, MemberInHand, Tables, InReach, SourcesApart
    <2>2. CASE UNCHANGED doc
      BY <2>1, <2>2, NothingTouched
    <2>3. CASE doc' = [doc EXCEPT ![cur].hash = body]
      BY <2>1, <2>3, StampTouches
    <2>4. QED
      BY <2>1, <2>2, <2>3
  <1>18. ASSUME ExtractArchiveMembers
        PROVE  Touched
    BY <1>18, NothingTouched DEF ExtractArchiveMembers, store
  <1>19. ASSUME ExtractionFails
        PROVE  Touched
    <2>1. box \in Path /\ Src(box) \in Reach /\ DocsOK /\ UNCHANGED chunks
            /\ (UNCHANGED doc \/ Put(box, "error", None, doc[box].sig))
      BY <1>19, ExtractionFailsDoes, ClosedDoes, ArchiveInHand, Tables, InReach,
         SourcesApart
    <2>2. CASE UNCHANGED doc
      BY <2>1, <2>2, NothingTouched
    <2>3. CASE Put(box, "error", None, doc[box].sig)
      BY <2>1, <2>3, PutTouches
    <2>4. QED
      BY <2>1, <2>2, <2>3
  <1>20. ASSUME NEW m \in Member, IngestMember(m)
        PROVE  Touched
    <2>1. m \in Path /\ Src(m) \in Reach /\ UNCHANGED chunks
      BY <1>20, IngestDoes, InReach
    <2>2. QED
      BY <1>20, <2>1, IngestDoes DEF Touched
  <1>21. ASSUME NEW m \in Member, MemberFails(m)
        PROVE  Touched
    BY <1>21, NothingTouched DEF MemberFails, store
  <1>22. ASSUME SealArchive
        PROVE  Touched
    <2>1. box \in Path /\ Src(box) \in Reach /\ DocsOK /\ UNCHANGED chunks
            /\ (UNCHANGED doc \/ doc' = [doc EXCEPT ![box].hash = boxBody])
      BY <1>22, SealDoes, ClosedDoes, ArchiveInHand, Tables, InReach, SourcesApart
    <2>2. CASE UNCHANGED doc
      BY <2>1, <2>2, NothingTouched
    <2>3. CASE doc' = [doc EXCEPT ![box].hash = boxBody]
      BY <2>1, <2>3, StampTouches
    <2>4. QED
      BY <2>1, <2>2, <2>3
  <1>23. ASSUME NEW p \in Path, MarkMissing(p)
        PROVE  Touched
    BY <1>23, MarkMissingDoes, Tables, SweepTouches, NothingTouched
  <1>24. ASSUME FinishScan
        PROVE  Touched
    BY <1>24, NothingTouched DEF FinishScan, store
  <1>25. ASSUME Crash
        PROVE  Touched
    BY <1>25, NothingTouched DEF Crash, store
  <1>26. ASSUME NEW p \in Source, NEW b \in Held, Edit(p, b)
        PROVE  Touched
    BY <1>26, NothingTouched DEF Edit, store
  <1>27. CASE UNCHANGED vars
    BY <1>27 DEF vars, Touched
  <1>28. QED
    BY <1>1, <1>2, <1>3, <1>4, <1>5, <1>6, <1>7, <1>8, <1>9, <1>10, <1>11, <1>12, <1>13,
       <1>14, <1>15, <1>16, <1>17, <1>18, <1>19, <1>20, <1>21, <1>22, <1>23, <1>24,
       <1>25, <1>26, <1>27
       DEF Next, Watch, Work, Source

(* What is gone is never reached, and is left to the sweep.                 *)
LEMMA GoneIsLeftStep ==
  ASSUME ScanInv, GoneIsLeft, [Next]_vars
  PROVE  GoneIsLeft'
  <1>1. SUFFICES ASSUME scanning'
                 PROVE  GoneIsLeft'
    BY DEF GoneIsLeft
  <1>2. Moves /\ Touched
    BY MovesStep, TouchedStep
  <1>3. ASSUME NEW reindex \in BOOLEAN, StartScan(reindex)
        PROVE  GoneIsLeft'
    <2>1. /\ cur' = None /\ box' = None /\ seen' = {} /\ existing' = Active
               /\ UNCHANGED doc
          /\ listed' = disk /\ todo' = {p \in Source : disk[p].body \in Ingestible(p)}
      BY <1>3, ArchiveInHand DEF StartScan, store, archive
    <2>2. \A p \in Source : listed'[p].body = Gone => p \notin todo' /\ p # None
      BY <2>1, SourcesApart, Sources
    <2>3. Active' = Active
      BY <2>1, SameActive
    <2>4. QED
      BY <2>1, <2>2, <2>3 DEF GoneIsLeft
  <1>4. CASE ~\E reindex \in BOOLEAN : StartScan(reindex)
    <2>1. /\ scanning /\ UNCHANGED listed /\ clean' \subseteq clean /\ seen
               \subseteq seen'
          /\ \A p \in Path : p \in todo' \cup (seen' \ seen) \cup {cur', box'}
               => Src(p) \in Reach
          /\ UNCHANGED existing \/ \E p \in Path : MarkMissing(p)
      BY <1>1, <1>2, <1>4 DEF Moves
    <2>2. \A p \in Source : listed[p].body = Gone => p \notin Reach \cup seen
      BY <2>1, Contents DEF GoneIsLeft, Reach, Dropped
    <2>3. \A p \in Source : listed'[p].body = Gone
            => p \notin todo' \cup seen' \cup {cur', box'}
      BY <2>1, <2>2, Sources
    <2>4. \A m \in Member \cap seen' : listed'[Of[m]].body # Gone
      <3>1. ASSUME NEW m \in Member, m \in seen'
            PROVE  listed[Of[m]].body # Gone
        <4>1. CASE m \in seen
          BY <2>1, <4>1 DEF GoneIsLeft
        <4>2. CASE m \notin seen
          BY <2>1, <2>2, <3>1, <4>2, Sources, LeafPaths
        <4>3. QED
          BY <4>1, <4>2
      <3>2. QED
        BY <2>1, <3>1
    <2>5. ASSUME NEW p \in Leaf, Src(p) \in clean', listed'[Src(p)].body = Gone,
                 p \in Active'
          PROVE  p \in existing'
      <3>1. p \in Path /\ Src(p) \in Source /\ Src(p) \in clean
              /\ listed[Src(p)].body = Gone
        BY <2>1, <2>5, LeafPaths
      <3>2. Src(p) \notin Reach
        BY <2>2, <3>1
      <3>3. CASE MarkMissing(p)
        <4>1. UNCHANGED clean
          BY <2>5, <3>3, MarkMissingDoes, <3>1
        <4>2. MarkDocumentDeleted(p) \/ clean' = {}
          BY <3>3, MarkMissingDoes, <3>1
        <4>3. doc'[p].deleted \/ doc'[p].status = "none"
          BY <2>5, <3>1, <4>2, DeleteRow, Tables
        <4>4. QED
          BY <2>5, <4>3 DEF Active
      <3>4. CASE ~MarkMissing(p)
        <4>1. p \in Active
          BY <1>1, <1>2, <2>5, <3>1, <3>2, <3>4 DEF Touched, Active
        <4>2. p \in existing
          BY <2>1, <3>1, <4>1 DEF GoneIsLeft
        <4>3. CASE UNCHANGED existing
          BY <4>2, <4>3
        <4>4. ASSUME NEW q \in Path, MarkMissing(q)
              PROVE  p \in existing'
          BY <3>4, <4>2, <4>4, MarkMissingDoes
        <4>5. QED
          BY <2>1, <4>3, <4>4
      <3>5. QED
        BY <3>3, <3>4
    <2>6. QED
      BY <2>1, <2>3, <2>4, <2>5 DEF GoneIsLeft
  <1>5. QED
    BY <1>3, <1>4

(* An archive packs what was ingested from it.                              *)
LEMMA PackedStep ==
  ASSUME ScanInv, Drift = {}, InWork, Packed, [Next]_vars
  PROVE  Packed'
  <1>1. Handling /\ Look /\ Adds /\ Rests
    BY Handles, Looks, AddsStep, RestsStep
  <1>2. ASSUME NEW a \in Archive, disk'[a].body \in Packing, NEW m,
               (m \in MembersOf(a) /\ m \in Active') \/ (box' = a /\ m \in rest')
        PROVE  m \in DOMAIN disk'[a].body
    <2>1. CASE UNCHANGED disk
      <3>1. (m \in MembersOf(a) /\ m \in Active) \/ (box = a /\ m \in rest)
              => m \in DOMAIN disk[a].body
        BY <1>2, <2>1 DEF Packed
      <3>2. CASE m \in MembersOf(a) /\ m \in Active'
        <4>1. m \in Active \/ (m \in rest /\ box = a)
          BY <1>1, <3>2, IngestDoes DEF Adds, MembersOf
        <4>2. QED
          BY <2>1, <3>1, <3>2, <4>1
      <3>3. CASE box' = a /\ m \in rest'
        <4>1. CASE ExtractArchiveMembers
          BY <2>1, <3>3, <4>1 DEF ExtractArchiveMembers
        <4>2. CASE rest' \subseteq rest /\ UNCHANGED box
          BY <2>1, <3>1, <3>3, <4>2
        <4>3. QED
          BY <1>1, <3>3, <4>1, <4>2 DEF Rests
      <3>4. QED
        BY <1>2, <3>2, <3>3
    <2>2. ASSUME NEW p \in Source, NEW b \in Held, Edit(p, b)
          PROVE  m \in DOMAIN disk'[a].body
      <3>1. UNCHANGED <<doc, box, rest>> /\ a \in Source
        BY <2>2, Sources DEF Edit, store, archive, Source
      <3>2. (m \in MembersOf(a) /\ m \in Active) \/ (box = a /\ m \in rest)
        BY <1>2, <3>1 DEF Active
      <3>3. CASE p # a
        BY <1>2, <2>2, <3>1, <3>2, <3>3, EditSignals DEF Packed
      <3>4. CASE p = a
        <4>1. disk'[a].body = b /\ ~Drops(a, b)
          BY <2>2, <3>4, EditSignals DEF Edit, Allowed
        <4>2. QED
          BY <1>2, <3>2, <4>1 DEF Drops
      <3>5. QED
        BY <3>3, <3>4
    <2>3. QED
      BY <1>1, <2>1, <2>2 DEF Look
  <1>3. ASSUME InMember', NEW m \in MembersOf(box'), m \in Active'
        PROVE  m \in DOMAIN pack'
    <2>1. CASE InMember /\ UNCHANGED <<box, boxBody, pack>>
      BY <1>1, <1>3, <2>1, ArchiveInHand, IngestDoes DEF Adds, Packed, MembersOf
    <2>2. CASE ExtractArchiveMembers
      <3>1. /\ box' = box /\ box # None /\ box \in Archive /\ pack' = disk[box].body
            /\ disk[box].body \in Packing /\ UNCHANGED doc
        BY <2>2, ArchiveInHand DEF ExtractArchiveMembers, store
      <3>2. QED
        BY <1>3, <3>1 DEF Packed, Active
    <2>3. QED
      BY <1>1, <1>3, <2>1, <2>2 DEF Handling
  <1>4. ASSUME InMember', disk'[box'].body = boxBody'
        PROVE  pack' = boxBody'
    <2>1. CASE InMember /\ UNCHANGED <<box, boxBody, pack>>
      <3>1. box \in Source /\ boxBody \in Packing /\ pack \in Packing
        BY <2>1, ArchiveInHand
      <3>2. CASE disk'[box] = disk[box]
        BY <1>4, <2>1, <3>2 DEF Packed
      <3>3. ASSUME NEW b \in Held, Edit(box, b)
            PROVE  pack = boxBody
        <4>1. b = boxBody /\ ~Restores(box, b)
          BY <1>4, <2>1, <3>1, <3>3, EditSignals DEF Edit, Allowed
        <4>2. QED
          BY <3>1, <4>1, Contents DEF Restores
      <3>4. disk'[box] = disk[box] \/ \E b \in Held : Edit(box, b)
        BY <1>1, <3>1, EditSignals DEF Look
      <3>5. QED
        BY <2>1, <3>2, <3>3, <3>4
    <2>2. CASE ExtractArchiveMembers
      BY <1>4, <2>2 DEF ExtractArchiveMembers, env
    <2>3. QED
      BY <1>1, <1>4, <2>1, <2>2 DEF Handling
  <1>5. ASSUME NEW a \in Archive, disk'[a].body \in Packing
        PROVE  (MembersOf(a) \cap Active') \cup (IF box' = a THEN rest' ELSE {})
                 \subseteq DOMAIN disk'[a].body
    BY <1>2, <1>5
  <1>6. InMember' => MembersOf(box') \cap Active' \subseteq DOMAIN pack'
    BY <1>3
  <1>7. QED
    BY <1>4, <1>5, <1>6 DEF Packed, MembersOf

(* Nothing is missed by the scan that was not missed before, but what is    *)
(* not there or not done.                                                   *)
Missing ==
  \A p \in Leaf : Missed(p)' => Missed(p) \/ Holds(p)' \notin Indexable
    \/ doc'[p].hash = None

Wakes == \A p \in Dropped : p \in Active' => p \in Active \/ p \in seen'

(* Nothing is missed while the account only grows.                          *)
LEMMA MissedKept ==
  ASSUME ScanInv, UNCHANGED <<scanning, existing, box>>, todo' = todo,
         scanning => seen \subseteq seen'
  PROVE  Missing
  BY LeafPaths DEF Missing, Missed, ScanInv, JobSweeps

(* Only a scan visits a source, or a job that sweeps nothing.               *)
LEMMA VisitMisses ==
  ASSUME ScanInv, NEW p \in Source, Visit(p),
         scanning => seen \subseteq seen',
         NEW q \in Leaf, Missed(q)', ~Missed(q)
  PROVE  scanning /\ q \in existing /\ q \notin seen' /\ q \in Active /\ Src(q) = p
           /\ p # box'
  <1>1. /\ todo' = todo \ {p} /\ p \in todo /\ UNCHANGED <<scanning, existing>>
             /\ box = None
        /\ existing \subseteq Path
    BY VisitDoes, Tables
  <1>2. q \in existing /\ scanning
    BY <1>1 DEF Missed, ScanInv, JobSweeps
  <1>3. q \in Active
    BY <1>2 DEF ScanInv, StillActive
  <1>4. q \notin seen' /\ q \notin seen
    BY <1>2 DEF Missed
  <1>5. Src(q) = p /\ p # box'
    BY <1>1, <1>2, <1>4, LeafPaths, NamesDiffer DEF Missed
  <1>6. QED
    BY <1>2, <1>3, <1>4, <1>5

(* What is gone, a link or over the cap may not be indexed.                 *)
LEMMA GoneHolds ==
  ASSUME NEW p \in Leaf, disk[Src(p)].body \in {Gone, Link, Big}
  PROVE  Holds(p) \notin Indexable
  <1>1. CASE p \in Member
    <2>1. Holds(p) = None
      BY <1>1, Contents, LeafPaths DEF Holds
    <2>2. QED
      BY <2>1, Contents DEF Indexable
  <1>2. CASE p \in File
    BY <1>2, LeafPaths, Contents DEF Holds, Indexable
  <1>3. QED
    BY <1>1, <1>2 DEF Leaf

(* What is at a path is read from the corpus alone.                         *)
LEMMA HoldsHere ==
  ASSUME UNCHANGED disk
  PROVE  \A p \in Leaf : Holds(p)' = Holds(p)
  BY DEF Holds

(* Where an indexable document is, a walk lists its source.                 *)
LEMMA HoldsListed ==
  ASSUME ScanInv, NEW p \in Leaf, Holds(p) \in Indexable
  PROVE  disk[Src(p)].body \in Ingestible(Src(p))
  <1>1. disk[Src(p)].body \in Body(Src(p)) /\ Src(p) \in Source
    BY LeafPaths DEF ScanInv, Bodies
  <1>2. disk[Src(p)].body \notin {Gone, Link, Big}
    BY GoneHolds
  <1>3. QED
    BY <1>1, <1>2 DEF Body

(* No step misses a document that is there and done.                        *)
LEMMA MissingStep ==
  ASSUME ScanInv, Drift = {}, Packed, [Next]_vars
  PROVE  Missing
  <1>1. ASSUME NEW reindex \in BOOLEAN, StartScan(reindex)
        PROVE  Missing
    <2>1. UNCHANGED disk /\ todo' = {p \in Source : disk[p].body \in Ingestible(p)}
      BY <1>1 DEF StartScan, env
    <2>2. QED
      BY <2>1, HoldsHere, HoldsListed, LeafPaths DEF Missing, Missed
  <1>2. ASSUME NEW p \in Source, WatchChanged(p)
        PROVE  Missing
    BY <1>2 DEF WatchChanged, Missing, Missed
  <1>3. ASSUME NEW p \in Source, WatchGone(p)
        PROVE  Missing
    <2>1. UNCHANGED disk /\ disk[p].body = Gone
            /\ existing' \in {{}, MembersOf(p) \cap Active}
      BY <1>3 DEF WatchGone, StartJob, env
    <2>2. QED
      BY <2>1, HoldsHere, GoneHolds, LeafPaths DEF Missing, Missed, MembersOf
  <1>4. ASSUME NEW p \in Source, WatchIneligible(p)
        PROVE  Missing
    BY <1>4 DEF WatchIneligible, Missing, Missed
  <1>5. ASSUME NEW p \in Source, PersistSymlinkSkip(p)
        PROVE  Missing
    BY <1>5, MissedKept DEF PersistSymlinkSkip, Settle, Account, run, archive
  <1>6. ASSUME NEW p \in Source, RetireOversize(p)
        PROVE  Missing
    BY <1>6, MissedKept DEF RetireOversize, Settle, Account, run, archive
  <1>7. ASSUME PersistSkipRow
        PROVE  Missing
    BY <1>7, MissedKept DEF PersistSkipRow, Settle, Account, run, archive
  <1>8. ASSUME NEW p \in Source, SkipUnchanged(p)
        PROVE  Missing
    <2>1. Visit(p) /\ (scanning => seen \subseteq seen') /\ UNCHANGED disk
      BY <1>8, SkipDoes, VisitDoes
    <2>2. ASSUME NEW q \in Leaf, Missed(q)', ~Missed(q)
          PROVE  Holds(q)' \notin Indexable \/ doc'[q].hash = None
      <3>1. scanning /\ q \in existing /\ q \notin seen' /\ q \in Active /\ Src(q) = p
              /\ p # box'
        BY <2>1, <2>2, VisitMisses
      <3>2. Holds(q)' = Holds(q)
        BY <2>1, HoldsHere
      <3>3. q \in {p} \cup Retained(p)
        BY <3>1, LeafPaths, Sources DEF Retained, MembersOf
      <3>4. QED
        BY <1>8, <3>1, <3>3, SkipDoes
    <2>3. QED
      BY <2>2 DEF Missing
  <1>9. ASSUME NEW p \in Source, BuildFails(p)
        PROVE  Missing
    <2>1. Visit(p) /\ (scanning => seen \subseteq seen') /\ UNCHANGED disk
      BY <1>9, BuildFailsDoes, VisitDoes
    <2>2. ASSUME NEW q \in Leaf, Missed(q)', ~Missed(q)
          PROVE  Holds(q)' \notin Indexable \/ doc'[q].hash = None
      <3>1. scanning /\ q \in existing /\ q \notin seen' /\ q \in Active /\ Src(q) = p
              /\ p # box'
        BY <2>1, <2>2, VisitMisses
      <3>2. Holds(q)' = Holds(q)
        BY <2>1, HoldsHere
      <3>3. q # p
        BY <1>9, <3>1, BuildFailsDoes
      <3>4. p \in Archive
        BY <3>1, <3>3, LeafPaths
      <3>5. disk[p].body \in {Gone, Link}
        BY <1>9, <3>4, BuildFailsDoes
      <3>6. QED
        BY <3>1, <3>2, <3>5, GoneHolds
    <2>3. QED
      BY <2>2 DEF Missing
  <1>10. ASSUME NEW p \in Source, SizeCapSkip(p)
        PROVE  Missing
    <2>1. Visit(p) /\ (scanning => seen \subseteq seen') /\ UNCHANGED disk
      BY <1>10, SizeCapDoes, VisitDoes
    <2>2. ASSUME NEW q \in Leaf, Missed(q)', ~Missed(q)
          PROVE  Holds(q)' \notin Indexable \/ doc'[q].hash = None
      <3>1. scanning /\ q \in existing /\ q \notin seen' /\ q \in Active /\ Src(q) = p
              /\ p # box'
        BY <2>1, <2>2, VisitMisses
      <3>2. Holds(q)' = Holds(q)
        BY <2>1, HoldsHere
      <3>3. disk[p].body = Big
        BY <1>10, SizeCapDoes
      <3>4. QED
        BY <3>1, <3>2, <3>3, GoneHolds
    <2>3. QED
      BY <2>2 DEF Missing
  <1>11. ASSUME NEW p \in Source, BuildFile(p)
        PROVE  Missing
    <2>1. Visit(p) /\ (scanning => seen \subseteq seen') /\ UNCHANGED disk
      BY <1>11, BuildFileDoes, VisitDoes
    <2>2. ASSUME NEW q \in Leaf, Missed(q)', ~Missed(q)
          PROVE  Holds(q)' \notin Indexable \/ doc'[q].hash = None
      <3>1. scanning /\ q \in existing /\ q \notin seen' /\ q \in Active /\ Src(q) = p
              /\ p # box'
        BY <2>1, <2>2, VisitMisses
      <3>2. Holds(q)' = Holds(q)
        BY <2>1, HoldsHere
      <3>3. q = p
        BY <1>11, <3>1, LeafPaths, BuildFileDoes
      <3>4. QED
        BY <1>11, <3>1, <3>3, BuildFileDoes
    <2>3. QED
      BY <2>2 DEF Missing
  <1>12. ASSUME NEW p \in Source, BuildArchive(p)
        PROVE  Missing
    <2>1. Visit(p) /\ (scanning => seen \subseteq seen') /\ UNCHANGED disk
      BY <1>12, BuildArchiveDoes, VisitDoes
    <2>2. ASSUME NEW q \in Leaf, Missed(q)', ~Missed(q)
          PROVE  Holds(q)' \notin Indexable \/ doc'[q].hash = None
      <3>1. scanning /\ q \in existing /\ q \notin seen' /\ q \in Active /\ Src(q) = p
              /\ p # box'
        BY <2>1, <2>2, VisitMisses
      <3>2. Holds(q)' = Holds(q)
        BY <2>1, HoldsHere
      <3>3. q \in {p} \cup Retained(p)
        BY <3>1, LeafPaths, Sources DEF Retained, MembersOf
      <3>4. QED
        BY <1>12, <3>1, <3>3, BuildArchiveDoes
    <2>3. QED
      BY <2>2 DEF Missing
  <1>13. ASSUME GenerateRepresentations
        PROVE  Missing
    BY <1>13, MissedKept DEF GenerateRepresentations, run, archive
  <1>14. ASSUME GenerationFails
        PROVE  Missing
    BY <1>14, MissedKept, GenerationFailsDoes, LeaveDoes
  <1>15. ASSUME GenerationDegrades
        PROVE  Missing
    BY <1>15, MissedKept DEF GenerationDegrades, run, archive
  <1>16. ASSUME GenerationIncomplete
        PROVE  Missing
    BY <1>16, MissedKept, IncompleteDoes, LeaveDoes
  <1>17. ASSUME FinalizeContentHash
        PROVE  Missing
    BY <1>17, MissedKept, FinalizeDoes, LeaveDoes
  <1>18. ASSUME ExtractArchiveMembers
        PROVE  Missing
    BY <1>18, MissedKept DEF ExtractArchiveMembers, run
  <1>19. ASSUME ExtractionFails
        PROVE  Missing
    <2>1. /\ UNCHANGED <<scanning, existing, disk>> /\ todo' = todo /\ box' = None
          /\ pc # "scan" /\ seen' = (IF scanning THEN seen \cup {box} ELSE {})
      BY <1>19, ExtractionFailsDoes, ClosedDoes, NamesDiffer DEF InMember
    <2>2. ASSUME NEW q \in Leaf, Missed(q)', ~Missed(q)
          PROVE  Holds(q)' \notin Indexable
      <3>1. scanning /\ q \in existing /\ q \notin seen
        BY <2>1, <2>2 DEF Missed, ScanInv, JobSweeps
      <3>2. Src(q) = box /\ q # box /\ q \in Member
        BY <2>1, <2>2, <3>1, LeafPaths, ArchiveInHand DEF Missed
      <3>3. q \in Active /\ Holds(q)' = Holds(q)
        BY <2>1, <3>1, HoldsHere DEF ScanInv, StillActive
      <3>4. disk[box].body = Gone
        BY <1>19, ExtractionFailsDoes
      <3>5. QED
        BY <3>2, <3>3, <3>4, GoneHolds
    <2>3. QED
      BY <2>2 DEF Missing
  <1>20. ASSUME NEW m \in Member, IngestMember(m)
        PROVE  Missing
    BY <1>20, MissedKept, IngestDoes
  <1>21. ASSUME NEW m \in Member, MemberFails(m)
        PROVE  Missing
    BY <1>21, MissedKept DEF MemberFails, Account, run
  <1>22. ASSUME SealArchive
        PROVE  Missing
    <2>1. /\ UNCHANGED <<scanning, existing, disk>> /\ todo' = todo /\ box' = None
          /\ pc # "scan" /\ seen' = (IF scanning THEN seen \cup {box} ELSE {})
      BY <1>22, SealDoes, ClosedDoes, NamesDiffer DEF InMember
    <2>2. ASSUME NEW q \in Leaf, Missed(q)', ~Missed(q)
          PROVE  Holds(q)' \notin Indexable
      <3>1. scanning /\ q \in existing /\ q \notin seen
        BY <2>1, <2>2 DEF Missed, ScanInv, JobSweeps
      <3>2. Src(q) = box /\ q # box /\ q \in Member
        BY <2>1, <2>2, <3>1, LeafPaths, ArchiveInHand DEF Missed
      <3>3. q \in Active /\ Holds(q)' = Holds(q)
        BY <2>1, <3>1, HoldsHere DEF ScanInv, StillActive
      <3>4. InMember /\ rest = {} /\ cur = None
        BY <1>22, SealDoes, ArchiveInHand DEF InMember
      <3>5. DOMAIN pack \subseteq seen
        BY <3>1, <3>4, ArchiveInHand, NamesDiffer DEF ScanInv, Accounted
      <3>6. q \in DOMAIN pack
        BY <3>2, <3>3, <3>4, Sources DEF Packed, MembersOf
      <3>7. QED
        BY <3>1, <3>5, <3>6
    <2>3. QED
      BY <2>2 DEF Missing
  <1>23. ASSUME NEW p \in Path, MarkMissing(p)
        PROVE  Missing
    BY <1>23, MarkMissingDoes DEF Missing, Missed
  <1>24. ASSUME FinishScan
        PROVE  Missing
    BY <1>24 DEF FinishScan, Missing, Missed, Reset
  <1>25. ASSUME Crash
        PROVE  Missing
    BY <1>25 DEF Crash, Missing, Missed, Reset
  <1>26. ASSUME NEW p \in Source, NEW b \in Held, Edit(p, b)
        PROVE  Missing
    BY <1>26, MissedKept DEF Edit, run, archive
  <1>27. CASE UNCHANGED vars
    BY <1>27 DEF vars, Missing, Missed, Holds
  <1>28. QED
    BY <1>1, <1>2, <1>3, <1>4, <1>5, <1>6, <1>7, <1>8, <1>9, <1>10, <1>11, <1>12, <1>13,
       <1>14, <1>15, <1>16, <1>17, <1>18, <1>19, <1>20, <1>21, <1>22, <1>23, <1>24,
       <1>25, <1>26, <1>27
       DEF Next, Watch, Work, Source

(* A tombstone makes nothing active.                                        *)
LEMMA DeletedActive ==
  ASSUME DocsOK, NEW p \in Path, MarkDocumentDeleted(p)
  PROVE  Active' \subseteq Active
  BY DeleteRow DEF Active

(* No step makes a dropped path active before it is seen.                   *)
LEMMA WakesStep ==
  ASSUME ScanInv, InWork, [Next]_vars
  PROVE  Wakes
  <1>1. ASSUME NEW reindex \in BOOLEAN, StartScan(reindex)
        PROVE  Wakes
    BY <1>1 DEF StartScan, Wakes, Active, store
  <1>2. ASSUME NEW p \in Source, WatchChanged(p)
        PROVE  Wakes
    BY <1>2 DEF WatchChanged, store, Wakes, Active
  <1>3. ASSUME NEW p \in Source, WatchGone(p)
        PROVE  Wakes
    BY <1>3, Tables, DeletedActive, SourcesApart DEF WatchGone, Wakes
  <1>4. ASSUME NEW p \in Source, WatchIneligible(p)
        PROVE  Wakes
    BY <1>4, Tables, DeletedActive, SourcesApart DEF WatchIneligible, Wakes
  <1>5. ASSUME NEW p \in Source, PersistSymlinkSkip(p)
        PROVE  Wakes
    <2>1. scanning /\ p \in seen' /\ (UNCHANGED doc \/ Put(p, "link", None, 0))
      BY <1>5 DEF PersistSymlinkSkip, Settle, Account, Dropped
    <2>2. QED
      BY <2>1, Tables, SourcesApart, PutRow DEF Wakes, Active
  <1>6. ASSUME NEW p \in Source, RetireOversize(p)
        PROVE  Wakes
    BY <1>6 DEF RetireOversize, Wakes, Active
  <1>7. ASSUME PersistSkipRow
        PROVE  Wakes
    <2>1. (scanning => cur \in seen')
            /\ (UNCHANGED doc \/ Put(cur, Reason(cur), None, 0)) /\ cur \in Path
      BY <1>7, DocInHand DEF PersistSkipRow, Settle, Account
    <2>2. QED
      BY <2>1, Tables, SourcesApart, PutRow DEF Wakes, Active, Dropped
  <1>8. ASSUME NEW p \in Source, SkipUnchanged(p)
        PROVE  Wakes
    BY <1>8 DEF SkipUnchanged, Wakes, Active, store
  <1>9. ASSUME NEW p \in Source, BuildFails(p)
        PROVE  Wakes
    BY <1>9, BuildFailsDoes, VisitDoes DEF Wakes
  <1>10. ASSUME NEW p \in Source, SizeCapSkip(p)
        PROVE  Wakes
    BY <1>10 DEF SizeCapSkip, Wakes, Active
  <1>11. ASSUME NEW p \in Source, BuildFile(p)
        PROVE  Wakes
    BY <1>11, BuildFileDoes, VisitDoes DEF Wakes
  <1>12. ASSUME NEW p \in Source, BuildArchive(p)
        PROVE  Wakes
    BY <1>12, BuildArchiveDoes, VisitDoes DEF Wakes
  <1>13. ASSUME GenerateRepresentations
        PROVE  Wakes
    BY <1>13 DEF GenerateRepresentations, Wakes, Active
  <1>14. ASSUME GenerationFails
        PROVE  Wakes
    <2>1. cur \in Active /\ cur \in Path
            /\ (UNCHANGED doc \/ Put(cur, "error", None, doc[cur].sig))
      BY <1>14, DocInHand, GenerationFailsDoes DEF InWork, Active
    <2>2. QED
      BY <2>1, Tables, SourcesApart, PutRow DEF Wakes, Active, Dropped
  <1>15. ASSUME GenerationDegrades
        PROVE  Wakes
    <2>1. cur \in Active /\ cur \in Path
            /\ (UNCHANGED doc \/ Put(cur, "error", None, doc[cur].sig))
      BY <1>15, DocInHand DEF InWork, Active, GenerationDegrades
    <2>2. QED
      BY <2>1, Tables, SourcesApart, PutRow DEF Wakes, Active, Dropped
  <1>16. ASSUME GenerationIncomplete
        PROVE  Wakes
    BY <1>16 DEF GenerationIncomplete, Wakes, Active
  <1>17. ASSUME FinalizeContentHash
        PROVE  Wakes
    <2>1. cur \in Path /\ DocsOK
            /\ (UNCHANGED doc \/ doc' = [doc EXCEPT ![cur].hash = body])
      BY <1>17, DocInHand, FinalizeDoes, Tables
    <2>2. Active' = Active
      BY <2>1, SameActive, MarkerActive
    <2>3. QED
      BY <2>2 DEF Wakes
  <1>18. ASSUME ExtractArchiveMembers
        PROVE  Wakes
    BY <1>18 DEF ExtractArchiveMembers, Wakes, Active, store
  <1>19. ASSUME ExtractionFails
        PROVE  Wakes
    <2>1. box \in Path /\ box \in Archive
            /\ (UNCHANGED doc \/ Put(box, "error", None, doc[box].sig))
      BY <1>19, ArchiveInHand, ExtractionFailsDoes
    <2>2. box \notin Dropped
      BY <2>1, FilesOnly, Tables, NamesDiffer DEF Dropped
    <2>3. QED
      BY <2>1, <2>2, Tables, SourcesApart, PutRow DEF Wakes, Active, Dropped
  <1>20. ASSUME NEW m \in Member, IngestMember(m)
        PROVE  Wakes
    <2>1. \A q \in Source : q # m /\ q \in Path
      BY SourcesApart
    <2>2. QED
      BY <1>20, <2>1, IngestDoes DEF Wakes, Active, Dropped
  <1>21. ASSUME NEW m \in Member, MemberFails(m)
        PROVE  Wakes
    BY <1>21 DEF MemberFails, Wakes, Active, store
  <1>22. ASSUME SealArchive
        PROVE  Wakes
    <2>1. box \in Path /\ DocsOK
            /\ (UNCHANGED doc \/ doc' = [doc EXCEPT ![box].hash = boxBody])
      BY <1>22, ArchiveInHand, SealDoes, Tables
    <2>2. Active' = Active
      BY <2>1, SameActive, MarkerActive
    <2>3. QED
      BY <2>2 DEF Wakes
  <1>23. ASSUME NEW p \in Path, MarkMissing(p)
        PROVE  Wakes
    BY <1>23, MarkMissingDoes DEF Wakes
  <1>24. ASSUME FinishScan
        PROVE  Wakes
    BY <1>24 DEF FinishScan, Wakes, Active, store
  <1>25. ASSUME Crash
        PROVE  Wakes
    BY <1>25 DEF Crash, Wakes, Active, store
  <1>26. ASSUME NEW p \in Source, NEW b \in Held, Edit(p, b)
        PROVE  Wakes
    BY <1>26 DEF Edit, Wakes, Active, store
  <1>27. CASE UNCHANGED vars
    BY <1>27 DEF vars, Wakes, Active
  <1>28. QED
    BY <1>1, <1>2, <1>3, <1>4, <1>5, <1>6, <1>7, <1>8, <1>9, <1>10, <1>11, <1>12, <1>13,
       <1>14, <1>15, <1>16, <1>17, <1>18, <1>19, <1>20, <1>21, <1>22, <1>23, <1>24,
       <1>25, <1>26, <1>27
       DEF Next, Watch, Work, Source

(* A document that is served is not tombstoned by what retires chunks.      *)
LEMMA MarkedRow ==
  ASSUME ScanInv, Rows, NEW p \in Leaf, doc[p].hash = Holds(p), Holds(p) \in Indexable
  PROVE  /\ doc[p].status = "ok" /\ chunks[p].of = Holds(p) /\ chunks[p].of # None
         /\ ~chunks[p].deleted => ~doc[p].deleted /\ p \in Active
  <1>1. Holds(p) # None /\ Holds(p) \notin Refused
    BY Contents DEF Indexable
  <1>2. doc[p].status = "ok" /\ chunks[p].of = Holds(p)
    BY <1>1, Tables, LeafPaths DEF Marked, Marking
  <1>3. QED
    BY <1>1, <1>2, LeafPaths DEF Rows, Bare, Active

(* What the scan dropped and has not settled was served when it began, or   *)
(* is not served.                                                           *)
LEMMA DroppedStep ==
  ASSUME ScanInv, InWork, Gate, [Next]_vars, NEW p \in Dropped', p \in Active'
  PROVE  p \in existing'
  <1>1. scanning' /\ p \in Source /\ p \in Path /\ listed'[p].body \in {Link, Big}
          /\ p \notin seen'
    BY SourcesApart DEF Dropped
  <1>2. Moves /\ Wakes
    BY MovesStep, WakesStep
  <1>3. ASSUME NEW reindex \in BOOLEAN, StartScan(reindex)
        PROVE  p \in existing'
    BY <1>3 DEF StartScan, store, Active
  <1>4. CASE ~\E reindex \in BOOLEAN : StartScan(reindex)
    <2>1. /\ scanning /\ UNCHANGED listed /\ seen \subseteq seen'
          /\ UNCHANGED existing \/ \E q \in Path : MarkMissing(q)
      BY <1>1, <1>2, <1>4 DEF Moves
    <2>2. p \in Dropped
      BY <1>1, <2>1 DEF Dropped
    <2>3. p \in existing
      BY <1>1, <1>2, <2>2 DEF Wakes, Gate
    <2>4. QED
      BY <2>1, <2>2, <2>3, MarkMissingDoes
  <1>5. QED
    BY <1>3, <1>4

(* The hash gate stays safe.                                                *)
LEMMA GateStep ==
  ASSUME ScanInv, Drift = {}, Rows, InWork, Gate, Packed, [Next]_vars
  PROVE  Gate'
  <1>1. Look /\ Hashing /\ Deleting /\ Missing
    BY Looks, HashingStep, DeletingStep, MissingStep
  <1>2. ASSUME NEW p \in Leaf, Holds(p)' \in Indexable, doc'[p].hash = Holds(p)'
        PROVE  ~chunks'[p].deleted /\ ~Missed(p)'
    <2>1. p \in Path /\ p \notin Archive /\ Holds(p)' # None
      BY <1>2, LeafPaths, Contents DEF Indexable
    <2>2. ASSUME NEW q \in Source, NEW b \in Held, Edit(q, b), Src(p) = q
          PROVE  ~chunks'[p].deleted /\ ~Missed(p)'
      <3>1. /\ UNCHANGED <<doc, chunks, existing, seen, todo, box>> /\ disk'[q].body = b
            /\ ~Restores(q, b)
        BY <2>2, EditSignals DEF Edit, Allowed, store, run, archive
      <3>2. ~Out(p)
        <4>1. CASE p \in Member
          <5>1. b \in Packing /\ p \in DOMAIN b /\ Holds(p)' = b[p]
            BY <1>2, <2>1, <2>2, <3>1, <4>1, Sources DEF Holds
          <5>2. QED
            BY <1>2, <3>1, <5>1 DEF Restores
        <4>2. CASE p \in File
          BY <1>2, <2>2, <3>1, <4>2, LeafPaths DEF Holds, Restores
        <4>3. QED
          BY <4>1, <4>2, LeafPaths
      <3>3. QED
        BY <3>1, <3>2 DEF Out, Missed
    <2>3. ASSUME disk'[Src(p)] = disk[Src(p)]
          PROVE  ~chunks'[p].deleted /\ ~Missed(p)'
      <3>1. Holds(p)' = Holds(p)
        BY <2>3, HoldsSame
      <3>2. CASE doc[p].hash = Holds(p)
        <4>1. ~chunks[p].deleted /\ ~Missed(p)
          BY <1>2, <3>1, <3>2 DEF Gate
        <4>2. ~Missed(p)'
          BY <1>1, <1>2, <2>1, <4>1 DEF Missing
        <4>3. p \in Source => p \in File /\ Src(p) = p
          BY <2>1, Sources, SourcesApart
        <4>4. p \in Source => disk[p].body \notin {Gone, Link, Big}
          BY <1>2, <3>1, <4>3, GoneHolds
        <4>5. ~(p \in Source /\ (WatchGone(p) \/ WatchIneligible(p)))
          BY <4>4 DEF WatchGone, WatchIneligible
        <4>6. ~(p \in Source /\ SizeCapSkip(p))
          BY <4>4, SizeCapDoes
        <4>7. ~MarkMissing(p)
          BY <2>1, <4>1, MarkMissingDoes, LeafPaths, Sources DEF Missed
        <4>8. ASSUME p \in Source, RetireOversize(p)
              PROVE  FALSE
          <5>1. p \in Dropped /\ pc = "scan" /\ listed[p].body = Big /\ box = None
            BY <4>8, ArchiveInHand DEF RetireOversize
          <5>2. p \notin todo /\ p \notin seen
            BY <4>8, <5>1, Tables, SourcesApart DEF Bodies, Dropped
          <5>3. p \in Active
            BY <1>2, <3>1, <3>2, <4>1, MarkedRow
          <5>4. p \in existing
            BY <5>1, <5>3 DEF Gate
          <5>5. QED
            BY <2>1, <4>1, <4>3, <4>8, <5>1, <5>2, <5>4, LeafPaths DEF Missed
        <4>9. QED
          BY <1>1, <2>1, <4>1, <4>2, <4>5, <4>6, <4>7, <4>8 DEF Deleting
      <3>3. CASE doc[p].hash # Holds(p)
        <4>1. ~(p \in Source /\ BuildFile(p) /\ disk[p].body \in Refused
                /\ doc'[p].hash = disk[p].body)
          BY <1>2, Contents DEF Indexable
        <4>2. p # box
          BY <2>1, ArchiveInHand, NamesDiffer DEF Source
        <4>3. p = cur /\ FinalizeContentHash /\ doc[p].status = "ok"
          BY <1>1, <1>2, <2>1, <3>1, <3>3, <4>1, <4>2 DEF Hashing
        <4>4. /\ pc = "finalize" /\ UNCHANGED <<chunks, scanning, existing>>
              /\ scanning => p \in seen'
          BY <4>3, FinalizeDoes, LeaveDoes
        <4>5. ~chunks'[p].deleted
          BY <4>3, <4>4 DEF InWork
        <4>6. ~scanning => existing = {}
          BY <4>4 DEF ScanInv, JobSweeps
        <4>7. QED
          BY <4>4, <4>5, <4>6 DEF Missed
      <3>4. QED
        BY <3>2, <3>3
    <2>4. disk'[Src(p)] = disk[Src(p)] \/ \E b \in Held : Edit(Src(p), b)
      BY <1>1, EditSignals, LeafPaths DEF Look
    <2>5. QED
      BY <2>2, <2>3, <2>4, LeafPaths
  <1>3. \A p \in Dropped' : p \in existing' \/ p \notin Active'
    BY DroppedStep
  <1>4. QED
    BY <1>2, <1>3 DEF Gate, Indexable

(* What has been taken from the archive in hand was ingested.               *)
MemberWork ==
  InMember /\ InMember' /\ UNCHANGED <<box, boxBody, pack>> /\ whole' =>
    \A m \in DOMAIN pack \ (rest' \cup {cur'}) : pack[m] \in Indexable
      => Ingested(m, pack[m])'

MemberOk == InMember' /\ cur' # None => doc'[cur'].status = "ok"

CleanWhole == clean' # {} => whole'

(* Members stay ingested while nothing is written.                          *)
LEMMA InMemberDone ==
  ASSUME ScanInv, Sealed, InMember, whole, UNCHANGED doc, rest' = rest, cur' = cur
  PROVE  MemberWork
  BY DEF MemberWork, Sealed, Ingested

(* Without an archive in hand, or with a failed member, nothing is claimed. *)
LEMMA NotInMember ==
  ASSUME ~InMember \/ ~InMember' \/ ~whole'
  PROVE  MemberWork
  BY DEF MemberWork

(* The document in hand is no archive.                                      *)
LEMMA LeafInHand ==
  ASSUME ScanInv
  PROVE  cur \in Leaf \cup {None}
  <1>1. cur # None => pc \in {"generate", "finalize", "refuse"}
    BY DEF ScanInv, AtHand
  <1>2. QED
    BY <1>1, DocInHand DEF Leaf

(* A member that is no longer to be ingested was ingested.                  *)
LEMMA MemberWorkStep ==
  ASSUME ScanInv, Drift = {}, InWork, Sealed, [Next]_vars
  PROVE  MemberWork
  <1>1. ASSUME NEW reindex \in BOOLEAN, StartScan(reindex)
        PROVE  MemberWork
    BY <1>1, ArchiveInHand, ScanInHand, NotInMember DEF StartScan, StartJob
  <1>2. ASSUME NEW p \in Source, WatchChanged(p)
        PROVE  MemberWork
    BY <1>2, ArchiveInHand, ScanInHand, NotInMember DEF WatchChanged, StartJob
  <1>3. ASSUME NEW p \in Source, WatchGone(p)
        PROVE  MemberWork
    BY <1>3, ArchiveInHand, ScanInHand, NotInMember DEF WatchGone, StartJob
  <1>4. ASSUME NEW p \in Source, WatchIneligible(p)
        PROVE  MemberWork
    BY <1>4, ArchiveInHand, ScanInHand, NotInMember DEF WatchIneligible, StartJob
  <1>5. ASSUME NEW p \in Source, PersistSymlinkSkip(p)
        PROVE  MemberWork
    BY <1>5, ArchiveInHand, ScanInHand, NotInMember DEF PersistSymlinkSkip, StartJob
  <1>6. ASSUME NEW p \in Source, RetireOversize(p)
        PROVE  MemberWork
    BY <1>6, ArchiveInHand, ScanInHand, NotInMember DEF RetireOversize, StartJob
  <1>7. ASSUME PersistSkipRow
        PROVE  MemberWork
    BY <1>7, DocInHand, ScanInHand, NotInMember DEF PersistSkipRow
  <1>8. ASSUME NEW p \in Source, SkipUnchanged(p)
        PROVE  MemberWork
    BY <1>8, SkipDoes, VisitDoes, ScanInHand, NotInMember
  <1>9. ASSUME NEW p \in Source, BuildFails(p)
        PROVE  MemberWork
    BY <1>9, BuildFailsDoes, VisitDoes, ScanInHand, NotInMember
  <1>10. ASSUME NEW p \in Source, SizeCapSkip(p)
        PROVE  MemberWork
    BY <1>10, SizeCapDoes, VisitDoes, ScanInHand, NotInMember
  <1>11. ASSUME NEW p \in Source, BuildFile(p)
        PROVE  MemberWork
    BY <1>11, BuildFileDoes, VisitDoes, ScanInHand, NotInMember
  <1>12. ASSUME NEW p \in Source, BuildArchive(p)
        PROVE  MemberWork
    BY <1>12, BuildArchiveDoes, VisitDoes, ScanInHand, NotInMember
  <1>13. ASSUME GenerateRepresentations
        PROVE  MemberWork
    BY <1>13 DEF GenerateRepresentations, archive, MemberWork, Sealed, Ingested
  <1>14. ASSUME GenerationFails
        PROVE  MemberWork
    BY <1>14, GenerationFailsDoes, NotInMember DEF InMember
  <1>15. ASSUME GenerationDegrades
        PROVE  MemberWork
    BY <1>15, NotInMember DEF InMember, GenerationDegrades
  <1>16. ASSUME GenerationIncomplete
        PROVE  MemberWork
    BY <1>16, IncompleteDoes, NotInMember DEF InMember
  <1>17. ASSUME FinalizeContentHash
        PROVE  MemberWork
    <2>1. CASE InMember /\ whole'
      <3>1. /\ cur \in Member /\ cur \in Path /\ DocsOK /\ body = pack[cur]
                 /\ cur # None
            /\ UNCHANGED <<rest, pack>> /\ cur' = None
        BY <1>17, <2>1, FinalizeDoes, LeaveDoes, ArchiveInHand, DocInHand, Tables
               DEF InMember
      <3>2. whole /\ doc' = [doc EXCEPT ![cur].hash = body] /\ doc[cur].status = "ok"
        BY <1>17, <2>1, <3>1, FinalizeDoes DEF Sealed
      <3>3. doc'[cur].status = "ok" /\ doc'[cur].hash = pack[cur]
              /\ \A m \in Path : m # cur => doc'[m] = doc[m]
        BY <3>1, <3>2, StampRow
      <3>4. \A m \in DOMAIN pack : m \in Path
        BY <2>1, ArchiveInHand
      <3>5. QED
        BY <2>1, <3>1, <3>2, <3>3, <3>4 DEF MemberWork, Sealed, Ingested
    <2>2. QED
      BY <2>1, NotInMember
  <1>18. ASSUME ExtractArchiveMembers
        PROVE  MemberWork
    BY <1>18, NotInMember DEF ExtractArchiveMembers, InMember
  <1>19. ASSUME ExtractionFails
        PROVE  MemberWork
    BY <1>19, ExtractionFailsDoes, NotInMember DEF InMember
  <1>20. ASSUME NEW m \in Member, IngestMember(m)
        PROVE  MemberWork
    <2>1. /\ InMember /\ cur = None /\ rest' = rest \ {m} /\ UNCHANGED <<pack, whole>>
               /\ m \in Path
          /\ \A q \in Path : q # m => doc'[q] = doc[q]
      BY <1>20, IngestDoes
    <2>2. \A q \in DOMAIN pack : q \in Path /\ q # None
      BY <2>1, ArchiveInHand, NamesDiffer
    <2>3. ASSUME m # cur', pack[m] \in Indexable
          PROVE  Ingested(m, pack[m])'
      <3>1. Put(m, "ok", pack[m], 0)
        BY <1>20, <2>3, IngestDoes, Contents DEF Indexable
      <3>2. QED
        BY <2>1, <3>1, Tables, PutRow DEF Ingested
    <2>4. ASSUME whole', NEW q \in DOMAIN pack \ (rest' \cup {cur'}),
                 pack[q] \in Indexable
          PROVE  Ingested(q, pack[q])'
      BY <2>1, <2>2, <2>3, <2>4 DEF Sealed, Ingested
    <2>5. QED
      BY <2>4 DEF MemberWork
  <1>21. ASSUME NEW m \in Member, MemberFails(m)
        PROVE  MemberWork
    BY <1>21, NotInMember DEF MemberFails
  <1>22. ASSUME SealArchive
        PROVE  MemberWork
    BY <1>22, SealDoes, ClosedDoes, NotInMember DEF InMember
  <1>23. ASSUME NEW p \in Path, MarkMissing(p)
        PROVE  MemberWork
    BY <1>23, ArchiveInHand, ScanInHand, NotInMember DEF MarkMissing, Swept
  <1>24. ASSUME FinishScan
        PROVE  MemberWork
    BY <1>24, ArchiveInHand, ScanInHand, NotInMember DEF FinishScan, Swept
  <1>25. ASSUME Crash
        PROVE  MemberWork
    BY <1>25, NotInMember DEF Crash, InMember
  <1>26. ASSUME NEW p \in Source, NEW b \in Held, Edit(p, b)
        PROVE  MemberWork
    BY <1>26 DEF Edit, store, archive, MemberWork, Sealed, Ingested
  <1>27. CASE UNCHANGED vars
    BY <1>27 DEF vars, MemberWork, Sealed, Ingested
  <1>28. QED
    BY <1>1, <1>2, <1>3, <1>4, <1>5, <1>6, <1>7, <1>8, <1>9, <1>10, <1>11, <1>12, <1>13,
       <1>14, <1>15, <1>16, <1>17, <1>18, <1>19, <1>20, <1>21, <1>22, <1>23, <1>24,
       <1>25, <1>26, <1>27
       DEF Next, Watch, Work, Source

(* The row of the member in work is ok.                                     *)
LEMMA MemberOkStep ==
  ASSUME ScanInv, Drift = {}, Sealed, [Next]_vars
  PROVE  MemberOk
  <1>1. ASSUME NEW reindex \in BOOLEAN, StartScan(reindex)
        PROVE  MemberOk
    BY <1>1, ArchiveInHand, NamesDiffer DEF StartScan, InMember, MemberOk, Swept, Settle
  <1>2. ASSUME NEW p \in Source, WatchChanged(p)
        PROVE  MemberOk
    BY <1>2, ArchiveInHand, NamesDiffer DEF WatchChanged, InMember, MemberOk, Swept,
           Settle
  <1>3. ASSUME NEW p \in Source, WatchGone(p)
        PROVE  MemberOk
    BY <1>3, ArchiveInHand, NamesDiffer DEF WatchGone, InMember, MemberOk, Swept, Settle
  <1>4. ASSUME NEW p \in Source, WatchIneligible(p)
        PROVE  MemberOk
    BY <1>4, ArchiveInHand, NamesDiffer DEF WatchIneligible, InMember, MemberOk, Swept,
           Settle
  <1>5. ASSUME NEW p \in Source, PersistSymlinkSkip(p)
        PROVE  MemberOk
    BY <1>5, ArchiveInHand, NamesDiffer DEF PersistSymlinkSkip, InMember, MemberOk,
           Swept, Settle
  <1>6. ASSUME NEW p \in Source, RetireOversize(p)
        PROVE  MemberOk
    BY <1>6, ArchiveInHand, NamesDiffer DEF RetireOversize, InMember, MemberOk, Swept,
           Settle
  <1>7. ASSUME PersistSkipRow
        PROVE  MemberOk
    BY <1>7 DEF PersistSkipRow, MemberOk
  <1>8. ASSUME NEW p \in Source, SkipUnchanged(p)
        PROVE  MemberOk
    BY <1>8, SkipDoes, VisitDoes, ScanInHand DEF InMember, MemberOk
  <1>9. ASSUME NEW p \in Source, BuildFails(p)
        PROVE  MemberOk
    BY <1>9, BuildFailsDoes, VisitDoes, ScanInHand DEF InMember, MemberOk
  <1>10. ASSUME NEW p \in Source, SizeCapSkip(p)
        PROVE  MemberOk
    BY <1>10, SizeCapDoes, VisitDoes, ScanInHand DEF InMember, MemberOk
  <1>11. ASSUME NEW p \in Source, BuildFile(p)
        PROVE  MemberOk
    BY <1>11, BuildFileDoes, VisitDoes, NamesDiffer DEF InMember, MemberOk
  <1>12. ASSUME NEW p \in Source, BuildArchive(p)
        PROVE  MemberOk
    BY <1>12, BuildArchiveDoes, VisitDoes, ScanInHand DEF InMember, MemberOk
  <1>13. ASSUME GenerateRepresentations
        PROVE  MemberOk
    BY <1>13 DEF GenerateRepresentations, InMember, MemberOk, Sealed
  <1>14. ASSUME GenerationFails
        PROVE  MemberOk
    BY <1>14, GenerationFailsDoes, LeaveDoes DEF MemberOk
  <1>15. ASSUME GenerationDegrades
        PROVE  MemberOk
    BY <1>15 DEF GenerationDegrades, InMember, MemberOk
  <1>16. ASSUME GenerationIncomplete
        PROVE  MemberOk
    BY <1>16, IncompleteDoes, LeaveDoes DEF MemberOk
  <1>17. ASSUME FinalizeContentHash
        PROVE  MemberOk
    BY <1>17, FinalizeDoes, LeaveDoes DEF MemberOk
  <1>18. ASSUME ExtractArchiveMembers
        PROVE  MemberOk
    BY <1>18, ArchiveInHand DEF ExtractArchiveMembers, MemberOk
  <1>19. ASSUME ExtractionFails
        PROVE  MemberOk
    BY <1>19, ExtractionFailsDoes, ClosedDoes, ArchiveInHand DEF MemberOk
  <1>20. ASSUME NEW m \in Member, IngestMember(m)
        PROVE  MemberOk
    BY <1>20, IngestDoes, Tables, PutRow DEF MemberOk
  <1>21. ASSUME NEW m \in Member, MemberFails(m)
        PROVE  MemberOk
    BY <1>21, ArchiveInHand DEF MemberFails, MemberOk
  <1>22. ASSUME SealArchive
        PROVE  MemberOk
    BY <1>22, SealDoes, ClosedDoes, ArchiveInHand DEF MemberOk
  <1>23. ASSUME NEW p \in Path, MarkMissing(p)
        PROVE  MemberOk
    BY <1>23, ArchiveInHand, NamesDiffer DEF MarkMissing, InMember, MemberOk, Swept,
           Settle
  <1>24. ASSUME FinishScan
        PROVE  MemberOk
    BY <1>24, ArchiveInHand, NamesDiffer DEF FinishScan, InMember, MemberOk, Swept,
           Settle
  <1>25. ASSUME Crash
        PROVE  MemberOk
    BY <1>25, ArchiveInHand, NamesDiffer DEF Crash, InMember, MemberOk, Swept, Settle
  <1>26. ASSUME NEW p \in Source, NEW b \in Held, Edit(p, b)
        PROVE  MemberOk
    BY <1>26 DEF Edit, store, InMember, MemberOk, Sealed
  <1>27. CASE UNCHANGED vars
    BY <1>27 DEF vars, MemberOk, Sealed, InMember
  <1>28. QED
    BY <1>1, <1>2, <1>3, <1>4, <1>5, <1>6, <1>7, <1>8, <1>9, <1>10, <1>11, <1>12, <1>13,
       <1>14, <1>15, <1>16, <1>17, <1>18, <1>19, <1>20, <1>21, <1>22, <1>23, <1>24,
       <1>25, <1>26, <1>27
       DEF Next, Watch, Work, Source

(* A failed member leaves no source clean.                                  *)
LEMMA WholeStep ==
  ASSUME ScanInv, Sealed, [Next]_vars
  PROVE  CleanWhole
  <1>1. ASSUME NEW reindex \in BOOLEAN, StartScan(reindex)
        PROVE  CleanWhole
    BY <1>1, ArchiveInHand, ScanInHand DEF StartScan, StartJob, archive, CleanWhole,
           Swept
  <1>2. ASSUME NEW p \in Source, WatchChanged(p)
        PROVE  CleanWhole
    BY <1>2, ArchiveInHand, ScanInHand DEF WatchChanged, StartJob, archive, CleanWhole,
           Swept
  <1>3. ASSUME NEW p \in Source, WatchGone(p)
        PROVE  CleanWhole
    BY <1>3, ArchiveInHand, ScanInHand DEF WatchGone, StartJob, archive, CleanWhole,
           Swept
  <1>4. ASSUME NEW p \in Source, WatchIneligible(p)
        PROVE  CleanWhole
    BY <1>4, ArchiveInHand, ScanInHand DEF WatchIneligible, StartJob, archive,
           CleanWhole, Swept
  <1>5. ASSUME NEW p \in Source, PersistSymlinkSkip(p)
        PROVE  CleanWhole
    BY <1>5, ArchiveInHand, ScanInHand DEF PersistSymlinkSkip, StartJob, archive,
           CleanWhole, Swept
  <1>6. ASSUME NEW p \in Source, RetireOversize(p)
        PROVE  CleanWhole
    BY <1>6, ArchiveInHand, ScanInHand DEF RetireOversize, StartJob, archive,
           CleanWhole, Swept
  <1>7. ASSUME PersistSkipRow
        PROVE  CleanWhole
    BY <1>7, DocInHand, ScanInHand DEF PersistSkipRow, archive, CleanWhole
  <1>8. ASSUME NEW p \in Source, SkipUnchanged(p)
        PROVE  CleanWhole
    BY <1>8, SkipDoes, VisitDoes, ScanInHand DEF CleanWhole
  <1>9. ASSUME NEW p \in Source, BuildFails(p)
        PROVE  CleanWhole
    BY <1>9, BuildFailsDoes, VisitDoes, ScanInHand DEF CleanWhole
  <1>10. ASSUME NEW p \in Source, SizeCapSkip(p)
        PROVE  CleanWhole
    BY <1>10, SizeCapDoes, VisitDoes, ScanInHand DEF CleanWhole
  <1>11. ASSUME NEW p \in Source, BuildFile(p)
        PROVE  CleanWhole
    BY <1>11, BuildFileDoes, VisitDoes, ScanInHand DEF CleanWhole
  <1>12. ASSUME NEW p \in Source, BuildArchive(p)
        PROVE  CleanWhole
    BY <1>12, BuildArchiveDoes, VisitDoes, ScanInHand DEF CleanWhole
  <1>13. ASSUME GenerateRepresentations
        PROVE  CleanWhole
    BY <1>13 DEF GenerateRepresentations, archive, NoFault, Fault, CleanWhole, Sealed
  <1>14. ASSUME GenerationFails
        PROVE  CleanWhole
    BY <1>14, GenerationFailsDoes DEF CleanWhole
  <1>15. ASSUME GenerationDegrades
        PROVE  CleanWhole
    BY <1>15 DEF GenerationDegrades, archive, NoFault, Fault, CleanWhole, Sealed
  <1>16. ASSUME GenerationIncomplete
        PROVE  CleanWhole
    BY <1>16, IncompleteDoes DEF CleanWhole
  <1>17. ASSUME FinalizeContentHash
        PROVE  CleanWhole
    BY <1>17, FinalizeDoes DEF CleanWhole, Sealed
  <1>18. ASSUME ExtractArchiveMembers
        PROVE  CleanWhole
    BY <1>18 DEF ExtractArchiveMembers, CleanWhole
  <1>19. ASSUME ExtractionFails
        PROVE  CleanWhole
    BY <1>19, ExtractionFailsDoes, ClosedDoes DEF CleanWhole
  <1>20. ASSUME NEW m \in Member, IngestMember(m)
        PROVE  CleanWhole
    BY <1>20, IngestDoes DEF CleanWhole, Sealed
  <1>21. ASSUME NEW m \in Member, MemberFails(m)
        PROVE  CleanWhole
    BY <1>21 DEF MemberFails, archive, NoFault, Fault, CleanWhole, Sealed
  <1>22. ASSUME SealArchive
        PROVE  CleanWhole
    BY <1>22, SealDoes, ClosedDoes DEF CleanWhole
  <1>23. ASSUME NEW p \in Path, MarkMissing(p)
        PROVE  CleanWhole
    BY <1>23, MarkMissingDoes, ScanInHand DEF CleanWhole
  <1>24. ASSUME FinishScan
        PROVE  CleanWhole
    BY <1>24, ArchiveInHand, ScanInHand DEF FinishScan, StartJob, archive, CleanWhole,
           Swept
  <1>25. ASSUME Crash
        PROVE  CleanWhole
    BY <1>25 DEF Crash, CleanWhole
  <1>26. ASSUME NEW p \in Source, NEW b \in Held, Edit(p, b)
        PROVE  CleanWhole
    BY <1>26 DEF Edit, archive, NoFault, Fault, CleanWhole, Sealed
  <1>27. CASE UNCHANGED vars
    BY <1>27 DEF vars, CleanWhole, Sealed
  <1>28. QED
    BY <1>1, <1>2, <1>3, <1>4, <1>5, <1>6, <1>7, <1>8, <1>9, <1>10, <1>11, <1>12, <1>13,
       <1>14, <1>15, <1>16, <1>17, <1>18, <1>19, <1>20, <1>21, <1>22, <1>23, <1>24,
       <1>25, <1>26, <1>27
       DEF Next, Watch, Work, Source

(* A marker on what may be indexed says that the work was done.             *)
LEMMA MarkedMember ==
  ASSUME ScanInv, NEW m \in Member, NEW c \in Indexable, doc[m].hash = c
  PROVE  Ingested(m, c)
  BY Tables, NamesDiffer, Contents DEF Marked, Marking, Indexable, Ingested

(* The members of an archive that is not in hand stay as they are.          *)
LEMMA IngestedKept ==
  ASSUME ScanInv, InWork, [Next]_vars, NEW m \in Member, NEW c, Ingested(m, c),
         doc'[Of[m]].hash # None
  PROVE  Ingested(m, c)'
  BY MemberRowsStep DEF MemberRows, InWork, Ingested

(* What was ingested of the archive in hand stays so.                       *)
LEMMA SealedStep ==
  ASSUME ScanInv, Drift = {}, InWork, Packed, Sealed, [Next]_vars
  PROVE  Sealed'
  <1>1. Look /\ Hashing /\ Handling /\ Rests
    BY Looks, HashingStep, Handles, RestsStep
  <1>2. ASSUME NEW a \in Archive, disk'[a].body \in Packing,
               doc'[a].hash = disk'[a].body,
               NEW m \in DOMAIN disk'[a].body, Holds(m)' \in Indexable
        PROVE  Ingested(m, Holds(m))'
    <2>1. a \in Source /\ a \in Path /\ a \notin Leaf /\ disk'[a].body # None
      BY <1>2, Sources, LeafPaths, Contents DEF Source
    <2>2. m \in Member /\ Of[m] = a /\ Holds(m)' = disk'[a].body[m]
      <3>1. Bodies'
        BY BodiesStep DEF ScanInv
      <3>2. disk'[a].body \in Ingestible(a)
        BY <1>2, <2>1, <3>1, Contents DEF Bodies, Body
      <3>3. m \in Member /\ Of[m] = a
        BY <1>2, <3>2, Contents DEF Ingestible
      <3>4. QED
        BY <1>2, <3>3 DEF Holds
    <2>3. ASSUME NEW b \in Held, Edit(a, b)
          PROVE  Ingested(m, Holds(m))'
      <3>1. UNCHANGED <<doc, box>> /\ disk'[a].body = b /\ ~Restores(a, b)
        BY <2>1, <2>3, EditSignals DEF Edit, Allowed, store, archive
      <3>2. box # a
        BY <1>2, <2>1, <3>1, NamesDiffer DEF InWork
      <3>3. doc[m].hash = Holds(m)'
        BY <1>2, <2>2, <3>1, <3>2 DEF Restores
      <3>4. QED
        BY <1>2, <2>2, <3>1, <3>3, MarkedMember DEF Ingested
    <2>4. ASSUME disk'[a] = disk[a]
          PROVE  Ingested(m, Holds(m))'
      <3>1. Holds(m)' = Holds(m) /\ Holds(m) = disk[a].body[m]
        BY <2>2, <2>4, HoldsSame, LeafPaths
      <3>2. CASE doc[a].hash = disk[a].body
        <4>1. Ingested(m, Holds(m))
          BY <1>2, <2>4, <3>1, <3>2 DEF Sealed
        <4>2. doc'[Of[m]].hash # None
          BY <1>2, <2>1, <2>2
        <4>3. QED
          BY <2>2, <3>1, <4>1, <4>2, IngestedKept DEF Ingested
      <3>3. CASE doc[a].hash # disk[a].body
        <4>1. a # cur
          BY <2>1, LeafInHand, NamesDiffer
        <4>2. ~BuildFile(a)
          BY <2>1, BuildFileDoes, NamesDiffer
        <4>3. a = box /\ SealArchive /\ whole /\ doc'[a].hash = boxBody
          BY <1>1, <1>2, <2>1, <2>4, <3>3, <4>1, <4>2 DEF Hashing
        <4>4. InMember /\ rest = {} /\ cur = None /\ DOMAIN pack \cap {None} = {}
          BY <4>3, SealDoes, ArchiveInHand, NamesDiffer DEF InMember
        <4>5. pack = disk[a].body
          BY <1>2, <2>4, <4>3, <4>4 DEF Packed
        <4>6. Ingested(m, Holds(m))
          BY <1>2, <2>4, <3>1, <4>3, <4>4, <4>5 DEF Sealed
        <4>7. doc'[m] = doc[m]
          BY <2>2, <4>3, SealDoes, ArchiveInHand, Tables, StampRow, NamesDiffer
        <4>8. QED
          BY <3>1, <4>6, <4>7 DEF Ingested
      <3>4. QED
        BY <3>2, <3>3
    <2>5. disk'[a] = disk[a] \/ \E b \in Held : Edit(a, b)
      BY <1>1, <2>1, EditSignals DEF Look
    <2>6. QED
      BY <2>3, <2>4, <2>5
  <1>3. ASSUME InMember', whole', NEW m \in DOMAIN pack' \ (rest' \cup {cur'}),
               pack'[m] \in Indexable
        PROVE  Ingested(m, pack[m])' 
    <2>1. CASE ExtractArchiveMembers
      BY <1>3, <2>1 DEF ExtractArchiveMembers
    <2>2. CASE InMember /\ UNCHANGED <<box, boxBody, pack>>
      BY <1>3, <2>2, MemberWorkStep DEF MemberWork
    <2>3. QED
      BY <1>1, <1>3, <2>1, <2>2 DEF Handling
  <1>4. InMember' /\ cur' # None => doc'[cur'].status = "ok"
    BY MemberOkStep DEF MemberOk
  <1>5. clean' # {} => whole'
    BY WholeStep DEF CleanWhole
  <1>6. QED
    BY <1>2, <1>3, <1>4, <1>5 DEF Sealed

(* What search should serve of a document, and what it serves of one.       *)
LEMMA WantedHolds ==
  ASSUME NEW p \in Leaf
  PROVE  Wanted(p) = IF Holds(p) \in Indexable THEN Holds(p) ELSE None
  <1>1. CASE p \in Member
    BY <1>1, LeafPaths, NamesDiffer, Contents DEF Wanted, Holds, Src, Indexable
  <1>2. CASE p \in File
    BY <1>2, LeafPaths, NamesDiffer DEF Wanted, Holds, Src, Indexable
  <1>3. QED
    BY <1>1, <1>2 DEF Leaf

(* A document without chunks, not active or retired is not served.          *)
LEMMA UnservedRow ==
  ASSUME ScanInv, Rows, NEW p \in Path, Bare(p) \/ p \notin Active \/ chunks[p].deleted
  PROVE  Searchable(p) = None
  BY DEF Searchable, Rows, Bare, Active

(* A document whose hash is that of what is there is served.                *)
LEMMA ServedIfDone ==
  ASSUME ScanInv, Rows, Gate, NEW p \in Leaf, Holds(p) \in Indexable,
         doc[p].hash = Holds(p)
  PROVE  /\ Searchable(p) = Wanted(p) /\ doc[p].status = "ok"
         /\ chunks[p].of = Holds(p) /\ ~chunks[p].deleted
  <1>1. ~chunks[p].deleted
    BY DEF Gate
  <1>2. doc[p].status = "ok" /\ chunks[p].of = Holds(p) /\ ~doc[p].deleted
    BY <1>1, MarkedRow
  <1>3. QED
    BY <1>1, <1>2, WantedHolds DEF Searchable

(* What may not be indexed is neither served nor wanted.                    *)
LEMMA BarredUnserved ==
  ASSUME ScanInv, Rows, Narrow, NEW p \in Leaf, Barred(p)
  PROVE  Searchable(p) = None /\ Wanted(p) = None /\ Bare(p)
  <1>1. Bare(p) /\ p \in Path
    BY LeafPaths DEF Narrow
  <1>2. Holds(p) \notin Indexable
    BY Contents DEF Barred, Indexable
  <1>3. QED
    BY <1>1, <1>2, UnservedRow, WantedHolds

(* A file whose row carries the hash of what is there.                      *)
LEMMA FileServed ==
  ASSUME ScanInv, Rows, Gate, Narrow, NEW p \in File, disk[p].body \in Content,
         doc[p].hash = disk[p].body
  PROVE  Searchable(p) = Wanted(p)
  <1>1. p \in Leaf /\ Holds(p) = disk[p].body
    BY LeafPaths, NamesDiffer DEF Holds
  <1>2. CASE Holds(p) \in Indexable
    BY <1>1, <1>2, ServedIfDone
  <1>3. CASE Holds(p) \notin Indexable
    BY <1>1, <1>3, BarredUnserved DEF Barred, Indexable
  <1>4. QED
    BY <1>2, <1>3

(* A member of an archive that is done.                                     *)
LEMMA MemberServed ==
  ASSUME ScanInv, Rows, Gate, Narrow, Packed, NEW p \in Member,
         disk[Of[p]].body \in Packing,
         p \in DOMAIN disk[Of[p]].body /\ Holds(p) \in Indexable
           => doc[p].hash = Holds(p)
  PROVE  Searchable(p) = Wanted(p)
  <1>1. p \in Leaf /\ p \in Path /\ Of[p] \in Archive
    BY LeafPaths
  <1>2. CASE p \in DOMAIN disk[Of[p]].body /\ Holds(p) \in Indexable
    BY <1>1, <1>2, ServedIfDone
  <1>3. CASE p \in DOMAIN disk[Of[p]].body /\ Holds(p) \notin Indexable
    <2>1. Holds(p) \in Content \cup {Big}
      BY <1>3, Contents DEF Holds
    <2>2. QED
      BY <1>1, <1>3, <2>1, BarredUnserved DEF Barred, Indexable
  <1>4. CASE p \notin DOMAIN disk[Of[p]].body
    <2>1. p \notin Active
      BY <1>1, <1>4 DEF Packed, MembersOf
    <2>2. Holds(p) = None
      BY <1>4 DEF Holds
    <2>3. QED
      BY <1>1, <2>1, <2>2, UnservedRow, WantedHolds
  <1>5. QED
    BY <1>2, <1>3, <1>4

(* A member of an archive that is marked done.                              *)
LEMMA SealedServed ==
  ASSUME ScanInv, Rows, Gate, Narrow, Packed, Sealed, NEW p \in Member,
         disk[Of[p]].body \in Packing, doc[Of[p]].hash = disk[Of[p]].body
  PROVE  Searchable(p) = Wanted(p)
  BY LeafPaths, MemberServed DEF Sealed, Ingested

(* A document that is not written stays served as it is.                    *)
LEMMA SameView ==
  ASSUME UNCHANGED disk, NEW p \in Path, doc'[p] = doc[p], chunks'[p] = chunks[p],
         Searchable(p) = Wanted(p)
  PROVE  Searchable(p)' = Wanted(p)'
  BY DEF Searchable, Wanted

(* A document without chunks serves what is not wanted.                     *)
LEMMA UnservedView ==
  ASSUME UNCHANGED disk, NEW p \in Path, chunks'[p].deleted \/ chunks'[p].of = None,
         Wanted(p) = None
  PROVE  Searchable(p)' = Wanted(p)'
  BY DEF Searchable, Wanted

(* A row written without the chunks changing is served if the chunks are.   *)
LEMMA ServedView ==
  ASSUME UNCHANGED disk, NEW p \in Path, ~doc'[p].deleted, doc'[p].status # "error",
         ~chunks'[p].deleted, chunks'[p].of = Wanted(p)
  PROVE  Searchable(p)' = Wanted(p)'
  BY DEF Searchable, Wanted

Settling ==
  scanning /\ scanning' =>
    \A p \in Leaf : Src(p) \in clean' /\ Src(p) \in seen' =>
      Src(p) \in seen \/ Searchable(p)' = Wanted(p)'

Refusing == scanning' /\ pc' = "refuse" /\ cur' \in clean' => listed'[cur'].body = Big

(* Nothing settles while nothing is seen.                                   *)
LEMMA SettlingSame ==
  ASSUME scanning /\ scanning' => seen' = seen
  PROVE  Settling
  BY DEF Settling

(* Nothing is claimed of sources that are not clean.                        *)
LEMMA SettlingFailed ==
  ASSUME clean' = {}
  PROVE  Settling
  BY DEF Settling

(* A member that is seen settles no source.                                 *)
LEMMA SettlingMember ==
  ASSUME NEW m \in Member, scanning /\ scanning' => seen' \subseteq seen \cup {m}
  PROVE  Settling
  BY LeafPaths, SourcesApart DEF Settling

(* One source settles at a time.                                            *)
LEMMA SettlingOne ==
  ASSUME NEW q \in Source, UNCHANGED clean,
         scanning => \A r \in Source : r \in seen' => r \in seen \/ r = q,
         scanning /\ q \in clean =>
            \A p \in Leaf : Src(p) = q => Searchable(p)' = Wanted(p)'
  PROVE  Settling
  BY LeafPaths DEF Settling

(* A source that is seen is served as it is.                                *)
LEMMA SettlingStep ==
  ASSUME ScanInv, Drift = {}, Rows, InWork, Signed, Narrow, Gate, Packed, Sealed,
         GoneIsLeft, Settled, [Next]_vars
  PROVE  Settling
  <1>1. ASSUME NEW reindex \in BOOLEAN, StartScan(reindex)
        PROVE  Settling
    BY <1>1 DEF StartScan, StartJob, Reset, run, Settling
  <1>2. ASSUME NEW p \in Source, WatchChanged(p)
        PROVE  Settling
    BY <1>2 DEF WatchChanged, StartJob, Reset, run, Settling
  <1>3. ASSUME NEW p \in Source, WatchGone(p)
        PROVE  Settling
    BY <1>3 DEF WatchGone, StartJob, Reset, run, Settling
  <1>4. ASSUME NEW p \in Source, WatchIneligible(p)
        PROVE  Settling
    BY <1>4 DEF WatchIneligible, StartJob, Reset, run, Settling
  <1>5. ASSUME NEW p \in Source, PersistSymlinkSkip(p)
        PROVE  Settling
    <2>1. CASE clean' = {}
      BY <2>1, SettlingFailed
    <2>2. CASE clean' # {}
      <3>1. /\ p \in Dropped /\ listed[p].body = Link
                 /\ UNCHANGED <<chunks, disk, clean>>
            /\ scanning => seen' = seen \cup {p}
        BY <1>5, <2>2 DEF PersistSymlinkSkip, Settle, Account, env, Fault, NoFault
      <3>2. p \in File /\ p \in Leaf /\ p \in Path
        BY <3>1, FilesOnly, Tables, LeafPaths
      <3>3. ASSUME scanning, p \in clean
            PROVE  Searchable(p)' = Wanted(p)'
        <4>1. disk[p].body = Link
          BY <3>1, <3>3 DEF ScanInv, Steady
        <4>2. Barred(p)
          BY <3>2, <4>1, LeafPaths DEF Barred, Holds
        <4>3. QED
          BY <3>1, <3>2, <4>2, BarredUnserved, UnservedView DEF Bare
      <3>4. \A q \in Leaf : Src(q) = p => q = p
        BY <3>2, LeafPaths, NamesDiffer
      <3>5. QED
        BY <3>1, <3>3, <3>4, SettlingOne
    <2>3. QED
      BY <2>1, <2>2
  <1>6. ASSUME NEW p \in Source, RetireOversize(p)
        PROVE  Settling
    BY <1>6, SettlingSame, SettlingFailed DEF RetireOversize, Fault
  <1>7. ASSUME PersistSkipRow
        PROVE  Settling
    <2>1. CASE clean' = {}
      BY <2>1, SettlingFailed
    <2>2. CASE clean' # {}
      <3>1. /\ pc = "refuse" /\ UNCHANGED <<chunks, disk, clean>>
            /\ scanning => seen' = seen \cup {cur}
        BY <1>7, <2>2 DEF PersistSkipRow, Settle, Account, env, Fault, NoFault
      <3>2. cur \in File /\ cur \in Leaf /\ cur \in Path /\ cur \in Source
        BY <3>1, DocInHand, LeafPaths
      <3>3. ASSUME NEW p \in Leaf, Src(p) = cur, scanning, cur \in clean
            PROVE  Searchable(p)' = Wanted(p)'
        <4>1. p = cur /\ p \in File /\ p \in Path
          BY <3>2, <3>3, LeafPaths, NamesDiffer
        <4>2. disk[p].body = Big
          BY <3>1, <3>2, <3>3, <4>1 DEF ScanInv, Steady, Settled
        <4>3. Wanted(p) = None
          BY <3>3, <4>1, <4>2, LeafPaths, GoneHolds, WantedHolds
        <4>4. chunks[p].deleted \/ Bare(p)
          BY <3>1, <4>1 DEF InWork
        <4>5. QED
          BY <3>1, <4>1, <4>3, <4>4, UnservedView DEF Bare
      <3>4. QED
        BY <3>1, <3>2, <3>3, SettlingOne
    <2>3. QED
      BY <2>1, <2>2
  <1>8. ASSUME NEW p \in Source, SkipUnchanged(p)
        PROVE  Settling
    <2>1. UNCHANGED <<disk, chunks, clean>> /\ p \in Path /\ Visit(p)
      BY <1>8, SkipDoes, VisitDoes
    <2>2. scanning => \A r \in Source : r \in seen' => r \in seen \/ r = p
      BY <1>8, <2>1, SkipDoes, SourcesApart DEF Retained, MembersOf
    <2>3. ASSUME scanning, p \in clean, NEW q \in Leaf, Src(q) = p
          PROVE  Searchable(q)' = Wanted(q)'
      <3>1. disk[p].body \in Ingestible(p) /\ disk[p] = listed[p]
        BY <2>1, <2>3, VisitDoes
      <3>2. doc[p].hash = disk[p].body
        BY <1>8, <3>1, SkipDoes DEF SignalUnchanged, Signed
      <3>3. Searchable(q) = Wanted(q)
        BY <2>3, <3>1, <3>2, FileServed, SealedServed, LeafPaths, SourcesApart
      <3>4. doc'[q] = doc[q] /\ q \in Path
        BY <1>8, SkipDoes, LeafPaths
      <3>5. QED
        BY <2>1, <3>3, <3>4, SameView
    <2>4. QED
      BY <2>1, <2>2, <2>3, SettlingOne
  <1>9. ASSUME NEW p \in Source, BuildFails(p)
        PROVE  Settling
    <2>1. CASE clean' = {}
      BY <2>1, SettlingFailed
    <2>2. CASE clean' # {}
      <3>1. /\ UNCHANGED clean /\ disk[p].body \in {Gone, Link} /\ Visit(p)
            /\ scanning => seen' = seen \cup {p}
        BY <1>9, <2>2, BuildFailsDoes
      <3>2. ~(scanning /\ p \in clean)
        BY <3>1, VisitDoes, SourcesApart
      <3>3. QED
        BY <3>1, <3>2, SettlingOne
    <2>3. QED
      BY <2>1, <2>2
  <1>10. ASSUME NEW p \in Source, SizeCapSkip(p)
        PROVE  Settling
    BY <1>10, SizeCapDoes, SettlingSame
  <1>11. ASSUME NEW p \in Source, BuildFile(p)
        PROVE  Settling
    <2>1. /\ UNCHANGED <<disk, chunks, clean>> /\ p \in Path /\ p \in File
               /\ disk[p].body \in Content
          /\ p \in Leaf /\ Src(p) = p /\ Holds(p) = disk[p].body
      BY <1>11, BuildFileDoes, VisitDoes, LeafPaths, NamesDiffer DEF Holds
    <2>2. CASE UNCHANGED seen
      BY <2>2, SettlingSame
    <2>3. CASE ~UNCHANGED seen
      <3>1. /\ scanning => seen' = seen \cup {p}
            /\ disk[p].body \in Refused \/ doc[p].hash = disk[p].body
            /\ doc'[p].status # "error" /\ ~doc'[p].deleted
        BY <1>11, <2>3, BuildFileDoes
      <3>2. CASE disk[p].body \in Refused
        <4>1. Bare(p) /\ Wanted(p) = None
          BY <2>1, <3>2, BarredUnserved DEF Barred
        <4>2. Searchable(p)' = Wanted(p)'
          BY <2>1, <4>1, UnservedView DEF Bare
        <4>3. QED
          BY <2>1, <3>1, <4>2, LeafPaths, NamesDiffer, SettlingOne
      <3>3. CASE disk[p].body \notin Refused
        <4>1. Holds(p) \in Indexable /\ doc[p].hash = Holds(p)
          BY <2>1, <3>1, <3>3 DEF Indexable
        <4>2. chunks[p].of = Wanted(p) /\ ~chunks[p].deleted
          BY <2>1, <4>1, ServedIfDone, WantedHolds
        <4>3. Searchable(p)' = Wanted(p)'
          BY <2>1, <3>1, <4>2, ServedView
        <4>4. QED
          BY <2>1, <3>1, <4>3, LeafPaths, NamesDiffer, SettlingOne
      <3>4. QED
        BY <3>2, <3>3
    <2>4. QED
      BY <2>2, <2>3
  <1>12. ASSUME NEW p \in Source, BuildArchive(p)
        PROVE  Settling
    <2>1. UNCHANGED <<disk, chunks, clean>> /\ p \in Path /\ p \in Archive
            /\ disk[p].body \in Packing
      BY <1>12, BuildArchiveDoes, VisitDoes
    <2>2. CASE UNCHANGED seen
      BY <2>2, SettlingSame
    <2>3. CASE ~UNCHANGED seen
      <3>1. doc[p].hash = disk[p].body /\ \A q \in Path : q # p => doc'[q] = doc[q]
        BY <1>12, <2>3, BuildArchiveDoes
      <3>2. scanning => \A r \in Source : r \in seen' => r \in seen \/ r = p
        BY <1>12, BuildArchiveDoes, SourcesApart DEF Retained, MembersOf
      <3>3. ASSUME NEW q \in Leaf, Src(q) = p
            PROVE  Searchable(q)' = Wanted(q)'
        <4>1. q \in Member /\ Of[q] = p /\ q \in Path /\ q # p
          BY <2>1, <3>3, LeafPaths, NamesDiffer
        <4>2. Searchable(q) = Wanted(q)
          BY <2>1, <3>1, <4>1, SealedServed
        <4>3. QED
          BY <2>1, <3>1, <4>1, <4>2, SameView
      <3>4. QED
        BY <2>1, <3>2, <3>3, SettlingOne
    <2>4. QED
      BY <2>2, <2>3
  <1>13. ASSUME GenerateRepresentations
        PROVE  Settling
    BY <1>13, SettlingSame DEF GenerateRepresentations
  <1>14. ASSUME GenerationFails
        PROVE  Settling
    BY <1>14, GenerationFailsDoes, SettlingFailed
  <1>15. ASSUME GenerationDegrades
        PROVE  Settling
    BY <1>15, SettlingSame DEF GenerationDegrades
  <1>16. ASSUME GenerationIncomplete
        PROVE  Settling
    BY <1>16, IncompleteDoes, SettlingFailed
  <1>17. ASSUME FinalizeContentHash
        PROVE  Settling
    <2>1. CASE clean' = {}
      BY <2>1, SettlingFailed
    <2>2. CASE cur \in Member
      BY <1>17, <2>2, FinalizeDoes, LeaveDoes, SettlingMember
    <2>3. CASE clean' # {} /\ cur \notin Member
      <3>1. /\ pc = "finalize" /\ UNCHANGED <<chunks, disk, clean>> /\ DocsOK
            /\ scanning => seen' = seen \cup {cur}
            /\ cur \in Source /\ cur \in File /\ cur \in Path /\ body \in Content
        BY <1>17, <2>3, FinalizeDoes, LeaveDoes, DocInHand, Tables
      <3>2. ASSUME scanning, cur \in clean, NEW p \in Leaf, Src(p) = cur
            PROVE  Searchable(p)' = Wanted(p)'
        <4>1. p = cur /\ p \in File /\ p \in Path /\ Holds(p) = disk[p].body
          BY <3>1, <3>2, LeafPaths, NamesDiffer DEF Holds
        <4>2. /\ doc[p].status = "ok" /\ ~doc[p].deleted /\ body = disk[p].body
              /\ ~chunks[p].deleted
          BY <3>1, <3>2, <4>1 DEF InWork
        <4>3. chunks[p].of = Holds(p) /\ Holds(p) \in Content
          BY <3>1, <4>1, <4>2 DEF ScanInv, IngestInv, Stage
        <4>4. ~Barred(p)
          BY <3>2, <4>3, Contents DEF Narrow, Bare
        <4>5. chunks[p].of = Wanted(p)
          BY <3>2, <4>3, <4>4, WantedHolds DEF Barred, Indexable
        <4>6. doc'[p].status = "ok" /\ ~doc'[p].deleted
          BY <1>17, <3>1, <4>1, <4>2, <2>3, FinalizeDoes, StampRow
        <4>7. QED
          BY <3>1, <4>1, <4>2, <4>5, <4>6, ServedView
      <3>3. QED
        BY <3>1, <3>2, SettlingOne
    <2>4. QED
      BY <2>1, <2>2, <2>3
  <1>18. ASSUME ExtractArchiveMembers
        PROVE  Settling
    BY <1>18, SettlingSame DEF ExtractArchiveMembers
  <1>19. ASSUME ExtractionFails
        PROVE  Settling
    <2>1. UNCHANGED clean /\ disk[box].body = Gone /\ box \in Source
          /\ (scanning => seen' = seen \cup {box})
      BY <1>19, ExtractionFailsDoes, ClosedDoes, ArchiveInHand
    <2>2. ~(scanning /\ box \in clean)
      BY <2>1 DEF ScanInv, Steady, GoneIsLeft
    <2>3. QED
      BY <2>1, <2>2, SettlingOne
  <1>20. ASSUME NEW m \in Member, IngestMember(m)
        PROVE  Settling
    BY <1>20, IngestDoes, SettlingMember
  <1>21. ASSUME NEW m \in Member, MemberFails(m)
        PROVE  Settling
    BY <1>21, SettlingFailed DEF MemberFails, Fault
  <1>22. ASSUME SealArchive
        PROVE  Settling
    <2>1. CASE clean' = {}
      BY <2>1, SettlingFailed
    <2>2. CASE clean' # {}
      <3>1. /\ pc = "members" /\ rest = {} /\ UNCHANGED <<chunks, disk, clean>>
                 /\ DocsOK
            /\ scanning => seen' = seen \cup {box}
            /\ box \in Source /\ box \in Archive /\ box \in Path /\ InMember
                 /\ pack \in Packing /\ cur = None
            /\ UNCHANGED doc \/ doc' = [doc EXCEPT ![box].hash = boxBody]
        BY <1>22, <2>2, SealDoes, ClosedDoes, ArchiveInHand, Tables DEF InMember
      <3>2. ASSUME scanning, box \in clean, NEW p \in Leaf, Src(p) = box
            PROVE  Searchable(p)' = Wanted(p)'
        <4>1. p \in Member /\ Of[p] = box /\ p \in Path /\ p # box /\ p # None
          BY <3>1, <3>2, LeafPaths, NamesDiffer
        <4>2. pack = disk[box].body
          BY <3>1, <3>2 DEF ScanInv, Steady
        <4>3. whole
          BY <3>2 DEF Sealed
        <4>4. p \in DOMAIN pack /\ Holds(p) \in Indexable => doc[p].hash = Holds(p)
          BY <3>1, <4>1, <4>2, <4>3 DEF Sealed, Ingested, Holds
        <4>5. Searchable(p) = Wanted(p)
          BY <3>1, <4>1, <4>2, <4>4, MemberServed
        <4>6. doc'[p] = doc[p]
          BY <3>1, <4>1, StampRow
        <4>7. QED
          BY <3>1, <4>1, <4>5, <4>6, SameView
      <3>3. QED
        BY <3>1, <3>2, SettlingOne
    <2>3. QED
      BY <2>1, <2>2
  <1>23. ASSUME NEW p \in Path, MarkMissing(p)
        PROVE  Settling
    BY <1>23, MarkMissingDoes, SettlingSame
  <1>24. ASSUME FinishScan
        PROVE  Settling
    BY <1>24 DEF FinishScan, StartJob, Reset, run, Settling
  <1>25. ASSUME Crash
        PROVE  Settling
    BY <1>25 DEF Crash, StartJob, Reset, run, Settling
  <1>26. ASSUME NEW p \in Source, NEW b \in Held, Edit(p, b)
        PROVE  Settling
    BY <1>26 DEF Edit, StartJob, Reset, run, Settling
  <1>27. CASE UNCHANGED vars
    BY <1>27 DEF vars, Settling
  <1>28. QED
    BY <1>1, <1>2, <1>3, <1>4, <1>5, <1>6, <1>7, <1>8, <1>9, <1>10, <1>11, <1>12, <1>13,
       <1>14, <1>15, <1>16, <1>17, <1>18, <1>19, <1>20, <1>21, <1>22, <1>23, <1>24,
       <1>25, <1>26, <1>27
       DEF Next, Watch, Work, Source

(* A clean file is refused for its size only if it was listed so.           *)
LEMMA RefusingStep ==
  ASSUME ScanInv, Settled, [Next]_vars
  PROVE  Refusing
  <1>1. ASSUME NEW reindex \in BOOLEAN, StartScan(reindex)
        PROVE  Refusing
    BY <1>1 DEF StartScan, StartJob, Settle, Refusing
  <1>2. ASSUME NEW p \in Source, WatchChanged(p)
        PROVE  Refusing
    BY <1>2 DEF WatchChanged, StartJob, Settle, Refusing
  <1>3. ASSUME NEW p \in Source, WatchGone(p)
        PROVE  Refusing
    BY <1>3 DEF WatchGone, StartJob, Settle, Refusing
  <1>4. ASSUME NEW p \in Source, WatchIneligible(p)
        PROVE  Refusing
    BY <1>4 DEF WatchIneligible, StartJob, Settle, Refusing
  <1>5. ASSUME NEW p \in Source, PersistSymlinkSkip(p)
        PROVE  Refusing
    BY <1>5 DEF PersistSymlinkSkip, StartJob, Settle, Refusing
  <1>6. ASSUME NEW p \in Source, RetireOversize(p)
        PROVE  Refusing
    BY <1>6 DEF RetireOversize, Settle, run, Refusing
  <1>7. ASSUME PersistSkipRow
        PROVE  Refusing
    BY <1>7 DEF PersistSkipRow, StartJob, Settle, Refusing
  <1>8. ASSUME NEW p \in Source, SkipUnchanged(p)
        PROVE  Refusing
    BY <1>8, SkipDoes, LeaveDoes DEF Refusing
  <1>9. ASSUME NEW p \in Source, BuildFails(p)
        PROVE  Refusing
    BY <1>9, BuildFailsDoes, LeaveDoes DEF Refusing
  <1>10. ASSUME NEW p \in Source, SizeCapSkip(p)
        PROVE  Refusing
    BY <1>10, SizeCapDoes, VisitDoes, SourcesApart DEF Refusing
  <1>11. ASSUME NEW p \in Source, BuildFile(p)
        PROVE  Refusing
    BY <1>11, BuildFileDoes, LeaveDoes DEF Refusing
  <1>12. ASSUME NEW p \in Source, BuildArchive(p)
        PROVE  Refusing
    BY <1>12, BuildArchiveDoes, LeaveDoes DEF Refusing
  <1>13. ASSUME GenerateRepresentations
        PROVE  Refusing
    BY <1>13 DEF GenerateRepresentations, StartJob, Settle, Refusing
  <1>14. ASSUME GenerationFails
        PROVE  Refusing
    BY <1>14, GenerationFailsDoes, LeaveDoes DEF Refusing
  <1>15. ASSUME GenerationDegrades
        PROVE  Refusing
    BY <1>15 DEF GenerationDegrades, StartJob, Settle, Refusing
  <1>16. ASSUME GenerationIncomplete
        PROVE  Refusing
    BY <1>16, IncompleteDoes, LeaveDoes DEF Refusing
  <1>17. ASSUME FinalizeContentHash
        PROVE  Refusing
    BY <1>17, FinalizeDoes, LeaveDoes DEF Refusing
  <1>18. ASSUME ExtractArchiveMembers
        PROVE  Refusing
    BY <1>18 DEF ExtractArchiveMembers, StartJob, Settle, Refusing
  <1>19. ASSUME ExtractionFails
        PROVE  Refusing
    BY <1>19, ExtractionFailsDoes, ClosedDoes DEF Refusing
  <1>20. ASSUME NEW m \in Member, IngestMember(m)
        PROVE  Refusing
    BY <1>20, IngestDoes DEF Refusing
  <1>21. ASSUME NEW m \in Member, MemberFails(m)
        PROVE  Refusing
    BY <1>21 DEF MemberFails, Refusing
  <1>22. ASSUME SealArchive
        PROVE  Refusing
    BY <1>22, SealDoes, ClosedDoes DEF Refusing
  <1>23. ASSUME NEW p \in Path, MarkMissing(p)
        PROVE  Refusing
    BY <1>23, MarkMissingDoes DEF Refusing
  <1>24. ASSUME FinishScan
        PROVE  Refusing
    BY <1>24 DEF FinishScan, StartJob, Settle, Refusing
  <1>25. ASSUME Crash
        PROVE  Refusing
    BY <1>25 DEF Crash, StartJob, Settle, Refusing
  <1>26. ASSUME NEW p \in Source, NEW b \in Held, Edit(p, b)
        PROVE  Refusing
    BY <1>26 DEF Edit, run, Refusing, Settled
  <1>27. CASE UNCHANGED vars
    BY <1>27 DEF vars, Refusing, Settled
  <1>28. QED
    BY <1>1, <1>2, <1>3, <1>4, <1>5, <1>6, <1>7, <1>8, <1>9, <1>10, <1>11, <1>12, <1>13,
       <1>14, <1>15, <1>16, <1>17, <1>18, <1>19, <1>20, <1>21, <1>22, <1>23, <1>24,
       <1>25, <1>26, <1>27
       DEF Next, Watch, Work, Source

(* Only the end of a scan leads to its report, and only edits follow on it. *)
Done ==
  pc' = "done" => \/ FinishScan
                  \/ UNCHANGED vars /\ pc = "done"
                  \/ pc = "done" /\ \E q \in Source, b \in Held : Edit(q, b)

(* A scan is reported by its end alone.                                     *)
LEMMA DoneStep ==
  ASSUME ScanInv, [Next]_vars
  PROVE  Done
  <1>1. ASSUME NEW reindex \in BOOLEAN, StartScan(reindex)
        PROVE  Done
    BY <1>1 DEF StartScan, StartJob, Settle, Done
  <1>2. ASSUME NEW p \in Source, WatchChanged(p)
        PROVE  Done
    BY <1>2 DEF WatchChanged, StartJob, Settle, Done
  <1>3. ASSUME NEW p \in Source, WatchGone(p)
        PROVE  Done
    BY <1>3 DEF WatchGone, StartJob, Settle, Done
  <1>4. ASSUME NEW p \in Source, WatchIneligible(p)
        PROVE  Done
    BY <1>4 DEF WatchIneligible, StartJob, Settle, Done
  <1>5. ASSUME NEW p \in Source, PersistSymlinkSkip(p)
        PROVE  Done
    BY <1>5 DEF PersistSymlinkSkip, StartJob, Settle, Done
  <1>6. ASSUME NEW p \in Source, RetireOversize(p)
        PROVE  Done
    BY <1>6 DEF RetireOversize, StartJob, Settle, Done
  <1>7. ASSUME PersistSkipRow
        PROVE  Done
    BY <1>7 DEF PersistSkipRow, StartJob, Settle, Done
  <1>8. ASSUME NEW p \in Source, SkipUnchanged(p)
        PROVE  Done
    BY <1>8, SkipDoes DEF Done
  <1>9. ASSUME NEW p \in Source, BuildFails(p)
        PROVE  Done
    BY <1>9, BuildFailsDoes DEF Done
  <1>10. ASSUME NEW p \in Source, SizeCapSkip(p)
        PROVE  Done
    BY <1>10, SizeCapDoes DEF Done
  <1>11. ASSUME NEW p \in Source, BuildFile(p)
        PROVE  Done
    BY <1>11, BuildFileDoes DEF Done
  <1>12. ASSUME NEW p \in Source, BuildArchive(p)
        PROVE  Done
    BY <1>12, BuildArchiveDoes DEF Done
  <1>13. ASSUME GenerateRepresentations
        PROVE  Done
    BY <1>13 DEF GenerateRepresentations, StartJob, Settle, Done
  <1>14. ASSUME GenerationFails
        PROVE  Done
    BY <1>14, GenerationFailsDoes, LeaveDoes DEF Done
  <1>15. ASSUME GenerationDegrades
        PROVE  Done
    BY <1>15 DEF GenerationDegrades, StartJob, Settle, Done
  <1>16. ASSUME GenerationIncomplete
        PROVE  Done
    BY <1>16, IncompleteDoes, LeaveDoes DEF Done
  <1>17. ASSUME FinalizeContentHash
        PROVE  Done
    BY <1>17, FinalizeDoes, LeaveDoes DEF Done
  <1>18. ASSUME ExtractArchiveMembers
        PROVE  Done
    BY <1>18 DEF ExtractArchiveMembers, StartJob, Settle, Done
  <1>19. ASSUME ExtractionFails
        PROVE  Done
    BY <1>19, ExtractionFailsDoes, ClosedDoes DEF Done
  <1>20. ASSUME NEW m \in Member, IngestMember(m)
        PROVE  Done
    BY <1>20, IngestDoes DEF Done
  <1>21. ASSUME NEW m \in Member, MemberFails(m)
        PROVE  Done
    BY <1>21 DEF MemberFails, StartJob, Settle, Done
  <1>22. ASSUME SealArchive
        PROVE  Done
    BY <1>22, SealDoes, ClosedDoes DEF Done
  <1>23. ASSUME NEW p \in Path, MarkMissing(p)
        PROVE  Done
    BY <1>23, MarkMissingDoes DEF Done
  <1>24. ASSUME FinishScan
        PROVE  Done
    BY <1>24 DEF Done
  <1>25. ASSUME Crash
        PROVE  Done
    BY <1>25 DEF Crash, StartJob, Settle, Done
  <1>26. ASSUME NEW p \in Source, NEW b \in Held, Edit(p, b)
        PROVE  Done
    BY <1>26 DEF Edit, StartJob, Settle, Done
  <1>27. CASE UNCHANGED vars
    BY <1>27 DEF vars, Done
  <1>28. QED
    BY <1>1, <1>2, <1>3, <1>4, <1>5, <1>6, <1>7, <1>8, <1>9, <1>10, <1>11, <1>12, <1>13,
       <1>14, <1>15, <1>16, <1>17, <1>18, <1>19, <1>20, <1>21, <1>22, <1>23, <1>24,
       <1>25, <1>26, <1>27
       DEF Next, Watch, Work, Source

(* A source that was seen is not touched again.                             *)
LEMMA SettledStep ==
  ASSUME ScanInv, Drift = {}, Rows, InWork, Signed, Narrow, Gate, Packed, Sealed,
         GoneIsLeft,
         Settled, [Next]_vars
  PROVE  Settled'
  <1>1. Moves /\ Touched /\ Settling /\ Refusing /\ Look
    BY MovesStep, TouchedStep, SettlingStep, RefusingStep, Looks
  <1>2. ASSUME scanning', NEW p \in Leaf, Src(p) \in clean', Src(p) \in seen'
        PROVE  Searchable(p)' = Wanted(p)'
    <2>1. p \in Path /\ Src(p) \in Source
      BY LeafPaths
    <2>2. ~\E reindex \in BOOLEAN : StartScan(reindex)
      BY <1>2 DEF StartScan
    <2>3. scanning /\ clean' \subseteq clean
      BY <1>1, <1>2, <2>2 DEF Moves
    <2>4. CASE Src(p) \notin seen
      BY <1>1, <1>2, <2>3, <2>4 DEF Settling
    <2>5. CASE Src(p) \in seen
      <3>1. Searchable(p) = Wanted(p)
        BY <1>2, <2>3, <2>5 DEF Settled
      <3>2. Src(p) \notin Reach
        BY <2>1, <2>3, <2>5 DEF Reach, Dropped, ScanInv, Accounted
      <3>3. disk'[Src(p)] = disk[Src(p)]
        <4>1. CASE UNCHANGED disk
          BY <4>1
        <4>2. ASSUME NEW q \in Source, NEW b \in Held, Edit(q, b)
              PROVE  disk'[Src(p)] = disk[Src(p)]
          <5>1. Src(p) # q
            BY <1>2, <4>2 DEF Edit
          <5>2. QED
            BY <2>1, <4>2, <5>1, EditSignals
        <4>3. QED
          BY <1>1, <4>1, <4>2 DEF Look
      <3>4. Wanted(p)' = Wanted(p)
        BY <3>3, HoldsSame
      <3>5. CASE MarkMissing(p)
        <4>1. p \in existing /\ p \notin seen
          BY <2>1, <3>5, MarkMissingDoes
        <4>2. p \in Member /\ Src(p) = Of[p]
          BY <2>5, <4>1, LeafPaths
        <4>3. Wanted(p) = None
          BY <1>2, <2>3, <2>5, <4>1, <4>2 DEF ScanInv, MembersFirst
        <4>4. MarkDocumentDeleted(p)
          BY <1>2, <2>1, <3>5, MarkMissingDoes
        <4>5. Searchable(p)' = None
          BY <2>1, <3>1, <4>3, <4>4, DeleteRow, Tables DEF Searchable
        <4>6. QED
          BY <3>4, <4>3, <4>5
      <3>6. CASE ~MarkMissing(p)
        <4>1. doc'[p] = doc[p] /\ chunks'[p] = chunks[p]
          BY <1>1, <1>2, <2>1, <3>2, <3>6 DEF Touched
        <4>2. QED
          BY <3>1, <3>4, <4>1 DEF Searchable
      <3>7. QED
        BY <3>5, <3>6
    <2>6. QED
      BY <2>4, <2>5
  <1>3. scanning' /\ pc' = "refuse" /\ cur' \in clean' => listed'[cur'].body = Big
    BY <1>1 DEF Refusing
  <1>4. QED
    BY <1>2, <1>3 DEF Settled

(* Every source a finished scan listed is seen or gone.                     *)
LEMMA FinishStep ==
  ASSUME ScanInv, Rows, GoneIsLeft, Settled, FinishScan, scanning
  PROVE  \A p \in Path : Src(p) \in clean => Searchable(p) = Wanted(p)
  <1>1. /\ pc = "scan" /\ cur = None /\ box = None /\ todo = {} /\ Dropped = {}
        /\ existing \subseteq seen
    BY ArchiveInHand DEF FinishScan, Swept
  <1>2. ASSUME NEW p \in Leaf, Src(p) \in clean
        PROVE  Searchable(p) = Wanted(p)
    <2>1. Src(p) \in Source /\ p \in Path /\ disk[Src(p)] = listed[Src(p)]
      BY <1>2, LeafPaths DEF ScanInv, Steady
    <2>2. CASE Src(p) \in seen
      BY <1>2, <2>2 DEF Settled
    <2>3. CASE Src(p) \notin seen
      <3>1. listed[Src(p)].body \notin {Link, Big}
        BY <1>1, <2>1, <2>3 DEF Dropped
      <3>2. listed[Src(p)].body \notin Ingestible(Src(p))
        BY <1>1, <2>1, <2>3, Sources DEF ScanInv, Accounted
      <3>3. listed[Src(p)].body = Gone /\ disk[Src(p)].body = Gone
        BY <2>1, <3>1, <3>2 DEF ScanInv, Bodies, Body
      <3>4. p \notin seen
        BY <2>1, <2>3, <3>3, LeafPaths DEF GoneIsLeft
      <3>5. p \notin Active
        BY <1>1, <1>2, <3>3, <3>4 DEF GoneIsLeft
      <3>6. QED
        BY <2>1, <3>3, <3>5, UnservedRow, GoneHolds, WantedHolds
    <2>4. QED
      BY <2>2, <2>3
  <1>3. ASSUME NEW p \in Archive
        PROVE  Searchable(p) = None /\ Wanted(p) = None
    BY UnservedRow, NamesDiffer, Paths DEF Rows, Wanted, Path, Source
  <1>4. QED
    BY <1>2, <1>3 DEF Path, Source, Leaf

(* A report stays true until the next scan.                                 *)
LEMMA ReconciledStep ==
  ASSUME ScanInv, Rows, GoneIsLeft, Settled, ReconciledAfterScan, [Next]_vars
  PROVE  ReconciledAfterScan'
  <1>1. SUFFICES ASSUME pc' = "done", NEW p \in Path, Src(p) \in clean'
                 PROVE  Searchable(p)' = Wanted(p)'
    BY DEF ReconciledAfterScan
  <1>2. FinishScan \/ (UNCHANGED vars /\ pc = "done")
          \/ (pc = "done" /\ \E q \in Source, b \in Held : Edit(q, b))
    BY <1>1, DoneStep DEF Done
  <1>3. CASE FinishScan
    <2>1. scanning /\ clean' = clean /\ UNCHANGED <<doc, chunks, disk>>
      BY <1>1, <1>3 DEF FinishScan, store, env
    <2>2. Searchable(p) = Wanted(p)
      BY <1>1, <1>3, <2>1, FinishStep
    <2>3. QED
      BY <2>1, <2>2, SameView
  <1>4. CASE UNCHANGED vars /\ pc = "done"
    BY <1>1, <1>4, SameView DEF vars, ReconciledAfterScan
  <1>5. ASSUME NEW q \in Source, NEW b \in Held, Edit(q, b), pc = "done"
        PROVE  Searchable(p)' = Wanted(p)'
    <2>1. Src(p) # q /\ Src(p) \in clean /\ UNCHANGED <<doc, chunks>>
      BY <1>1, <1>5 DEF Edit, store
    <2>2. Src(p) \in Source
      BY LeafPaths, Sources
    <2>3. disk'[Src(p)] = disk[Src(p)]
      BY <1>5, <2>1, <2>2, EditSignals
    <2>4. Searchable(p) = Wanted(p)
      BY <1>5, <2>1 DEF ReconciledAfterScan
    <2>5. Searchable(p)' = Searchable(p) /\ Wanted(p)' = Wanted(p)
      BY <2>1, <2>3, Sources, LeafPaths DEF Searchable, Wanted, Src
    <2>6. QED
      BY <2>4, <2>5
  <1>6. QED
    BY <1>2, <1>3, <1>4, <1>5

(* The whole of the invariant.                                              *)
ReconcileInv ==
  /\ ScanInv /\ Rows /\ InWork /\ Heard /\ Signed /\ HandSigned
  /\ Narrow /\ Gate /\ Packed /\ Sealed /\ GoneIsLeft /\ Settled /\ ReconciledAfterScan

(* The invariant holds at the start.                                        *)
LEMMA ReconcileInit == Init => ReconcileInv
  <1> SUFFICES ASSUME Init PROVE ReconcileInv
    OBVIOUS
  <1>1. ScanInv
    BY ScanInit
  <1>2. \A p \in Path : /\ doc[p].hash = None /\ doc[p].status = "none"
          /\ doc[p].sig = 0
                       /\ ~doc[p].deleted /\ Bare(p)
    BY DEF Init, NoRow, Bare
  <1>3. Rows /\ InWork
    BY <1>2 DEF Init, Rows, InWork
  <1>4. \A p \in Signalled : p \in Path /\ p \in Source
    BY Bounds DEF Path
  <1>5. Heard /\ Signed /\ HandSigned
    <2>1. \A p \in Source : disk[p].sig = 0 /\ listed[p].body = None
      BY DEF Init, NotListed
    <2>2. Heard
      BY <1>4, <2>1 DEF Heard
    <2>3. Signed
      BY <1>2, <1>4, <2>1 DEF Signed
    <2>4. HandSigned
      BY <1>4, Sources DEF Init, HandSigned
    <2>5. QED
      BY <2>2, <2>3, <2>4
  <1>6. ~InMember /\ Active = {} /\ Dropped = {}
    BY <1>2 DEF Init, InMember, Active, Dropped
  <1>7. Narrow /\ Packed /\ GoneIsLeft /\ Settled /\ ReconciledAfterScan
    BY <1>2, <1>6, LeafPaths DEF Init, Narrow, Packed, GoneIsLeft, Settled,
           ReconciledAfterScan
  <1>8. Gate
    BY <1>2, <1>6, LeafPaths, Contents DEF Gate, Indexable
  <1>9. Sealed
    <2>1. \A b \in Archive : disk[b].body \in Packing => doc[b].hash # disk[b].body
      BY <1>2, Contents DEF Path, Source
    <2>2. QED
      BY <1>6, <2>1 DEF Init, Sealed
  <1>10. QED
    BY <1>1, <1>3, <1>5, <1>7, <1>8, <1>9 DEF ReconcileInv

(* Nothing drifts: no content is put back that the store had already        *)
(* written off, no file becomes unfit to index, no archive loses members.   *)
LEMMA ReconcileInvariance ==
  ASSUME Drift = {}
  PROVE  Spec => []ReconcileInv
  <1>1. ReconcileInv /\ [Next]_vars => ReconcileInv'
    <2> SUFFICES ASSUME ReconcileInv, [Next]_vars PROVE ReconcileInv'
      OBVIOUS
    <2>1. ScanInv /\ Rows /\ InWork /\ Heard /\ Signed /\ HandSigned /\ Narrow /\ Gate
            /\ Packed /\ Sealed /\ GoneIsLeft /\ Settled /\ ReconciledAfterScan
      BY DEF ReconcileInv
    <2>2. ScanInv'
      BY <2>1, ScanStep
    <2>3. Rows' /\ InWork' /\ Heard' /\ Signed' /\ HandSigned'
      BY <2>1, RowsStep, InWorkStep, HeardStep, SignedStep, HandSignedStep
    <2>4. Narrow' /\ Gate' /\ Packed' /\ Sealed' /\ GoneIsLeft' /\ Settled'
      BY <2>1, NarrowStep, GateStep, PackedStep, SealedStep, GoneIsLeftStep, SettledStep
    <2>5. ReconciledAfterScan'
      BY <2>1, ReconciledStep
    <2>6. QED
      BY <2>2, <2>3, <2>4, <2>5 DEF ReconcileInv
  <1>2. QED
    BY <1>1, ReconcileInit, PTL DEF Spec

(* After a scan that nothing disturbed, search serves of every document     *)
(* exactly what the corpus holds.                                           *)
THEOREM ReconciledWithoutDrift ==
  ASSUME Drift = {}
  PROVE  Spec => []ReconciledAfterScan
  <1>1. ReconcileInv => ReconciledAfterScan
    BY DEF ReconcileInv
  <1>2. QED
    BY <1>1, ReconcileInvariance, PTL
=============================================================================
