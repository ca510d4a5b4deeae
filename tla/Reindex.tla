------------------------------- MODULE Reindex -------------------------------
(***************************************************************************)
(* A full rebuild over a state directory (`dir2mcp reindex`, reindex.go),  *)
(* the start of the daemon that has to clean up after one that was killed  *)
(* (`dir2mcp up`, up.go), and the daemon's in-memory index with its        *)
(* snapshots (hnsw_index.go, persistence.go, reconcile.go).                *)
(*                                                                         *)
(* A rebuild has two undo records.  Index files are renamed to a backup    *)
(* beside them, and the content hashes, by which a scan knows what it need *)
(* not read again, are copied to a table before they are cleared.  A       *)
(* finished rebuild removes first the backups and then the copy; because   *)
(* the backups go one by one, a marker says meanwhile that they are of no  *)
(* more use.  Every rename, unlink and SQL statement is a step, a crash    *)
(* falls between any two of them, and both commands begin with the same    *)
(* recovery.                                                               *)
(*                                                                         *)
(* Left out: a daemon started while a rebuild runs (only a daemon leaves a *)
(* pid file), the backends that keep no snapshot, deleted documents, the   *)
(* steps of the daemon's own scan (IngestScan) and of its embedding        *)
(* (EmbedPool), and a reconciliation that fails.                           *)
(***************************************************************************)
EXTENDS Naturals

CONSTANTS
  File,       \* the index files a rebuild moves aside
  Doc,        \* the corpus
  FileOf,     \* the index file that holds a document's vectors
  MaxVersion, \* bound on edits: a document's contents are numbered
  Absent,     \* no file
  None,       \* no hash, no vector, no document, no table
  NoRow,      \* a document the store does not know
  Part,       \* chunks of which only some were cut from the new content
  Drift,      \* kinds of events this instance has on top
  MaxFaults,  \* bound on failing calls
  MaxCrashes  \* bound on killed processes

Version == 0..MaxVersion
Kinds == {"revert", "overwritten"}

ASSUME Corpus == FileOf \in [Doc -> File]
ASSUME Tokens ==
  /\ {None, NoRow, Part} \cap Version = {}
  /\ None # NoRow /\ None # Part /\ NoRow # Part
ASSUME Limits ==
  /\ MaxVersion \in Nat /\ MaxFaults \in Nat /\ MaxCrashes \in Nat
  /\ Drift \subseteq Kinds

Cut == Version \cup {Part, None}
Image == [Doc -> Cut]
ASSUME Files == Absent \notin Image
Hashes == [Doc -> Version \cup {None, NoRow}]
ASSUME Table == None \notin Hashes

VARIABLES
  disk,     \* the content of each document
  hash,     \* documents.content_hash
  bad,      \* documents whose row has the status "error"
  rows,     \* the content a document's chunks were cut from
  queued,   \* documents whose chunks wait for their vectors
  snap,     \* the table of saved hashes
  live,     \* index files
  back,     \* their backups
  marker,   \* the commit marker
  pc,       \* where the running command is
  cmd,      \* which command that is
  todo,     \* files or documents its current loop has not come to
  staged,   \* files this rebuild moved aside
  failed,   \* a removal of the current loop failed
  cur,      \* the document being rebuilt
  body,     \* its content as read
  mem,      \* the daemon's index, by file
  dirty,    \* files behind the daemon's index
  saving,   \* the file being written
  copy,     \* what is being written
  changed,  \* the index changed since the copy was taken
  faults, crashes

store == <<hash, bad, rows, queued, snap>>
dir == <<live, back, marker>>
local == <<staged, failed, cur, body>>
daemon == <<mem, dirty, saving, copy, changed>>
bounds == <<faults, crashes>>
vars == <<disk, hash, bad, rows, queued, snap, live, back, marker, pc, cmd, todo,
          staged, failed, cur, body, mem, dirty, saving, copy, changed, faults, crashes>>

Empty == [d \in Doc |-> None]

StoreOK ==
  /\ hash \in Hashes /\ bad \subseteq Doc
  /\ rows \in Image /\ queued \subseteq Doc
  /\ snap \in Hashes \cup {None}

DirOK ==
  /\ live \in [File -> Image \cup {Absent}]
  /\ back \in [File -> Image \cup {Absent}]
  /\ marker \in BOOLEAN

CommandOK ==
  /\ pc \in {"down", "adopt", "finish", "load", "restore", "drop", "reconcile",
             "serving", "snapshot", "clear", "forget", "stage", "build", "cut",
             "stamp", "commit", "unlink", "discard", "undo_hashes", "undo_drop",
             "undo_files"}
  /\ cmd \in {"up", "reindex"}
  /\ todo \subseteq File \cup Doc

LocalOK ==
  /\ staged \subseteq File /\ failed \in BOOLEAN
  /\ cur \in Doc \cup {None} /\ body \in Version \cup {None}

DaemonOK ==
  /\ mem \in [File -> Image] /\ dirty \subseteq File
  /\ saving \in File \cup {None} /\ copy \in Image /\ changed \in BOOLEAN

BoundsOK == faults \in 0..MaxFaults /\ crashes \in 0..MaxCrashes

ReindexTypeOK ==
  disk \in [Doc -> Version] /\ StoreOK /\ DirOK /\ CommandOK /\ LocalOK /\ DaemonOK /\ BoundsOK

(* A corpus at rest: some documents indexed, the rest not yet seen.         *)
Init ==
  /\ disk = [d \in Doc |-> 0]
  /\ \E old \in SUBSET Doc :
       /\ hash = [d \in Doc |-> IF d \in old THEN 0 ELSE NoRow]
       /\ rows = [d \in Doc |-> IF d \in old THEN 0 ELSE None]
       /\ live = [f \in File |->
                    IF \E d \in old : FileOf[d] = f
                    THEN [d \in Doc |-> IF d \in old /\ FileOf[d] = f THEN 0 ELSE None]
                    ELSE Absent]
  /\ bad = {} /\ queued = {} /\ snap = None
  /\ back = [f \in File |-> Absent] /\ marker = FALSE
  /\ pc = "down" /\ cmd = "up" /\ todo = {}
  /\ staged = {} /\ failed = FALSE /\ cur = None /\ body = None
  /\ mem = [f \in File |-> Empty] /\ dirty = {}
  /\ saving = None /\ copy = Empty /\ changed = FALSE
  /\ faults = 0 /\ crashes = 0

-----------------------------------------------------------------------------
Go(here, there) == pc = here /\ pc' = there

(* A call fails.                                                            *)
Fault == faults < MaxFaults /\ faults' = faults + 1 /\ UNCHANGED crashes

Kept == {f \in File : back[f] # Absent}

(* The process ends, and with it everything it held in memory.              *)
Exit ==
  /\ pc' = "down" /\ todo' = {} /\ staged' = {} /\ failed' = FALSE
  /\ cur' = None /\ body' = None
  /\ mem' = [f \in File |-> Empty] /\ dirty' = {}
  /\ saving' = None /\ copy' = Empty /\ changed' = FALSE
  /\ UNCHANGED cmd

-----------------------------------------------------------------------------
(* Recovery, which both commands begin with (recoverInterruptedReindex)     *)

(* Mutant: the daemon serves what it finds.                                 *)
StartUnrepaired(command) ==
  /\ pc = "down"
  /\ cmd' = command /\ todo' = IF command = "up" THEN {} ELSE Kept
  /\ pc' = IF command = "up" THEN "load" ELSE IF marker THEN "finish" ELSE "adopt"
  /\ UNCHANGED <<disk, store, dir, local, daemon, bounds>>

(* One listing of the state directory decides: with the marker in it the    *)
(* backups are superseded, without it they are the generation to serve.     *)
Start(command) ==
  /\ pc = "down"
  /\ cmd' = command /\ todo' = Kept
  /\ pc' = IF marker THEN "finish" ELSE "adopt"
  /\ UNCHANGED <<disk, store, dir, local, daemon, bounds>>

(* A backup is renamed over whatever is live.  Failing here is fatal.       *)
Adopt(f) ==
  /\ pc = "adopt" /\ f \in todo
  /\ \/ /\ live' = [live EXCEPT ![f] = back[f]]
        /\ back' = [back EXCEPT ![f] = Absent]
        /\ todo' = todo \ {f}
        /\ UNCHANGED <<marker, pc, cmd, local, daemon, bounds>>
     \/ /\ Fault /\ Exit
        /\ UNCHANGED dir
  /\ UNCHANGED <<disk, store>>

Ready == IF cmd = "up" THEN "load" ELSE "restore"

Adopted ==
  /\ todo = {}
  /\ Go("adopt", Ready)
  /\ UNCHANGED <<disk, store, dir, cmd, todo, local, daemon, bounds>>

(* A backup that cannot be removed is no reason to stop.                    *)
Finish(f) ==
  /\ pc = "finish" /\ f \in todo
  /\ todo' = todo \ {f}
  /\ \/ /\ back' = [back EXCEPT ![f] = Absent]
        /\ UNCHANGED <<failed, bounds>>
     \/ /\ Fault
        /\ failed' = TRUE /\ UNCHANGED back
  /\ UNCHANGED <<disk, store, live, marker, pc, cmd, staged, cur, body, daemon>>

(* The marker goes last, and only when every backup went.                   *)
Finished ==
  /\ todo = {}
  /\ Go("finish", Ready)
  /\ failed' = FALSE
  /\ \/ /\ ~failed
        /\ marker' = FALSE /\ UNCHANGED bounds
     \/ /\ ~failed
        /\ Fault /\ UNCHANGED marker
     \/ /\ failed
        /\ UNCHANGED <<marker, bounds>>
  /\ UNCHANGED <<disk, store, live, back, cmd, todo, staged, cur, body, daemon>>

-----------------------------------------------------------------------------
(* The saved hashes (RestoreContentHashes), at the start of both commands   *)

(* Mutant: the table is dropped, its hashes are not put back.               *)
RestoreNothing == hash

RestoredHashes == [d \in Doc |-> IF snap[d] # NoRow THEN snap[d] ELSE hash[d]]

RestoreHashes ==
  /\ pc = "restore"
  /\ \/ /\ snap = None
        /\ pc' = IF cmd = "up" THEN "reconcile" ELSE "snapshot"
        /\ UNCHANGED <<hash, cmd, todo, local, daemon, bounds>>
     \/ /\ snap # None
        /\ pc' = "drop" /\ hash' = RestoredHashes
        /\ UNCHANGED <<cmd, todo, local, daemon, bounds>>
     \/ /\ Fault /\ Exit
        /\ UNCHANGED hash
  /\ UNCHANGED <<disk, bad, rows, queued, snap, dir>>

(* The second statement.  A table that restored no row is dropped, and is   *)
(* an error all the same.                                                   *)
DropTable ==
  /\ pc = "drop"
  /\ \/ /\ snap' = None
        /\ \E d \in Doc : snap[d] # NoRow
        /\ pc' = IF cmd = "up" THEN "reconcile" ELSE "snapshot"
        /\ UNCHANGED <<cmd, todo, local, daemon, bounds>>
     \/ /\ snap' = None
        /\ \A d \in Doc : snap[d] = NoRow
        /\ Exit /\ UNCHANGED bounds
     \/ /\ Fault /\ Exit
        /\ UNCHANGED snap
  /\ UNCHANGED <<disk, hash, bad, rows, queued, dir>>

-----------------------------------------------------------------------------
(* The daemon *)

(* Mutant: a missing snapshot leaves no index.                              *)
LoadNothing ==
  /\ Go("load", "restore")
  /\ mem' = live /\ dirty' = {}
  /\ UNCHANGED <<disk, store, dir, cmd, todo, local, saving, copy, changed, bounds>>

(* A missing snapshot is a fresh index: recording its identity makes it     *)
(* dirty.                                                                   *)
Load ==
  /\ pc = "load"
  /\ \/ /\ pc' = "restore"
        /\ mem' = [f \in File |-> IF live[f] = Absent THEN Empty ELSE live[f]]
        /\ dirty' = {f \in File : live[f] = Absent}
        /\ UNCHANGED <<cmd, todo, local, saving, copy, changed, bounds>>
     \/ Fault /\ Exit
  /\ UNCHANGED <<disk, store, dir>>

Known == {d \in Doc : rows[d] # None}
Vector(d) == mem[FileOf[d]][d]

(* Mutant: what is marked embedded is believed.                             *)
ReconcileNothing ==
  /\ Go("reconcile", "serving")
  /\ UNCHANGED <<disk, store, dir, cmd, todo, local, daemon, bounds>>

(* Chunks marked embedded that the loaded index knows nothing of wait for   *)
(* their vectors again.  Only their presence is looked at.                  *)
Reconcile ==
  /\ Go("reconcile", "serving")
  /\ queued' = queued \cup {d \in Known : Vector(d) = None}
  /\ UNCHANGED <<disk, hash, bad, rows, snap, dir, cmd, todo, local, daemon, bounds>>

(* A scan passes a document over when its hash is that of its content.      *)
Skipped(d) == hash[d] = disk[d] /\ d \notin bad

Scan(d) ==
  /\ pc = "serving" /\ ~Skipped(d)
  /\ hash' = [hash EXCEPT ![d] = disk[d]]
  /\ rows' = [rows EXCEPT ![d] = disk[d]]
  /\ bad' = bad \ {d}
  /\ queued' = queued \cup {d}
  /\ UNCHANGED <<disk, snap, dir, pc, cmd, todo, local, daemon, bounds>>

(* Vectors go to the index in memory and the chunks are marked at once.     *)
Embed(d) ==
  /\ pc = "serving" /\ d \in queued
  /\ mem' = [mem EXCEPT ![FileOf[d]][d] = rows[d]]
  /\ queued' = queued \ {d}
  /\ dirty' = dirty \cup {FileOf[d]}
  /\ changed' = (changed \/ saving = FileOf[d])
  /\ UNCHANGED <<disk, hash, bad, rows, snap, dir, pc, cmd, todo, local,
                 saving, copy, bounds>>

(* The autosave and the save at shutdown exclude each other, and skip an    *)
(* index that did not change since its last save.                           *)
SaveBegin(f) ==
  /\ pc = "serving" /\ saving = None /\ f \in dirty
  /\ saving' = f /\ copy' = mem[f] /\ changed' = FALSE
  /\ UNCHANGED <<disk, store, dir, pc, cmd, todo, local, mem, dirty, bounds>>

(* Mutant: the index is clean once a save of it ended.                      *)
SaveEndClean ==
  /\ pc = "serving" /\ saving # None
  /\ live' = [live EXCEPT ![saving] = copy]
  /\ dirty' = dirty \ {saving}
  /\ saving' = None /\ copy' = Empty /\ changed' = FALSE
  /\ UNCHANGED <<disk, store, back, marker, pc, cmd, todo, local, mem, bounds>>

(* The temporary file is renamed over the snapshot.  What changed since the *)
(* copy stays dirty.                                                        *)
SaveEnd ==
  /\ pc = "serving" /\ saving # None
  /\ live' = [live EXCEPT ![saving] = copy]
  /\ dirty' = IF changed THEN dirty ELSE dirty \ {saving}
  /\ saving' = None /\ copy' = Empty /\ changed' = FALSE
  /\ UNCHANGED <<disk, store, back, marker, pc, cmd, todo, local, mem, bounds>>

(* A save that fails leaves the snapshot alone and the index dirty.         *)
SaveFails ==
  /\ pc = "serving" /\ saving # None
  /\ Fault
  /\ saving' = None /\ copy' = Empty /\ changed' = FALSE
  /\ UNCHANGED <<disk, store, dir, pc, cmd, todo, local, mem, dirty>>

(* A vector that replaced an older one is not in the snapshot yet.          *)
Overwritten(d) ==
  /\ d \notin queued /\ live[FileOf[d]] # Absent
  /\ live[FileOf[d]][d] \notin {None, Vector(d)}

(* The daemon stops or is killed, saved or not.  That it is killed over an  *)
(* overwritten vector is the kind "overwritten".                            *)
Stop ==
  /\ pc = "serving"
  /\ "overwritten" \in Drift \/ \A d \in Doc : ~Overwritten(d)
  /\ Exit
  /\ UNCHANGED <<disk, store, dir, bounds>>

-----------------------------------------------------------------------------
(* The rebuild: preparation (prepareReindexStore) *)

BackupHashes ==
  /\ pc = "snapshot" /\ snap = None
  /\ \/ /\ pc' = "clear" /\ snap' = hash
        /\ UNCHANGED <<cmd, todo, local, daemon, bounds>>
     \/ /\ Fault /\ Exit
        /\ UNCHANGED snap
  /\ UNCHANGED <<disk, hash, bad, rows, queued, dir>>

(* If the clear fails the table is not needed.                              *)
ClearHashes ==
  /\ pc = "clear"
  /\ \/ /\ hash' = [d \in Doc |-> IF hash[d] = NoRow THEN NoRow ELSE None]
        /\ pc' = "stage" /\ todo' = File
        /\ UNCHANGED bounds
     \/ /\ Fault
        /\ pc' = "forget"
        /\ UNCHANGED <<hash, todo>>
  /\ UNCHANGED <<disk, bad, rows, queued, snap, dir, cmd, local, daemon>>

(* A file is renamed to its backup, a missing one needs none, and an        *)
(* occupied slot or a failing call undoes the preparation.                  *)
Stage(f) ==
  /\ pc = "stage" /\ f \in todo
  /\ \/ /\ back[f] = Absent /\ live[f] # Absent
        /\ live' = [live EXCEPT ![f] = Absent]
        /\ back' = [back EXCEPT ![f] = live[f]]
        /\ staged' = staged \cup {f} /\ todo' = todo \ {f}
        /\ UNCHANGED <<pc, bounds>>
     \/ /\ back[f] = Absent /\ live[f] = Absent
        /\ todo' = todo \ {f}
        /\ UNCHANGED <<live, back, staged, pc, bounds>>
     \/ /\ back[f] # Absent
        /\ pc' = "undo_hashes" /\ todo' = {}
        /\ UNCHANGED <<live, back, staged, bounds>>
     \/ /\ Fault
        /\ pc' = "undo_hashes" /\ todo' = {}
        /\ UNCHANGED <<live, back, staged>>
  /\ UNCHANGED <<disk, store, marker, cmd, failed, cur, body, daemon>>

Staged ==
  /\ todo = {}
  /\ Go("stage", "build") /\ todo' = Doc
  /\ UNCHANGED <<disk, store, dir, cmd, local, daemon, bounds>>

-----------------------------------------------------------------------------
(* The rebuild itself: every document, whatever its hash was.  It opens no  *)
(* index and only queues chunks.                                            *)

(* The row is written without its hash.                                     *)
ReadDocument(d) ==
  /\ Go("build", "cut") /\ d \in todo
  /\ cur' = d /\ body' = disk[d] /\ todo' = todo \ {d}
  /\ hash' = [hash EXCEPT ![d] = None]
  /\ bad' = bad \ {d}
  /\ UNCHANGED <<disk, rows, queued, snap, dir, cmd, staged, failed, daemon, bounds>>

(* A representation of the document is replaced, or its last one.           *)
CutChunks ==
  /\ pc = "cut"
  /\ \/ /\ rows' = [rows EXCEPT ![cur] = Part]
        /\ UNCHANGED pc
     \/ /\ rows' = [rows EXCEPT ![cur] = body]
        /\ pc' = "stamp"
  /\ queued' = queued \cup {cur}
  /\ UNCHANGED <<disk, hash, bad, snap, dir, cmd, todo, local, daemon, bounds>>

(* Extraction fails: the document is in error and the rebuild goes on.      *)
FailDocument ==
  /\ Fault
  /\ Go("cut", "build")
  /\ bad' = bad \cup {cur} /\ cur' = None /\ body' = None
  /\ UNCHANGED <<disk, hash, rows, queued, snap, dir, cmd, todo, staged, failed, daemon>>

StampHash ==
  /\ Go("stamp", "build")
  /\ hash' = [hash EXCEPT ![cur] = body] /\ cur' = None /\ body' = None
  /\ UNCHANGED <<disk, bad, rows, queued, snap, dir, cmd, todo, staged, failed,
                 daemon, bounds>>

(* The rebuild is interrupted, or fails as a whole.                         *)
Interrupt ==
  /\ pc \in {"build", "cut", "stamp"}
  /\ pc' = "undo_hashes" /\ todo' = {} /\ cur' = None /\ body' = None
  /\ UNCHANGED <<disk, store, dir, cmd, staged, failed, daemon, bounds>>

Built ==
  /\ todo = {}
  /\ Go("build", IF staged = {} THEN "discard" ELSE "commit")
  /\ UNCHANGED <<disk, store, dir, cmd, todo, local, daemon, bounds>>

-----------------------------------------------------------------------------
(* The rebuild is kept (commitReindex) *)

(* Mutant: the backups are removed without a marker.                        *)
SkipMarker ==
  /\ Go("commit", "unlink") /\ todo' = staged
  /\ UNCHANGED <<disk, store, dir, cmd, local, daemon, bounds>>

(* A marker that failed may be there or not; the removal goes on.           *)
WriteMarker ==
  /\ Go("commit", "unlink") /\ todo' = staged
  /\ \/ marker' = TRUE /\ UNCHANGED bounds
     \/ marker' \in {marker, TRUE} /\ Fault
  /\ UNCHANGED <<disk, store, live, back, cmd, local, daemon>>

Unlink(f) ==
  /\ pc = "unlink" /\ f \in todo
  /\ todo' = todo \ {f}
  /\ \/ /\ back' = [back EXCEPT ![f] = Absent]
        /\ UNCHANGED <<failed, bounds>>
     \/ /\ Fault
        /\ failed' = TRUE /\ UNCHANGED back
  /\ UNCHANGED <<disk, store, live, marker, pc, cmd, staged, cur, body, daemon>>

(* The marker stays while a backup does.                                    *)
RemoveMarker ==
  /\ todo = {}
  /\ Go("unlink", "discard")
  /\ \/ /\ ~failed
        /\ marker' = FALSE /\ UNCHANGED bounds
     \/ /\ ~failed
        /\ Fault /\ UNCHANGED marker
     \/ /\ failed
        /\ UNCHANGED <<marker, bounds>>
  /\ UNCHANGED <<disk, store, live, back, cmd, todo, local, daemon>>

(* The saved hashes go last, after a rebuild or after a clear that failed.  *)
DiscardTable ==
  /\ pc \in {"discard", "forget"}
  /\ Exit
  /\ \/ snap' = None /\ UNCHANGED bounds
     \/ Fault /\ UNCHANGED snap
  /\ UNCHANGED <<disk, hash, bad, rows, queued, dir>>

-----------------------------------------------------------------------------
(* The rebuild is undone (rollbackReindex).  Nothing here is fatal.         *)

UndoHashes ==
  /\ pc = "undo_hashes"
  /\ \/ /\ pc' = "undo_drop" /\ hash' = RestoredHashes
        /\ UNCHANGED <<todo, bounds>>
     \/ /\ Fault
        /\ pc' = "undo_files" /\ todo' = staged
        /\ UNCHANGED hash
  /\ UNCHANGED <<disk, bad, rows, queued, snap, dir, cmd, local, daemon>>

UndoTable ==
  /\ Go("undo_drop", "undo_files") /\ todo' = staged
  /\ \/ snap' = None /\ UNCHANGED bounds
     \/ Fault /\ UNCHANGED snap
  /\ UNCHANGED <<disk, hash, bad, rows, queued, dir, cmd, local, daemon>>

UndoFile(f) ==
  /\ pc = "undo_files" /\ f \in todo
  /\ todo' = todo \ {f}
  /\ \/ /\ live' = [live EXCEPT ![f] = back[f]]
        /\ back' = [back EXCEPT ![f] = Absent]
        /\ UNCHANGED bounds
     \/ /\ Fault
        /\ UNCHANGED <<live, back>>
  /\ UNCHANGED <<disk, store, marker, pc, cmd, local, daemon>>

Undone ==
  /\ pc = "undo_files" /\ todo = {}
  /\ Exit
  /\ UNCHANGED <<disk, store, dir, bounds>>

-----------------------------------------------------------------------------
(* The corpus and the machine *)

(* Contents only move on.  That one comes back is the kind "revert".        *)
Edit(d) ==
  /\ disk' \in {[disk EXCEPT ![d] = v] : v \in Version \ {disk[d]}}
  /\ "revert" \in Drift \/ disk'[d] > disk[d]
  /\ UNCHANGED <<store, dir, pc, cmd, todo, local, daemon, bounds>>

(* A command is killed before it serves or ends.                            *)
Crash ==
  /\ pc \notin {"down", "serving"} /\ crashes < MaxCrashes
  /\ crashes' = crashes + 1
  /\ Exit
  /\ UNCHANGED <<disk, store, dir, faults>>

Recovery ==
  \/ \E f \in File : Adopt(f) \/ Finish(f)
  \/ Adopted \/ Finished \/ RestoreHashes \/ DropTable

Serving ==
  \/ \E d \in Doc : Scan(d) \/ Embed(d)
  \/ \E f \in File : SaveBegin(f)
  \/ SaveEnd \/ SaveFails

Rebuild ==
  \/ BackupHashes \/ ClearHashes \/ Staged
  \/ \E f \in File : Stage(f)
  \/ \E d \in Doc : ReadDocument(d)
  \/ CutChunks \/ FailDocument \/ StampHash \/ Interrupt \/ Built

Settlement ==
  \/ WriteMarker \/ RemoveMarker \/ DiscardTable
  \/ UndoHashes \/ UndoTable \/ Undone
  \/ \E f \in File : Unlink(f) \/ UndoFile(f)

Work == Recovery \/ Load \/ Reconcile \/ Rebuild \/ Settlement

Next ==
  \/ Start("up") \/ Start("reindex")
  \/ Work \/ Serving \/ Stop \/ Crash
  \/ \E d \in Doc : Edit(d)

Fairness == WF_vars(Work) /\ WF_vars(Start("up"))
Spec == Init /\ [][Next]_vars /\ Fairness

-----------------------------------------------------------------------------
(* Properties *)

(* What the next recovery will leave live, and the hash it will leave.      *)
Good(f) == IF marker \/ back[f] = Absent THEN live[f] ELSE back[f]
Gate(d) == IF snap # None /\ snap[d] # NoRow THEN snap[d] ELSE hash[d]

(* The set of index files a recovery leads to is replaced as a whole, at    *)
(* the commit point of a finished rebuild, or by the daemon's own saves: no *)
(* crash mixes two generations and none loses the last good one.  Excepted  *)
(* are a marker that could not be written, of which commit() warns, and one *)
(* that could not be removed and beside which the next rebuild stages its   *)
(* backups all the same.                                                    *)
GenerationIsAtomic ==
  [][\/ \A f \in File : Good(f)' = Good(f)
     \/ pc = "serving"
     \/ pc = "commit" /\ \A f \in File : Good(f)' = Absent
     \/ pc = "unlink" /\ ~marker /\ faults > 0
     \/ pc \in {"stage", "undo_files"} /\ marker /\ faults > 0]_vars

(* A document's recorded hash is never lost but to a rebuild that finished: *)
(* neither a crash nor a failing call makes the corpus be read again.       *)
GateKept ==
  [][\A d \in Doc : Gate(d) \in Version /\ Gate(d)' \notin Version => pc = "discard"]_vars

(* A document the daemon's scans pass over can be found, and still after    *)
(* the next start: its chunks are of its content, and their vectors are on  *)
(* their way or in the index, and on disk unless a save of it is due.  The  *)
(* exception is the one the rollback reports, a document it was in the      *)
(* middle of.                                                               *)
SkippedIsSearchable ==
  pc = "serving" => \A d \in Doc : Skipped(d) =>
    /\ rows[d] \in {disk[d], Part}
    /\ \/ d \in queued
       \/ /\ Vector(d) = rows[d]
          /\ FileOf[d] \in dirty \/ live[FileOf[d]] = mem[FileOf[d]]

(* Whatever an interrupted rebuild left is settled in the end, one way or   *)
(* the other, if somebody starts the daemon again.                          *)
Unsettled == snap # None \/ (~marker /\ Kept # {})
Recovers == Unsettled ~> ~Unsettled
=============================================================================
