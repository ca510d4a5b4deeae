------------------------------ MODULE DiskIndex ------------------------------
(***************************************************************************)
(* DiskIndex, the on-disk vector backend: an append-only segment of        *)
(* records, a map in memory from chunk to the newest record's place, and a *)
(* sidecar file that names the embed identity of the vectors.  Upserts and *)
(* deletes append and fsync; Save compacts the segment into a new file and *)
(* renames it into place; start-up scans the segment (Load) and empties it *)
(* (Reset) unless the sidecar names the wanted identity.                   *)
(*                                                                         *)
(* Every operation holds the index's lock, so there is one operation at a  *)
(* time; `step` is how far it has got.  Between any two steps the process  *)
(* may be killed, which keeps what it wrote to its files, or the machine   *)
(* may lose power, which keeps only what was synced and any part of the    *)
(* rest.                                                                   *)
(***************************************************************************)
EXTENDS Naturals, Sequences, FiniteSets, FiniteSetsExt, SequencesExt

CONSTANTS
  Chunk,
  Identity,     (* embed identities                                         *)
  NoIdentity,   (* no sidecar, or an empty identity                         *)
  Content,      (* what an embedding of a chunk's text may be               *)
  NoVector,     (* not in the index; the body of a tombstone                *)
  NoFile,
  Header,       (* the segment's magic and version, whole ...               *)
  HalfHeader,   (* ... and with only the first of its two writes            *)
  Torn,         (* a record that is not all there                           *)
  Gap,          (* bytes nobody wrote, before a write behind the end        *)
  MaxBatch,     (* records of one BatchUpsert                               *)
  MaxLog,       (* bound on the segment's cells                             *)
  Faults,       (* the file operations that may fail                        *)
  MaxMishaps    (* bound on failures, kills and power losses                *)

Vector == [identity : Identity, content : Content]

Record == [chunk : Chunk, vector : Vector \cup {NoVector}]

Marks == {Header, HalfHeader, Torn, Gap}

ASSUME DiskAssumption ==
  /\ Chunk \subseteq Nat /\ IsFiniteSet(Chunk)
  /\ NoIdentity \notin Identity
  /\ NoVector \notin Vector
  /\ Header \notin {HalfHeader, Torn, Gap}
  /\ Marks \cap Record = {}
  /\ NoFile \notin Seq(Record \cup Marks)
  /\ MaxBatch \in Nat \ {0} /\ MaxLog \in Nat /\ MaxMishaps \in Nat
  /\ Faults \subseteq {"write", "header", "sync", "truncate", "rename", "stage", "dirsync"}

VARIABLES
  seg,       (* the segment as the file system shows it                     *)
  disk,      (* what a power loss may leave of that file                    *)
  stale,     (* what else its name may lead to while the directory is unsynced *)
  side,      (* the identity in the sidecar as the file system shows it     *)
  sideDisk,  (* what a power loss may leave of the sidecar                  *)
  loc,       (* the locator map: each chunk's record, 0 for none            *)
  end,       (* appendEnd, in cells; 0 before it is known                   *)
  identity,  (* the identity in memory                                      *)
  dirty,     (* version # savedVersion                                      *)
  view,      (* the mapped file searches read, or NoFile                    *)
  step,      (* where the operation under way has got to                    *)
  recs,      (* the records it appends                                      *)
  mishaps,
  acked,     (* history: what completed operations left in the index        *)
  limbo,     (* history: what unfinished ones may have left of each chunk   *)
  spoiled    (* history: a failure has left bytes behind that nothing has cleared *)

files  == <<seg, disk, stale>>
sides  == <<side, sideDisk>>
memory == <<loc, end, identity, dirty, view>>
ghosts == <<acked, limbo, spoiled>>
dvars  == <<files, sides, memory, step, recs, mishaps, ghosts>>

-----------------------------------------------------------------------------
(* The segment *)

Cell == Record \cup Marks

Nowhere == [c \in Chunk |-> 0]
Nothing == [c \in Chunk |-> NoVector]
Certain == [c \in Chunk |-> {}]

(* Cells written behind the first `at` ones, over what was there.           *)
Put(file, at, cells) ==
  [i \in 1..Max({Len(file), at + Len(cells)}) |->
     IF i \in (at + 1)..(at + Len(cells)) THEN cells[i - at]
     ELSE IF i \in 1..Len(file) THEN file[i] ELSE Gap]

Resized(file, n) ==
  [i \in 1..n |-> IF i \in 1..Len(file) THEN file[i] ELSE Gap]

(* What may arrive of a buffered write that is cut off.                     *)
Landings(cells) ==
  {SubSeq(cells, 1, n) : n \in 0..Len(cells)}
    \cup {Append(SubSeq(cells, 1, n), Torn) : n \in 0..(Len(cells) - 1)}

HasHeader(file) == file \notin {NoFile, <<>>} /\ file[1] = Header

(* scanSegment: the place behind the last complete record, and the newest   *)
(* record of each chunk up to there.                                        *)
ScanEnd(file) ==
  IF HasHeader(file)
    THEN Max({n \in 1..Len(file) : \A i \in 2..n : file[i] \in Record})
    ELSE 0

Places(file, c) == {i \in 2..ScanEnd(file) : file[i].chunk = c}

Newest(file, c) ==
  IF Places(file, c) = {} THEN 0
  ELSE LET i == Max(Places(file, c))
       IN  IF file[i].vector = NoVector THEN 0 ELSE i

(* The vector read at a place, whatever chunk its record belongs to.        *)
ReadAt(file, i) ==
  IF file # NoFile /\ i \in 1..Len(file) /\ file[i] \in Record
    THEN file[i].vector ELSE NoVector

Scanned(file) == [c \in Chunk |-> Newest(file, c)]

Recovered(file) == [c \in Chunk |-> ReadAt(file, Newest(file, c))]

(* The contents once records have been applied in order.                    *)
Applied(contents, records) ==
  [c \in Chunk |->
     LET own == {i \in DOMAIN records : records[i].chunk = c}
     IN  IF own = {} THEN contents[c] ELSE records[Max(own)].vector]

-----------------------------------------------------------------------------
(* Types *)

Image == Seq(Cell) \cup {NoFile}

Step == {"down", "truncate", "reheader", "reheader2", "resync", "publish", "publishdir",
         "idle", "header", "header2", "headerdir", "write", "sync", "rollback",
         "rename", "renamedir", "sidecar", "sidecardir"}

DiskTypeOK ==
  /\ seg \in Image /\ disk \subseteq Image /\ stale \subseteq Image
  /\ side \in Identity \cup {NoIdentity}
  /\ sideDisk \subseteq Identity \cup {NoIdentity}
  /\ end \in Nat /\ loc \in [Chunk -> 0..end]
  /\ identity \in Identity \cup {NoIdentity}
  /\ dirty \in BOOLEAN /\ view \in Image
  /\ step \in Step /\ recs \in Seq(Record)
  /\ mishaps \in 0..MaxMishaps
  /\ acked \in [Chunk -> Vector \cup {NoVector}]
  /\ limbo \in [Chunk -> SUBSET (Vector \cup {NoVector})]
  /\ spoiled \in BOOLEAN

DiskInit ==
  /\ seg = NoFile /\ disk = {NoFile} /\ stale = {}
  /\ side = NoIdentity /\ sideDisk = {NoIdentity}
  /\ loc = Nowhere /\ end = 0 /\ identity = NoIdentity
  /\ dirty = FALSE /\ view = NoFile
  /\ step = "down" /\ recs = <<>>
  /\ mishaps = 0
  /\ acked = Nothing /\ limbo = Certain /\ spoiled = FALSE

Mishap ==
  /\ mishaps < MaxMishaps
  /\ mishaps' = mishaps + 1

Fault(kind) == kind \in Faults /\ Mishap

Go(from, to) == step = from /\ step' = to

(* An unsynced change of the file's contents.                               *)
Changed(file) == seg' = file /\ disk' = disk \cup {file} /\ UNCHANGED stale

FileSynced == disk' = {seg} /\ UNCHANGED <<seg, stale>>

DirSynced ==
  /\ stale' = {} /\ sideDisk' = {side}
  /\ UNCHANGED <<seg, disk, side>>

(* The segment opened for writing, created if it is not there.              *)
Opened ==
  IF seg = NoFile
    THEN seg' = <<>> /\ disk' = {<<>>} /\ stale' = stale \cup {NoFile}
    ELSE UNCHANGED files

-----------------------------------------------------------------------------
(* Start-up: Load, then EnsureIdentity *)

(* Load drops a torn tail, by a truncation it does not sync, and believes   *)
(* the rest.                                                                *)
Load(wanted) ==
  LET n    == ScanEnd(seg)
      kept == IF HasHeader(seg) THEN SubSeq(seg, 1, n) ELSE seg
      new  == Recovered(seg)
  IN  /\ step = "down"
      /\ HasHeader(seg) \/ seg \in {NoFile, <<>>}
      /\ Changed(kept)
      /\ acked' = new
      /\ limbo' = [c \in Chunk |-> IF new[c] = acked[c] THEN limbo[c]
                                                       ELSE limbo[c] \cup {acked[c]}]
      /\ view' = NoFile
      /\ identity' = wanted
      /\ \/ /\ side = wanted
            /\ loc' = Scanned(seg) /\ end' = n
            /\ dirty' = FALSE
            /\ step' = "idle"
         \/ /\ side # wanted
            /\ loc' = Nowhere /\ end' = 0
            /\ dirty' = TRUE
            /\ step' = "truncate"
      /\ UNCHANGED <<sides, recs, mishaps, spoiled>>

(* Mutated form: the identity is renamed into place before the segment is   *)
(* emptied.                                                                 *)
TruncateNamed ==
  /\ Go("truncate", "reheader")
  /\ IF seg = NoFile THEN Opened ELSE Changed(<<>>)
  /\ acked' = Nothing
  /\ limbo' = [c \in Chunk |-> limbo[c] \cup {acked[c]}]
  /\ side' = identity /\ sideDisk' = sideDisk \cup {identity}
  /\ UNCHANGED <<memory, recs, mishaps, spoiled>>

(* Reset, with the new identity staged: truncateSegment ...                 *)
Truncate ==
  /\ Go("truncate", "reheader")
  /\ IF seg = NoFile THEN Opened ELSE Changed(<<>>)
  /\ acked' = Nothing
  /\ limbo' = [c \in Chunk |-> limbo[c] \cup {acked[c]}]
  /\ UNCHANGED <<sides, memory, recs, mishaps, spoiled>>

WriteHalf(from, to) ==
  /\ Go(from, to)
  /\ Changed(<<HalfHeader>>)
  /\ UNCHANGED <<sides, memory, recs, mishaps, ghosts>>

WriteRest(from, to) ==
  /\ Go(from, to)
  /\ Changed(<<Header>>)
  /\ UNCHANGED <<sides, memory, recs, mishaps, ghosts>>

SyncReset ==
  /\ Go("resync", "publish")
  /\ FileSynced
  /\ end' = 1
  /\ limbo' = Certain /\ spoiled' = FALSE
  /\ UNCHANGED <<sides, loc, identity, dirty, view, recs, mishaps, acked>>

(* ... and only then the identity.                                          *)
RenameSidecar(from, to) ==
  /\ Go(from, to)
  /\ side' = identity /\ sideDisk' = sideDisk \cup {identity}
  /\ UNCHANGED <<files, memory, recs, mishaps, ghosts>>

SyncPublished ==
  /\ Go("publishdir", "idle")
  /\ DirSynced
  /\ UNCHANGED <<memory, recs, mishaps, ghosts>>

(* A start-up that fails ends the process, as Kill does.                    *)

-----------------------------------------------------------------------------
(* Upsert, BatchUpsert, Delete: appendRecords *)

Upserts ==
  UNION {[1..n -> {r \in Record : r.vector # NoVector /\ r.vector.identity = identity}] :
           n \in 1..MaxBatch}

(* stageTombstones: one per known chunk.                                    *)
Tombstones ==
  {[i \in DOMAIN ids |-> [chunk |-> ids[i], vector |-> NoVector]] :
     ids \in {SetToSeq(cs) : cs \in SUBSET {c \in Chunk : loc[c] # 0} \ {{}}}}

(* The file is opened, and created if need be; ensureAppendEnd finds out    *)
(* where the log ends, unless that is known.                                *)
BeginAppend ==
  /\ Max({end, 1}) < MaxLog
  /\ recs' \in {r \in Upserts \cup Tombstones : Max({end, 1}) + Len(r) <= MaxLog}
  /\ Opened
  /\ IF end = 0 /\ seg \in {NoFile, <<>>}
       THEN Go("idle", "header") /\ UNCHANGED end
       ELSE Go("idle", "write") /\ end' = IF end = 0 THEN Len(seg) ELSE end
  /\ UNCHANGED <<sides, loc, identity, dirty, view, mishaps, ghosts>>

SyncCreated ==
  /\ Go("headerdir", "write")
  /\ DirSynced
  /\ end' = 1
  /\ UNCHANGED <<loc, identity, dirty, view, recs, mishaps, ghosts>>

InLimbo ==
  [c \in Chunk |-> limbo[c] \cup
     {recs[i].vector : i \in {k \in DOMAIN recs : recs[k].chunk = c}}]

WriteRecords ==
  /\ Go("write", "sync")
  /\ seg' = Put(seg, end, recs)
  /\ disk' = disk \cup {Put(seg, end, l) : l \in Landings(recs)}
  /\ limbo' = InLimbo
  /\ UNCHANGED <<stale, sides, memory, recs, mishaps, acked, spoiled>>

WriteFails ==
  /\ Go("write", "rollback")
  /\ Fault("write")
  /\ seg' \in {Put(seg, end, l) : l \in Landings(recs)}
  /\ disk' = disk \cup {Put(seg, end, l) : l \in Landings(recs)}
  /\ limbo' = InLimbo
  /\ UNCHANGED <<stale, sides, memory, recs, acked, spoiled>>

(* applyRecords: the last record of each chunk in slice order.              *)
Moved ==
  [c \in Chunk |->
     LET own == {i \in DOMAIN recs : recs[i].chunk = c}
     IN  IF own = {} THEN loc[c]
         ELSE IF recs[Max(own)].vector = NoVector THEN 0 ELSE end + Max(own)]

(* Mutated form: the mapped view outlives the append.                       *)
SyncRecordsMapped ==
  /\ Go("sync", "idle")
  /\ FileSynced
  /\ loc' = Moved
  /\ end' = end + Len(recs)
  /\ dirty' = TRUE
  /\ recs' = <<>>
  /\ acked' = Applied(acked, recs)
  /\ limbo' = Certain
  /\ UNCHANGED <<sides, identity, view, mishaps, spoiled>>

(* The barrier has held: the records are published in memory.               *)
SyncRecords ==
  /\ Go("sync", "idle")
  /\ FileSynced
  /\ loc' = Moved
  /\ end' = end + Len(recs)
  /\ dirty' = TRUE
  /\ view' = NoFile
  /\ recs' = <<>>
  /\ acked' = Applied(acked, recs)
  /\ limbo' = Certain
  /\ UNCHANGED <<sides, identity, mishaps, spoiled>>

SyncFails ==
  /\ Go("sync", "rollback")
  /\ Fault("sync")
  /\ UNCHANGED <<files, sides, memory, recs, ghosts>>

(* Mutated form: the abandoned records stay behind the end of the log.      *)
RollBackKept ==
  /\ Go("rollback", "idle")
  /\ view' = NoFile
  /\ recs' = <<>>
  /\ UNCHANGED <<files, sides, loc, end, identity, dirty, mishaps, ghosts>>

(* rollbackAppend: truncate, then sync; either may fail as well.            *)
RollBack ==
  /\ Go("rollback", "idle")
  /\ \/ /\ seg' = Resized(seg, end)
        /\ UNCHANGED spoiled
        /\ \/ disk' = {seg'} /\ limbo' = Certain /\ UNCHANGED mishaps
           \/ disk' = disk \cup {seg'} /\ Fault("sync") /\ UNCHANGED limbo
     \/ Fault("truncate") /\ spoiled' = TRUE /\ UNCHANGED <<seg, disk, limbo>>
  /\ view' = NoFile
  /\ recs' = <<>>
  /\ UNCHANGED <<stale, sides, loc, end, identity, dirty, acked>>

(* The header cannot be written, or the directory not synced: the append    *)
(* fails before it has written a record.                                    *)
OpenFails ==
  /\ \/ Go("header", "idle") /\ Fault("write") /\ UNCHANGED spoiled
     \/ Go("header2", "idle") /\ Fault("header") /\ spoiled' = TRUE
     \/ Go("headerdir", "idle") /\ Fault("dirsync") /\ UNCHANGED spoiled
  /\ recs' = <<>>
  /\ UNCHANGED <<files, sides, memory, acked, limbo>>

-----------------------------------------------------------------------------
(* Save, AutosaveTick: compaction *)

(* readerLocked *)
Mapped == IF view = NoFile THEN seg ELSE view

Readable == \A c \in Chunk : loc[c] # 0 => ReadAt(Mapped, loc[c]) # NoVector

(* A compaction that cannot read a record or write its copy leaves only the *)
(* view behind.                                                             *)
BeginSave ==
  /\ step = "idle" /\ dirty
  /\ view' = Mapped
  /\ \/ Readable /\ step' = "rename" /\ UNCHANGED mishaps
     \/ Readable /\ Fault("write") /\ UNCHANGED step
     \/ ~Readable /\ UNCHANGED <<step, mishaps>>
  /\ UNCHANGED <<files, sides, loc, end, identity, dirty, recs, ghosts>>

LiveIds ==
  CHOOSE ids \in SetToSeqs({c \in Chunk : loc[c] # 0}) :
    \A i, k \in DOMAIN ids : i < k => ids[i] < ids[k]

(* compactInto: the live records, by chunk, as the view has them.           *)
Compacted ==
  <<Header>> \o [i \in DOMAIN LiveIds |->
                   [chunk |-> LiveIds[i], vector |-> ReadAt(view, loc[LiveIds[i]])]]

RenameSegment ==
  /\ Go("rename", "renamedir")
  /\ seg' = Compacted /\ disk' = {Compacted}
  /\ stale' = stale \cup disk
  /\ UNCHANGED <<sides, memory, recs, mishaps, ghosts>>

(* Mutated form: the locators of the old segment are kept.                  *)
AdoptEnd ==
  /\ Go("renamedir", "sidecar")
  /\ DirSynced
  /\ end' = Len(seg)
  /\ view' = NoFile
  /\ spoiled' = FALSE
  /\ UNCHANGED <<loc, identity, dirty, recs, mishaps, acked, limbo>>

(* Save takes the new segment's locators once the rename is durable.        *)
AdoptSegment ==
  /\ Go("renamedir", "sidecar")
  /\ DirSynced
  /\ loc' = Scanned(seg) /\ end' = Len(seg)
  /\ view' = NoFile
  /\ spoiled' = FALSE
  /\ UNCHANGED <<identity, dirty, recs, mishaps, acked, limbo>>

FinishSave ==
  /\ Go("sidecardir", "idle")
  /\ DirSynced
  /\ dirty' = FALSE
  /\ UNCHANGED <<loc, end, identity, view, recs, mishaps, ghosts>>

(* An error on the way is returned at once; the index stays dirty.          *)
SaveFails ==
  /\ \/ Go("rename", "idle") /\ Fault("rename")
     \/ Go("renamedir", "idle") /\ Fault("dirsync")
     \/ Go("sidecar", "idle") /\ (Fault("stage") \/ Fault("rename"))
     \/ Go("sidecardir", "idle") /\ Fault("dirsync")
  /\ UNCHANGED <<files, sides, memory, recs, ghosts>>

(* ensureReader, the first half of Search.                                  *)
MapForSearch ==
  /\ step = "idle" /\ view = NoFile /\ seg # NoFile
  /\ view' = seg
  /\ UNCHANGED <<files, sides, loc, end, identity, dirty, step, recs, mishaps, ghosts>>

-----------------------------------------------------------------------------
(* The process ends *)

MemoryLost ==
  /\ step' = "down"
  /\ loc' = Nowhere /\ end' = 0 /\ identity' = NoIdentity
  /\ dirty' = FALSE /\ view' = NoFile /\ recs' = <<>>

(* A clean stop; a final Save, if there was one, has been an action before. *)
Stop ==
  /\ step = "idle"
  /\ MemoryLost
  /\ UNCHANGED <<files, sides, mishaps, ghosts>>

(* The file system keeps what it was given.  By the time the process is     *)
(* back, the directory has been written out.                                *)
Kill ==
  /\ step # "down"
  /\ Mishap
  /\ MemoryLost
  /\ stale' = {} /\ sideDisk' = {side}
  /\ UNCHANGED <<seg, disk, side, ghosts>>

PowerLoss ==
  /\ Mishap
  /\ MemoryLost
  /\ seg' \in disk \cup stale
  /\ disk' = {seg'} /\ stale' = {}
  /\ side' \in sideDisk
  /\ sideDisk' = {side'}
  /\ UNCHANGED ghosts

-----------------------------------------------------------------------------

StartUp ==
  \/ \E wanted \in Identity : Load(wanted)
  \/ Truncate
  \/ WriteHalf("reheader", "reheader2") \/ WriteRest("reheader2", "resync")
  \/ SyncReset
  \/ RenameSidecar("publish", "publishdir")
  \/ SyncPublished

Mutate ==
  \/ BeginAppend
  \/ WriteHalf("header", "header2") \/ WriteRest("header2", "headerdir")
  \/ SyncCreated
  \/ WriteRecords \/ WriteFails
  \/ SyncRecords \/ SyncFails
  \/ RollBack
  \/ OpenFails

Save ==
  \/ BeginSave
  \/ RenameSegment \/ AdoptSegment
  \/ RenameSidecar("sidecar", "sidecardir")
  \/ FinishSave
  \/ SaveFails

DiskNext ==
  \/ StartUp \/ Mutate \/ Save
  \/ MapForSearch
  \/ Stop \/ Kill \/ PowerLoss

DiskSpec == DiskInit /\ [][DiskNext]_dvars

-----------------------------------------------------------------------------
(* Properties *)

(* What a start-up after a crash now might find the segment to be.          *)
Images == {seg} \cup disk \cup stale

(* The map in memory and the file agree: what a search reads through the    *)
(* locators is what completed upserts and deletes left, across compactions, *)
(* failed and rolled back appends, and restarts.                            *)
SearchSeesAcked ==
  step = "idle" => \A c \in Chunk : ReadAt(Mapped, loc[c]) = acked[c]

(* Whatever a crash leaves of the segment, start-up recovers for each chunk *)
(* what the last completed operation left, or what a later one that did not *)
(* complete was about to.  Excepted is a segment that a failed truncation   *)
(* of a rollback or half a header has spoiled, until a Save or Reset.       *)
AckedIsDurable ==
  ~spoiled => \A file \in Images, c \in Chunk :
    Recovered(file)[c] \in {acked[c]} \cup limbo[c]

(* Vectors are never read back under another identity than their own, and   *)
(* the start-up after a crash never discards acknowledged vectors because   *)
(* the sidecar does not name theirs.                                        *)
IdentityFollowsVectors ==
  \A name \in {side} \cup sideDisk, c \in Chunk :
    /\ name # NoIdentity =>
         \A file \in Images :
           Recovered(file)[c] # NoVector => Recovered(file)[c].identity = name
    /\ acked[c] # NoVector => name = acked[c].identity

=============================================================================
