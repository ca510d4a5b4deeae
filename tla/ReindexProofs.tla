----------------------------- MODULE ReindexProofs -----------------------------
(***************************************************************************)
(* Proofs about Reindex, for any index files and documents and any number   *)
(* of failures and kills: the states are well typed, the index files are    *)
(* replaced as a whole and the recorded hashes are kept; and, if contents   *)
(* only move on and no daemon dies over an overwritten vector (Drift is     *)
(* empty), what a scan skips can be found.  Each invariant has a lemma      *)
(* that goes through the steps of Next one by one.                          *)
(***************************************************************************)
EXTENDS Reindex, TLAPS

(* What the running command knows of the saved hashes: they are there from  *)
(* the snapshot until they are dropped, they are dropped only where the     *)
(* live hashes say as much, and no document that the rebuild has still to   *)
(* read has a hash of its own.                                              *)
HashInv ==
  /\ pc \in {"drop", "clear", "forget", "stage", "build", "cut", "stamp",
             "undo_hashes", "undo_drop"} => snap # None
  /\ pc \in {"drop", "undo_drop"} =>
       \A d \in Doc : snap[d] # NoRow => hash[d] = snap[d]
  /\ pc \in {"clear", "forget"} => snap = hash
  /\ pc = "stage" => \A d \in Doc : hash[d] \notin Version
  /\ pc \in {"build", "cut", "stamp"} => \A d \in todo \cap Doc : hash[d] \notin Version
  /\ pc \in {"cut", "stamp"} => cur \in Doc \ todo /\ body \in Version

(* A call has failed.                                                       *)
Hit == faults > 0

(* What it knows of the marker: outside the two loops that remove backups   *)
(* it is there only after a failure, and while such a loop has removed all  *)
(* it came to, the rest is what is left.                                    *)
MarkerInv ==
  /\ failed => Hit
  /\ marker => pc \in {"down", "finish", "unlink"} \/ Hit
  /\ pc = "unlink" => marker \/ Hit
  /\ pc = "finish" => marker
  /\ pc = "adopt" => ~marker
  /\ pc \in {"finish", "unlink"} /\ ~failed => Kept \subseteq todo

(* And of the files: what a loop is to rename back is there, a rebuild has  *)
(* moved aside or found missing every file it has come to, and no backup is *)
(* left but its own.                                                        *)
StageInv ==
  /\ pc \in {"down", "adopt", "finish", "load", "restore", "drop", "reconcile",
             "serving", "snapshot", "clear", "forget"} => staged = {}
  /\ pc = "stage" =>
       /\ Kept \subseteq staged \cup todo
       /\ \A f \in File \ todo : live[f] = Absent
  /\ pc \in {"build", "cut", "stamp", "commit", "unlink"} =>
       /\ Kept \subseteq staged
       /\ \A f \in File : live[f] = Absent
  /\ pc \in {"stage", "build", "cut", "stamp", "undo_hashes",
    "undo_drop"} => staged \subseteq Kept
  /\ pc = "adopt" => todo \subseteq Kept
  /\ pc = "undo_files" => todo \subseteq Kept \cap staged

Inv == ReindexTypeOK /\ HashInv /\ MarkerInv /\ StageInv

-----------------------------------------------------------------------------
(* An index without vectors is an index.                                    *)
LEMMA EmptyImage == Empty \in Image
BY DEF Empty, Image, Cut

(* A failing call is within the limit.                                      *)
LEMMA FaultBound == ASSUME BoundsOK, Fault PROVE BoundsOK'
BY Limits DEF BoundsOK, Fault

(* A process that ends leaves its variables well typed.                     *)
LEMMA ExitTypes == ASSUME CommandOK, Exit PROVE CommandOK' /\ LocalOK' /\ DaemonOK'
<1>1. CommandOK'  BY DEF Exit, CommandOK
<1>2. LocalOK'  BY DEF Exit, LocalOK
<1>3. DaemonOK'  BY EmptyImage DEF Exit, DaemonOK
<1> QED  BY <1>1, <1>2, <1>3

(* What is left alone keeps its type.                                       *)
LEMMA Still ==
  ASSUME ReindexTypeOK
  PROVE  /\ UNCHANGED store => StoreOK'
         /\ UNCHANGED dir => DirOK'
         /\ UNCHANGED <<pc, cmd, todo>> => CommandOK'
         /\ UNCHANGED local => LocalOK'
         /\ UNCHANGED daemon => DaemonOK'
         /\ UNCHANGED bounds => BoundsOK'
         /\ UNCHANGED disk => (disk \in [Doc -> Version])'
<1> USE DEF ReindexTypeOK
<1>1. UNCHANGED store => StoreOK'  BY DEF StoreOK, store
<1>2. UNCHANGED dir => DirOK'  BY DEF DirOK, dir
<1>3. UNCHANGED <<pc, cmd, todo>> => CommandOK'  BY DEF CommandOK
<1>4. UNCHANGED local => LocalOK'  BY DEF LocalOK, local
<1>5. UNCHANGED daemon => DaemonOK'  BY DEF DaemonOK, daemon
<1>6. UNCHANGED bounds => BoundsOK'  BY DEF BoundsOK, bounds
<1> QED  BY <1>1, <1>2, <1>3, <1>4, <1>5, <1>6

(* Types are kept.                                                          *)
LEMMA TypeStep == Inv /\ [Next]_vars => ReindexTypeOK'
<1> SUFFICES ASSUME Inv, [Next]_vars PROVE ReindexTypeOK' OBVIOUS
<1> ReindexTypeOK  BY DEF Inv
<1> USE Still DEF ReindexTypeOK
<1>1. \A c \in {"up", "reindex"} : Start(c) => ReindexTypeOK'
  BY DEF Start, Kept, CommandOK, store, dir, local, daemon
<1>2. \A f \in File : Adopt(f) => ReindexTypeOK'
  BY ExitTypes, FaultBound DEF Adopt, DirOK, CommandOK, store, dir, local, daemon
<1>3. Adopted => ReindexTypeOK'
  BY DEF Adopted, Go, Ready, CommandOK, store, dir, local, daemon
<1>4. \A f \in File : Finish(f) => ReindexTypeOK'
  BY FaultBound DEF Finish, DirOK, CommandOK, LocalOK, store, dir, local, daemon
<1>5. Finished => ReindexTypeOK'
  BY FaultBound DEF Finished, Go, Ready, DirOK, CommandOK, LocalOK, store, dir, local,
     daemon
<1>6. RestoreHashes => ReindexTypeOK'
  BY ExitTypes, FaultBound DEF RestoreHashes, RestoredHashes, StoreOK, CommandOK,
     store, dir, local, daemon, Hashes, Inv, HashInv
<1>7. DropTable => ReindexTypeOK'
  BY ExitTypes, FaultBound DEF DropTable, StoreOK, CommandOK, store, dir, local, daemon
<1>8. Load => ReindexTypeOK'
  <2> SUFFICES ASSUME Load PROVE ReindexTypeOK' OBVIOUS
  <2>1. CASE Fault /\ Exit
    BY <2>1, ExitTypes, FaultBound DEF Load, store, dir
  <2>2. CASE ~(Fault /\ Exit)
    <3>1. mem' \in [File -> Image] /\ dirty' \subseteq File  BY <2>2, EmptyImage
      DEF Load, DirOK
    <3>2. DaemonOK' /\ CommandOK'  BY <2>2, <3>1 DEF Load, DaemonOK, CommandOK
    <3> QED  BY <2>2, <3>2 DEF Load, store, dir, local
  <2> QED  BY <2>1, <2>2
<1>9. Reconcile => ReindexTypeOK'
  BY DEF Reconcile, Go, Known, Vector, StoreOK, CommandOK, store, dir, local, daemon
<1>10. \A d \in Doc : Scan(d) => ReindexTypeOK'
  BY DEF Scan, StoreOK, store, dir, local, daemon, Image, Cut, Hashes
<1>11. \A d \in Doc : Embed(d) => ReindexTypeOK'
  BY Corpus DEF Embed, StoreOK, DaemonOK, store, dir, local, daemon, Image
<1>12. \A f \in File : SaveBegin(f) => ReindexTypeOK'
  BY DEF SaveBegin, DaemonOK, store, dir, local, daemon
<1>13. SaveEnd => ReindexTypeOK'
  BY EmptyImage DEF SaveEnd, DirOK, DaemonOK, store, dir, local, daemon
<1>14. SaveFails => ReindexTypeOK'
  BY FaultBound, EmptyImage DEF SaveFails, DaemonOK, store, dir, local, daemon
<1>15. Stop => ReindexTypeOK'
  BY ExitTypes DEF Stop, store, dir, local, daemon
<1>16. BackupHashes => ReindexTypeOK'
  BY ExitTypes, FaultBound DEF BackupHashes, StoreOK, CommandOK, store, dir, local,
     daemon
<1>17. ClearHashes => ReindexTypeOK'
  BY FaultBound DEF ClearHashes, StoreOK, CommandOK, store, dir, local, daemon, Hashes
<1>18. Staged => ReindexTypeOK'
  BY DEF Staged, Go, CommandOK, store, dir, local, daemon
<1>19. \A f \in File : Stage(f) => ReindexTypeOK'
  BY FaultBound DEF Stage, DirOK, CommandOK, LocalOK, store, dir, local, daemon
<1>20. \A d \in Doc : ReadDocument(d) => ReindexTypeOK'
  BY DEF ReadDocument, Go, StoreOK, CommandOK, LocalOK, store, dir, local, daemon,
     Hashes, Image, Cut
<1>21. CutChunks => ReindexTypeOK'
  BY DEF CutChunks, StoreOK, CommandOK, LocalOK, store, dir, local, daemon, Image, Cut,
     Inv, HashInv
<1>22. FailDocument => ReindexTypeOK'
  BY FaultBound DEF FailDocument, Go, StoreOK, CommandOK, LocalOK, store, dir, local,
     daemon, Inv, HashInv
<1>23. StampHash => ReindexTypeOK'
  BY DEF StampHash, Go, StoreOK, CommandOK, LocalOK, store, dir, local, daemon, Hashes,
     Image, Cut
<1>24. Interrupt => ReindexTypeOK'
  BY DEF Interrupt, CommandOK, LocalOK, store, dir, local, daemon
<1>25. Built => ReindexTypeOK'
  BY DEF Built, Go, CommandOK, store, dir, local, daemon
<1>26. WriteMarker => ReindexTypeOK'
  BY FaultBound DEF WriteMarker, Go, DirOK, CommandOK, LocalOK, store, dir, local,
     daemon
<1>27. RemoveMarker => ReindexTypeOK'
  BY FaultBound DEF RemoveMarker, Go, DirOK, CommandOK, store, dir, local, daemon
<1>28. DiscardTable => ReindexTypeOK'
  BY ExitTypes, FaultBound DEF DiscardTable, StoreOK, CommandOK, store, dir, local,
     daemon
<1>29. UndoHashes => ReindexTypeOK'
  BY FaultBound DEF UndoHashes, RestoredHashes, StoreOK, CommandOK, LocalOK, store,
     dir, local, daemon, Hashes, Inv, HashInv
<1>30. UndoTable => ReindexTypeOK'
  BY FaultBound DEF UndoTable, Go, StoreOK, CommandOK, LocalOK, store, dir, local,
     daemon
<1>31. Undone => ReindexTypeOK'
  BY ExitTypes DEF Undone, store, dir, local, daemon
<1>32. \A f \in File : Unlink(f) => ReindexTypeOK'
  BY FaultBound DEF Unlink, DirOK, CommandOK, LocalOK, store, dir, local, daemon
<1>33. \A f \in File : UndoFile(f) => ReindexTypeOK'
  BY FaultBound DEF UndoFile, DirOK, CommandOK, store, dir, local, daemon
<1>34. \A d \in Doc : Edit(d) => ReindexTypeOK'
  BY DEF Edit, store, dir, local, daemon
<1>35. Crash => ReindexTypeOK'
  BY ExitTypes, Limits DEF Crash, store, dir, local, daemon, BoundsOK, bounds
<1>36. CASE UNCHANGED vars
  BY <1>36 DEF vars, store, dir, local, daemon, bounds
<1> QED
  BY <1>1, <1>2, <1>3, <1>4, <1>5, <1>6, <1>7, <1>8, <1>9, <1>10, <1>11, <1>12, <1>13,
     <1>14, <1>15, <1>16, <1>17, <1>18, <1>19, <1>20, <1>21, <1>22, <1>23, <1>24,
       <1>25, <1>26, <1>27, <1>28, <1>29, <1>30, <1>31, <1>32, <1>33, <1>34, <1>35,
       <1>36 DEF Next, Work, Recovery, Serving, Rebuild, Settlement

(* What the steps below use of the types.                                   *)
LEMMA Basics ==
  ASSUME ReindexTypeOK
  PROVE  /\ Fault => Hit'
         /\ UNCHANGED bounds => Hit' = Hit
         /\ marker \in BOOLEAN /\ failed \in BOOLEAN
         /\ live \in [File -> Image \cup {Absent}] /\ back \in [File -> Image \cup {Absent}]
         /\ todo \subseteq File \cup Doc /\ staged \subseteq File
<1>1. Fault => Hit'  BY Limits DEF ReindexTypeOK, BoundsOK, Fault, Hit
<1>2. UNCHANGED bounds => Hit' = Hit  BY DEF bounds, Hit
<1> QED  BY <1>1, <1>2 DEF ReindexTypeOK, DirOK, CommandOK, LocalOK

(* What a command knows of the hashes stays true.                           *)
LEMMA HashStep == Inv /\ [Next]_vars => HashInv'
<1> SUFFICES ASSUME Inv, [Next]_vars PROVE HashInv' OBVIOUS
<1> USE Tokens, Table DEF Inv, HashInv, ReindexTypeOK, StoreOK, LocalOK, CommandOK,
     Hashes, store, dir, local, daemon, bounds
<1>1. \A c \in {"up", "reindex"} : Start(c) => HashInv'
  BY DEF Start, Kept
<1>2. \A f \in File : Adopt(f) => HashInv'
  BY DEF Adopt, Fault, Exit
<1>3. Adopted => HashInv'
  BY DEF Adopted, Go, Ready
<1>4. \A f \in File : Finish(f) => HashInv'
  BY DEF Finish, Fault
<1>5. Finished => HashInv'
  BY DEF Finished, Go, Ready, Fault
<1>6. RestoreHashes => HashInv'
  BY DEF RestoreHashes, Fault, Exit, RestoredHashes
<1>7. DropTable => HashInv'
  BY DEF DropTable, Fault, Exit
<1>8. Load => HashInv'
  BY DEF Load, Fault, Exit
<1>9. Reconcile => HashInv'
  BY DEF Reconcile, Go, Known, Vector
<1>10. \A d \in Doc : Scan(d) => HashInv'
  BY DEF Scan
<1>11. \A d \in Doc : Embed(d) => HashInv'
  BY DEF Embed
<1>12. \A f \in File : SaveBegin(f) => HashInv'
  BY DEF SaveBegin
<1>13. SaveEnd => HashInv'
  BY DEF SaveEnd
<1>14. SaveFails => HashInv'
  BY DEF SaveFails, Fault
<1>15. Stop => HashInv'
  BY DEF Stop, Exit
<1>16. BackupHashes => HashInv'
  BY DEF BackupHashes, Fault, Exit
<1>17. ClearHashes => HashInv'
  BY DEF ClearHashes, Fault
<1>18. Staged => HashInv'
  BY DEF Staged, Go
<1>19. \A f \in File : Stage(f) => HashInv'
  BY DEF Stage, Fault
<1>20. \A d \in Doc : ReadDocument(d) => HashInv'
  BY DEF ReadDocument, Go
<1>21. CutChunks => HashInv'
  BY DEF CutChunks
<1>22. FailDocument => HashInv'
  BY DEF FailDocument, Fault, Go
<1>23. StampHash => HashInv'
  BY DEF StampHash, Go
<1>24. Interrupt => HashInv'
  BY DEF Interrupt
<1>25. Built => HashInv'
  BY DEF Built, Go
<1>26. WriteMarker => HashInv'
  BY DEF WriteMarker, Fault, Go
<1>27. RemoveMarker => HashInv'
  BY DEF RemoveMarker, Fault, Go
<1>28. DiscardTable => HashInv'
  BY DEF DiscardTable, Fault, Exit
<1>29. UndoHashes => HashInv'
  BY DEF UndoHashes, Fault, RestoredHashes
<1>30. UndoTable => HashInv'
  BY DEF UndoTable, Fault, Go
<1>31. Undone => HashInv'
  BY DEF Undone, Exit
<1>32. \A f \in File : Unlink(f) => HashInv'
  BY DEF Unlink, Fault
<1>33. \A f \in File : UndoFile(f) => HashInv'
  BY DEF UndoFile, Fault
<1>34. \A d \in Doc : Edit(d) => HashInv'
  BY DEF Edit
<1>35. Crash => HashInv'
  BY DEF Crash, Exit
<1>36. CASE UNCHANGED vars
  BY <1>36 DEF vars, bounds
<1> QED
  BY <1>1, <1>2, <1>3, <1>4, <1>5, <1>6, <1>7, <1>8, <1>9, <1>10, <1>11, <1>12, <1>13,
     <1>14, <1>15, <1>16, <1>17, <1>18, <1>19, <1>20, <1>21, <1>22, <1>23, <1>24,
       <1>25, <1>26, <1>27, <1>28, <1>29, <1>30, <1>31, <1>32, <1>33, <1>34, <1>35,
       <1>36 DEF Next, Work, Recovery, Serving, Rebuild, Settlement

(* And what it knows of the marker.                                         *)
LEMMA MarkerStep == Inv /\ [Next]_vars => MarkerInv'
<1> SUFFICES ASSUME Inv, [Next]_vars PROVE MarkerInv' OBVIOUS
<1> USE Basics DEF Inv, MarkerInv, Kept, store, dir, local, daemon
<1>1. \A c \in {"up", "reindex"} : Start(c) => MarkerInv'
  BY DEF Start, Kept
<1>2. \A f \in File : Adopt(f) => MarkerInv'
  BY DEF Adopt, Exit
<1>3. Adopted => MarkerInv'
  BY DEF Adopted, Go, Ready
<1>4. \A f \in File : Finish(f) => MarkerInv'
  BY DEF Finish
<1>5. Finished => MarkerInv'
  BY DEF Finished, Go, Ready
<1>6. RestoreHashes => MarkerInv'
  BY DEF RestoreHashes, Exit, RestoredHashes
<1>7. DropTable => MarkerInv'
  BY DEF DropTable, Exit
<1>8. Load => MarkerInv'
  BY DEF Load, Exit
<1>9. Reconcile => MarkerInv'
  BY DEF Reconcile, Go, Known, Vector
<1>10. \A d \in Doc : Scan(d) => MarkerInv'
  BY DEF Scan
<1>11. \A d \in Doc : Embed(d) => MarkerInv'
  BY DEF Embed
<1>12. \A f \in File : SaveBegin(f) => MarkerInv'
  BY DEF SaveBegin
<1>13. SaveEnd => MarkerInv'
  BY DEF SaveEnd
<1>14. SaveFails => MarkerInv'
  BY DEF SaveFails
<1>15. Stop => MarkerInv'
  BY DEF Stop, Exit
<1>16. BackupHashes => MarkerInv'
  BY DEF BackupHashes, Exit
<1>17. ClearHashes => MarkerInv'
  BY DEF ClearHashes
<1>18. Staged => MarkerInv'
  BY DEF Staged, Go
<1>19. \A f \in File : Stage(f) => MarkerInv'
  BY DEF Stage
<1>20. \A d \in Doc : ReadDocument(d) => MarkerInv'
  BY DEF ReadDocument, Go
<1>21. CutChunks => MarkerInv'
  BY DEF CutChunks
<1>22. FailDocument => MarkerInv'
  BY DEF FailDocument, Go
<1>23. StampHash => MarkerInv'
  BY DEF StampHash, Go
<1>24. Interrupt => MarkerInv'
  BY DEF Interrupt
<1>25. Built => MarkerInv'
  BY DEF Built, Go
<1>26. WriteMarker => MarkerInv'
  <2> SUFFICES ASSUME WriteMarker PROVE MarkerInv' OBVIOUS
  <2> USE DEF WriteMarker, Go
  <2>1. pc = "commit" /\ pc' = "unlink" /\ failed' = failed /\ back' = back /\ todo' = staged OBVIOUS
  <2>2. Kept' \subseteq todo'  BY <2>1 DEF StageInv
  <2>3. (Hit => Hit') /\ (marker' \/ Hit')
    <3>1. CASE marker' = TRUE /\ UNCHANGED bounds  BY <3>1
    <3>2. CASE Fault  BY <3>2
    <3> QED  BY <3>1, <3>2
  <2> QED  BY <2>1, <2>2, <2>3
<1>27. RemoveMarker => MarkerInv'
  BY DEF RemoveMarker, Go
<1>28. DiscardTable => MarkerInv'
  BY DEF DiscardTable, Exit
<1>29. UndoHashes => MarkerInv'
  BY DEF UndoHashes, RestoredHashes
<1>30. UndoTable => MarkerInv'
  BY DEF UndoTable, Go
<1>31. Undone => MarkerInv'
  BY DEF Undone, Exit
<1>32. \A f \in File : Unlink(f) => MarkerInv'
  BY DEF Unlink
<1>33. \A f \in File : UndoFile(f) => MarkerInv'
  BY DEF UndoFile
<1>34. \A d \in Doc : Edit(d) => MarkerInv'
  BY DEF Edit
<1>35. Crash => MarkerInv'
  BY DEF Crash, Exit, Hit
<1>36. CASE UNCHANGED vars
  BY <1>36 DEF vars, bounds
<1> QED
  BY <1>1, <1>2, <1>3, <1>4, <1>5, <1>6, <1>7, <1>8, <1>9, <1>10, <1>11, <1>12, <1>13,
     <1>14, <1>15, <1>16, <1>17, <1>18, <1>19, <1>20, <1>21, <1>22, <1>23, <1>24,
       <1>25, <1>26, <1>27, <1>28, <1>29, <1>30, <1>31, <1>32, <1>33, <1>34, <1>35,
       <1>36 DEF Next, Work, Recovery, Serving, Rebuild, Settlement

(* And of the files.                                                        *)
LEMMA StageStep == Inv /\ [Next]_vars => StageInv'
<1> SUFFICES ASSUME Inv, [Next]_vars PROVE StageInv' OBVIOUS
<1> USE Basics DEF Inv, StageInv, Kept, store, dir, local, daemon
<1>1. \A c \in {"up", "reindex"} : Start(c) => StageInv'
  BY DEF Start, Kept
<1>2. \A f \in File : Adopt(f) => StageInv'
  BY DEF Adopt, Exit
<1>3. Adopted => StageInv'
  BY DEF Adopted, Go, Ready
<1>4. \A f \in File : Finish(f) => StageInv'
  BY DEF Finish
<1>5. Finished => StageInv'
  BY DEF Finished, Go, Ready
<1>6. RestoreHashes => StageInv'
  BY DEF RestoreHashes, Exit, RestoredHashes
<1>7. DropTable => StageInv'
  BY DEF DropTable, Exit
<1>8. Load => StageInv'
  BY DEF Load, Exit
<1>9. Reconcile => StageInv'
  BY DEF Reconcile, Go, Known, Vector
<1>10. \A d \in Doc : Scan(d) => StageInv'
  BY DEF Scan
<1>11. \A d \in Doc : Embed(d) => StageInv'
  BY DEF Embed
<1>12. \A f \in File : SaveBegin(f) => StageInv'
  BY DEF SaveBegin
<1>13. SaveEnd => StageInv'
  BY DEF SaveEnd
<1>14. SaveFails => StageInv'
  BY DEF SaveFails
<1>15. Stop => StageInv'
  BY DEF Stop, Exit
<1>16. BackupHashes => StageInv'
  BY DEF BackupHashes, Exit
<1>17. ClearHashes => StageInv'
  BY DEF ClearHashes
<1>18. Staged => StageInv'
  BY DEF Staged, Go
<1>19. \A f \in File : Stage(f) => StageInv'
  BY DEF Stage
<1>20. \A d \in Doc : ReadDocument(d) => StageInv'
  BY DEF ReadDocument, Go
<1>21. CutChunks => StageInv'
  BY DEF CutChunks
<1>22. FailDocument => StageInv'
  BY DEF FailDocument, Go
<1>23. StampHash => StageInv'
  BY DEF StampHash, Go
<1>24. Interrupt => StageInv'
  BY DEF Interrupt
<1>25. Built => StageInv'
  BY DEF Built, Go
<1>26. WriteMarker => StageInv'
  BY DEF WriteMarker, Go
<1>27. RemoveMarker => StageInv'
  BY DEF RemoveMarker, Go
<1>28. DiscardTable => StageInv'
  BY DEF DiscardTable, Exit
<1>29. UndoHashes => StageInv'
  BY DEF UndoHashes, RestoredHashes
<1>30. UndoTable => StageInv'
  BY DEF UndoTable, Go
<1>31. Undone => StageInv'
  BY DEF Undone, Exit
<1>32. \A f \in File : Unlink(f) => StageInv'
  BY DEF Unlink
<1>33. \A f \in File : UndoFile(f) => StageInv'
  BY DEF UndoFile
<1>34. \A d \in Doc : Edit(d) => StageInv'
  BY DEF Edit
<1>35. Crash => StageInv'
  BY DEF Crash, Exit
<1>36. CASE UNCHANGED vars
  BY <1>36 DEF vars, bounds
<1> QED
  BY <1>1, <1>2, <1>3, <1>4, <1>5, <1>6, <1>7, <1>8, <1>9, <1>10, <1>11, <1>12, <1>13,
     <1>14, <1>15, <1>16, <1>17, <1>18, <1>19, <1>20, <1>21, <1>22, <1>23, <1>24,
       <1>25, <1>26, <1>27, <1>28, <1>29, <1>30, <1>31, <1>32, <1>33, <1>34, <1>35,
       <1>36 DEF Next, Work, Recovery, Serving, Rebuild, Settlement

-----------------------------------------------------------------------------
(* A corpus at rest satisfies the invariant.                                *)
LEMMA InvInit == Init => Inv
<1> SUFFICES ASSUME Init PROVE Inv OBVIOUS
<1> USE DEF Init
<1>1. StoreOK  BY Limits, Tokens DEF StoreOK, Hashes, Image, Cut, Version
<1>2. DirOK
  <2>1. PICK old \in SUBSET Doc :
          live = [f \in File |->
                    IF \E d \in old : FileOf[d] = f
                    THEN [d \in Doc |-> IF d \in old /\ FileOf[d] = f THEN 0 ELSE None]
                    ELSE Absent]
   OBVIOUS
  <2> 0 \in Version  BY Limits DEF Version
  <2>2. \A f \in File : [d \in Doc |-> IF d \in old /\ FileOf[d] = f THEN 0 ELSE None] \in Image
    BY DEF Image, Cut
  <2>3. live \in [File -> Image \cup {Absent}]  BY <2>1, <2>2
  <2> QED  BY <2>3 DEF DirOK
<1>3. CommandOK /\ LocalOK  BY DEF CommandOK, LocalOK
<1>4. DaemonOK  BY EmptyImage DEF DaemonOK
<1>5. BoundsOK /\ disk \in [Doc -> Version]  BY Limits DEF BoundsOK, Version
<1>6. HashInv /\ MarkerInv /\ StageInv  BY DEF HashInv, MarkerInv, StageInv
<1> QED  BY <1>1, <1>2, <1>3, <1>4, <1>5, <1>6 DEF Inv, ReindexTypeOK

(* And so does every state that the commands and the daemon can reach.      *)
THEOREM Invariant == Spec => []Inv
<1>1. Inv /\ [Next]_vars => Inv'  BY TypeStep, HashStep, MarkerStep, StageStep DEF Inv
<1> QED  BY InvInit, <1>1, PTL DEF Spec

(* Every state of the two commands and the daemon is well typed, for any    *)
(* index files, documents, edits, failing calls and kills.                  *)
THEOREM ReindexTypeCorrect == Spec => []ReindexTypeOK
<1>1. Inv => ReindexTypeOK  BY DEF Inv
<1> QED  BY Invariant, <1>1, PTL

(* The step that GateKept and the one that GenerationIsAtomic allows.       *)
HashKept ==
  \A d \in Doc : Gate(d) \in Version /\ Gate(d)' \notin Version => pc = "discard"

Whole ==
  \/ \A f \in File : Good(f)' = Good(f)
  \/ pc = "serving"
  \/ pc = "commit" /\ \A f \in File : Good(f)' = Absent
  \/ pc = "unlink" /\ ~marker /\ Hit
  \/ pc \in {"stage", "undo_files"} /\ marker /\ Hit

(* A recorded hash survives every step but the last one of a finished       *)
(* rebuild, be it in its row or in the table of saved hashes.               *)
LEMMA GateStep == Inv /\ [Next]_vars => HashKept
<1> SUFFICES ASSUME Inv, [Next]_vars PROVE HashKept OBVIOUS
<1> USE Tokens DEF Inv, HashInv, HashKept, Gate, ReindexTypeOK, StoreOK, Hashes, store
<1>1. \A c \in {"up", "reindex"} : Start(c) => HashKept
  BY DEF Start, Kept
<1>2. \A f \in File : Adopt(f) => HashKept
  BY DEF Adopt, Fault, Exit
<1>3. Adopted => HashKept
  BY DEF Adopted, Go, Ready
<1>4. \A f \in File : Finish(f) => HashKept
  BY DEF Finish, Fault
<1>5. Finished => HashKept
  BY DEF Finished, Go, Ready, Fault
<1>6. RestoreHashes => HashKept
  BY DEF RestoreHashes, Fault, Exit, RestoredHashes
<1>7. DropTable => HashKept
  BY DEF DropTable, Fault, Exit
<1>8. Load => HashKept
  BY DEF Load, Fault, Exit
<1>9. Reconcile => HashKept
  BY DEF Reconcile, Go, Known, Vector
<1>10. \A d \in Doc : Scan(d) => HashKept
  BY DEF Scan
<1>11. \A d \in Doc : Embed(d) => HashKept
  BY DEF Embed
<1>12. \A f \in File : SaveBegin(f) => HashKept
  BY DEF SaveBegin
<1>13. SaveEnd => HashKept
  BY DEF SaveEnd
<1>14. SaveFails => HashKept
  BY DEF SaveFails, Fault
<1>15. Stop => HashKept
  BY DEF Stop, Exit
<1>16. BackupHashes => HashKept
  BY DEF BackupHashes, Fault, Exit
<1>17. ClearHashes => HashKept
  BY DEF ClearHashes, Fault
<1>18. Staged => HashKept
  BY DEF Staged, Go
<1>19. \A f \in File : Stage(f) => HashKept
  BY DEF Stage, Fault
<1>20. \A d \in Doc : ReadDocument(d) => HashKept
  BY DEF ReadDocument, Go
<1>21. CutChunks => HashKept
  BY DEF CutChunks
<1>22. FailDocument => HashKept
  BY DEF FailDocument, Fault, Go
<1>23. StampHash => HashKept
  BY DEF StampHash, Go
<1>24. Interrupt => HashKept
  BY DEF Interrupt
<1>25. Built => HashKept
  BY DEF Built, Go
<1>26. WriteMarker => HashKept
  BY DEF WriteMarker, Fault, Go
<1>27. RemoveMarker => HashKept
  BY DEF RemoveMarker, Fault, Go
<1>28. DiscardTable => HashKept
  BY DEF DiscardTable, Fault, Exit
<1>29. UndoHashes => HashKept
  BY DEF UndoHashes, Fault, RestoredHashes
<1>30. UndoTable => HashKept
  BY DEF UndoTable, Fault, Go
<1>31. Undone => HashKept
  BY DEF Undone, Exit
<1>32. \A f \in File : Unlink(f) => HashKept
  BY DEF Unlink, Fault
<1>33. \A f \in File : UndoFile(f) => HashKept
  BY DEF UndoFile, Fault
<1>34. \A d \in Doc : Edit(d) => HashKept
  BY DEF Edit
<1>35. Crash => HashKept
  BY DEF Crash, Exit
<1>36. CASE UNCHANGED vars
  BY <1>36 DEF vars, bounds
<1> QED
  BY <1>1, <1>2, <1>3, <1>4, <1>5, <1>6, <1>7, <1>8, <1>9, <1>10, <1>11, <1>12, <1>13,
     <1>14, <1>15, <1>16, <1>17, <1>18, <1>19, <1>20, <1>21, <1>22, <1>23, <1>24,
       <1>25, <1>26, <1>27, <1>28, <1>29, <1>30, <1>31, <1>32, <1>33, <1>34, <1>35,
       <1>36 DEF Next, Work, Recovery, Serving, Rebuild, Settlement

(* GateKept: neither a kill nor a failing call makes the corpus be read     *)
(* again, whatever was under way.                                           *)
THEOREM HashesKept == Spec => GateKept
<1>1. Inv /\ [Next]_vars =>
        [\A d \in Doc : Gate(d) \in Version /\ Gate(d)' \notin Version => pc = "discard"]_vars
  BY GateStep DEF HashKept
<1> QED  BY Invariant, <1>1, PTL DEF Spec, GateKept

(* The marker goes with the last backup, or stays.                          *)
LEMMA FinishedKeeps ==
  ASSUME Inv, Finished
  PROVE  (\A f \in File : Good(f)' = Good(f)) /\ (marker' \/ Kept' = {})
<1> USE DEF Inv, MarkerInv, Finished, Go, Good, Kept, dir
<1>1. marker /\ UNCHANGED <<live, back>> OBVIOUS
<1>2. CASE failed  BY <1>1, <1>2
<1>3. CASE ~failed
  <2>1. \A f \in File : back[f] = Absent  BY <1>3
  <2> QED  BY <1>1, <2>1
<1> QED  BY <1>2, <1>3

(* What a recovery would leave live is replaced as a whole.                 *)
LEMMA GenerationStep == Inv /\ [Next]_vars => Whole
<1> SUFFICES ASSUME Inv, [Next]_vars PROVE Whole OBVIOUS
<1> USE Basics DEF Inv, MarkerInv, StageInv, Whole, Good, Kept, dir
<1>1. \A c \in {"up", "reindex"} : Start(c) => Whole
  BY DEF Start, Kept
<1>2. \A f \in File : Adopt(f) => Whole
  BY DEF Adopt
<1>3. Adopted => Whole
  BY DEF Adopted, Go, Ready
<1>4. \A f \in File : Finish(f) => Whole
  BY DEF Finish
<1>5. Finished => Whole
  BY FinishedKeeps
<1>6. RestoreHashes => Whole
  BY DEF RestoreHashes, RestoredHashes
<1>7. DropTable => Whole
  BY DEF DropTable
<1>8. Load => Whole
  BY DEF Load
<1>9. Reconcile => Whole
  BY DEF Reconcile, Go, Known, Vector
<1>10. \A d \in Doc : Scan(d) => Whole
  BY DEF Scan
<1>11. \A d \in Doc : Embed(d) => Whole
  BY DEF Embed
<1>12. \A f \in File : SaveBegin(f) => Whole
  BY DEF SaveBegin
<1>13. SaveEnd => Whole
  BY DEF SaveEnd
<1>14. SaveFails => Whole
  BY DEF SaveFails
<1>15. Stop => Whole
  BY DEF Stop
<1>16. BackupHashes => Whole
  BY DEF BackupHashes
<1>17. ClearHashes => Whole
  BY DEF ClearHashes
<1>18. Staged => Whole
  BY DEF Staged, Go
<1>19. \A f \in File : Stage(f) => Whole
  BY DEF Stage
<1>20. \A d \in Doc : ReadDocument(d) => Whole
  BY DEF ReadDocument, Go
<1>21. CutChunks => Whole
  BY DEF CutChunks
<1>22. FailDocument => Whole
  BY DEF FailDocument, Go
<1>23. StampHash => Whole
  BY DEF StampHash, Go
<1>24. Interrupt => Whole
  BY DEF Interrupt
<1>25. Built => Whole
  BY DEF Built, Go
<1>26. WriteMarker => Whole
  <2> SUFFICES ASSUME WriteMarker PROVE Whole OBVIOUS
  <2> USE DEF WriteMarker, Go
  <2>1. UNCHANGED <<live, back>> /\ \A f \in File : live[f] = Absent OBVIOUS
  <2>2. CASE marker' = TRUE  BY <2>1, <2>2
  <2>3. CASE marker' = marker  BY <2>1, <2>3
  <2> QED  BY <2>2, <2>3
<1>27. RemoveMarker => Whole
  BY DEF RemoveMarker, Go
<1>28. DiscardTable => Whole
  BY DEF DiscardTable
<1>29. UndoHashes => Whole
  BY DEF UndoHashes, RestoredHashes
<1>30. UndoTable => Whole
  BY DEF UndoTable, Go
<1>31. Undone => Whole
  BY DEF Undone
<1>32. \A f \in File : Unlink(f) => Whole
  BY DEF Unlink
<1>33. \A f \in File : UndoFile(f) => Whole
  BY DEF UndoFile
<1>34. \A d \in Doc : Edit(d) => Whole
  BY DEF Edit
<1>35. Crash => Whole
  BY DEF Crash
<1>36. CASE UNCHANGED vars
  BY <1>36 DEF vars, bounds
<1> QED
  BY <1>1, <1>2, <1>3, <1>4, <1>5, <1>6, <1>7, <1>8, <1>9, <1>10, <1>11, <1>12, <1>13,
     <1>14, <1>15, <1>16, <1>17, <1>18, <1>19, <1>20, <1>21, <1>22, <1>23, <1>24,
       <1>25, <1>26, <1>27, <1>28, <1>29, <1>30, <1>31, <1>32, <1>33, <1>34, <1>35,
       <1>36 DEF Next, Work, Recovery, Serving, Rebuild, Settlement

(* GenerationIsAtomic: no kill and no failing call mixes the index files of *)
(* two generations, or loses the last good one.                             *)
THEOREM AtomicGeneration == Spec => GenerationIsAtomic
<1>1. Inv /\ [Next]_vars =>
        [\/ \A f \in File : Good(f)' = Good(f)
         \/ pc = "serving"
         \/ pc = "commit" /\ \A f \in File : Good(f)' = Absent
         \/ pc = "unlink" /\ ~marker /\ faults > 0
         \/ pc \in {"stage", "undo_files"} /\ marker /\ faults > 0]_vars
  BY GenerationStep DEF Whole, Hit
<1> QED  BY Invariant, <1>1, PTL DEF Spec, GenerationIsAtomic

-----------------------------------------------------------------------------
(* What is skipped can be found                                             *)

(* A hash h on record for d says no more than the chunks do.                *)
Covered(h, d) ==
  h \in Version => /\ h <= disk[d]
                   /\ rows[d] # Part => rows[d] \in Version /\ h <= rows[d]

(* Contents only move on, and so do chunks and hashes after them.           *)
RowInv ==
  /\ \A d \in Doc : rows[d] \in Version => rows[d] <= disk[d]
  /\ \A d \in Doc : Covered(hash[d], d)
  /\ snap # None => \A d \in Doc : Covered(snap[d], d)
  /\ pc \in {"cut", "stamp"} =>
       /\ body <= disk[cur] /\ hash[cur] = None
       /\ snap[cur] \in Version => snap[cur] <= body
  /\ pc = "stamp" => rows[cur] = body

(* When recovery is over, what is live is what it led to.                   *)
SettledInv ==
  /\ pc = "adopt" => Kept \subseteq todo
  /\ pc \in {"load", "restore", "drop", "reconcile", "serving", "snapshot",
             "clear", "forget"} => marker \/ Kept = {}

(* What an index says of the documents that wait for nothing is true, or    *)
(* nothing.                                                                 *)
Fits(image, d) == image # Absent => image[d] \in {None, rows[d]}
VectorInv ==
  \A d \in Doc : d \notin queued /\ rows[d] # None =>
    /\ pc # "serving" => Fits(Good(FileOf[d]), d)
    /\ FileOf[d] \in staged => Fits(back[FileOf[d]], d)
    /\ pc \in {"restore", "drop", "reconcile"} /\ cmd = "up" => Vector(d) \in {None,
      rows[d]}
    /\ pc = "serving" => Vector(d) = rows[d]

(* The daemon's index is on disk, or due to be saved.                       *)
ServeInv ==
  /\ pc \in {"load", "reconcile", "serving"} => cmd = "up"
  /\ pc \in {"restore", "drop", "reconcile", "serving"} /\ cmd = "up" =>
       \A f \in File : f \in dirty \/ live[f] = mem[f]
  /\ pc # "serving" => saving = None
  /\ pc = "serving" /\ saving # None =>
       saving \in dirty /\ (~changed => copy = mem[saving])

FullInv == Inv /\ RowInv /\ SettledInv /\ VectorInv /\ ServeInv

(* Hashes and chunks only move on with the contents.                        *)
LEMMA RowStep == Drift = {} /\ Inv /\ RowInv /\ [Next]_vars => RowInv'
<1> SUFFICES ASSUME Drift = {} /\ Inv /\ RowInv, [Next]_vars PROVE RowInv' OBVIOUS
<1> USE Tokens, Table, Limits DEF Inv, HashInv, RowInv, Covered, ReindexTypeOK,
     StoreOK, LocalOK, CommandOK, Hashes, Image, Cut, Version, store, local
<1>1. \A c \in {"up", "reindex"} : Start(c) => RowInv'
  BY DEF Start, Kept
<1>2. \A f \in File : Adopt(f) => RowInv'
  BY DEF Adopt, Fault, Exit
<1>3. Adopted => RowInv'
  BY DEF Adopted, Go, Ready
<1>4. \A f \in File : Finish(f) => RowInv'
  BY DEF Finish, Fault
<1>5. Finished => RowInv'
  BY DEF Finished, Go, Ready, Fault
<1>6. RestoreHashes => RowInv'
  BY DEF RestoreHashes, Fault, Exit, RestoredHashes
<1>7. DropTable => RowInv'
  BY DEF DropTable, Fault, Exit
<1>8. Load => RowInv'
  BY DEF Load, Fault, Exit
<1>9. Reconcile => RowInv'
  BY DEF Reconcile, Go, Known, Vector
<1>10. \A d \in Doc : Scan(d) => RowInv'
  BY DEF Scan
<1>11. \A d \in Doc : Embed(d) => RowInv'
  BY DEF Embed
<1>12. \A f \in File : SaveBegin(f) => RowInv'
  BY DEF SaveBegin
<1>13. SaveEnd => RowInv'
  BY DEF SaveEnd
<1>14. SaveFails => RowInv'
  BY DEF SaveFails, Fault
<1>15. Stop => RowInv'
  BY DEF Stop, Exit
<1>16. BackupHashes => RowInv'
  BY DEF BackupHashes, Fault, Exit
<1>17. ClearHashes => RowInv'
  BY DEF ClearHashes, Fault
<1>18. Staged => RowInv'
  BY DEF Staged, Go
<1>19. \A f \in File : Stage(f) => RowInv'
  BY DEF Stage, Fault
<1>20. \A d \in Doc : ReadDocument(d) => RowInv'
  BY DEF ReadDocument, Go
<1>21. CutChunks => RowInv'
  BY DEF CutChunks
<1>22. FailDocument => RowInv'
  BY DEF FailDocument, Fault, Go
<1>23. StampHash => RowInv'
  BY DEF StampHash, Go
<1>24. Interrupt => RowInv'
  BY DEF Interrupt
<1>25. Built => RowInv'
  BY DEF Built, Go
<1>26. WriteMarker => RowInv'
  BY DEF WriteMarker, Fault, Go
<1>27. RemoveMarker => RowInv'
  BY DEF RemoveMarker, Fault, Go
<1>28. DiscardTable => RowInv'
  BY DEF DiscardTable, Fault, Exit
<1>29. UndoHashes => RowInv'
  BY DEF UndoHashes, Fault, RestoredHashes
<1>30. UndoTable => RowInv'
  BY DEF UndoTable, Fault, Go
<1>31. Undone => RowInv'
  BY DEF Undone, Exit
<1>32. \A f \in File : Unlink(f) => RowInv'
  BY DEF Unlink, Fault
<1>33. \A f \in File : UndoFile(f) => RowInv'
  BY DEF UndoFile, Fault
<1>34. \A d \in Doc : Edit(d) => RowInv'
  BY DEF Edit
<1>35. Crash => RowInv'
  BY DEF Crash, Exit
<1>36. CASE UNCHANGED vars
  BY <1>36 DEF vars, bounds
<1> QED
  BY <1>1, <1>2, <1>3, <1>4, <1>5, <1>6, <1>7, <1>8, <1>9, <1>10, <1>11, <1>12, <1>13,
     <1>14, <1>15, <1>16, <1>17, <1>18, <1>19, <1>20, <1>21, <1>22, <1>23, <1>24,
       <1>25, <1>26, <1>27, <1>28, <1>29, <1>30, <1>31, <1>32, <1>33, <1>34, <1>35,
       <1>36 DEF Next, Work, Recovery, Serving, Rebuild, Settlement

(* Recovery has settled what it found.                                      *)
LEMMA SettledStep == Inv /\ SettledInv /\ [Next]_vars => SettledInv'
<1> SUFFICES ASSUME Inv /\ SettledInv, [Next]_vars PROVE SettledInv' OBVIOUS
<1> USE Basics DEF Inv, MarkerInv, SettledInv, Kept, dir
<1>1. \A c \in {"up", "reindex"} : Start(c) => SettledInv'
  BY DEF Start, Kept
<1>2. \A f \in File : Adopt(f) => SettledInv'
  BY DEF Adopt, Exit
<1>3. Adopted => SettledInv'
  BY DEF Adopted, Go, Ready
<1>4. \A f \in File : Finish(f) => SettledInv'
  BY DEF Finish
<1>5. Finished => SettledInv'
  BY FinishedKeeps DEF Finished, Go, Ready
<1>6. RestoreHashes => SettledInv'
  BY DEF RestoreHashes, Exit, RestoredHashes
<1>7. DropTable => SettledInv'
  BY DEF DropTable, Exit
<1>8. Load => SettledInv'
  BY DEF Load, Exit
<1>9. Reconcile => SettledInv'
  BY DEF Reconcile, Go, Known, Vector
<1>10. \A d \in Doc : Scan(d) => SettledInv'
  BY DEF Scan
<1>11. \A d \in Doc : Embed(d) => SettledInv'
  BY DEF Embed
<1>12. \A f \in File : SaveBegin(f) => SettledInv'
  BY DEF SaveBegin
<1>13. SaveEnd => SettledInv'
  BY DEF SaveEnd
<1>14. SaveFails => SettledInv'
  BY DEF SaveFails
<1>15. Stop => SettledInv'
  BY DEF Stop, Exit
<1>16. BackupHashes => SettledInv'
  BY DEF BackupHashes, Exit
<1>17. ClearHashes => SettledInv'
  BY DEF ClearHashes
<1>18. Staged => SettledInv'
  BY DEF Staged, Go
<1>19. \A f \in File : Stage(f) => SettledInv'
  BY DEF Stage
<1>20. \A d \in Doc : ReadDocument(d) => SettledInv'
  BY DEF ReadDocument, Go
<1>21. CutChunks => SettledInv'
  BY DEF CutChunks
<1>22. FailDocument => SettledInv'
  BY DEF FailDocument, Go
<1>23. StampHash => SettledInv'
  BY DEF StampHash, Go
<1>24. Interrupt => SettledInv'
  BY DEF Interrupt
<1>25. Built => SettledInv'
  BY DEF Built, Go
<1>26. WriteMarker => SettledInv'
  BY DEF WriteMarker, Go
<1>27. RemoveMarker => SettledInv'
  BY DEF RemoveMarker, Go
<1>28. DiscardTable => SettledInv'
  BY DEF DiscardTable, Exit
<1>29. UndoHashes => SettledInv'
  BY DEF UndoHashes, RestoredHashes
<1>30. UndoTable => SettledInv'
  BY DEF UndoTable, Go
<1>31. Undone => SettledInv'
  BY DEF Undone, Exit
<1>32. \A f \in File : Unlink(f) => SettledInv'
  BY DEF Unlink
<1>33. \A f \in File : UndoFile(f) => SettledInv'
  BY DEF UndoFile
<1>34. \A d \in Doc : Edit(d) => SettledInv'
  BY DEF Edit
<1>35. Crash => SettledInv'
  BY DEF Crash, Exit
<1>36. CASE UNCHANGED vars
  BY <1>36 DEF vars, bounds
<1> QED
  BY <1>1, <1>2, <1>3, <1>4, <1>5, <1>6, <1>7, <1>8, <1>9, <1>10, <1>11, <1>12, <1>13,
     <1>14, <1>15, <1>16, <1>17, <1>18, <1>19, <1>20, <1>21, <1>22, <1>23, <1>24,
       <1>25, <1>26, <1>27, <1>28, <1>29, <1>30, <1>31, <1>32, <1>33, <1>34, <1>35,
       <1>36 DEF Next, Work, Recovery, Serving, Rebuild, Settlement

(* The index says nothing untrue of a document that waits for nothing.      *)
LEMMA VectorStep == Drift = {} /\ Inv /\ SettledInv /\ VectorInv /\ ServeInv /\ [Next]_vars => VectorInv'
<1> SUFFICES ASSUME Drift = {} /\ Inv /\ SettledInv /\ VectorInv /\ ServeInv,
          [Next]_vars PROVE VectorInv' OBVIOUS
<1> USE Basics, Corpus, Files, Tokens DEF Inv, MarkerInv, StageInv, SettledInv,
     VectorInv, Fits, Good, Kept, Vector, store, dir, local, daemon
<1>1. \A c \in {"up", "reindex"} : Start(c) => VectorInv'
  BY DEF Start, Kept
<1>2. \A f \in File : Adopt(f) => VectorInv'
  BY DEF Adopt, Exit
<1>3. Adopted => VectorInv'
  BY DEF Adopted, Go, Ready
<1>4. \A f \in File : Finish(f) => VectorInv'
  BY DEF Finish
<1>5. Finished => VectorInv'
  <2> SUFFICES ASSUME Finished PROVE VectorInv' OBVIOUS
  <2>1. \A f \in File : Good(f)' = Good(f)  BY FinishedKeeps
  <2>2. pc = "finish" /\ pc' \in {"load", "restore"} /\ UNCHANGED <<back, staged, mem>>
        /\ UNCHANGED <<queued, rows, cmd>>
    BY DEF Finished, Go, Ready
  <2>3. pc' = "restore" => cmd # "up"  BY DEF Finished, Go, Ready
  <2> HIDE DEF Good
  <2> QED  BY <2>1, <2>2, <2>3
<1>6. RestoreHashes => VectorInv'
  BY DEF RestoreHashes, Exit, RestoredHashes
<1>7. DropTable => VectorInv'
  BY DEF DropTable, Exit
<1>8. Load => VectorInv'
  <2> SUFFICES ASSUME Load PROVE VectorInv' OBVIOUS
  <2> USE DEF Load
  <2>1. pc = "load" /\ UNCHANGED <<live, back, marker, queued,
    rows>> /\ staged = {} OBVIOUS
  <2>2. staged' = {}  BY DEF Exit
  <2>3. CASE Fault /\ Exit
    <3>1. pc' = "down"  BY <2>3 DEF Exit
    <3> QED  BY <2>1, <2>2, <3>1
  <2>4. CASE ~(Fault /\ Exit)
    <3>1. pc' = "restore" /\ mem' = [f \in File |-> IF live[f] = Absent THEN Empty ELSE live[f]]
      BY <2>4
    <3>2. \A f \in File : Good(f) = live[f]  BY <2>1
    <3>3. \A d \in Doc : Vector(d)' = IF live[FileOf[d]] = Absent THEN None ELSE live[FileOf[d]][d]
      BY <3>1 DEF Empty
    <3>4. \A f \in File : Good(f)' = Good(f)  BY <2>1
    <3> HIDE DEF Good, Vector, Load
    <3> QED  BY <2>1, <2>2, <3>1, <3>2, <3>3, <3>4
  <2> QED  BY <2>3, <2>4
<1>9. Reconcile => VectorInv'
  <2> SUFFICES ASSUME Reconcile PROVE VectorInv' OBVIOUS
  <2>1. /\ pc = "reconcile" /\ pc' = "serving" /\ cmd = "up" /\ staged = {}
        /\ UNCHANGED <<mem, rows, staged>>
        /\ queued' = queued \cup {d \in Known : Vector(d) = None}
    BY DEF Reconcile, Go, ServeInv
  <2>2. \A d \in Doc : Vector(d)' = Vector(d)  BY <2>1
  <2>3. \A d \in Doc : d \notin queued' /\ rows[d] # None => d \notin queued /\ Vector(d) # None
    BY <2>1 DEF Known
  <2> HIDE DEF Vector, Good
  <2> QED  BY <2>1, <2>2, <2>3
<1>10. \A d \in Doc : Scan(d) => VectorInv'
  BY DEF Scan
<1>11. \A d \in Doc : Embed(d) => VectorInv'
  <2> SUFFICES ASSUME NEW d \in Doc, Embed(d) PROVE VectorInv' OBVIOUS
  <2>1. /\ pc = "serving" /\ pc' = "serving" /\ staged = {}
        /\ UNCHANGED <<rows, staged>> /\ queued' = queued \ {d}
    BY DEF Embed
  <2>2. Vector(d)' = rows[d] /\ \A e \in Doc \ {d} : Vector(e)' = Vector(e)
    BY DEF Embed, ReindexTypeOK, DaemonOK, Image
  <2> HIDE DEF Vector, Good
  <2> QED  BY <2>1, <2>2
<1>12. \A f \in File : SaveBegin(f) => VectorInv'
  BY DEF SaveBegin
<1>13. SaveEnd => VectorInv'
  BY DEF SaveEnd
<1>14. SaveFails => VectorInv'
  BY DEF SaveFails
<1>15. Stop => VectorInv'
  <2> SUFFICES ASSUME Stop PROVE VectorInv' OBVIOUS
  <2>1. /\ pc = "serving" /\ pc' = "down" /\ staged' = {}
        /\ UNCHANGED <<queued, rows, live, back, marker>>
    BY DEF Stop, Exit
  <2>2. \A d \in Doc : ~Overwritten(d)  BY DEF Stop
  <2>3. \A f \in File : Good(f)' = live[f]  BY <2>1
  <2>4. \A d \in Doc : d \notin queued /\ rows[d] # None => Fits(live[FileOf[d]], d)
    BY <2>1, <2>2 DEF Overwritten
  <2> HIDE DEF Vector, Good
  <2> QED  BY <2>1, <2>3, <2>4
<1>16. BackupHashes => VectorInv'
  BY DEF BackupHashes, Exit
<1>17. ClearHashes => VectorInv'
  BY DEF ClearHashes
<1>18. Staged => VectorInv'
  BY DEF Staged, Go
<1>19. \A f \in File : Stage(f) => VectorInv'
  BY DEF Stage
<1>20. \A d \in Doc : ReadDocument(d) => VectorInv'
  BY DEF ReadDocument, Go
<1>21. CutChunks => VectorInv'
  <2> SUFFICES ASSUME CutChunks PROVE VectorInv' OBVIOUS
  <2>1. /\ pc = "cut" /\ pc' \in {"cut", "stamp"} /\ queued' = queued \cup {cur}
        /\ UNCHANGED <<live, back, marker, staged, mem>>
    BY DEF CutChunks
  <2>2. \A d \in Doc \ {cur} : rows'[d] = rows[d]
    BY DEF CutChunks, ReindexTypeOK, StoreOK, Image
  <2>3. \A f \in File : Good(f)' = Good(f)  BY <2>1
  <2> HIDE DEF Good
  <2> QED  BY <2>1, <2>2, <2>3
<1>22. FailDocument => VectorInv'
  BY DEF FailDocument, Go
<1>23. StampHash => VectorInv'
  BY DEF StampHash, Go
<1>24. Interrupt => VectorInv'
  BY DEF Interrupt
<1>25. Built => VectorInv'
  BY DEF Built, Go
<1>26. WriteMarker => VectorInv'
  BY DEF WriteMarker, Go
<1>27. RemoveMarker => VectorInv'
  BY DEF RemoveMarker, Go
<1>28. DiscardTable => VectorInv'
  BY DEF DiscardTable, Exit
<1>29. UndoHashes => VectorInv'
  BY DEF UndoHashes, RestoredHashes
<1>30. UndoTable => VectorInv'
  BY DEF UndoTable, Go
<1>31. Undone => VectorInv'
  BY DEF Undone, Exit
<1>32. \A f \in File : Unlink(f) => VectorInv'
  <2> SUFFICES ASSUME NEW f \in File, Unlink(f) PROVE VectorInv' OBVIOUS
  <2>1. /\ pc = "unlink" /\ pc' = "unlink"
        /\ UNCHANGED <<queued, rows, live, marker, staged, mem>>
        /\ back' \in {back, [back EXCEPT ![f] = Absent]}
    BY DEF Unlink
  <2>2. \A g \in File : live[g] = Absent  BY <2>1
  <2>3. \A g \in File : back'[g] \in {back[g], Absent}  BY <2>1
  <2>4. \A g \in File : Good(g)' \in {Good(g), Absent}  BY <2>1, <2>2, <2>3
  <2> HIDE DEF Good
  <2> QED  BY <2>1, <2>3, <2>4
<1>33. \A f \in File : UndoFile(f) => VectorInv'
  <2> SUFFICES ASSUME NEW f \in File, UndoFile(f) PROVE VectorInv' OBVIOUS
  <2>1. /\ pc = "undo_files" /\ pc' = "undo_files" /\ f \in staged /\ back[f] # Absent
        /\ UNCHANGED <<queued, rows, marker, staged, mem>>
    BY DEF UndoFile
  <2>2. \A g \in File \ {f} : live'[g] = live[g] /\ back'[g] = back[g]  BY DEF UndoFile
  <2>3. \/ UNCHANGED <<live, back>>
        \/ live'[f] = back[f] /\ back'[f] = Absent
    BY DEF UndoFile
  <2>4. \A g \in File \ {f} : Good(g)' = Good(g)  BY <2>1, <2>2
  <2>5. Good(f)' \in {Good(f), back[f]}  BY <2>1, <2>3
  <2>6. \A g \in File : back'[g] \in {back[g], Absent}  BY <2>2, <2>3
  <2> HIDE DEF Good
  <2> QED  BY <2>1, <2>4, <2>5, <2>6
<1>34. \A d \in Doc : Edit(d) => VectorInv'
  BY DEF Edit
<1>35. Crash => VectorInv'
  BY DEF Crash, Exit
<1>36. CASE UNCHANGED vars
  BY <1>36 DEF vars, bounds
<1> QED
  BY <1>1, <1>2, <1>3, <1>4, <1>5, <1>6, <1>7, <1>8, <1>9, <1>10, <1>11, <1>12, <1>13,
     <1>14, <1>15, <1>16, <1>17, <1>18, <1>19, <1>20, <1>21, <1>22, <1>23, <1>24,
       <1>25, <1>26, <1>27, <1>28, <1>29, <1>30, <1>31, <1>32, <1>33, <1>34, <1>35,
       <1>36 DEF Next, Work, Recovery, Serving, Rebuild, Settlement

(* What the daemon has in memory is saved in the end.                       *)
LEMMA ServeStep == Inv /\ ServeInv /\ [Next]_vars => ServeInv'
<1> SUFFICES ASSUME Inv /\ ServeInv, [Next]_vars PROVE ServeInv' OBVIOUS
<1> USE Basics DEF Inv, ServeInv, dir, daemon, local
<1>1. \A c \in {"up", "reindex"} : Start(c) => ServeInv'
  BY DEF Start, Kept
<1>2. \A f \in File : Adopt(f) => ServeInv'
  BY DEF Adopt, Exit
<1>3. Adopted => ServeInv'
  BY DEF Adopted, Go, Ready
<1>4. \A f \in File : Finish(f) => ServeInv'
  BY DEF Finish
<1>5. Finished => ServeInv'
  BY DEF Finished, Go, Ready
<1>6. RestoreHashes => ServeInv'
  BY DEF RestoreHashes, Exit, RestoredHashes
<1>7. DropTable => ServeInv'
  BY DEF DropTable, Exit
<1>8. Load => ServeInv'
  BY DEF Load, Exit
<1>9. Reconcile => ServeInv'
  BY DEF Reconcile, Go, Known, Vector
<1>10. \A d \in Doc : Scan(d) => ServeInv'
  BY DEF Scan
<1>11. \A d \in Doc : Embed(d) => ServeInv'
  <2> SUFFICES ASSUME NEW d \in Doc, Embed(d) PROVE ServeInv' OBVIOUS
  <2> FileOf[d] \in File  BY Corpus
  <2>1. /\ pc = "serving" /\ pc' = "serving" /\ cmd' = cmd
        /\ dirty' = dirty \cup {FileOf[d]}
        /\ UNCHANGED <<live, saving, copy>>
    BY DEF Embed
  <2>2. \A f \in File \ {FileOf[d]} : mem'[f] = mem[f]
    BY DEF Embed, ReindexTypeOK, DaemonOK
  <2>3. ~changed' => ~changed /\ saving # FileOf[d]  BY DEF Embed
  <2>4. saving \in File \cup {None}  BY DEF ReindexTypeOK, DaemonOK
  <2> QED  BY <2>1, <2>2, <2>3, <2>4
<1>12. \A f \in File : SaveBegin(f) => ServeInv'
  BY DEF SaveBegin
<1>13. SaveEnd => ServeInv'
  BY DEF SaveEnd
<1>14. SaveFails => ServeInv'
  BY DEF SaveFails
<1>15. Stop => ServeInv'
  BY DEF Stop, Exit
<1>16. BackupHashes => ServeInv'
  BY DEF BackupHashes, Exit
<1>17. ClearHashes => ServeInv'
  BY DEF ClearHashes
<1>18. Staged => ServeInv'
  BY DEF Staged, Go
<1>19. \A f \in File : Stage(f) => ServeInv'
  BY DEF Stage
<1>20. \A d \in Doc : ReadDocument(d) => ServeInv'
  BY DEF ReadDocument, Go
<1>21. CutChunks => ServeInv'
  BY DEF CutChunks
<1>22. FailDocument => ServeInv'
  BY DEF FailDocument, Go
<1>23. StampHash => ServeInv'
  BY DEF StampHash, Go
<1>24. Interrupt => ServeInv'
  BY DEF Interrupt
<1>25. Built => ServeInv'
  BY DEF Built, Go
<1>26. WriteMarker => ServeInv'
  BY DEF WriteMarker, Go
<1>27. RemoveMarker => ServeInv'
  BY DEF RemoveMarker, Go
<1>28. DiscardTable => ServeInv'
  BY DEF DiscardTable, Exit
<1>29. UndoHashes => ServeInv'
  BY DEF UndoHashes, RestoredHashes
<1>30. UndoTable => ServeInv'
  BY DEF UndoTable, Go
<1>31. Undone => ServeInv'
  BY DEF Undone, Exit
<1>32. \A f \in File : Unlink(f) => ServeInv'
  BY DEF Unlink
<1>33. \A f \in File : UndoFile(f) => ServeInv'
  BY DEF UndoFile
<1>34. \A d \in Doc : Edit(d) => ServeInv'
  BY DEF Edit
<1>35. Crash => ServeInv'
  BY DEF Crash, Exit
<1>36. CASE UNCHANGED vars
  BY <1>36 DEF vars, bounds
<1> QED
  BY <1>1, <1>2, <1>3, <1>4, <1>5, <1>6, <1>7, <1>8, <1>9, <1>10, <1>11, <1>12, <1>13,
     <1>14, <1>15, <1>16, <1>17, <1>18, <1>19, <1>20, <1>21, <1>22, <1>23, <1>24,
       <1>25, <1>26, <1>27, <1>28, <1>29, <1>30, <1>31, <1>32, <1>33, <1>34, <1>35,
       <1>36 DEF Next, Work, Recovery, Serving, Rebuild, Settlement

(* A corpus at rest serves what it has.                                     *)
LEMMA FullInit == Init => FullInv
<1> SUFFICES ASSUME Init PROVE FullInv OBVIOUS
<1>1. Inv  BY InvInit
<1>2. RowInv
  <2> 0 \in Version  BY Limits DEF Version
  <2> PICK old \in SUBSET Doc : /\ hash = [d \in Doc |-> IF d \in old THEN 0 ELSE NoRow]
                                /\ rows = [d \in Doc |-> IF d \in old THEN 0 ELSE None]
    BY DEF Init
  <2> \A d \in Doc : disk[d] = 0  BY DEF Init
  <2> pc = "down" /\ snap = None  BY DEF Init
  <2> QED  BY Tokens DEF RowInv, Covered
<1>3. SettledInv  BY DEF Init, SettledInv
<1>4. VectorInv
  <2>1. pc = "down" /\ staged = {} /\ \A f \in File : Good(f) = live[f]  BY DEF Init, Good
  <2>2. \A d \in Doc : rows[d] # None => Fits(live[FileOf[d]], d)
    BY Corpus, Tokens DEF Init, Fits
  <2> QED  BY <2>1, <2>2, Corpus DEF VectorInv
<1>5. ServeInv  BY DEF Init, ServeInv
<1> QED  BY <1>1, <1>2, <1>3, <1>4, <1>5 DEF FullInv

(* SkippedIsSearchable: whatever the daemon's scans pass over is found, and *)
(* is still found after the next start, if contents only move on and no     *)
(* daemon dies over a vector that replaced another.                         *)
THEOREM SkippedSearchable == ASSUME Drift = {} PROVE Spec => []SkippedIsSearchable
<1>1. FullInv /\ [Next]_vars => FullInv'
  BY Drift = {}, TypeStep, HashStep, MarkerStep, StageStep, RowStep, SettledStep,
     VectorStep,
     ServeStep DEF Inv, FullInv
<1>2. FullInv => SkippedIsSearchable
  <2> SUFFICES ASSUME FullInv, pc = "serving", NEW d \in Doc, Skipped(d)
               PROVE  /\ rows[d] \in {disk[d], Part}
                      /\ \/ d \in queued
                         \/ /\ Vector(d) = rows[d]
                            /\ FileOf[d] \in dirty \/ live[FileOf[d]] = mem[FileOf[d]]
    BY DEF SkippedIsSearchable
  <2>1. disk[d] \in Version /\ hash[d] = disk[d]
    BY DEF FullInv, Inv, ReindexTypeOK, Skipped
  <2>2. rows[d] \in {disk[d], Part}
    <3>1. rows[d] # Part => rows[d] \in Version /\ disk[d] <= rows[d] /\ rows[d] <= disk[d]
      BY <2>1 DEF FullInv, RowInv, Covered
    <3> QED  BY <2>1, <3>1, Limits DEF Version
  <2>3. rows[d] # None  BY <2>1, <2>2, Tokens
  <2>4. d \in queued \/ Vector(d) = rows[d]  BY <2>3 DEF FullInv, VectorInv
  <2>5. FileOf[d] \in dirty \/ live[FileOf[d]] = mem[FileOf[d]]
    BY Corpus DEF FullInv, ServeInv
  <2> QED  BY <2>2, <2>4, <2>5
<1> QED  BY FullInit, <1>1, <1>2, PTL DEF Spec
=============================================================================
