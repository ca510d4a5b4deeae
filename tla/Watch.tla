------------------------------- MODULE Watch -------------------------------
(***************************************************************************)
(* The file watcher (watch.go): the kernel's event buffer, the event loop  *)
(* with its debounce timers, the bounded queue of jobs, the request slot   *)
(* for a rescan, and the worker that runs the jobs and the rescans.  The   *)
(* initial scan of the same service is a second worker on the same store.  *)
(*                                                                         *)
(* What processing a document does to the store step by step is IngestScan;*)
(* here store[p] is the content the index serves for p, Gone for none.     *)
(*                                                                         *)
(* Left out: followed links and over-size files, which take the way of an  *)
(* ignored file; path excludes; the rate limit of the log line.            *)
(***************************************************************************)
EXTENDS Integers, Sequences

CONSTANTS
  File,      \* paths of documents
  Dir,       \* directories below the root
  Root,      \* the root directory, always watched
  In,        \* the directory of a file
  Rules,     \* the .gitignore file
  Content,   \* what a file can hold
  Gone,      \* no file, or no document served
  None,
  EventCap,  \* room in the kernel's event buffer
  QueueCap,  \* watchJobQueueCapacity
  TimerId,   \* names for the timers of one path: bound on those alive at once
  Drift,     \* situations beyond what events can describe
  MaxEdits, MaxFaults

Kinds == {"overlap", "unwatched", "replaced"}
Name == File \cup Dir \cup {Rules}
Worker == {"initial", "watch"}
Under(d) == {p \in File : In[p] = d}

ASSUME Tree ==
  /\ In \in [File -> Dir \cup {Root}]
  /\ File \cap Dir = {} /\ Rules \notin File \cup Dir /\ Root \notin Dir
  /\ None \notin Name /\ Gone \notin Content
ASSUME Bounds ==
  /\ EventCap \in Nat \ {0} /\ QueueCap \in Nat /\ TimerId \subseteq Nat \ {0}
  /\ MaxEdits \in Nat /\ MaxFaults \in Nat
  /\ Drift \subseteq Kinds

VARIABLES
  disk,      \* the content of each file
  dirs,      \* directories that exist
  ignored,   \* files the rules exclude
  store,     \* what the index serves
  watched,   \* directories the kernel reports on
  events,    \* undelivered events: a name, and whether it left
  overflow,  \* the kernel dropped an event and has not said so yet
  tree,      \* the directory the event loop is registering
  pending,   \* the timer a path's map entry points at, 0 for no entry
  timers,    \* timers not stopped and not finished
  fire,      \* the queue of jobs
  rescanReq, \* the one request slot
  unreconciledDrops,
  dropped,   \* the drops the running rescan has claimed
  at, scanning, listed, existing, todo, cur, body,  \* per worker
  steady,    \* ghost: files eligible ever since the worker's last start
  late,      \* ghost: files a failure left to the next periodic rescan
  edits, faults

corpus == <<disk, dirs, ignored, edits>>
kernel == <<watched, events, overflow>>
debounce == <<pending, timers>>
requests == <<fire, rescanReq, unreconciledDrops>>
work == <<dropped, at, scanning, listed, existing, todo, cur, body>>
ghost == <<steady, late>>
vars == <<disk, dirs, ignored, store, watched, events, overflow, tree, pending,
          timers, fire, rescanReq, unreconciledDrops, dropped, at, scanning,
          listed, existing, todo, cur, body, steady, late, edits, faults>>

Held == Content \cup {Gone}
Notice == [name : Name, gone : BOOLEAN]
Timer == [name : Name, gone : BOOLEAN, id : TimerId,
          stage : {"running", "fired", "sending", "counted"}]

TypeOK ==
  /\ disk \in [File -> Held] /\ store \in [File -> Held]
  /\ dirs \subseteq Dir /\ ignored \subseteq File /\ watched \subseteq dirs
  /\ events \in Seq(Notice) /\ Len(events) <= EventCap
  /\ fire \in Seq(Notice) /\ Len(fire) <= QueueCap
  /\ overflow \in BOOLEAN /\ rescanReq \in BOOLEAN
  /\ tree \in Dir \cup {None}
  /\ pending \in [Name -> TimerId \cup {0}] /\ timers \subseteq Timer
  /\ unreconciledDrops \in Nat /\ dropped \in Nat
  /\ at \in [Worker -> {"idle", "walk", "listed", "scan", "read", "write", "drop"}]
  /\ scanning \in [Worker -> BOOLEAN]
  /\ listed \in [Worker -> SUBSET File] /\ existing \in [Worker -> SUBSET File]
  /\ todo \in [Worker -> SUBSET File]
  /\ cur \in [Worker -> Name \cup {None}] /\ body \in [Worker -> Held]
  /\ steady \subseteq File /\ late \subseteq File
  /\ edits \in 0..MaxEdits /\ faults \in 0..MaxFaults

(* What the index should serve for a file.                                  *)
Wanted(p) == IF p \in ignored THEN Gone ELSE disk[p]
Eligible == {p \in File : Wanted(p) # Gone}

(* The watcher starts on an index in step with the corpus, or together with *)
(* the initial scan of an empty index.                                      *)
Init ==
  /\ dirs \in SUBSET Dir /\ watched = dirs
  /\ disk \in [File -> Held]
  /\ \A p \in File : In[p] \notin dirs \cup {Root} => disk[p] = Gone
  /\ ignored = {}
  /\ events = <<>> /\ overflow = FALSE /\ tree = None
  /\ pending = [n \in Name |-> 0] /\ timers = {}
  /\ fire = <<>> /\ rescanReq = FALSE
  /\ unreconciledDrops = 0 /\ dropped = 0
  /\ \/ /\ store = disk
        /\ at = [w \in Worker |-> "idle"] /\ scanning = [w \in Worker |-> FALSE]
     \/ /\ "overlap" \in Drift
        /\ store = [p \in File |-> Gone]
        /\ at = [w \in Worker |-> IF w = "initial" THEN "walk" ELSE "idle"]
        /\ scanning = [w \in Worker |-> w = "initial"]
  /\ listed = [w \in Worker |-> {}] /\ existing = [w \in Worker |-> {}]
  /\ todo = [w \in Worker |-> {}]
  /\ cur = [w \in Worker |-> None] /\ body = [w \in Worker |-> Gone]
  /\ steady = Eligible /\ late = {}
  /\ edits = 0 /\ faults = 0

-----------------------------------------------------------------------------
(* The corpus and the kernel's event buffer *)

Elements(s) == {s[i] : i \in DOMAIN s}
Names(s) == {e.name : e \in Elements(s)}

(* A change of the directory n is in is reported when that directory is     *)
(* watched and there is room; a full buffer loses it and remembers so.      *)
Emit(n, gone, watchers) ==
  IF n \in File /\ In[n] \notin watchers \cup {Root}
  THEN UNCHANGED <<events, overflow>>
  ELSE \/ /\ Len(events) < EventCap
          /\ events' = Append(events, [name |-> n, gone |-> gone])
          /\ UNCHANGED overflow
       \/ /\ Len(events) = EventCap
          /\ overflow' = TRUE
          /\ UNCHANGED events

Change ==
  /\ edits < MaxEdits
  /\ edits' = edits + 1
  /\ steady' = {p \in steady : p \notin ignored' /\ disk'[p] # Gone}
  /\ UNCHANGED <<store, tree, debounce, requests, work, late, faults>>

Edit(p, c) ==
  /\ In[p] \in dirs \cup {Root} /\ disk[p] # c
  /\ (c = Gone /\ In[p] # Root => In[p] \in watched \/ "unwatched" \in Drift)
  /\ disk' = [disk EXCEPT ![p] = c]
  /\ Emit(p, c = Gone, watched)
  /\ UNCHANGED <<dirs, ignored, watched>>
  /\ Change

(* One event for the directory, none for what is below it.                  *)
MoveOut(d) ==
  /\ d \in dirs
  /\ dirs' = dirs \ {d} /\ watched' = watched \ {d}
  /\ disk' = [p \in File |-> IF In[p] = d THEN Gone ELSE disk[p]]
  /\ Emit(d, TRUE, watched)
  /\ UNCHANGED ignored
  /\ Change

(* Nothing of the directory is served any more, or about to be.             *)
Settled(d) ==
  \A p \in Under(d) : store[p] = Gone /\ \A w \in Worker : cur[w] # p

(* A directory appears with files in it.                                    *)
MoveIn(d, new) ==
  /\ d \in Dir \ dirs
  /\ Settled(d) \/ "replaced" \in Drift
  /\ Len(events) < EventCap \/ "unwatched" \in Drift
  /\ dirs' = dirs \cup {d}
  /\ disk' = [p \in File |-> IF In[p] = d THEN new[p] ELSE disk[p]]
  /\ Emit(d, FALSE, watched)
  /\ UNCHANGED <<ignored, watched>>
  /\ Change

EditRules(excluded) ==
  /\ excluded # ignored
  /\ ignored' = excluded
  /\ Emit(Rules, FALSE, watched)
  /\ UNCHANGED <<disk, dirs, watched>>
  /\ Change

-----------------------------------------------------------------------------
(* The event loop *)

InUse(n) == {t.id : t \in {u \in timers : u.name = n}} \cup {pending[n]}
Free(n) == {i \in TimerId \ InUse(n) : \A j \in TimerId \ InUse(n) : i <= j}

(* Stop has no effect on a timer that has fired, even if its callback still *)
(* waits for the lock.                                                      *)
Stopped(ns) == {t \in timers : t.name \in ns /\ t.id = pending[t.name] /\ t.stage = "running"}

Arm(ns, gone) ==
  \E id \in [ns -> TimerId] :
    /\ \A n \in ns : id[n] \in Free(n)
    /\ pending' = [n \in Name |-> IF n \in ns THEN id[n] ELSE pending[n]]
    /\ timers' = (timers \ Stopped(ns))
                 \cup {[name |-> n, gone |-> gone, id |-> id[n], stage |-> "running"] : n \in ns}

HandleEvent ==
  /\ events # <<>> /\ tree = None
  /\ events' = Tail(events)
  /\ LET e == Head(events) IN
     \/ /\ e.gone \/ e.name \notin dirs
        /\ Arm({e.name}, e.gone)
        /\ UNCHANGED <<watched, tree>>
     \/ /\ ~e.gone /\ e.name \in dirs
        /\ watched' = watched \cup {e.name} /\ tree' = e.name
        /\ UNCHANGED debounce
  /\ UNCHANGED <<corpus, store, overflow, requests, work, ghost, faults>>

(* registerNewTree, once the directory is watched: a job for every file     *)
(* already there.                                                           *)
ArmTree ==
  /\ tree # None /\ tree' = None
  /\ Arm({p \in Under(tree) : disk[p] # Gone}, FALSE)
  /\ UNCHANGED <<corpus, store, kernel, requests, work, ghost, faults>>

(* Mutant: a request made while a rescan runs is dropped, as the comment in  *)
(* run puts it.                                                             *)
requestRescanIdle == rescanReq' = (rescanReq \/ ~scanning["watch"])

(* The slot is empty again once a rescan has begun.                         *)
requestRescan == rescanReq' = TRUE

OverflowReported ==
  /\ overflow /\ overflow' = FALSE /\ tree = None
  /\ requestRescan
  /\ UNCHANGED <<corpus, store, watched, events, tree, debounce, fire,
                 unreconciledDrops, work, ghost, faults>>

(* The periodic safety rescan.                                              *)
Tick ==
  /\ tree = None
  /\ requestRescan
  /\ UNCHANGED <<corpus, store, kernel, tree, debounce, fire, unreconciledDrops,
                 work, ghost, faults>>

-----------------------------------------------------------------------------
(* Debounce timers *)

Advance(t, stage) == timers' = (timers \ {t}) \cup {[t EXCEPT !.stage = stage]}

Expire(t) ==
  /\ t.stage = "running" /\ Advance(t, "fired")
  /\ UNCHANGED <<corpus, store, kernel, tree, pending, requests, work, ghost, faults>>

(* The callback deletes the path's entry, whichever timer it points at.     *)
Forget(t) ==
  /\ t.stage = "fired" /\ Advance(t, "sending")
  /\ pending' = [pending EXCEPT ![t.name] = 0]
  /\ UNCHANGED <<corpus, store, kernel, tree, requests, work, ghost, faults>>

Job(t) == [name |-> t.name, gone |-> t.gone]

(* Mutant: the queue grows instead of refusing.                             *)
SendUnbounded(t) ==
  /\ t.stage = "sending"
  /\ fire' = Append(fire, Job(t)) /\ timers' = timers \ {t}
  /\ UNCHANGED <<corpus, store, kernel, tree, pending, rescanReq,
                 unreconciledDrops, work, ghost, faults>>

(* The send never blocks.                                                   *)
Send(t) ==
  /\ t.stage = "sending" /\ Len(fire) < QueueCap
  /\ fire' = Append(fire, Job(t)) /\ timers' = timers \ {t}
  /\ UNCHANGED <<corpus, store, kernel, tree, pending, rescanReq,
                 unreconciledDrops, work, ghost, faults>>

(* Mutant: a dropped job is only counted.                                   *)
handleQueueFullSilent(t) ==
  \/ /\ t.stage = "sending" /\ Len(fire) = QueueCap
     /\ unreconciledDrops' = unreconciledDrops + 1 /\ Advance(t, "counted")
     /\ UNCHANGED rescanReq
  \/ /\ t.stage = "counted" /\ timers' = timers \ {t}
     /\ UNCHANGED <<rescanReq, unreconciledDrops>>

(* Mutant: the rescan is asked for before the drop is counted.              *)
handleQueueFullAsksFirst(t) ==
  \/ /\ t.stage = "sending" /\ Len(fire) = QueueCap
     /\ Advance(t, "counted")
     /\ requestRescan
     /\ UNCHANGED unreconciledDrops
  \/ /\ t.stage = "counted" /\ timers' = timers \ {t}
     /\ unreconciledDrops' = unreconciledDrops + 1
     /\ UNCHANGED rescanReq

(* The queue is full: the job is dropped and counted, then a rescan is      *)
(* asked for.                                                               *)
handleQueueFull(t) ==
  \/ /\ t.stage = "sending" /\ Len(fire) = QueueCap
     /\ unreconciledDrops' = unreconciledDrops + 1 /\ Advance(t, "counted")
     /\ UNCHANGED rescanReq
  \/ /\ t.stage = "counted" /\ timers' = timers \ {t}
     /\ requestRescan
     /\ UNCHANGED unreconciledDrops

Refused(t) ==
  /\ handleQueueFull(t)
  /\ UNCHANGED <<corpus, store, kernel, tree, pending, fire, work, ghost, faults>>

-----------------------------------------------------------------------------
(* The worker's jobs *)

Begin(w, stage, n) ==
  /\ at' = [at EXCEPT ![w] = stage] /\ cur' = [cur EXCEPT ![w] = n]
Return(w) == Begin(w, IF scanning[w] THEN "scan" ELSE "idle", None)
scan == <<dropped, scanning, listed, existing>>

(* Mutant: the job does what the event said, without a look at the path.    *)
InspectUnchecked(job) ==
  IF job.gone THEN Begin("watch", "drop", job.name)
  ELSE Begin("watch", "read", job.name)

(* What Lstat and the rules say of the path now decides, not the event.  A  *)
(* directory that exists has no document to reconcile.                      *)
Inspect(job) ==
  CASE job.name \in File /\ job.name \in Eligible -> Begin("watch", "read", job.name)
    [] job.name \in dirs -> UNCHANGED <<at, cur>>
    [] OTHER -> Begin("watch", "drop", job.name)

TakeJob ==
  /\ at["watch"] = "idle" /\ fire # <<>>
  /\ fire' = Tail(fire) /\ steady' = Eligible
  /\ LET job == Head(fire) IN
     \/ /\ job.name = Rules /\ requestRescan
        /\ UNCHANGED <<store, at, cur, late, faults>>
     \/ /\ job.name # Rules /\ Inspect(job)
        /\ UNCHANGED <<store, rescanReq, late, faults>>
     \/ /\ job.name # Rules /\ faults < MaxFaults  \* Lstat fails, not for absence
        /\ faults' = faults + 1
        /\ late' = late \cup {p \in File : job.name \in {p, In[p]}}
        /\ store' = [p \in File |-> IF job.gone /\ p = job.name THEN Gone ELSE store[p]]
        /\ UNCHANGED <<rescanReq, at, cur>>
  /\ UNCHANGED <<corpus, kernel, tree, debounce, unreconciledDrops, scan, todo, body>>

(* processDelete, then processDeleteSubtree with a second look at each path.*)
Drop ==
  /\ at["watch"] = "drop"
  /\ store' = [p \in File |-> IF p = cur["watch"] \/ (In[p] = cur["watch"] /\ disk[p] = Gone)
                              THEN Gone ELSE store[p]]
  /\ Return("watch")
  /\ UNCHANGED <<corpus, kernel, tree, debounce, requests, scan, todo, body, ghost, faults>>

(* processDocument reads the file once; one that has vanished leaves an     *)
(* error row, which serves nothing.                                         *)
Read(w, p) ==
  /\ \/ at[w] = "read" /\ p = cur[w] /\ p \in File /\ UNCHANGED todo
     \/ at[w] = "scan" /\ p \in todo[w] /\ todo' = [todo EXCEPT ![w] = @ \ {p}]
  /\ \/ /\ disk[p] # Gone
        /\ body' = [body EXCEPT ![w] = disk[p]] /\ Begin(w, "write", p)
        /\ UNCHANGED store
     \/ /\ disk[p] = Gone
        /\ store' = [store EXCEPT ![p] = Gone] /\ Return(w)
        /\ UNCHANGED body
  /\ UNCHANGED <<corpus, kernel, tree, debounce, requests, scan, ghost, faults>>

Write(w) ==
  /\ at[w] = "write"
  /\ store' = [store EXCEPT ![cur[w]] = body[w]]
  /\ Return(w)
  /\ UNCHANGED <<corpus, kernel, tree, debounce, requests, scan, todo, body, ghost, faults>>

-----------------------------------------------------------------------------
(* Scans: the watcher's rescans and the initial one *)

(* The request leaves the slot before the scan looks at anything.           *)
TakeRescan ==
  /\ at["watch"] = "idle" /\ rescanReq
  /\ rescanReq' = FALSE
  /\ dropped' = unreconciledDrops /\ unreconciledDrops' = 0
  /\ scanning' = [scanning EXCEPT !["watch"] = TRUE]
  /\ Begin("watch", "walk", None)
  /\ steady' = Eligible
  /\ UNCHANGED <<corpus, store, kernel, tree, debounce, fire, listed, existing,
                 todo, body, late, faults>>

(* Discovery.                                                               *)
Walk(w) ==
  /\ at[w] = "walk" /\ at' = [at EXCEPT ![w] = "listed"]
  /\ listed' = [listed EXCEPT ![w] = Eligible]
  /\ late' = {}
  /\ UNCHANGED <<corpus, store, kernel, tree, debounce, requests, dropped, scanning,
                 existing, todo, cur, body, steady, faults>>

(* The documents the store holds are listed after the walk.                 *)
listActiveDocuments(w) ==
  /\ at[w] = "listed" /\ at' = [at EXCEPT ![w] = "scan"]
  /\ existing' = [existing EXCEPT ![w] = {p \in File : store[p] # Gone}]
  /\ todo' = [todo EXCEPT ![w] = listed[w]]
  /\ UNCHANGED <<corpus, store, kernel, tree, debounce, requests, dropped, scanning,
                 listed, cur, body, ghost, faults>>

(* Mutant: nothing the walk missed is tombstoned.                           *)
MissingNone(w) == {}

Missing(w) == existing[w] \ listed[w]

finishScan(w) ==
  /\ at[w] = "scan" /\ todo[w] = {}
  /\ store' = [p \in File |-> IF p \in Missing(w) THEN Gone ELSE store[p]]
  /\ at' = [at EXCEPT ![w] = "idle"]
  /\ scanning' = [scanning EXCEPT ![w] = FALSE]
  /\ dropped' = IF w = "watch" THEN 0 ELSE dropped
  /\ UNCHANGED <<corpus, kernel, tree, debounce, requests, listed, existing, todo,
                 cur, body, ghost, faults>>

(* A rescan that fails gives the drops back to the count, and asks for      *)
(* nothing: what it did not reach waits for the periodic one.               *)
RescanFails ==
  /\ at["watch"] \in {"walk", "listed", "scan"} /\ faults < MaxFaults
  /\ faults' = faults + 1 /\ late' = File
  /\ unreconciledDrops' = unreconciledDrops + dropped /\ dropped' = 0
  /\ at' = [at EXCEPT !["watch"] = "idle"]
  /\ scanning' = [scanning EXCEPT !["watch"] = FALSE]
  /\ todo' = [todo EXCEPT !["watch"] = {}]
  /\ UNCHANGED <<corpus, store, kernel, tree, debounce, fire, rescanReq, listed,
                 existing, cur, body, steady>>

-----------------------------------------------------------------------------
Environment ==
  \/ \E p \in File, c \in Held : Edit(p, c)
  \/ \E d \in Dir : MoveOut(d) \/ \E new \in [Under(d) -> Held] : MoveIn(d, new)
  \/ \E excluded \in SUBSET File : EditRules(excluded)
EventLoop == HandleEvent \/ ArmTree \/ OverflowReported
Debounce(t) == Expire(t) \/ Forget(t) \/ Send(t) \/ Refused(t)
Step(w) == Write(w) \/ Walk(w) \/ listActiveDocuments(w) \/ finishScan(w)
           \/ \E p \in File : Read(w, p)

Next ==
  \/ Environment
  \/ EventLoop \/ Tick
  \/ \E t \in timers : Debounce(t)
  \/ TakeJob \/ Drop \/ TakeRescan \/ RescanFails
  \/ \E w \in Worker : Step(w)

Spec == Init /\ [][Next]_vars

(* The event loop, the runtime's timers and the worker keep going.  Of two  *)
(* ready channels select takes either at random, so neither starves.  The   *)
(* ticker is not counted on.                                                *)
FairSpec ==
  /\ Spec
  /\ WF_vars(EventLoop)
  /\ WF_vars(\E t \in timers : Debounce(t))
  /\ WF_vars(Drop \/ \E w \in Worker : Step(w))
  /\ SF_vars(TakeJob) /\ SF_vars(TakeRescan)

-----------------------------------------------------------------------------
(* Properties *)

Coming(n) ==
  \/ n \in Names(events) \/ n \in Names(fire)
  \/ \E t \in timers : t.name = n

(* The directory's appearance is still to be noticed.                       *)
Entering(d) ==
  /\ d \in dirs
  /\ tree = d \/ [name |-> d, gone |-> FALSE] \in Elements(events)

(* The worker will still bring p in step with the corpus as it is now.      *)
InHand(w, p) ==
  \/ at[w] = "read" /\ cur[w] = p /\ p \notin ignored
  \/ at[w] = "write" /\ cur[w] = p /\ body[w] = Wanted(p)
  \/ at[w] = "drop" /\ cur[w] = p /\ Wanted(p) = Gone
  \/ at[w] = "drop" /\ cur[w] = In[p] /\ disk[p] = Gone
  \/ at[w] = "walk"
  \/ at[w] = "listed" /\ (IF p \in listed[w] THEN p \notin ignored ELSE Wanted(p) = Gone)
  \/ scanning[w] /\ at[w] \in {"scan", "write"} /\ p \in todo[w] /\ p \notin ignored
  \/ scanning[w] /\ at[w] \in {"scan", "write"} /\ p \in Missing(w) /\ Wanted(p) = Gone

Remembered(p) ==
  \/ Coming(p) \/ Coming(Rules) \/ overflow \/ rescanReq
  \/ In[p] \in Dir \ dirs /\ Coming(In[p])
  \/ In[p] \in Dir /\ Entering(In[p]) /\ disk[p] # Gone
  \/ \E w \in Worker : InHand(w, p)
  \/ p \in late

(* No change is forgotten: when the index serves something else than the    *)
(* corpus holds, an event, a timer, a job, a request or the work in hand    *)
(* will still correct it, unless a failure left it to the periodic rescan.  *)
(* That is watch.go's promise for drops, overflows, stopped timers and      *)
(* directories: nothing of it waits for the ticker.                         *)
NoChangeForgotten == \A p \in File : store[p] = Wanted(p) \/ Remembered(p)

(* A drop on record has its rescan: handleQueueFull counts before it asks,  *)
(* and a starting rescan takes the request before the count, so none is     *)
(* ever left on record with nobody coming, unless its rescan failed.        *)
DropsAwaitRescan ==
  unreconciledDrops > 0 =>
    rescanReq \/ late = File \/ \E t \in timers : t.stage = "counted"

(* A file that has been there and eligible ever since the worker turned to  *)
(* its current job or scan is never tombstoned by it, even when an atomic   *)
(* save made the watcher see it leave (issue #409).  A failing Lstat is the *)
(* exception the code makes.                                                *)
PresentIsKept ==
  [][\A p \in steady' : store'[p] = Gone => store[p] = Gone \/ faults' # faults]_vars

(* Without the ticker, the index comes in step with the corpus once changes *)
(* stop, but for what a failure left to the periodic rescan.                *)
CatchesUp == <>[](\A p \in File \ late : store[p] = Wanted(p))

(* With the ticker it does so whatever failed.                              *)
Converges == WF_vars(Tick) => <>[](\A p \in File : store[p] = Wanted(p))
=============================================================================
