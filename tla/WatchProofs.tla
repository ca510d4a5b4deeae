---------------------------- MODULE WatchProofs ----------------------------
(***************************************************************************)
(* Proofs about Watch: its states are well typed, and a watcher that       *)
(* starts on an index in step with its corpus forgets no change, for every *)
(* tree, every capacity of the event buffer and of the queue, and any      *)
(* number of changes and failures.                                         *)
(*                                                                         *)
(* What makes it inductive is what the worker may rely on while it works:  *)
(* whatever has changed since it looked at a path is pending again, in a   *)
(* place the worker does not empty before it is done.                      *)
(***************************************************************************)
EXTENDS Watch, SequenceTheorems, TLAPS

(* Everything is looked at again.                                           *)
AllPending(p) == Coming(Rules) \/ overflow \/ rescanReq \/ p \in late

(* Something other than the work in hand will still look at p.              *)
Pending(p) ==
  \/ AllPending(p)
  \/ Coming(p)
  \/ In[p] \in Dir \ dirs /\ Coming(In[p])
  \/ In[p] \in Dir /\ Entering(In[p]) /\ disk[p] # Gone

(* The initial scan is over.                                                *)
Alone == at["initial"] = "idle" /\ ~scanning["initial"]

TreeInv ==
  /\ \A p \in File : In[p] \notin dirs \cup {Root} => disk[p] = Gone
  /\ \A d \in dirs \ watched : [name |-> d, gone |-> FALSE] \in Elements(events)

Stage ==
  /\ at["watch"] \in {"idle", "read", "drop"} => ~scanning["watch"]
  /\ at["watch"] \in {"walk", "listed", "scan"} => scanning["watch"]
  /\ at["watch"] \in {"read", "write"} => cur["watch"] \in File
  /\ at["watch"] = "write" /\ scanning["watch"] => cur["watch"] \in listed["watch"]
  /\ at["watch"] = "drop" => cur["watch"] \in File \cup Dir
  /\ at["watch"] \in {"scan", "write"} /\ scanning["watch"] => todo["watch"] \subseteq listed["watch"]

(* What the job in hand is about to do is right, or will be looked at again.*)
JobInv ==
  /\ at["watch"] = "read" => cur["watch"] \notin ignored \/ Pending(cur["watch"])
  /\ at["watch"] = "write" => body["watch"] = Wanted(cur["watch"]) \/ Pending(cur["watch"])
  /\ at["watch"] = "drop" /\ cur["watch"] \in File =>
       Wanted(cur["watch"]) = Gone \/ Pending(cur["watch"])

ScanInv ==
  scanning["watch"] /\ at["watch"] # "walk" =>
    \A p \in File :
      /\ p \in listed["watch"] /\ p \in ignored => AllPending(p)
      /\ p \notin listed["watch"] => Wanted(p) = Gone \/ Pending(p)
      /\ at["watch"] # "listed" /\ p \notin existing["watch"] \cup listed["watch"] => store[p] = Gone

KeepsUp == \A p \in File : store[p] = Wanted(p) \/ Pending(p) \/ InHand("watch", p)

WatchInv == Alone /\ TreeInv /\ Stage /\ JobInv /\ ScanInv /\ KeepsUp
-----------------------------------------------------------------------------
(* Buffers and timers *)

LEMMA ElementsAppend ==
  ASSUME NEW S, NEW s \in Seq(S), NEW e \in S
  PROVE  /\ Append(s, e) \in Seq(S) /\ Len(Append(s, e)) = Len(s) + 1
         /\ Elements(Append(s, e)) = Elements(s) \cup {e}
<1>1. /\ Append(s, e) \in Seq(S) /\ Len(Append(s, e)) = Len(s) + 1 /\ Len(s) \in Nat
      /\ DOMAIN s = 1..Len(s) /\ DOMAIN Append(s, e) = 1..(Len(s) + 1)
      /\ \A i \in 1..Len(s) : Append(s, e)[i] = s[i]
      /\ Append(s, e)[Len(s) + 1] = e
  OBVIOUS
<1>2. 1..(Len(s) + 1) = 1..Len(s) \cup {Len(s) + 1}
  BY <1>1
<1>3. Elements(s) = {s[i] : i \in 1..Len(s)}
      /\ Elements(Append(s, e)) = {Append(s, e)[i] : i \in 1..Len(s) \cup {Len(s) + 1}}
  BY <1>1, <1>2 DEF Elements
<1>4. Elements(Append(s, e)) = {Append(s, e)[i] : i \in 1..Len(s)} \cup {Append(s, e)[Len(s) + 1]}
  BY <1>3
<1>5. {Append(s, e)[i] : i \in 1..Len(s)} = {s[i] : i \in 1..Len(s)}
  BY <1>1
<1>6. QED
  BY <1>1, <1>3, <1>4, <1>5

LEMMA ElementsTail ==
  ASSUME NEW S, NEW s \in Seq(S), s # <<>>
  PROVE  /\ Head(s) \in S /\ Tail(s) \in Seq(S) /\ Len(Tail(s)) < Len(s)
         /\ Elements(s) = Elements(Tail(s)) \cup {Head(s)}
<1>1. Head(s) \in S /\ Tail(s) \in Seq(S) /\ Len(Tail(s)) = Len(s) - 1
      /\ DOMAIN s = 1..Len(s) /\ Len(s) \in Nat \ {0} /\ DOMAIN Tail(s) = 1..(Len(s) - 1)
      /\ Head(s) = s[1] /\ \A i \in 1..(Len(s) - 1) : Tail(s)[i] = s[i + 1]
  OBVIOUS
<1>2. \A i \in 1..Len(s) : i = 1 \/ (i - 1 \in 1..(Len(s) - 1) /\ s[i] = Tail(s)[i - 1])
  BY <1>1
<1>3. \A i \in 1..(Len(s) - 1) : i + 1 \in 1..Len(s) /\ Tail(s)[i] = s[i + 1]
  BY <1>1
<1>4. 1 \in 1..Len(s)
  BY <1>1
<1>5. ASSUME NEW i \in DOMAIN s
      PROVE  s[i] \in Elements(Tail(s)) \cup {Head(s)}
  <2>1. CASE i = 1
    BY <1>1, <2>1
  <2>2. CASE i - 1 \in DOMAIN Tail(s) /\ s[i] = Tail(s)[i - 1]
    BY <2>2, Zenon DEF Elements
  <2>3. QED
    BY <1>1, <1>2, <2>1, <2>2
<1>6. Elements(Tail(s)) \cup {Head(s)} \subseteq Elements(s)
  BY <1>1, <1>3, <1>4, Zenon DEF Elements
<1>7. Elements(s) \subseteq Elements(Tail(s)) \cup {Head(s)}
  BY <1>5, Zenon DEF Elements
<1>8. QED
  BY <1>1, <1>6, <1>7

LEMMA EventTypes ==
  ASSUME TypeOK
  PROVE  /\ events # <<>> => Head(events) \in Notice /\ Tail(events) \in Seq(Notice)
                             /\ Len(Tail(events)) <= EventCap
         /\ fire # <<>> => Head(fire) \in Notice /\ Tail(fire) \in Seq(Notice)
                           /\ Len(Tail(fire)) <= QueueCap
  BY Bounds, ElementsTail DEF TypeOK

LEMMA EmitTypes ==
  ASSUME TypeOK, NEW n \in Name, NEW gone \in BOOLEAN, NEW ws, Emit(n, gone, ws)
  PROVE  events' \in Seq(Notice) /\ Len(events') <= EventCap /\ overflow' \in BOOLEAN
<1>1. [name |-> n, gone |-> gone] \in Notice
  BY DEF Notice
<1>2. CASE UNCHANGED events
  BY <1>2 DEF TypeOK, Emit
<1>3. CASE /\ Len(events) < EventCap /\ UNCHANGED overflow
           /\ events' = Append(events, [name |-> n, gone |-> gone])
  BY <1>1, <1>3, Bounds, ElementsAppend DEF TypeOK
<1>4. QED
  BY <1>2, <1>3 DEF Emit

LEMMA ArmTypes ==
  ASSUME TypeOK, NEW ns \in SUBSET Name, NEW gone \in BOOLEAN, Arm(ns, gone)
  PROVE  pending' \in [Name -> TimerId \cup {0}] /\ timers' \subseteq Timer
  BY DEF TypeOK, Arm, Timer

LEMMA TimerTypes ==
  ASSUME TypeOK, NEW t \in timers
  PROVE  /\ t \in Timer /\ t.name \in Name /\ Job(t) \in Notice
         /\ \A s \in {"running", "fired", "sending", "counted"} :
              [t EXCEPT !.stage = s] \in Timer /\ [t EXCEPT !.stage = s].name = t.name
  BY DEF TypeOK, Timer, Job, Notice

-----------------------------------------------------------------------------
(* Types *)

LEMMA InitTypes == Init => TypeOK
<1> SUFFICES ASSUME Init PROVE TypeOK
  OBVIOUS
<1>1. disk \in [File -> Held] /\ store \in [File -> Held]
  BY DEF Init, Held
<1>2. /\ at \in [Worker -> {"idle", "walk", "listed", "scan", "read", "write", "drop"}]
      /\ scanning \in [Worker -> BOOLEAN]
  BY DEF Init
<1>3. cur \in [Worker -> Name \cup {None}] /\ body \in [Worker -> Held]
  BY DEF Init, Held
<1>4. events \in Seq(Notice) /\ Len(events) <= EventCap /\ fire \in Seq(Notice) /\ Len(fire) <= QueueCap
  BY Bounds DEF Init
<1>5. pending \in [Name -> TimerId \cup {0}] /\ timers \subseteq Timer
  BY DEF Init
<1>6. /\ listed \in [Worker -> SUBSET File] /\ existing \in [Worker -> SUBSET File]
      /\ todo \in [Worker -> SUBSET File]
  BY DEF Init
<1>7. dirs \subseteq Dir /\ watched \subseteq dirs /\ ignored \subseteq File
      /\ steady \subseteq File /\ late \subseteq File
  BY DEF Init, Eligible
<1>8. unreconciledDrops \in Nat /\ dropped \in Nat /\ edits \in 0..MaxEdits /\ faults \in 0..MaxFaults
      /\ overflow \in BOOLEAN /\ rescanReq \in BOOLEAN /\ tree \in Dir \cup {None}
  <2>1. unreconciledDrops = 0 /\ dropped = 0 /\ edits = 0 /\ faults = 0
        /\ overflow = FALSE /\ rescanReq = FALSE /\ tree = None
    BY DEF Init
  <2>2. overflow \in BOOLEAN /\ rescanReq \in BOOLEAN
    BY <2>1, Zenon
  <2>3. 0 \in Nat /\ 0 \in 0..MaxEdits /\ 0 \in 0..MaxFaults
    BY Bounds DEF Bounds
  <2>4. QED
    BY <2>1, <2>2, <2>3
<1>9. QED
  BY <1>1, <1>2, <1>3, <1>4, <1>5, <1>6, <1>7, <1>8 DEF TypeOK

LEMMA NextTypes == TypeOK /\ [Next]_vars => TypeOK'
<1> SUFFICES ASSUME TypeOK, [Next]_vars PROVE TypeOK'
  OBVIOUS
<1> USE Tree, Bounds DEF Tree, Bounds
<1>1. ASSUME NEW p \in File, NEW c \in Held, Edit(p, c)
      PROVE  TypeOK'
  <2>1. p \in Name /\ (c = Gone) \in BOOLEAN
    BY DEF Name
  <2>2. events' \in Seq(Notice) /\ Len(events') <= EventCap /\ overflow' \in BOOLEAN
    BY <1>1, <2>1, EmitTypes DEF Edit
  <2>3. disk' \in [File -> Held] /\ steady' \subseteq File /\ edits' \in 0..MaxEdits
    BY <1>1 DEF Edit, Change, TypeOK
  <2>4. QED
    BY <1>1, <2>2, <2>3 DEF TypeOK, Edit, Change, debounce, requests, work
<1>2. ASSUME NEW d \in Dir, MoveOut(d)
      PROVE  TypeOK'
  <2>1. d \in Name
    BY DEF Name
  <2>2. events' \in Seq(Notice) /\ Len(events') <= EventCap /\ overflow' \in BOOLEAN
    BY <1>2, <2>1, EmitTypes DEF MoveOut
  <2>3. disk' \in [File -> Held] /\ steady' \subseteq File /\ edits' \in 0..MaxEdits
        /\ dirs' \subseteq Dir /\ watched' \subseteq dirs'
    BY <1>2 DEF MoveOut, Change, TypeOK, Held
  <2>4. QED
    BY <1>2, <2>2, <2>3 DEF TypeOK, MoveOut, Change, debounce, requests, work
<1>3. ASSUME NEW d \in Dir, NEW new \in [Under(d) -> Held], MoveIn(d, new)
      PROVE  TypeOK'
  <2>1. d \in Name
    BY DEF Name
  <2>2. events' \in Seq(Notice) /\ Len(events') <= EventCap /\ overflow' \in BOOLEAN
    BY <1>3, <2>1, EmitTypes DEF MoveIn
  <2>3. disk' \in [File -> Held] /\ steady' \subseteq File /\ edits' \in 0..MaxEdits
        /\ dirs' \subseteq Dir /\ watched \subseteq dirs'
    BY <1>3 DEF MoveIn, Change, TypeOK, Under
  <2>4. QED
    BY <1>3, <2>2, <2>3 DEF TypeOK, MoveIn, Change, debounce, requests, work
<1>4. ASSUME NEW excluded \in SUBSET File, EditRules(excluded)
      PROVE  TypeOK'
  <2>1. Rules \in Name
    BY DEF Name
  <2>2. events' \in Seq(Notice) /\ Len(events') <= EventCap /\ overflow' \in BOOLEAN
    BY <1>4, <2>1, EmitTypes DEF EditRules
  <2>3. steady' \subseteq File /\ edits' \in 0..MaxEdits
    BY <1>4 DEF EditRules, Change, TypeOK
  <2>4. QED
    BY <1>4, <2>2, <2>3 DEF TypeOK, EditRules, Change, debounce, requests, work
<1>5. CASE HandleEvent
  <2>1. Head(events).name \in Name /\ Head(events).gone \in BOOLEAN
        /\ events' \in Seq(Notice) /\ Len(events') <= EventCap
    BY <1>5, EventTypes DEF HandleEvent, Notice
  <2>2. pending' \in [Name -> TimerId \cup {0}] /\ timers' \subseteq Timer
    <3>1. CASE Arm({Head(events).name}, Head(events).gone)
      BY <2>1, <3>1, ArmTypes
    <3>2. CASE UNCHANGED debounce
      BY <3>2 DEF TypeOK, debounce
    <3>3. QED
      BY <1>5, <3>1, <3>2 DEF HandleEvent
  <2>3. watched' \subseteq dirs /\ tree' \in Dir \cup {None}
    BY <1>5 DEF HandleEvent, TypeOK
  <2>4. QED
    BY <1>5, <2>1, <2>2, <2>3 DEF TypeOK, HandleEvent, corpus, requests, work, ghost
<1>6. CASE ArmTree
  <2>1. {p \in Under(tree) : disk[p] # Gone} \in SUBSET Name
    BY DEF Under, Name
  <2>2. pending' \in [Name -> TimerId \cup {0}] /\ timers' \subseteq Timer
    BY <1>6, <2>1, ArmTypes DEF ArmTree
  <2>3. QED
    BY <1>6, <2>2 DEF TypeOK, ArmTree, corpus, kernel, requests, work, ghost
<1>7. CASE OverflowReported \/ Tick
  BY <1>7 DEF TypeOK, OverflowReported, Tick, requestRescan, corpus, kernel, debounce, work, ghost
<1>8. ASSUME NEW t \in timers, Debounce(t)
      PROVE  TypeOK'
  <2>1. t \in Timer /\ Job(t) \in Notice
        /\ [t EXCEPT !.stage = "fired"] \in Timer
        /\ [t EXCEPT !.stage = "sending"] \in Timer
        /\ [t EXCEPT !.stage = "counted"] \in Timer
    BY TimerTypes
  <2>2. CASE Expire(t)
    BY <2>1, <2>2 DEF TypeOK, Expire, Advance, corpus, kernel, requests, work, ghost
  <2>3. CASE Forget(t)
    BY <2>1, <2>3 DEF TypeOK, Forget, Advance, corpus, kernel, requests, work, ghost
  <2>4. CASE Send(t)
    <3>1. fire' \in Seq(Notice) /\ Len(fire') <= QueueCap
      BY <2>1, <2>4, ElementsAppend DEF Send, TypeOK
    <3>2. timers' \subseteq Timer
      BY <2>4 DEF Send, TypeOK
    <3>3. QED
      BY <2>4, <3>1, <3>2 DEF TypeOK, Send, corpus, kernel, work, ghost
  <2>5. CASE Refused(t)
    <3>0. timers \subseteq Timer /\ unreconciledDrops \in Nat /\ rescanReq \in BOOLEAN
      BY DEF TypeOK
    <3>1. timers' \subseteq Timer /\ unreconciledDrops' \in Nat /\ rescanReq' \in BOOLEAN
      <4>1. CASE timers' = timers \ {t} /\ rescanReq' = TRUE /\ UNCHANGED unreconciledDrops
        BY <3>0, <4>1
      <4>2. CASE /\ timers' = (timers \ {t}) \cup {[t EXCEPT !.stage = "counted"]}
                 /\ unreconciledDrops' = unreconciledDrops + 1 /\ UNCHANGED rescanReq
        BY <2>1, <3>0, <4>2
      <4>3. QED
        BY <2>5, <4>1, <4>2 DEF Refused, handleQueueFull, Advance, requestRescan
    <3>2. QED
      BY <2>5, <3>1 DEF TypeOK, Refused, corpus, kernel, work, ghost
  <2>6. QED
    BY <1>8, <2>2, <2>3, <2>4, <2>5 DEF Debounce
<1>9. CASE TakeJob
  <2>1. Head(fire).name \in Name /\ fire' \in Seq(Notice) /\ Len(fire') <= QueueCap
    BY <1>9, EventTypes DEF TakeJob, Notice
  <2>2. at' \in [Worker -> {"idle", "walk", "listed", "scan", "read", "write", "drop"}]
        /\ cur' \in [Worker -> Name \cup {None}]
    BY <1>9, <2>1 DEF TakeJob, Inspect, Begin, TypeOK, Worker
  <2>3. steady' \subseteq File /\ late' \subseteq File /\ store' \in [File -> Held]
        /\ rescanReq' \in BOOLEAN /\ faults' \in 0..MaxFaults
    <3>1. steady' \subseteq File
      BY <1>9 DEF TakeJob, Eligible
    <3>2. CASE UNCHANGED <<store, late, faults>>
      BY <1>9, <3>1, <3>2 DEF TakeJob, TypeOK, requestRescan
    <3>3. CASE /\ faults < MaxFaults /\ faults' = faults + 1
               /\ late' = late \cup {p \in File : Head(fire).name \in {p, In[p]}}
               /\ store' = [p \in File |-> IF Head(fire).gone /\ p = Head(fire).name
                                           THEN Gone ELSE store[p]]
               /\ UNCHANGED rescanReq
      BY <3>1, <3>3 DEF TypeOK, Held
    <3>4. QED
      BY <1>9, <3>2, <3>3 DEF TakeJob
  <2>4. QED
    BY <1>9, <2>1, <2>2, <2>3 DEF TypeOK, TakeJob, corpus, kernel, debounce, scan
<1>10. CASE Drop
  BY <1>10 DEF TypeOK, Drop, Return, Begin, Held, Worker, corpus, kernel, debounce, requests, scan, ghost
<1>11. CASE TakeRescan
  BY <1>11 DEF TypeOK, TakeRescan, Begin, Eligible, Worker, corpus, kernel, debounce
<1>12. CASE RescanFails
  BY <1>12 DEF TypeOK, RescanFails, Worker, corpus, kernel, debounce
<1>13. ASSUME NEW w \in Worker, Step(w)
       PROVE  TypeOK'
  <2>1. CASE Write(w)
    <3>1. store' \in [File -> Held]
      BY <2>1 DEF Write, TypeOK
    <3>2. QED
      BY <2>1, <3>1 DEF TypeOK, Write, Return, Begin, corpus, kernel, debounce, requests, scan, ghost
  <2>2. CASE Walk(w)
    BY <2>2 DEF TypeOK, Walk, Eligible, corpus, kernel, debounce, requests
  <2>3. CASE listActiveDocuments(w)
    BY <2>3 DEF TypeOK, listActiveDocuments, corpus, kernel, debounce, requests, ghost
  <2>4. CASE finishScan(w)
    BY <2>4 DEF TypeOK, finishScan, Held, corpus, kernel, debounce, requests, ghost
  <2>5. ASSUME NEW p \in File, Read(w, p)
        PROVE  TypeOK'
    <3>1. p \in Name
      BY DEF Name
    <3>0. todo \in [Worker -> SUBSET File] /\ cur \in [Worker -> Name \cup {None}]
          /\ at \in [Worker -> {"idle", "walk", "listed", "scan", "read", "write", "drop"}]
      BY DEF TypeOK
    <3>2. todo' \in [Worker -> SUBSET File]
      <4>1. CASE UNCHANGED todo
        BY <3>0, <4>1
      <4>2. CASE todo' = [todo EXCEPT ![w] = @ \ {p}]
        BY <3>0, <4>2
      <4>3. QED
        BY <2>5, <4>1, <4>2 DEF Read
    <3>3. store' \in [File -> Held] /\ body' \in [Worker -> Held]
      BY <2>5 DEF TypeOK, Read, Held
    <3>4. at' \in [Worker -> {"idle", "walk", "listed", "scan", "read", "write", "drop"}]
          /\ cur' \in [Worker -> Name \cup {None}]
      <4>1. CASE Begin(w, "write", p)
        BY <3>0, <3>1, <4>1 DEF Begin
      <4>2. CASE Return(w)
        BY <3>0, <4>2 DEF Return, Begin
      <4>3. QED
        BY <2>5, <4>1, <4>2 DEF Read
    <3>5. QED
      BY <2>5, <3>2, <3>3, <3>4 DEF TypeOK, Read, corpus, kernel, debounce, requests, scan, ghost
  <2>6. QED
    BY <1>13, <2>1, <2>2, <2>3, <2>4, <2>5 DEF Step
<1>14. CASE UNCHANGED vars
  BY <1>14 DEF TypeOK, vars
<1>15. QED
  BY <1>1, <1>2, <1>3, <1>4, <1>5, <1>6, <1>7, <1>8, <1>9, <1>10, <1>11, <1>12, <1>13, <1>14
     DEF Next, Environment, EventLoop

(* Every state of the watcher is well typed; the buffer and the queue never *)
(* hold more than their capacity.                                           *)
THEOREM WatchTypeCorrect == Spec => []TypeOK
  BY InitTypes, NextTypes, PTL DEF Spec

-----------------------------------------------------------------------------
(* What is pending stays pending *)

LEMMA NamesDiffer ==
  /\ File \cap Dir = {} /\ Rules \notin File /\ Rules \notin Dir /\ Root \notin Dir
  /\ \A p \in File : In[p] \in Dir \cup {Root}
  /\ None \notin Name
  BY Tree DEF Tree

(* The worker sits still.                                                   *)
LEMMA StoreKept ==
  ASSUME WatchInv, TreeInv',
         UNCHANGED <<store, at, scanning, listed, existing, todo, cur, body>>,
         \A q \in File : AllPending(q) => AllPending(q)',
         \A q \in File : q \in ignored' => q \in ignored \/ AllPending(q)',
         \A q \in File :
           \/ disk'[q] = disk[q] /\ (q \in ignored' <=> q \in ignored) /\ (Pending(q) => Pending(q)')
           \/ Pending(q)'
           \/ store[q] = Gone /\ disk'[q] = Gone /\ cur["watch"] # q
  PROVE  WatchInv'
<1> DEFINE Same(q) == /\ disk'[q] = disk[q] /\ (q \in ignored' <=> q \in ignored)
                      /\ (Pending(q) => Pending(q)')
           Left(q) == store[q] = Gone /\ disk'[q] = Gone /\ cur["watch"] # q
<1>1. \A q \in File : Same(q) => Wanted(q)' = Wanted(q)
  BY DEF Wanted
<1>2. \A q \in File : Left(q) => Wanted(q)' = Gone
  BY DEF Wanted
<1>3. Alone' /\ Stage'
  BY DEF WatchInv, Alone, Stage
<1>4. JobInv'
  <2>1. at["watch"] \in {"read", "write"} => cur["watch"] \in File
    BY DEF WatchInv, Stage
  <2>2. \A q \in File : q = cur["watch"] => Same(q) \/ Pending(q)'
    OBVIOUS
  <2>3. QED
    BY <1>1, <2>1, <2>2 DEF WatchInv, JobInv
<1>5. ScanInv'
  <2> SUFFICES ASSUME scanning["watch"], at["watch"] # "walk", NEW p \in File
               PROVE  /\ p \in listed["watch"] /\ p \in ignored' => AllPending(p)'
                      /\ p \notin listed["watch"] => Wanted(p)' = Gone \/ Pending(p)'
                      /\ at["watch"] # "listed" /\ p \notin existing["watch"] \cup listed["watch"] => store[p] = Gone
    BY DEF ScanInv
  <2>1. /\ p \in listed["watch"] /\ p \in ignored => AllPending(p)
        /\ p \notin listed["watch"] => Wanted(p) = Gone \/ Pending(p)
        /\ at["watch"] # "listed" /\ p \notin existing["watch"] \cup listed["watch"] => store[p] = Gone
    BY DEF WatchInv, ScanInv
  <2>2. QED
    BY <1>1, <1>2, <2>1
<1>6. ASSUME NEW p \in File
      PROVE  store'[p] = Wanted(p)' \/ Pending(p)' \/ InHand("watch", p)'
  <2>1. CASE Same(p) /\ ~Pending(p)'
    <3>1. store[p] = Wanted(p) \/ InHand("watch", p)
      BY <2>1 DEF WatchInv, KeepsUp
    <3>2. InHand("watch", p) => InHand("watch", p)'
      BY <1>1, <2>1 DEF InHand, Missing
    <3>3. QED
      BY <1>1, <2>1, <3>1, <3>2
  <2>2. CASE Left(p)
    BY <1>2, <2>2
  <2>3. QED
    BY <2>1, <2>2
<1>7. KeepsUp'
  BY <1>6 DEF KeepsUp
<1>8. QED
  BY <1>3, <1>4, <1>5, <1>7 DEF WatchInv

LEMMA Emitted ==
  ASSUME TypeOK, NEW n \in Name, NEW gone \in BOOLEAN, NEW ws, Emit(n, gone, ws)
  PROVE  /\ Elements(events) \subseteq Elements(events') /\ (overflow => overflow')
         /\ Names(events) \subseteq Names(events')
         /\ n \notin File \/ In[n] \in ws \cup {Root} =>
              overflow' \/ (/\ [name |-> n, gone |-> gone] \in Elements(events')
                            /\ n \in Names(events'))
<1>1. [name |-> n, gone |-> gone] \in Notice /\ [name |-> n, gone |-> gone].name = n
  BY DEF Notice
<1>2. CASE UNCHANGED events
  BY <1>2 DEF Emit, Names
<1>3. CASE events' = Append(events, [name |-> n, gone |-> gone]) /\ UNCHANGED overflow
  <2>1. Elements(events') = Elements(events) \cup {[name |-> n, gone |-> gone]}
    BY <1>1, <1>3, ElementsAppend DEF TypeOK
  <2>2. QED
    BY <1>1, <1>3, <2>1 DEF Names
<1>4. QED
  BY <1>2, <1>3 DEF Emit

(* The corpus changes; timers, jobs and requests are left alone.            *)
LEMMA ChangeKeeps ==
  ASSUME TypeOK, Change, Names(events) \subseteq Names(events'), overflow => overflow'
  PROVE  /\ \A n : Coming(n) => Coming(n)'
         /\ \A q \in File : AllPending(q) => AllPending(q)'
         /\ UNCHANGED <<store, at, scanning, listed, existing, todo, cur, body, tree>>
  BY DEF Change, Coming, AllPending, debounce, requests, work

LEMMA EnvironmentStep == TypeOK /\ WatchInv /\ Drift = {} /\ Environment => WatchInv'
<1> SUFFICES ASSUME TypeOK, WatchInv, Drift = {}, Environment PROVE WatchInv'
  OBVIOUS
<1> USE NamesDiffer
<1>1. ASSUME NEW p \in File, NEW c \in Held, Edit(p, c)
      PROVE  WatchInv'
  <2>1. p \in Name /\ (c = Gone) \in BOOLEAN /\ Emit(p, c = Gone, watched)
        /\ UNCHANGED <<dirs, ignored, watched>> /\ Change
    BY <1>1 DEF Edit, Name
  <2>2. /\ Elements(events) \subseteq Elements(events') /\ (overflow => overflow')
        /\ Names(events) \subseteq Names(events')
        /\ In[p] \in watched \cup {Root} => overflow' \/ p \in Names(events')
    BY <2>1, Emitted
  <2>3. /\ \A n : Coming(n) => Coming(n)'
        /\ \A q \in File : AllPending(q) => AllPending(q)'
        /\ UNCHANGED <<store, at, scanning, listed, existing, todo, cur, body, tree>>
    BY <2>1, <2>2, ChangeKeeps
  <2>4. /\ In[p] \in dirs \cup {Root}
        /\ (c = Gone /\ In[p] # Root => In[p] \in watched)
        /\ disk' = [disk EXCEPT ![p] = c]
    BY <1>1 DEF Edit
  <2>5. disk'[p] = c /\ \A q \in File \ {p} : disk'[q] = disk[q]
    BY <2>4 DEF TypeOK
  <2>6. \A q : Entering(q) => Entering(q)'
    BY <2>1, <2>2, <2>3 DEF Entering
  <2>7. Pending(p)'
    <3>1. CASE In[p] \in watched \cup {Root}
      BY <2>2, <3>1 DEF Pending, AllPending, Coming
    <3>2. CASE In[p] \in dirs \ watched
      <4>0. In[p] # Root
        BY <3>2 DEF TypeOK
      <4>1. c # Gone
        BY <2>4, <3>2, <4>0
      <4>2. Entering(In[p])'
        BY <2>6, <3>2 DEF WatchInv, TreeInv, Entering
      <4>3. In[p] \in Dir
        BY <3>2 DEF TypeOK
      <4>4. QED
        BY <2>5, <4>1, <4>2, <4>3 DEF Pending
    <3>3. QED
      BY <2>4, <3>1, <3>2
  <2>8. ASSUME NEW q \in File \ {p}
        PROVE  Pending(q) => Pending(q)'
    BY <2>1, <2>3, <2>5, <2>6 DEF Pending
  <2>9. TreeInv'
    BY <2>1, <2>2, <2>4, <2>5 DEF WatchInv, TreeInv
  <2>10. QED
    BY <2>1, <2>3, <2>5, <2>7, <2>8, <2>9, StoreKept
<1>2. ASSUME NEW d \in Dir, MoveOut(d)
      PROVE  WatchInv'
  <2>1. d \in Name /\ d \notin File /\ Emit(d, TRUE, watched) /\ Change
        /\ dirs' = dirs \ {d} /\ watched' = watched \ {d} /\ ignored' = ignored
    BY <1>2 DEF MoveOut, Name
  <2>2. /\ Elements(events) \subseteq Elements(events') /\ (overflow => overflow')
        /\ Names(events) \subseteq Names(events')
        /\ overflow' \/ d \in Names(events')
    BY <2>1, Emitted
  <2>3. /\ \A n : Coming(n) => Coming(n)'
        /\ \A q \in File : AllPending(q) => AllPending(q)'
        /\ UNCHANGED <<store, at, scanning, listed, existing, todo, cur, body, tree>>
    BY <2>1, <2>2, ChangeKeeps
  <2>4. /\ \A q \in File : In[q] = d => disk'[q] = Gone
        /\ \A q \in File : In[q] # d => disk'[q] = disk[q]
    BY <1>2 DEF MoveOut
  <2>5. \A q : q # d /\ Entering(q) => Entering(q)'
    BY <2>1, <2>2, <2>3 DEF Entering
  <2>6. ASSUME NEW q \in File, In[q] = d
        PROVE  Pending(q)'
    BY <2>1, <2>2, <2>6 DEF Pending, AllPending, Coming
  <2>7. ASSUME NEW q \in File, In[q] # d
        PROVE  Pending(q) => Pending(q)'
    BY <2>1, <2>3, <2>4, <2>5, <2>7 DEF Pending
  <2>8. TreeInv'
    BY <2>1, <2>2, <2>4 DEF WatchInv, TreeInv
  <2>9. QED
    BY <2>1, <2>3, <2>4, <2>6, <2>7, <2>8, StoreKept
<1>3. ASSUME NEW d \in Dir, NEW new \in [Under(d) -> Held], MoveIn(d, new)
      PROVE  WatchInv'
  <2>1. d \in Name /\ d \notin File /\ Emit(d, FALSE, watched) /\ Change
        /\ dirs' = dirs \cup {d} /\ watched' = watched /\ ignored' = ignored
    BY <1>3 DEF MoveIn, Name
  <2>2. /\ Elements(events) \subseteq Elements(events') /\ (overflow => overflow')
        /\ Names(events) \subseteq Names(events')
    BY <2>1, Emitted
  <2>3. /\ \A n : Coming(n) => Coming(n)'
        /\ \A q \in File : AllPending(q) => AllPending(q)'
        /\ UNCHANGED <<store, at, scanning, listed, existing, todo, cur, body, tree>>
    BY <2>1, <2>2, ChangeKeeps
  <2>4. Settled(d) /\ Len(events) < EventCap
    BY <1>3 DEF MoveIn
  <2>5. [name |-> d, gone |-> FALSE] \in Elements(events')
    <3>1. events' = Append(events, [name |-> d, gone |-> FALSE])
      BY <2>1, <2>4 DEF Emit, TypeOK
    <3>2. [name |-> d, gone |-> FALSE] \in Notice
      BY <2>1 DEF Notice
    <3>3. QED
      BY <3>1, <3>2, ElementsAppend DEF TypeOK
  <2>6. Entering(d)'
    BY <2>1, <2>5 DEF Entering
  <2>7. \A q \in File : In[q] # d => disk'[q] = disk[q]
    BY <1>3 DEF MoveIn
  <2>8. \A q : Entering(q) => Entering(q)'
    BY <2>1, <2>2, <2>3 DEF Entering
  <2>9. ASSUME NEW q \in File, In[q] = d
        PROVE  \/ Pending(q)'
               \/ store[q] = Gone /\ disk'[q] = Gone /\ cur["watch"] # q
    <3>1. CASE disk'[q] = Gone
      BY <2>4, <2>9, <3>1 DEF Settled, Under, Worker
    <3>2. CASE disk'[q] # Gone
      BY <2>1, <2>6, <2>9, <3>2 DEF Pending
    <3>3. QED
      BY <3>1, <3>2
  <2>10. ASSUME NEW q \in File, In[q] # d
         PROVE  Pending(q) => Pending(q)'
    BY <2>1, <2>3, <2>7, <2>8, <2>10 DEF Pending
  <2>11. TreeInv'
    BY <2>1, <2>2, <2>5, <2>7 DEF WatchInv, TreeInv
  <2>12. QED
    BY <2>1, <2>3, <2>7, <2>9, <2>10, <2>11, StoreKept
<1>4. ASSUME NEW excluded \in SUBSET File, EditRules(excluded)
      PROVE  WatchInv'
  <2>1. Rules \in Name /\ Emit(Rules, FALSE, watched) /\ Change
        /\ UNCHANGED <<disk, dirs, watched>>
    BY <1>4 DEF EditRules, Name
  <2>2. /\ Elements(events) \subseteq Elements(events') /\ (overflow => overflow')
        /\ Names(events) \subseteq Names(events')
        /\ overflow' \/ Rules \in Names(events')
    BY <2>1, Emitted
  <2>3. /\ \A n : Coming(n) => Coming(n)'
        /\ \A q \in File : AllPending(q) => AllPending(q)'
        /\ UNCHANGED <<store, at, scanning, listed, existing, todo, cur, body, tree>>
    BY <2>1, <2>2, ChangeKeeps
  <2>4. \A q \in File : AllPending(q)' /\ Pending(q)'
    BY <2>2 DEF AllPending, Pending, Coming
  <2>5. TreeInv'
    BY <2>1, <2>2 DEF WatchInv, TreeInv
  <2>6. QED
    BY <2>3, <2>4, <2>5, StoreKept
<1>5. QED
  BY <1>1, <1>2, <1>3, <1>4 DEF Environment

-----------------------------------------------------------------------------
(* The event loop and the timers pass on what they hold *)

LEMMA PipelineKeeps ==
  ASSUME WatchInv, UNCHANGED <<corpus, store, work, late>>, TreeInv',
         rescanReq => rescanReq', overflow => overflow' \/ rescanReq',
         \A n : Coming(n) => Coming(n)' \/ rescanReq',
         \A p \in File : In[p] \in Dir /\ Entering(In[p]) /\ disk[p] # Gone =>
                           Entering(In[p])' \/ Coming(p)'
  PROVE  WatchInv'
<1>1. \A q \in File : AllPending(q) => AllPending(q)'
  BY DEF AllPending
<1>2. \A q \in File : Pending(q) => Pending(q)'
  BY <1>1 DEF Pending, AllPending, corpus
<1>3. QED
  BY <1>1, <1>2, StoreKept DEF corpus, work

LEMMA Armed ==
  ASSUME TypeOK, NEW ns \in SUBSET Name, NEW gone, Arm(ns, gone)
  PROVE  /\ \A n \in ns : \E t \in timers' : t.name = n
         /\ \A t \in timers : t.name \notin ns => t \in timers'
<1>1. PICK id \in [ns -> TimerId] :
        timers' = (timers \ Stopped(ns))
                  \cup {[name |-> n, gone |-> gone, id |-> id[n], stage |-> "running"] : n \in ns}
  BY DEF Arm
<1>2. ASSUME NEW n \in ns
      PROVE  \E t \in timers' : t.name = n
  <2>1. [name |-> n, gone |-> gone, id |-> id[n], stage |-> "running"] \in timers'
    BY <1>1
  <2>2. QED
    BY <2>1
<1>3. QED
  BY <1>1, <1>2 DEF Stopped

LEMMA PipelineStep ==
  TypeOK /\ WatchInv /\ (EventLoop \/ Tick \/ \E t \in timers : Debounce(t)) => WatchInv'
<1> SUFFICES ASSUME TypeOK, WatchInv, EventLoop \/ Tick \/ \E t \in timers : Debounce(t)
             PROVE  WatchInv'
  OBVIOUS
<1> USE NamesDiffer
<1>1. CASE HandleEvent
  <2> DEFINE e == Head(events)
  <2>1. e.name \in Name /\ e \in Notice /\ Elements(events) = Elements(events') \cup {e}
        /\ events' = Tail(events)
    BY <1>1, EventTypes, ElementsTail DEF HandleEvent, TypeOK, Notice
  <2>2. Names(events) = Names(events') \cup {e.name}
    BY <2>1 DEF Names
  <2>3. /\ UNCHANGED <<corpus, store, work, late, rescanReq, overflow, fire>> /\ tree = None
    BY <1>1 DEF HandleEvent, requests, ghost
  <2>4. CASE Arm({e.name}, e.gone) /\ (e.gone \/ e.name \notin dirs) /\ UNCHANGED <<watched, tree>>
    <3>1. \A n : Coming(n) => Coming(n)'
      BY <2>1, <2>2, <2>3, <2>4, Armed DEF Coming
    <3>2. \A d \in dirs : [name |-> d, gone |-> FALSE] # e
      BY <2>4
    <3>3. \A d : Entering(d) => Entering(d)'
      BY <2>1, <2>3, <2>4, <3>2 DEF Entering, corpus
    <3>4. TreeInv'
      BY <2>1, <2>3, <2>4, <3>2 DEF WatchInv, TreeInv, corpus
    <3>5. QED
      BY <2>3, <3>1, <3>3, <3>4, PipelineKeeps
  <2>5. CASE /\ ~e.gone /\ e.name \in dirs /\ UNCHANGED debounce
             /\ watched' = watched \cup {e.name} /\ tree' = e.name
    <3>1. e.name \in Dir
      BY <2>5 DEF TypeOK
    <3>2. ASSUME NEW n, Coming(n), n # e.name
          PROVE  Coming(n)'
      BY <2>2, <2>3, <2>5, <3>2 DEF Coming, debounce
    <3>3. e = [name |-> e.name, gone |-> FALSE]
      BY <2>1, <2>5 DEF Notice
    <3>4. \A d \in dirs : d # None /\ (d # e.name => [name |-> d, gone |-> FALSE] # e)
      BY <2>3, <3>3 DEF TypeOK, Name
    <3>10. \A d : Entering(d) => Entering(d)'
      BY <2>1, <2>3, <2>5, <3>4 DEF Entering, corpus
    <3>11. dirs \ watched' = (dirs \ watched) \ {e.name}
      BY <2>5
    <3>5. \A d \in dirs \ watched' : [name |-> d, gone |-> FALSE] \in Elements(events')
      BY <2>1, <3>4, <3>11 DEF WatchInv, TreeInv
    <3>6. TreeInv'
      BY <2>3, <3>5 DEF WatchInv, TreeInv, corpus
    <3>7. \A q \in File : AllPending(q) => AllPending(q)'
      BY <2>3, <3>1, <3>2 DEF AllPending
    <3>8. \A q \in File : Pending(q) => Pending(q)'
      BY <2>3, <2>5, <3>1, <3>2, <3>10, <3>7 DEF Pending, corpus
    <3>9. QED
      BY <2>3, <3>6, <3>7, <3>8, StoreKept DEF corpus, work
  <2>6. QED
    BY <1>1, <2>4, <2>5 DEF HandleEvent
<1>2. CASE ArmTree
  <2> DEFINE ns == {p \in Under(tree) : disk[p] # Gone}
  <2>1. ns \in SUBSET Name /\ Arm(ns, FALSE) /\ tree' = None
        /\ UNCHANGED <<corpus, store, kernel, work, late, rescanReq, fire>>
    BY <1>2 DEF ArmTree, Under, Name, requests, ghost
  <2>2. /\ \A n \in ns : \E t \in timers' : t.name = n
        /\ \A t \in timers : t.name \notin ns => t \in timers'
    BY <2>1, Armed
  <2>3. \A n : Coming(n) => Coming(n)'
    BY <2>1, <2>2 DEF Coming, kernel
  <2>4. ASSUME NEW p \in File, Entering(In[p]), disk[p] # Gone
        PROVE  Entering(In[p])' \/ Coming(p)'
    <3>1. CASE tree = In[p]
      BY <2>2, <2>4, <3>1 DEF Under, Coming
    <3>2. CASE [name |-> In[p], gone |-> FALSE] \in Elements(events)
      BY <2>1, <2>4, <3>2 DEF Entering, kernel, corpus
    <3>3. QED
      BY <2>4, <3>1, <3>2 DEF Entering
  <2>5. TreeInv'
    BY <2>1 DEF WatchInv, TreeInv, corpus, kernel
  <2>6. QED
    BY <2>1, <2>3, <2>4, <2>5, PipelineKeeps DEF kernel
<1>3. CASE OverflowReported \/ Tick
  <2>1. UNCHANGED <<corpus, store, work, late, watched, events, tree, debounce, fire>> /\ rescanReq'
    BY <1>3 DEF OverflowReported, Tick, requestRescan, kernel, ghost
  <2>2. TreeInv' /\ \A n : Coming(n) => Coming(n)'
    BY <2>1 DEF WatchInv, TreeInv, Coming, corpus, debounce
  <2>3. \A d : Entering(d) => Entering(d)'
    BY <2>1 DEF Entering, corpus
  <2>4. QED
    BY <2>1, <2>2, <2>3, PipelineKeeps
<1>4. ASSUME NEW t \in timers, Debounce(t)
      PROVE  WatchInv'
  <2>1. UNCHANGED <<corpus, store, work, late, kernel, tree>> /\ (rescanReq => rescanReq')
    BY <1>4 DEF Debounce, Expire, Forget, Send, Refused, handleQueueFull, requestRescan, requests, ghost
  <2>2. ASSUME NEW n
        PROVE  Coming(n) => Coming(n)' \/ rescanReq'
    <3>1. /\ [t EXCEPT !.stage = "fired"].name = t.name
          /\ [t EXCEPT !.stage = "sending"].name = t.name
          /\ [t EXCEPT !.stage = "counted"].name = t.name
      BY TimerTypes
    <3>2. CASE Send(t)
      <4>0. Job(t) \in Notice /\ Job(t).name = t.name
        BY TimerTypes DEF Job
      <4>1. Elements(fire') = Elements(fire) \cup {Job(t)} /\ Job(t).name = t.name
        BY <3>2, <4>0, ElementsAppend DEF Send, TypeOK
      <4>2. QED
        BY <2>1, <3>2, <4>1 DEF Send, Coming, Names, kernel
    <3>3. CASE Expire(t)
      BY <2>1, <3>1, <3>3 DEF Expire, Advance, Coming, Names, kernel, requests
    <3>4. CASE Forget(t)
      BY <2>1, <3>1, <3>4 DEF Forget, Advance, Coming, Names, kernel, requests
    <3>5. CASE Refused(t)
      BY <2>1, <3>1, <3>5 DEF Refused, handleQueueFull, Advance, requestRescan, Coming, Names, kernel
    <3>6. QED
      BY <1>4, <3>2, <3>3, <3>4, <3>5 DEF Debounce
  <2>3. TreeInv' /\ \A d : Entering(d) => Entering(d)'
    BY <2>1 DEF WatchInv, TreeInv, Entering, corpus, kernel
  <2>4. QED
    BY <2>1, <2>2, <2>3, PipelineKeeps DEF kernel
<1>5. QED
  BY <1>1, <1>2, <1>3, <1>4 DEF EventLoop

-----------------------------------------------------------------------------
(* The worker *)

(* Everything but the worker sits still.                                    *)
LEMMA WorkerKeeps ==
  ASSUME UNCHANGED <<corpus, watched, events, overflow, tree, debounce, fire>>,
         rescanReq => rescanReq', late \subseteq late'
  PROVE  /\ \A q \in File : /\ AllPending(q) => AllPending(q)'
                            /\ Pending(q) => Pending(q)'
                            /\ Wanted(q)' = Wanted(q)
         /\ TreeInv => TreeInv'
         /\ disk' = disk /\ dirs' = dirs /\ ignored' = ignored
<1>1. \A n : Coming(n) => Coming(n)'
  BY DEF Coming, debounce
<1>2. \A d : Entering(d) => Entering(d)'
  BY DEF Entering, corpus
<1>3. \A q \in File : (AllPending(q) => AllPending(q)') /\ Wanted(q)' = Wanted(q)
  BY <1>1 DEF AllPending, Wanted, corpus
<1>4. \A q \in File : Pending(q) => Pending(q)'
  BY <1>1, <1>2, <1>3 DEF Pending, corpus
<1>5. TreeInv => TreeInv'
  BY DEF TreeInv, corpus
<1>6. QED
  BY <1>3, <1>4, <1>5 DEF corpus

LEMMA BeginStep ==
  ASSUME TypeOK, Alone, NEW stage, NEW n, Begin("watch", stage, n)
  PROVE  at'["watch"] = stage /\ cur'["watch"] = n /\ at'["initial"] = "idle"
  BY DEF Begin, TypeOK, Worker, Alone

LEMMA JobStep == TypeOK /\ WatchInv /\ TakeJob => WatchInv'
<1> SUFFICES ASSUME TypeOK, WatchInv, TakeJob PROVE WatchInv'
  OBVIOUS
<1> USE NamesDiffer
<1> DEFINE job == Head(fire)
<1>1. job.name \in Name /\ Elements(fire) = Elements(fire') \cup {job}
  BY EventTypes, ElementsTail DEF TakeJob, TypeOK, Notice
<1>2. Names(fire) = Names(fire') \cup {job.name}
  BY <1>1 DEF Names
<1>3. /\ UNCHANGED <<corpus, kernel, tree, debounce, scanning, listed, existing, todo, body>>
      /\ at["watch"] = "idle" /\ ~scanning["watch"] /\ Alone
  BY DEF TakeJob, scan, WatchInv, Stage
<1>4. \A n : Coming(n) /\ n # job.name => Coming(n)'
  BY <1>2, <1>3 DEF Coming, kernel, debounce
<1>5. (\A d : Entering(d) => Entering(d)') /\ TreeInv' /\ \A q \in File : Wanted(q)' = Wanted(q)
  BY <1>3 DEF Entering, WatchInv, TreeInv, Wanted, corpus, kernel
<1>6. \A q \in File : store[q] = Wanted(q) \/ Pending(q)
  BY <1>3 DEF WatchInv, KeepsUp, InHand
<1>7. CASE job.name = Rules /\ requestRescan /\ UNCHANGED <<store, at, cur, late, faults>>
  <2>1. \A q \in File : AllPending(q)' /\ Pending(q)'
    BY <1>7 DEF AllPending, Pending, requestRescan
  <2>2. QED
    BY <1>3, <1>5, <1>7, <2>1, StoreKept DEF corpus
<1>8. ASSUME job.name # Rules, rescanReq => rescanReq', late \subseteq late'
      PROVE  /\ \A q \in File : AllPending(q) => AllPending(q)'
             /\ \A q \in File : Pending(q) => \/ Pending(q)' \/ q = job.name
                                              \/ In[q] = job.name /\ job.name \in Dir \ dirs
  <2>1. \A q \in File : AllPending(q) => AllPending(q)'
    BY <1>3, <1>4, <1>8 DEF AllPending, kernel
  <2>2. QED
    BY <1>3, <1>4, <1>5, <2>1 DEF Pending, corpus
<1>9. CASE job.name # Rules /\ Inspect(job) /\ UNCHANGED <<store, rescanReq, late, faults>>
  <2>1. /\ \A q \in File : AllPending(q) => AllPending(q)'
        /\ \A q \in File : Pending(q) => \/ Pending(q)' \/ q = job.name
                                         \/ In[q] = job.name /\ job.name \in Dir \ dirs
    BY <1>8, <1>9
  <2>2. CASE job.name \in File /\ Wanted(job.name) # Gone
    <3>0. job.name \notin dirs
      BY <2>2 DEF TypeOK
    <3>1. Begin("watch", "read", job.name)
      BY <1>9, <2>2, <3>0 DEF Inspect, Eligible
    <3>2. at'["watch"] = "read" /\ cur'["watch"] = job.name /\ at'["initial"] = "idle"
      BY <1>3, <3>1, BeginStep
    <3>3. job.name \notin ignored /\ ignored' = ignored
      BY <1>3, <2>2 DEF Wanted, corpus
    <3>4. KeepsUp'
      BY <1>5, <1>6, <1>9, <2>1, <2>2, <3>2, <3>3 DEF KeepsUp, InHand
    <3>5. Alone' /\ Stage' /\ JobInv' /\ ScanInv'
      BY <1>3, <2>2, <3>2, <3>3 DEF Alone, Stage, JobInv, ScanInv
    <3>6. QED
      BY <1>5, <3>4, <3>5 DEF WatchInv
  <2>3. CASE job.name \in dirs
    <3>1. job.name \notin File /\ job.name \in Dir
      BY <2>3 DEF TypeOK
    <3>2. UNCHANGED <<at, cur>>
      BY <1>9, <2>3, <3>1 DEF Inspect
    <3>3. \A q \in File : Pending(q) => Pending(q)'
      BY <2>1, <2>3, <3>1
    <3>4. QED
      BY <1>3, <1>5, <1>9, <2>1, <3>2, <3>3, StoreKept DEF corpus
  <2>4. CASE job.name \notin dirs /\ (job.name \in File => Wanted(job.name) = Gone)
    <3>1. Begin("watch", "drop", job.name)
      BY <1>9, <2>4 DEF Inspect, Eligible
    <3>2. at'["watch"] = "drop" /\ cur'["watch"] = job.name /\ at'["initial"] = "idle"
      BY <1>3, <3>1, BeginStep
    <3>3. job.name \in File \cup Dir
      BY <1>1, <1>9 DEF Name
    <3>4. \A q \in File : In[q] = job.name /\ job.name \in Dir => disk'[q] = Gone
      BY <1>3, <2>4 DEF WatchInv, TreeInv, corpus
    <3>5. KeepsUp'
      BY <1>5, <1>6, <1>9, <2>1, <2>4, <3>2, <3>4 DEF KeepsUp, InHand
    <3>6. Alone' /\ Stage' /\ JobInv' /\ ScanInv'
      BY <1>3, <1>5, <2>4, <3>2, <3>3 DEF Alone, Stage, JobInv, ScanInv
    <3>7. QED
      BY <1>5, <3>5, <3>6 DEF WatchInv
  <2>5. QED
    BY <2>2, <2>3, <2>4
<1>10. CASE /\ job.name # Rules
            /\ late' = late \cup {p \in File : job.name \in {p, In[p]}}
            /\ store' = [p \in File |-> IF job.gone /\ p = job.name THEN Gone ELSE store[p]]
            /\ UNCHANGED <<rescanReq, at, cur>>
  <2>1. /\ \A q \in File : AllPending(q) => AllPending(q)'
        /\ \A q \in File : Pending(q) => \/ Pending(q)' \/ q = job.name
                                         \/ In[q] = job.name /\ job.name \in Dir \ dirs
    BY <1>8, <1>10
  <2>2. \A q \in File : q = job.name \/ In[q] = job.name => Pending(q)'
    BY <1>10 DEF Pending, AllPending
  <2>3. \A q \in File : Pending(q) => Pending(q)'
    BY <2>1, <2>2
  <2>4. KeepsUp'
    BY <1>5, <1>6, <1>10, <2>2, <2>3 DEF KeepsUp
  <2>5. Alone' /\ Stage' /\ JobInv' /\ ScanInv'
    BY <1>3, <1>10 DEF WatchInv, Alone, Stage, JobInv, ScanInv
  <2>6. QED
    BY <1>5, <2>4, <2>5 DEF WatchInv
<1>11. QED
  BY <1>7, <1>9, <1>10 DEF TakeJob

LEMMA DropStep == TypeOK /\ WatchInv /\ Drop => WatchInv'
<1> SUFFICES ASSUME TypeOK, WatchInv, Drop PROVE WatchInv'
  OBVIOUS
<1>1. /\ UNCHANGED <<corpus, watched, events, overflow, tree, debounce, fire, rescanReq, late>>
      /\ UNCHANGED <<scanning, listed, existing, todo, body>>
      /\ at["watch"] = "drop" /\ ~scanning["watch"] /\ Alone
  BY DEF Drop, kernel, requests, scan, ghost, WatchInv, Stage
<1>2. /\ \A q \in File : (Pending(q) => Pending(q)') /\ Wanted(q)' = Wanted(q)
      /\ TreeInv' /\ disk' = disk
  BY <1>1, WorkerKeeps DEF WatchInv
<1>3. Begin("watch", "idle", None)
  BY <1>1 DEF Drop, Return
<1>4. at'["watch"] = "idle" /\ at'["initial"] = "idle"
  BY <1>1, <1>3, BeginStep
<1>5. ASSUME NEW q \in File
      PROVE  store'[q] = Wanted(q)' \/ Pending(q)'
  <2>1. CASE q = cur["watch"]
    BY <1>1, <1>2, <2>1 DEF Drop, WatchInv, JobInv
  <2>2. CASE In[q] = cur["watch"] /\ disk[q] = Gone
    BY <1>2, <2>2 DEF Drop, Wanted
  <2>3. CASE q # cur["watch"] /\ ~(In[q] = cur["watch"] /\ disk[q] = Gone)
    <3>1. store[q] = Wanted(q) \/ Pending(q)
      BY <1>1, <2>3 DEF WatchInv, KeepsUp, InHand
    <3>2. store'[q] = store[q]
      BY <2>3 DEF Drop
    <3>3. QED
      BY <1>2, <3>1, <3>2
  <2>4. QED
    BY <2>1, <2>2, <2>3
<1>6. Alone' /\ Stage' /\ JobInv' /\ ScanInv' /\ KeepsUp'
  BY <1>1, <1>4, <1>5 DEF Alone, Stage, JobInv, ScanInv, KeepsUp
<1>7. QED
  BY <1>2, <1>6 DEF WatchInv

LEMMA ReadStep ==
  ASSUME TypeOK, WatchInv, NEW p \in File, Read("watch", p)
  PROVE  WatchInv'
<1>1. /\ UNCHANGED <<corpus, watched, events, overflow, tree, debounce, fire, rescanReq, late>>
      /\ UNCHANGED <<scanning, listed, existing>> /\ Alone
  BY DEF Read, kernel, requests, scan, ghost, WatchInv
<1>2. /\ \A q \in File : /\ (Pending(q) => Pending(q)') /\ Wanted(q)' = Wanted(q)
                         /\ (AllPending(q) => AllPending(q)')
      /\ TreeInv' /\ disk' = disk /\ ignored' = ignored
  BY <1>1, WorkerKeeps DEF WatchInv
<1>3. \/ at["watch"] = "read" /\ p = cur["watch"] /\ ~scanning["watch"] /\ UNCHANGED todo
      \/ at["watch"] = "scan" /\ p \in todo["watch"] /\ scanning["watch"]
         /\ p \in listed["watch"] /\ todo["watch"] \subseteq listed["watch"]
         /\ todo'["watch"] = todo["watch"] \ {p}
  BY DEF Read, WatchInv, Stage, TypeOK, Worker
<1>4. p \in ignored => Pending(p)
  BY <1>3 DEF WatchInv, JobInv, ScanInv, Pending
<1>5. CASE /\ disk[p] # Gone /\ body' = [body EXCEPT !["watch"] = disk[p]]
           /\ Begin("watch", "write", p) /\ UNCHANGED store
  <2>1. at'["watch"] = "write" /\ cur'["watch"] = p /\ at'["initial"] = "idle"
    BY <1>1, <1>5, BeginStep
  <2>2. body'["watch"] = Wanted(p)' \/ Pending(p)'
    BY <1>2, <1>4, <1>5 DEF TypeOK, Worker, Wanted
  <2>3. ASSUME NEW q \in File
        PROVE  store'[q] = Wanted(q)' \/ Pending(q)' \/ InHand("watch", q)'
    <3>1. CASE q = p
      BY <2>1, <2>2, <3>1 DEF InHand
    <3>2. CASE q # p
      <4>1. store[q] = Wanted(q) \/ Pending(q) \/ InHand("watch", q)
        BY DEF WatchInv, KeepsUp
      <4>2. InHand("watch", q) => InHand("watch", q)'
        BY <1>1, <1>2, <1>3, <2>1, <3>2 DEF InHand, Missing
      <4>3. QED
        BY <1>2, <1>5, <4>1, <4>2
    <3>3. QED
      BY <3>1, <3>2
  <2>4. Alone' /\ Stage' /\ JobInv'
    BY <1>1, <1>3, <2>1, <2>2 DEF Alone, Stage, JobInv
  <2>5. ScanInv'
    BY <1>1, <1>2, <1>3, <1>5, <2>1 DEF WatchInv, ScanInv
  <2>6. QED
    BY <1>2, <2>3, <2>4, <2>5 DEF WatchInv, KeepsUp
<1>6. CASE disk[p] = Gone /\ store' = [store EXCEPT ![p] = Gone] /\ Return("watch")
  <2>1. at'["watch"] = (IF scanning["watch"] THEN "scan" ELSE "idle") /\ at'["initial"] = "idle"
    BY <1>1, <1>6, BeginStep DEF Return
  <2>2. store'[p] = Wanted(p)' /\ \A q \in File \ {p} : store'[q] = store[q]
    BY <1>2, <1>6 DEF Wanted, TypeOK
  <2>3. ASSUME NEW q \in File
        PROVE  store'[q] = Wanted(q)' \/ Pending(q)' \/ InHand("watch", q)'
    <3>1. CASE q = p
      BY <2>2, <3>1
    <3>2. CASE q # p
      <4>1. store[q] = Wanted(q) \/ Pending(q) \/ InHand("watch", q)
        BY DEF WatchInv, KeepsUp
      <4>2. InHand("watch", q) => InHand("watch", q)'
        BY <1>1, <1>2, <1>3, <2>1, <3>2 DEF InHand, Missing
      <4>3. QED
        BY <1>2, <2>2, <3>2, <4>1, <4>2
    <3>3. QED
      BY <3>1, <3>2
  <2>4. Alone' /\ Stage' /\ JobInv'
    BY <1>1, <1>3, <2>1 DEF Alone, Stage, JobInv
  <2>5. ScanInv'
    BY <1>1, <1>2, <1>3, <2>1, <2>2 DEF WatchInv, ScanInv
  <2>6. QED
    BY <1>2, <2>3, <2>4, <2>5 DEF WatchInv, KeepsUp
<1>7. QED
  BY <1>5, <1>6 DEF Read

LEMMA WriteStep == TypeOK /\ WatchInv /\ Write("watch") => WatchInv'
<1> SUFFICES ASSUME TypeOK, WatchInv, Write("watch") PROVE WatchInv'
  OBVIOUS
<1>1. /\ UNCHANGED <<corpus, watched, events, overflow, tree, debounce, fire, rescanReq, late>>
      /\ UNCHANGED <<scanning, listed, existing, todo, body>>
      /\ at["watch"] = "write" /\ Alone /\ cur["watch"] \in File
  BY DEF Write, kernel, requests, scan, ghost, WatchInv, Stage
<1>2. /\ \A q \in File : /\ (Pending(q) => Pending(q)') /\ Wanted(q)' = Wanted(q)
                         /\ (AllPending(q) => AllPending(q)')
      /\ TreeInv' /\ disk' = disk /\ ignored' = ignored
  BY <1>1, WorkerKeeps DEF WatchInv
<1>3. at'["watch"] = (IF scanning["watch"] THEN "scan" ELSE "idle") /\ at'["initial"] = "idle"
  BY <1>1, BeginStep DEF Write, Return
<1>4. store'[cur["watch"]] = body["watch"] /\ \A q \in File \ {cur["watch"]} : store'[q] = store[q]
  BY <1>1 DEF Write, TypeOK
<1>5. ASSUME NEW q \in File
      PROVE  store'[q] = Wanted(q)' \/ Pending(q)' \/ InHand("watch", q)'
  <2>1. CASE q = cur["watch"]
    BY <1>1, <1>2, <1>4, <2>1 DEF WatchInv, JobInv
  <2>2. CASE q # cur["watch"]
    <3>1. store[q] = Wanted(q) \/ Pending(q) \/ InHand("watch", q)
      BY DEF WatchInv, KeepsUp
    <3>2. InHand("watch", q) => InHand("watch", q)'
      BY <1>1, <1>2, <1>3, <2>2 DEF InHand, Missing
    <3>3. QED
      BY <1>2, <1>4, <2>2, <3>1, <3>2
  <2>3. QED
    BY <2>1, <2>2
<1>6. Alone' /\ Stage' /\ JobInv'
  BY <1>1, <1>3 DEF WatchInv, Alone, Stage, JobInv
<1>7. ScanInv'
  BY <1>1, <1>2, <1>3, <1>4 DEF WatchInv, ScanInv, Stage
<1>8. QED
  BY <1>2, <1>5, <1>6, <1>7 DEF WatchInv, KeepsUp

LEMMA ScanStep ==
  TypeOK /\ WatchInv /\ (TakeRescan \/ RescanFails \/ Walk("watch")
                         \/ listActiveDocuments("watch") \/ finishScan("watch")) => WatchInv'
<1> SUFFICES ASSUME TypeOK, WatchInv,
                    TakeRescan \/ RescanFails \/ Walk("watch")
                    \/ listActiveDocuments("watch") \/ finishScan("watch")
             PROVE  WatchInv'
  OBVIOUS
<1>1. CASE TakeRescan
  <2>1. /\ UNCHANGED <<corpus, kernel, scanning["initial"]>> /\ Alone
        /\ Begin("watch", "walk", None) /\ scanning'["watch"]
    BY <1>1 DEF TakeRescan, WatchInv, Alone, TypeOK, Worker
  <2>2. at'["watch"] = "walk" /\ at'["initial"] = "idle"
    BY <2>1, BeginStep
  <2>3. TreeInv'
    BY <2>1 DEF WatchInv, TreeInv, corpus, kernel
  <2>4. QED
    BY <2>1, <2>2, <2>3 DEF WatchInv, Alone, Stage, JobInv, ScanInv, KeepsUp, InHand
<1>2. CASE RescanFails
  <2>1. /\ UNCHANGED <<corpus, kernel, cur>> /\ late' = File /\ Alone'
        /\ at'["watch"] = "idle" /\ scanning'["watch"] = FALSE
    BY <1>2 DEF RescanFails, WatchInv, Alone, TypeOK, Worker
  <2>2. TreeInv'
    BY <2>1 DEF WatchInv, TreeInv, corpus, kernel
  <2>3. \A q \in File : Pending(q)'
    BY <2>1 DEF Pending, AllPending
  <2>4. QED
    BY <2>1, <2>2, <2>3 DEF WatchInv, Stage, JobInv, ScanInv, KeepsUp
<1>3. CASE Walk("watch")
  <2>1. /\ UNCHANGED <<corpus, kernel, scanning, cur>> /\ Alone'
        /\ at["watch"] = "walk" /\ at'["watch"] = "listed" /\ scanning["watch"]
        /\ listed'["watch"] = Eligible
    BY <1>3 DEF Walk, WatchInv, Alone, Stage, TypeOK, Worker
  <2>2. TreeInv' /\ \A q \in File : Wanted(q)' = Wanted(q)
    BY <2>1 DEF WatchInv, TreeInv, Wanted, corpus, kernel
  <2>3. \A q \in File : /\ q \in listed'["watch"] => q \notin ignored'
                        /\ q \notin listed'["watch"] => Wanted(q)' = Gone
    BY <2>1, <2>2 DEF Eligible, Wanted, corpus
  <2>4. KeepsUp' /\ ScanInv'
    BY <2>1, <2>3 DEF KeepsUp, ScanInv, InHand
  <2>5. QED
    BY <2>1, <2>2, <2>4 DEF WatchInv, Stage, JobInv
<1>4. CASE listActiveDocuments("watch")
  <2>1. /\ UNCHANGED <<corpus, watched, events, overflow, tree, debounce, fire, rescanReq, late>>
        /\ UNCHANGED <<scanning, cur, store, listed>> /\ Alone'
        /\ at["watch"] = "listed" /\ at'["watch"] = "scan" /\ scanning["watch"]
        /\ existing'["watch"] = {p \in File : store[p] # Gone}
        /\ todo'["watch"] = listed["watch"]
    BY <1>4 DEF listActiveDocuments, WatchInv, Alone, Stage, TypeOK, Worker, kernel, requests, ghost
  <2>2. /\ \A q \in File : /\ (Pending(q) => Pending(q)') /\ Wanted(q)' = Wanted(q)
                           /\ (AllPending(q) => AllPending(q)')
        /\ TreeInv' /\ ignored' = ignored
    BY <2>1, WorkerKeeps DEF WatchInv
  <2>3. \A q \in File : /\ q \in listed["watch"] /\ q \in ignored => AllPending(q)
                        /\ q \notin listed["watch"] => Wanted(q) = Gone \/ Pending(q)
    BY <2>1 DEF WatchInv, ScanInv
  <2>4. ScanInv'
    BY <2>1, <2>2, <2>3 DEF ScanInv
  <2>5. ASSUME NEW q \in File
        PROVE  store'[q] = Wanted(q)' \/ Pending(q)' \/ InHand("watch", q)'
    <3>1. CASE q \in listed["watch"]
      BY <2>1, <2>2, <2>3, <3>1 DEF InHand, Pending
    <3>2. CASE q \notin listed["watch"]
      BY <2>1, <2>2, <2>3, <3>2 DEF InHand, Missing
    <3>3. QED
      BY <3>1, <3>2
  <2>6. QED
    BY <2>1, <2>2, <2>4, <2>5 DEF WatchInv, Stage, JobInv, KeepsUp
<1>5. CASE finishScan("watch")
  <2>1. /\ UNCHANGED <<corpus, watched, events, overflow, tree, debounce, fire, rescanReq, late>>
        /\ UNCHANGED cur /\ Alone' /\ at["watch"] = "scan" /\ at'["watch"] = "idle"
        /\ scanning["watch"] /\ ~scanning'["watch"] /\ todo["watch"] = {}
    BY <1>5 DEF finishScan, WatchInv, Alone, Stage, TypeOK, Worker, kernel, requests, ghost
  <2>2. /\ \A q \in File : (Pending(q) => Pending(q)') /\ Wanted(q)' = Wanted(q)
        /\ TreeInv'
    BY <2>1, WorkerKeeps DEF WatchInv
  <2>3. ASSUME NEW q \in File
        PROVE  store'[q] = Wanted(q)' \/ Pending(q)'
    <3>1. CASE q \in Missing("watch")
      <4>1. q \notin listed["watch"] /\ store'[q] = Gone
        BY <1>5, <3>1 DEF finishScan, Missing
      <4>2. QED
        BY <2>1, <2>2, <4>1 DEF WatchInv, ScanInv
    <3>2. CASE q \notin Missing("watch")
      <4>1. store'[q] = store[q]
        BY <1>5, <3>2 DEF finishScan
      <4>2. store[q] = Wanted(q) \/ Pending(q)
        BY <2>1, <3>2 DEF WatchInv, KeepsUp, InHand
      <4>3. QED
        BY <2>2, <4>1, <4>2
    <3>3. QED
      BY <3>1, <3>2
  <2>4. QED
    BY <2>1, <2>2, <2>3 DEF WatchInv, Stage, JobInv, ScanInv, KeepsUp
<1>6. QED
  BY <1>1, <1>2, <1>3, <1>4, <1>5

-----------------------------------------------------------------------------
(* The invariant *)

LEMMA InitInv == Drift = {} /\ Init => WatchInv
<1> SUFFICES ASSUME Drift = {}, Init PROVE WatchInv
  OBVIOUS
<1>1. store = disk /\ at = [w \in Worker |-> "idle"] /\ scanning = [w \in Worker |-> FALSE]
      /\ ignored = {} /\ watched = dirs
      /\ \A p \in File : In[p] \notin dirs \cup {Root} => disk[p] = Gone
  BY DEF Init
<1>2. QED
  BY <1>1 DEF WatchInv, Alone, TreeInv, Stage, JobInv, ScanInv, KeepsUp, Wanted, Worker

LEMMA NextInv == TypeOK /\ WatchInv /\ Drift = {} /\ [Next]_vars => WatchInv'
<1> SUFFICES ASSUME TypeOK, WatchInv, Drift = {}, [Next]_vars PROVE WatchInv'
  OBVIOUS
<1>1. ASSUME NEW w \in Worker, Step(w)
      PROVE  WatchInv'
  <2>1. w = "watch"
    BY <1>1 DEF Step, Write, Walk, listActiveDocuments, finishScan, Read, WatchInv, Alone, Worker
  <2>2. QED
    BY <1>1, <2>1, WriteStep, ScanStep, ReadStep DEF Step
<1>2. CASE UNCHANGED vars
  <2>1. UNCHANGED <<corpus, watched, events, overflow, tree, debounce, fire, rescanReq, late>>
        /\ UNCHANGED <<store, at, scanning, listed, existing, todo, cur, body>>
    BY <1>2 DEF vars, corpus, debounce
  <2>2. /\ \A q \in File : (Pending(q) => Pending(q)') /\ (AllPending(q) => AllPending(q)')
        /\ TreeInv' /\ disk' = disk /\ ignored' = ignored
    BY <2>1, WorkerKeeps DEF WatchInv
  <2>3. QED
    BY <2>1, <2>2, StoreKept
<1>3. QED
  BY <1>1, <1>2, EnvironmentStep, PipelineStep, JobStep, DropStep, ScanStep DEF Next

LEMMA Invariance == ASSUME Drift = {} PROVE Spec => [](TypeOK /\ WatchInv)
<1>1. Init => TypeOK /\ WatchInv
  BY InitTypes, InitInv
<1>2. TypeOK /\ WatchInv /\ [Next]_vars => (TypeOK /\ WatchInv)'
  BY NextTypes, NextInv
<1>3. QED
  BY <1>1, <1>2, PTL DEF Spec

(* A watcher that starts in step with its corpus forgets no change: not one *)
(* whose event the kernel dropped, whose timer fired while it was re-armed, *)
(* whose job the full queue refused, that came while its file was being     *)
(* read or a rescan was running, or that only one event for a directory     *)
(* reported.                                                                *)
THEOREM ChangesRemembered ==
  ASSUME Drift = {}
  PROVE  Spec => []NoChangeForgotten
<1>1. TypeOK /\ WatchInv => NoChangeForgotten
  BY DEF WatchInv, KeepsUp, NoChangeForgotten, Remembered, Pending, AllPending, Worker
<1>2. QED
  BY <1>1, Invariance, PTL

-----------------------------------------------------------------------------
(* Dropped jobs *)

Announced == rescanReq \/ \E t \in timers : t.stage = "counted"

(* A count that began after its rescan took the request is announced anew.  *)
DropInv ==
  /\ unreconciledDrops > 0 => Announced \/ late = File
  /\ unreconciledDrops > 0 /\ at["watch"] = "walk" => Announced

LEMMA AnnouncedKept ==
  ASSUME TypeOK, DropInv, Announced => Announced', UNCHANGED <<unreconciledDrops, at>>,
         late \subseteq late', late' \subseteq File
  PROVE  DropInv'
  BY DEF DropInv, TypeOK

LEMMA ArmAnnounced ==
  ASSUME NEW ns, NEW gone, Arm(ns, gone), UNCHANGED rescanReq
  PROVE  Announced => Announced'
<1>1. \A t \in timers : t.stage = "counted" => t \in timers'
  BY DEF Arm, Stopped
<1>2. QED
  BY <1>1 DEF Announced

LEMMA DropInvNext == TypeOK /\ WatchInv /\ DropInv /\ [Next]_vars => DropInv'
<1> SUFFICES ASSUME TypeOK, WatchInv, DropInv, [Next]_vars PROVE DropInv'
  OBVIOUS
<1>1. CASE UNCHANGED <<timers, rescanReq, unreconciledDrops, at, late>>
  BY <1>1 DEF DropInv, Announced
<1>2. CASE Environment
  BY <1>1, <1>2 DEF Environment, Edit, MoveOut, MoveIn, EditRules, Change, debounce, requests, work
<1>3. CASE HandleEvent
  <2>1. UNCHANGED <<rescanReq, unreconciledDrops, at, late>>
    BY <1>3 DEF HandleEvent, requests, work, ghost
  <2>2. Announced => Announced'
    <3>1. CASE UNCHANGED debounce
      BY <2>1, <3>1 DEF Announced, debounce
    <3>2. CASE Arm({Head(events).name}, Head(events).gone)
      BY <2>1, <3>2, ArmAnnounced
    <3>3. QED
      BY <1>3, <3>1, <3>2 DEF HandleEvent
  <2>3. QED
    BY <2>1, <2>2 DEF DropInv
<1>4. CASE ArmTree
  <2>1. UNCHANGED <<rescanReq, unreconciledDrops, at, late>>
    BY <1>4 DEF ArmTree, requests, work, ghost
  <2>2. Announced => Announced'
    BY <1>4, <2>1, ArmAnnounced DEF ArmTree
  <2>3. QED
    BY <2>1, <2>2 DEF DropInv
<1>5. CASE OverflowReported \/ Tick
  BY <1>5 DEF OverflowReported, Tick, requestRescan, Announced, DropInv
<1>6. ASSUME NEW t \in timers, Debounce(t)
      PROVE  DropInv'
  <2>1. UNCHANGED <<at, late>>
    BY <1>6 DEF Debounce, Expire, Forget, Send, Refused, work, ghost
  <2>2. CASE Refused(t)
    <3>1. t \in Timer /\ [t EXCEPT !.stage = "counted"].stage = "counted"
      BY TimerTypes DEF Timer
    <3>2. Announced'
      BY <2>2, <3>1 DEF Refused, handleQueueFull, Advance, requestRescan, Announced
    <3>3. QED
      BY <3>2 DEF DropInv
  <2>3. CASE Expire(t) \/ Forget(t) \/ Send(t)
    <3>1. t.stage # "counted" /\ UNCHANGED <<rescanReq, unreconciledDrops>>
          /\ \A u \in timers : u # t => u \in timers'
      BY <2>3 DEF Expire, Forget, Send, Advance, requests
    <3>2. Announced => Announced'
      BY <3>1 DEF Announced
    <3>3. QED
      BY <2>1, <3>1, <3>2 DEF DropInv
  <2>4. QED
    BY <1>6, <2>2, <2>3 DEF Debounce
<1>7. CASE TakeJob
  <2>1. UNCHANGED <<timers, unreconciledDrops>> /\ (rescanReq => rescanReq')
        /\ late \subseteq late' /\ late' \subseteq File
    BY <1>7 DEF TakeJob, requestRescan, debounce, TypeOK
  <2>2. at'["watch"] # "walk"
    BY <1>7 DEF TakeJob, Inspect, Begin, TypeOK, Worker
  <2>3. QED
    BY <2>1, <2>2 DEF DropInv, Announced, TypeOK
<1>8. CASE Drop
  <2>1. Begin("watch", "idle", None) /\ Alone
        /\ UNCHANGED <<timers, rescanReq, unreconciledDrops, late>>
    BY <1>8 DEF Drop, Return, WatchInv, Stage, debounce, requests, ghost
  <2>2. at'["watch"] = "idle"
    BY <2>1, BeginStep
  <2>3. QED
    BY <2>1, <2>2 DEF DropInv, Announced
<1>9. CASE TakeRescan
  BY <1>9 DEF TakeRescan, DropInv
<1>10. CASE RescanFails
  BY <1>10 DEF RescanFails, DropInv, TypeOK, Worker
<1>11. ASSUME NEW w \in Worker, Step(w)
       PROVE  DropInv'
  <2>1. w = "watch" /\ Alone
    BY <1>11 DEF Step, Write, Walk, listActiveDocuments, finishScan, Read, WatchInv, Alone, Worker
  <2>2. at'["watch"] # "walk" /\ UNCHANGED <<timers, rescanReq, unreconciledDrops>>
        /\ (late' = late \/ at["watch"] = "walk")
    <3>1. CASE Walk(w) \/ listActiveDocuments(w) \/ finishScan(w)
      BY <2>1, <3>1 DEF Walk, listActiveDocuments, finishScan, debounce, requests, ghost, TypeOK, Worker
    <3>2. CASE Write(w)
      BY <2>1, <3>2, BeginStep DEF Write, Return, debounce, requests, ghost
    <3>3. ASSUME NEW p \in File, Read(w, p)
          PROVE  at'["watch"] # "walk" /\ UNCHANGED <<timers, rescanReq, unreconciledDrops>> /\ late' = late
      BY <2>1, <3>3, BeginStep DEF Read, Return, debounce, requests, ghost
    <3>4. QED
      BY <1>11, <3>1, <3>2, <3>3 DEF Step
  <2>3. QED
    BY <2>2 DEF DropInv, Announced
<1>12. CASE UNCHANGED vars
  BY <1>1, <1>12 DEF vars
<1>13. QED
  BY <1>2, <1>3, <1>4, <1>5, <1>6, <1>7, <1>8, <1>9, <1>10, <1>11, <1>12 DEF Next, EventLoop

(* Every dropped job on record has a rescan coming that will count it, or   *)
(* had one that failed.                                                     *)
THEOREM DropsReconciled ==
  ASSUME Drift = {}
  PROVE  Spec => []DropsAwaitRescan
<1>1. Init => DropInv
  BY DEF Init, DropInv
<1>2. DropInv => DropsAwaitRescan
  BY DEF DropInv, DropsAwaitRescan, Announced
<1>3. Spec => [](TypeOK /\ WatchInv)
  BY Invariance
<1>4. QED
  BY <1>1, <1>2, <1>3, DropInvNext, PTL DEF Spec

-----------------------------------------------------------------------------
(* Files that stay *)

(* What the worker has decided to tombstone was missing after it started.   *)
SteadyInv ==
  /\ steady \subseteq Eligible
  /\ at["watch"] = "drop" => cur["watch"] \notin steady
  /\ scanning["watch"] /\ at["watch"] # "walk" => steady \subseteq listed["watch"]
  /\ at["watch"] = "write" => body["watch"] # Gone

Kept == \A p \in steady' : store'[p] = Gone => store[p] = Gone \/ faults' # faults

LEMMA SteadyNext ==
  TypeOK /\ TypeOK' /\ WatchInv /\ WatchInv' /\ SteadyInv /\ [Next]_vars => SteadyInv' /\ Kept
<1> SUFFICES ASSUME TypeOK, TypeOK', WatchInv, WatchInv', SteadyInv, [Next]_vars
             PROVE  SteadyInv' /\ Kept
  OBVIOUS
<1> USE NamesDiffer
<1>1. CASE /\ steady' \subseteq Eligible' /\ steady' \subseteq steady
           /\ UNCHANGED <<store, at, cur, scanning, listed, body>>
  BY <1>1 DEF SteadyInv, Kept
<1>2. CASE Environment
  <2>1. Change
    BY <1>2 DEF Environment, Edit, MoveOut, MoveIn, EditRules
  <2>2. steady' = {p \in steady : p \notin ignored' /\ disk'[p] # Gone} /\ steady \subseteq File
    BY <2>1 DEF Change, TypeOK
  <2>3. steady' \subseteq Eligible'
    BY <2>2 DEF Eligible, Wanted
  <2>4. QED
    BY <1>1, <2>1, <2>2, <2>3 DEF Change, work
<1>3. CASE UNCHANGED <<corpus, steady, store, work>>
  <2>1. Eligible' = Eligible
    BY <1>3 DEF Eligible, Wanted, corpus
  <2>2. QED
    BY <1>1, <1>3, <2>1 DEF SteadyInv, work
<1>4. CASE EventLoop \/ Tick
  BY <1>3, <1>4 DEF EventLoop, HandleEvent, ArmTree, OverflowReported, Tick, ghost
<1>5. CASE \E t \in timers : Debounce(t)
  BY <1>3, <1>5 DEF Debounce, Expire, Forget, Send, Refused, ghost
<1>6. CASE TakeJob
  <2>1. steady' = Eligible /\ Eligible' = Eligible /\ at["watch"] = "idle" /\ ~scanning["watch"] /\ Alone
        /\ UNCHANGED <<scanning, listed, body>>
    BY <1>6 DEF TakeJob, Eligible, Wanted, corpus, scan, WatchInv, Stage
  <2>2. CASE UNCHANGED <<at, cur>>
    BY <1>6, <2>1, <2>2 DEF SteadyInv, Kept, TakeJob, TypeOK
  <2>3. CASE Inspect(Head(fire)) /\ UNCHANGED store
    <3>1. \/ Begin("watch", "read", Head(fire).name)
          \/ UNCHANGED <<at, cur>>
          \/ Begin("watch", "drop", Head(fire).name) /\ Head(fire).name \notin Eligible
      BY <2>3 DEF Inspect, Eligible
    <3>2. CASE Begin("watch", "read", Head(fire).name)
      BY <2>1, <2>3, <3>2, BeginStep DEF SteadyInv, Kept
    <3>3. CASE Begin("watch", "drop", Head(fire).name) /\ Head(fire).name \notin Eligible
      BY <2>1, <2>3, <3>3, BeginStep DEF SteadyInv, Kept
    <3>4. QED
      BY <2>2, <3>1, <3>2, <3>3
  <2>4. QED
    BY <1>6, <2>2, <2>3 DEF TakeJob
<1>7. CASE Drop
  <2>1. Begin("watch", "idle", None) /\ Alone /\ ~scanning["watch"] /\ at["watch"] = "drop"
        /\ UNCHANGED <<corpus, steady, scanning>>
    BY <1>7 DEF Drop, Return, WatchInv, Stage, scan, ghost
  <2>2. Eligible' = Eligible
    BY <2>1 DEF Eligible, Wanted, corpus
  <2>3. \A p \in steady : p # cur["watch"] /\ disk[p] # Gone
    BY <2>1 DEF SteadyInv, Eligible, Wanted
  <2>4. Kept
    BY <1>7, <2>1, <2>3 DEF Kept, Drop, TypeOK
  <2>5. QED
    BY <2>1, <2>2, <2>4, BeginStep DEF SteadyInv
<1>8. CASE TakeRescan
  <2>1. Begin("watch", "walk", None) /\ Alone /\ steady' = Eligible /\ UNCHANGED <<corpus, store>>
    BY <1>8 DEF TakeRescan, WatchInv
  <2>2. Eligible' = Eligible
    BY <2>1 DEF Eligible, Wanted, corpus
  <2>3. QED
    BY <2>1, <2>2, BeginStep DEF SteadyInv, Kept
<1>9. CASE RescanFails
  <2>1. /\ UNCHANGED <<corpus, steady, store>>
        /\ at'["watch"] = "idle" /\ ~scanning'["watch"]
    BY <1>9 DEF RescanFails, TypeOK, Worker
  <2>2. Eligible' = Eligible
    BY <2>1 DEF Eligible, Wanted, corpus
  <2>3. QED
    BY <2>1, <2>2 DEF SteadyInv, Kept
<1>10. ASSUME NEW w \in Worker, Step(w)
       PROVE  SteadyInv' /\ Kept
  <2>1. w = "watch" /\ Alone
    BY <1>10 DEF Step, Write, Walk, listActiveDocuments, finishScan, Read, WatchInv, Alone, Worker
  <2>2. UNCHANGED <<corpus, steady>> /\ Eligible' = Eligible
    <3>1. UNCHANGED <<corpus, steady>>
      BY <1>10 DEF Step, Write, Walk, listActiveDocuments, finishScan, Read, ghost
    <3>2. QED
      BY <3>1 DEF Eligible, Wanted, corpus
  <2>3. CASE Write(w)
    <3>1. at'["watch"] = (IF scanning["watch"] THEN "scan" ELSE "idle")
          /\ UNCHANGED <<scanning, listed>> /\ at["watch"] = "write" /\ cur["watch"] \in File
      BY <2>1, <2>3, BeginStep DEF Write, Return, scan, WatchInv, Stage
    <3>2. Kept
      BY <2>1, <2>2, <2>3, <3>1 DEF Kept, Write, SteadyInv, TypeOK
    <3>3. QED
      BY <2>2, <3>1, <3>2 DEF SteadyInv
  <2>4. CASE Walk(w)
    BY <2>1, <2>2, <2>4 DEF Walk, SteadyInv, Kept, TypeOK, Worker
  <2>5. CASE listActiveDocuments(w)
    BY <2>1, <2>2, <2>5 DEF listActiveDocuments, SteadyInv, Kept, TypeOK, Worker, WatchInv, Stage
  <2>6. CASE finishScan(w)
    <3>1. at["watch"] = "scan" /\ scanning["watch"] /\ steady \subseteq listed["watch"]
          /\ at'["watch"] = "idle" /\ ~scanning'["watch"]
      BY <2>1, <2>6 DEF finishScan, SteadyInv, WatchInv, Stage, TypeOK, Worker
    <3>2. Kept
      BY <2>1, <2>2, <2>6, <3>1 DEF Kept, finishScan, Missing, TypeOK
    <3>3. QED
      BY <2>2, <3>1, <3>2 DEF SteadyInv
  <2>7. ASSUME NEW p \in File, Read(w, p)
        PROVE  SteadyInv' /\ Kept
    <3>1. /\ UNCHANGED <<scanning, listed>>
          /\ scanning["watch"] => steady \subseteq listed["watch"]
      BY <2>1, <2>7 DEF Read, scan, SteadyInv, WatchInv, Stage
    <3>2. CASE /\ disk[p] # Gone /\ body' = [body EXCEPT ![w] = disk[p]]
               /\ Begin(w, "write", p) /\ UNCHANGED store
      <4>1. at'["watch"] = "write" /\ body'["watch"] # Gone
        BY <2>1, <3>2, BeginStep DEF TypeOK, Worker
      <4>2. QED
        BY <2>2, <3>1, <3>2, <4>1 DEF SteadyInv, Kept
    <3>3. CASE /\ disk[p] = Gone /\ store' = [store EXCEPT ![p] = Gone] /\ Return(w)
      <4>1. at'["watch"] \in {"scan", "idle"}
        BY <2>1, <3>3, BeginStep DEF Return
      <4>2. p \notin steady
        BY <3>3 DEF SteadyInv, Eligible, Wanted
      <4>3. Kept
        BY <2>2, <3>3, <4>2 DEF Kept, TypeOK
      <4>4. QED
        BY <2>2, <3>1, <4>1, <4>3 DEF SteadyInv
    <3>4. QED
      BY <2>7, <3>2, <3>3 DEF Read
  <2>8. QED
    BY <1>10, <2>3, <2>4, <2>5, <2>6, <2>7 DEF Step
<1>11. CASE UNCHANGED vars
  BY <1>3, <1>11 DEF vars, corpus, work
<1>12. QED
  BY <1>2, <1>4, <1>5, <1>6, <1>7, <1>8, <1>9, <1>10, <1>11 DEF Next

(* A file that stays where it is keeps its document, whatever the events    *)
(* say: a job or a scan only tombstones what was missing or ignored after   *)
(* it had started.                                                          *)
THEOREM PresentKept ==
  ASSUME Drift = {}
  PROVE  Spec => PresentIsKept
<1>1. Init => SteadyInv
  <2>1. ASSUME Init PROVE SteadyInv
    <3>1. at["watch"] = "idle" /\ ~scanning["watch"] /\ steady = Eligible
      BY <2>1 DEF Init, Worker
    <3>2. QED
      BY <3>1 DEF SteadyInv
  <2>2. QED
    BY <2>1
<1>2. Spec => [](TypeOK /\ WatchInv)
  BY Invariance
<1>3. Kept => \A p \in steady' : store'[p] = Gone => store[p] = Gone \/ faults' # faults
  BY DEF Kept
<1>4. TypeOK /\ TypeOK' /\ WatchInv /\ WatchInv' /\ SteadyInv /\ [Next]_vars
      => SteadyInv' /\ [\A p \in steady' : store'[p] = Gone => store[p] = Gone \/ faults' # faults]_vars
  BY <1>3, SteadyNext
<1>5. QED
  BY <1>1, <1>2, <1>4, PTL DEF Spec, PresentIsKept
=============================================================================
