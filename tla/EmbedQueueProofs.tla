-------------------------- MODULE EmbedQueueProofs --------------------------
(***************************************************************************)
(* Proofs about EmbedQueue, for every set of corpora, chunks, tokens and   *)
(* every redelivery budget.  The invariant QueueInv is inductive together  *)
(* with TypeOK; its four parts need each other: that a token names one     *)
(* delivery rests on tokens being exclusive, which rests on FreshToken.    *)
(***************************************************************************)
EXTENDS EmbedQueue, TLAPS

-----------------------------------------------------------------------------
(* Facts about reclaiming, used by Lease, by LeaseNoJob and by Stats *)

(* Requeueing a row of any state gives a well-formed pending row.           *)
LEMMA RequeuedRow ==
  ASSUME NEW r \in Row, NEW delay \in BOOLEAN
  PROVE  /\ Requeued(r, delay) \in Row
         /\ Requeued(r, delay).state = "pending"
         /\ Requeued(r, delay).token = NoToken
         /\ Requeued(r, delay).job = r.job
         /\ Requeued(r, delay).attempts = r.attempts
  BY DEF Requeued, Row

(* Every reclaimed row comes from a row of the queue with the same job and  *)
(* attempts, and either is that row or is it back in pending.               *)
LEMMA ReclaimedFrom ==
  ASSUME TypeOK, NEW r \in Reclaimed
  PROVE  /\ r \in Row
         /\ \E s \in rows :
              /\ s.job = r.job /\ s.attempts = r.attempts
              /\ \/ r = s
                 \/ /\ r = Requeued(s, s.wait)
                    /\ s.attempts < MaxAttempts
                    /\ r.state = "pending" /\ r.token = NoToken
  <1>1. CASE r \in rows
    BY <1>1 DEF TypeOK
  <1>2. CASE \E s \in rows : Expired(s) /\ s.attempts < MaxAttempts /\ r = Requeued(s, s.wait)
    <2>1. PICK s \in rows : s.attempts < MaxAttempts /\ r = Requeued(s, s.wait)
      BY <1>2
    <2>2. s \in Row /\ s.wait \in BOOLEAN
      BY DEF TypeOK, Row
    <2>3. QED
      BY <2>1, <2>2, RequeuedRow
  <1>3. QED
    BY <1>1, <1>2 DEF Reclaimed

(* Reclaiming alone keeps every part of the invariant.                      *)
LEMMA ReclaimedInv ==
  ASSUME TypeOK, QueueInv
  PROVE  /\ Reclaimed \subseteq Row
         /\ \A r, s \in Reclaimed : SameUnit(r.job, s.job) => r = s
         /\ \A r \in Reclaimed :
              /\ r.state = "pending" => r.attempts < MaxAttempts
              /\ r.state = "inflight" => r.attempts \in 1..MaxAttempts
         /\ \A l \in held, r \in Reclaimed :
              r.token = l.token => r.job = l.job /\ r.attempts = l.attempts
         /\ \A r \in Reclaimed : r.state = "inflight" <=> r.token # NoToken
         /\ \A r, s \in Reclaimed : r.token = s.token /\ r.token # NoToken => r = s
  <1>1. Reclaimed \subseteq Row
    BY ReclaimedFrom
  <1>2. ASSUME NEW r \in Reclaimed, NEW s \in Reclaimed, SameUnit(r.job, s.job)
        PROVE  r = s
    <2>1. CASE r \in rows /\ ~Expired(r) /\ s \in rows /\ ~Expired(s)
      BY <2>1, <1>2 DEF QueueInv, OneLiveJob
    <2>2. CASE \E x \in rows : Expired(x) /\ r = Requeued(x, x.wait)
      <3>1. PICK x \in rows : Expired(x) /\ r = Requeued(x, x.wait)
        BY <2>2
      <3>2. r.job = x.job
        BY <3>1, RequeuedRow DEF TypeOK, Row
      <3>3. CASE \E y \in rows : Expired(y) /\ s = Requeued(y, y.wait)
        <4>1. PICK y \in rows : Expired(y) /\ s = Requeued(y, y.wait)
          BY <3>3
        <4>2. s.job = y.job
          BY <4>1, RequeuedRow DEF TypeOK, Row
        <4>3. x = y
          BY <3>2, <4>2, <1>2 DEF QueueInv, OneLiveJob
        <4>4. QED
          BY <4>3, <3>1, <4>1
      <3>4. CASE s \in rows /\ ~Expired(s)
        BY <3>4, <3>1, <3>2, <1>2 DEF QueueInv, OneLiveJob
      <3>5. QED
        BY <3>3, <3>4 DEF Reclaimed
    <2>3. CASE /\ r \in rows /\ ~Expired(r)
               /\ \E y \in rows : Expired(y) /\ s = Requeued(y, y.wait)
      <3>1. PICK y \in rows : Expired(y) /\ s = Requeued(y, y.wait)
        BY <2>3
      <3>2. s.job = y.job
        BY <3>1, RequeuedRow DEF TypeOK, Row
      <3>3. r = y
        BY <2>3, <3>2, <1>2 DEF QueueInv, OneLiveJob
      <3>4. QED
        BY <3>1, <3>3, <2>3
    <2>4. QED
      BY <2>1, <2>2, <2>3 DEF Reclaimed
  <1>3. ASSUME NEW r \in Reclaimed
        PROVE  /\ r.state = "pending" => r.attempts < MaxAttempts
               /\ r.state = "inflight" => r.attempts \in 1..MaxAttempts
               /\ r.state = "inflight" <=> r.token # NoToken
    BY ReclaimedFrom DEF QueueInv, BudgetRespected, TokensExclusive
  <1>4. ASSUME NEW l \in held, NEW r \in Reclaimed, r.token = l.token
        PROVE  r.job = l.job /\ r.attempts = l.attempts
    <2>1. l.token # NoToken
      BY QueueAssumption DEF TypeOK, Lease
    <2>2. QED
      BY <1>4, <2>1, ReclaimedFrom DEF QueueInv, LeaseNamesDelivery
  <1>5. ASSUME NEW r \in Reclaimed, NEW s \in Reclaimed,
               r.token = s.token, r.token # NoToken
        PROVE  r = s
    BY <1>5, ReclaimedFrom DEF QueueInv, TokensExclusive
  <1>6. QED
    BY <1>1, <1>2, <1>3, <1>4, <1>5

(* The jobs reclaiming dead-letters are jobs.                               *)
LEMMA ExhaustedType ==
  ASSUME TypeOK
  PROVE  Exhausted \subseteq Job
  BY DEF TypeOK, Exhausted, Row

-----------------------------------------------------------------------------
(* One lemma per operation: each preserves TypeOK and QueueInv *)

(* Enqueue adds a pending row only when no live job has its key, so no unit *)
(* of work is doubled, and the new row carries no token.                    *)
LEMMA EnqueueStep ==
  ASSUME TypeOK, QueueInv, NEW j \in Job, Enqueue(j)
  PROVE  TypeOK' /\ QueueInv'
  <1> DEFINE new == [job |-> j, state |-> "pending", attempts |-> 0,
                     token |-> NoToken, age |-> "none", wait |-> FALSE]
  <1>1. /\ rows' = rows \cup {new} /\ dead' = dead /\ held' = held
        /\ \A r \in rows : ~SameJobKey(r.job, j)
    BY DEF Enqueue
  <1>2. new \in Row
    BY QueueAssumption DEF Row
  <1>3. TypeOK'
    BY <1>1, <1>2 DEF TypeOK
  <1>4. \A r \in rows : ~SameUnit(r.job, j) /\ ~SameUnit(j, r.job)
    BY <1>1 DEF SameUnit, SameJobKey
  <1>5. OneLiveJob'
    <2>1. new.job = j
      OBVIOUS
    <2>2. ASSUME NEW r \in rows', NEW s \in rows', SameUnit(r.job, s.job)
          PROVE  r = s
      <3>1. CASE r \in rows /\ s \in rows
        BY <3>1, <2>2 DEF QueueInv, OneLiveJob
      <3>2. CASE r = new \/ s = new
        BY <3>2, <2>1, <2>2, <1>1, <1>4
      <3>3. QED
        BY <3>1, <3>2, <1>1
    <2>3. QED
      BY <2>2 DEF OneLiveJob, SameUnit, SameJobKey
  <1>6. BudgetRespected'
    BY <1>1, QueueAssumption DEF QueueInv, BudgetRespected
  <1>7. LeaseNamesDelivery'
    BY <1>1, QueueAssumption DEF QueueInv, LeaseNamesDelivery, TypeOK, Lease
  <1>8. TokensExclusive'
    BY <1>1 DEF QueueInv, TokensExclusive
  <1>9. QED
    BY <1>3, <1>5, <1>6, <1>7, <1>8 DEF QueueInv

(* A lease reclaims first, then gives one claimable row a fresh token: the  *)
(* row was pending, so it has a delivery left, and no lease names it.       *)
LEMMA LeaseStep ==
  ASSUME TypeOK, QueueInv, NEW cp, NEW t \in Token, LeaseForCorpus(cp, t)
  PROVE  TypeOK' /\ QueueInv'
  <1>1. PICK r \in Reclaimed : Claimable(r, cp) /\ LeaseRow(r, t)
    BY DEF LeaseForCorpus
  <1> DEFINE new == Leased(r, t)
             got == [job |-> r.job, token |-> t, attempts |-> r.attempts + 1]
  <1>2. /\ rows' = (Reclaimed \ {r}) \cup {new}
        /\ dead' = dead \cup Exhausted
        /\ held' = held \cup {got}
    BY <1>1 DEF LeaseRow
  <1>3. r \in Row /\ r.state = "pending" /\ r.attempts < MaxAttempts
    BY <1>1, ReclaimedInv DEF Claimable
  <1>4. r.attempts + 1 \in 1..MaxAttempts
    BY <1>3, QueueAssumption DEF Row
  <1>5. /\ new \in Row /\ new.state = "inflight" /\ new.token = t
        /\ new.job = r.job /\ new.attempts = r.attempts + 1
    <2>1. r.attempts + 1 \in 0..MaxAttempts
      BY <1>4, QueueAssumption
    <2>2. QED
      BY <1>3, <2>1 DEF Leased, Row
  <1>6. got \in Lease
    BY <1>3, <1>4 DEF Lease, Row
  <1>7. TypeOK'
    BY <1>2, <1>5, <1>6, ReclaimedInv, ExhaustedType DEF TypeOK
  <1>8. /\ \A s \in Reclaimed : s.token # t
        /\ \A l \in held : l.token # t
        /\ t # NoToken
    BY <1>1, QueueAssumption DEF LeaseRow, FreshToken
  <1>9. OneLiveJob'
    BY <1>2, <1>5, <1>1, ReclaimedInv DEF OneLiveJob, SameUnit, SameJobKey
  <1>10. BudgetRespected'
    BY <1>2, <1>4, <1>5, ReclaimedInv DEF BudgetRespected
  <1>11. LeaseNamesDelivery'
    <2>1. ASSUME NEW l \in held', NEW s \in rows', s.token = l.token
          PROVE  s.job = l.job /\ s.attempts = l.attempts
      BY <2>1, <1>2, <1>5, <1>8, ReclaimedInv
    <2>2. ASSUME NEW l \in held', NEW m \in held', l.token = m.token
          PROVE  l = m
      BY <2>2, <1>2, <1>8 DEF QueueInv, LeaseNamesDelivery
    <2>3. QED
      BY <2>1, <2>2 DEF LeaseNamesDelivery
  <1>12. TokensExclusive'
    BY <1>2, <1>5, <1>8, ReclaimedInv DEF TokensExclusive
  <1>13. QED
    BY <1>7, <1>9, <1>10, <1>11, <1>12 DEF QueueInv

(* Reclaiming without a lease: an empty Lease of the memory broker, Stats.  *)
LEMMA ReclaimStep ==
  ASSUME TypeOK, QueueInv,
         rows' = Reclaimed, dead' = dead \cup Exhausted, held' = held
  PROVE  TypeOK' /\ QueueInv'
  <1>1. TypeOK'
    BY ReclaimedInv, ExhaustedType DEF TypeOK
  <1>2. OneLiveJob'
    BY ReclaimedInv DEF OneLiveJob, SameUnit, SameJobKey
  <1>3. BudgetRespected'
    BY ReclaimedInv DEF BudgetRespected
  <1>4. LeaseNamesDelivery'
    BY ReclaimedInv DEF QueueInv, LeaseNamesDelivery
  <1>5. TokensExclusive'
    BY ReclaimedInv DEF TokensExclusive
  <1>6. QED
    BY <1>1, <1>2, <1>3, <1>4, <1>5 DEF QueueInv

(* Dropping rows and leases breaks nothing: Ack, and a caller that is gone. *)
LEMMA DropStep ==
  ASSUME TypeOK, QueueInv,
         rows' \subseteq rows, held' \subseteq held, dead' \subseteq Job
  PROVE  TypeOK' /\ QueueInv'
  BY DEF TypeOK, QueueInv, OneLiveJob, BudgetRespected, LeaseNamesDelivery,
         TokensExclusive, SameUnit, SameJobKey

(* A Nack requeues the delivery it names when the budget allows another and *)
(* dead-letters it otherwise; the requeued row has given its token up.      *)
LEMMA NackStep ==
  ASSUME TypeOK, QueueInv, NEW l \in held, NEW delay \in BOOLEAN, Nack(l, delay)
  PROVE  TypeOK' /\ QueueInv'
  <1> DEFINE back == {r \in Delivered(l) : r.attempts < MaxAttempts}
  <1>1. /\ rows' = (rows \ Delivered(l)) \cup {Requeued(r, delay) : r \in back}
        /\ dead' = dead \cup {r.job : r \in Delivered(l) \ back}
        /\ held' = held \ {l}
    BY DEF Nack
  <1>2. Delivered(l) \subseteq rows
    BY DEF Delivered
  <1>3. \A r \in rows : Requeued(r, delay) \in Row /\ Requeued(r, delay).job = r.job
                        /\ Requeued(r, delay).token = NoToken
                        /\ Requeued(r, delay).state = "pending"
                        /\ Requeued(r, delay).attempts = r.attempts
    BY RequeuedRow DEF TypeOK
  <1>4. \A s \in rows' : \/ s \in rows /\ s \notin Delivered(l)
                         \/ \E r \in Delivered(l) : s = Requeued(r, delay)
                                                    /\ r.attempts < MaxAttempts
    BY <1>1
  <1>5. TypeOK'
    <2>1. rows' \subseteq Row
      BY <1>2, <1>3, <1>4 DEF TypeOK
    <2>2. dead' \subseteq Job
      BY <1>1, <1>2 DEF TypeOK, Row
    <2>3. QED
      BY <1>1, <2>1, <2>2 DEF TypeOK
  <1>6. OneLiveJob'
    <2>1. ASSUME NEW r \in rows', NEW s \in rows', SameUnit(r.job, s.job)
          PROVE  r = s
      <3>1. CASE r \in rows /\ r \notin Delivered(l) /\ s \in rows /\ s \notin Delivered(l)
        BY <3>1, <2>1 DEF QueueInv, OneLiveJob
      <3>2. CASE \E x \in Delivered(l) : r = Requeued(x, delay)
        BY <3>2, <2>1, <1>2, <1>3, <1>4 DEF QueueInv, OneLiveJob
      <3>3. CASE \E x \in Delivered(l) : s = Requeued(x, delay)
        BY <3>3, <2>1, <1>2, <1>3, <1>4 DEF QueueInv, OneLiveJob
      <3>4. QED
        BY <3>1, <3>2, <3>3, <1>4
    <2>2. QED
      BY <2>1 DEF OneLiveJob, SameUnit, SameJobKey
  <1>7. BudgetRespected'
    BY <1>2, <1>3, <1>4 DEF QueueInv, BudgetRespected
  <1>8. LeaseNamesDelivery'
    <2>1. \A m \in held : m.token # NoToken
      BY QueueAssumption DEF TypeOK, Lease
    <2>2. QED
      BY <2>1, <1>1, <1>2, <1>3, <1>4 DEF QueueInv, LeaseNamesDelivery
  <1>9. TokensExclusive'
    BY <1>2, <1>3, <1>4 DEF QueueInv, TokensExclusive
  <1>10. QED
    BY <1>5, <1>6, <1>7, <1>8, <1>9 DEF QueueInv

(* A clock moving changes neither the job, the state, the token nor the     *)
(* attempts of the row it moves.                                            *)
LEMMA ClockStep ==
  ASSUME TypeOK, QueueInv, NEW r \in rows, Age(r) \/ WaitOver(r)
  PROVE  TypeOK' /\ QueueInv'
  <1>1. PICK s \in Row : /\ rows' = (rows \ {r}) \cup {s}
                         /\ s.job = r.job /\ s.state = r.state
                         /\ s.token = r.token /\ s.attempts = r.attempts
    <2>1. r \in Row
      BY DEF TypeOK
    <2>2. CASE Age(r)
      <3> DEFINE s == [r EXCEPT !.age = LaterAge(r.age)]
      <3>1. s \in Row /\ s.job = r.job /\ s.state = r.state
            /\ s.token = r.token /\ s.attempts = r.attempts
        BY <2>1 DEF Row, LaterAge
      <3>2. rows' = (rows \ {r}) \cup {s}
        BY <2>2 DEF Age
      <3>3. QED
        BY <3>1, <3>2
    <2>3. CASE WaitOver(r)
      <3> DEFINE s == [r EXCEPT !.wait = FALSE]
      <3>1. s \in Row /\ s.job = r.job /\ s.state = r.state
            /\ s.token = r.token /\ s.attempts = r.attempts
        BY <2>1 DEF Row
      <3>2. rows' = (rows \ {r}) \cup {s}
        BY <2>3 DEF WaitOver
      <3>3. QED
        BY <3>1, <3>2
    <2>4. QED
      BY <2>2, <2>3
  <1>2. dead' = dead /\ held' = held
    BY DEF Age, WaitOver
  <1>3. TypeOK'
    BY <1>1, <1>2 DEF TypeOK
  <1>4. OneLiveJob'
    BY <1>1 DEF QueueInv, OneLiveJob, SameUnit, SameJobKey
  <1>5. BudgetRespected'
    BY <1>1 DEF QueueInv, BudgetRespected
  <1>6. LeaseNamesDelivery'
    BY <1>1, <1>2 DEF QueueInv, LeaseNamesDelivery
  <1>7. TokensExclusive'
    BY <1>1 DEF QueueInv, TokensExclusive
  <1>8. QED
    BY <1>3, <1>4, <1>5, <1>6, <1>7 DEF QueueInv

-----------------------------------------------------------------------------
(* The theorems *)

(* The empty queue is well formed.                                          *)
LEMMA QueueStart ==
  ASSUME QInit
  PROVE  TypeOK /\ QueueInv
  BY DEF QInit, TypeOK, QueueInv, OneLiveJob, BudgetRespected,
         LeaseNamesDelivery, TokensExclusive

(* Every broker operation and every environment step preserves the          *)
(* invariant, one step per disjunct of QNext.                               *)
LEMMA QueueStep ==
  ASSUME TypeOK, QueueInv, [QNext]_qvars
  PROVE  TypeOK' /\ QueueInv'
  <1>1. CASE \E j \in Job : Enqueue(j)
    BY <1>1, EnqueueStep
  <1>2. CASE \E cp \in Corpus \cup {AnyCorpus}, t \in Token : LeaseForCorpus(cp, t)
    BY <1>2, LeaseStep
  <1>3. CASE \E cp \in Corpus \cup {AnyCorpus} : LeaseNoJob(cp)
    BY <1>3, ReclaimStep, DropStep DEF LeaseNoJob, TypeOK
  <1>4. CASE \E l \in held : Ack(l)
    BY <1>4, DropStep DEF Ack, TypeOK
  <1>5. CASE \E l \in held, delay \in BOOLEAN : Nack(l, delay)
    BY <1>5, NackStep
  <1>6. CASE Stats
    BY <1>6, ReclaimStep DEF Stats
  <1>7. CASE \E r \in rows : Age(r)
    BY <1>7, ClockStep
  <1>8. CASE \E r \in rows : WaitOver(r)
    BY <1>8, ClockStep
  <1>9. CASE \E gone \in SUBSET held : Forget(gone)
    BY <1>9, DropStep DEF Forget, TypeOK
  <1>10. CASE UNCHANGED qvars
    BY <1>10, DropStep DEF qvars, TypeOK
  <1>11. QED
    BY <1>1, <1>2, <1>3, <1>4, <1>5, <1>6, <1>7, <1>8, <1>9, <1>10 DEF QNext

(* In every reachable state of the queue, of either broker, rows, dead      *)
(* letters and leases are well formed: in particular no attempt count ever  *)
(* passes the redelivery budget.                                            *)
THEOREM TypeCorrect == QSpec => []TypeOK
  <1>1. QInit => TypeOK /\ QueueInv
    BY QueueStart
  <1>2. TypeOK /\ QueueInv /\ [QNext]_qvars => (TypeOK /\ QueueInv)'
    BY QueueStep
  <1>3. QED
    BY <1>1, <1>2, PTL DEF QSpec

(* In every reachable state no unit of work is queued twice, no job is      *)
(* delivered more often than its budget, and a lease a caller still holds,  *)
(* however late, names at most the very delivery it was handed.             *)
THEOREM QueueSafe == QSpec => []QueueInv
  <1>1. QInit => TypeOK /\ QueueInv
    BY QueueStart
  <1>2. TypeOK /\ QueueInv /\ [QNext]_qvars => (TypeOK /\ QueueInv)'
    BY QueueStep
  <1>3. QED
    BY <1>1, <1>2, PTL DEF QSpec

(* In every behaviour of the queue a delivery whose deadline has not passed *)
(* stays with its holder until the holder itself settles it: reclaim looks  *)
(* at expired leases only, Lease at pending rows only, and Ack and Nack     *)
(* reach the row through the lease's own token.                             *)
THEOREM LeaseKept == QSpec => LiveLeaseKept
  <1> DEFINE Kept(r) == \E s \in rows' : /\ s.token = r.token /\ s.job = r.job
                                         /\ s.state = "inflight" /\ s.attempts = r.attempts
             Let(r) == \E l \in held \ held' : l.token = r.token
  <1>1. ASSUME TypeOK, [QNext]_qvars
        PROVE  [\A r \in rows :
                  r.state = "inflight" /\ r.age # "past" =>
                    \/ \E s \in rows' : /\ s.token = r.token /\ s.job = r.job
                                        /\ s.state = "inflight" /\ s.attempts = r.attempts
                    \/ \E l \in held \ held' : l.token = r.token]_qvars
    <2> SUFFICES ASSUME NEW r \in rows, r.state = "inflight", r.age # "past", QNext
                 PROVE  Kept(r) \/ Let(r)
      BY <1>1
    <2>1. r \in Reclaimed
      BY DEF Reclaimed, Expired
    <2>2. CASE r \in rows'
      BY <2>2
    <2>3. CASE \E cp \in Corpus \cup {AnyCorpus}, t \in Token : LeaseForCorpus(cp, t)
      <3>1. PICK q \in Reclaimed, t \in Token :
              q.state = "pending" /\ rows' = (Reclaimed \ {q}) \cup {Leased(q, t)}
        BY <2>3 DEF LeaseForCorpus, Claimable, LeaseRow
      <3>2. r # q
        BY <3>1
      <3>3. QED
        BY <2>1, <2>2, <3>1, <3>2
    <2>4. CASE \/ \E l \in held : Ack(l)
               \/ \E l \in held, delay \in BOOLEAN : Nack(l, delay)
      <3>1. PICK l \in held : /\ held' = held \ {l}
                              /\ rows \ Delivered(l) \subseteq rows'
        BY <2>4 DEF Ack, Nack
      <3>2. CASE r \in Delivered(l)
        BY <3>1, <3>2 DEF Delivered
      <3>3. CASE r \notin Delivered(l)
        BY <3>1, <3>3, <2>2
      <3>4. QED
        BY <3>2, <3>3
    <2>5. CASE \E q \in rows : Age(q)
      <3>1. PICK q \in rows : rows' = (rows \ {q}) \cup {[q EXCEPT !.age = LaterAge(q.age)]}
        BY <2>5 DEF Age
      <3>2. CASE q = r
        <4> DEFINE s == [r EXCEPT !.age = LaterAge(r.age)]
        <4>1. r \in Row
          BY <1>1 DEF TypeOK
        <4>2. s.token = r.token /\ s.job = r.job /\ s.state = r.state /\ s.attempts = r.attempts
          BY <4>1 DEF Row
        <4>3. s \in rows'
          BY <3>1, <3>2
        <4>4. QED
          BY <4>2, <4>3
      <3>3. QED
        BY <2>2, <3>1, <3>2
    <2>6. CASE \E q \in rows : WaitOver(q)
      <3>1. PICK q \in rows : rows' = (rows \ {q}) \cup {[q EXCEPT !.wait = FALSE]}
        BY <2>6 DEF WaitOver
      <3>2. CASE q = r
        <4> DEFINE s == [r EXCEPT !.wait = FALSE]
        <4>1. r \in Row
          BY <1>1 DEF TypeOK
        <4>2. s.token = r.token /\ s.job = r.job /\ s.state = r.state /\ s.attempts = r.attempts
          BY <4>1 DEF Row
        <4>3. s \in rows'
          BY <3>1, <3>2
        <4>4. QED
          BY <4>2, <4>3
      <3>3. QED
        BY <2>2, <3>1, <3>2
    <2>7. CASE (\E cp \in Corpus \cup {AnyCorpus} : LeaseNoJob(cp)) \/ Stats
      BY <2>1, <2>2, <2>7 DEF LeaseNoJob, Stats
    <2>8. CASE (\E j \in Job : Enqueue(j)) \/ (\E gone \in SUBSET held : Forget(gone))
      BY <2>2, <2>8 DEF Enqueue, Forget
    <2>9. QED
      BY <2>3, <2>4, <2>5, <2>6, <2>7, <2>8 DEF QNext
  <1>2. QED
    BY <1>1, TypeCorrect, PTL DEF QSpec, LiveLeaseKept

=============================================================================
