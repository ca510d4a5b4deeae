-------------------------- MODULE MemBrokerProofs --------------------------
(***************************************************************************)
(* The in-process broker implements the queue, for any jobs, tokens and    *)
(* budget.  The rows of the queue are a set and the FIFO is a sequence, so *)
(* the argument needs that no job is in the broker twice: then to take a   *)
(* job out of the FIFO is to take its row out of the queue.                *)
(***************************************************************************)
EXTENDS MemBroker, FiniteSetTheorems, SequenceTheorems, TLAPS

-----------------------------------------------------------------------------
(* Sequences and their sets *)

(* A sequence of a finite set's elements, each exactly once.                *)
LEMMA PermutationSet ==
  ASSUME NEW S, IsFiniteSet(S), NEW s \in SetToSeqs(S)
  PROVE  /\ s \in Seq(S)
         /\ ToSet(s) = S
         /\ \A i, k \in DOMAIN s : s[i] = s[k] => i = k
<1>. DEFINE D == 1 .. Cardinality(S)
<1>1. Cardinality(S) \in Nat
  BY FS_CardinalityType
<1>2. s \in [D -> S] /\ \A i, k \in D : i # k => s[i] # s[k]
  BY DEF SetToSeqs
<1>3. s \in Seq(S) /\ DOMAIN s = D
  BY <1>1, <1>2
<1>4. s \in Injection(D, S)
  BY <1>2 DEF Injection, IsInjective
<1>5. IsFiniteSet(D) /\ Cardinality(D) = Cardinality(S)
  BY <1>1, FS_Interval
<1>6. s \in Surjection(D, S)
  BY <1>4, <1>5, FS_Injection
<1>7. ToSet(s) = S
  BY <1>3, <1>6 DEF Surjection, ToSet
<1>8. QED
  BY <1>2, <1>3, <1>7

(* SetToSeq picks such a sequence.                                          *)
LEMMA PickedPermutation ==
  ASSUME NEW S, IsFiniteSet(S)
  PROVE  SetToSeq(S) \in SetToSeqs(S)
<1>. DEFINE D == 1 .. Cardinality(S)
<1>1. ExistsBijection(D, S)
  BY FS_CardinalityType
<1>2. PICK g \in Bijection(D, S) : TRUE
  BY <1>1 DEF ExistsBijection
<1>3. g \in [D -> S] /\ IsInjective(g)
  BY <1>2 DEF Bijection, Injection
<1>4. SetToSeq(S) \in [D -> S] /\ IsInjective(SetToSeq(S))
  BY <1>3 DEF SetToSeq
<1>5. QED
  BY <1>4 DEF SetToSeqs, IsInjective

(* What is in one sequence followed by another, and where.                  *)
LEMMA ConcatSet ==
  ASSUME NEW S, NEW s \in Seq(S), NEW t \in Seq(S)
  PROVE  /\ s \o t \in Seq(S)
         /\ ToSet(s \o t) = ToSet(s) \cup ToSet(t)
         /\ DOMAIN (s \o t) = 1 .. Len(s) + Len(t)
         /\ \A i \in 1 .. Len(s) : (s \o t)[i] = s[i]
         /\ \A i \in 1 .. Len(t) : (s \o t)[Len(s) + i] = t[i]
<1>1. /\ s \o t \in Seq(S) /\ Len(s \o t) = Len(s) + Len(t)
      /\ \A i \in 1 .. Len(s) + Len(t) :
           (s \o t)[i] = IF i <= Len(s) THEN s[i] ELSE t[i - Len(s)]
  BY ConcatProperties
<1>2. /\ Len(s) \in Nat /\ Len(t) \in Nat /\ DOMAIN s = 1 .. Len(s) /\ DOMAIN t = 1 .. Len(t)
      /\ DOMAIN (s \o t) = 1 .. Len(s) + Len(t)
  BY <1>1, LenProperties
<1>3. \A i \in 1 .. Len(t) : Len(s) + i \in 1 .. Len(s) + Len(t) /\ ~(Len(s) + i <= Len(s))
                              /\ (Len(s) + i) - Len(s) = i
  BY <1>2
<1>4. \A i \in 1 .. Len(s) : i \in 1 .. Len(s) + Len(t) /\ i <= Len(s)
  BY <1>2
<1>5. \A i \in 1 .. Len(s) + Len(t) : ~(i <= Len(s)) => i - Len(s) \in 1 .. Len(t)
  BY <1>2
<1>6. /\ \A i \in 1 .. Len(s) : (s \o t)[i] = s[i]
      /\ \A i \in 1 .. Len(t) : (s \o t)[Len(s) + i] = t[i]
  BY <1>1, <1>3, <1>4
<1>7. ToSet(s \o t) \subseteq ToSet(s) \cup ToSet(t)
  <2>1. ASSUME NEW i \in 1 .. Len(s) + Len(t) PROVE (s \o t)[i] \in ToSet(s) \cup ToSet(t)
    <3>1. CASE i <= Len(s)
      <4>1. i \in 1 .. Len(s)
        BY <1>2, <3>1
      <4>2. QED
        BY <1>2, <1>6, <4>1 DEF ToSet
    <3>2. CASE ~(i <= Len(s))
      BY <1>1, <1>2, <1>5, <3>2 DEF ToSet
    <3>3. QED
      BY <3>1, <3>2
  <2>2. QED
    BY <1>2, <2>1 DEF ToSet
<1>8. ToSet(s) \subseteq ToSet(s \o t)
  BY <1>2, <1>4, <1>6 DEF ToSet
<1>9. ToSet(t) \subseteq ToSet(s \o t)
  BY <1>2, <1>3, <1>6 DEF ToSet
<1>10. QED
  BY <1>1, <1>2, <1>6, <1>7, <1>8, <1>9

(* No job twice in a FIFO.                                                  *)
Apart(q) == \A i, k \in DOMAIN q : q[i].job = q[k].job => i = k

(* Taking out the i-th entry.                                               *)
LEMMA RemovedSet ==
  ASSUME NEW S, NEW q \in Seq(S), Apart(q), NEW i \in DOMAIN q
  PROVE  /\ RemoveAt(q, i) \in Seq(S)
         /\ ToSet(RemoveAt(q, i)) = ToSet(q) \ {q[i]}
         /\ Apart(RemoveAt(q, i))
<1>. DEFINE r == RemoveAt(q, i)
            n == Len(q)
<1>1. n \in Nat /\ DOMAIN q = 1 .. n /\ i \in 1 .. n /\ \A k \in 1 .. n : q[k] \in S
  BY LenProperties, ElementOfSeq
<1>. DEFINE a == SubSeq(q, 1, i - 1)
            b == SubSeq(q, i + 1, n)
<1>2. /\ a \in Seq(S) /\ Len(a) = i - 1
      /\ \A k \in 1 .. i - 1 : a[k] = q[k]
  <2>1. \A k \in 1 .. i - 1 : q[k] \in S
    BY <1>1
  <2>2. /\ a \in Seq(S) /\ Len(a) = IF 1 <= i - 1 THEN (i - 1) - 1 + 1 ELSE 0
        /\ \A k \in 1 .. (i - 1) - 1 + 1 : a[k] = q[1 + k - 1]
    BY <1>1, <2>1, SubSeqProperties
  <2>3. QED
    BY <1>1, <2>2
<1>3. /\ b \in Seq(S) /\ Len(b) = n - i
      /\ \A k \in 1 .. n - i : b[k] = q[i + k]
  <2>1. \A k \in i + 1 .. n : q[k] \in S
    BY <1>1
  <2>2. /\ b \in Seq(S) /\ Len(b) = IF i + 1 <= n THEN n - (i + 1) + 1 ELSE 0
        /\ \A k \in 1 .. n - (i + 1) + 1 : b[k] = q[(i + 1) + k - 1]
    BY <1>1, <2>1, SubSeqProperties
  <2>3. n - (i + 1) + 1 = n - i /\ \A k \in 1 .. n - i : (i + 1) + k - 1 = i + k
    BY <1>1
  <2>4. (IF i + 1 <= n THEN n - (i + 1) + 1 ELSE 0) = n - i
    BY <1>1
  <2>5. QED
    BY <2>2, <2>3, <2>4
<1>4. r = a \o b
  BY DEF RemoveAt
<1>. DEFINE Old(k) == IF k < i THEN k ELSE k + 1
<1>5. /\ r \in Seq(S) /\ DOMAIN r = 1 .. n - 1
      /\ \A k \in 1 .. n - 1 : r[k] = q[Old(k)] /\ Old(k) \in 1 .. n /\ Old(k) # i
  <2>1. r \in Seq(S) /\ Len(r) = n - 1
        /\ \A k \in 1 .. n - 1 : r[k] = IF k <= i - 1 THEN a[k] ELSE b[k - (i - 1)]
    <3>1. /\ a \o b \in Seq(S) /\ Len(a \o b) = Len(a) + Len(b)
          /\ \A k \in 1 .. Len(a) + Len(b) :
               (a \o b)[k] = IF k <= Len(a) THEN a[k] ELSE b[k - Len(a)]
      BY <1>2, <1>3, ConcatProperties
    <3>2. Len(a) + Len(b) = n - 1
      BY <1>1, <1>2, <1>3
    <3>3. QED
      BY <1>2, <1>4, <3>1, <3>2
  <2>2. DOMAIN r = 1 .. n - 1
    BY <2>1, LenProperties
  <2>3. ASSUME NEW k \in 1 .. n - 1
        PROVE  r[k] = q[Old(k)] /\ Old(k) \in 1 .. n /\ Old(k) # i
    <3>1. CASE k < i
      <4>1. k <= i - 1 /\ k \in 1 .. i - 1 /\ k \in 1 .. n
        BY <1>1, <3>1
      <4>2. QED
        BY <1>2, <2>1, <3>1, <4>1
    <3>2. CASE ~(k < i)
      <4>1. ~(k <= i - 1) /\ k - (i - 1) \in 1 .. n - i /\ i + (k - (i - 1)) = k + 1
            /\ k + 1 \in 1 .. n /\ k + 1 # i
        BY <1>1, <3>2
      <4>2. QED
        BY <1>3, <2>1, <3>2, <4>1
    <3>3. QED
      BY <3>1, <3>2
  <2>4. QED
    BY <2>1, <2>2, <2>3
<1>6. Apart(r)
  <2>1. ASSUME NEW j \in 1 .. n - 1, NEW k \in 1 .. n - 1, r[j].job = r[k].job PROVE j = k
    <3>1. Old(j) = Old(k)
      BY <1>1, <1>5, <2>1 DEF Apart
    <3>2. QED
      BY <1>1, <3>1
  <2>2. QED
    BY <1>5, <2>1 DEF Apart
<1>7. ToSet(r) \subseteq ToSet(q) \ {q[i]}
  <2>1. ASSUME NEW k \in 1 .. n - 1 PROVE r[k] \in ToSet(q) /\ r[k] # q[i]
    <3>1. r[k] = q[Old(k)] /\ Old(k) \in DOMAIN q /\ Old(k) # i
      BY <1>1, <1>5
    <3>2. q[Old(k)] # q[i]
      BY <3>1 DEF Apart
    <3>3. QED
      BY <3>1, <3>2 DEF ToSet
  <2>2. QED
    BY <1>5, <2>1 DEF ToSet
<1>8. ToSet(q) \ {q[i]} \subseteq ToSet(r)
  <2>1. ASSUME NEW k \in 1 .. n, k # i PROVE \E m \in 1 .. n - 1 : Old(m) = k
    <3>1. CASE k < i
      BY <1>1, <3>1
    <3>2. CASE k > i
      <4>1. k - 1 \in 1 .. n - 1 /\ ~(k - 1 < i) /\ (k - 1) + 1 = k
        BY <1>1, <3>2
      <4>2. Old(k - 1) = k
        BY <4>1
      <4>3. QED
        BY <4>1, <4>2
    <3>3. QED
      BY <1>1, <2>1, <3>1, <3>2
  <2>2. ASSUME NEW k \in 1 .. n, k # i PROVE q[k] \in ToSet(r)
    <3>1. PICK m \in 1 .. n - 1 : Old(m) = k
      BY <2>1, <2>2
    <3>2. r[m] = q[k] /\ m \in DOMAIN r
      BY <1>5, <3>1
    <3>3. QED
      BY <3>2 DEF ToSet
  <2>3. QED
    BY <1>1, <2>2 DEF ToSet
<1>9. QED
  BY <1>5, <1>6, <1>7, <1>8

-----------------------------------------------------------------------------
(* The invariant: every job is in the broker once, waiting without a token  *)
(* or in flight under a token of its own.                                   *)

MemJob ==
  [job : Queue!Job, attempts : Nat, token : Token \cup {NoToken},
   age : {"none", "live", "due", "past"}, wait : BOOLEAN]

Fifo(q) ==
  /\ q \in Seq(MemJob) /\ Apart(q)
  /\ \A mj \in ToSet(q) : mj.token = NoToken /\ mj.age = "none"

Flight(f) ==
  /\ f \subseteq MemJob /\ IsFiniteSet(f)
  /\ \A mj \in f : mj.token \in Token
  /\ \A m1, m2 \in f : m1.job = m2.job \/ m1.token = m2.token => m1 = m2

Disjoint(q, f) == \A p \in ToSet(q), mj \in f : p.job # mj.job

Broker(q, f) == Fifo(q) /\ Flight(f) /\ Disjoint(q, f)
MemInv == Broker(pending, inflight)

(* The rows of the queue a FIFO and a map stand for.                        *)
Rows(q, f) ==
  {RowOf(mj, "pending") : mj \in ToSet(q)} \cup {RowOf(mj, "inflight") : mj \in f}

(* The set of a sequence and its positions.                                 *)
LEMMA SeqSet ==
  ASSUME NEW S, NEW s \in Seq(S)
  PROVE  /\ ToSet(s) \subseteq S
         /\ \A x \in ToSet(s) : \E i \in DOMAIN s : s[i] = x
         /\ \A i \in DOMAIN s : s[i] \in ToSet(s) /\ s[i] \in S
<1>1. DOMAIN s = 1 .. Len(s) /\ \A i \in 1 .. Len(s) : s[i] \in S
  BY LenProperties, ElementOfSeq
<1>2. QED
  BY <1>1 DEF ToSet

(* A row keeps all there is to an entry.                                    *)
LEMMA RowFields ==
  ASSUME NEW m \in MemJob, NEW k \in MemJob, NEW s \in {"pending", "inflight"},
         NEW u \in {"pending", "inflight"}
  PROVE  /\ RowOf(m, s).job = m.job /\ RowOf(m, s).state = s
         /\ RowOf(m, s).attempts = m.attempts /\ RowOf(m, s).token = m.token
         /\ RowOf(m, s).age = m.age /\ RowOf(m, s).wait = m.wait
         /\ RowOf(m, s) = RowOf(k, u) => m = k /\ s = u
BY DEF RowOf, MemJob

(* The rows of entries of any attempts.                                     *)
AnyRow ==
  [job : Queue!Job, state : {"pending", "inflight"}, attempts : Nat,
   token : Token \cup {NoToken}, age : {"none", "live", "due", "past"}, wait : BOOLEAN]

(* The row of an entry is well formed.                                      *)
LEMMA RowTyped ==
  ASSUME NEW m \in MemJob, NEW s \in {"pending", "inflight"}
  PROVE  RowOf(m, s) \in AnyRow
BY DEF RowOf, MemJob, AnyRow

(* A row is its fields.                                                     *)
LEMMA SameRow ==
  ASSUME NEW r \in AnyRow, NEW s \in AnyRow, r.job = s.job, r.state = s.state,
         r.attempts = s.attempts, r.token = s.token, r.age = s.age, r.wait = s.wait
  PROVE  r = s
BY DEF AnyRow

(* An entry given back is a row requeued.                                   *)
LEMMA ReturnedEntry ==
  ASSUME NEW m \in MemJob, NEW delay \in BOOLEAN
  PROVE  /\ Returned(m, delay) \in MemJob
         /\ Returned(m, delay).job = m.job
         /\ Returned(m, delay).token = NoToken
         /\ Returned(m, delay).age = "none"
         /\ Queue!Requeued(RowOf(m, "inflight"), delay) = RowOf(Returned(m, delay), "pending")
<1>. DEFINE b == Returned(m, delay)
            r == RowOf(m, "inflight")
            u == Queue!Requeued(r, delay)
<1>1. /\ b \in MemJob /\ b.job = m.job /\ b.attempts = m.attempts
      /\ b.token = NoToken /\ b.age = "none" /\ b.wait = delay
  BY DEF Returned, MemJob
<1>2. r \in AnyRow /\ r.job = m.job /\ r.attempts = m.attempts
  BY RowTyped, RowFields
<1>3. /\ u \in AnyRow /\ u.job = r.job /\ u.attempts = r.attempts
      /\ u.state = "pending" /\ u.token = NoToken /\ u.age = "none" /\ u.wait = delay
  BY <1>2 DEF AnyRow, Queue!Requeued
<1>4. RowOf(b, "pending") \in AnyRow
  BY <1>1, RowTyped
<1>5. /\ RowOf(b, "pending").job = b.job /\ RowOf(b, "pending").state = "pending"
      /\ RowOf(b, "pending").attempts = b.attempts /\ RowOf(b, "pending").token = b.token
      /\ RowOf(b, "pending").age = b.age /\ RowOf(b, "pending").wait = b.wait
  BY <1>1, RowFields
<1>6. u = RowOf(b, "pending")
  <2>. HIDE DEF b, r, u
  <2>1. QED
    BY <1>1, <1>2, <1>3, <1>4, <1>5, SameRow
<1>7. QED
  BY <1>1, <1>6

(* The jobs of a finite set of entries come back in any order.              *)
LEMMA BackInQueue ==
  ASSUME NEW q, NEW f, Broker(q, f), NEW g \in SUBSET f, NEW Delay \in [g -> BOOLEAN],
         NEW back \in SetToSeqs({Returned(mj, Delay[mj]) : mj \in g})
  PROVE  /\ Broker(q \o back, f \ g)
         /\ ToSet(q \o back) = ToSet(q) \cup {Returned(mj, Delay[mj]) : mj \in g}
<1>. DEFINE R == {Returned(mj, Delay[mj]) : mj \in g}
<1>1. g \subseteq MemJob /\ IsFiniteSet(g) /\ IsFiniteSet(f \ g)
  BY FS_Subset, FS_Difference DEF Broker, Flight
<1>2. \A mj \in g : /\ Returned(mj, Delay[mj]) \in MemJob
                    /\ Returned(mj, Delay[mj]).job = mj.job
                    /\ Returned(mj, Delay[mj]).token = NoToken
                    /\ Returned(mj, Delay[mj]).age = "none"
  BY <1>1, ReturnedEntry
<1>3. IsFiniteSet(R)
  <2>. DEFINE h == [mj \in g |-> Returned(mj, Delay[mj])]
  <2>1. h \in Surjection(g, R)
    BY DEF Surjection
  <2>2. QED
    BY <1>1, <2>1, FS_Surjection
<1>4. /\ back \in Seq(R) /\ ToSet(back) = R
      /\ \A i, k \in DOMAIN back : back[i] = back[k] => i = k
  BY <1>3, PermutationSet
<1>5. R \subseteq MemJob /\ back \in Seq(MemJob)
  BY <1>2, <1>4, SeqMonotonic
<1>6. q \in Seq(MemJob) /\ Apart(q)
  BY DEF Broker, Fifo
<1>7. /\ q \o back \in Seq(MemJob)
      /\ ToSet(q \o back) = ToSet(q) \cup R
      /\ DOMAIN (q \o back) = 1 .. Len(q) + Len(back)
      /\ \A i \in 1 .. Len(q) : (q \o back)[i] = q[i]
      /\ \A i \in 1 .. Len(back) : (q \o back)[Len(q) + i] = back[i]
  BY <1>4, <1>5, <1>6, ConcatSet
<1>8. /\ Len(q) \in Nat /\ DOMAIN q = 1 .. Len(q)
      /\ Len(back) \in Nat /\ DOMAIN back = 1 .. Len(back)
  BY <1>5, <1>6, LenProperties
<1>9. \A i, k \in DOMAIN back : back[i].job = back[k].job => i = k
  <2>1. ASSUME NEW i \in DOMAIN back, NEW k \in DOMAIN back, back[i].job = back[k].job
        PROVE  i = k
    <3>1. back[i] \in R /\ back[k] \in R
      BY <1>4, SeqSet
    <3>2. PICK m1 \in g : back[i] = Returned(m1, Delay[m1])
      BY <3>1
    <3>3. PICK m2 \in g : back[k] = Returned(m2, Delay[m2])
      BY <3>1
    <3>4. m1 = m2
      BY <1>2, <2>1, <3>2, <3>3 DEF Broker, Flight
    <3>5. QED
      BY <1>4, <3>2, <3>3, <3>4
  <2>2. QED
    BY <2>1
<1>10. \A i \in DOMAIN q, k \in DOMAIN back : q[i].job # back[k].job
  <2>1. ASSUME NEW i \in DOMAIN q, NEW k \in DOMAIN back PROVE q[i].job # back[k].job
    <3>1. q[i] \in ToSet(q) /\ back[k] \in R
      BY <1>4, <1>6, SeqSet
    <3>2. PICK m \in g : back[k] = Returned(m, Delay[m])
      BY <3>1
    <3>3. QED
      BY <1>2, <3>1, <3>2 DEF Broker, Disjoint
  <2>2. QED
    BY <2>1
<1>11. Apart(q \o back)
  <2>. DEFINE c == q \o back
              n == Len(q)
  <2>1. ASSUME NEW i \in 1 .. n + Len(back), NEW k \in 1 .. n + Len(back), c[i].job = c[k].job
        PROVE  i = k
    <3>1. CASE i <= n /\ k <= n
      <4>1. i \in 1 .. n /\ k \in 1 .. n
        BY <1>8, <3>1
      <4>2. QED
        BY <1>6, <1>7, <1>8, <2>1, <4>1 DEF Apart
    <3>2. CASE i <= n /\ ~(k <= n)
      <4>1. i \in 1 .. n /\ k - n \in 1 .. Len(back) /\ n + (k - n) = k
        BY <1>8, <3>2
      <4>2. QED
        BY <1>7, <1>8, <1>10, <2>1, <4>1
    <3>3. CASE ~(i <= n) /\ k <= n
      <4>1. k \in 1 .. n /\ i - n \in 1 .. Len(back) /\ n + (i - n) = i
        BY <1>8, <3>3
      <4>2. c[k] = q[k] /\ c[i] = back[i - n]
        BY <1>7, <4>1
      <4>3. QED
        BY <1>8, <1>10, <2>1, <4>1, <4>2
    <3>4. CASE ~(i <= n) /\ ~(k <= n)
      <4>1. /\ i - n \in 1 .. Len(back) /\ n + (i - n) = i
            /\ k - n \in 1 .. Len(back) /\ n + (k - n) = k
        BY <1>8, <3>4
      <4>2. i - n = k - n
        BY <1>7, <1>8, <1>9, <2>1, <4>1
      <4>3. QED
        BY <4>1, <4>2
    <3>5. QED
      BY <3>1, <3>2, <3>3, <3>4
  <2>2. QED
    BY <1>7, <2>1 DEF Apart
<1>12. Fifo(q \o back)
  <2>1. \A mj \in ToSet(q) \cup R : mj.token = NoToken /\ mj.age = "none"
    BY <1>2 DEF Broker, Fifo
  <2>2. QED
    BY <1>7, <1>11, <2>1 DEF Fifo
<1>13. Flight(f \ g)
  BY <1>1 DEF Broker, Flight
<1>14. Disjoint(q \o back, f \ g)
  <2>1. ASSUME NEW p \in ToSet(q) \cup R, NEW mj \in f \ g PROVE p.job # mj.job
    BY <1>2 DEF Broker, Disjoint, Flight
  <2>2. QED
    BY <1>7, <2>1 DEF Disjoint
<1>15. QED
  BY <1>7, <1>12, <1>13, <1>14 DEF Broker

(* Taking entries out of flight breaks nothing.                             *)
LEMMA FewerInFlight ==
  ASSUME NEW q, NEW f, Broker(q, f), NEW g \in SUBSET f
  PROVE  Broker(q, g)
<1>1. IsFiniteSet(g)
  BY FS_Subset DEF Broker, Flight
<1>2. QED
  BY <1>1 DEF Broker, Flight, Disjoint

(* The entries of a broker are well formed.                                 *)
LEMMA EntriesTyped ==
  ASSUME NEW q, NEW f, Broker(q, f)
  PROVE  ToSet(q) \subseteq MemJob /\ f \subseteq MemJob
BY SeqSet DEF Broker, Fifo, Flight

(* Which rows have expired.                                                 *)
LEMMA ExpiredRows ==
  ASSUME MemInv
  PROVE  /\ \A mj \in ToSet(pending) : ~Queue!Expired(RowOf(mj, "pending"))
         /\ \A mj \in inflight : Queue!Expired(RowOf(mj, "inflight")) <=> mj \in Expired
<1>1. ToSet(pending) \subseteq MemJob /\ inflight \subseteq MemJob
  BY EntriesTyped DEF MemInv
<1>2. QED
  BY <1>1, RowFields DEF Queue!Expired, Expired

(* A reclaim of the broker is a reclaim of the queue.                       *)
LEMMA ReclaimMatches ==
  ASSUME MemInv, NEW queue \in AfterReclaim
  PROVE  /\ Broker(queue, inflight \ Expired)
         /\ Queue!Reclaimed = Rows(queue, inflight \ Expired)
         /\ ToSet(queue) = ToSet(pending) \cup {Returned(e, e.wait) : e \in {x \in Expired : ~Spent(x)}}
         /\ ReclaimedDead = dead \cup Queue!Exhausted
<1>. DEFINE g == {e \in Expired : ~Spent(e)}
            Delay == [mj \in g |-> mj.wait]
            R == {Returned(mj, mj.wait) : mj \in g}
<1>1. /\ ToSet(pending) \subseteq MemJob /\ inflight \subseteq MemJob
      /\ Expired \subseteq inflight /\ g \subseteq Expired
  BY EntriesTyped DEF MemInv, Expired
<1>2. Delay \in [g -> BOOLEAN]
  BY <1>1 DEF MemJob
<1>3. R = {Returned(mj, Delay[mj]) : mj \in g}
  OBVIOUS
<1>4. PICK back \in SetToSeqs(R) : queue = pending \o back
  BY DEF AfterReclaim
<1>5. Broker(queue, inflight \ g) /\ ToSet(queue) = ToSet(pending) \cup R
  <2>1. Broker(pending, inflight)
    BY DEF MemInv
  <2>2. back \in SetToSeqs({Returned(mj, Delay[mj]) : mj \in g})
    BY <1>3, <1>4
  <2>3. g \in SUBSET inflight
    BY <1>1
  <2>. HIDE DEF g, Delay, R
  <2>4. /\ Broker(pending \o back, inflight \ g)
        /\ ToSet(pending \o back) = ToSet(pending) \cup {Returned(mj, Delay[mj]) : mj \in g}
    BY <1>2, <2>1, <2>2, <2>3, BackInQueue
  <2>5. QED
    BY <1>3, <1>4, <2>4
<1>6. Broker(queue, inflight \ Expired)
  <2>1. inflight \ Expired \in SUBSET (inflight \ g)
    BY <1>1
  <2>2. QED
    BY <1>5, <2>1, FewerInFlight
<1>7. \A mj \in g : Queue!Requeued(RowOf(mj, "inflight"), mj.wait) = RowOf(Returned(mj, mj.wait), "pending")
  <2>1. \A mj \in g : mj \in MemJob /\ mj.wait \in BOOLEAN
    BY <1>1 DEF MemJob
  <2>2. QED
    BY <2>1, ReturnedEntry
<1>8. \A mj \in inflight : /\ RowOf(mj, "inflight").wait = mj.wait
                           /\ RowOf(mj, "inflight").job = mj.job
                           /\ RowOf(mj, "inflight").attempts = mj.attempts
                           /\ mj.attempts \in Nat
  BY <1>1, RowFields DEF MemJob
<1>9. \A mj \in inflight : Spent(mj) <=> ~(mj.attempts < MaxAttempts)
  BY <1>8, MemAssumption DEF Spent
<1>10. Queue!Reclaimed \subseteq Rows(queue, inflight \ Expired)
  <2>1. SUFFICES ASSUME NEW r \in Queue!Reclaimed PROVE r \in Rows(queue, inflight \ Expired)
    OBVIOUS
  <2>2. CASE \E mj \in ToSet(pending) : r = RowOf(mj, "pending")
    BY <1>5, <2>2 DEF Rows
  <2>3. CASE \E mj \in inflight : r = RowOf(mj, "inflight") /\ ~Queue!Expired(r)
    BY ExpiredRows, <2>3 DEF Rows
  <2>4. CASE \E mj \in inflight : /\ Queue!Expired(RowOf(mj, "inflight"))
                                  /\ RowOf(mj, "inflight").attempts < MaxAttempts
                                  /\ r = Queue!Requeued(RowOf(mj, "inflight"), RowOf(mj, "inflight").wait)
    <3>1. PICK mj \in inflight : /\ Queue!Expired(RowOf(mj, "inflight"))
                                 /\ RowOf(mj, "inflight").attempts < MaxAttempts
                                 /\ r = Queue!Requeued(RowOf(mj, "inflight"), RowOf(mj, "inflight").wait)
      BY <2>4
    <3>2. mj \in g
      BY <1>8, <1>9, <3>1, ExpiredRows
    <3>3. r = RowOf(Returned(mj, mj.wait), "pending") /\ Returned(mj, mj.wait) \in ToSet(queue)
      BY <1>5, <1>7, <1>8, <3>1, <3>2
    <3>4. QED
      BY <3>3 DEF Rows
  <2>5. QED
    <3>1. \A mj \in ToSet(pending) : ~Queue!Expired(RowOf(mj, "pending"))
      BY ExpiredRows
    <3>2. QED
      BY <2>1, <2>2, <2>3, <2>4, <3>1 DEF Queue!Reclaimed
<1>11. Rows(queue, inflight \ Expired) \subseteq Queue!Reclaimed
  <2>1. \A mj \in ToSet(pending) : RowOf(mj, "pending") \in Queue!Reclaimed
    BY ExpiredRows DEF Queue!Reclaimed
  <2>2. \A mj \in inflight \ Expired : RowOf(mj, "inflight") \in Queue!Reclaimed
    BY ExpiredRows DEF Queue!Reclaimed
  <2>3. \A mj \in g : RowOf(Returned(mj, mj.wait), "pending") \in Queue!Reclaimed
    <3>1. SUFFICES ASSUME NEW mj \in g
                   PROVE  RowOf(Returned(mj, mj.wait), "pending") \in Queue!Reclaimed
      OBVIOUS
    <3>2. /\ mj \in inflight /\ mj \in Expired /\ Queue!Expired(RowOf(mj, "inflight"))
          /\ RowOf(mj, "inflight").attempts < MaxAttempts
          /\ RowOf(mj, "inflight").wait = mj.wait
      BY <1>1, <1>8, <1>9, ExpiredRows
    <3>3. Queue!Requeued(RowOf(mj, "inflight"), RowOf(mj, "inflight").wait) \in Queue!Reclaimed
      BY <3>2 DEF Queue!Reclaimed
    <3>4. QED
      BY <1>7, <3>2, <3>3
  <2>4. QED
    BY <1>5, <2>1, <2>2, <2>3 DEF Rows
<1>12. ReclaimedDead = dead \cup Queue!Exhausted
  <2>. DEFINE gone == {mj.job : mj \in {e \in Expired : Spent(e)}}
  <2>1. gone \subseteq Queue!Exhausted
    <3>1. SUFFICES ASSUME NEW mj \in Expired, Spent(mj) PROVE mj.job \in Queue!Exhausted
      OBVIOUS
    <3>2. /\ mj \in inflight /\ Queue!Expired(RowOf(mj, "inflight"))
          /\ RowOf(mj, "inflight").attempts >= MaxAttempts
          /\ RowOf(mj, "inflight").job = mj.job
      BY <1>1, <1>8, <3>1, ExpiredRows DEF Spent
    <3>3. RowOf(mj, "inflight").job \in Queue!Exhausted
      BY <3>2 DEF Queue!Exhausted
    <3>4. QED
      BY <3>2, <3>3
  <2>2. Queue!Exhausted \subseteq gone
    <3>1. \A mj \in inflight : Queue!Expired(RowOf(mj, "inflight")) /\ RowOf(mj, "inflight").attempts >= MaxAttempts
            => RowOf(mj, "inflight").job \in gone
      BY <1>8, ExpiredRows DEF Spent
    <3>2. \A mj \in ToSet(pending) : ~Queue!Expired(RowOf(mj, "pending"))
      BY ExpiredRows
    <3>3. QED
      BY <3>1, <3>2 DEF Queue!Exhausted
  <2>3. QED
    BY <2>1, <2>2 DEF ReclaimedDead
<1>13. QED
  BY <1>5, <1>6, <1>10, <1>11, <1>12

-----------------------------------------------------------------------------
(* Each call keeps the invariant and is a call of the queue *)

(* Enqueue: a job not swallowed by dedup is in the broker nowhere else.     *)
LEMMA EnqueueMatches ==
  ASSUME MemInv, NEW j \in Sent, MEnqueue(j)
  PROVE  MemInv' /\ Queue!Enqueue(j)
<1>. DEFINE e == [job |-> j, attempts |-> 0, token |-> NoToken, age |-> "none", wait |-> FALSE]
<1>1. j \in Queue!Job /\ e \in MemJob
  BY MemAssumption DEF MemJob
<1>2. /\ pending' = Append(pending, e) /\ inflight' = inflight /\ dead' = dead /\ held' = held
      /\ \A mj \in ToSet(pending) \cup inflight : ~Queue!SameJobKey(mj.job, j)
  BY DEF MEnqueue
<1>3. pending \in Seq(MemJob) /\ Apart(pending) /\ ToSet(pending) \subseteq MemJob /\ inflight \subseteq MemJob
  BY EntriesTyped DEF MemInv, Broker, Fifo
<1>4. /\ pending' \in Seq(MemJob) /\ Len(pending') = Len(pending) + 1 /\ Len(pending) \in Nat
      /\ \A i \in 1 .. Len(pending) : pending'[i] = pending[i]
      /\ pending'[Len(pending) + 1] = e
  BY <1>1, <1>2, <1>3
<1>5. DOMAIN pending = 1 .. Len(pending) /\ DOMAIN pending' = 1 .. Len(pending) + 1
  BY <1>3, <1>4, LenProperties
<1>6. \A mj \in ToSet(pending) \cup inflight : mj.job # j
  BY <1>2 DEF Queue!SameJobKey
<1>7. ToSet(pending') = ToSet(pending) \cup {e}
  <2>1. \A i \in 1 .. Len(pending) + 1 : i = Len(pending) + 1 \/ i \in 1 .. Len(pending)
    BY <1>4
  <2>2. 1 .. Len(pending) \subseteq 1 .. Len(pending) + 1 /\ Len(pending) + 1 \in 1 .. Len(pending) + 1
    BY <1>4
  <2>3. QED
    BY <1>4, <1>5, <2>1, <2>2 DEF ToSet
<1>8. Apart(pending')
  <2>1. \A i \in 1 .. Len(pending) : pending[i].job # j
    BY <1>3, <1>5, <1>6, SeqSet
  <2>2. \A i \in 1 .. Len(pending) + 1 : i = Len(pending) + 1 \/ i \in 1 .. Len(pending)
    BY <1>4
  <2>3. QED
    BY <1>3, <1>4, <1>5, <2>1, <2>2 DEF Apart
<1>9. MemInv'
  <2>1. Fifo(pending')
    BY <1>4, <1>7, <1>8 DEF MemInv, Broker, Fifo
  <2>2. Flight(inflight')
    BY <1>2 DEF MemInv, Broker
  <2>3. Disjoint(pending', inflight')
    <3>1. \A p \in ToSet(pending), mj \in inflight : p.job # mj.job
      BY DEF MemInv, Broker, Disjoint
    <3>2. \A mj \in inflight : e.job # mj.job
      BY <1>6
    <3>3. QED
      BY <1>2, <1>7, <3>1, <3>2 DEF Disjoint
  <2>4. QED
    BY <2>1, <2>2, <2>3 DEF MemInv, Broker
<1>10. Queue!Enqueue(j)
  <2>1. \A mj \in ToSet(pending) : ~Queue!SameJobKey(RowOf(mj, "pending").job, j)
    BY <1>2, <1>3, RowFields
  <2>2. \A mj \in inflight : ~Queue!SameJobKey(RowOf(mj, "inflight").job, j)
    BY <1>2, <1>3, RowFields
  <2>3. RowOf(e, "pending") = [job |-> j, state |-> "pending", attempts |-> 0, token |-> NoToken,
                               age |-> "none", wait |-> FALSE]
    BY DEF RowOf
  <2>4. Rows(pending', inflight') = Rows(pending, inflight) \cup {RowOf(e, "pending")}
    BY <1>2, <1>7 DEF Rows
  <2>5. QED
    BY <1>2, <2>1, <2>2, <2>3, <2>4 DEF Queue!Enqueue, Rows
<1>11. QED
  BY <1>9, <1>10

(* The entry a lease hands out.                                             *)
Given(m, t) == [m EXCEPT !.attempts = @ + 1, !.token = t, !.age = "live"]

(* An entry handed out is a row leased.                                     *)
LEMMA GivenEntry ==
  ASSUME NEW m \in MemJob, NEW t \in Token
  PROVE  /\ Given(m, t) \in MemJob
         /\ Given(m, t).job = m.job /\ Given(m, t).token = t
         /\ Given(m, t).attempts = m.attempts + 1
         /\ Queue!Leased(RowOf(m, "pending"), t) = RowOf(Given(m, t), "inflight")
<1>. DEFINE b == Given(m, t)
            r == RowOf(m, "pending")
            u == Queue!Leased(r, t)
<1>1. /\ b \in MemJob /\ b.job = m.job /\ b.attempts = m.attempts + 1
      /\ b.token = t /\ b.age = "live" /\ b.wait = m.wait
  <2>1. m.attempts \in Nat /\ m.attempts + 1 \in Nat
    BY DEF MemJob
  <2>2. b = [m EXCEPT !.attempts = m.attempts + 1, !.token = t, !.age = "live"]
    BY DEF Given
  <2>3. QED
    BY <2>1, <2>2 DEF MemJob
<1>2. r \in AnyRow /\ r.job = m.job /\ r.attempts = m.attempts /\ r.wait = m.wait
  BY RowTyped, RowFields
<1>3. /\ u \in AnyRow /\ u.job = r.job /\ u.attempts = r.attempts + 1
      /\ u.state = "inflight" /\ u.token = t /\ u.age = "live" /\ u.wait = r.wait
  <2>1. r.attempts \in Nat /\ r.attempts + 1 \in Nat
    BY <1>2 DEF AnyRow
  <2>2. u = [r EXCEPT !.state = "inflight", !.token = t, !.age = "live",
                      !.attempts = r.attempts + 1]
    BY DEF Queue!Leased
  <2>. HIDE DEF r, u
  <2>3. QED
    BY <1>2, <2>1, <2>2 DEF AnyRow
<1>4. RowOf(b, "inflight") \in AnyRow
  BY <1>1, RowTyped
<1>5. /\ RowOf(b, "inflight").job = b.job /\ RowOf(b, "inflight").state = "inflight"
      /\ RowOf(b, "inflight").attempts = b.attempts /\ RowOf(b, "inflight").token = b.token
      /\ RowOf(b, "inflight").age = b.age /\ RowOf(b, "inflight").wait = b.wait
  BY <1>1, RowFields
<1>6. u = RowOf(b, "inflight")
  <2>. HIDE DEF b, r, u
  <2>1. QED
    BY <1>1, <1>2, <1>3, <1>4, <1>5, SameRow
<1>7. QED
  BY <1>1, <1>6

(* LeaseForCorpus: the claimed job leaves the FIFO once and for all.        *)
LEMMA LeaseMatches ==
  ASSUME MemInv, NEW cp \in Corpus \cup {AnyCorpus}, MLeaseForCorpus(cp)
  PROVE  MemInv' /\ \E t \in Token : Queue!LeaseForCorpus(cp, t)
<1>. DEFINE t == CHOOSE u \in FreshTokens : TRUE
            f == inflight \ Expired
<1>1. PICK queue \in AfterReclaim, i \in 1..Len(pending) + Cardinality(Expired) :
        LET mj == [queue[i] EXCEPT !.attempts = @ + 1, !.token = t, !.age = "live"]
        IN  /\ FreshTokens # {}
            /\ FirstClaimable(queue, cp, i)
            /\ pending' = RemoveAt(queue, i)
            /\ inflight' = (inflight \ Expired) \cup {mj}
            /\ dead' = ReclaimedDead
            /\ held' = held \cup {[job |-> mj.job, token |-> t, attempts |-> mj.attempts]}
  BY DEF MLeaseForCorpus
<1>. DEFINE m == queue[i]
            r == RowOf(m, "pending")
<1>2. /\ FreshTokens # {} /\ FirstClaimable(queue, cp, i)
      /\ pending' = RemoveAt(queue, i) /\ inflight' = f \cup {Given(m, t)}
      /\ dead' = ReclaimedDead
      /\ held' = held \cup {[job |-> Given(m, t).job, token |-> t, attempts |-> Given(m, t).attempts]}
  BY <1>1 DEF Given
<1>3. /\ Broker(queue, f)
      /\ Queue!Reclaimed = Rows(queue, f)
      /\ ReclaimedDead = dead \cup Queue!Exhausted
  BY ReclaimMatches
<1>4. t \in Token /\ (\A mj \in f : mj.token # t) /\ \A l \in held : l.token # t
  BY <1>2 DEF FreshTokens
<1>5. i \in DOMAIN queue /\ Claimable(m, cp)
  BY <1>2 DEF FirstClaimable
<1>6. /\ queue \in Seq(MemJob) /\ Apart(queue)
      /\ \A mj \in ToSet(queue) : mj.token = NoToken /\ mj.age = "none"
      /\ ToSet(queue) \subseteq MemJob /\ f \subseteq MemJob
  BY <1>3, EntriesTyped DEF Broker, Fifo
<1>7. m \in ToSet(queue) /\ m \in MemJob
  BY <1>5, <1>6, SeqSet
<1>8. /\ RemoveAt(queue, i) \in Seq(MemJob) /\ Apart(RemoveAt(queue, i))
      /\ ToSet(RemoveAt(queue, i)) = ToSet(queue) \ {m}
  BY <1>5, <1>6, RemovedSet
<1>9. /\ Given(m, t) \in MemJob
      /\ Given(m, t).job = m.job /\ Given(m, t).token = t
      /\ Given(m, t).attempts = m.attempts + 1
      /\ Queue!Leased(r, t) = RowOf(Given(m, t), "inflight")
  BY <1>4, <1>7, GivenEntry
<1>. HIDE DEF t, f, m, r
<1>10. \A p \in ToSet(queue) \ {m} : p.job # m.job
  <2>1. ASSUME NEW p \in ToSet(queue), p # m PROVE p.job # m.job
    <3>1. PICK k \in DOMAIN queue : queue[k] = p
      BY <1>6, SeqSet
    <3>2. k # i /\ queue[i] = m
      BY <2>1, <3>1 DEF m
    <3>3. QED
      BY <1>5, <1>6, <3>1, <3>2 DEF Apart
  <2>2. QED
    BY <2>1
<1>11. MemInv'
  <2>1. Fifo(pending')
    BY <1>2, <1>6, <1>8 DEF Fifo
  <2>2. IsFiniteSet(f \cup {Given(m, t)})
    BY <1>3, FS_AddElement DEF Broker, Flight
  <2>3. Flight(f) /\ \A p \in ToSet(queue), mj \in f : p.job # mj.job
    BY <1>3 DEF Broker, Disjoint
  <2>4. Flight(inflight')
    <3>1. \A mj \in f : mj.job # m.job /\ mj.token # t
      BY <1>4, <1>7, <2>3
    <3>2. QED
      BY <1>2, <1>4, <1>9, <2>2, <2>3, <3>1 DEF Flight
  <2>5. Disjoint(pending', inflight')
    BY <1>2, <1>8, <1>9, <1>10, <2>3 DEF Disjoint
  <2>6. QED
    BY <2>1, <2>4, <2>5 DEF MemInv, Broker
<1>12. Queue!LeaseForCorpus(cp, t)
  <2>1. r \in Queue!Reclaimed
    BY <1>3, <1>7 DEF Rows, r
  <2>2. Queue!Claimable(r, cp)
    <3>1. r.job = m.job /\ r.state = "pending" /\ r.wait = m.wait
      BY <1>7, RowFields DEF r
    <3>2. QED
      BY <1>5, <3>1 DEF Claimable, Queue!Claimable
  <2>3. Queue!FreshToken(t)
    <3>1. \A p \in ToSet(queue) : RowOf(p, "pending").token # t
      BY <1>4, <1>6, RowFields, MemAssumption
    <3>2. \A mj \in f : RowOf(mj, "inflight").token # t
      BY <1>4, <1>6, RowFields
    <3>3. \A s \in Queue!Reclaimed : s.token # t
      BY <1>3, <3>1, <3>2 DEF Rows
    <3>4. QED
      BY <1>4, <3>3 DEF Queue!FreshToken
  <2>4. Rows(pending', inflight') = (Queue!Reclaimed \ {r}) \cup {Queue!Leased(r, t)}
    <3>1. \A p \in ToSet(queue) : RowOf(p, "pending") = r <=> p = m
      BY <1>6, <1>7, RowFields DEF r
    <3>2. \A mj \in f : RowOf(mj, "inflight") # r
      BY <1>6, <1>7, RowFields DEF r
    <3>3. Rows(queue, f) \ {r} = Rows(RemoveAt(queue, i), f)
      BY <1>8, <3>1, <3>2 DEF Rows
    <3>4. Rows(pending', inflight') = Rows(RemoveAt(queue, i), f) \cup {RowOf(Given(m, t), "inflight")}
      BY <1>2 DEF Rows
    <3>5. QED
      BY <1>3, <1>9, <3>3, <3>4
  <2>5. /\ dead' = dead \cup Queue!Exhausted
        /\ held' = held \cup {[job |-> r.job, token |-> t, attempts |-> r.attempts + 1]}
    <3>1. r.job = m.job /\ r.attempts = m.attempts
      BY <1>7, RowFields DEF r
    <3>2. QED
      BY <1>2, <1>3, <1>9, <3>1
  <2>6. Queue!LeaseRow(r, t)
    BY <2>3, <2>4, <2>5 DEF Queue!LeaseRow, Rows
  <2>7. QED
    BY <2>1, <2>2, <2>6 DEF Queue!LeaseForCorpus
<1>13. QED
  BY <1>4, <1>11, <1>12

(* A reclaim without a claim.                                               *)
LEMMA ReclaimStep ==
  ASSUME MemInv, MReclaim
  PROVE  /\ MemInv'
         /\ Rows(pending', inflight') = Queue!Reclaimed
         /\ dead' = dead \cup Queue!Exhausted /\ held' = held
         /\ ToSet(pending') = ToSet(pending) \cup {Returned(e, e.wait) : e \in {x \in Expired : ~Spent(x)}}
<1>1. /\ pending' \in AfterReclaim /\ inflight' = inflight \ Expired
      /\ dead' = ReclaimedDead /\ held' = held
  BY DEF MReclaim
<1>2. QED
  BY <1>1, ReclaimMatches DEF MemInv

(* ErrNoJob: the memory broker has reclaimed by then.                       *)
LEMMA NoJobMatches ==
  ASSUME MemInv, NEW cp \in Corpus \cup {AnyCorpus}, MLeaseNoJob(cp)
  PROVE  MemInv' /\ Queue!LeaseNoJob(cp)
<1>1. /\ MReclaim
      /\ \A mj \in ToSet(pending) \cup {Returned(e, e.wait) : e \in {x \in Expired : ~Spent(x)}} :
           ~Claimable(mj, cp)
  BY DEF MLeaseNoJob
<1>2. /\ MemInv'
      /\ Rows(pending', inflight') = Queue!Reclaimed
      /\ dead' = dead \cup Queue!Exhausted /\ held' = held
      /\ \A mj \in ToSet(pending') : ~Claimable(mj, cp)
  BY <1>1, ReclaimStep
<1>3. ToSet(pending') \subseteq MemJob /\ inflight' \subseteq MemJob
  BY <1>2, EntriesTyped DEF MemInv
<1>4. \A r \in Queue!Reclaimed : ~Queue!Claimable(r, cp)
  <2>1. \A mj \in ToSet(pending') : ~Queue!Claimable(RowOf(mj, "pending"), cp)
    BY <1>2, <1>3, RowFields DEF Claimable, Queue!Claimable
  <2>2. \A mj \in inflight' : ~Queue!Claimable(RowOf(mj, "inflight"), cp)
    BY <1>3, RowFields DEF Queue!Claimable
  <2>3. QED
    BY <1>2, <2>1, <2>2 DEF Rows
<1>5. QED
  BY <1>2, <1>4 DEF Queue!LeaseNoJob, Rows

(* Stats reclaims as well.                                                  *)
LEMMA StatsMatches ==
  ASSUME MemInv, MStats
  PROVE  MemInv' /\ Queue!Stats
BY ReclaimStep DEF MStats, Queue!Stats, Rows

(* What a lease's token names, in the broker and in the queue.              *)
LEMMA DeliveryRows ==
  ASSUME MemInv, NEW l \in held
  PROVE  /\ Delivery(l) \subseteq inflight
         /\ Queue!Delivered(l) = {RowOf(mj, "inflight") : mj \in Delivery(l)}
         /\ Rows(pending, inflight) \ Queue!Delivered(l) = Rows(pending, inflight \ Delivery(l))
<1>1. ToSet(pending) \subseteq MemJob /\ inflight \subseteq MemJob /\ Delivery(l) \subseteq inflight
  BY EntriesTyped DEF MemInv, Delivery
<1>2. \A mj \in inflight : /\ RowOf(mj, "inflight").state = "inflight"
                           /\ RowOf(mj, "inflight").token = mj.token
  BY <1>1, RowFields
<1>3. \A mj \in ToSet(pending) : RowOf(mj, "pending").state = "pending"
  BY <1>1, RowFields
<1>4. Queue!Delivered(l) = {RowOf(mj, "inflight") : mj \in Delivery(l)}
  BY <1>2, <1>3 DEF Queue!Delivered, Delivery
<1>5. \A m, k \in inflight : RowOf(m, "inflight") = RowOf(k, "inflight") => m = k
  BY <1>1, RowFields
<1>6. \A m \in ToSet(pending), k \in inflight : RowOf(m, "pending") # RowOf(k, "inflight")
  BY <1>2, <1>3
<1>7. Rows(pending, inflight) \ Queue!Delivered(l) = Rows(pending, inflight \ Delivery(l))
  BY <1>1, <1>4, <1>5, <1>6 DEF Rows
<1>8. QED
  BY <1>1, <1>4, <1>7

(* Ack of a live or of an unknown token.                                    *)
LEMMA AckMatches ==
  ASSUME MemInv, NEW l \in held, MAck(l)
  PROVE  MemInv' /\ Queue!Ack(l)
<1>1. /\ inflight' = inflight \ Delivery(l) /\ held' = held \ {l}
      /\ pending' = pending /\ dead' = dead
  BY DEF MAck
<1>2. MemInv'
  <2>1. inflight \ Delivery(l) \in SUBSET inflight
    OBVIOUS
  <2>2. QED
    BY <1>1, <2>1, FewerInFlight DEF MemInv
<1>3. Rows(pending', inflight') = Rows(pending, inflight) \ Queue!Delivered(l)
  BY <1>1, DeliveryRows
<1>4. QED
  BY <1>1, <1>2, <1>3 DEF Queue!Ack, Rows

(* Nack gives the delivery back, or up when its budget is spent.            *)
LEMMA NackMatches ==
  ASSUME MemInv, NEW l \in held, NEW delay \in BOOLEAN, MNack(l, delay)
  PROVE  MemInv' /\ Queue!Nack(l, delay)
<1>. DEFINE D == Delivery(l)
            g == {d \in D : ~Spent(d)}
            Delay == [mj \in g |-> delay]
            R == {Returned(mj, delay) : mj \in g}
<1>1. /\ inflight' = inflight \ D /\ held' = held \ {l}
      /\ dead' = dead \cup {mj.job : mj \in {d \in D : Spent(d)}}
      /\ pending' = pending \o SetToSeq(R)
  BY DEF MNack
<1>2. /\ D \subseteq inflight
      /\ Queue!Delivered(l) = {RowOf(mj, "inflight") : mj \in D}
      /\ Rows(pending, inflight) \ Queue!Delivered(l) = Rows(pending, inflight \ D)
  BY DeliveryRows
<1>3. inflight \subseteq MemJob /\ g \in SUBSET inflight /\ IsFiniteSet(g)
  <2>1. inflight \subseteq MemJob /\ IsFiniteSet(inflight)
    BY DEF MemInv, Broker, Flight
  <2>2. g \in SUBSET inflight
    BY <1>2
  <2>3. QED
    BY <2>1, <2>2, FS_Subset
<1>4. IsFiniteSet(R)
  <2>. DEFINE h == [mj \in g |-> Returned(mj, delay)]
  <2>1. h \in Surjection(g, R)
    BY DEF Surjection
  <2>2. QED
    BY <1>3, <2>1, FS_Surjection
<1>5. R = {Returned(mj, Delay[mj]) : mj \in g} /\ Delay \in [g -> BOOLEAN]
  OBVIOUS
<1>6. Broker(pending', inflight \ g) /\ ToSet(pending') = ToSet(pending) \cup R
  <2>1. Broker(pending, inflight)
    BY DEF MemInv
  <2>. DEFINE b == SetToSeq(R)
  <2>2. b \in SetToSeqs({Returned(mj, Delay[mj]) : mj \in g})
    BY <1>4, <1>5, PickedPermutation
  <2>3. Delay \in [g -> BOOLEAN] /\ g \in SUBSET inflight
    BY <1>3, <1>5
  <2>4. pending' = pending \o b /\ R = {Returned(mj, Delay[mj]) : mj \in g}
    BY <1>1, <1>5
  <2>. HIDE DEF b, g, Delay, R
  <2>5. /\ Broker(pending \o b, inflight \ g)
        /\ ToSet(pending \o b) = ToSet(pending) \cup {Returned(mj, Delay[mj]) : mj \in g}
    BY <2>1, <2>2, <2>3, BackInQueue
  <2>6. QED
    BY <2>4, <2>5
<1>7. MemInv'
  <2>1. inflight \ D \in SUBSET (inflight \ g)
    OBVIOUS
  <2>2. QED
    BY <1>1, <1>6, <2>1, FewerInFlight DEF MemInv
<1>8. \A mj \in D : /\ RowOf(mj, "inflight").attempts = mj.attempts
                    /\ RowOf(mj, "inflight").job = mj.job
                    /\ Spent(mj) <=> ~(RowOf(mj, "inflight").attempts < MaxAttempts)
  <2>1. \A mj \in D : mj \in MemJob /\ mj.attempts \in Nat
    BY <1>2, <1>3 DEF MemJob
  <2>2. QED
    BY <2>1, RowFields, MemAssumption DEF Spent
<1>. DEFINE back == {r \in Queue!Delivered(l) : r.attempts < MaxAttempts}
<1>9. back = {RowOf(mj, "inflight") : mj \in g}
  BY <1>2, <1>8
<1>10. Queue!Delivered(l) \ back = {RowOf(mj, "inflight") : mj \in {d \in D : Spent(d)}}
  BY <1>2, <1>8
<1>11. Rows(pending', inflight') =
         (Rows(pending, inflight) \ Queue!Delivered(l)) \cup {Queue!Requeued(r, delay) : r \in back}
  <2>1. \A mj \in g : Queue!Requeued(RowOf(mj, "inflight"), delay) = RowOf(Returned(mj, delay), "pending")
    BY <1>3, ReturnedEntry
  <2>2. {Queue!Requeued(r, delay) : r \in back} = {RowOf(mj, "pending") : mj \in R}
    BY <1>9, <2>1
  <2>3. Rows(pending', inflight') = Rows(pending, inflight \ D) \cup {RowOf(mj, "pending") : mj \in R}
    BY <1>1, <1>6 DEF Rows
  <2>4. QED
    BY <1>2, <2>2, <2>3
<1>12. dead' = dead \cup {r.job : r \in Queue!Delivered(l) \ back}
  BY <1>1, <1>8, <1>10
<1>13. Queue!Nack(l, delay)
  BY <1>1, <1>11, <1>12 DEF Queue!Nack, Rows
<1>14. QED
  BY <1>7, <1>13

(* The clock passes over a lease.                                           *)
LEMMA AgeMatches ==
  ASSUME MemInv, NEW mj \in inflight, MAge(mj)
  PROVE  MemInv' /\ \E r \in Rows(pending, inflight) : Queue!Age(r)
<1>. DEFINE new == [mj EXCEPT !.age = IF mj.age = "live" THEN "due" ELSE "past"]
            r == RowOf(mj, "inflight")
            aged == [r EXCEPT !.age = Queue!LaterAge(r.age)]
            rest == inflight \ {mj}
<1>1. /\ mj.age # "past" /\ inflight' = rest \cup {new}
      /\ pending' = pending /\ dead' = dead /\ held' = held
  BY DEF MAge
<1>2. ToSet(pending) \subseteq MemJob /\ inflight \subseteq MemJob /\ mj \in MemJob
  BY EntriesTyped DEF MemInv
<1>3. /\ new \in MemJob /\ new.job = mj.job /\ new.token = mj.token
      /\ new.attempts = mj.attempts /\ new.wait = mj.wait
      /\ new.age = IF mj.age = "live" THEN "due" ELSE "past"
  BY <1>2 DEF MemJob
<1>4. /\ r \in AnyRow /\ r.job = mj.job /\ r.state = "inflight" /\ r.attempts = mj.attempts
      /\ r.token = mj.token /\ r.age = mj.age /\ r.wait = mj.wait
  BY <1>2, RowTyped, RowFields
<1>5. aged = RowOf(new, "inflight")
  <2>1. /\ aged \in AnyRow /\ aged.job = r.job /\ aged.state = r.state
        /\ aged.attempts = r.attempts /\ aged.token = r.token /\ aged.wait = r.wait
        /\ aged.age = Queue!LaterAge(r.age)
    BY <1>4 DEF AnyRow, Queue!LaterAge
  <2>2. new.age = Queue!LaterAge(r.age)
    BY <1>3, <1>4 DEF Queue!LaterAge
  <2>. HIDE DEF new, r, aged
  <2>3. RowOf(new, "inflight") \in AnyRow
    BY <1>3, RowTyped
  <2>4. /\ RowOf(new, "inflight").job = new.job /\ RowOf(new, "inflight").state = "inflight"
        /\ RowOf(new, "inflight").attempts = new.attempts /\ RowOf(new, "inflight").token = new.token
        /\ RowOf(new, "inflight").age = new.age /\ RowOf(new, "inflight").wait = new.wait
    BY <1>3, RowFields
  <2>5. QED
    BY <1>3, <1>4, <2>1, <2>2, <2>3, <2>4, SameRow
<1>. HIDE DEF new, r, aged
<1>6. MemInv'
  <2>1. IsFiniteSet(rest \cup {new})
    <3>1. IsFiniteSet(rest)
      BY FS_Difference DEF MemInv, Broker, Flight
    <3>2. QED
      BY <3>1, FS_AddElement
  <2>2. Flight(inflight')
    BY <1>1, <1>2, <1>3, <2>1 DEF MemInv, Broker, Flight
  <2>3. Fifo(pending')
    BY <1>1 DEF MemInv, Broker
  <2>4. Disjoint(pending', inflight')
    BY <1>1, <1>3 DEF MemInv, Broker, Disjoint
  <2>5. QED
    BY <2>2, <2>3, <2>4 DEF MemInv, Broker
<1>7. Rows(pending', inflight') = (Rows(pending, inflight) \ {r}) \cup {aged}
  <2>1. \A k \in inflight : RowOf(k, "inflight") = r <=> k = mj
    BY <1>2, RowFields DEF r
  <2>2. \A k \in ToSet(pending) : RowOf(k, "pending") # r
    BY <1>2, <1>4, RowFields
  <2>3. Rows(pending, inflight) \ {r} = Rows(pending, rest)
    BY <2>1, <2>2 DEF Rows
  <2>4. Rows(pending', inflight') = Rows(pending, rest) \cup {RowOf(new, "inflight")}
    BY <1>1 DEF Rows
  <2>5. QED
    BY <1>5, <2>3, <2>4
<1>8. r \in Rows(pending, inflight)
  BY DEF Rows, r
<1>9. Queue!Age(r)
  BY <1>1, <1>4, <1>7 DEF Queue!Age, Rows, aged
<1>10. QED
  BY <1>6, <1>8, <1>9

(* The clock passes over the delay of a Nack.                               *)
LEMMA WaitOverMatches ==
  ASSUME MemInv, NEW i \in DOMAIN pending, MWaitOver(i)
  PROVE  MemInv' /\ \E r \in Rows(pending, inflight) : Queue!WaitOver(r)
<1>. DEFINE m == pending[i]
            new == [m EXCEPT !.wait = FALSE]
            r == RowOf(m, "pending")
            over == [r EXCEPT !.wait = FALSE]
<1>1. /\ m.wait /\ pending' = [pending EXCEPT ![i] = new]
      /\ inflight' = inflight /\ dead' = dead /\ held' = held
  BY DEF MWaitOver
<1>2. /\ pending \in Seq(MemJob) /\ Apart(pending)
      /\ \A mj \in ToSet(pending) : mj.token = NoToken /\ mj.age = "none"
      /\ ToSet(pending) \subseteq MemJob /\ inflight \subseteq MemJob
  BY EntriesTyped DEF MemInv, Broker, Fifo
<1>3. m \in ToSet(pending) /\ m \in MemJob /\ DOMAIN pending = 1 .. Len(pending)
  BY <1>2, SeqSet, LenProperties
<1>. HIDE DEF m
<1>4. /\ new \in MemJob /\ new.job = m.job /\ new.token = m.token /\ new.age = m.age
      /\ new.attempts = m.attempts /\ new.wait = FALSE
  BY <1>3 DEF MemJob
<1>5. /\ r \in AnyRow /\ r.job = m.job /\ r.state = "pending" /\ r.attempts = m.attempts
      /\ r.token = m.token /\ r.age = m.age /\ r.wait = m.wait
  BY <1>3, RowTyped, RowFields
<1>6. over = RowOf(new, "pending")
  <2>1. /\ over \in AnyRow /\ over.job = r.job /\ over.state = r.state
        /\ over.attempts = r.attempts /\ over.token = r.token /\ over.age = r.age
        /\ over.wait = FALSE
    BY <1>5 DEF AnyRow
  <2>. HIDE DEF new, r, over
  <2>2. RowOf(new, "pending") \in AnyRow
    BY <1>4, RowTyped
  <2>3. /\ RowOf(new, "pending").job = new.job /\ RowOf(new, "pending").state = "pending"
        /\ RowOf(new, "pending").attempts = new.attempts /\ RowOf(new, "pending").token = new.token
        /\ RowOf(new, "pending").age = new.age /\ RowOf(new, "pending").wait = new.wait
    BY <1>4, RowFields
  <2>4. QED
    BY <1>4, <1>5, <2>1, <2>2, <2>3, SameRow
<1>. HIDE DEF new, r, over
<1>7. /\ pending' \in Seq(MemJob) /\ DOMAIN pending' = DOMAIN pending
      /\ \A k \in DOMAIN pending : pending'[k] = IF k = i THEN new ELSE pending[k]
  BY <1>1, <1>2, <1>3, <1>4, ExceptSeq, LenProperties
<1>8. Apart(pending')
  <2>1. \A k \in DOMAIN pending : pending'[k].job = pending[k].job
    BY <1>4, <1>7 DEF m
  <2>2. QED
    BY <1>2, <1>7, <2>1 DEF Apart
<1>9. ToSet(pending') = (ToSet(pending) \ {m}) \cup {new}
  <2>1. \A k \in DOMAIN pending : k # i => pending[k] # m
    BY <1>2 DEF Apart, m
  <2>2. i \in DOMAIN pending /\ pending[i] = m
    BY DEF m
  <2>3. ToSet(pending') \subseteq (ToSet(pending) \ {m}) \cup {new}
    BY <1>7, <2>1 DEF ToSet
  <2>4. (ToSet(pending) \ {m}) \cup {new} \subseteq ToSet(pending')
    BY <1>7, <2>2 DEF ToSet
  <2>5. QED
    BY <2>3, <2>4
<1>10. MemInv'
  <2>1. Fifo(pending')
    BY <1>2, <1>3, <1>4, <1>7, <1>8, <1>9 DEF Fifo
  <2>2. Flight(inflight')
    BY <1>1 DEF MemInv, Broker
  <2>3. Disjoint(pending', inflight')
    <3>1. \A p \in ToSet(pending), mj \in inflight : p.job # mj.job
      BY DEF MemInv, Broker, Disjoint
    <3>2. QED
      BY <1>1, <1>3, <1>4, <1>9, <3>1 DEF Disjoint
  <2>4. QED
    BY <2>1, <2>2, <2>3 DEF MemInv, Broker
<1>11. Rows(pending', inflight') = (Rows(pending, inflight) \ {r}) \cup {over}
  <2>1. \A k \in ToSet(pending) : RowOf(k, "pending") = r <=> k = m
    BY <1>2, <1>3, RowFields DEF r
  <2>2. \A k \in inflight : RowOf(k, "inflight") # r
    BY <1>2, <1>5, RowFields, <1>3
  <2>3. Rows(pending, inflight) \ {r} =
          {RowOf(k, "pending") : k \in ToSet(pending) \ {m}} \cup {RowOf(k, "inflight") : k \in inflight}
    BY <2>1, <2>2 DEF Rows
  <2>4. Rows(pending', inflight') =
          {RowOf(k, "pending") : k \in ToSet(pending) \ {m}} \cup {RowOf(new, "pending")}
            \cup {RowOf(k, "inflight") : k \in inflight}
    BY <1>1, <1>9 DEF Rows
  <2>5. QED
    BY <1>6, <2>3, <2>4
<1>12. r \in Rows(pending, inflight)
  BY <1>3 DEF Rows, r
<1>13. Queue!WaitOver(r)
  BY <1>1, <1>5, <1>11 DEF Queue!WaitOver, Rows, over
<1>14. QED
  BY <1>10, <1>12, <1>13

(* A caller stops without settling.                                         *)
LEMMA ForgetMatches ==
  ASSUME MemInv, NEW l \in held, MForget(l)
  PROVE  MemInv' /\ \E gone \in SUBSET held : Queue!Forget(gone)
<1>1. pending' = pending /\ inflight' = inflight /\ dead' = dead /\ held' = held \ {l}
  BY DEF MForget
<1>2. MemInv'
  BY <1>1 DEF MemInv
<1>3. Queue!Forget({l})
  BY <1>1 DEF Queue!Forget
<1>4. QED
  BY <1>2, <1>3

-----------------------------------------------------------------------------

(* Every step keeps the invariant and is a step of the queue.               *)
LEMMA StepMatches ==
  ASSUME MemInv, [MNext]_mvars
  PROVE  MemInv' /\ [Queue!QNext]_(Queue!qvars)
<1>1. CASE UNCHANGED mvars
  BY <1>1 DEF mvars, MemInv, Queue!qvars
<1>2. ASSUME NEW j \in Sent, MEnqueue(j) PROVE MemInv' /\ Queue!QNext
  BY <1>2, EnqueueMatches, MemAssumption DEF Queue!QNext
<1>3. ASSUME NEW cp \in Corpus \cup {AnyCorpus}, MLeaseForCorpus(cp) PROVE MemInv' /\ Queue!QNext
  BY <1>3, LeaseMatches DEF Queue!QNext
<1>4. ASSUME NEW cp \in Corpus \cup {AnyCorpus}, MLeaseNoJob(cp) PROVE MemInv' /\ Queue!QNext
  BY <1>4, NoJobMatches DEF Queue!QNext
<1>5. CASE MStats
  BY <1>5, StatsMatches DEF Queue!QNext
<1>6. ASSUME NEW l \in held, MAck(l) PROVE MemInv' /\ Queue!QNext
  BY <1>6, AckMatches DEF Queue!QNext
<1>7. ASSUME NEW l \in held, NEW delay \in BOOLEAN, MNack(l, delay) PROVE MemInv' /\ Queue!QNext
  BY <1>7, NackMatches DEF Queue!QNext
<1>8. ASSUME NEW l \in held, MForget(l) PROVE MemInv' /\ Queue!QNext
  BY <1>8, ForgetMatches DEF Queue!QNext
<1>9. ASSUME NEW mj \in inflight, MAge(mj) PROVE MemInv' /\ Queue!QNext
  BY <1>9, AgeMatches DEF Queue!QNext, Rows
<1>10. ASSUME NEW i \in DOMAIN pending, MWaitOver(i) PROVE MemInv' /\ Queue!QNext
  BY <1>10, WaitOverMatches DEF Queue!QNext, Rows
<1>11. QED
  BY <1>1, <1>2, <1>3, <1>4, <1>5, <1>6, <1>7, <1>8, <1>9, <1>10 DEF MNext, MSettle

(* The memory broker implements the queue the Broker interface promises:    *)
(* every call, and every reclaim a call begins with, is one the queue       *)
(* allows, whatever is in the FIFO and however the map is ranged over.      *)
THEOREM MemBrokerImplements == MSpec => ImplementsQueue
<1>1. MInit => MemInv /\ Queue!QInit
  <2>1. SUFFICES ASSUME MInit PROVE MemInv /\ Queue!QInit
    OBVIOUS
  <2>2. pending = <<>> /\ inflight = {} /\ dead = {} /\ held = {}
    BY <2>1 DEF MInit
  <2>3. ToSet(<<>>) = {} /\ <<>> \in Seq(MemJob) /\ Apart(<<>>)
    BY DEF ToSet, Apart
  <2>4. ToSet(pending) = {} /\ pending \in Seq(MemJob) /\ Apart(pending)
    BY <2>2, <2>3
  <2>5. Fifo(pending) /\ Disjoint(pending, inflight)
    BY <2>4 DEF Fifo, Disjoint
  <2>6. Flight(inflight)
    BY <2>2, FS_EmptySet DEF Flight
  <2>7. Queue!QInit
    BY <2>2, <2>4 DEF Queue!QInit
  <2>8. QED
    BY <2>5, <2>6, <2>7 DEF MemInv, Broker
<1>2. MemInv /\ [MNext]_mvars => MemInv' /\ [Queue!QNext]_(Queue!qvars)
  BY StepMatches
<1>3. QED
  BY <1>1, <1>2, PTL DEF MSpec, ImplementsQueue, Queue!QSpec
=============================================================================
