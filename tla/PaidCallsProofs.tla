-------------------------- MODULE PaidCallsProofs --------------------------
(***************************************************************************)
(* Proofs about PaidCalls, for any goroutines, nonces and requests and any *)
(* number of failures and restarts: the states are well typed; if a live   *)
(* reservation stays in the cache until its row is written ("evict" is not *)
(* in Drift), one request runs on a nonce and its row holds; and if the    *)
(* outcomes are saved and loaded too, a recorded outcome is not run again, *)
(* a result that was paid for is kept, and what is known settled is not    *)
(* settled again.                                                          *)
(***************************************************************************)
EXTENDS PaidCalls, FiniteSetTheorems, TLAPS

Stages(c, s) == call[c].stage \in s

(* Nothing of n will be reserved any more: only now may its records expire. *)
Over(n) == n \in shut /\ \A c \in Call : N(c) = n => ~At(c, "reserve")

Locks == \A c, d \in Call : Holds(c) /\ Holds(d) /\ Key(c) = Key(d) => c = d

-----------------------------------------------------------------------------
(* The ledger *)

(* What the row of a nonce stands for, and what may still run on it.        *)
Firm(n, k) ==
  \/ k \in ran[n]
  \/ \E c \in Call : N(c) = n /\ K(c) = k /\ Stages(c, {"refresh", "run"})
Claim(n, k) ==
  \/ Firm(n, k)
  \/ \E c \in Call : N(c) = n /\ K(c) = k /\ At(c, "keep")

OneClaim == \A n \in Nonce : \A j, k \in Req : Claim(n, j) /\ Claim(n, k) => j = k

Backed == \A n \in Nonce : ~Over(n) => \A k \in Req : Firm(n, k) => ledgerRow[n].key = k

Fresh ==
  \A c \in Call : Stages(c, {"keep", "undo"}) /\ ~Over(N(c)) =>
    ledger[N(c)] = [key |-> K(c), consumed |-> FALSE] /\ ledgerRow[N(c)] = NoEntry

Shadow ==
  \A n \in Nonce : ~Over(n) /\ ledger[n] # NoEntry =>
    \/ ledgerRow[n].key = ledger[n].key
    \/ \E c \in Call : N(c) = n /\ Stages(c, {"keep", "undo"})

After == {"cache", "save", "settle", "commit", "spend", "mark"}
HasRun ==
  /\ \A c \in Call : Stages(c, After) => K(c) \in ran[N(c)]
  /\ \A n \in Nonce, k \in Req : outcome[<<n, k>>] # "none" \/ outcomeRow[<<n, k>>] # "none" => k \in ran[n]

LedgerInv == Locks /\ OneClaim /\ Backed /\ Fresh /\ Shadow /\ HasRun

-----------------------------------------------------------------------------
(* The outcomes *)

(* What a call may rely on between finding no outcome and recording one,    *)
(* and while it settles one.                                                *)
Phase(c) ==
  LET o == outcome[Key(c)]  r == outcomeRow[Key(c)]  got == call[c].got IN
  /\ Stages(c, {"classify", "verify"}) => N(c) \in shut \/ o = "none"
  /\ Stages(c, {"reserve", "keep", "undo", "refresh", "run"}) => o = "none" /\ r = "none"
  /\ At(c, "cache") =>
       /\ o = "none" /\ got # "none"
       /\ IF got = "settled" THEN r # "failed" ELSE r = "none"
  /\ At(c, "save") =>
       /\ o \in {got, "none"} /\ got # "none" /\ (Over(N(c)) \/ o = got)
       /\ IF got = "settled" THEN r # "failed" ELSE r = "none"
  /\ Stages(c, {"settle", "commit", "spend", "mark"}) =>
       /\ got = "pending"
       /\ o \in {"pending", "none"} /\ (Over(N(c)) \/ o = "pending")
       /\ r \in {"pending", "none"} /\ (N(c) \in shut \/ r = "pending")
Phases == \A c \in Call : Phase(c)

Good == {"pending", "settled"}

(* Memory and store tell the same of an outcome, the store perhaps less.    *)
Agree ==
  \A n \in Nonce, k \in Req :
    LET o == outcome[<<n, k>>]  r == outcomeRow[<<n, k>>] IN
    /\ o # "none" /\ r # "none" => (o = "failed" <=> r = "failed") /\ (o = "pending" => r = "pending")
    /\ n \notin shut /\ r # "none" => o # "none"
    /\ n \notin shut /\ o # "none" => r # "none" \/ \E c \in Call : Key(c) = <<n, k>> /\ At(c, "save")

Made ==
  /\ \A c \in Call : call[c].got \in Good => ~At(c, "idle") /\ K(c) \in produced[N(c)]
  /\ \A n \in Nonce, k \in Req :
       outcome[<<n, k>>] \in Good \/ outcomeRow[<<n, k>>] \in Good => k \in produced[n]

Paid ==
  \A n \in Nonce : \A k \in captured[n] :
    /\ k \in produced[n]
    /\ n \notin shut => outcome[<<n, k>>] \in Good /\ outcomeRow[<<n, k>>] \in Good

Sure ==
  /\ \A n \in sure, k \in Req : outcome[<<n, k>>] = "pending" =>
       \E c \in Call : Key(c) = <<n, k>> /\ Stages(c, {"commit", "spend", "mark"})
  /\ \A c \in Call :
       \/ Stages(c, {"keep", "refresh", "run", "settle"})
       \/ Stages(c, {"cache", "save"}) /\ call[c].got # "settled"
       => N(c) \notin sure
  /\ \A n \in sure : ~Over(n) => \E k \in ran[n] : outcome[<<n, k>>] # "none"

OutcomeInv == Phases /\ Agree /\ Made /\ Paid /\ Sure
-----------------------------------------------------------------------------
(* Types *)

CallRec == [stage : Stage, n : Nonce \cup {Nobody}, k : Req \cup {Nobody}, got : Outcome]

(* The call in hand goes to another stage and nothing else of it changes.   *)
LEMMA GoStep ==
  ASSUME call \in [Call -> CallRec], NEW c \in Call, NEW s \in Stage, Go(c, s)
  PROVE  /\ call' \in [Call -> CallRec]
         /\ call'[c].stage = s /\ call'[c].n = call[c].n /\ call'[c].k = call[c].k
         /\ call'[c].got = call[c].got
         /\ \A d \in Call : d # c => call'[d] = call[d]
BY DEF Go, CallRec

LEMMA AnswerStep ==
  ASSUME call \in [Call -> CallRec], NEW c \in Call, Answer(c)
  PROVE  /\ call' \in [Call -> CallRec]
         /\ call'[c].stage = "idle" /\ call'[c].n = Nobody /\ call'[c].k = Nobody
         /\ call'[c].got = "none"
         /\ \A d \in Call : d # c => call'[d] = call[d]
<1>1. Idle \in CallRec
  BY DEF Idle, CallRec, Stage, Outcome
<1>2. QED
  BY <1>1 DEF Answer, Idle

GoWith(c, s, g) == call' = [call EXCEPT ![c].stage = s, ![c].got = g]

LEMMA GoWithStep ==
  ASSUME call \in [Call -> CallRec], NEW c \in Call, NEW s \in Stage, NEW g \in Outcome, GoWith(c, s, g)
  PROVE  /\ call' \in [Call -> CallRec]
         /\ call'[c].stage = s /\ call'[c].n = call[c].n /\ call'[c].k = call[c].k
         /\ call'[c].got = g
         /\ \A d \in Call : d # c => call'[d] = call[d]
<1>1. /\ DOMAIN call' = Call
      /\ \A d \in Call : d # c => call'[d] = call[d]
      /\ call'[c] = [[call[c] EXCEPT !.stage = s] EXCEPT !.got = g]
  BY DEF GoWith
<1>2. call[c] \in CallRec
  OBVIOUS
<1>3. /\ call'[c] \in CallRec
      /\ call'[c].stage = s /\ call'[c].n = call[c].n /\ call'[c].k = call[c].k
      /\ call'[c].got = g
  BY <1>1, <1>2 DEF CallRec
<1>4. call' = [d \in Call |-> call'[d]]
  BY DEF GoWith
<1>5. QED
  BY <1>1, <1>3, <1>4

LEMMA TypeNext == PaidTypeOK /\ [Next]_vars => PaidTypeOK'
<1>1. SUFFICES ASSUME PaidTypeOK, [Next]_vars PROVE PaidTypeOK'
  OBVIOUS
<1>. DEFINE Rest == /\ outcome' \in [Nonce \X Req -> Outcome]
                    /\ outcomeRow' \in [Nonce \X Req -> Outcome]
                    /\ shut' \subseteq Nonce /\ sure' \subseteq Nonce
                    /\ faults' \in 0 .. MaxFaults /\ crashes' \in 0 .. MaxCrashes
                    /\ captured' \in [Nonce -> SUBSET Req] /\ ran' \in [Nonce -> SUBSET Req]
                    /\ produced' \in [Nonce -> SUBSET Req]
            CallOK == /\ call' \in [Call -> CallRec]
                      /\ \A c \in Call : call'[c].stage # "idle" => call'[c].n \in Nonce /\ call'[c].k \in Req
            Ledger(l) == /\ l \in [Nonce -> Entry]
                         /\ \A n \in Nonce : l[n].consumed => l[n].key \in Req
<1>2. call \in [Call -> CallRec] /\ Ledger(ledger) /\ Ledger(ledgerRow)
  BY <1>1 DEF PaidTypeOK, CallRec
<1>3. ASSUME CallOK, Rest, Ledger(ledger'), Ledger(ledgerRow') PROVE PaidTypeOK'
  BY <1>3 DEF PaidTypeOK, CallRec
<1>4. NoEntry \in Entry /\ ~NoEntry.consumed
  BY DEF NoEntry, Entry
<1>5. ASSUME NEW c \in Call, call[c].stage # "idle", NEW s \in Stage, Go(c, s) PROVE CallOK
  BY <1>1, <1>2, <1>5, GoStep DEF PaidTypeOK
<1>6. ASSUME NEW c \in Call, Answer(c) PROVE CallOK
  BY <1>1, <1>2, <1>6, AnswerStep DEF PaidTypeOK
<1>61. ASSUME NEW c \in Call, call[c].stage # "idle", NEW s \in Stage, NEW g \in Outcome, GoWith(c, s, g)
       PROVE  CallOK
  BY <1>1, <1>2, <1>61, GoWithStep DEF PaidTypeOK
<1>7. ASSUME NEW n \in Nonce PROVE Known(n) \in Entry /\ (Known(n).consumed => Known(n).key \in Req)
  BY <1>2 DEF Known
<1>8. ASSUME NEW n \in Nonce, NEW l, Ledger(l), NEW e \in Entry, e.consumed => e.key \in Req
      PROVE  Ledger([l EXCEPT ![n] = e])
  BY <1>8
<1>9. ASSUME NEW n \in Nonce, NEW e \in Entry, e.consumed => e.key \in Req, Upsert(n, e)
      PROVE  Ledger(ledgerRow')
  BY <1>2, <1>8, <1>9 DEF Upsert
<1>10. Fault => faults' \in 0 .. MaxFaults
  BY <1>1, PaidBounds DEF Fault, PaidTypeOK
<1>11. NoFault => faults' \in 0 .. MaxFaults
  BY <1>1 DEF NoFault, PaidTypeOK
<1>12. UNCHANGED call => CallOK
  BY <1>1, <1>2 DEF PaidTypeOK
<1>. USE DEF Stage, Outcome
<1>13. ASSUME NEW c \in Call, call[c].stage # "idle"
       PROVE  /\ N(c) \in Nonce /\ K(c) \in Req /\ Key(c) \in Nonce \X Req /\ call[c].got \in Outcome
              /\ [key |-> K(c), consumed |-> FALSE] \in Entry
              /\ [key |-> K(c), consumed |-> TRUE] \in Entry
  BY <1>1, <1>2, <1>13 DEF PaidTypeOK, CallRec, N, K, Key, Entry
<1>14. ASSUME NEW c \in Call, Step(c) PROVE CallOK
  <2>1. CASE ReplayCached(c)
    <3>1. CASE Go(c, "classify")
      BY <1>5, <2>1, <3>1 DEF ReplayCached, At
    <3>2. CASE Answer(c)
      BY <1>6, <3>2
    <3>3. CASE call' = [call EXCEPT ![c].stage = "settle", ![c].got = "pending"]
      BY <1>61, <2>1, <3>3 DEF ReplayCached, At, GoWith
    <3>4. QED
      BY <2>1, <3>1, <3>2, <3>3 DEF ReplayCached
  <2>2. CASE Classify(c) \/ Verify(c) \/ Reserve(c)
    BY <1>5, <1>6, <2>2 DEF Classify, Verify, Reserve, At
  <2>3. CASE KeepReservation(c) \/ Undo(c) \/ RefreshReservation(c)
    BY <1>5, <1>6, <2>3 DEF KeepReservation, Undo, RefreshReservation, At
  <2>4. CASE RunTool(c)
    <3>1. PICK g \in {"pending", "failed"} : GoWith(c, "cache", g)
      BY <2>4 DEF RunTool, GoWith
    <3>2. QED
      BY <1>61, <2>4, <3>1 DEF RunTool, At
  <2>5. CASE CacheOutcome(c) \/ SaveOutcome(c)
    BY <1>5, <1>6, <2>5 DEF CacheOutcome, SaveOutcome, Proceed, At
  <2>6. CASE Settled(c) \/ SettleFails(c) \/ CommitNonce(c) \/ SpendNonce(c)
    BY <1>5, <1>6, <2>6 DEF Settled, SettleFails, CommitNonce, SpendNonce, At
  <2>7. CASE MarkSettled(c)
    <3>1. CASE Answer(c)
      BY <1>6, <3>1
    <3>2. CASE call' = [call EXCEPT ![c].stage = "cache", ![c].got = "settled"]
      BY <1>61, <2>7, <3>2 DEF MarkSettled, At, GoWith
    <3>3. QED
      BY <2>7, <3>1, <3>2 DEF MarkSettled
  <2>8. QED
    BY <1>14, <2>1, <2>2, <2>3, <2>4, <2>5, <2>6, <2>7 DEF Step
<1>15. ASSUME NEW c \in Call, Step(c) PROVE Ledger(ledger') /\ Ledger(ledgerRow')
  <2>. call[c].stage # "idle"
    BY <1>15 DEF Step, ReplayCached, Classify, Verify, Reserve, KeepReservation, Undo,
         RefreshReservation, RunTool, CacheOutcome, SaveOutcome, Settled, SettleFails,
         CommitNonce, SpendNonce, MarkSettled, At
  <2>1. CASE UNCHANGED <<ledger, ledgerRow>>
    BY <1>2, <2>1
  <2>2. CASE Classify(c)
    BY <1>2, <1>7, <1>8, <1>13, <2>2 DEF Classify, Hydrate, stored
  <2>3. CASE Reserve(c)
    <3>1. CASE UNCHANGED ledger
      BY <1>2, <2>3, <3>1 DEF Reserve, stored
    <3>2. CASE ledger' = [ledger EXCEPT ![N(c)] = [key |-> K(c), consumed |-> FALSE]]
      BY <1>2, <1>8, <1>13, <2>3, <3>2 DEF Reserve, stored
    <3>3. CASE Hydrate(N(c))
      BY <1>2, <1>7, <1>8, <1>13, <2>3, <3>3 DEF Reserve, Hydrate, stored
    <3>4. QED
      BY <2>3, <3>1, <3>2, <3>3 DEF Reserve
  <2>4. CASE KeepReservation(c) \/ RefreshReservation(c) \/ SpendNonce(c)
    BY <1>2, <1>9, <1>13, <2>4 DEF KeepReservation, RefreshReservation, SpendNonce
  <2>5. CASE Undo(c)
    BY <1>2, <1>4, <1>8, <1>13, <2>5 DEF Undo, stored
  <2>6. CASE CommitNonce(c)
    <3>1. ledger' = [ledger EXCEPT ![N(c)] =
            [key |-> IF ledger[N(c)] = NoEntry THEN K(c) ELSE ledger[N(c)].key, consumed |-> TRUE]]
      BY <2>6 DEF CommitNonce
    <3>2. ledger[N(c)] # NoEntry => ledger[N(c)].key \in Req
      <4>1. ledger[N(c)] \in Entry /\ (ledger[N(c)].consumed => ledger[N(c)].key \in Req)
        BY <1>2, <1>13
      <4>2. ledger[N(c)].key = Nobody /\ ~ledger[N(c)].consumed => ledger[N(c)] = NoEntry
        BY <4>1 DEF Entry, NoEntry
      <4>3. QED
        BY <4>1, <4>2 DEF Entry
    <3>3. QED
      BY <1>2, <1>8, <1>13, <2>6, <3>1, <3>2 DEF CommitNonce, stored, Entry
  <2>7. QED
    BY <1>15, <2>1, <2>2, <2>3, <2>4, <2>5, <2>6
    DEF Step, ReplayCached, Verify, RunTool, CacheOutcome, SaveOutcome, Settled, SettleFails,
        MarkSettled, stored
<1>16. ASSUME NEW c \in Call, Step(c) PROVE Rest
  <2>. call[c].stage # "idle"
    BY <1>16 DEF Step, ReplayCached, Classify, Verify, Reserve, KeepReservation, Undo,
         RefreshReservation, RunTool, CacheOutcome, SaveOutcome, Settled, SettleFails,
         CommitNonce, SpendNonce, MarkSettled, At
  <2>. faults' \in 0 .. MaxFaults
    BY <1>1, <1>10, <1>11, <1>16 DEF PaidTypeOK, Step, ReplayCached, Classify, Verify, Reserve,
       KeepReservation, Undo, RefreshReservation, RunTool, CacheOutcome, SaveOutcome, Settled,
       SettleFails, CommitNonce, SpendNonce, MarkSettled, ReadFails
  <2>1. CASE UNCHANGED <<outcome, outcomeRow, shut, crashes, history>>
    BY <1>1, <2>1 DEF PaidTypeOK, history
  <2>2. CASE RunTool(c)
    <3>1. ran[N(c)] \cup {K(c)} \subseteq Req /\ produced[N(c)] \cup {K(c)} \subseteq Req
      BY <1>1, <1>13 DEF PaidTypeOK
    <3>2. /\ ran' = [ran EXCEPT ![N(c)] = @ \cup {K(c)}]
          /\ produced' \in {produced, [produced EXCEPT ![N(c)] = @ \cup {K(c)}]}
          /\ UNCHANGED <<outcome, outcomeRow, shut, faults, crashes, captured, sure>>
      BY <2>2 DEF RunTool, stored
    <3>3. /\ ran' \in [Nonce -> SUBSET Req]
          /\ produced' \in [Nonce -> SUBSET Req]
      <4>1. /\ N(c) \in Nonce
            /\ ran \in [Nonce -> SUBSET Req] /\ produced \in [Nonce -> SUBSET Req]
        BY <1>1, <1>13 DEF PaidTypeOK
      <4>2. [produced EXCEPT ![N(c)] = @ \cup {K(c)}] \in [Nonce -> SUBSET Req]
        BY <3>1, <4>1
      <4>3. ran' \in [Nonce -> SUBSET Req]
        BY <3>1, <3>2, <4>1
      <4>4. QED
        BY <3>2, <4>1, <4>2, <4>3
    <3>4. QED
      BY <1>1, <3>2, <3>3 DEF PaidTypeOK
  <2>3. CASE CacheOutcome(c) \/ SaveOutcome(c) \/ MarkSettled(c)
    BY <1>1, <1>13, <2>3 DEF CacheOutcome, SaveOutcome, MarkSettled, PaidTypeOK, stored, history
  <2>4. CASE Settled(c) \/ SettleFails(c)
    <3>1. captured[N(c)] \cup {K(c)} \subseteq Req /\ sure \cup {N(c)} \subseteq Nonce
      BY <1>1, <1>13 DEF PaidTypeOK
    <3>2. /\ captured' \in {captured, [captured EXCEPT ![N(c)] = @ \cup {K(c)}]}
          /\ sure' \in {sure, sure \cup {N(c)}}
          /\ UNCHANGED <<outcome, outcomeRow, shut, faults, crashes, ran, produced>>
      BY <2>4, Zenon DEF Settled, SettleFails, Capture, stored
    <3>3. captured' \in [Nonce -> SUBSET Req] /\ sure' \subseteq Nonce
      BY <1>1, <1>13, <3>1, <3>2 DEF PaidTypeOK
    <3>4. QED
      BY <1>1, <3>2, <3>3 DEF PaidTypeOK
  <2>5. QED
    BY <1>16, <2>1, <2>2, <2>3, <2>4
    DEF Step, ReplayCached, Classify, Verify, Reserve, KeepReservation, Undo,
        RefreshReservation, CommitNonce, SpendNonce, stored
<1>17. ASSUME NEW c \in Call, Lock(c) PROVE PaidTypeOK'
  BY <1>1, <1>2, <1>3, <1>5, <1>17 DEF Lock, At, PaidTypeOK, stored, history
<1>18. ASSUME NEW c \in Call, NEW n \in Nonce, NEW k \in Req, ToolsCall(c, n, k) PROVE PaidTypeOK'
  <2>1. CallOK
    BY <1>1, <1>2, <1>18 DEF ToolsCall, PaidTypeOK, CallRec
  <2>2. QED
    BY <1>1, <1>2, <1>3, <1>18, <2>1 DEF ToolsCall, PaidTypeOK, stored, history
<1>19. ASSUME NEW n \in Nonce, Evict(n) \/ Shut(n) \/ ExpireLedger(n) PROVE PaidTypeOK'
  <2>1. CallOK /\ Rest
    BY <1>1, <1>12, <1>19 DEF Evict, Shut, ExpireLedger, PaidTypeOK, stored, history
  <2>2. Ledger([ledger EXCEPT ![n] = NoEntry]) /\ Ledger([ledgerRow EXCEPT ![n] = NoEntry])
    BY <1>2, <1>4, <1>8
  <2>3. Ledger(ledger') /\ Ledger(ledgerRow')
    BY <1>2, <1>19, <2>2 DEF Evict, Shut, ExpireLedger, stored
  <2>4. QED
    BY <1>3, <2>1, <2>3
<1>20. ASSUME NEW n \in Nonce, NEW k \in Req, ExpireOutcome(n, k) PROVE PaidTypeOK'
  BY <1>1, <1>2, <1>3, <1>12, <1>20 DEF ExpireOutcome, PaidTypeOK, history
<1>21. CASE Restart
  <2>1. CallOK
    BY <1>21 DEF Restart, Idle, CallRec
  <2>2. Ledger(ledger') /\ Ledger(ledgerRow')
    BY <1>2, <1>4, <1>21 DEF Restart, stored
  <2>3. Rest
    BY <1>1, <1>10, <1>11, <1>21, PaidBounds DEF Restart, stored, PaidTypeOK
  <2>4. QED
    BY <1>3, <2>1, <2>2, <2>3
<1>22. CASE UNCHANGED vars
  BY <1>1, <1>2, <1>3, <1>12, <1>22 DEF vars, stored, history, PaidTypeOK
<1>23. QED
  BY <1>1, <1>3, <1>14, <1>15, <1>16, <1>17, <1>18, <1>19, <1>20, <1>21, <1>22 DEF Next

(* Every state of the paid calls is well typed: in particular a consumed    *)
(* entry always names the request that consumed it.                         *)
THEOREM PaidTypeCorrect == Spec => []PaidTypeOK
<1>1. Init => PaidTypeOK
  BY PaidBounds DEF Init, PaidTypeOK, Idle, Stage, Outcome, Entry, NoEntry
<1>2. QED
  BY <1>1, TypeNext, PTL DEF Spec
-----------------------------------------------------------------------------
(* One step of a call *)

Follows == {<<"queued", "lookup">>, <<"lookup", "classify">>, <<"lookup", "settle">>,
            <<"classify", "verify">>, <<"verify", "reserve">>, <<"reserve", "keep">>,
            <<"reserve", "refresh">>, <<"keep", "run">>, <<"keep", "undo">>, <<"refresh", "run">>,
            <<"run", "cache">>, <<"cache", "save">>, <<"cache", "settle">>, <<"save", "settle">>,
            <<"settle", "commit">>, <<"commit", "spend">>, <<"spend", "mark">>, <<"mark", "cache">>}

(* A call goes on with the nonce and request it has, or is answered.        *)
Onward(c) ==
  \/ call'[c].stage = "idle" /\ call'[c].n = Nobody /\ call'[c].k = Nobody /\ call'[c].got = "none"
  \/ /\ call'[c].n = call[c].n /\ call'[c].k = call[c].k
     /\ <<call[c].stage, call'[c].stage>> \in Follows
     /\ call'[c].stage = "reserve" => call[c].n \notin shut

Frame(c) ==
  /\ call \in [Call -> CallRec] /\ call' \in [Call -> CallRec]
  /\ \A d \in Call : d # c => call'[d] = call[d]
  /\ call[c].stage # "idle" /\ call[c].n \in Nonce /\ call[c].k \in Req
  /\ Onward(c)
  /\ shut' = shut

LEMMA StepFrame ==
  ASSUME PaidTypeOK, NEW c \in Call, Step(c) \/ Lock(c)
  PROVE  Frame(c)
<1>1. call \in [Call -> CallRec]
  BY DEF PaidTypeOK, CallRec
<1>2. call[c].stage # "idle"
  BY DEF Step, ReplayCached, Classify, Verify, Reserve, KeepReservation, Undo,
         RefreshReservation, RunTool, CacheOutcome, SaveOutcome, Settled, SettleFails,
         CommitNonce, SpendNonce, MarkSettled, At, Lock
<1>3. call[c].n \in Nonce /\ call[c].k \in Req /\ call[c].got \in Outcome /\ call[c].stage \in Stage
  BY <1>1, <1>2 DEF PaidTypeOK, CallRec
<1>4. shut' = shut
  BY DEF Step, ReplayCached, Classify, Verify, Reserve, KeepReservation, Undo,
         RefreshReservation, RunTool, CacheOutcome, SaveOutcome, Settled, SettleFails,
         CommitNonce, SpendNonce, MarkSettled, Lock
<1>5. ASSUME NEW s \in Stage, Go(c, s), <<call[c].stage, s>> \in Follows,
             s = "reserve" => call[c].n \notin shut
      PROVE  Frame(c)
  BY <1>1, <1>2, <1>3, <1>4, <1>5, GoStep DEF Frame, Onward
<1>6. ASSUME NEW s \in Stage, NEW g \in Outcome, GoWith(c, s, g), <<call[c].stage, s>> \in Follows,
             s # "reserve"
      PROVE  Frame(c)
  BY <1>1, <1>2, <1>3, <1>4, <1>6, GoWithStep DEF Frame, Onward
<1>7. ASSUME Answer(c) PROVE Frame(c)
  BY <1>1, <1>2, <1>3, <1>4, <1>7, AnswerStep DEF Frame, Onward
<1>. USE DEF Stage, Outcome, Follows, At
<1>8. CASE ReplayCached(c)
  <2>1. CASE GoWith(c, "settle", "pending")
    BY <1>6, <1>8, <2>1 DEF ReplayCached
  <2>2. QED
    BY <1>5, <1>7, <1>8, <2>1 DEF ReplayCached, GoWith
<1>9. CASE Classify(c)
  BY <1>5, <1>7, <1>9 DEF Classify
<1>10. CASE Verify(c)
  BY <1>5, <1>7, <1>10 DEF Verify, N
<1>11. CASE Reserve(c)
  BY <1>5, <1>7, <1>11 DEF Reserve
<1>12. CASE KeepReservation(c) \/ Undo(c) \/ RefreshReservation(c)
  BY <1>5, <1>7, <1>12 DEF KeepReservation, Undo, RefreshReservation
<1>13. CASE RunTool(c)
  <2>1. PICK g \in {"pending", "failed"} : GoWith(c, "cache", g)
    BY <1>13 DEF RunTool, GoWith
  <2>2. QED
    BY <1>6, <1>13, <2>1 DEF RunTool
<1>14. CASE CacheOutcome(c) \/ SaveOutcome(c)
  BY <1>5, <1>7, <1>14 DEF CacheOutcome, SaveOutcome, Proceed
<1>15. CASE Settled(c) \/ SettleFails(c) \/ CommitNonce(c) \/ SpendNonce(c)
  BY <1>5, <1>7, <1>15 DEF Settled, SettleFails, CommitNonce, SpendNonce
<1>16. CASE MarkSettled(c)
  <2>1. CASE GoWith(c, "cache", "settled")
    BY <1>6, <1>16, <2>1 DEF MarkSettled
  <2>2. QED
    BY <1>7, <1>16, <2>1 DEF MarkSettled, GoWith
<1>17. CASE Lock(c)
  BY <1>5, <1>17 DEF Lock
<1>18. QED
  BY <1>8, <1>9, <1>10, <1>11, <1>12, <1>13, <1>14, <1>15, <1>16, <1>17 DEF Step

(* Once nothing of a nonce can be reserved any more, nothing ever will be.  *)
LEMMA OverStays ==
  ASSUME PaidTypeOK, [Next]_vars, NEW n \in Nonce, Over(n)
  PROVE  Over(n)'
<1>1. ASSUME NEW c \in Call, Step(c) \/ Lock(c) PROVE Over(n)'
  <2>1. Frame(c)
    BY <1>1, StepFrame
  <2>2. QED
    BY <2>1, Nobodies DEF Frame, Onward, Over, At, N
<1>2. ASSUME NEW c \in Call, NEW m \in Nonce, NEW k \in Req, ToolsCall(c, m, k) PROVE Over(n)'
  BY <1>2 DEF ToolsCall, Over, At, N, PaidTypeOK
<1>3. CASE Restart
  BY <1>3, Nobodies DEF Restart, Over, At, N, Idle
<1>4. CASE UNCHANGED <<call, shut>>
  BY <1>4 DEF Over, At, N
<1>5. ASSUME NEW m \in Nonce, Shut(m) PROVE Over(n)'
  BY <1>5 DEF Shut, Over, At, N
<1>6. QED
  BY <1>1, <1>2, <1>3, <1>4, <1>5 DEF Next, Evict, ExpireLedger, ExpireOutcome, vars

(* What a step of a call does to the ledger and to what has run.            *)
Effect(c) ==
  LET n == call[c].n  k == call[c].k  from == call[c].stage  to == call'[c].stage IN
  /\ \A m \in Nonce : m # n =>
       ledger'[m] = ledger[m] /\ ledgerRow'[m] = ledgerRow[m] /\ ran'[m] = ran[m]
  /\ ran'[n] = IF from = "run" THEN ran[n] \cup {k} ELSE ran[n]
  /\ \/ ledgerRow'[n] = ledgerRow[n]
     \/ from \in {"keep", "refresh", "spend"} /\ ~ledgerRow[n].consumed /\ ledgerRow'[n].key = k
  /\ from = "keep" /\ to # "undo" /\ ~ledgerRow[n].consumed => ledgerRow'[n].key = k
  /\ from = "keep" /\ to = "undo" => ledgerRow'[n] = ledgerRow[n]
  /\ from \notin {"classify", "reserve", "undo", "commit"} => ledger'[n] = ledger[n]
  /\ from = "classify" => ledger'[n] \in {ledger[n], Known(n)}
  /\ from = "reserve" =>
       /\ to = "keep" => Known(n) = NoEntry /\ ledger'[n] = [key |-> k, consumed |-> FALSE]
       /\ to # "keep" => ledger'[n] \in {ledger[n], Known(n)}
       /\ to = "refresh" => Known(n).key = k
  /\ from = "undo" => /\ to = "idle"
                      /\ ledger'[n] = IF Bound(ledger[n], k) THEN NoEntry ELSE ledger[n]
  /\ from = "commit" => ledger'[n].key = IF ledger[n] = NoEntry THEN k ELSE ledger[n].key

LEMMA StepEffect ==
  ASSUME PaidTypeOK, NEW c \in Call, Step(c) \/ Lock(c)
  PROVE  Effect(c)
<1>1. /\ Frame(c) /\ N(c) = call[c].n /\ K(c) = call[c].k
      /\ call[c].n \in Nonce /\ call[c].k \in Req
      /\ ledger \in [Nonce -> Entry] /\ ledgerRow \in [Nonce -> Entry]
      /\ ran \in [Nonce -> SUBSET Req]
  BY StepFrame DEF Frame, PaidTypeOK, N, K
<1>2. ASSUME NEW e \in Entry, Upsert(call[c].n, e)
      PROVE  /\ \A m \in Nonce : m # call[c].n => ledgerRow'[m] = ledgerRow[m]
             /\ ledgerRow'[call[c].n] = IF ledgerRow[call[c].n].consumed THEN ledgerRow[call[c].n] ELSE e
  BY <1>1, <1>2 DEF Upsert
<1>3. ASSUME NEW s \in Stage, Go(c, s) PROVE call'[c].stage = s
  BY <1>1, <1>3, GoStep DEF Frame
<1>4. ASSUME Answer(c) PROVE call'[c].stage = "idle"
  BY <1>1, <1>4, AnswerStep DEF Frame
<1>5. /\ [key |-> call[c].k, consumed |-> FALSE] \in Entry
      /\ [key |-> call[c].k, consumed |-> TRUE] \in Entry
      /\ Known(call[c].n) \in Entry
  BY <1>1 DEF Entry, Known
<1>. USE DEF At
<1>6. CASE Classify(c)
  BY <1>1, <1>6 DEF Classify, Hydrate, Effect, stored, history
<1>7. CASE Reserve(c)
  <2>1. CASE ReadFails(N(c)) /\ Answer(c) /\ UNCHANGED ledger
    BY <1>1, <1>4, <1>7, <2>1 DEF Reserve, Effect, stored, history
  <2>2. CASE /\ Known(N(c)) = NoEntry
             /\ ledger' = [ledger EXCEPT ![N(c)] = [key |-> K(c), consumed |-> FALSE]]
             /\ Go(c, "keep")
    <3>1. call'[c].stage = "keep"
      BY <1>3, <2>2 DEF Stage
    <3>2. QED
      BY <1>1, <1>7, <2>2, <3>1 DEF Reserve, Effect, stored, history
  <2>3. CASE /\ Known(N(c)) # NoEntry /\ Hydrate(N(c))
             /\ IF Bound(Known(N(c)), K(c)) THEN Go(c, "refresh") ELSE Answer(c)
    <3>1. IF Bound(Known(N(c)), K(c)) THEN call'[c].stage = "refresh" ELSE call'[c].stage = "idle"
      BY <1>3, <1>4, <2>3 DEF Stage
    <3>2. QED
      BY <1>1, <1>7, <2>3, <3>1 DEF Reserve, Effect, stored, history, Hydrate, Bound
  <2>4. QED
    BY <1>7, <2>1, <2>2, <2>3 DEF Reserve
<1>8. CASE KeepReservation(c)
  <2>1. CASE Upsert(N(c), [key |-> K(c), consumed |-> FALSE]) /\ Go(c, "run")
    BY <1>1, <1>2, <1>3, <1>5, <1>8, <2>1 DEF KeepReservation, Effect, history, Stage
  <2>2. CASE Go(c, "undo") /\ UNCHANGED ledgerRow
    BY <1>1, <1>3, <1>8, <2>2 DEF KeepReservation, Effect, history, Stage
  <2>3. QED
    BY <1>8, <2>1, <2>2 DEF KeepReservation
<1>9. CASE RefreshReservation(c)
  BY <1>1, <1>2, <1>5, <1>9 DEF RefreshReservation, Effect, history
<1>10. CASE SpendNonce(c)
  BY <1>1, <1>2, <1>5, <1>10 DEF SpendNonce, Effect, history
<1>11. CASE Undo(c)
  BY <1>1, <1>4, <1>11 DEF Undo, Effect, history, stored
<1>12. CASE RunTool(c)
  BY <1>1, <1>12 DEF RunTool, Effect, stored
<1>13. CASE CommitNonce(c)
  BY <1>1, <1>13 DEF CommitNonce, Effect, stored, history
<1>14. CASE /\ UNCHANGED <<ledger, ledgerRow, ran>>
            /\ call[c].stage \in {"queued", "lookup", "verify", "cache", "save", "settle", "mark"}
  BY <1>14 DEF Effect
<1>15. QED
  BY <1>6, <1>7, <1>8, <1>9, <1>10, <1>11, <1>12, <1>13, <1>14
  DEF Step, ReplayCached, Verify, CacheOutcome, SaveOutcome, Settled, SettleFails, MarkSettled,
      Lock, stored, history

(* What a step of a call does to the outcomes and to the record of them.    *)
OutcomeEffect(c) ==
  LET n == call[c].n  k == call[c].k  from == call[c].stage  to == call'[c].stage
      got == call[c].got  o == outcome[<<n, k>>]  r == outcomeRow[<<n, k>>] IN
  /\ \A m \in Nonce, j \in Req : m # n \/ j # k =>
       outcome'[<<m, j>>] = outcome[<<m, j>>] /\ outcomeRow'[<<m, j>>] = outcomeRow[<<m, j>>]
  /\ from # "cache" /\ from # "mark" => outcome'[<<n, k>>] = o
  /\ from # "save" /\ from # "mark" => outcomeRow'[<<n, k>>] = r
  /\ from = "lookup" => /\ to = "classify" => o = "none" /\ call'[c].got = got
                        /\ to = "settle" => o = "pending" /\ call'[c].got = "pending"
  /\ from = "run" => to = "cache" /\ call'[c].got \in {"pending", "failed"}
  /\ from = "cache" => IF o = "none" THEN outcome'[<<n, k>>] = got /\ to = "save"
                       ELSE outcome'[<<n, k>>] = o
  /\ from = "save" => /\ "save" \in Drift \/ outcomeRow'[<<n, k>>] = got
                      /\ outcomeRow'[<<n, k>>] \in {r, got}
                      /\ to = IF got = "pending" THEN "settle" ELSE "idle"
  /\ from = "mark" =>
       \/ /\ to = "cache" /\ o = "none" /\ call'[c].got = "settled"
          /\ outcome'[<<n, k>>] = o /\ outcomeRow'[<<n, k>>] = r
       \/ to = "idle" /\ o # "none" /\ outcome'[<<n, k>>] = "settled" /\ outcomeRow'[<<n, k>>] \in {r, "settled"}
  /\ from \notin {"lookup", "run", "mark"} /\ to # "idle" => call'[c].got = got

LEMMA StepOutcome ==
  ASSUME PaidTypeOK, NEW c \in Call, Step(c) \/ Lock(c)
  PROVE  OutcomeEffect(c)
<1>1. /\ Frame(c) /\ N(c) = call[c].n /\ K(c) = call[c].k /\ Key(c) = <<call[c].n, call[c].k>>
      /\ call[c].n \in Nonce /\ call[c].k \in Req
      /\ outcome \in [Nonce \X Req -> Outcome] /\ outcomeRow \in [Nonce \X Req -> Outcome]
  BY StepFrame DEF Frame, PaidTypeOK, N, K, Key
<1>2. ASSUME NEW f, NEW g, f \in [Nonce \X Req -> Outcome], NEW x,
             g = [f EXCEPT ![Key(c)] = x]
      PROVE  /\ \A m \in Nonce, j \in Req : m # call[c].n \/ j # call[c].k => g[<<m, j>>] = f[<<m, j>>]
             /\ g[<<call[c].n, call[c].k>>] = x
  BY <1>1, <1>2
<1>3. ASSUME NEW s \in Stage, Go(c, s) PROVE call'[c].stage = s /\ call'[c].got = call[c].got
  BY <1>1, <1>3, GoStep DEF Frame
<1>4. ASSUME Answer(c) PROVE call'[c].stage = "idle"
  BY <1>1, <1>4, AnswerStep DEF Frame
<1>5. ASSUME NEW s \in Stage, NEW g \in Outcome, GoWith(c, s, g)
      PROVE  call'[c].stage = s /\ call'[c].got = g
  BY <1>1, <1>5, GoWithStep DEF Frame
<1>. USE DEF At, Stage, Outcome
<1>6. CASE ReplayCached(c)
  <2>1. UNCHANGED <<outcome, outcomeRow>> /\ call[c].stage = "lookup"
    BY <1>6 DEF ReplayCached, stored
  <2>2. \/ outcome[Key(c)] = "none" /\ Go(c, "classify")
        \/ outcome[Key(c)] = "pending" /\ GoWith(c, "settle", "pending")
        \/ Answer(c)
    BY <1>6 DEF ReplayCached, GoWith
  <2>3. /\ call'[c].stage = "classify" => outcome[Key(c)] = "none" /\ call'[c].got = call[c].got
        /\ call'[c].stage = "settle" => outcome[Key(c)] = "pending" /\ call'[c].got = "pending"
    BY <1>3, <1>4, <1>5, <2>2
  <2>4. QED
    BY <1>1, <2>1, <2>3 DEF OutcomeEffect
<1>7. CASE RunTool(c)
  <2>1. PICK g \in {"pending", "failed"} : GoWith(c, "cache", g)
    BY <1>7 DEF RunTool, GoWith
  <2>2. QED
    BY <1>1, <1>5, <1>7, <2>1 DEF RunTool, OutcomeEffect, stored
<1>8. CASE CacheOutcome(c)
  <2>1. UNCHANGED outcomeRow /\ call[c].stage = "cache"
    BY <1>8 DEF CacheOutcome, stored
  <2>2. CASE outcome[Key(c)] = "none"
    <3>1. outcome' = [outcome EXCEPT ![Key(c)] = call[c].got] /\ Go(c, "save")
      BY <1>8, <2>2 DEF CacheOutcome
    <3>2. QED
      BY <1>1, <1>2, <1>3, <2>1, <2>2, <3>1 DEF OutcomeEffect
  <2>3. CASE outcome[Key(c)] # "none"
    <3>1. UNCHANGED outcome /\ (Go(c, "settle") \/ Answer(c))
      BY <1>8, <2>3 DEF CacheOutcome, Proceed
    <3>2. QED
      BY <1>1, <1>3, <1>4, <2>1, <2>3, <3>1 DEF OutcomeEffect
  <2>4. QED
    BY <2>2, <2>3
<1>9. CASE SaveOutcome(c)
  <2>1. UNCHANGED outcome /\ call[c].stage = "save"
    BY <1>9 DEF SaveOutcome
  <2>2. call'[c].stage = IF call[c].got = "pending" THEN "settle" ELSE "idle"
    BY <1>3, <1>4, <1>9 DEF SaveOutcome, Proceed
  <2>3. call'[c].stage # "idle" => call'[c].got = call[c].got
    BY <1>3, <1>4, <1>9 DEF SaveOutcome, Proceed
  <2>4. CASE outcomeRow' = [outcomeRow EXCEPT ![Key(c)] = call[c].got]
    BY <1>1, <1>2, <2>1, <2>2, <2>3, <2>4 DEF OutcomeEffect
  <2>5. CASE "save" \in Drift /\ UNCHANGED outcomeRow
    BY <1>1, <2>1, <2>2, <2>3, <2>5 DEF OutcomeEffect
  <2>6. QED
    BY <1>9, <2>4, <2>5 DEF SaveOutcome
<1>10. CASE MarkSettled(c)
  <2>1. call[c].stage = "mark"
    BY <1>10 DEF MarkSettled
  <2>2. CASE outcome[Key(c)] = "none"
    <3>1. GoWith(c, "cache", "settled") /\ UNCHANGED <<outcome, outcomeRow>>
      BY <1>10, <2>2 DEF MarkSettled, GoWith
    <3>2. QED
      BY <1>1, <1>5, <2>1, <2>2, <3>1 DEF OutcomeEffect
  <2>3. CASE outcome[Key(c)] # "none"
    <3>1. /\ outcome' = [outcome EXCEPT ![Key(c)] = "settled"]
          /\ outcomeRow' = [outcomeRow EXCEPT ![Key(c)] = "settled"] \/ UNCHANGED outcomeRow
          /\ Answer(c)
      BY <1>10, <2>3 DEF MarkSettled
    <3>2. QED
      BY <1>1, <1>2, <1>4, <2>1, <2>3, <3>1 DEF OutcomeEffect
  <2>4. QED
    BY <2>2, <2>3
<1>11. ASSUME UNCHANGED <<outcome, outcomeRow>>,
              call[c].stage \notin {"lookup", "run", "cache", "save", "mark"},
              Answer(c) \/ \E s \in Stage : Go(c, s)
       PROVE  OutcomeEffect(c)
  BY <1>1, <1>3, <1>4, <1>11 DEF OutcomeEffect
<1>12. QED
  BY <1>6, <1>7, <1>8, <1>9, <1>10, <1>11
  DEF Step, Classify, Verify, Reserve, KeepReservation, Undo, RefreshReservation, Settled,
      SettleFails, CommitNonce, SpendNonce, Lock, stored
-----------------------------------------------------------------------------
(* The ledger's invariant over a step of a call *)

LEMMA EntryFacts ==
  ASSUME PaidTypeOK, NEW n \in Nonce
  PROVE  /\ ledger[n] \in Entry /\ ledgerRow[n] \in Entry /\ Known(n) \in Entry
         /\ \A e \in Entry : (e.consumed => e.key \in Req) /\ e # NoEntry => e.key \in Req
         /\ ledger[n] # NoEntry => ledger[n].key \in Req
         /\ ledgerRow[n] # NoEntry => ledgerRow[n].key \in Req
         /\ NoEntry.key = Nobody /\ ~NoEntry.consumed
<1>1. /\ ledger[n] \in Entry /\ ledgerRow[n] \in Entry
      /\ ledger[n].consumed => ledger[n].key \in Req
      /\ ledgerRow[n].consumed => ledgerRow[n].key \in Req
  BY DEF PaidTypeOK
<1>2. ASSUME NEW e \in Entry, e.consumed => e.key \in Req, e # NoEntry PROVE e.key \in Req
  <2>1. CASE e.key \in Req
    BY <2>1
  <2>2. CASE e.key = Nobody /\ ~e.consumed
    BY <1>2, <2>2 DEF Entry, NoEntry
  <2>3. QED
    BY <1>2, <2>1, <2>2 DEF Entry
<1>3. QED
  BY <1>1, <1>2 DEF Known, NoEntry

LEMMA LocksStep ==
  ASSUME PaidTypeOK, Locks, NEW c \in Call, Step(c) \/ Lock(c)
  PROVE  Locks'
<1>1. Frame(c)
  BY StepFrame
<1>2. ASSUME NEW d \in Call, d # c, Holds(c)', Holds(d)', Key(c)' = Key(d)' PROVE FALSE
  <2>1. Holds(d) /\ Key(d) = Key(c) /\ call'[c].stage \notin {"idle", "queued"}
    BY <1>1, <1>2, Nobodies DEF Frame, Onward, Holds, Key, N, K
  <2>2. CASE call[c].stage = "queued"
    <3>1. Lock(c)
      BY <2>2 DEF Step, ReplayCached, Classify, Verify, Reserve, KeepReservation, Undo,
         RefreshReservation, RunTool, CacheOutcome, SaveOutcome, Settled, SettleFails,
         CommitNonce, SpendNonce, MarkSettled, At
    <3>2. QED
      BY <2>1, <3>1 DEF Lock
  <2>3. CASE call[c].stage # "queued"
    <3>1. Holds(c)
      BY <1>1, <2>3 DEF Frame, Holds
    <3>2. QED
      BY <1>2, <2>1, <3>1 DEF Locks
  <2>4. QED
    BY <2>2, <2>3
<1>3. ASSUME NEW d \in Call, NEW e \in Call, Holds(d)', Holds(e)', Key(d)' = Key(e)', d # e PROVE FALSE
  <2>1. CASE d # c /\ e # c
    BY <1>1, <1>3, <2>1 DEF Frame, Locks, Holds, Key, N, K
  <2>2. QED
    BY <1>2, <1>3, <2>1
<1>4. QED
  BY <1>3 DEF Locks

(* The claims on a nonce grow only when c reserves it.                      *)
LEMMA ClaimStep ==
  ASSUME PaidTypeOK, NEW c \in Call, Step(c) \/ Lock(c), NEW m \in Nonce, NEW j \in Req
  PROVE  /\ Firm(m, j)' => \/ Firm(m, j)
                           \/ /\ m = call[c].n /\ j = call[c].k
                              /\ <<call[c].stage, call'[c].stage>> \in {<<"keep", "run">>, <<"reserve", "refresh">>}
         /\ Claim(m, j)' => \/ Claim(m, j)
                            \/ /\ m = call[c].n /\ j = call[c].k /\ call[c].stage = "reserve"
                               /\ call'[c].stage \in {"keep", "refresh"}
<1>1. Frame(c) /\ Effect(c)
  BY StepFrame, StepEffect
<1>2. j \in ran'[m] => j \in ran[m] \/ (m = call[c].n /\ j = call[c].k /\ call[c].stage = "run")
  BY <1>1 DEF Effect, PaidTypeOK
<1>3. call[c].stage = "run" => Firm(call[c].n, call[c].k)
  BY DEF Firm, Stages, N, K
<1>4. ASSUME NEW d \in Call, d # c PROVE call'[d] = call[d]
  BY <1>1, <1>4 DEF Frame
<1>5. call'[c].n = m /\ call'[c].k = j /\ call'[c].stage \in {"refresh", "run", "keep"}
        => /\ m = call[c].n /\ j = call[c].k
           /\ call'[c].stage = "run" => call[c].stage \in {"keep", "refresh"}
           /\ call'[c].stage = "refresh" => call[c].stage = "reserve"
           /\ call'[c].stage = "keep" => call[c].stage = "reserve"
  BY <1>1, Nobodies DEF Frame, Onward, Follows
<1>6. QED
  BY <1>2, <1>3, <1>4, <1>5 DEF Firm, Claim, Stages, At, N, K

(* A claim that c's reservation would add is one of c's own request.        *)
LEMMA ReserveClaims ==
  ASSUME PaidTypeOK, LedgerInv, NEW c \in Call, Step(c) \/ Lock(c),
         call[c].stage = "reserve", call'[c].stage \in {"keep", "refresh"}
  PROVE  /\ \A j \in Req : Claim(call[c].n, j) => j = call[c].k
         /\ call'[c].stage = "keep" => ledger[call[c].n] = NoEntry /\ ledgerRow[call[c].n] = NoEntry
         /\ call'[c].stage = "refresh" => ledgerRow[call[c].n].key = call[c].k
<1>. DEFINE n == call[c].n
            k == call[c].k
<1>1. Frame(c) /\ Effect(c) /\ n \in Nonce /\ k \in Req
  BY StepFrame, StepEffect DEF Frame
<1>2. ~Over(n)
  BY DEF Over, N, At
<1>3. \A j \in Req : Firm(n, j) => ledgerRow[n].key = j /\ ledgerRow[n] # NoEntry
  BY <1>1, <1>2, EntryFacts, Nobodies DEF LedgerInv, Backed
<1>4. ASSUME NEW d \in Call, N(d) = n, Stages(d, {"keep", "undo"})
      PROVE  ledger[n] = [key |-> K(d), consumed |-> FALSE] /\ ledgerRow[n] = NoEntry
             /\ K(d) \in Req /\ K(d) # k /\ ledger[n] # NoEntry /\ ledger[n].key = K(d)
  <2>1. ledger[n] = [key |-> K(d), consumed |-> FALSE] /\ ledgerRow[n] = NoEntry
    BY <1>2, <1>4 DEF LedgerInv, Fresh
  <2>2. K(d) \in Req
    BY <1>4 DEF PaidTypeOK, Stages, K
  <2>3. K(d) # k
    BY <1>1, <1>4 DEF LedgerInv, Locks, Holds, Stages, Key, N, K
  <2>4. QED
    BY <2>1, <2>2, <2>3, Nobodies DEF NoEntry
<1>5. CASE call'[c].stage = "keep"
  <2>1. ledger[n] = NoEntry /\ ledgerRow[n] = NoEntry
    BY <1>1, <1>5 DEF Effect, Known
  <2>2. QED
    BY <1>3, <1>4, <1>5, <2>1 DEF Claim, Stages, At
<1>6. CASE call'[c].stage = "refresh"
  <2>1. Known(n).key = k
    BY <1>1, <1>6 DEF Effect
  <2>2. ~\E d \in Call : N(d) = n /\ Stages(d, {"keep", "undo"})
    BY <1>4, <2>1 DEF Known
  <2>3. ledgerRow[n].key = k
    BY <1>1, <1>2, <2>1, <2>2 DEF Known, LedgerInv, Shadow
  <2>4. QED
    BY <1>3, <1>6, <2>2, <2>3 DEF Claim, Stages, At
<1>7. QED
  BY <1>5, <1>6

LEMMA LedgerStep ==
  ASSUME PaidTypeOK, PaidTypeOK', LedgerInv, [Next]_vars, NEW c \in Call, Step(c) \/ Lock(c)
  PROVE  LedgerInv'
<1>. DEFINE n == call[c].n
            k == call[c].k
<1>1. Frame(c) /\ Effect(c) /\ OutcomeEffect(c) /\ n \in Nonce /\ k \in Req
  BY StepFrame, StepEffect, StepOutcome DEF Frame
<1>2. \A m \in Nonce : ~Over(m)' => ~Over(m)
  BY OverStays
<1>3. Locks'
  BY LocksStep DEF LedgerInv
<1>4. OneClaim'
  <2>1. ASSUME NEW m \in Nonce, NEW i \in Req, NEW j \in Req, Claim(m, i)', Claim(m, j)'
        PROVE  i = j
    BY <1>1, <2>1, ClaimStep, ReserveClaims DEF LedgerInv, OneClaim
  <2>2. QED
    BY <2>1 DEF OneClaim
<1>5. call[c].stage \in After => Firm(n, k)
  BY <1>1 DEF LedgerInv, HasRun, Stages, Firm, N, K
<1>6. call[c].stage \in {"keep", "undo"} /\ ~Over(n)
        => ledger[n] = [key |-> k, consumed |-> FALSE] /\ ledgerRow[n] = NoEntry
  BY <1>1 DEF LedgerInv, Fresh, Stages, N, K
<1>7. call[c].stage \in {"refresh"} \cup After /\ ~Over(n) => ledgerRow[n].key = k
  <2>1. call[c].stage = "refresh" => Firm(n, k)
    BY DEF Firm, Stages, N, K
  <2>2. QED
    BY <1>1, <1>5, <2>1 DEF LedgerInv, Backed
<1>8. ASSUME NEW m \in Nonce, ~Over(m), NEW j \in Req, Firm(m, j) PROVE ledgerRow[m].key = j
  BY <1>8 DEF LedgerInv, Backed
<1>9. Backed'
  <2>1. ASSUME NEW m \in Nonce, ~Over(m)', NEW j \in Req, Firm(m, j)' PROVE ledgerRow'[m].key = j
    <3>1. ~Over(m)
      BY <1>2, <2>1
    <3>2. CASE Firm(m, j)
      <4>1. ledgerRow[m].key = j
        BY <1>8, <3>1, <3>2
      <4>2. CASE m # n \/ ledgerRow'[n] = ledgerRow[n]
        BY <1>1, <4>1, <4>2 DEF Effect
      <4>3. CASE /\ m = n /\ call[c].stage \in {"keep", "refresh", "spend"}
                 /\ ledgerRow'[n].key = k
        <5>1. call[c].stage # "keep"
          BY <1>6, <3>1, <4>1, <4>3, Nobodies DEF NoEntry
        <5>2. QED
          BY <1>7, <3>1, <4>1, <4>3, <5>1 DEF After
      <4>4. QED
        BY <1>1, <4>2, <4>3 DEF Effect
    <3>3. CASE /\ m = n /\ j = k
               /\ <<call[c].stage, call'[c].stage>> \in {<<"keep", "run">>, <<"reserve", "refresh">>}
      <4>1. CASE call[c].stage = "keep" /\ call'[c].stage = "run"
        BY <1>1, <1>6, <3>1, <3>3, <4>1 DEF Effect, NoEntry
      <4>2. CASE call[c].stage = "reserve" /\ call'[c].stage = "refresh"
        BY <1>1, <3>3, <4>2, ReserveClaims DEF Effect
      <4>3. QED
        BY <3>3, <4>1, <4>2
    <3>4. QED
      BY <2>1, <3>2, <3>3, ClaimStep
  <2>2. QED
    BY <2>1 DEF Backed
<1>10. Fresh'
  <2>1. ASSUME NEW d \in Call, Stages(d, {"keep", "undo"})', ~Over(N(d))'
        PROVE  ledger'[N(d)'] = [key |-> K(d)', consumed |-> FALSE] /\ ledgerRow'[N(d)'] = NoEntry
    <3>1. CASE d = c
      <4>1. call[c].stage \in {"reserve", "keep"} /\ N(d)' = n /\ K(d)' = k
            /\ <<call[c].stage, call'[c].stage>> \in {<<"reserve", "keep">>, <<"keep", "undo">>}
        BY <1>1, <2>1, <3>1 DEF Frame, Onward, Follows, Stages, N, K
      <4>2. CASE call[c].stage = "reserve"
        BY <1>1, <4>1, <4>2, <3>1, ReserveClaims DEF Effect
      <4>3. CASE call[c].stage = "keep" /\ call'[c].stage = "undo"
        <5>1. ledgerRow'[n] = ledgerRow[n]
          BY <1>1, <4>3 DEF Effect
        <5>2. QED
          BY <1>1, <1>2, <1>6, <2>1, <4>1, <4>3, <5>1 DEF Effect
      <4>4. QED
        BY <4>1, <4>2, <4>3
    <3>2. CASE d # c
      <4>1. N(d)' = N(d) /\ K(d)' = K(d) /\ Stages(d, {"keep", "undo"}) /\ N(d) \in Nonce /\ K(d) \in Req
        BY <1>1, <2>1, <3>2 DEF Frame, Stages, N, K, PaidTypeOK
      <4>2. ~Over(N(d))
        BY <1>2, <2>1, <4>1 DEF Over, N
      <4>3. ledger[N(d)] = [key |-> K(d), consumed |-> FALSE] /\ ledgerRow[N(d)] = NoEntry
            /\ ledger[N(d)] # NoEntry
        <5>1. ledger[N(d)] = [key |-> K(d), consumed |-> FALSE] /\ ledgerRow[N(d)] = NoEntry
          BY <4>1, <4>2 DEF LedgerInv, Fresh
        <5>2. QED
          BY <4>1, <5>1, Nobodies DEF NoEntry
      <4>4. CASE N(d) # n
        BY <1>1, <4>1, <4>3, <4>4 DEF Effect
      <4>5. CASE N(d) = n
        <5>1. call[c].stage \notin {"keep", "undo"}
          <6>1. ASSUME call[c].stage \in {"keep", "undo"} PROVE FALSE
            <7>1. k = K(d)
              BY <1>6, <4>2, <4>3, <4>5, <6>1
            <7>2. QED
              BY <3>2, <4>1, <4>5, <6>1, <7>1 DEF LedgerInv, Locks, Holds, Stages, Key, N, K
          <6>2. QED
            BY <6>1
        <5>2. call[c].stage \notin {"refresh"} \cup After
          BY <1>1, <1>7, <4>2, <4>3, <4>5, Nobodies DEF NoEntry
        <5>3. Known(n) = ledger[n]
          BY <4>3, <4>5 DEF Known
        <5>4. call'[c].stage # "keep"
          BY <1>1, <4>3, <4>5, ReserveClaims DEF Frame, Onward, Follows
        <5>5. ledger'[n] = ledger[n] /\ ledgerRow'[n] = ledgerRow[n]
          BY <1>1, <5>1, <5>2, <5>3, <5>4 DEF Effect, After
        <5>6. QED
          BY <4>1, <4>3, <4>5, <5>5
      <4>6. QED
        BY <4>4, <4>5
    <3>3. QED
      BY <3>1, <3>2
  <2>2. QED
    BY <2>1 DEF Fresh
<1>11. Shadow'
  <2>1. ASSUME NEW m \in Nonce, ~Over(m)', ledger'[m] # NoEntry,
               \A d \in Call : ~(N(d)' = m /\ Stages(d, {"keep", "undo"})')
        PROVE  ledgerRow'[m].key = ledger'[m].key
    <3>1. ~Over(m)
      BY <1>2, <2>1
    <3>2. \A d \in Call : N(d) = m /\ Stages(d, {"keep", "undo"}) => d = c
      BY <1>1, <2>1 DEF Frame, Stages, N
    <3>3. CASE m # n
      <4>1. ledger'[m] = ledger[m] /\ ledgerRow'[m] = ledgerRow[m]
        BY <1>1, <3>3 DEF Effect
      <4>2. ~\E d \in Call : N(d) = m /\ Stages(d, {"keep", "undo"})
        BY <3>2, <3>3 DEF N
      <4>3. QED
        BY <2>1, <3>1, <4>1, <4>2 DEF LedgerInv, Shadow
    <3>4. CASE m = n /\ call[c].stage \in {"keep", "undo"}
      <4>1. ledger[n] = [key |-> k, consumed |-> FALSE] /\ ledgerRow[n] = NoEntry
        BY <1>6, <3>1, <3>4
      <4>2. CASE call[c].stage = "undo"
        BY <1>1, <2>1, <3>4, <4>1, <4>2 DEF Effect, Bound
      <4>3. CASE call[c].stage = "keep"
        <5>1. call'[c].stage # "undo"
          <6>1. ASSUME call'[c].stage = "undo" PROVE FALSE
            BY <1>1, <2>1, <3>4, <6>1 DEF Frame, Onward, Stages, N
          <6>2. QED
            BY <6>1
        <5>2. QED
          BY <1>1, <3>4, <4>1, <4>3, <5>1 DEF Effect, NoEntry
      <4>4. QED
        BY <3>4, <4>2, <4>3
    <3>5. CASE m = n /\ call[c].stage \notin {"keep", "undo"}
      <4>1. ledger[n] # NoEntry => ledgerRow[n].key = ledger[n].key
        BY <1>1, <3>1, <3>2, <3>5 DEF LedgerInv, Shadow, Stages
      <4>2. Known(n) = ledger[n] \/ Known(n) = ledgerRow[n]
        BY DEF Known
      <4>3. call'[c].stage # "keep"
        <5>1. ASSUME call'[c].stage = "keep" PROVE FALSE
          BY <1>1, <2>1, <3>5, <5>1 DEF Frame, Onward, Stages, N
        <5>2. QED
          BY <5>1
      <4>4. CASE call[c].stage = "commit"
        <5>1. ledgerRow'[n] = ledgerRow[n] /\ ledgerRow[n].key = k
          BY <1>1, <1>7, <3>1, <3>5, <4>4 DEF Effect, After
        <5>2. QED
          BY <1>1, <3>5, <4>1, <4>4, <5>1 DEF Effect
      <4>5. CASE call[c].stage \in {"classify", "reserve"}
        <5>1. ledgerRow'[n] = ledgerRow[n] /\ ledger'[n] \in {ledger[n], Known(n)}
          BY <1>1, <4>3, <4>5 DEF Effect
        <5>2. QED
          BY <2>1, <3>5, <4>1, <4>2, <5>1
      <4>6. CASE call[c].stage \notin {"commit", "classify", "reserve"}
        <5>1. ledger'[n] = ledger[n]
          BY <1>1, <3>5, <4>6 DEF Effect
        <5>2. ledgerRow'[n].key = ledgerRow[n].key
          BY <1>1, <1>7, <3>1, <3>5 DEF Effect, After
        <5>3. QED
          BY <2>1, <3>5, <4>1, <5>1, <5>2
      <4>7. QED
        BY <4>4, <4>5, <4>6
    <3>6. QED
      BY <3>3, <3>4, <3>5
  <2>2. QED
    BY <2>1 DEF Shadow
<1>12. HasRun'
  <2>1. ran[n] \subseteq ran'[n] /\ \A m \in Nonce : ran[m] \subseteq ran'[m]
    BY <1>1 DEF Effect
  <2>2. ASSUME NEW d \in Call, Stages(d, After)' PROVE K(d)' \in ran'[N(d)']
    <3>1. CASE d # c
      <4>1. Stages(d, After) /\ K(d)' = K(d) /\ N(d)' = N(d) /\ N(d) \in Nonce
        BY <1>1, <2>2, <3>1 DEF Frame, Stages, After, K, N, PaidTypeOK
      <4>2. QED
        BY <2>1, <4>1 DEF LedgerInv, HasRun
    <3>2. CASE d = c
      <4>1. /\ K(d)' = k /\ N(d)' = n
            /\ call[c].stage \in After \cup {"run"} \/ <<call[c].stage, call'[c].stage>> = <<"lookup", "settle">>
        BY <1>1, <2>2, <3>2 DEF Frame, Onward, Follows, Stages, After, K, N
      <4>2. CASE call[c].stage \in After
        BY <2>1, <4>1, <4>2 DEF LedgerInv, HasRun, Stages, K, N
      <4>3. CASE call[c].stage = "run"
        BY <1>1, <4>1, <4>3 DEF Effect
      <4>4. CASE <<call[c].stage, call'[c].stage>> = <<"lookup", "settle">>
        <5>1. outcome[<<n, k>>] = "pending"
          BY <1>1, <4>4 DEF OutcomeEffect
        <5>2. QED
          BY <1>1, <2>1, <4>1, <5>1 DEF LedgerInv, HasRun
      <4>5. QED
        BY <4>1, <4>2, <4>3, <4>4
    <3>3. QED
      BY <3>1, <3>2
  <2>3. ASSUME NEW m \in Nonce, NEW j \in Req, outcome'[<<m, j>>] # "none" \/ outcomeRow'[<<m, j>>] # "none"
        PROVE  j \in ran'[m]
    <3>1. CASE m = n /\ j = k /\ call[c].stage \in After
      BY <2>1, <3>1 DEF LedgerInv, HasRun, Stages, K, N
    <3>2. CASE ~(m = n /\ j = k /\ call[c].stage \in After)
      <4>1. outcome'[<<m, j>>] = outcome[<<m, j>>] /\ outcomeRow'[<<m, j>>] = outcomeRow[<<m, j>>]
        BY <1>1, <3>2 DEF OutcomeEffect, After
      <4>2. QED
        BY <2>1, <2>3, <4>1 DEF LedgerInv, HasRun
    <3>3. QED
      BY <3>1, <3>2
  <2>4. QED
    BY <2>2, <2>3 DEF HasRun
<1>13. QED
  BY <1>3, <1>4, <1>9, <1>10, <1>11, <1>12 DEF LedgerInv

-----------------------------------------------------------------------------
(* The ledger's invariant over the other steps *)

LEMMA LedgerOther ==
  ASSUME PaidTypeOK, PaidTypeOK', LedgerInv, [Next]_vars, "evict" \notin Drift,
         ~\E c \in Call : Step(c) \/ Lock(c)
  PROVE  LedgerInv'
<1>1. \A m \in Nonce : ~Over(m)' => ~Over(m)
  BY OverStays
<1>. USE DEF LedgerInv, Locks, OneClaim, Backed, Fresh, Shadow, HasRun, Firm, Claim, Stages, At, N, K,
             Holds, Key
<1>2. ASSUME NEW c \in Call, NEW n \in Nonce, NEW k \in Req, ToolsCall(c, n, k) PROVE LedgerInv'
  <2>1. /\ call[c].stage = "idle" /\ call'[c].stage = "queued"
        /\ \A d \in Call : d # c => call'[d] = call[d]
        /\ UNCHANGED <<ledger, ledgerRow, outcome, outcomeRow, ran>>
    BY <1>2 DEF ToolsCall, stored, history, PaidTypeOK
  <2>2. \A d \in Call : \/ call'[d] = call[d]
                        \/ call[d].stage = "idle" /\ call'[d].stage = "queued"
    BY <2>1
  <2>3. Locks' /\ OneClaim'
    BY <2>1, <2>2
  <2>4. Backed'
    BY <1>1, <2>1, <2>2
  <2>5. Fresh'
    <3>1. ASSUME NEW d \in Call, Stages(d, {"keep", "undo"})', ~Over(N(d))'
          PROVE  ledger'[N(d)'] = [key |-> K(d)', consumed |-> FALSE] /\ ledgerRow'[N(d)'] = NoEntry
      <4>1. call'[d] = call[d] /\ call[d].stage \in {"keep", "undo"} /\ call[d].n \in Nonce
        BY <2>2, <3>1 DEF PaidTypeOK
      <4>2. ~Over(N(d))
        BY <1>1, <3>1, <4>1 DEF Over
      <4>3. QED
        BY <2>1, <4>1, <4>2
    <3>2. QED
      BY <3>1
  <2>6. Shadow'
    BY <1>1, <2>1, <2>2
  <2>7. HasRun'
    BY <2>1, <2>2 DEF After
  <2>8. QED
    BY <2>3, <2>4, <2>5, <2>6, <2>7
<1>3. ASSUME UNCHANGED <<call, ledger, ledgerRow, ran, shut>>,
             \A m \in Nonce, k \in Req : /\ outcome'[<<m, k>>] \in {outcome[<<m, k>>], "none"}
                                         /\ outcomeRow'[<<m, k>>] \in {outcomeRow[<<m, k>>], "none"}
      PROVE  LedgerInv'
  BY <1>3 DEF After, Over
<1>4. ASSUME NEW n \in Nonce, Shut(n) PROVE LedgerInv'
  <2>1. UNCHANGED <<call, ledger, ledgerRow, outcome, outcomeRow, ran>>
    BY <1>4 DEF Shut, stored, history
  <2>2. Fresh'
    <3>1. \A d \in Call : call[d].stage # "idle" => call[d].n \in Nonce
      BY DEF PaidTypeOK
    <3>2. QED
      BY <1>1, <2>1, <3>1 DEF Over
  <2>3. QED
    BY <1>1, <2>1, <2>2 DEF After
<1>5. ASSUME NEW n \in Nonce, Evict(n) PROVE LedgerInv'
  <2>1. /\ ledgerRow[n] # NoEntry /\ ledger' = [ledger EXCEPT ![n] = NoEntry]
        /\ UNCHANGED <<call, ledgerRow, outcome, outcomeRow, ran, shut>>
    BY <1>5 DEF Evict, stored, history
  <2>2. ledger'[n] = NoEntry /\ \A m \in Nonce : m # n => ledger'[m] = ledger[m]
    BY <2>1 DEF PaidTypeOK
  <2>3. Fresh'
    <3>1. ASSUME NEW d \in Call, Stages(d, {"keep", "undo"}), ~Over(N(d))
          PROVE  ledger'[N(d)] = [key |-> K(d), consumed |-> FALSE] /\ ledgerRow[N(d)] = NoEntry
      <4>1. N(d) \in Nonce /\ ledgerRow[N(d)] = NoEntry /\ ledger[N(d)] = [key |-> K(d), consumed |-> FALSE]
        BY <3>1 DEF PaidTypeOK
      <4>2. QED
        BY <2>1, <2>2, <4>1
    <3>2. QED
      BY <2>1, <3>1 DEF Over
  <2>4. Shadow'
    BY <2>1, <2>2 DEF Over
  <2>5. QED
    BY <2>1, <2>3, <2>4 DEF After, Over
<1>6. ASSUME NEW n \in Nonce, ExpireLedger(n) PROVE LedgerInv'
  <2>1. Over(n) /\ UNCHANGED <<call, outcome, outcomeRow, ran, shut>>
    BY <1>6 DEF ExpireLedger, Expirable, Over, history
  <2>2. \A m \in Nonce : m # n => ledger'[m] = ledger[m] /\ ledgerRow'[m] = ledgerRow[m]
    BY <1>6 DEF ExpireLedger, PaidTypeOK
  <2>3. \A m \in Nonce : ~Over(m)' => m # n /\ ~Over(m)
    BY <1>1, <2>1
  <2>4. Fresh'
    <3>1. \A d \in Call : call[d].stage # "idle" => call[d].n \in Nonce
      BY DEF PaidTypeOK
    <3>2. QED
      BY <2>1, <2>2, <2>3, <3>1 DEF Over
  <2>5. Backed' /\ Shadow'
    BY <2>1, <2>2, <2>3
  <2>6. QED
    BY <2>1, <2>4, <2>5 DEF After
<1>7. ASSUME NEW n \in Nonce, NEW k \in Req, ExpireOutcome(n, k) PROVE LedgerInv'
  <2>1. \A nk \in Nonce \X Req : /\ outcome'[nk] \in {outcome[nk], "none"}
                                 /\ outcomeRow'[nk] \in {outcomeRow[nk], "none"}
    <3>1. outcome \in [Nonce \X Req -> Outcome] /\ outcomeRow \in [Nonce \X Req -> Outcome]
      BY DEF PaidTypeOK
    <3>2. ASSUME NEW f, f \in [Nonce \X Req -> Outcome], NEW nk \in Nonce \X Req
          PROVE  [f EXCEPT ![<<n, k>>] = "none"][nk] \in {f[nk], "none"}
      BY <3>2
    <3>3. QED
      BY <1>7, <3>1, <3>2 DEF ExpireOutcome
  <2>2. UNCHANGED <<call, ledger, ledgerRow, ran, shut>>
    BY <1>7 DEF ExpireOutcome, history
  <2>3. QED
    BY <1>3, <2>1, <2>2
<1>8. CASE Restart
  <2>1. /\ \A c \in Call : call'[c].stage = "idle"
        /\ UNCHANGED <<ledgerRow, outcomeRow, ran>>
        /\ \A n \in Nonce : ledger'[n] = ledgerRow[n] \/ ledger'[n] = NoEntry
        /\ \A n \in Nonce, k \in Req : outcome'[<<n, k>>] \in {outcomeRow[<<n, k>>], "none"}
    BY <1>8 DEF Restart, Idle, stored, PaidTypeOK
  <2>2. OneClaim'
    BY <2>1
  <2>3. Backed'
    BY <1>1, <2>1
  <2>4. QED
    BY <2>1, <2>2, <2>3 DEF After
<1>9. CASE UNCHANGED vars
  BY <1>3, <1>9 DEF vars, stored, history
<1>10. QED
  BY <1>2, <1>4, <1>5, <1>6, <1>7, <1>8, <1>9 DEF Next

LEMMA LedgerNext ==
  "evict" \notin Drift /\ PaidTypeOK /\ PaidTypeOK' /\ LedgerInv /\ [Next]_vars => LedgerInv'
BY LedgerStep, LedgerOther

LEMMA LedgerInit == Init => LedgerInv
BY Nobodies DEF Init, LedgerInv, Locks, OneClaim, Backed, Fresh, Shadow, HasRun, Firm, Claim, Stages, At,
   N, K, Holds, Key, Idle, After, NoEntry

LEMMA LedgerInvariance == "evict" \notin Drift => (Spec => [](PaidTypeOK /\ LedgerInv))
<1>1. SUFFICES ASSUME "evict" \notin Drift PROVE Spec => [](PaidTypeOK /\ LedgerInv)
  OBVIOUS
<1>2. Spec => []PaidTypeOK
  BY PaidTypeCorrect
<1>3. PaidTypeOK /\ PaidTypeOK' /\ LedgerInv /\ [Next]_vars => LedgerInv'
  BY <1>1, LedgerNext
<1>4. QED
  BY <1>2, <1>3, LedgerInit, PTL DEF Spec

(* Two requests never run on one nonce, whatever calls arrive, whatever     *)
(* writes fail and however often the daemon restarts, if no live            *)
(* reservation leaves the cache before its row is written.                  *)
THEOREM NonceSingleUse ==
  ASSUME "evict" \notin Drift
  PROVE  Spec => []OneRequestPerNonce
<1>1. PaidTypeOK /\ LedgerInv => OneRequestPerNonce
  <2>1. ASSUME PaidTypeOK, LedgerInv, NEW n \in Nonce PROVE Cardinality(ran[n]) <= 1
    <3>1. ran[n] \subseteq Req /\ \A j, k \in ran[n] : j = k
      BY <2>1 DEF PaidTypeOK, LedgerInv, OneClaim, Claim, Firm
    <3>2. CASE ran[n] = {}
      BY <3>2, FS_EmptySet
    <3>3. CASE \E k \in ran[n] : ran[n] = {k}
      BY <3>3, FS_Singleton
    <3>4. QED
      BY <3>1, <3>2, <3>3
  <2>2. QED
    BY <2>1 DEF OneRequestPerNonce
<1>2. Spec => [](PaidTypeOK /\ LedgerInv)
  BY LedgerInvariance
<1>3. QED
  BY <1>1, <1>2, PTL

(* Within its window the row of a nonce is never given to another request,  *)
(* and a consumed one is never turned back.                                 *)
THEOREM RowHolds ==
  ASSUME "evict" \notin Drift
  PROVE  Spec => LedgerHolds
<1>. DEFINE Held == \A n \in Nonce \ shut : ledgerRow[n] # NoEntry =>
                      /\ ledgerRow'[n].key = ledgerRow[n].key
                      /\ ledgerRow[n].consumed => ledgerRow'[n].consumed
<1>1. ASSUME PaidTypeOK, PaidTypeOK', LedgerInv, [Next]_vars PROVE Held
  <2>1. CASE UNCHANGED ledgerRow
    BY <2>1
  <2>2. ASSUME NEW c \in Call, Step(c) \/ Lock(c), NEW n \in Nonce \ shut, ledgerRow[n] # NoEntry
        PROVE  ledgerRow'[n].key = ledgerRow[n].key /\ (ledgerRow[n].consumed => ledgerRow'[n].consumed)
    <3>1. Frame(c) /\ Effect(c)
      BY <1>1, <2>2, StepFrame, StepEffect
    <3>2. ~Over(n)
      BY <2>2 DEF Over
    <3>3. CASE ledgerRow'[n] = ledgerRow[n]
      BY <3>3
    <3>4. CASE /\ n = call[c].n /\ call[c].stage \in {"keep", "refresh", "spend"}
               /\ ~ledgerRow[n].consumed /\ ledgerRow'[n].key = call[c].k
      <4>1. call[c].stage # "keep"
        BY <1>1, <2>2, <3>2, <3>4 DEF LedgerInv, Fresh, Stages, N
      <4>2. Firm(n, call[c].k)
        BY <1>1, <3>4, <4>1 DEF LedgerInv, HasRun, After, Firm, Stages, N, K
      <4>3. ledgerRow[n].key = call[c].k
        BY <1>1, <3>1, <3>2, <4>2, <2>2 DEF LedgerInv, Backed, Frame
      <4>4. QED
        BY <3>4, <4>3
    <3>5. QED
      BY <2>2, <3>1, <3>3, <3>4 DEF Effect
  <2>3. ASSUME NEW n \in Nonce, ExpireLedger(n) PROVE Held
    BY <1>1, <2>3 DEF ExpireLedger, Expirable, PaidTypeOK
  <2>4. QED
    BY <1>1, <2>1, <2>2, <2>3 DEF Next, ToolsCall, Evict, Shut, ExpireOutcome, Restart, stored, vars
<1>2. Spec => [](PaidTypeOK /\ LedgerInv)
  BY LedgerInvariance
<1>3. PaidTypeOK /\ PaidTypeOK' /\ LedgerInv /\ [Next]_vars => [Held]_vars
  BY <1>1
<1>4. QED
  BY <1>2, <1>3, PTL DEF Spec, LedgerHolds

-----------------------------------------------------------------------------
(* The outcomes' invariant over a step of a call *)

(* What a step of a call adds to the history.                               *)
HistoryEffect(c) ==
  LET n == call[c].n  k == call[c].k  from == call[c].stage  to == call'[c].stage IN
  /\ \A m \in Nonce : m # n => produced'[m] = produced[m] /\ captured'[m] = captured[m]
  /\ produced'[n] = IF from = "run" /\ call'[c].got = "pending" THEN produced[n] \cup {k} ELSE produced[n]
  /\ captured'[n] = captured[n] \/ (from = "settle" /\ captured'[n] = captured[n] \cup {k})
  /\ sure' = IF from = "settle" /\ to = "commit" THEN sure \cup {n} ELSE sure
  /\ from = "settle" => to \in {"commit", "idle"}
  /\ from = "commit" => to = "spend"
  /\ from = "spend" => to = "mark"

LEMMA StepHistory ==
  ASSUME PaidTypeOK, NEW c \in Call, Step(c) \/ Lock(c)
  PROVE  HistoryEffect(c)
<1>1. /\ Frame(c) /\ N(c) = call[c].n /\ K(c) = call[c].k
      /\ call[c].n \in Nonce /\ call[c].k \in Req
      /\ produced \in [Nonce -> SUBSET Req] /\ captured \in [Nonce -> SUBSET Req]
  BY StepFrame DEF Frame, PaidTypeOK, N, K
<1>2. ASSUME NEW s \in Stage, Go(c, s) PROVE call'[c].stage = s
  BY <1>1, <1>2, GoStep DEF Frame
<1>3. ASSUME Answer(c) PROVE call'[c].stage = "idle"
  BY <1>1, <1>3, AnswerStep DEF Frame
<1>. USE DEF At, Stage
<1>4. CASE RunTool(c)
  <2>1. PICK g \in {"pending", "failed"} :
          /\ GoWith(c, "cache", g)
          /\ produced' = IF g = "pending" THEN [produced EXCEPT ![N(c)] = @ \cup {K(c)}] ELSE produced
    BY <1>4 DEF RunTool, GoWith
  <2>2. call'[c].got = g
    BY <1>1, <2>1, GoWithStep DEF Frame, Outcome
  <2>3. UNCHANGED <<captured, sure>> /\ call[c].stage = "run"
    BY <1>4 DEF RunTool
  <2>4. produced'[call[c].n] = IF g = "pending" THEN produced[call[c].n] \cup {call[c].k} ELSE produced[call[c].n]
    BY <1>1, <2>1
  <2>5. \A m \in Nonce : m # call[c].n => produced'[m] = produced[m]
    BY <1>1, <2>1
  <2>6. QED
    BY <2>2, <2>3, <2>4, <2>5 DEF HistoryEffect
<1>5. CASE Settled(c)
  BY <1>1, <1>2, <1>5 DEF Settled, Capture, HistoryEffect
<1>6. CASE SettleFails(c)
  BY <1>1, <1>3, <1>6 DEF SettleFails, Capture, HistoryEffect
<1>7. CASE UNCHANGED <<produced, captured, sure>> /\ call[c].stage \notin {"run", "settle", "commit", "spend"}
  BY <1>7 DEF HistoryEffect
<1>8. CASE CommitNonce(c) \/ SpendNonce(c)
  BY <1>2, <1>8 DEF CommitNonce, SpendNonce, HistoryEffect, history
<1>9. QED
  BY <1>4, <1>5, <1>6, <1>7, <1>8
  DEF Step, ReplayCached, Classify, Verify, Reserve, KeepReservation, Undo, RefreshReservation,
      CacheOutcome, SaveOutcome, MarkSettled, Lock, history

Facts(c) ==
  /\ PaidTypeOK /\ PaidTypeOK' /\ LedgerInv /\ OutcomeInv
  /\ "save" \notin Drift /\ "load" \notin Drift
  /\ Frame(c) /\ Effect(c) /\ OutcomeEffect(c) /\ HistoryEffect(c)
  /\ \A m \in Nonce : Over(m) => Over(m)'

(* Only one call at a time has a nonce and request in hand.                 *)
LEMMA Alone ==
  ASSUME NEW c \in Call, Facts(c), NEW d \in Call, d # c, Holds(c), Holds(d)
  PROVE  N(d) # call[c].n \/ K(d) # call[c].k
BY DEF Facts, LedgerInv, Locks, Key, N, K

LEMMA PhaseStep ==
  ASSUME NEW c \in Call, Facts(c)
  PROVE  Phase(c)'
<1>. DEFINE n == call[c].n
            k == call[c].k
            o == outcome[<<n, k>>]
            r == outcomeRow[<<n, k>>]
            from == call[c].stage
            to == call'[c].stage
<1>1. /\ n \in Nonce /\ k \in Req /\ shut' = shut
      /\ outcome'[<<n, k>>] \in Outcome /\ outcomeRow'[<<n, k>>] \in Outcome
      /\ o \in Outcome /\ r \in Outcome
  BY DEF Facts, Frame, PaidTypeOK
<1>2. Phase(c)
  BY DEF Facts, OutcomeInv, Phases
<1>3. n \notin shut => ~Over(n)
  BY DEF Over
<1>4. CASE to = "idle"
  BY <1>4 DEF Phase, Stages, At
<1>5. CASE /\ call'[c].n = n /\ call'[c].k = k /\ <<from, to>> \in Follows
           /\ to = "reserve" => n \notin shut
  <2>1. Key(c) = <<n, k>> /\ Key(c)' = <<n, k>> /\ N(c) = n /\ N(c)' = n /\ K(c) = k
    BY <1>5 DEF Key, N, K
  <2>10. Over(n) => Over(N(c))'
    BY <1>1, <1>5 DEF Facts, Over, N, At
  <2>2. CASE from \in {"queued", "lookup"}
    <3>1. CASE to = "lookup"
      BY <3>1 DEF Phase, Stages, At
    <3>2. CASE to = "classify"
      <4>1. outcome'[<<n, k>>] = "none"
        BY <2>2, <3>2, <1>5 DEF Facts, OutcomeEffect, Follows
      <4>2. QED
        BY <2>1, <3>2, <4>1 DEF Phase, Stages, At
    <3>3. CASE to = "settle" /\ from = "lookup"
      <4>1. /\ o = "pending" /\ call'[c].got = "pending"
            /\ outcome'[<<n, k>>] = o /\ outcomeRow'[<<n, k>>] = r
        BY <3>3 DEF Facts, OutcomeEffect
      <4>2. r \in {"pending", "none"}
        BY <1>1, <4>1 DEF Facts, OutcomeInv, Agree
      <4>3. n \notin shut => r # "none"
        <5>1. ASSUME n \notin shut, r = "none" PROVE FALSE
          <6>1. PICK d \in Call : Key(d) = <<n, k>> /\ At(d, "save")
            BY <1>1, <4>1, <5>1 DEF Facts, OutcomeInv, Agree
          <6>2. Holds(c) /\ Holds(d) /\ d # c
            BY <3>3, <6>1 DEF Holds, At
          <6>3. QED
            BY <2>1, <6>1, <6>2 DEF Facts, LedgerInv, Locks
        <5>2. QED
          BY <5>1
      <4>4. QED
        BY <1>1, <2>1, <3>3, <4>1, <4>2, <4>3 DEF Phase, Stages, At
    <3>4. QED
      BY <1>5, <2>2, <3>1, <3>2, <3>3 DEF Follows
  <2>3. CASE from \in {"classify", "verify"}
    <3>1. outcome'[<<n, k>>] = o /\ outcomeRow'[<<n, k>>] = r
      BY <2>3 DEF Facts, OutcomeEffect
    <3>2. n \in shut \/ (o = "none" /\ r = "none")
      BY <1>1, <1>2, <2>1, <2>3 DEF Phase, Stages, At, Facts, OutcomeInv, Agree
    <3>3. to \in {"verify", "reserve"}
      BY <1>5, <2>3 DEF Follows
    <3>4. QED
      BY <1>1, <1>5, <2>1, <3>1, <3>2, <3>3 DEF Phase, Stages, At
  <2>4. CASE from \in {"reserve", "keep", "undo", "refresh", "run"}
    <3>1. outcome'[<<n, k>>] = "none" /\ outcomeRow'[<<n, k>>] = "none"
      BY <1>2, <2>1, <2>4 DEF Phase, Stages, At, Facts, OutcomeEffect
    <3>2. \/ to \in {"keep", "undo", "refresh", "run"}
          \/ to = "cache" /\ call'[c].got \in {"pending", "failed"}
      BY <1>5, <2>4 DEF Follows, Facts, OutcomeEffect
    <3>3. QED
      BY <2>1, <3>1, <3>2 DEF Phase, Stages, At
  <2>5. CASE from = "cache"
    <3>1. o = "none" /\ call[c].got # "none"
          /\ IF call[c].got = "settled" THEN r # "failed" ELSE r = "none"
      BY <1>2, <2>1, <2>5 DEF Phase, At
    <3>2. /\ to = "save" /\ outcome'[<<n, k>>] = call[c].got /\ outcomeRow'[<<n, k>>] = r
          /\ call'[c].got = call[c].got
      BY <2>5, <3>1 DEF Facts, OutcomeEffect
    <3>3. QED
      BY <2>1, <3>1, <3>2 DEF Phase, Stages, At
  <2>6. CASE from = "save"
    <3>1. o \in {call[c].got, "none"} /\ (Over(n) \/ o = call[c].got)
      BY <1>2, <2>1, <2>6 DEF Phase, At
    <3>2. /\ to = "settle" /\ call[c].got = "pending" /\ call'[c].got = "pending"
          /\ outcome'[<<n, k>>] = o /\ outcomeRow'[<<n, k>>] = "pending"
      BY <1>5, <2>6 DEF Facts, OutcomeEffect, Follows
    <3>3. QED
      BY <1>1, <2>1, <2>10, <3>1, <3>2 DEF Phase, Stages, At
  <2>7. CASE from \in {"settle", "commit", "spend"}
    <3>1. /\ to \in {"commit", "spend", "mark"} /\ call'[c].got = call[c].got
          /\ outcome'[<<n, k>>] = o /\ outcomeRow'[<<n, k>>] = r
      BY <1>5, <2>7 DEF Facts, OutcomeEffect, Follows
    <3>2. /\ call[c].got = "pending"
          /\ o \in {"pending", "none"} /\ (Over(n) \/ o = "pending")
          /\ r \in {"pending", "none"} /\ (n \in shut \/ r = "pending")
      BY <1>2, <2>1, <2>7 DEF Phase, Stages
    <3>3. QED
      BY <1>1, <2>1, <2>10, <3>1, <3>2 DEF Phase, Stages, At
  <2>8. CASE from = "mark"
    <3>1. r \in {"pending", "none"}
      BY <1>2, <2>1, <2>8 DEF Phase, Stages
    <3>2. to = "cache" /\ o = "none" /\ call'[c].got = "settled"
          /\ outcome'[<<n, k>>] = o /\ outcomeRow'[<<n, k>>] = r
      BY <1>5, <2>8 DEF Facts, OutcomeEffect, Follows
    <3>3. QED
      BY <2>1, <3>1, <3>2 DEF Phase, Stages, At
  <2>9. QED
    BY <1>5, <2>2, <2>3, <2>4, <2>5, <2>6, <2>7, <2>8 DEF Follows
<1>6. QED
  BY <1>4, <1>5 DEF Facts, Frame, Onward

LEMMA PhasesStep ==
  ASSUME NEW c \in Call, Facts(c)
  PROVE  Phases'
<1>1. ASSUME NEW d \in Call, d # c PROVE Phase(d)'
  <2>1. /\ call'[d] = call[d] /\ shut' = shut /\ Phase(d)
        /\ call[d].stage # "idle" => N(d) \in Nonce /\ K(d) \in Req
    BY <1>1 DEF Facts, Frame, OutcomeInv, Phases, PaidTypeOK, N, K
  <2>2. Key(d) = <<N(d), K(d)>> /\ Key(d)' = <<N(d), K(d)>> /\ N(d)' = N(d)
    BY <2>1 DEF Key, N, K
  <2>3. CASE ~Holds(d)
    BY <2>1, <2>3 DEF Holds, Phase, Stages, At
  <2>4. CASE Holds(d)
    <3>1. N(d) \in Nonce /\ K(d) \in Req
      BY <2>1, <2>4 DEF Holds
    <3>2. outcome'[<<N(d), K(d)>>] = outcome[<<N(d), K(d)>>] /\ outcomeRow'[<<N(d), K(d)>>] = outcomeRow[<<N(d), K(d)>>]
      <4>1. CASE Holds(c)
        BY <1>1, <2>4, <3>1, <4>1, Alone DEF Facts, OutcomeEffect
      <4>2. CASE ~Holds(c)
        <5>1. call[c].stage \notin {"cache", "save", "mark"}
          BY <4>2 DEF Holds
        <5>2. QED
          BY <3>1, <5>1 DEF Facts, OutcomeEffect
      <4>3. QED
        BY <4>1, <4>2
    <3>3. Over(N(d)) => Over(N(d))'
      BY <2>1, <3>1 DEF Facts, Over, N, At
    <3>4. QED
      BY <2>1, <2>2, <3>1, <3>2, <3>3 DEF Phase, Stages, At
  <2>5. QED
    BY <2>3, <2>4
<1>2. QED
  BY <1>1, PhaseStep DEF Phases

LEMMA AgreeStep ==
  ASSUME NEW c \in Call, Facts(c)
  PROVE  Agree'
<1>. DEFINE n == call[c].n
            k == call[c].k
            o == outcome[<<n, k>>]
            r == outcomeRow[<<n, k>>]
            from == call[c].stage
            Saving(m, j) == \E d \in Call : Key(d) = <<m, j>> /\ At(d, "save")
            Saves(m, j) == \E d \in Call : Key(d)' = <<m, j>> /\ At(d, "save")'
            Pair(x, y, m, j) ==
              /\ x # "none" /\ y # "none" => (x = "failed" <=> y = "failed") /\ (x = "pending" => y = "pending")
              /\ m \notin shut /\ y # "none" => x # "none"
              /\ m \notin shut /\ x # "none" => y # "none" \/ Saves(m, j)
<1>1. /\ n \in Nonce /\ k \in Req /\ shut' = shut /\ Phase(c) /\ Key(c) = <<n, k>> /\ N(c) = n
      /\ \A d \in Call : d # c => call'[d] = call[d]
  BY DEF Facts, Frame, OutcomeInv, Phases, Key, N, K
<1>2. ASSUME NEW m \in Nonce, NEW j \in Req,
             outcome'[<<m, j>>] = outcome[<<m, j>>], outcomeRow'[<<m, j>>] = outcomeRow[<<m, j>>],
             m # n \/ j # k \/ from # "save"
      PROVE  Pair(outcome'[<<m, j>>], outcomeRow'[<<m, j>>], m, j)
  <2>1. Saving(m, j) => Saves(m, j)
    <3>1. ASSUME NEW d \in Call, Key(d) = <<m, j>>, At(d, "save") PROVE Saves(m, j)
      <4>1. d # c
        BY <1>1, <1>2, <3>1 DEF At
      <4>2. QED
        BY <1>1, <3>1, <4>1 DEF Key, N, K, At
    <3>2. QED
      BY <3>1
  <2>2. QED
    BY <1>2, <2>1 DEF Facts, OutcomeInv, Agree
<1>3. Pair(outcome'[<<n, k>>], outcomeRow'[<<n, k>>], n, k)
  <2>1. CASE from = "cache"
    <3>1. o = "none" /\ call[c].got # "none"
          /\ IF call[c].got = "settled" THEN r # "failed" ELSE r = "none"
      BY <1>1, <2>1 DEF Phase, At
    <3>2. /\ call'[c].stage = "save" /\ outcome'[<<n, k>>] = call[c].got /\ outcomeRow'[<<n, k>>] = r
      BY <2>1, <3>1 DEF Facts, OutcomeEffect
    <3>3. Saves(n, k)
      BY <1>1, <3>2 DEF Facts, Frame, Onward, Key, N, K, At
    <3>4. QED
      BY <3>1, <3>2, <3>3
  <2>2. CASE from = "save"
    <3>1. o \in {call[c].got, "none"} /\ (Over(n) \/ o = call[c].got) /\ call[c].got # "none"
      BY <1>1, <2>2 DEF Phase, At
    <3>2. outcome'[<<n, k>>] = o /\ outcomeRow'[<<n, k>>] = call[c].got
      BY <2>2 DEF Facts, OutcomeEffect
    <3>3. QED
      BY <3>1, <3>2 DEF Over
  <2>3. CASE from = "mark"
    <3>1. r \in {"pending", "none"} /\ (n \in shut \/ r = "pending")
      BY <1>1, <2>3 DEF Phase, Stages
    <3>2. \/ outcome'[<<n, k>>] = o /\ outcomeRow'[<<n, k>>] = r
          \/ outcome'[<<n, k>>] = "settled" /\ outcomeRow'[<<n, k>>] \in {r, "settled"}
      BY <2>3 DEF Facts, OutcomeEffect
    <3>3. QED
      BY <1>1, <1>2, <2>3, <3>1, <3>2
  <2>4. CASE from \notin {"cache", "save", "mark"}
    BY <1>1, <1>2, <2>4 DEF Facts, OutcomeEffect
  <2>5. QED
    BY <2>1, <2>2, <2>3, <2>4
<1>4. ASSUME NEW m \in Nonce, NEW j \in Req PROVE Pair(outcome'[<<m, j>>], outcomeRow'[<<m, j>>], m, j)
  <2>1. CASE m = n /\ j = k
    BY <1>3, <2>1
  <2>2. CASE m # n \/ j # k
    BY <1>2, <2>2 DEF Facts, OutcomeEffect
  <2>3. QED
    BY <2>1, <2>2
<1>5. QED
  BY <1>1, <1>4 DEF Agree

LEMMA MadeStep ==
  ASSUME NEW c \in Call, Facts(c)
  PROVE  Made' /\ \A m \in Nonce : produced[m] \subseteq produced'[m]
<1>. DEFINE n == call[c].n
            k == call[c].k
            from == call[c].stage
<1>1. /\ n \in Nonce /\ k \in Req /\ Phase(c) /\ Key(c) = <<n, k>>
      /\ \A d \in Call : d # c => call'[d] = call[d]
      /\ call[c].got \in Good => k \in produced[n]
  BY DEF Facts, Frame, OutcomeInv, Phases, Made, Key, N, K
<1>2. \A m \in Nonce : produced[m] \subseteq produced'[m]
  BY <1>1 DEF Facts, HistoryEffect
<1>3. call'[c].got \in Good =>
        call'[c].n = n /\ call'[c].k = k /\ call'[c].stage # "idle" /\ k \in produced'[n]
  <2>1. ASSUME call'[c].got \in Good PROVE call'[c].n = n /\ call'[c].k = k /\ call'[c].stage # "idle"
    BY <2>1 DEF Facts, Frame, Onward, Good, Follows
  <2>2. CASE from = "lookup" /\ call'[c].got \in Good
    <3>1. call'[c].stage \in {"classify", "settle"}
      BY <2>1, <2>2 DEF Facts, Frame, Onward, Follows
    <3>2. CASE call'[c].stage = "settle"
      BY <1>1, <1>2, <2>1, <2>2, <3>2 DEF Facts, OutcomeEffect, OutcomeInv, Made, Good
    <3>3. CASE call'[c].stage = "classify"
      BY <1>1, <1>2, <2>1, <2>2, <3>3 DEF Facts, OutcomeEffect
    <3>4. QED
      BY <3>1, <3>2, <3>3
  <2>3. CASE from = "run" /\ call'[c].got \in Good
    BY <1>1, <2>1, <2>3 DEF Facts, OutcomeEffect, HistoryEffect, Good
  <2>4. CASE from = "mark" /\ call'[c].got \in Good
    BY <1>1, <1>2, <2>1, <2>4 DEF Phase, Stages, Good
  <2>5. CASE from \notin {"lookup", "run", "mark"} /\ call'[c].got \in Good
    BY <1>1, <1>2, <2>1, <2>5 DEF Facts, OutcomeEffect
  <2>6. QED
    BY <2>2, <2>3, <2>4, <2>5
<1>4. ASSUME NEW d \in Call, call'[d].got \in Good
      PROVE  call'[d].stage # "idle" /\ call'[d].k \in produced'[call'[d].n]
  <2>1. CASE d = c
    BY <1>3, <1>4, <2>1
  <2>2. CASE d # c
    <3>1. call'[d] = call[d] /\ call[d].stage # "idle" /\ call[d].k \in produced[call[d].n]
      BY <1>1, <1>4, <2>2 DEF Facts, OutcomeInv, Made, N, K, At
    <3>2. call[d].n \in Nonce
      BY <3>1 DEF Facts, PaidTypeOK
    <3>3. QED
      BY <1>2, <3>1, <3>2
  <2>3. QED
    BY <2>1, <2>2
<1>5. ASSUME NEW m \in Nonce, NEW j \in Req, outcome'[<<m, j>>] \in Good \/ outcomeRow'[<<m, j>>] \in Good
      PROVE  j \in produced'[m]
  <2>1. CASE outcome[<<m, j>>] \in Good \/ outcomeRow[<<m, j>>] \in Good
    BY <1>2, <2>1 DEF Facts, OutcomeInv, Made
  <2>2. CASE ~(outcome[<<m, j>>] \in Good \/ outcomeRow[<<m, j>>] \in Good)
    <3>1. m = n /\ j = k /\ from \in {"cache", "save", "mark"}
      BY <1>5, <2>2 DEF Facts, OutcomeEffect
    <3>2. call[c].got \in Good
      <4>1. CASE from = "mark"
        BY <1>1, <4>1 DEF Phase, Stages, Good
      <4>2. CASE from = "cache"
        BY <1>1, <1>5, <2>2, <3>1, <4>2 DEF Facts, OutcomeEffect
      <4>3. CASE from = "save"
        BY <1>1, <1>5, <2>2, <3>1, <4>3 DEF Facts, OutcomeEffect
      <4>4. QED
        BY <3>1, <4>1, <4>2, <4>3
    <3>3. QED
      BY <1>1, <1>2, <3>1, <3>2
  <2>3. QED
    BY <2>1, <2>2
<1>6. QED
  BY <1>2, <1>4, <1>5 DEF Made, N, K, At

LEMMA PaidStep ==
  ASSUME NEW c \in Call, Facts(c)
  PROVE  Paid'
<1>. DEFINE n == call[c].n
            k == call[c].k
            o == outcome[<<n, k>>]
            r == outcomeRow[<<n, k>>]
            from == call[c].stage
<1>1. /\ n \in Nonce /\ k \in Req /\ shut' = shut /\ Phase(c) /\ Key(c) = <<n, k>> /\ N(c) = n
      /\ \A m \in Nonce : produced[m] \subseteq produced'[m]
      /\ n \notin shut => ~Over(n)
  BY MadeStep DEF Facts, Frame, OutcomeInv, Phases, Key, N, K, Over
<1>2. ASSUME NEW m \in Nonce, NEW j \in captured'[m]
      PROVE  /\ j \in produced'[m]
             /\ m \notin shut => outcome'[<<m, j>>] \in Good /\ outcomeRow'[<<m, j>>] \in Good
  <2>1. j \in Req
    BY <1>2 DEF Facts, PaidTypeOK
  <2>2. CASE j \notin captured[m]
    <3>1. m = n /\ j = k /\ from = "settle"
      BY <1>2, <2>2 DEF Facts, HistoryEffect
    <3>2. /\ call[c].got = "pending" /\ (Over(n) \/ o = "pending") /\ (n \in shut \/ r = "pending")
          /\ outcome'[<<n, k>>] = o /\ outcomeRow'[<<n, k>>] = r
      BY <1>1, <3>1 DEF Phase, Stages, Facts, OutcomeEffect
    <3>3. k \in produced[n]
      BY <3>2 DEF Facts, OutcomeInv, Made, Good, N, K
    <3>4. QED
      BY <1>1, <3>1, <3>2, <3>3 DEF Good
  <2>3. CASE j \in captured[m]
    <3>1. j \in produced'[m] /\ (m \notin shut => outcome[<<m, j>>] \in Good /\ outcomeRow[<<m, j>>] \in Good)
      BY <1>1, <2>3 DEF Facts, OutcomeInv, Paid
    <3>2. CASE m # n \/ j # k \/ from \notin {"cache", "save", "mark"}
      BY <2>1, <3>1, <3>2 DEF Facts, OutcomeEffect
    <3>3. CASE m = n /\ j = k /\ from = "cache"
      <4>1. n \in shut
        BY <1>1, <3>1, <3>3 DEF Phase, At, Good
      <4>2. QED
        BY <3>1, <3>3, <4>1
    <3>4. CASE m = n /\ j = k /\ from = "save"
      <4>1. n \notin shut => o = call[c].got /\ o \in Good
        BY <1>1, <3>1, <3>4 DEF Phase, At
      <4>2. outcome'[<<n, k>>] = o /\ outcomeRow'[<<n, k>>] = call[c].got
        BY <3>4 DEF Facts, OutcomeEffect
      <4>3. QED
        BY <3>1, <3>4, <4>1, <4>2
    <3>5. CASE m = n /\ j = k /\ from = "mark"
      <4>1. outcome'[<<n, k>>] \in {o, "settled"} /\ outcomeRow'[<<n, k>>] \in {r, "settled"}
        BY <3>5 DEF Facts, OutcomeEffect
      <4>2. QED
        BY <3>1, <3>5, <4>1 DEF Good
    <3>6. QED
      BY <3>2, <3>3, <3>4, <3>5
  <2>4. QED
    BY <2>2, <2>3
<1>3. QED
  BY <1>1, <1>2 DEF Paid

LEMMA SureStep ==
  ASSUME NEW c \in Call, Facts(c), Step(c) \/ Lock(c)
  PROVE  Sure'
<1>. DEFINE n == call[c].n
            k == call[c].k
            o == outcome[<<n, k>>]
            from == call[c].stage
            to == call'[c].stage
            Settling(d) == \/ call[d].stage \in {"keep", "refresh", "run", "settle"}
                           \/ call[d].stage \in {"cache", "save"} /\ call[d].got # "settled"
            SettlingNext(d) == \/ call'[d].stage \in {"keep", "refresh", "run", "settle"}
                               \/ call'[d].stage \in {"cache", "save"} /\ call'[d].got # "settled"
            Late == {"commit", "spend", "mark"}
<1>1. /\ n \in Nonce /\ k \in Req /\ Phase(c) /\ Key(c) = <<n, k>> /\ N(c) = n /\ K(c) = k
      /\ \A d \in Call : d # c => call'[d] = call[d]
      /\ from \in After => k \in ran[n]
      /\ \A m \in Nonce : ran[m] \subseteq ran'[m] /\ ran'[m] \subseteq Req
  BY DEF Facts, Frame, OutcomeInv, Phases, Key, N, K, LedgerInv, HasRun, Stages, Effect, PaidTypeOK
<1>2. /\ \A m \in sure, j \in Req : outcome[<<m, j>>] = "pending" =>
           \E d \in Call : call[d].n = m /\ call[d].k = j /\ call[d].stage \in Late
      /\ \A d \in Call : Settling(d) => call[d].n \notin sure
      /\ \A m \in sure : ~Over(m) => \E j \in ran[m] : outcome[<<m, j>>] # "none"
      /\ sure \subseteq Nonce
  BY DEF Facts, OutcomeInv, Sure, Stages, N, K, Key, PaidTypeOK
<1>3. \A m \in Nonce : \A i, j \in ran[m] : i = j
  BY DEF Facts, LedgerInv, OneClaim, Claim, Firm, PaidTypeOK
<1>4. ASSUME NEW m \in sure', NEW j \in Req, outcome'[<<m, j>>] = "pending"
      PROVE  \E d \in Call : call'[d].n = m /\ call'[d].k = j /\ call'[d].stage \in Late
  <2>1. CASE m = n /\ from = "settle" /\ to = "commit"
    <3>1. outcome[<<n, j>>] = "pending"
      BY <1>1, <1>4, <2>1 DEF Facts, OutcomeEffect
    <3>2. j \in ran[n] /\ k \in ran[n]
      BY <1>1, <2>1, <3>1 DEF Facts, LedgerInv, HasRun, After
    <3>3. j = k
      BY <1>1, <1>3, <3>2
    <3>4. QED
      BY <2>1, <3>3 DEF Facts, Frame, Onward
  <2>2. CASE ~(m = n /\ from = "settle" /\ to = "commit")
    <3>1. m \in sure /\ m \in Nonce
      BY <1>2, <1>4, <2>2 DEF Facts, HistoryEffect
    <3>2. CASE m # n \/ j # k
      <4>1. outcome[<<m, j>>] = "pending"
        BY <1>4, <3>1, <3>2 DEF Facts, OutcomeEffect
      <4>2. PICK d \in Call : call[d].n = m /\ call[d].k = j /\ call[d].stage \in Late
        BY <1>2, <3>1, <4>1
      <4>3. QED
        BY <1>1, <3>2, <4>2
    <3>3. CASE m = n /\ j = k
      <4>1. from # "cache"
        <5>1. ASSUME from = "cache" PROVE FALSE
          <6>1. o = "none" /\ call[c].got = "pending"
            BY <1>1, <1>4, <3>3, <5>1 DEF Phase, At, Facts, OutcomeEffect
          <6>2. QED
            BY <1>2, <3>1, <3>3, <5>1, <6>1
        <5>2. QED
          BY <5>1
      <4>2. from # "mark" /\ o = "pending"
        BY <1>4, <3>3, <4>1 DEF Facts, OutcomeEffect
      <4>3. PICK d \in Call : call[d].n = n /\ call[d].k = k /\ call[d].stage \in Late
        BY <1>1, <1>2, <3>1, <3>3, <4>2
      <4>4. CASE d # c
        BY <1>1, <3>3, <4>3, <4>4
      <4>5. CASE d = c
        <5>1. CASE to # "idle"
          BY <3>3, <4>2, <4>3, <4>5, <5>1 DEF Facts, Frame, Onward, Follows
        <5>2. CASE to = "idle"
          BY <4>2, <4>3, <4>5, <5>2 DEF Facts, HistoryEffect
        <5>3. QED
          BY <5>1, <5>2
      <4>6. QED
        BY <4>4, <4>5
    <3>4. QED
      BY <3>2, <3>3
  <2>3. QED
    BY <2>1, <2>2
<1>5. ASSUME NEW d \in Call, SettlingNext(d) PROVE call'[d].n \notin sure'
  <2>1. CASE d # c
    <3>1. call'[d] = call[d] /\ Settling(d) /\ call[d].n \notin sure /\ call[d].n \in Nonce /\ call[d].k \in Req
      BY <1>1, <1>2, <1>5, <2>1 DEF Facts, PaidTypeOK
    <3>2. CASE call[d].n = n /\ from = "settle"
      <4>1. Claim(n, call[d].k) /\ Claim(n, k)
        BY <1>1, <3>1, <3>2 DEF Claim, Firm, Stages, At, N, K, Facts, LedgerInv, HasRun, After
      <4>2. call[d].k = k
        BY <1>1, <3>1, <4>1 DEF Facts, LedgerInv, OneClaim
      <4>3. QED
        BY <1>1, <2>1, <3>1, <3>2, <4>2 DEF Facts, LedgerInv, Locks, Holds, Key, N, K
    <3>3. CASE ~(call[d].n = n /\ from = "settle")
      BY <3>1, <3>3 DEF Facts, HistoryEffect
    <3>4. QED
      BY <3>2, <3>3
  <2>2. CASE d = c
    <3>1. call'[c].n = n /\ <<from, to>> \in Follows /\ from # "settle" /\ sure' = sure
      BY <1>5, <2>2 DEF Facts, Frame, Onward, Follows, HistoryEffect
    <3>2. CASE from = "reserve"
      <4>1. to \in {"keep", "refresh"} /\ ~Over(n) /\ o = "none"
        BY <1>1, <3>1, <3>2 DEF Follows, Over, N, At, Phase, Stages
      <4>2. ASSUME n \in sure PROVE FALSE
        <5>1. PICK j \in ran[n] : outcome[<<n, j>>] # "none"
          BY <1>2, <4>1, <4>2
        <5>2. j \in Req /\ Claim(n, j)
          BY <1>1 DEF Facts, PaidTypeOK, Claim, Firm
        <5>3. j = k
          BY <3>2, <4>1, <5>2, ReserveClaims DEF Facts
        <5>4. QED
          BY <4>1, <5>1, <5>3
      <4>3. QED
        BY <2>2, <3>1, <4>2
    <3>3. CASE from = "lookup"
      <4>1. to = "settle" /\ o = "pending"
        BY <1>5, <2>2, <3>1, <3>3 DEF Follows, Facts, OutcomeEffect
      <4>2. ASSUME n \in sure PROVE FALSE
        <5>1. PICK d2 \in Call : call[d2].n = n /\ call[d2].k = k /\ call[d2].stage \in Late
          BY <1>1, <1>2, <4>1, <4>2
        <5>2. QED
          BY <1>1, <3>3, <5>1 DEF Facts, LedgerInv, Locks, Holds, Key, N, K
      <4>3. QED
        BY <2>2, <3>1, <4>2
    <3>4. CASE from \notin {"reserve", "lookup"}
      <4>1. Settling(c)
        <5>1. CASE from \in {"keep", "refresh", "run"}
          BY <5>1
        <5>2. CASE from = "cache"
          <6>1. to = "save" /\ call'[c].got = call[c].got
            BY <1>1, <5>2 DEF Phase, At, Facts, OutcomeEffect
          <6>2. QED
            BY <1>5, <2>2, <5>2, <6>1
        <5>3. CASE from = "save"
          BY <3>1, <5>3 DEF Follows, Facts, OutcomeEffect
        <5>4. CASE from = "mark"
          BY <1>5, <2>2, <3>1, <5>4 DEF Follows, Facts, OutcomeEffect
        <5>5. QED
          BY <1>5, <2>2, <3>1, <3>4, <5>1, <5>2, <5>3, <5>4 DEF Follows
      <4>2. QED
        BY <1>2, <2>2, <3>1, <4>1
    <3>5. QED
      BY <3>2, <3>3, <3>4
  <2>3. QED
    BY <2>1, <2>2
<1>6. ASSUME NEW m \in sure', ~Over(m)' PROVE \E j \in ran'[m] : outcome'[<<m, j>>] # "none"
  <2>1. m \in Nonce /\ ~Over(m)
    BY <1>6 DEF Facts, PaidTypeOK
  <2>2. CASE m = n /\ from = "settle" /\ to = "commit"
    <3>1. o = "pending" /\ outcome'[<<n, k>>] = o /\ k \in ran'[n]
      BY <1>1, <2>1, <2>2 DEF Phase, Stages, Facts, OutcomeEffect, After
    <3>2. QED
      BY <2>2, <3>1
  <2>3. CASE ~(m = n /\ from = "settle" /\ to = "commit")
    <3>1. m \in sure
      BY <1>6, <2>3 DEF Facts, HistoryEffect
    <3>2. PICK j \in ran[m] : outcome[<<m, j>>] # "none"
      BY <1>2, <2>1, <3>1
    <3>3. j \in Req /\ j \in ran'[m]
      BY <1>1, <2>1
    <3>4. outcome'[<<m, j>>] # "none"
      BY <2>1, <3>2, <3>3 DEF Facts, OutcomeEffect
    <3>5. QED
      BY <3>3, <3>4
  <2>4. QED
    BY <2>2, <2>3
<1>7. QED
  BY <1>4, <1>5, <1>6 DEF Sure, Stages, N, K, Key, At

-----------------------------------------------------------------------------
(* The outcomes' invariant over the other steps *)

LEMMA OutcomeOther ==
  ASSUME PaidTypeOK, PaidTypeOK', LedgerInv, OutcomeInv, [Next]_vars, "load" \notin Drift,
         ~\E c \in Call : Step(c) \/ Lock(c)
  PROVE  OutcomeInv'
<1>1. \A m \in Nonce : Over(m) => Over(m)'
  BY OverStays
<1>2. \A d \in Call : call[d].stage # "idle" => call[d].n \in Nonce /\ call[d].k \in Req
  BY DEF PaidTypeOK
<1>3. ASSUME NEW c \in Call, NEW n \in Nonce, NEW k \in Req, ToolsCall(c, n, k) PROVE OutcomeInv'
  <2>1. /\ call[c].stage = "idle" /\ call'[c].stage = "queued" /\ call'[c].got = "none"
        /\ \A d \in Call : d # c => call'[d] = call[d]
        /\ UNCHANGED <<outcome, outcomeRow, ran, produced, captured, sure, shut>>
    BY <1>3 DEF ToolsCall, stored, history, PaidTypeOK, At
  <2>2. Phases'
    <3>1. ASSUME NEW d \in Call PROVE Phase(d)'
      <4>1. CASE d = c
        BY <2>1, <4>1 DEF Phase, Stages, At
      <4>2. CASE d # c
        BY <1>1, <1>2, <2>1, <4>2 DEF OutcomeInv, Phases, Phase, Stages, At, Key, N, K, Over
      <4>3. QED
        BY <4>1, <4>2
    <3>2. QED
      BY <3>1 DEF Phases
  <2>3. Agree' /\ Paid'
    BY <2>1 DEF OutcomeInv, Agree, Paid, Key, N, K, At
  <2>4. Made'
    BY <2>1 DEF OutcomeInv, Made, Good, N, K, At
  <2>5. Sure'
    <3>1. ASSUME NEW m \in sure, NEW j \in Req, outcome[<<m, j>>] = "pending"
          PROVE  \E d \in Call : Key(d)' = <<m, j>> /\ Stages(d, {"commit", "spend", "mark"})'
      <4>1. PICK d \in Call : Key(d) = <<m, j>> /\ Stages(d, {"commit", "spend", "mark"})
        BY <3>1 DEF OutcomeInv, Sure
      <4>2. call'[d] = call[d]
        BY <2>1, <4>1 DEF Stages
      <4>3. QED
        BY <4>1, <4>2 DEF Key, N, K, Stages
    <3>2. ASSUME NEW d \in Call,
                 Stages(d, {"keep", "refresh", "run", "settle"})'
                   \/ (Stages(d, {"cache", "save"})' /\ call'[d].got # "settled")
          PROVE  call'[d].n \notin sure
      <4>1. call'[d] = call[d]
        BY <2>1, <3>2 DEF Stages
      <4>2. QED
        BY <3>2, <4>1 DEF OutcomeInv, Sure, Stages, N
    <3>3. ASSUME NEW m \in sure, ~Over(m)' PROVE \E j \in ran[m] : outcome[<<m, j>>] # "none"
      BY <1>1, <3>3 DEF OutcomeInv, Sure, PaidTypeOK
    <3>4. QED
      BY <2>1, <3>1, <3>2, <3>3 DEF Sure, N
  <2>6. QED
    BY <2>2, <2>3, <2>4, <2>5 DEF OutcomeInv
<1>4. ASSUME UNCHANGED <<call, outcome, outcomeRow, ran, produced, captured, sure>>, shut \subseteq shut'
      PROVE  OutcomeInv'
  <2>1. Phases'
    <3>1. ASSUME NEW d \in Call PROVE Phase(d)'
      BY <1>2, <1>4 DEF OutcomeInv, Phases, Phase, Stages, At, Key, N, K, Over
    <3>2. QED
      BY <3>1 DEF Phases
  <2>2. Agree' /\ Paid' /\ Made'
    BY <1>4 DEF OutcomeInv, Agree, Paid, Made, Key, N, K, At
  <2>3. Sure'
    BY <1>1, <1>4 DEF OutcomeInv, Sure, Stages, Key, N, K, PaidTypeOK
  <2>4. QED
    BY <2>1, <2>2, <2>3 DEF OutcomeInv
<1>5. ASSUME NEW n \in Nonce, NEW k \in Req, ExpireOutcome(n, k) PROVE OutcomeInv'
  <2>1. Over(n) /\ n \in shut /\ UNCHANGED <<call, shut, ran, produced, captured, sure>>
    BY <1>5 DEF ExpireOutcome, Expirable, Over, history
  <2>2. \A m \in Nonce, j \in Req : m # n \/ j # k =>
          outcome'[<<m, j>>] = outcome[<<m, j>>] /\ outcomeRow'[<<m, j>>] = outcomeRow[<<m, j>>]
    BY <1>5 DEF ExpireOutcome, PaidTypeOK
  <2>3. /\ outcome'[<<n, k>>] \in {outcome[<<n, k>>], "none"}
        /\ outcomeRow'[<<n, k>>] \in {outcomeRow[<<n, k>>], "none"}
    BY <1>5 DEF ExpireOutcome, PaidTypeOK
  <2>4. Phases'
    <3>1. ASSUME NEW d \in Call PROVE Phase(d)'
      <4>1. Phase(d) /\ UNCHANGED <<Key(d), N(d), Over(N(d))>>
        BY <2>1 DEF OutcomeInv, Phases, Key, N, K, Over, At
      <4>2. CASE call[d].stage = "idle"
        BY <2>1, <4>2 DEF Phase, Stages, At
      <4>3. CASE call[d].stage # "idle" /\ (N(d) # n \/ K(d) # k)
        BY <1>2, <2>1, <2>2, <4>1, <4>3 DEF Phase, Stages, At, Key, N, K
      <4>4. CASE call[d].stage # "idle" /\ N(d) = n /\ K(d) = k
        BY <2>1, <2>3, <4>1, <4>4 DEF Phase, Stages, At, Key, N, K
      <4>5. QED
        BY <4>2, <4>3, <4>4
    <3>2. QED
      BY <3>1 DEF Phases
  <2>5. \A m \in Nonce, j \in Req : /\ outcome'[<<m, j>>] \in {outcome[<<m, j>>], "none"}
                                   /\ outcomeRow'[<<m, j>>] \in {outcomeRow[<<m, j>>], "none"}
    BY <2>2, <2>3
  <2>6. Agree'
    <3>1. ASSUME NEW m \in Nonce, NEW j \in Req, m \notin shut
          PROVE  outcome'[<<m, j>>] = outcome[<<m, j>>] /\ outcomeRow'[<<m, j>>] = outcomeRow[<<m, j>>]
      BY <2>1, <2>2, <3>1
    <3>2. ASSUME NEW m \in Nonce, NEW j \in Req
          PROVE  LET x == outcome'[<<m, j>>]  y == outcomeRow'[<<m, j>>] IN
                 /\ x # "none" /\ y # "none" => (x = "failed" <=> y = "failed") /\ (x = "pending" => y = "pending")
                 /\ m \notin shut /\ y # "none" => x # "none"
                 /\ m \notin shut /\ x # "none" => y # "none" \/ \E d \in Call : Key(d)' = <<m, j>> /\ At(d, "save")'
      <4>1. \A d \in Call : Key(d)' = Key(d) /\ (At(d, "save")' <=> At(d, "save"))
        BY <2>1 DEF Key, N, K, At
      <4>2. CASE m \in shut
        BY <2>5, <4>2 DEF OutcomeInv, Agree
      <4>3. CASE m \notin shut
        BY <3>1, <4>1, <4>3 DEF OutcomeInv, Agree
      <4>4. QED
        BY <4>2, <4>3
    <3>3. QED
      BY <2>1, <3>2 DEF Agree
  <2>7. Made'
    BY <2>1, <2>5 DEF OutcomeInv, Made, Good, N, K, At
  <2>8. Paid'
    BY <2>1, <2>2 DEF OutcomeInv, Paid, PaidTypeOK
  <2>9. Sure'
    <3>1. ASSUME NEW m \in sure, ~Over(m)' PROVE \E j \in ran[m] : outcome'[<<m, j>>] # "none"
      <4>1. m \in Nonce /\ ~Over(m) /\ m # n
        BY <1>1, <2>1, <3>1 DEF PaidTypeOK
      <4>2. PICK j \in ran[m] : outcome[<<m, j>>] # "none"
        BY <4>1 DEF OutcomeInv, Sure
      <4>3. j \in Req
        BY <4>1 DEF PaidTypeOK
      <4>4. QED
        BY <2>2, <4>1, <4>2, <4>3
    <3>2. ASSUME NEW m \in sure, NEW j \in Req, outcome'[<<m, j>>] = "pending"
          PROVE  \E d \in Call : Key(d)' = <<m, j>> /\ Stages(d, {"commit", "spend", "mark"})'
      <4>1. outcome[<<m, j>>] = "pending"
        BY <2>5, <3>2 DEF PaidTypeOK
      <4>2. QED
        BY <2>1, <4>1 DEF OutcomeInv, Sure, Key, N, K, Stages
    <3>3. \A d \in Call : call'[d] = call[d]
      BY <2>1
    <3>4. QED
      BY <2>1, <3>1, <3>2, <3>3 DEF OutcomeInv, Sure, Stages, N
  <2>10. QED
    BY <2>4, <2>6, <2>7, <2>8, <2>9 DEF OutcomeInv
<1>6. CASE Restart
  <2>1. /\ \A c \in Call : call'[c].stage = "idle" /\ call'[c].got = "none"
        /\ outcome' = outcomeRow /\ sure' = {}
        /\ UNCHANGED <<outcomeRow, shut, produced, captured>>
    BY <1>6 DEF Restart, Idle, stored
  <2>2. Phases'
    BY <2>1 DEF Phases, Phase, Stages, At
  <2>3. Agree' /\ Paid' /\ Sure'
    BY <2>1 DEF OutcomeInv, Agree, Paid, Sure, Stages
  <2>4. Made'
    BY <2>1 DEF OutcomeInv, Made, Good
  <2>5. QED
    BY <2>2, <2>3, <2>4 DEF OutcomeInv
<1>7. QED
  BY <1>3, <1>4, <1>5, <1>6 DEF Next, Evict, Shut, ExpireLedger, vars, stored, history

Whole == "evict" \notin Drift /\ "save" \notin Drift /\ "load" \notin Drift

LEMMA OutcomeNext ==
  Whole /\ PaidTypeOK /\ PaidTypeOK' /\ LedgerInv /\ OutcomeInv /\ [Next]_vars => OutcomeInv'
<1>1. SUFFICES ASSUME Whole, PaidTypeOK, PaidTypeOK', LedgerInv, OutcomeInv, [Next]_vars
               PROVE  OutcomeInv'
  OBVIOUS
<1>2. ASSUME NEW c \in Call, Step(c) \/ Lock(c) PROVE OutcomeInv'
  <2>1. Facts(c)
    BY <1>1, <1>2, StepFrame, StepEffect, StepOutcome, StepHistory, OverStays DEF Facts, Whole
  <2>2. QED
    BY <1>2, <2>1, PhasesStep, AgreeStep, MadeStep, PaidStep, SureStep DEF OutcomeInv
<1>3. QED
  BY <1>1, <1>2, OutcomeOther DEF Whole

LEMMA OutcomeInit == Init => OutcomeInv
BY DEF Init, OutcomeInv, Phases, Phase, Agree, Made, Paid, Sure, Good, Stages, At, Idle

LEMMA PaidInvariance == Whole => (Spec => [](PaidTypeOK /\ LedgerInv /\ OutcomeInv))
<1>1. SUFFICES ASSUME Whole PROVE Spec => [](PaidTypeOK /\ LedgerInv /\ OutcomeInv)
  OBVIOUS
<1>2. Spec => [](PaidTypeOK /\ LedgerInv)
  BY <1>1, LedgerInvariance DEF Whole
<1>3. PaidTypeOK /\ PaidTypeOK' /\ LedgerInv /\ OutcomeInv /\ [Next]_vars => OutcomeInv'
  BY <1>1, OutcomeNext
<1>4. QED
  BY <1>2, <1>3, OutcomeInit, PTL DEF Spec

(* The tool never runs for a nonce and request whose outcome is recorded in *)
(* memory or store, for any interleaving of retries, failures and restarts. *)
THEOREM NeverRerun ==
  ASSUME Whole
  PROVE  Spec => []NeverRunAgain
<1>1. OutcomeInv => NeverRunAgain
  BY DEF OutcomeInv, Phases, Phase, Stages, At, NeverRunAgain
<1>2. Spec => [](PaidTypeOK /\ LedgerInv /\ OutcomeInv)
  BY PaidInvariance
<1>3. QED
  BY <1>1, <1>2, PTL

(* Money is taken only for a result that exists, and the result stays in    *)
(* memory while the proof is good, over restarts too.                       *)
THEOREM ResultKept ==
  ASSUME Whole
  PROVE  Spec => []PaidResultKept
<1>1. OutcomeInv => PaidResultKept
  BY DEF OutcomeInv, Paid, Good, PaidResultKept
<1>2. Spec => [](PaidTypeOK /\ LedgerInv /\ OutcomeInv)
  BY PaidInvariance
<1>3. QED
  BY <1>1, <1>2, PTL

(* A settlement is only sent for a nonce not known to be settled.           *)
THEOREM NotSettledTwice ==
  ASSUME Whole
  PROVE  Spec => []SettledOnce
<1>1. OutcomeInv => SettledOnce
  BY DEF OutcomeInv, Phases, Phase, Sure, Stages, At, SettledOnce
<1>2. Spec => [](PaidTypeOK /\ LedgerInv /\ OutcomeInv)
  BY PaidInvariance
<1>3. QED
  BY <1>1, <1>2, PTL
=============================================================================
