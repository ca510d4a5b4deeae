----------------------------- MODULE PaidCalls -----------------------------
(***************************************************************************)
(* Tool calls paid by x402 (payment.go, nonce_ledger.go): goroutines that  *)
(* each carry one gated tools/call from its proof of payment over the      *)
(* single-use ledger of nonces and the run of the tool to the settlement,  *)
(* with the ledger and the outcomes kept in memory and in the store.       *)
(*                                                                         *)
(* One action per critical section of nonceMu and paymentMu, per statement *)
(* on the store and per call of the facilitator or of the tool.  Nonces    *)
(* not in Nonce show only in Evict.                                        *)
(*                                                                         *)
(* The proofs are those of `required` mode: a nonce and a window of        *)
(* validity.  What is kept for a nonce is kept for at least fifteen        *)
(* minutes (nonceLedgerDefaultTTL), the window is at most five             *)
(* (DefaultMaxTimeoutSeconds): shut[n] says that the window is over, and   *)
(* from then on what is recorded of n may expire.                          *)
(***************************************************************************)
EXTENDS Integers, FiniteSets

CONSTANTS
  Call,      \* the goroutines that serve gated calls
  Nonce,     \* the single-use nonces of the clients' authorizations
  Req,       \* the logical requests (request keys)
  Nobody,    \* no request, no nonce
  Drift,     \* what the base model leaves out
  MaxFaults, MaxCrashes

Kinds == {"save", "load", "evict"}

ASSUME Nobodies == Nobody \notin Req /\ Nobody \notin Nonce
ASSUME PaidBounds ==
  /\ Drift \subseteq Kinds /\ MaxFaults \in Nat /\ MaxCrashes \in Nat

VARIABLES
  call,       \* what each goroutine does, for which nonce and request
  ledger,     \* the entries of nonces in memory
  ledgerRow,  \* and in the store
  outcome,    \* the outcomes of nonce and request in memory
  outcomeRow, \* and in the store
  shut,       \* nonces whose window of validity is over
  faults, crashes,
  captured,   \* the requests the facilitator took each nonce's money for
  ran,        \* the requests whose tool was run on each nonce
  produced,   \* the requests whose tool gave a result on each nonce
  sure        \* nonces a settlement of this process's life was confirmed for

stored == <<ledgerRow, outcomeRow>>
history == <<captured, ran, produced, sure>>
vars == <<call, ledger, outcome, stored, shut, faults, crashes, history>>

Stage == {"idle", "queued", "lookup", "classify", "verify", "reserve", "keep",
          "undo", "refresh", "run", "cache", "save", "settle", "commit",
          "spend", "mark"}
\* No outcome; an error, which is not charged; a result to be settled or settled.
Outcome == {"none", "failed", "pending", "settled"}

Entry == [key : Req \cup {Nobody}, consumed : BOOLEAN]
NoEntry == [key |-> Nobody, consumed |-> FALSE]
Idle == [stage |-> "idle", n |-> Nobody, k |-> Nobody, got |-> "none"]

PaidTypeOK ==
  /\ call \in [Call -> [stage : Stage, n : Nonce \cup {Nobody},
                        k : Req \cup {Nobody}, got : Outcome]]
  /\ ledger \in [Nonce -> Entry] /\ ledgerRow \in [Nonce -> Entry]
  /\ outcome \in [Nonce \X Req -> Outcome]
  /\ outcomeRow \in [Nonce \X Req -> Outcome]
  /\ shut \subseteq Nonce /\ sure \subseteq Nonce
  /\ faults \in 0 .. MaxFaults /\ crashes \in 0 .. MaxCrashes
  /\ captured \in [Nonce -> SUBSET Req] /\ ran \in [Nonce -> SUBSET Req]
  /\ produced \in [Nonce -> SUBSET Req]
  /\ \A c \in Call : call[c].stage # "idle" => call[c].n \in Nonce /\ call[c].k \in Req
  /\ \A n \in Nonce :
       /\ ledger[n].consumed => ledger[n].key \in Req
       /\ ledgerRow[n].consumed => ledgerRow[n].key \in Req

Init ==
  /\ call = [c \in Call |-> Idle]
  /\ ledger = [n \in Nonce |-> NoEntry] /\ ledgerRow = ledger
  /\ outcome = [nk \in Nonce \X Req |-> "none"] /\ outcomeRow = outcome
  /\ shut = {} /\ faults = 0 /\ crashes = 0
  /\ captured = [n \in Nonce |-> {}] /\ ran = captured /\ produced = captured
  /\ sure = {}

-----------------------------------------------------------------------------
At(c, stage) == call[c].stage = stage
N(c) == call[c].n
K(c) == call[c].k
Key(c) == <<N(c), K(c)>>  \* the execution key
Holds(c) == call[c].stage \notin {"idle", "queued"}

Go(c, stage) == call' = [call EXCEPT ![c].stage = stage]
Answer(c) == call' = [call EXCEPT ![c] = Idle]
Fault == faults < MaxFaults /\ faults' = faults + 1
NoFault == UNCHANGED faults

\* A consumed row is never turned back into a reservation.
Upsert(n, e) ==
  ledgerRow' = [ledgerRow EXCEPT ![n] = IF @.consumed THEN @ ELSE e]

\* lookupNonceLocked: the cache, and the store for what is not in it.
Known(n) == IF ledger[n] # NoEntry THEN ledger[n] ELSE ledgerRow[n]
ReadFails(n) == ledger[n] = NoEntry /\ Fault

-----------------------------------------------------------------------------
\* A gated call arrives with a proof inside its window.
ToolsCall(c, n, k) ==
  /\ At(c, "idle") /\ n \notin shut
  /\ call' = [call EXCEPT ![c] = [stage |-> "queued", n |-> n, k |-> k, got |-> "none"]]
  /\ UNCHANGED <<ledger, outcome, stored, shut, faults, crashes, history>>

\* Mutant: the execution key is not locked.
LockNothing(c) ==
  /\ At(c, "queued") /\ Go(c, "lookup")
  /\ UNCHANGED <<ledger, outcome, stored, shut, faults, crashes, history>>

Lock(c) ==
  /\ At(c, "queued")
  /\ \A c2 \in Call : Holds(c2) => Key(c2) # Key(c)
  /\ Go(c, "lookup")
  /\ UNCHANGED <<ledger, outcome, stored, shut, faults, crashes, history>>

\* Mutant: a pending outcome is answered like the others.
ReplayPending(c) ==
  /\ At(c, "lookup")
  /\ IF outcome[Key(c)] = "none" THEN Go(c, "classify") ELSE Answer(c)
  /\ UNCHANGED <<ledger, outcome, stored, shut, faults, crashes, history>>

\* A recorded outcome is answered again, a pending one settled first.
ReplayCached(c) ==
  /\ At(c, "lookup")
  /\ CASE outcome[Key(c)] = "none" -> Go(c, "classify")
       [] outcome[Key(c)] = "pending" ->
            call' = [call EXCEPT ![c].stage = "settle", ![c].got = "pending"]
       [] OTHER -> Answer(c)
  /\ UNCHANGED <<ledger, outcome, stored, shut, faults, crashes, history>>

Hydrate(n) == ledger' = [ledger EXCEPT ![n] = Known(n)]
Bound(e, k) == e.key = k /\ ~e.consumed

\* classifyNonce.  The outcome of a consumed nonce is gone: ReplayCached found none.
Classify(c) ==
  /\ At(c, "classify")
  /\ \/ ReadFails(N(c)) /\ Answer(c) /\ UNCHANGED ledger
     \/ /\ Hydrate(N(c)) /\ NoFault
        /\ IF Known(N(c)) = NoEntry \/ Bound(Known(N(c)), K(c))
             THEN Go(c, "verify") ELSE Answer(c)
  /\ UNCHANGED <<outcome, stored, shut, crashes, history>>

\* The facilitator refuses a proof whose window is over; it may refuse any,
\* fail, or be cut off by a cancelled call.
Verify(c) ==
  /\ At(c, "verify")
  /\ \/ N(c) \notin shut /\ Go(c, "reserve")
     \/ Answer(c)
  /\ UNCHANGED <<ledger, outcome, stored, shut, faults, crashes, history>>

Reserve(c) ==
  /\ At(c, "reserve")
  /\ \/ ReadFails(N(c)) /\ Answer(c) /\ UNCHANGED ledger
     \/ /\ Known(N(c)) = NoEntry /\ NoFault
        /\ ledger' = [ledger EXCEPT ![N(c)] = [key |-> K(c), consumed |-> FALSE]]
        /\ Go(c, "keep")
     \/ /\ Known(N(c)) # NoEntry /\ NoFault
        /\ Hydrate(N(c))
        /\ IF Bound(Known(N(c)), K(c)) THEN Go(c, "refresh") ELSE Answer(c)
  /\ UNCHANGED <<outcome, stored, shut, crashes, history>>

\* Mutant: a failed write is logged and the call goes on.
KeepReservationAnyway(c) ==
  /\ At(c, "keep")
  /\ \/ Upsert(N(c), [key |-> K(c), consumed |-> FALSE]) /\ NoFault
     \/ Fault /\ UNCHANGED ledgerRow
  /\ Go(c, "run")
  /\ UNCHANGED <<ledger, outcome, outcomeRow, shut, crashes, history>>

\* A reservation that cannot be made durable does not proceed.
KeepReservation(c) ==
  /\ At(c, "keep")
  /\ \/ /\ Upsert(N(c), [key |-> K(c), consumed |-> FALSE])
        /\ Go(c, "run") /\ NoFault
     \/ Fault /\ Go(c, "undo") /\ UNCHANGED ledgerRow
  /\ UNCHANGED <<ledger, outcome, outcomeRow, shut, crashes, history>>

\* Mutant: the call returns without releasing its execution key.
UndoLocked(c) ==
  /\ At(c, "undo")
  /\ ledger' = [ledger EXCEPT ![N(c)] = IF Bound(@, K(c)) THEN NoEntry ELSE @]
  /\ UNCHANGED <<call, outcome, stored, shut, faults, crashes, history>>

Undo(c) ==
  /\ At(c, "undo")
  /\ ledger' = [ledger EXCEPT ![N(c)] = IF Bound(@, K(c)) THEN NoEntry ELSE @]
  /\ Answer(c)
  /\ UNCHANGED <<outcome, stored, shut, faults, crashes, history>>

\* The expiry of a reservation the request already has; failing is not fatal.
RefreshReservation(c) ==
  /\ At(c, "refresh")
  /\ \/ Upsert(N(c), [key |-> K(c), consumed |-> FALSE]) /\ NoFault
     \/ Fault /\ UNCHANGED ledgerRow
  /\ Go(c, "run")
  /\ UNCHANGED <<ledger, outcome, outcomeRow, shut, crashes, history>>

\* Mutant: a failed run releases the reservation.
RunToolReleasing(c) ==
  /\ At(c, "run")
  /\ \E got \in {"pending", "failed"} :
       /\ call' = [call EXCEPT ![c].stage = "cache", ![c].got = got]
       /\ produced' = IF got = "pending"
                        THEN [produced EXCEPT ![N(c)] = @ \cup {K(c)}] ELSE produced
       /\ ledger' = IF got = "failed" THEN [ledger EXCEPT ![N(c)] = NoEntry] ELSE ledger
       /\ ledgerRow' = IF got = "failed"
                         THEN [ledgerRow EXCEPT ![N(c)] = NoEntry] ELSE ledgerRow
  /\ ran' = [ran EXCEPT ![N(c)] = @ \cup {K(c)}]
  /\ UNCHANGED <<outcome, outcomeRow, shut, faults, crashes, captured, sure>>

\* The tool gives a result, or fails, or is cancelled.
RunTool(c) ==
  /\ At(c, "run")
  /\ \E got \in {"pending", "failed"} :
       /\ call' = [call EXCEPT ![c].stage = "cache", ![c].got = got]
       /\ produced' = IF got = "pending"
                        THEN [produced EXCEPT ![N(c)] = @ \cup {K(c)}] ELSE produced
  /\ ran' = [ran EXCEPT ![N(c)] = @ \cup {K(c)}]
  /\ UNCHANGED <<ledger, outcome, stored, shut, faults, crashes, captured, sure>>

Proceed(c) == IF call[c].got = "pending" THEN Go(c, "settle") ELSE Answer(c)

\* Mutant: the outcome is saved only once it is settled.
CacheOutcomeUnsaved(c) ==
  /\ At(c, "cache")
  /\ outcome' = [outcome EXCEPT ![Key(c)] = IF @ = "none" THEN call[c].got ELSE @]
  /\ Proceed(c)
  /\ UNCHANGED <<ledger, stored, shut, faults, crashes, history>>

\* setPaymentExecutionOutcome: only where there is none, and saved when set.
CacheOutcome(c) ==
  /\ At(c, "cache")
  /\ IF outcome[Key(c)] = "none"
       THEN outcome' = [outcome EXCEPT ![Key(c)] = call[c].got] /\ Go(c, "save")
       ELSE Proceed(c) /\ UNCHANGED outcome
  /\ UNCHANGED <<ledger, stored, shut, faults, crashes, history>>

SaveOutcome(c) ==
  /\ At(c, "save")
  /\ \/ outcomeRow' = [outcomeRow EXCEPT ![Key(c)] = call[c].got] /\ NoFault
     \/ "save" \in Drift /\ Fault /\ UNCHANGED outcomeRow
  /\ Proceed(c)
  /\ UNCHANGED <<ledger, outcome, ledgerRow, shut, crashes, history>>

Capture(c) == captured' = [captured EXCEPT ![N(c)] = @ \cup {K(c)}]
Settled(c) ==
  /\ At(c, "settle")
  /\ Capture(c) /\ sure' = sure \cup {N(c)}
  /\ Go(c, "commit")
  /\ UNCHANGED <<ledger, outcome, stored, shut, faults, crashes, ran, produced>>

\* Refused or failed, or done and the answer lost: the outcome stays pending.
SettleFails(c) ==
  /\ At(c, "settle")
  /\ UNCHANGED captured \/ Capture(c)
  /\ Answer(c)
  /\ UNCHANGED <<ledger, outcome, stored, shut, faults, crashes, ran, produced, sure>>

\* Mutant: an entry that left the cache is not made anew.
CommitNonceEvicted(c) ==
  /\ At(c, "commit")
  /\ ledger' = [ledger EXCEPT ![N(c)].consumed = TRUE]
  /\ Go(c, "spend")
  /\ UNCHANGED <<outcome, stored, shut, faults, crashes, history>>

\* commitNonce, in memory and then in the store.
CommitNonce(c) ==
  /\ At(c, "commit")
  /\ ledger' = [ledger EXCEPT ![N(c)] =
       [key |-> IF @ = NoEntry THEN K(c) ELSE @.key, consumed |-> TRUE]]
  /\ Go(c, "spend")
  /\ UNCHANGED <<outcome, stored, shut, faults, crashes, history>>

\* The entry it writes is the request's own (OneRequestPerNonce).
SpendNonce(c) ==
  /\ At(c, "spend")
  /\ \/ Upsert(N(c), [key |-> K(c), consumed |-> TRUE]) /\ NoFault
     \/ Fault /\ UNCHANGED ledgerRow
  /\ Go(c, "mark")
  /\ UNCHANGED <<ledger, outcome, outcomeRow, shut, crashes, history>>

\* Mutant: the settled outcome is written to the store, not to the cache.
MarkStored(c) ==
  /\ At(c, "mark")
  /\ \/ outcomeRow' = [outcomeRow EXCEPT ![Key(c)] = "settled"] /\ NoFault
     \/ Fault /\ UNCHANGED outcomeRow
  /\ Answer(c)
  /\ UNCHANGED <<ledger, ledgerRow, outcome, shut, crashes, history>>

\* An outcome that expired meanwhile is recorded anew.
MarkSettled(c) ==
  /\ At(c, "mark")
  /\ IF outcome[Key(c)] = "none"
       THEN /\ call' = [call EXCEPT ![c].stage = "cache", ![c].got = "settled"]
            /\ UNCHANGED <<outcome, outcomeRow, faults>>
       ELSE /\ outcome' = [outcome EXCEPT ![Key(c)] = "settled"]
            /\ \/ outcomeRow' = [outcomeRow EXCEPT ![Key(c)] = "settled"] /\ NoFault
               \/ Fault /\ UNCHANGED outcomeRow
            /\ Answer(c)
  /\ UNCHANGED <<ledger, ledgerRow, shut, crashes, history>>

-----------------------------------------------------------------------------
\* enforceNonceCapLocked: the reservations of other nonces push the entry of n
\* out of the cache.  The drift "evict" lets that happen to a live reservation
\* that is not in the store yet.
Evict(n) ==
  /\ ledger[n] # NoEntry
  /\ "evict" \in Drift \/ ledgerRow[n] # NoEntry
  /\ ledger' = [ledger EXCEPT ![n] = NoEntry]
  /\ UNCHANGED <<call, outcome, stored, shut, faults, crashes, history>>

\* The window of a nonce ends.
Shut(n) ==
  /\ n \notin shut /\ shut' = shut \cup {n}
  /\ UNCHANGED <<call, ledger, outcome, stored, faults, crashes, history>>

\* Ten minutes later, what is recorded of it is pruned and swept.  No call is
\* between its verification and its reservation for so long.
Expirable(n) == n \in shut /\ \A c \in Call : N(c) = n => ~At(c, "reserve")
ExpireLedger(n) ==
  /\ Expirable(n)
  /\ \/ ledger' = [ledger EXCEPT ![n] = NoEntry] /\ UNCHANGED ledgerRow
     \/ ledgerRow' = [ledgerRow EXCEPT ![n] = NoEntry] /\ UNCHANGED ledger
  /\ UNCHANGED <<call, outcome, outcomeRow, shut, faults, crashes, history>>
ExpireOutcome(n, k) ==
  /\ Expirable(n)
  /\ \/ outcome' = [outcome EXCEPT ![<<n, k>>] = "none"] /\ UNCHANGED outcomeRow
     \/ outcomeRow' = [outcomeRow EXCEPT ![<<n, k>>] = "none"] /\ UNCHANGED outcome
  /\ UNCHANGED <<call, ledger, ledgerRow, shut, faults, crashes, history>>

\* restoreRuntimeState.  A ledger that cannot be listed is read nonce by nonce.
Restart ==
  /\ crashes < MaxCrashes /\ crashes' = crashes + 1
  /\ call' = [c \in Call |-> Idle]
  /\ \/ ledger' = ledgerRow /\ NoFault
     \/ Fault /\ ledger' = [n \in Nonce |-> NoEntry]
  /\ \/ outcome' = outcomeRow
     \/ "load" \in Drift /\ outcome' = [nk \in Nonce \X Req |-> "none"]
  /\ sure' = {}
  /\ UNCHANGED <<stored, shut, captured, ran, produced>>

Step(c) ==
  \/ ReplayCached(c) \/ Classify(c) \/ Verify(c) \/ Reserve(c)
  \/ KeepReservation(c) \/ Undo(c) \/ RefreshReservation(c) \/ RunTool(c)
  \/ CacheOutcome(c) \/ SaveOutcome(c) \/ Settled(c) \/ SettleFails(c)
  \/ CommitNonce(c) \/ SpendNonce(c) \/ MarkSettled(c)
Next ==
  \/ \E c \in Call : Step(c) \/ Lock(c)
  \/ \E c \in Call, n \in Nonce, k \in Req : ToolsCall(c, n, k)
  \/ \E n \in Nonce : Evict(n) \/ Shut(n) \/ ExpireLedger(n) \/ \E k \in Req : ExpireOutcome(n, k)
  \/ Restart

Spec == Init /\ [][Next]_vars

\* Goroutines run, a mutex goes to everyone who waits for it, a client that
\* has no answer tries again, and the facilitator does not refuse for ever.
Fairness ==
  /\ \A c \in Call : WF_vars(Step(c)) /\ SF_vars(Lock(c)) /\ SF_vars(Settled(c))
  /\ \A n \in Nonce, k \in Req : SF_vars(\E c \in Call : ToolsCall(c, n, k))
FairSpec == Spec /\ Fairness

-----------------------------------------------------------------------------
\* A nonce pays for one request: whatever calls, failed writes, evictions and
\* restarts come in between, no two requests have run on it
\* (reserveNonce: "cannot reach tool execution").
OneRequestPerNonce == \A n \in Nonce : Cardinality(ran[n]) <= 1

\* The tool is not run for a nonce and request whose outcome, of this life of
\* the process or an earlier one, is still recorded anywhere
\* (replayCachedPaymentOutcomeIfAny, "Never a second execution or re-charge").
NeverRunAgain ==
  \A c \in Call : At(c, "run") => outcome[Key(c)] = "none" /\ outcomeRow[Key(c)] = "none"

\* Money is taken only for a request whose tool gave a result, and the result
\* stays at hand for the client as long as its proof is good
\* (prunePaymentOutcomesLocked, #697).
PaidResultKept ==
  \A n \in Nonce : \A k \in captured[n] :
    /\ k \in produced[n]
    /\ n \notin shut => outcome[<<n, k>>] \in {"pending", "settled"}

\* No settlement is sent for a nonce that this process knows to be settled or
\* whose outcome is stored as settled (#657).
SettledOnce ==
  \A c \in Call : At(c, "settle") => N(c) \notin sure /\ outcomeRow[Key(c)] # "settled"

\* Within its window the row of a nonce stays, keeps its request, and once
\* consumed stays so (UpsertMCPNonceLedger, "Consumption is monotonic").
LedgerHolds ==
  [][\A n \in Nonce \ shut : ledgerRow[n] # NoEntry =>
       /\ ledgerRow'[n].key = ledgerRow[n].key
       /\ ledgerRow[n].consumed => ledgerRow'[n].consumed]_vars

\* A result that is stored and waits for its settlement is settled in the end,
\* over failed settlements, lost answers and restarts, if its window lasts
\* (replayCachedPaymentOutcomeIfAny drives it on every retry).
StoredResultSettles ==
  \A n \in Nonce, k \in Req :
    outcomeRow[<<n, k>>] = "pending" ~> outcome[<<n, k>>] = "settled" \/ n \in shut

\* Every call is answered: none waits for ever on its execution key
\* (lockForExecutionKey).
Answered == \A c \in Call : []<>At(c, "idle")
=============================================================================
