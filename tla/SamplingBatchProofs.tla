------------------------ MODULE SamplingBatchProofs ------------------------
(***************************************************************************)
(* SamplingBatch, proved for every number of accounts and of workers.      *)
(*                                                                         *)
(* RunReturns itself is left to TLC.  What it rests on is proved: every    *)
(* step of a run spends effort, a run has only so much of it, and a run    *)
(* that is not over has a step to take.                                    *)
(***************************************************************************)
EXTENDS SamplingBatch, FiniteSetTheorems, TLAPS

\* Slots are filled in the order of the accounts.
LeasedIsOrdered ==
    /\ \A s \in Slots : leased[s] < next
    /\ \A s, t \in Slots : s < t => leased[s] < leased[t]

\* Threads live in stage 3 only, and the first one is there if there is a slot.
WorkersAreScoped ==
    /\ stage # "leasing" => next = N + 1
    /\ \A w \in Workers :
          /\ worker[w] \in {"fetch", "request"} => stage = "execute"
          /\ worker[w] = "ended" => next_slot > Len(leased)
          /\ stage = "leasing" => worker[w] = "off"
    /\ (stage # "leasing" /\ leased # <<>>) => worker[1] # "off"

\* The counter splits the slots: those below it have a payload or a worker.
CounterSplitsSlots ==
    /\ stage = "leasing" => next_slot = 1
    /\ \A w \in Workers : worker[w] = "request" =>
          slot[w] \in Slots /\ slot[w] < next_slot
    /\ \A s \in Accounts : s >= next_slot => products[s] = "none"
    /\ \A s \in Slots : s < next_slot =>
          \/ products[s] # "none"
          \/ \E w \in Workers : worker[w] = "request" /\ slot[w] = s

\* An account is without a report while it waits for a later stage.
Waiting(i) == i >= next \/ \E s \in Slots : s > persisted /\ leased[s] = i
ReportsFollow ==
    /\ stage \in {"leasing", "execute"} => persisted = 0
    /\ stage = "done" => released = Len(leased)
    /\ \A i \in Accounts : report[i] = "none" <=> Waiting(i)

\* A row in the table is a slot's whose release was not tried, or is stuck.
RowsFollow ==
    /\ persisted <= released + 1
    /\ \A i \in rows : i < next
    /\ \A s \in Slots : s > released => leased[s] \in rows \ stuck
    /\ \A i \in rows \ stuck : \E s \in Slots : s > released /\ leased[s] = i

BatchInv ==
    /\ BatchTypeOK
    /\ LeasedIsOrdered
    /\ WorkersAreScoped
    /\ CounterSplitsSlots
    /\ SlotIsRunOnce
    /\ JoinLeavesNoHole
    /\ ReportsFollow
    /\ RowsFollow

\* The run starts in the invariant.
LEMMA BatchInitInv == Init => BatchInv
<1> SUFFICES ASSUME Init PROVE BatchInv OBVIOUS
<1> Slots = {}
  BY DEF Init, Slots
<1> QED
  BY BatchAssumption DEF Init, BatchInv, BatchTypeOK, LeasedIsOrdered,
     WorkersAreScoped, CounterSplitsSlots, SlotIsRunOnce, JoinLeavesNoHole,
     ReportsFollow, Waiting, RowsFollow, Accounts, Workers, Payloads, Refusals

\* Refuse preserves the invariant.
LEMMA RefuseStep ==
    ASSUME BatchInv, NEW d \in Refusals, Refuse(d) PROVE BatchInv'
<1> USE BatchAssumption DEF Refuse, main, threads, Accounts, Workers, Slots
<1> USE DEF BatchInv
<1>1. BatchTypeOK'
  BY DEF BatchTypeOK, Leasing, Refusals
<1>2. LeasedIsOrdered'
  BY DEF BatchTypeOK, LeasedIsOrdered, Leasing, Refusals
<1>3. WorkersAreScoped'
  BY DEF WorkersAreScoped, Leasing, Refusals
<1>4. ReportsFollow'
  BY DEF BatchTypeOK, LeasedIsOrdered, ReportsFollow, Waiting, Leasing, Refusals
<1>5. RowsFollow'
  BY DEF BatchTypeOK, RowsFollow, Leasing, Refusals
<1>6. (CounterSplitsSlots /\ SlotIsRunOnce /\ JoinLeavesNoHole)'
  BY DEF CounterSplitsSlots, SlotIsRunOnce, JoinLeavesNoHole
<1> QED
  BY <1>1, <1>2, <1>3, <1>4, <1>5, <1>6

\* RefuseAndKeepRow preserves the invariant.
LEMMA RefuseAndKeepRowStep ==
    ASSUME BatchInv, NEW d \in Refusals, RefuseAndKeepRow(d) PROVE BatchInv'
<1> USE BatchAssumption DEF RefuseAndKeepRow, main, threads, Accounts, Workers, Slots
<1> USE DEF BatchInv
<1>1. BatchTypeOK'
  BY DEF BatchTypeOK, Leasing, Refusals
<1>2. LeasedIsOrdered'
  BY DEF BatchTypeOK, LeasedIsOrdered, Leasing, Refusals
<1>3. WorkersAreScoped'
  BY DEF WorkersAreScoped, Leasing, Refusals
<1>4. ReportsFollow'
  BY DEF BatchTypeOK, LeasedIsOrdered, ReportsFollow, Waiting, Leasing, Refusals
<1>5. RowsFollow'
  BY DEF BatchTypeOK, RowsFollow, Leasing, Refusals
<1>6. (CounterSplitsSlots /\ SlotIsRunOnce /\ JoinLeavesNoHole)'
  BY DEF CounterSplitsSlots, SlotIsRunOnce, JoinLeavesNoHole
<1> QED
  BY <1>1, <1>2, <1>3, <1>4, <1>5, <1>6

\* Lease preserves the invariant.
LEMMA LeaseStep ==
    ASSUME BatchInv, Lease PROVE BatchInv'
<1> USE BatchAssumption DEF Lease, main, threads, Accounts, Workers, Slots
<1> USE DEF BatchInv
<1> DEFINE L == Len(leased)
<1>a. /\ L \in Nat /\ next \in 1..N + 1
      /\ leased' \in Seq(Accounts) /\ Len(leased') = L + 1
      /\ \A s \in 1..L : leased'[s] = leased[s]
      /\ leased'[L + 1] = next
  BY DEF BatchTypeOK, Leasing
<1>1. BatchTypeOK'
  BY DEF BatchTypeOK, Leasing
<1>2. LeasedIsOrdered'
  <2>1. \A s \in 1..L + 1 : s \in 1..L \/ s = L + 1
    BY <1>a
  <2>2. \A s \in 1..L : leased[s] \in Nat
    BY <1>a DEF BatchTypeOK
  <2> QED
    BY <1>a, <2>1, <2>2 DEF LeasedIsOrdered
<1>3. WorkersAreScoped'
  BY DEF WorkersAreScoped, Leasing
<1>4. CounterSplitsSlots'
  BY DEF CounterSplitsSlots, Leasing
<1>5. JoinLeavesNoHole'
  BY DEF JoinLeavesNoHole, Leasing
<1>6. ReportsFollow'
  BY SMTT(60) DEF BatchTypeOK, ReportsFollow, Waiting, Leasing
<1>7. RowsFollow'
  <2>1. \A s \in 1..L + 1 : s \in 1..L \/ s = L + 1
    BY <1>a
  <2>2. rows' \ stuck' = (rows \ stuck) \cup {next}
    BY DEF RowsFollow, BatchTypeOK
  <2>3. L + 1 > released
    BY <1>a DEF BatchTypeOK
  <2>4. \A i \in rows' \ stuck' : \E s \in 1..L + 1 : s > released /\ leased'[s] = i
    BY <1>a, <2>2, <2>3 DEF RowsFollow
  <2> QED
    BY <1>a, <2>1, <2>2, <2>4 DEF RowsFollow, BatchTypeOK
<1>8. SlotIsRunOnce'
  BY DEF SlotIsRunOnce
<1> QED
  BY <1>1, <1>2, <1>3, <1>4, <1>5, <1>6, <1>7, <1>8

\* Spawn preserves the invariant.
LEMMA SpawnStep ==
    ASSUME BatchInv, Spawn PROVE BatchInv'
<1> USE BatchAssumption DEF Spawn, main, threads, Accounts, Workers, Slots
<1> USE DEF BatchInv
<1>1. BatchTypeOK'
  BY DEF BatchTypeOK
<1>2. WorkersAreScoped'
  BY DEF WorkersAreScoped
<1>3. CounterSplitsSlots'
  BY DEF CounterSplitsSlots
<1>4. SlotIsRunOnce'
  BY DEF SlotIsRunOnce
<1>5. JoinLeavesNoHole'
  BY DEF JoinLeavesNoHole
<1>6. ReportsFollow'
  BY DEF ReportsFollow, Waiting
<1>7. (LeasedIsOrdered /\ RowsFollow)'
  BY DEF LeasedIsOrdered, RowsFollow
<1> QED
  BY <1>1, <1>2, <1>3, <1>4, <1>5, <1>6, <1>7

\* Join preserves the invariant.
LEMMA JoinStep ==
    ASSUME BatchInv, Join PROVE BatchInv'
<1> USE BatchAssumption DEF Join, main, threads, Accounts, Workers, Slots
<1> USE DEF BatchInv
<1>1. BatchTypeOK'
  BY DEF BatchTypeOK
<1>2. WorkersAreScoped'
  BY DEF WorkersAreScoped
<1>3. CounterSplitsSlots'
  BY DEF CounterSplitsSlots
<1>4. JoinLeavesNoHole'
  <2> SUFFICES ASSUME NEW s \in Slots PROVE products[s] # "none"
    BY DEF JoinLeavesNoHole
  <2>1. leased # <<>> /\ Len(leased) \in Nat /\ next_slot \in Nat /\ 1 \in Workers
    BY DEF BatchTypeOK
  <2>2. worker[1] = "ended"
    BY <2>1 DEF WorkersAreScoped
  <2>3. s < next_slot
    BY <2>1, <2>2 DEF WorkersAreScoped
  <2> QED
    BY <2>3 DEF CounterSplitsSlots
<1>5. ReportsFollow'
  BY DEF ReportsFollow, Waiting
<1>6. (LeasedIsOrdered /\ SlotIsRunOnce /\ RowsFollow)'
  BY DEF LeasedIsOrdered, SlotIsRunOnce, RowsFollow
<1> QED
  BY <1>1, <1>2, <1>3, <1>4, <1>5, <1>6

\* Fetch preserves the invariant.
LEMMA FetchStep ==
    ASSUME BatchInv, NEW w \in Workers, Fetch(w) PROVE BatchInv'
<1> USE BatchAssumption DEF Fetch, main, threads, Accounts, Workers, Slots
<1> USE DEF BatchInv
<1>1. BatchTypeOK'
  BY DEF BatchTypeOK
<1>2. WorkersAreScoped'
  <2>1. next_slot \in Nat /\ Len(leased) \in Nat
    BY DEF BatchTypeOK
  <2>2. \A v \in Workers : worker'[v] = IF v # w THEN worker[v]
                            ELSE IF next_slot > Len(leased) THEN "ended" ELSE "request"
    BY DEF BatchTypeOK
  <2>3. stage' = stage /\ next' = next /\ leased' = leased /\ next_slot' = next_slot + 1
    BY DEF main
  <2>4. \A v \in Workers : worker'[v] = "ended" => next_slot' > Len(leased')
    BY <2>1, <2>2, <2>3 DEF WorkersAreScoped
  <2>5. \A v \in Workers :
           /\ worker'[v] \in {"fetch", "request"} => stage' = "execute"
           /\ stage' = "leasing" => worker'[v] = "off"
    BY <2>2, <2>3 DEF WorkersAreScoped
  <2>6. (stage' # "leasing" /\ leased' # <<>>) => worker'[1] # "off"
    BY <2>2, <2>3 DEF WorkersAreScoped
  <2> QED
    BY <2>3, <2>4, <2>5, <2>6 DEF WorkersAreScoped
<1>3. CounterSplitsSlots'
  BY SMTT(60) DEF BatchTypeOK, WorkersAreScoped, CounterSplitsSlots
<1>4. SlotIsRunOnce'
  BY DEF BatchTypeOK, CounterSplitsSlots, SlotIsRunOnce
<1>5. (LeasedIsOrdered /\ JoinLeavesNoHole /\ ReportsFollow /\ RowsFollow)'
  BY DEF LeasedIsOrdered, JoinLeavesNoHole, ReportsFollow, RowsFollow, Waiting
<1> QED
  BY <1>1, <1>2, <1>3, <1>4, <1>5

\* Answer preserves the invariant.
LEMMA AnswerStep ==
    ASSUME BatchInv, NEW w \in Workers, Answer(w) PROVE BatchInv'
<1> USE BatchAssumption DEF Answer, main, threads, Accounts, Workers, Slots
<1> USE DEF BatchInv
<1>1. BatchTypeOK'
  BY DEF BatchTypeOK, Payloads
<1>2. WorkersAreScoped'
  BY DEF WorkersAreScoped, Payloads
<1>3. CounterSplitsSlots'
  BY DEF BatchTypeOK, CounterSplitsSlots, Payloads
<1>4. SlotIsRunOnce'
  BY SMTT(60) DEF BatchTypeOK, SlotIsRunOnce, Payloads
<1>5. JoinLeavesNoHole'
  BY DEF JoinLeavesNoHole, Payloads
<1>6. (LeasedIsOrdered /\ ReportsFollow /\ RowsFollow)'
  BY DEF LeasedIsOrdered, ReportsFollow, RowsFollow, Waiting
<1> QED
  BY <1>1, <1>2, <1>3, <1>4, <1>5, <1>6

\* Persist preserves the invariant.
LEMMA PersistStep ==
    ASSUME BatchInv, NEW d \in Persisted, Persist(d) PROVE BatchInv'
<1> USE BatchAssumption DEF Persist, main, threads, Accounts, Workers, Slots
<1> USE DEF BatchInv
<1>1. BatchTypeOK'
  BY SMTT(60) DEF BatchTypeOK, AtSlot, Persisted
<1>2. ReportsFollow'
  <2> DEFINE k == persisted + 1
  <2>1. k \in Slots /\ leased[k] \in Accounts /\ leased[k] < next /\ persisted \in Nat
    BY DEF BatchTypeOK, AtSlot, LeasedIsOrdered
  <2>2. \A s \in Slots : s > k => leased[s] # leased[k]
    BY <2>1 DEF LeasedIsOrdered, BatchTypeOK
  <2>3. \A s \in Slots : s > persisted <=> (s = k \/ s > k)
    BY <2>1
  <2>4. ASSUME NEW i \in Accounts
        PROVE  Waiting(i)' <=> (Waiting(i) /\ i # leased[k])
    <3>1. Waiting(i)' <=> i >= next \/ \E s \in Slots : s > k /\ leased[s] = i
      BY DEF Waiting
    <3>2. Waiting(i) <=> i >= next \/ \E s \in Slots : s > persisted /\ leased[s] = i
      BY DEF Waiting
    <3>3. i >= next => i # leased[k]
      BY <2>1 DEF BatchTypeOK
    <3> HIDE DEF k, Slots
    <3> QED
      BY <2>1, <2>2, <2>3, <3>1, <3>2, <3>3
  <2>5. \A i \in Accounts : report'[i] = IF i = leased[k] THEN d ELSE report[i]
    BY DEF BatchTypeOK
  <2>6. \A i \in Accounts : report'[i] = "none" <=> Waiting(i)'
    BY <2>4, <2>5 DEF ReportsFollow, Persisted
  <2> QED
    BY <2>6 DEF ReportsFollow, AtSlot
<1>3. RowsFollow'
  BY DEF RowsFollow, AtSlot, Persisted
<1>4. (LeasedIsOrdered /\ WorkersAreScoped /\ CounterSplitsSlots /\ SlotIsRunOnce /\ JoinLeavesNoHole)'
  BY DEF LeasedIsOrdered, WorkersAreScoped, CounterSplitsSlots, SlotIsRunOnce,
     JoinLeavesNoHole
<1> QED
  BY <1>1, <1>2, <1>3, <1>4

\* Release preserves the invariant.
LEMMA ReleaseStep ==
    ASSUME BatchInv, Release PROVE BatchInv'
<1> USE BatchAssumption DEF Release, main, threads, Accounts, Workers, Slots
<1> USE DEF BatchInv
<1>a. /\ released \in Nat /\ persisted = released + 1 /\ persisted \in 1..Len(leased)
      /\ leased[persisted] \in rows \ stuck
  BY DEF BatchTypeOK, RowsFollow
<1>b. \A s \in 1..Len(leased) : s > released <=> (s = persisted \/ s > persisted)
  BY <1>a DEF BatchTypeOK
<1>c. \A s \in 1..Len(leased) : s > persisted => leased[s] # leased[persisted]
  <2> SUFFICES ASSUME NEW s \in 1..Len(leased), s > persisted
               PROVE  leased[s] # leased[persisted]
    OBVIOUS
  <2>1. leased[persisted] < leased[s] /\ leased[s] \in Nat /\ leased[persisted] \in Nat
    BY <1>a, SMTT(60) DEF LeasedIsOrdered, BatchTypeOK
  <2> QED
    BY <2>1
<1>1. BatchTypeOK'
  <2>1. stuck' \subseteq rows' /\ rows' \subseteq Accounts
    BY <1>a DEF BatchTypeOK, Releases
  <2>2. released' \in 0..persisted' /\ persisted' \in 0..Len(leased')
    BY <1>a DEF BatchTypeOK
  <2> QED
    BY <2>1, <2>2 DEF BatchTypeOK
<1>2. ReportsFollow'
  BY DEF BatchTypeOK, ReportsFollow, Waiting, Releases
<1>3. RowsFollow'
  <2>1. rows' \ stuck' = (rows \ stuck) \ {leased[persisted]}
    BY DEF Releases
  <2>2. released' = persisted /\ leased' = leased /\ persisted' = persisted /\ next' = next
    OBVIOUS
  <2>3. \A s \in 1..Len(leased) : s > persisted => leased[s] \in rows' \ stuck'
    BY <1>b, <1>c, <2>1 DEF RowsFollow
  <2>4. \A i \in rows' \ stuck' : \E s \in 1..Len(leased) : s > persisted /\ leased[s] = i
    BY <1>b, <2>1 DEF RowsFollow
  <2>5. \A i \in rows' : i < next
    BY DEF RowsFollow
  <2>6. persisted <= persisted + 1
    BY <1>a
  <2> QED
    BY <2>2, <2>3, <2>4, <2>5, <2>6 DEF RowsFollow
<1>4. (LeasedIsOrdered /\ WorkersAreScoped /\ CounterSplitsSlots /\ SlotIsRunOnce /\ JoinLeavesNoHole)'
  BY DEF LeasedIsOrdered, WorkersAreScoped, CounterSplitsSlots, SlotIsRunOnce,
     JoinLeavesNoHole
<1> QED
  BY <1>1, <1>2, <1>3, <1>4

\* ReleaseFails preserves the invariant.
LEMMA ReleaseFailsStep ==
    ASSUME BatchInv, ReleaseFails PROVE BatchInv'
<1> USE BatchAssumption DEF ReleaseFails, main, threads, Accounts, Workers, Slots
<1> USE DEF BatchInv
<1>a. /\ released \in Nat /\ persisted = released + 1 /\ persisted \in 1..Len(leased)
      /\ leased[persisted] \in rows \ stuck
  BY DEF BatchTypeOK, RowsFollow
<1>b. \A s \in 1..Len(leased) : s > released <=> (s = persisted \/ s > persisted)
  BY <1>a DEF BatchTypeOK
<1>c. \A s \in 1..Len(leased) : s > persisted => leased[s] # leased[persisted]
  <2> SUFFICES ASSUME NEW s \in 1..Len(leased), s > persisted
               PROVE  leased[s] # leased[persisted]
    OBVIOUS
  <2>1. leased[persisted] < leased[s] /\ leased[s] \in Nat /\ leased[persisted] \in Nat
    BY <1>a DEF LeasedIsOrdered, BatchTypeOK
  <2> QED
    BY <2>1
<1>1. BatchTypeOK'
  <2>1. stuck' \subseteq rows' /\ rows' \subseteq Accounts
    BY <1>a DEF BatchTypeOK, Releases
  <2>2. released' \in 0..persisted' /\ persisted' \in 0..Len(leased')
    BY <1>a DEF BatchTypeOK
  <2> QED
    BY <2>1, <2>2 DEF BatchTypeOK
<1>2. ReportsFollow'
  BY DEF BatchTypeOK, ReportsFollow, Waiting, Releases
<1>3. RowsFollow'
  <2>1. rows' \ stuck' = (rows \ stuck) \ {leased[persisted]}
    BY DEF Releases
  <2>2. released' = persisted /\ leased' = leased /\ persisted' = persisted /\ next' = next
    OBVIOUS
  <2>3. \A s \in 1..Len(leased) : s > persisted => leased[s] \in rows' \ stuck'
    BY <1>b, <1>c, <2>1 DEF RowsFollow
  <2>4. \A i \in rows' \ stuck' : \E s \in 1..Len(leased) : s > persisted /\ leased[s] = i
    BY <1>b, <2>1 DEF RowsFollow
  <2>5. \A i \in rows' : i < next
    BY DEF RowsFollow
  <2>6. persisted <= persisted + 1
    BY <1>a
  <2> QED
    BY <2>2, <2>3, <2>4, <2>5, <2>6 DEF RowsFollow
<1>4. (LeasedIsOrdered /\ WorkersAreScoped /\ CounterSplitsSlots /\ SlotIsRunOnce /\ JoinLeavesNoHole)'
  BY DEF LeasedIsOrdered, WorkersAreScoped, CounterSplitsSlots, SlotIsRunOnce,
     JoinLeavesNoHole
<1> QED
  BY <1>1, <1>2, <1>3, <1>4

\* Return preserves the invariant.
LEMMA ReturnStep ==
    ASSUME BatchInv, Return PROVE BatchInv'
<1> USE BatchAssumption DEF Return, main, threads, Accounts, Workers, Slots
<1> USE DEF BatchInv
<1>1. BatchTypeOK'
  BY DEF BatchTypeOK
<1>2. WorkersAreScoped'
  BY DEF WorkersAreScoped
<1>3. CounterSplitsSlots'
  BY DEF CounterSplitsSlots
<1>4. JoinLeavesNoHole'
  BY DEF JoinLeavesNoHole
<1>5. ReportsFollow'
  BY DEF ReportsFollow, Waiting
<1>6. (LeasedIsOrdered /\ SlotIsRunOnce /\ RowsFollow)'
  BY DEF LeasedIsOrdered, SlotIsRunOnce, RowsFollow
<1> QED
  BY <1>1, <1>2, <1>3, <1>4, <1>5, <1>6

\* Every step of a run preserves the invariant, a stuttering one too.
LEMMA BatchStep == BatchInv /\ [Next]_vars => BatchInv'
<1> SUFFICES ASSUME BatchInv, [Next]_vars PROVE BatchInv' OBVIOUS
<1>1. CASE MainStep
  BY <1>1, RefuseStep, RefuseAndKeepRowStep, LeaseStep, SpawnStep, JoinStep,
     PersistStep, ReleaseStep, ReleaseFailsStep, ReturnStep DEF MainStep
<1>2. CASE \E w \in Workers : WorkerStep(w)
  BY <1>2, FetchStep, AnswerStep DEF WorkerStep
<1>3. CASE UNCHANGED vars
  BY <1>3 DEF vars, main, threads, BatchInv, BatchTypeOK, LeasedIsOrdered,
     WorkersAreScoped, CounterSplitsSlots, SlotIsRunOnce, JoinLeavesNoHole,
     ReportsFollow, Waiting, RowsFollow, Slots
<1> QED
  BY <1>1, <1>2, <1>3 DEF Next

\* The inductive invariant of a run, for any number of accounts and workers.
THEOREM BatchInvariant == Spec => []BatchInv
<1> QED
  BY BatchInitInv, BatchStep, PTL DEF Spec

\* Type correctness of run() and execute_requests.
THEOREM BatchTypeCorrect == Spec => []BatchTypeOK
<1> BatchInv => BatchTypeOK
  BY DEF BatchInv
<1> QED
  BY BatchInvariant, PTL

\* fetch_add hands every slot to one worker: no attempt is requested twice.
THEOREM SlotsAreRunOnce == Spec => []SlotIsRunOnce
<1> BatchInv => SlotIsRunOnce
  BY DEF BatchInv
<1> QED
  BY BatchInvariant, PTL

\* The panic in stage 4 of run() cannot happen.
THEOREM RunDoesNotPanic == Spec => []JoinLeavesNoHole
<1> BatchInv => JoinLeavesNoHole
  BY DEF BatchInv
<1> QED
  BY BatchInvariant, PTL

\* The expect() that ends run() holds: every input account has its report.
THEOREM AccountsAreReported == Spec => []EveryAccountIsReported
<1>1. BatchInv => EveryAccountIsReported
  <2> SUFFICES ASSUME BatchInv, stage = "done", NEW i \in Accounts
               PROVE  report[i] # "none"
    BY DEF EveryAccountIsReported
  <2>1. next = N + 1 /\ persisted = Len(leased)
    BY DEF BatchInv, BatchTypeOK, WorkersAreScoped, ReportsFollow
  <2>2. ~Waiting(i)
    BY <2>1, BatchAssumption DEF Waiting, Slots, Accounts
  <2> QED
    BY <2>2 DEF BatchInv, ReportsFollow
<1> QED
  BY <1>1, BatchInvariant, PTL

\* A run holds each account's row until it persisted the account's fact, and
\* leaves behind only the rows whose release failed.
THEOREM RunReturnsItsLeases == Spec => []LeasesAreReturned
<1>1. BatchInv => LeasesAreReturned
  <2> SUFFICES ASSUME BatchInv PROVE LeasesAreReturned OBVIOUS
  <2>1. persisted \in Nat /\ released \in Nat /\ released <= persisted
    BY DEF BatchInv, BatchTypeOK
  <2>2. \A s \in Slots : s > persisted => leased[s] \in rows
    BY <2>1 DEF BatchInv, RowsFollow, Slots
  <2>3. ASSUME stage = "done" PROVE rows = stuck
    <3>1. released = Len(leased) /\ stuck \subseteq rows
      BY <2>3 DEF BatchInv, BatchTypeOK, ReportsFollow
    <3>2. rows \ stuck = {}
      BY <2>1, <3>1 DEF BatchInv, RowsFollow, Slots
    <3> QED
      BY <3>1, <3>2
  <2> QED
    BY <2>2, <2>3 DEF LeasesAreReturned
<1> QED
  BY <1>1, BatchInvariant, PTL

\* A disposition is filed once: no later stage replaces an earlier one's.
THEOREM ReportsAreFiledOnce == Spec => ReportIsFiledOnce
<1> DEFINE Filed == \A i \in Accounts : report[i] # "none" => report'[i] = report[i]
<1>1. BatchInv /\ [Next]_vars => [Filed]_vars
  <2> SUFFICES ASSUME BatchInv, Next, NEW i \in Accounts, report[i] # "none"
               PROVE  report'[i] = report[i]
    OBVIOUS
  <2>1. ~Waiting(i)
    BY DEF BatchInv, ReportsFollow
  <2>2. report \in [Accounts -> {"none"} \cup Refusals \cup Persisted]
    BY DEF BatchInv, BatchTypeOK
  <2>3. i # next
    BY <2>1 DEF Waiting, Accounts, BatchInv, BatchTypeOK
  <2>4. AtSlot => leased[persisted + 1] # i
    BY <2>1 DEF Waiting, AtSlot, Slots, BatchInv, BatchTypeOK
  <2>5. CASE MainStep
    BY <2>2, <2>3, <2>4, <2>5 DEF MainStep, Refuse, RefuseAndKeepRow, Lease,
       Spawn, Join, Persist, Release, ReleaseFails, Return
  <2>6. CASE \E w \in Workers : WorkerStep(w)
    BY <2>6 DEF WorkerStep, Fetch, Answer, main
  <2> QED
    BY <2>5, <2>6 DEF Next
<1> QED
  BY <1>1, BatchInvariant, PTL DEF Spec, ReportIsFiledOnce

----------------------------------------------------------------------------
(* A run comes to its end.                                                 *)

Answered == {s \in Accounts : products[s] # "none"}
Over == {w \in Workers : worker[w] = "ended"}
StageRank == CASE stage = "leasing" -> 0 [] stage = "execute" -> 1
               [] stage = "persist" -> 2 [] OTHER -> 3

\* What a run has done so far, and all it can do: the counter is advanced once
\* per slot and once by each worker that ends.
Effort == StageRank + next + next_slot + Cardinality(Answered) + persisted + released
AllEffort == 5 * N + MaxConcurrent + 5

CounterStops == next_slot <= Len(leased) + 1 + Cardinality(Over)

EffortIsLimited == Effort <= AllEffort
EveryStepIsEffort == [][Effort' > Effort]_vars

\* The guard of some step holds: what each thread of the run waits for is there.
CanMove ==
    \/ stage = "leasing"
    \/ \E w \in Workers : worker[w] \in {"fetch", "request"}
    \/ stage = "execute" /\ \A w \in Workers : worker[w] \in {"off", "ended"}
    \/ AtSlot /\ products[persisted + 1] # "none"
    \/ released < persisted
    \/ stage = "persist" /\ released = Len(leased)
NeverStuck == stage # "done" => CanMove

\* The sets that are counted are finite.
LEMMA CountedSets ==
    ASSUME BatchInv
    PROVE  /\ IsFiniteSet(Answered) /\ Cardinality(Answered) \in 0..N
           /\ IsFiniteSet(Over) /\ Cardinality(Over) \in 0..MaxConcurrent
<1>1. /\ IsFiniteSet(1..N) /\ Cardinality(1..N) = N
      /\ IsFiniteSet(1..MaxConcurrent) /\ Cardinality(1..MaxConcurrent) = MaxConcurrent
  BY FS_Interval, BatchAssumption
<1>2. /\ IsFiniteSet(Answered) /\ Cardinality(Answered) <= N
  <2>1. Answered \in SUBSET (1..N)
    BY DEF Answered, Accounts
  <2> QED
    BY <1>1, <2>1, FS_Subset, ZenonT(60)
<1>3. /\ IsFiniteSet(Over) /\ Cardinality(Over) <= MaxConcurrent
  <2>1. Over \in SUBSET (1..MaxConcurrent)
    BY DEF Over, Workers
  <2> QED
    BY <1>1, <2>1, FS_Subset, ZenonT(60)
<1> QED
  BY <1>2, <1>3, FS_CardinalityType, BatchAssumption

\* The numbers effort is made of.
LEMMA EffortShape ==
    ASSUME BatchInv
    PROVE  /\ N \in Nat /\ MaxConcurrent \in Nat
           /\ StageRank \in 0..3 /\ next \in 1..N + 1 /\ next_slot \in Nat
           /\ Len(leased) \in 0..N /\ persisted \in 0..Len(leased)
           /\ released \in 0..persisted
           /\ Cardinality(Answered) \in 0..N /\ Cardinality(Over) \in 0..MaxConcurrent
<1>1. StageRank \in 0..3
  BY DEF StageRank
<1>2. Len(leased) \in Nat /\ next \in 1..N + 1 /\ Len(leased) < next
  BY DEF BatchInv, BatchTypeOK
<1>3. next_slot \in Nat /\ persisted \in 0..Len(leased) /\ released \in 0..persisted
  BY DEF BatchInv, BatchTypeOK
<1> QED
  BY <1>1, <1>2, <1>3, CountedSets, BatchAssumption

\* In particular they are naturals.
LEMMA PartsAreNat ==
    ASSUME BatchInv
    PROVE  /\ StageRank \in Nat /\ next \in Nat /\ next_slot \in Nat
           /\ Cardinality(Answered) \in Nat /\ persisted \in Nat /\ released \in Nat
  BY EffortShape

\* No run can do more than all.
LEMMA EffortHasALimit == BatchInv /\ CounterStops => EffortIsLimited
<1> SUFFICES ASSUME BatchInv, CounterStops PROVE EffortIsLimited OBVIOUS
<1> DEFINE a == StageRank
           d == Cardinality(Answered)
<1>1. /\ N \in Nat /\ MaxConcurrent \in Nat
      /\ a \in Nat /\ next \in Nat /\ next_slot \in Nat
      /\ d \in Nat /\ persisted \in Nat /\ released \in Nat
      /\ a <= 3 /\ next <= N + 1 /\ d <= N /\ persisted <= N /\ released <= N
  BY EffortShape
<1>2. next_slot <= N + 1 + MaxConcurrent
  BY EffortShape DEF CounterStops
<1>3. Effort = a + next + next_slot + d + persisted + released
  BY DEF Effort
<1> HIDE DEF a, d
<1> QED
  BY <1>1, <1>2, <1>3 DEF EffortIsLimited, AllEffort

\* What advances one of its parts and sets none back is effort.
LEMMA PartsMakeEffort ==
    ASSUME BatchInv, NEW a \in Nat, NEW b \in Nat, NEW c \in Nat, NEW d \in Nat,
           NEW e \in Nat, NEW f \in Nat, a + b + c + d + e + f > 0,
           StageRank' = StageRank + a, next' = next + b, next_slot' = next_slot + c,
           Cardinality(Answered)' = Cardinality(Answered) + d,
           persisted' = persisted + e, released' = released + f
    PROVE  Effort' > Effort
<1> DEFINE u == StageRank
           v == Cardinality(Answered)
<1>1. /\ u \in Nat /\ next \in Nat /\ next_slot \in Nat
      /\ v \in Nat /\ persisted \in Nat /\ released \in Nat
  BY PartsAreNat
<1>2. Effort = u + next + next_slot + v + persisted + released
  BY DEF Effort
<1>3. Effort' = (u + a) + (next + b) + (next_slot + c) + (v + d)
                 + (persisted + e) + (released + f)
  BY DEF Effort
<1> HIDE DEF u, v
<1> QED
  BY <1>1, <1>2, <1>3

\* Main steps: one of the counters or the stage advances, the threads stand still
\* but for Spawn.
LEMMA MainStepIsEffort ==
    ASSUME BatchInv, MainStep PROVE Effort' > Effort
<1> USE DEF main, threads
<1>1. Cardinality(Answered)' = Cardinality(Answered) + 0
  <2>1. Answered' = Answered
    BY DEF Answered, MainStep, Refuse, RefuseAndKeepRow, Lease, Spawn, Join, Persist,
           Release, ReleaseFails, Return
  <2> QED
    BY <2>1, EffortShape
<1>2. /\ next_slot + 0 = next_slot /\ next + 0 = next /\ StageRank + 0 = StageRank
      /\ persisted + 0 = persisted /\ released + 0 = released
  BY EffortShape
<1>3. CASE (\E d \in Refusals : Refuse(d) \/ RefuseAndKeepRow(d)) \/ Lease
  <2>1. next' = next + 1 /\ UNCHANGED <<stage, next_slot, persisted, released>>
    BY <1>3 DEF Refuse, RefuseAndKeepRow, Lease
  <2>2. StageRank' = StageRank
    BY <2>1 DEF StageRank
  <2>3. 0 + 1 + 0 + 0 + 0 + 0 > 0
    OBVIOUS
  <2> QED
    BY <1>1, <1>2, <2>1, <2>2, <2>3, PartsMakeEffort
<1>4. CASE Spawn \/ Join \/ Return
  <2>1. UNCHANGED <<next, next_slot, persisted, released>>
    BY <1>4 DEF Spawn, Join, Return
  <2>2. StageRank' = StageRank + 1
    BY <1>4 DEF Spawn, Join, Return, StageRank
  <2>3. 1 + 0 + 0 + 0 + 0 + 0 > 0
    OBVIOUS
  <2> QED
    BY <1>1, <1>2, <2>1, <2>2, <2>3, PartsMakeEffort
<1>5. CASE \E d \in Persisted : Persist(d)
  <2>1. persisted' = persisted + 1 /\ UNCHANGED <<stage, next, next_slot, released>>
    BY <1>5 DEF Persist
  <2>2. StageRank' = StageRank
    BY <2>1 DEF StageRank
  <2>3. 0 + 0 + 0 + 0 + 1 + 0 > 0
    OBVIOUS
  <2> QED
    BY <1>1, <1>2, <2>1, <2>2, <2>3, PartsMakeEffort
<1>6. CASE Release \/ ReleaseFails
  <2>1. /\ released < persisted /\ released' = persisted
        /\ UNCHANGED <<stage, next, next_slot, persisted>>
    BY <1>6 DEF Release, ReleaseFails
  <2>2. StageRank' = StageRank
    BY <2>1 DEF StageRank
  <2> DEFINE f == persisted - released
  <2>3. f \in Nat /\ f > 0 /\ released' = released + f
    BY <2>1, EffortShape
  <2> HIDE DEF f
  <2>4. 0 + 0 + 0 + 0 + 0 + f > 0
    BY <2>3
  <2> QED
    BY <1>1, <1>2, <2>1, <2>2, <2>3, <2>4, PartsMakeEffort
<1> QED
  BY <1>3, <1>4, <1>5, <1>6 DEF MainStep

\* Worker steps: a slot is taken, or one more has its payload.
LEMMA WorkerStepIsEffort ==
    ASSUME BatchInv, NEW w \in Workers, WorkerStep(w) PROVE Effort' > Effort
<1>1. UNCHANGED <<stage, next, persisted, released>>
  BY DEF WorkerStep, Fetch, Answer, main
<1>2. StageRank' = StageRank
  BY <1>1 DEF StageRank
<1>3. /\ next_slot + 0 = next_slot /\ next + 0 = next /\ StageRank + 0 = StageRank
      /\ persisted + 0 = persisted /\ released + 0 = released
      /\ Cardinality(Answered) + 0 = Cardinality(Answered)
  BY EffortShape
<1>4. CASE Fetch(w)
  <2>1. next_slot' = next_slot + 1 /\ Answered' = Answered
    BY <1>4 DEF Fetch, Answered
  <2>2. 0 + 0 + 1 + 0 + 0 + 0 > 0
    OBVIOUS
  <2> QED
    BY <1>1, <1>2, <1>3, <2>1, <2>2, PartsMakeEffort
<1>5. CASE Answer(w)
  <2>1. /\ worker[w] = "request" /\ next_slot' = next_slot
        /\ \E m \in {"measured", "failed"} :
              products' = [products EXCEPT ![slot[w]] = m]
    BY <1>5 DEF Answer
  <2>2. slot[w] \in Accounts /\ products[slot[w]] = "none"
    <3>1. slot[w] \in Slots /\ products[slot[w]] = "none"
      BY <2>1 DEF BatchInv, CounterSplitsSlots, SlotIsRunOnce
    <3> QED
      BY <3>1, EffortShape DEF Slots, Accounts
  <2>3. products \in [Accounts -> Payloads]
    BY DEF BatchInv, BatchTypeOK
  <2>4. Answered' = Answered \cup {slot[w]} /\ slot[w] \notin Answered
    BY <2>1, <2>2, <2>3 DEF Answered
  <2>5. Cardinality(Answered)' = Cardinality(Answered) + 1
    BY <2>4, CountedSets, FS_AddElement
  <2>6. 0 + 0 + 0 + 1 + 0 + 0 > 0
    OBVIOUS
  <2> QED
    BY <1>1, <1>2, <1>3, <2>1, <2>5, <2>6, PartsMakeEffort
<1> QED
  BY <1>4, <1>5 DEF WorkerStep

\* The shared counter runs past the slots once per worker that ends.
LEMMA CounterStopsStep == BatchInv /\ CounterStops /\ [Next]_vars => CounterStops'
<1> SUFFICES ASSUME BatchInv, CounterStops, [Next]_vars PROVE CounterStops' OBVIOUS
<1> USE DEF main, threads
<1>1. CASE Spawn
  <2>1. next_slot' = 1 /\ leased' = leased /\ Over' = {}
    BY <1>1 DEF Spawn, BatchInv, CounterSplitsSlots, Over, Workers
  <2>2. Cardinality(Over') = 0
    BY <2>1, FS_EmptySet
  <2> QED
    BY <2>1, <2>2, EffortShape DEF CounterStops
<1>2. CASE Lease
  <2>1. Len(leased') = Len(leased) + 1 /\ UNCHANGED <<next_slot, Over>>
    BY <1>2 DEF Lease, BatchInv, BatchTypeOK, Over, Leasing, Accounts
  <2> QED
    BY <2>1, EffortShape DEF CounterStops
<1>3. CASE MainStep /\ ~Spawn /\ ~Lease
  <2>1. UNCHANGED <<leased, next_slot, Over>>
    BY <1>3 DEF MainStep, Refuse, RefuseAndKeepRow, Join, Persist, Release,
                ReleaseFails, Return, Over
  <2> QED
    BY <2>1 DEF CounterStops
<1>4. ASSUME NEW w \in Workers, Fetch(w) PROVE CounterStops'
  <2>1. /\ worker[w] = "fetch" /\ next_slot' = next_slot + 1 /\ leased' = leased
        /\ worker' = [worker EXCEPT ![w] = IF next_slot > Len(leased)
                                           THEN "ended" ELSE "request"]
        /\ worker \in [Workers -> {"off", "fetch", "request", "ended"}]
    BY <1>4 DEF Fetch, BatchInv, BatchTypeOK
  <2>2. CASE next_slot > Len(leased)
    <3>1. Over' = Over \cup {w} /\ w \notin Over
      BY <2>1, <2>2 DEF Over
    <3>2. Cardinality(Over') = Cardinality(Over) + 1
      BY <3>1, CountedSets, FS_AddElement
    <3> QED
      BY <2>1, <3>2, EffortShape DEF CounterStops
  <2>3. CASE ~(next_slot > Len(leased))
    <3>1. Over' = Over
      BY <2>1, <2>3 DEF Over
    <3> QED
      BY <2>1, <2>3, <3>1, EffortShape DEF CounterStops
  <2> QED
    BY <2>2, <2>3
<1>5. ASSUME NEW w \in Workers, Answer(w) PROVE CounterStops'
  <2>1. UNCHANGED <<leased, next_slot, Over>>
    BY <1>5 DEF Answer, Over, BatchInv, BatchTypeOK
  <2> QED
    BY <2>1 DEF CounterStops
<1>6. CASE UNCHANGED vars
  BY <1>6 DEF vars, CounterStops, Over
<1> QED
  BY <1>1, <1>2, <1>3, <1>4, <1>5, <1>6 DEF Next, WorkerStep, MainStep

\* A run that is not over has a step to take: workers wait for nobody, the join
\* waits for workers only, and no slot the main thread comes to is without its
\* payload.
THEOREM RunsAreNeverStuck == Spec => []NeverStuck
<1>1. BatchInv => NeverStuck
  <2> SUFFICES ASSUME BatchInv, stage # "done" PROVE CanMove
    BY DEF NeverStuck
  <2>1. CASE stage = "execute"
    BY <2>1 DEF CanMove, BatchInv, BatchTypeOK
  <2>2. CASE stage = "persist"
    <3>1. CASE released = persisted /\ persisted < Len(leased)
      <4>1. persisted + 1 \in Slots
        BY <3>1, EffortShape DEF Slots
      <4> QED
        BY <2>2, <3>1, <4>1 DEF CanMove, AtSlot, BatchInv, JoinLeavesNoHole
    <3>2. CASE released < persisted
      BY <3>2 DEF CanMove
    <3>3. CASE released = Len(leased)
      BY <2>2, <3>3 DEF CanMove
    <3> QED
      BY <3>1, <3>2, <3>3, EffortShape
  <2> QED
    BY <2>1, <2>2 DEF BatchInv, BatchTypeOK, CanMove
<1> QED
  BY <1>1, BatchInvariant, PTL

\* No step of a run goes in circles: whatever the requests and the store answer,
\* each one uses up some of the run's effort.
THEOREM EveryStepCounts == Spec => EveryStepIsEffort
<1>1. BatchInv /\ [Next]_vars => [Effort' > Effort]_vars
  BY MainStepIsEffort, WorkerStepIsEffort DEF Next
<1> QED
  BY <1>1, BatchInvariant, PTL DEF Spec, EveryStepIsEffort

\* And effort is limited, so a run takes at most AllEffort steps: five for an
\* account, one for each worker's last look at the counter, and three more.
THEOREM RunsAreShort == Spec => []EffortIsLimited
<1>1. Init => CounterStops
  <2> SUFFICES ASSUME Init PROVE CounterStops OBVIOUS
  <2>1. BatchInv
    BY BatchInitInv
  <2>2. next_slot = 1 /\ Len(leased) = 0
    BY DEF Init
  <2> QED
    BY <2>1, <2>2, EffortShape DEF CounterStops
<1> QED
  BY <1>1, CounterStopsStep, EffortHasALimit, BatchInvariant, PTL DEF Spec
=============================================================================
