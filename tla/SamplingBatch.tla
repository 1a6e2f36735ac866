--------------------------- MODULE SamplingBatch ---------------------------
(***************************************************************************)
(* One run of the sampling orchestrator over its accounts                  *)
(* (src/src/meter/sampler.rs, run and execute_requests): the main thread   *)
(* takes the accounts through due determination and lease acquisition, a   *)
(* scope of worker threads executes the requests, pulling slots from one   *)
(* shared counter, and the main thread persists the products in slot order *)
(* and gives each lease back.                                              *)
(*                                                                         *)
(* Accounts are the positions 1..N of the input.  A slot is a position in  *)
(* the sequence leased; the code counts slots from zero, this module from  *)
(* one.  What other processes do decides which outcome a step has.         *)
(***************************************************************************)
EXTENDS Integers, Sequences

CONSTANTS N,             \* configured accounts of the batch
          MaxConcurrent  \* max_concurrent_requests

\* The configuration refuses a count of zero.
ASSUME BatchAssumption == N \in Nat /\ MaxConcurrent \in Nat \ {0}

VARIABLES stage,      \* where run() is
          next,       \* the account stages 1 and 2 are at
          leased,     \* LeasedAttempt.index of every slot
          next_slot,  \* the workers' shared counter
          worker,     \* worker -> "off", "fetch", "request" or "ended"
          slot,       \* worker -> the slot it took last
          products,   \* slot -> its payload
          persisted,  \* slots persist_one is through with
          released,   \* slots whose release was tried
          report,     \* account -> its disposition
          rows,       \* accounts whose lease row names this run
          stuck       \* accounts whose release failed

main == <<stage, next, leased, persisted, released, report, rows, stuck>>
threads == <<next_slot, worker, slot, products>>
vars == <<main, threads>>

Accounts == 1..N
Slots == 1..Len(leased)
Workers == 1..MaxConcurrent

Refusals == {"NotYet", "DueLookupFailed", "LeaseHeld", "EligibilityFailed"}
Persisted == {"Sampled", "Spooled", "PersistFailed"}
Payloads == {"none", "measured", "failed"}

BatchTypeOK ==
    /\ stage \in {"leasing", "execute", "persist", "done"}
    /\ next \in 1..N + 1
    /\ leased \in Seq(Accounts)
    /\ Len(leased) < next
    /\ next_slot \in Nat \ {0}
    /\ worker \in [Workers -> {"off", "fetch", "request", "ended"}]
    /\ slot \in [Workers -> Nat]
    /\ products \in [Accounts -> Payloads]
    /\ persisted \in 0..Len(leased)
    /\ released \in 0..persisted
    /\ report \in [Accounts -> {"none"} \cup Refusals \cup Persisted]
    /\ rows \subseteq Accounts
    /\ stuck \subseteq rows

Init ==
    /\ stage = "leasing" /\ next = 1 /\ leased = <<>>
    /\ next_slot = 1
    /\ worker = [w \in Workers |-> "off"]
    /\ slot = [w \in Workers |-> 0]
    /\ products = [s \in Accounts |-> "none"]
    /\ persisted = 0 /\ released = 0
    /\ report = [i \in Accounts |-> "none"]
    /\ rows = {} /\ stuck = {}

----------------------------------------------------------------------------
(* Stages 1 and 2, one account after the other.                            *)

Leasing == stage = "leasing" /\ next <= N

\* Not due, no evidence snapshot, the lease refused, or an error on the way to
\* it: the account is reported and the run holds nothing of it.
Refuse(disposition) ==
    /\ Leasing
    /\ disposition \in Refusals
    /\ report' = [report EXCEPT ![next] = disposition]
    /\ next' = next + 1
    /\ UNCHANGED <<stage, leased, persisted, released, rows, stuck, threads>>

\* Refused under the lease (no attempt owed any more, or a store error), and
\* the release before the report fails too: its error is ignored.
RefuseAndKeepRow(disposition) ==
    /\ Leasing
    /\ disposition \in {"NotYet", "EligibilityFailed"}
    /\ report' = [report EXCEPT ![next] = disposition]
    /\ next' = next + 1
    /\ rows' = rows \cup {next}
    /\ stuck' = stuck \cup {next}
    /\ UNCHANGED <<stage, leased, persisted, released, threads>>

\* The lease is granted and the attempt's start committed.
Lease ==
    /\ Leasing
    /\ leased' = Append(leased, next)
    /\ rows' = rows \cup {next}
    /\ next' = next + 1
    /\ UNCHANGED <<stage, persisted, released, report, stuck, threads>>

----------------------------------------------------------------------------
(* Stage 3: execute_requests.                                              *)

\* At most max_concurrent_requests workers, and no more than there are slots.
Spawn ==
    /\ stage = "leasing" /\ next = N + 1
    /\ stage' = "execute"
    /\ worker' = [w \in Workers |-> IF w <= Len(leased) THEN "fetch" ELSE "off"]
    /\ UNCHANGED <<next, leased, persisted, released, report, rows, stuck,
                   next_slot, slot, products>>

\* Mutant: the counter is read and not advanced.
FetchWithoutAdd(w) ==
    /\ worker[w] = "fetch"
    /\ slot' = [slot EXCEPT ![w] = next_slot]
    /\ worker' = [worker EXCEPT ![w] = IF next_slot > Len(leased) THEN "ended"
                                                                  ELSE "request"]
    /\ UNCHANGED <<main, next_slot, products>>

\* Mutant: the last slot is taken for the end of the queue.
FetchAllButTheLast(w) ==
    /\ worker[w] = "fetch"
    /\ slot' = [slot EXCEPT ![w] = next_slot]
    /\ next_slot' = next_slot + 1
    /\ worker' = [worker EXCEPT ![w] = IF next_slot >= Len(leased) THEN "ended"
                                                                   ELSE "request"]
    /\ UNCHANGED <<main, products>>

\* fetch_add: the old value is the worker's slot, or tells it to end.
Fetch(w) ==
    /\ worker[w] = "fetch"
    /\ slot' = [slot EXCEPT ![w] = next_slot]
    /\ next_slot' = next_slot + 1
    /\ worker' = [worker EXCEPT ![w] = IF next_slot > Len(leased) THEN "ended"
                                                                  ELSE "request"]
    /\ UNCHANGED <<main, products>>

\* Mutant: a failed request leaves no payload.
AnswerOnlyReadings(w) ==
    /\ worker[w] = "request"
    /\ \E payload \in {"none", "measured"} :
          products' = [products EXCEPT ![slot[w]] = payload]
    /\ worker' = [worker EXCEPT ![w] = "fetch"]
    /\ UNCHANGED <<main, next_slot, slot>>

\* attempt_request ends, with a reading, a rejection or a failure (the command
\* budget's expiry is one), and its payload is stored under the mutex.
Answer(w) ==
    /\ worker[w] = "request"
    /\ \E payload \in {"measured", "failed"} :
          products' = [products EXCEPT ![slot[w]] = payload]
    /\ worker' = [worker EXCEPT ![w] = "fetch"]
    /\ UNCHANGED <<main, next_slot, slot>>

\* The scope joins every worker it spawned.
Join ==
    /\ stage = "execute"
    /\ \A w \in Workers : worker[w] \in {"off", "ended"}
    /\ stage' = "persist"
    /\ UNCHANGED <<next, leased, persisted, released, report, rows, stuck, threads>>

----------------------------------------------------------------------------
(* Stage 4: persist_one and the release, slot by slot.                     *)

AtSlot == /\ stage = "persist"
          /\ released = persisted
          /\ persisted < Len(leased)

\* Mutant: the report is filed under the slot, not under the account's index.
PersistUnderSlot(disposition) ==
    /\ AtSlot
    /\ products[persisted + 1] # "none"
    /\ disposition = "Spooled" => products[persisted + 1] = "measured"
    /\ report' = [report EXCEPT ![persisted + 1] = disposition]
    /\ persisted' = persisted + 1
    /\ UNCHANGED <<stage, next, leased, released, rows, stuck, threads>>

\* Only a measured reading is spooled; a store failure is this account's alone.
\* On a slot without a payload run() panics, which ends it here.
Persist(disposition) ==
    /\ AtSlot
    /\ products[persisted + 1] # "none"
    /\ disposition = "Spooled" => products[persisted + 1] = "measured"
    /\ report' = [report EXCEPT ![leased[persisted + 1]] = disposition]
    /\ persisted' = persisted + 1
    /\ UNCHANGED <<stage, next, leased, released, rows, stuck, threads>>

\* Mutant: the account of the next slot is released.
ReleasesTheNext == leased[IF persisted < Len(leased) THEN persisted + 1 ELSE persisted]

\* The account whose persistence just ended.
Releases == leased[persisted]

Release ==
    /\ released < persisted
    /\ released' = persisted
    /\ rows' = rows \ {Releases}
    /\ UNCHANGED <<stage, next, leased, persisted, report, stuck, threads>>

ReleaseFails ==
    /\ released < persisted
    /\ released' = persisted
    /\ stuck' = stuck \cup {Releases}
    /\ UNCHANGED <<stage, next, leased, persisted, report, rows, threads>>

Return ==
    /\ stage = "persist"
    /\ released = Len(leased)
    /\ stage' = "done"
    /\ UNCHANGED <<next, leased, persisted, released, report, rows, stuck, threads>>

WorkerStep(w) == Fetch(w) \/ Answer(w)

MainStep ==
    \/ \E d \in Refusals : Refuse(d) \/ RefuseAndKeepRow(d)
    \/ Lease \/ Spawn \/ Join
    \/ (\E d \in Persisted : Persist(d)) \/ Release \/ ReleaseFails \/ Return

Next == MainStep \/ (\E w \in Workers : WorkerStep(w))

Spec == Init /\ [][Next]_vars

\* Every thread is scheduled, and a request ends: its timeouts are clipped to
\* what remains of the command budget.
FairSpec == Spec /\ WF_vars(MainStep) /\ \A w \in Workers : WF_vars(WorkerStep(w))

----------------------------------------------------------------------------
(* Properties.                                                             *)

(***************************************************************************)
(* Each leased attempt makes its single network try once: no two workers   *)
(* are at one slot, and none is at a slot that already has its payload.    *)
(***************************************************************************)
SlotIsRunOnce ==
    \A w \in Workers : worker[w] = "request" =>
        /\ products[slot[w]] = "none"
        /\ \A v \in Workers \ {w} : worker[v] = "request" => slot[v] # slot[w]

(***************************************************************************)
(* "The scoped-thread join guarantees one" (run, the panic it rules out):  *)
(* once the workers are joined, no slot is without a payload.              *)
(***************************************************************************)
JoinLeavesNoHole ==
    stage \in {"persist", "done"} => \A s \in Slots : products[s] # "none"

(***************************************************************************)
(* "Every input account is accounted for" (run, the panic it rules out):   *)
(* the report a run returns names every account.                           *)
(***************************************************************************)
EveryAccountIsReported ==
    stage = "done" => \A i \in Accounts : report[i] # "none"

(***************************************************************************)
(* Exactly once (AccountDisposition): a disposition one stage filed is     *)
(* never replaced by a later stage's, although slots and accounts differ.  *)
(***************************************************************************)
ReportIsFiledOnce ==
    [][\A i \in Accounts : report[i] # "none" => report'[i] = report[i]]_vars

(***************************************************************************)
(* A run gives back what it took, and not early: an account keeps its row  *)
(* from its attempt's start until its own terminal fact was persisted, and *)
(* a row outlives the run only if its release failed.                      *)
(***************************************************************************)
LeasesAreReturned ==
    /\ \A s \in Slots : s > persisted => leased[s] \in rows
    /\ stage = "done" => rows = stuck

(***************************************************************************)
(* A run returns: no request, however it ends, and no failure to persist   *)
(* or to release keeps the other accounts' facts from being persisted.     *)
(***************************************************************************)
RunReturns == <>(stage = "done")
=============================================================================
