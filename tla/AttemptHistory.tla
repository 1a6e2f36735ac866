--------------------------- MODULE AttemptHistory ---------------------------
(***************************************************************************)
(* One account's attempts as the database keeps them, and the transactions *)
(* that fill them in, whoever runs them.                                   *)
(*                                                                         *)
(*   src/src/store/meter_attempt.rs, src/src/store/repository.rs           *)
(*   src/src/meter/sampler.rs     persist_one                              *)
(*                                                                         *)
(* A request may outlive its lease, so several attempts may be in flight.  *)
(* An attempt's reading may be left in the spool (LeftPending) and enter   *)
(* the database through a later drain.  Clocks never step backwards.       *)
(***************************************************************************)
EXTENDS DueDecision

CONSTANTS RetryAfters,   \* durations a Retry-After header may carry
          ResetTimes,    \* reset instants a provider may report
          Contexts,      \* credential contexts, "none" for no context
          MaxTime,       \* bound on the clock
          MaxAttempts    \* bound on the history

ASSUME ScheduleAssumption ==
    /\ RetryAfters \subseteq Nat
    /\ ResetTimes \subseteq Nat
    /\ MaxTime \in Nat
    /\ MaxAttempts \in Nat

VARIABLES clock,
          history,  \* meter_attempt joined with meter_attempt_result
          newest    \* row of the last inserted observation's attempt, 0 if none

Database == <<history, newest>>

\* Without a result row an attempt is in flight, spooled or lost for good.
Outcomes == Terminals \cup {"inflight", "spooled", "lost"}

Attempt == [due : Int, reason : Reasons, start : Nat, context : Contexts,
            outcome : Outcomes, finish : Nat, retry : SUBSET RetryAfters,
            resets : SUBSET ResetTimes]

HistoryTypeOK ==
    /\ clock \in Nat
    /\ history \in Seq(Attempt)
    /\ newest \in 0..Len(history)

NoHistory == clock = 0 /\ history = <<>> /\ newest = 0

----------------------------------------------------------------------------
\* windows_by_observation of newest_observation_for_account.
KnownResets == IF newest = 0 THEN {} ELSE history[newest].resets

Decision(now, forced, ctx) ==
    Evaluate(history, KnownResets, now, forced, AuthStreak(history),
             CredentialChanged(history, ctx))

InFlight == {i \in DOMAIN history : history[i].outcome = "inflight"}
Spooled == {i \in DOMAIN history : history[i].outcome = "spooled"}

\* The result and observation of every row in S enter the database, last's last.
Commit(S, last) ==
    /\ history' = [i \in DOMAIN history |->
                      IF i \in S THEN [history[i] EXCEPT !.outcome = "success"]
                                 ELSE history[i]]
    /\ newest' = last

\* The spool is drained when a command starts, in any order of its records.
DrainSpool ==
    \/ Spooled = {} /\ UNCHANGED Database
    \/ \E last \in Spooled : Commit(Spooled, last)

\* start_meter_attempt commits the row a decision described.
start_meter_attempt(due, reason, start, ctx) ==
    /\ history' = Append(history,
           [due |-> due, reason |-> reason, start |-> start, context |-> ctx,
            outcome |-> "inflight", finish |-> 0, retry |-> {}, resets |-> {}])
    /\ UNCHANGED <<clock, newest>>

\* The answer is received now and fills in the result row of attempt i.
Answer(i, outcome, retry, resets) ==
    history' = [history EXCEPT ![i].outcome = outcome, ![i].finish = clock,
                               ![i].retry = retry, ![i].resets = resets]

\* spool_then_commit: the reading is committed, or left pending.
Measure(i) ==
    /\ i \in InFlight
    /\ \E resets \in SUBSET ResetTimes :
          \/ Answer(i, "success", {}, resets) /\ newest' = i
          \/ Answer(i, "spooled", {}, resets) /\ UNCHANGED newest
    /\ UNCHANGED clock

\* commit_terminal_result.
Fail(i) ==
    /\ i \in InFlight
    /\ \/ \E outcome \in {"auth", "unreachable", "limited"} :
             Answer(i, outcome, {}, {})
       \/ \E r \in RetryAfters : Answer(i, "limited", {r}, {})
    /\ UNCHANGED <<clock, newest>>

\* The process died, or its result could not be written: no row, ever.
Lose(i) ==
    /\ i \in InFlight
    /\ history' = [history EXCEPT ![i].outcome = "lost"]
    /\ UNCHANGED <<clock, newest>>

\* Any other command drains a pending record.
Drain(i) ==
    /\ i \in Spooled
    /\ Commit({i}, i)
    /\ UNCHANGED clock

----------------------------------------------------------------------------
(* Properties.                                                             *)

\* No opportunity is sampled twice: an attempt's due instant is later than the
\* due instant of every earlier attempt, unless an operator forced it, and
\* never lies after the attempt's start.  A retry, a second invocation, a late
\* tick or a late drain cannot make evaluate() return a slot it already spent.
SlotIsSpentOnce ==
    \A j \in DOMAIN history :
        /\ history[j].due <= history[j].start
        /\ \A i \in 1..(j - 1) :
              /\ history[i].due <= history[j].due
              /\ history[j].reason # "ForcedOrManual" =>
                     history[i].due < history[j].due

\* Ordinary attempts stay a cadence apart on the grid of due instants, whatever
\* attempts of other kinds fall between them, however late each one ran and
\* however long an outage was caught up on: n of them need n - 1 cadences.
OrdinaryGridKeepsItsPace ==
    \A i, j \in DOMAIN history :
        (i < j /\ history[j].reason = "OrdinaryCadence")
            => history[j].due >= history[i].due + Cadence

=============================================================================
