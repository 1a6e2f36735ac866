-------------------------- MODULE SamplingSchedule --------------------------
(***************************************************************************)
(* One account's sampling schedule: timer invocations of `aub sample`      *)
(* drain the spool, take the due decision under the lease, commit an       *)
(* attempt and later its result; the history they leave decides the next.  *)
(*                                                                         *)
(*   src/src/meter/sampler.rs     run, determine_due, acquire_eligibility  *)
(*   src/src/coverage.rs          the holds, reconstructed for a report    *)
(*                                                                         *)
(* The lease lets one invocation at a time decide and commit a start: the  *)
(* decision and the start are one step each here.  Sampler takes the lease *)
(* and the statements of the decision apart.                               *)
(***************************************************************************)
EXTENDS AttemptHistory

VARIABLES context,  \* the credential context on disk
          sampler   \* the invocation that is deciding

vars == <<clock, context, history, newest, sampler>>

Idle == [phase |-> "idle", forced |-> FALSE, context |-> "none",
         due |-> 0, reason |-> "OrdinaryCadence"]

ScheduleTypeOK ==
    /\ HistoryTypeOK
    /\ context \in Contexts
    /\ sampler \in [phase : {"idle", "ready", "decided"}, forced : BOOLEAN,
                    context : Contexts \cup {"none"}, due : Int,
                    reason : Reasons]

Init ==
    /\ NoHistory
    /\ context \in Contexts
    /\ sampler = Idle

----------------------------------------------------------------------------
Tick ==
    /\ clock < MaxTime
    /\ clock' = clock + 1
    /\ UNCHANGED <<context, Database, sampler>>

\* The operator, or a token refresh, rewrites the credential file.
RewriteCredential ==
    /\ context' \in Contexts \ {context}
    /\ UNCHANGED <<clock, Database, sampler>>

\* An invocation starts: it drains the spool, then resolves the account's
\* credential and whether the request is forced.
Begin(forced) ==
    /\ sampler.phase = "idle"
    /\ Len(history) < MaxAttempts
    /\ DrainSpool
    /\ sampler' = [Idle EXCEPT !.phase = "ready", !.forced = forced,
                               !.context = context]
    /\ UNCHANGED <<clock, context>>

\* acquire_eligibility: the lease is granted and the decision, taken again
\* under it, finds an attempt owed.  An attempt still in flight does not
\* prevent it: its lease may have run out before its result was persisted.
EvaluateUnderLease ==
    /\ sampler.phase = "ready"
    /\ LET d == Decision(clock, sampler.forced, sampler.context)
       IN  /\ d.owed
           /\ sampler' = [sampler EXCEPT !.phase = "decided", !.due = d.at,
                                         !.reason = d.reason]
    /\ UNCHANGED <<clock, context, Database>>

\* NotYet in either stage, or LeaseHeld.
Skip ==
    /\ sampler.phase = "ready"
    /\ \/ InFlight # {}
       \/ ~Decision(clock, sampler.forced, sampler.context).owed
    /\ sampler' = Idle
    /\ UNCHANGED <<clock, context, Database>>

\* A store error releases the lease and reports the account; a death leaves it.
Abandon ==
    /\ sampler.phase # "idle"
    /\ sampler' = Idle
    /\ UNCHANGED <<clock, context, Database>>

Start ==
    /\ sampler.phase = "decided"
    /\ start_meter_attempt(sampler.due, sampler.reason, clock, sampler.context)
    /\ sampler' = Idle
    /\ UNCHANGED context

\* persist_one, or a drain by any other command.
Settle ==
    /\ \E i \in DOMAIN history : Measure(i) \/ Fail(i) \/ Lose(i) \/ Drain(i)
    /\ UNCHANGED <<context, sampler>>

Next ==
    \/ Tick
    \/ RewriteCredential
    \/ \E forced \in BOOLEAN : Begin(forced)
    \/ EvaluateUnderLease
    \/ Skip
    \/ Abandon
    \/ Start
    \/ Settle

Spec == Init /\ [][Next]_vars

----------------------------------------------------------------------------
(* coverage.rs: which instants a report excuses.                           *)

\* report/coverage.rs: the attempt's context is not its predecessor's, rows
\* without a context skipped.
ContextRewritten(i) ==
    LET before == {j \in 1..(i - 1) : history[j].context # "none"}
    IN  /\ history[i].context # "none"
        /\ before # {}
        /\ history[i].context # history[Max(before)].context

\* Mutant: only a change of credential restarts the count.
CoverageStreakThroughSuccess(i) ==
    Cardinality({k \in 1..i :
        /\ history[k].outcome = "auth"
        /\ \A j \in (k + 1)..i : ~ContextRewritten(j)})

\* The auth_required results that end at attempt i, counted from the last
\* interruption, other outcome or change of credential.
CoverageStreak(i) ==
    Cardinality({k \in 1..i :
        /\ \A j \in k..i : history[j].outcome = "auth"
        /\ \A j \in (k + 1)..i : ~ContextRewritten(j)})

\* The ends of the postponements attempt i contributes: only delays past the
\* cadence count.
CoverageHolds(i) ==
    LET e == history[i]
        delays == {Min({r, RetryCap}) : r \in e.retry} \cup
                  (IF e.outcome = "auth"
                   THEN AuthBackoffDelay(CoverageStreak(i), FALSE) ELSE {})
    IN  {e.finish + d : d \in {d \in delays : d > Cadence}}

\* The attempts whose postponement covers the present instant.  The report merges
\* the postponements of all attempts before it subtracts them: it excuses the
\* instant exactly when there is such an attempt.
Excusing == {i \in DOMAIN history : \E end \in CoverageHolds(i) : clock < end}

----------------------------------------------------------------------------
(* Properties.                                                             *)

\* The cadence rule of evaluate() owes an attempt now.
CadenceOwes ==
    /\ history # <<>>
    /\ clock >= EffectiveDueAt(Newest(history), AuthStreak(history),
                               CredentialChanged(history, context))

\* What may end the hold of attempt i before its time: the next attempt was not
\* the cadence's, but forced or a reset's; it was owed before attempt i or one
\* that preceded it was answered; or the rejected credential was replaced.
Superseded(i) ==
    IF i = Len(history)
    THEN history[i].outcome = "auth" /\ CredentialChanged(history, context)
    ELSE \/ history[i + 1].reason # "OrdinaryCadence"
         \/ \E a \in 1..i : history[a].finish >= history[i + 1].due
         \/ /\ history[i].outcome = "auth"
            /\ CredentialChanged(SubSeq(history, 1, i), history[i + 1].context)

\* The postponements of all attempts that coverage subtracts are holds of the
\* scheduler: an instant at which the cadence rule owes an attempt is excused only
\* by holds that something superseded.  An outage, a streak that an answer broke
\* or a hold served in full is never taken for a hold that still stands.
CoverageExcusesOnlyHolds == \A i \in Excusing : CadenceOwes => Superseded(i)

=============================================================================
