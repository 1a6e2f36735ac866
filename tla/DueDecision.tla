----------------------------- MODULE DueDecision -----------------------------
(***************************************************************************)
(* src/src/meter/due.rs: whether one account is owed an attempt at an      *)
(* instant, and why.  Instants and durations are whole units of time.      *)
(*                                                                         *)
(* A history is a sequence of attempts in row-id order.  The fields of an  *)
(* attempt are due (the instant it was owed), reason, start, context (the  *)
(* credential it used), outcome, finish, retry (the Retry-After it was     *)
(* answered with, a set of at most one duration) and resets (the reset     *)
(* instants its observation reported).  Optional values are sets of at     *)
(* most one element.                                                       *)
(***************************************************************************)
EXTENDS Integers, Sequences, FiniteSetsExt

CONSTANTS Cadence,        \* ordinary_cadence
          Lead,           \* reset_edge_lead
          RetryCap,       \* retry_after_cap
          AuthThreshold,  \* auth_backoff_threshold, 0 disables
          AuthCap         \* auth_backoff_cap

ASSUME PolicyAssumption ==
    /\ Cadence \in Nat \ {0}
    /\ Lead \in Nat
    /\ RetryCap \in Nat
    /\ AuthThreshold \in Nat
    /\ AuthCap \in Nat

Reasons == {"OrdinaryCadence", "ResetEdge", "PostResetConfirmation",
            "ForcedOrManual"}

\* Outcomes of a meter_attempt_result row.  An attempt whose outcome is not
\* among them has no such row: as far as the database tells, it is open.
Terminals == {"success", "auth", "limited", "unreachable"}
Terminal(e) == e.outcome \in Terminals

Newest(h) == h[Len(h)]

EvidenceAt(e) == IF Terminal(e) THEN e.finish ELSE e.start

----------------------------------------------------------------------------
(* The holds.                                                              *)

RetryPostponement(e) ==
    {e.finish + Min({r, RetryCap}) : r \in IF e.outcome = "limited" THEN e.retry
                                                                   ELSE {}}

\* Doubling from twice the cadence, capped; nothing below the threshold, after
\* a credential change, or when disabled.
AuthBackoffDelay(streak, changed) ==
    IF AuthThreshold = 0 \/ changed \/ streak < AuthThreshold
    THEN {}
    ELSE LET doubled == Cadence * 2^Min({streak - AuthThreshold + 1, 30})
         IN  {d \in 1..AuthCap : d = Min({doubled, AuthCap})}

AuthPostponement(e, streak, changed) ==
    IF Terminal(e) THEN {e.finish + d : d \in AuthBackoffDelay(streak, changed)}
                   ELSE {}

\* Mutant: an attempt that got no answer has not spent its slot.
EffectiveDueAtOfAnswered(e, streak, changed) ==
    Max({IF Terminal(e) THEN e.due + Cadence ELSE e.due}
        \cup RetryPostponement(e) \cup AuthPostponement(e, streak, changed))

\* The cadence boundary on the grid of due instants, or the latest hold past it.
EffectiveDueAt(e, streak, changed) ==
    Max({e.due + Cadence} \cup RetryPostponement(e)
                          \cup AuthPostponement(e, streak, changed))

----------------------------------------------------------------------------
(* The decision.                                                           *)

Passed(known, now) == {r \in known : r <= now}
Coming(known, now) == {r \in known : r > now}

\* Mutant: an attempt started exactly at the reset does not count.
ConfirmationOwedAgain(h, known, now) ==
    /\ Passed(known, now) # {}
    /\ h # <<>> => Newest(h).start <= Max(Passed(known, now))

\* Rule 2: the latest passed reset has no attempt started at or after it.
ConfirmationOwed(h, known, now) ==
    /\ Passed(known, now) # {}
    /\ h # <<>> => Newest(h).start < Max(Passed(known, now))

\* Rule 3: the next reset is within the edge lead, and the newest evidence is
\* older than the lead instant before it.
EdgeOwed(h, known, now) ==
    /\ Coming(known, now) # {}
    /\ Min(Coming(known, now)) - now <= Lead
    /\ h # <<>> => EvidenceAt(Newest(h)) < Min(Coming(known, now)) - Lead

Due(at, reason) == [owed |-> TRUE, at |-> at, reason |-> reason]
NotYet(at) == [owed |-> FALSE, at |-> at, reason |-> "OrdinaryCadence"]

Evaluate(h, known, now, forced, streak, changed) ==
    IF forced THEN Due(now, "ForcedOrManual")
    ELSE IF ConfirmationOwed(h, known, now)
    THEN Due(Max(Passed(known, now)), "PostResetConfirmation")
    ELSE IF EdgeOwed(h, known, now)
    THEN Due(Min(Coming(known, now)) - Lead, "ResetEdge")
    ELSE IF h = <<>> THEN Due(now, "OrdinaryCadence")
    ELSE LET at == EffectiveDueAt(Newest(h), streak, changed)
         IN  IF now < at THEN NotYet(at) ELSE Due(at, "OrdinaryCadence")

----------------------------------------------------------------------------
(* What the store feeds it (store/meter_attempt.rs, meter/sampler.rs).     *)

TerminalRows(h) == {i \in DOMAIN h : Terminal(h[i])}

\* consecutive_auth_failures_for_account: the trailing auth_required rows among
\* the terminal ones, at most 64; none while the latest attempt is open.
StreakLimit == 64
AuthStreak(h) ==
    IF h = <<>> \/ ~Terminal(Newest(h)) THEN 0
    ELSE Min({StreakLimit, Cardinality({i \in TerminalRows(h) :
             \A j \in TerminalRows(h) : j >= i => h[j].outcome = "auth"})})

\* evaluate_due: the credential on disk is not the one the latest attempt used.
\* "none" is an attempt or an account without a credential context.
CredentialChanged(h, context) ==
    /\ h # <<>>
    /\ context # "none" /\ Newest(h).context # "none"
    /\ context # Newest(h).context

=============================================================================
