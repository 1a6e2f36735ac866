------------------------------ MODULE Sampler ------------------------------
(***************************************************************************)
(* Several invocations of `aub sample` over one account: the lease of      *)
(* SamplingLease and the history of AttemptHistory together, with every    *)
(* read and every transaction of the batch pipeline a step of its own.     *)
(*                                                                         *)
(*   src/src/meter/sampler.rs     run, determine_due, acquire_eligibility  *)
(*   src/src/store/repository.rs  due_evidence_snapshot                    *)
(*   src/src/store/sampling_lease.rs                                       *)
(*                                                                         *)
(* due_evidence_snapshot is four statements on one connection and no       *)
(* transaction, so a result committed meanwhile may show up in the later   *)
(* statements only.  A request may outlive its lease.                      *)
(***************************************************************************)
EXTENDS AttemptHistory

CONSTANTS Invocations,   \* processes, one LeaseHolder each
          NoOne,         \* the holder of no row
          Ttl            \* lease_ttl

\* The credential stays put: its context is "none".
ASSUME SamplerAssumption ==
    Ttl \in Nat \ {0} /\ NoOne \notin Invocations /\ "none" \in Contexts

VARIABLES lease,  \* the account's row in sampling_lease
          proc    \* invocation -> where it stands

samplerVars == <<clock, history, newest, lease, proc>>

NoRow == [holder |-> NoOne, expires_at |-> 0]

\* now: the instant last read.  expires_at: of its own grant, while it has one
\* to give back (run() drops the instant; here it is kept as history).  row: the
\* latest attempt when it was read, later the attempt of its own.  entry: the
\* history evaluate_due builds.
NoRun == [phase |-> "idle", forced |-> FALSE, now |-> 0, expires_at |-> 0,
          row |-> 0, entry |-> <<>>, streak |-> 0,
          due |-> 0, reason |-> "OrdinaryCadence"]

Phases == {"idle", "determine", "acquire", "locking", "leased", "latest",
           "result", "streak", "decided", "stamped", "request", "release"}

Leases == [holder : Invocations \cup {NoOne}, expires_at : Nat]
Runs == [phase : Phases, forced : BOOLEAN, now : Nat, expires_at : Nat,
         row : 0..Len(history), entry : Seq(Attempt), streak : Nat,
         due : Int, reason : Reasons]

\* Beyond types: an invocation behind its start holds the row it committed, and
\* no two hold the same one.
SamplerTypeOK ==
    /\ HistoryTypeOK
    /\ lease \in Leases
    /\ proc \in [Invocations -> Runs]
    /\ \A p \in Invocations : proc[p].phase = "request" =>
          /\ proc[p].row \in InFlight
          /\ \A q \in Invocations \ {p} :
                proc[q].phase = "request" => proc[q].row # proc[p].row

SamplerInit ==
    /\ NoHistory
    /\ lease = NoRow
    /\ proc = [p \in Invocations |-> NoRun]

Phase(p) == proc[p].phase

\* Nothing is left to do but to give the lease back.
Releasing(p) == [NoRun EXCEPT !.phase = "release", !.expires_at = proc[p].expires_at]

----------------------------------------------------------------------------
(* Stage 1.                                                                *)

\* The command drains the spool, then run() reads started_at.
Invoke(p, forced) ==
    /\ Phase(p) = "idle"
    /\ Len(history) < MaxAttempts
    /\ DrainSpool
    /\ proc' = [proc EXCEPT ![p] = [NoRun EXCEPT !.phase = "determine",
                                    !.forced = forced, !.now = clock]]
    /\ UNCHANGED <<clock, lease>>

\* determine_due, with the instant the run started at.
DetermineDue(p) ==
    /\ Phase(p) = "determine"
    /\ LET d == Decision(proc[p].now, proc[p].forced, "none")
       IN  proc' = [proc EXCEPT ![p] =
               IF d.owed THEN [@ EXCEPT !.phase = "acquire", !.due = d.at,
                                        !.reason = d.reason]
                         ELSE NoRun]
    /\ UNCHANGED <<clock, Database, lease>>

----------------------------------------------------------------------------
(* Stage 2: the lease.                                                     *)

ReadLeaseClock(p) ==
    /\ Phase(p) = "acquire"
    /\ proc' = [proc EXCEPT ![p].phase = "locking", ![p].now = clock]
    /\ UNCHANGED <<clock, Database, lease>>

Blocks(p) == lease.holder # NoOne /\ lease.expires_at > proc[p].now

Grant(p) ==
    /\ Phase(p) = "locking"
    /\ ~Blocks(p)
    /\ lease' = [holder |-> p, expires_at |-> proc[p].now + Ttl]
    /\ proc' = [proc EXCEPT ![p].phase = "leased",
                            ![p].expires_at = proc[p].now + Ttl]
    /\ UNCHANGED <<clock, Database>>

AlreadyHeld(p) ==
    /\ Phase(p) = "locking"
    /\ Blocks(p)
    /\ proc' = [proc EXCEPT ![p] = NoRun]
    /\ UNCHANGED <<clock, Database, lease>>

----------------------------------------------------------------------------
(* Stage 2: the decision, taken again under the lease.                     *)

\* Mutant: stage 1's decision is kept.
ReadLatestNot(p) ==
    /\ Phase(p) = "leased"
    /\ proc' = [proc EXCEPT ![p].phase = "decided"]
    /\ UNCHANGED <<clock, Database, lease>>

\* evaluated_at, and latest_attempt_for_account.
ReadLatest(p) ==
    /\ Phase(p) = "leased"
    /\ proc' = [proc EXCEPT ![p].phase = "latest", ![p].now = clock,
                            ![p].row = Len(history)]
    /\ UNCHANGED <<clock, Database, lease>>

\* result_by_attempt_id, joined to the attempt read before.
ReadResult(p) ==
    /\ Phase(p) = "latest"
    /\ proc' = [proc EXCEPT ![p].phase = "result",
           ![p].entry = IF proc[p].row = 0 THEN <<>> ELSE <<history[proc[p].row]>>]
    /\ UNCHANGED <<clock, Database, lease>>

\* consecutive_auth_failures_for_account.
ReadStreak(p) ==
    /\ Phase(p) = "result"
    /\ proc' = [proc EXCEPT ![p].phase = "streak", ![p].streak = AuthStreak(history)]
    /\ UNCHANGED <<clock, Database, lease>>

\* newest_observation_for_account and its windows, then evaluate().
Decide(p) ==
    /\ Phase(p) = "streak"
    /\ LET d == Evaluate(proc[p].entry, KnownResets, proc[p].now,
                         proc[p].forced, proc[p].streak, FALSE)
       IN  proc' = [proc EXCEPT ![p] =
               IF d.owed THEN [@ EXCEPT !.phase = "decided", !.due = d.at,
                                        !.reason = d.reason]
                         ELSE Releasing(p)]
    /\ UNCHANGED <<clock, Database, lease>>

\* request_started_at is read before the transaction it is written in.
Stamp(p) ==
    /\ Phase(p) = "decided"
    /\ proc' = [proc EXCEPT ![p].phase = "stamped", ![p].now = clock]
    /\ UNCHANGED <<clock, Database, lease>>

\* start_meter_attempt.
StartAttempt(p) ==
    /\ Phase(p) = "stamped"
    /\ Len(history) < MaxAttempts
    /\ start_meter_attempt(proc[p].due, proc[p].reason, proc[p].now, "none")
    /\ proc' = [proc EXCEPT ![p] = [NoRun EXCEPT !.phase = "request",
                        !.row = Len(history) + 1, !.expires_at = proc[p].expires_at]]
    /\ UNCHANGED lease

Eligible == {"leased", "latest", "result", "streak", "decided", "stamped"}

\* A store error between the grant and the start: the lease is given back.
EligibilityFails(p) ==
    /\ Phase(p) \in Eligible
    /\ proc' = [proc EXCEPT ![p] = Releasing(p)]
    /\ UNCHANGED <<clock, Database, lease>>

----------------------------------------------------------------------------
(* Stages 3 and 4.                                                         *)

\* The request returns and persist_one commits, spools or loses its fact.
Persist(p) ==
    /\ Phase(p) = "request"
    /\ LET i == proc[p].row
       IN  Measure(i) \/ Fail(i) \/ Lose(i)
    /\ proc' = [proc EXCEPT ![p] = Releasing(p)]
    /\ UNCHANGED lease

\* Mutant: release deletes whatever row the account has.
OwnedByAnyone(p) == lease.holder # NoOne

Owned(p) == lease.holder = p

Release(p) ==
    /\ Phase(p) = "release"
    /\ lease' = IF Owned(p) THEN NoRow ELSE lease
    /\ proc' = [proc EXCEPT ![p] = NoRun]
    /\ UNCHANGED <<clock, Database>>

\* The process dies, or its release fails: the row stays until it expires.
Die(p) ==
    /\ Phase(p) # "idle"
    /\ IF Phase(p) = "request" THEN Lose(proc[p].row)
                               ELSE UNCHANGED <<clock, Database>>
    /\ proc' = [proc EXCEPT ![p] = NoRun]
    /\ UNCHANGED lease

----------------------------------------------------------------------------
\* Another command drains a record the live commit left pending.
DrainByAnother ==
    /\ \E i \in Spooled : Drain(i)
    /\ UNCHANGED <<lease, proc>>

\* Within a TTL of the instant acquire read, the grant is decided and the start
\* of the attempt committed: a TTL of a minute against a handful of statements
\* and three writes, each waiting for the write lock at most busy_timeout.
StartIsPrompt ==
    \A p \in Invocations :
        /\ Phase(p) = "locking" => clock + 1 < proc[p].now + Ttl
        /\ Phase(p) \in Eligible => clock + 1 < proc[p].expires_at

Elapse ==
    /\ StartIsPrompt
    /\ clock < MaxTime
    /\ clock' = clock + 1
    /\ UNCHANGED <<Database, lease, proc>>

Step(p) ==
    \/ \E forced \in BOOLEAN : Invoke(p, forced)
    \/ DetermineDue(p) \/ ReadLeaseClock(p) \/ Grant(p) \/ AlreadyHeld(p)
    \/ ReadLatest(p) \/ ReadResult(p) \/ ReadStreak(p) \/ Decide(p)
    \/ Stamp(p) \/ StartAttempt(p) \/ EligibilityFails(p)
    \/ Persist(p) \/ Release(p) \/ Die(p)

SamplerNext == (\E p \in Invocations : Step(p)) \/ DrainByAnother \/ Elapse

SamplerSpec == SamplerInit /\ [][SamplerNext]_samplerVars

----------------------------------------------------------------------------
(* The lease as SamplingLease has it: a table with this account's row, one *)
(* call of acquire per invocation, and the expiry of each one's own grant. *)

Account == "account"

\* From its grant on, an invocation has something to give back.
Holding == Eligible \cup {"request", "release"}

Row == [holder |-> lease.holder,
        acquired_at |-> IF lease.holder = NoOne THEN 0 ELSE lease.expires_at - Ttl,
        expires_at |-> lease.expires_at]
Call(p) == IF Phase(p) = "locking" THEN [account |-> Account, now |-> proc[p].now]
                                   ELSE [account |-> "none", now |-> 0]
OwnGrant(p) == IF Phase(p) \in Holding THEN proc[p].expires_at ELSE -1

Lease == INSTANCE SamplingLease
         WITH Accounts <- {Account}, Holders <- Invocations, NoHolder <- NoOne,
              NoAccount <- "none", lease <- [a \in {Account} |-> Row],
              acquiring <- [p \in Invocations |-> Call(p)],
              held <- [p \in Invocations |-> [a \in {Account} |-> OwnGrant(p)]],
              sweep <- -1

----------------------------------------------------------------------------
(* Properties.                                                             *)

(***************************************************************************)
(* "The history must be ordered by start time" (evaluate): the row with    *)
(* the highest id is the attempt that started last, although the instant   *)
(* is read before the transaction that assigns the id.                     *)
(***************************************************************************)
HistoryIsOrderedByStart ==
    \A i, j \in DOMAIN history : i < j => history[i].start <= history[j].start

(***************************************************************************)
(* The batch pipeline uses the lease the way sampling_lease.rs is meant to *)
(* be used: every step of an invocation, of time and of other commands is  *)
(* one call of acquire or release, a death, a tick, or nothing of the      *)
(* lease's.  In particular an invocation releases what it was granted,     *)
(* once, and never acquires while it still holds.                          *)
(***************************************************************************)
ImplementsLease == Lease!LeaseSpec

=============================================================================
