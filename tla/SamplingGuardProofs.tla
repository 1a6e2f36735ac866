------------------------ MODULE SamplingGuardProofs ------------------------
(***************************************************************************)
(* The two guards of an account: the lease that lets one invocation at a   *)
(* time sample it, and the gate that lets one subscription's readings in.  *)
(*                                                                         *)
(* The lease, for every set of accounts and invocations, every TTL and     *)
(* every length of time: LiveGrantIsTheRow is not inductive by itself, it  *)
(* needs that no pending decision was made with an instant from the        *)
(* future, because that is why a row an acquire or a sweep finds expired   *)
(* is expired by the clock too.                                            *)
(*                                                                         *)
(* The gate, for any number of attempts, identities and samplers alive at  *)
(* once, and histories of any length: the samplers of an account share     *)
(* only tables that grow, so what a sampler read stays true of them.  An   *)
(* identity once established is in the history, and so is the pair of a    *)
(* change that was on record.  The invariant says what each phase of a     *)
(* sampler may rely on (Tells), and that a change row carries the instant  *)
(* of its own reading (RowsAreDated).                                      *)
(***************************************************************************)
EXTENDS SamplingLease, SubscriptionGate, TLAPS

-----------------------------------------------------------------------------
(* The lease.                                                              *)


\* Instants read earlier are not ahead of the clock.
InstantsArePast ==
    /\ \A h \in Holders : acquiring[h].now <= clock
    /\ sweep # None => sweep <= clock

LeaseInv ==
    /\ LeaseTypeOK
    /\ InstantsArePast
    /\ LiveGrantIsTheRow
    /\ BlockIsBounded

\* The table starts out empty.
LEMMA LeaseInitInv == LeaseInit => LeaseInv
  BY LeaseAssumption
  DEF LeaseInit, LeaseInv, LeaseTypeOK, InstantsArePast, LiveGrantIsTheRow,
      LiveGrant, BlockIsBounded, NoRow, NoCall, None, Instants, Expiries

\* Every step of acquire, release and clear_expired keeps the types.
LEMMA TypeStep == LeaseTypeOK /\ InstantsArePast /\ [LeaseNext]_leaseVars => LeaseTypeOK'
  <1> SUFFICES ASSUME LeaseTypeOK, InstantsArePast, [LeaseNext]_leaseVars
               PROVE  LeaseTypeOK'
    OBVIOUS
  <1> USE LeaseAssumption DEF LeaseTypeOK, None, Instants, Expiries
  <1>1. CASE Tick
    BY <1>1 DEF Tick
  <1>2. ASSUME NEW h \in Holders, NEW a \in Accounts, ReadClock(h, a)
        PROVE  LeaseTypeOK'
    BY <1>2 DEF ReadClock
  <1>3. ASSUME NEW h \in Holders, NEW a \in Accounts, Release(h, a)
        PROVE  LeaseTypeOK'
    BY <1>3 DEF Release, NoRow
  <1>4. ASSUME NEW h \in Holders, NEW a \in Accounts, ReleaseFails(h, a)
        PROVE  LeaseTypeOK'
    BY <1>4 DEF ReleaseFails
  <1>5. ASSUME NEW h \in Holders, Grant(h)
        PROVE  LeaseTypeOK'
    <2>1. PICK a \in Accounts : a = acquiring[h].account
      BY <1>5 DEF Grant
    <2>2. Expiry(acquiring[h].now) \in 0 .. MaxTime + Ttl
      BY DEF Expiry
    <2>3. lease' = [lease EXCEPT ![a] = [holder |-> h,
                       acquired_at |-> acquiring[h].now,
                       expires_at |-> Expiry(acquiring[h].now)]]
      BY <1>5, <2>1 DEF Grant
    <2>4. held' = [held EXCEPT ![h][a] = Expiry(acquiring[h].now)]
      BY <1>5, <2>1 DEF Grant
    <2> QED
      BY <1>5, <2>2, <2>3, <2>4 DEF Grant, NoCall
  <1>6. ASSUME NEW h \in Holders, AlreadyHeld(h) \/ AcquireFails(h)
        PROVE  LeaseTypeOK'
    BY <1>6, SMTT(60) DEF AlreadyHeld, AcquireFails, NoCall
  <1>7. ASSUME NEW h \in Holders, Crash(h)
        PROVE  LeaseTypeOK'
    BY <1>7 DEF Crash, NoCall
  <1>8. CASE SweepReadClock
    BY <1>8 DEF SweepReadClock
  <1>9. CASE SweepDelete
    BY <1>9 DEF SweepDelete, NoRow
  <1>10. CASE UNCHANGED leaseVars
    BY <1>10 DEF leaseVars
  <1> QED
    BY <1>1, <1>2, <1>3, <1>4, <1>5, <1>6, <1>7, <1>8, <1>9, <1>10 DEF LeaseNext

\* The clock only moves forward, so an instant once read stays in the past.
LEMMA PastStep == LeaseTypeOK /\ InstantsArePast /\ [LeaseNext]_leaseVars => InstantsArePast'
  <1> SUFFICES ASSUME LeaseTypeOK, InstantsArePast, [LeaseNext]_leaseVars
               PROVE  InstantsArePast'
    OBVIOUS
  <1> USE LeaseAssumption DEF LeaseTypeOK, InstantsArePast, None, Instants, NoCall
  <1>1. CASE Tick
    BY <1>1 DEF Tick
  <1>2. ASSUME NEW h \in Holders, NEW a \in Accounts,
               ReadClock(h, a) \/ Release(h, a) \/ ReleaseFails(h, a)
        PROVE  InstantsArePast'
    BY <1>2, SMTT(60) DEF ReadClock, Release, ReleaseFails
  <1>3. ASSUME NEW h \in Holders,
               Grant(h) \/ AlreadyHeld(h) \/ AcquireFails(h) \/ Crash(h)
        PROVE  InstantsArePast'
    <2>1. /\ acquiring' = [acquiring EXCEPT ![h] = NoCall]
          /\ clock' = clock
          /\ sweep' = sweep
      BY <1>3, Zenon DEF Grant, AlreadyHeld, AcquireFails, Crash
    <2> QED
      BY <2>1
  <1>4. CASE SweepReadClock \/ SweepDelete
    BY <1>4 DEF SweepReadClock, SweepDelete
  <1>5. CASE UNCHANGED leaseVars
    BY <1>5 DEF leaseVars
  <1> QED
    BY <1>1, <1>2, <1>3, <1>4, <1>5 DEF LeaseNext

LEMMA RowStep == LeaseInv /\ [LeaseNext]_leaseVars => LiveGrantIsTheRow' /\ BlockIsBounded'
  <1> SUFFICES ASSUME LeaseInv, [LeaseNext]_leaseVars
               PROVE  LiveGrantIsTheRow' /\ BlockIsBounded'
    OBVIOUS
  <1> USE LeaseAssumption DEF LeaseInv, LeaseTypeOK, InstantsArePast, None,
          Instants, Expiries, LiveGrantIsTheRow, LiveGrant, BlockIsBounded
  <1>1. CASE Tick
    BY <1>1 DEF Tick
  <1>2. ASSUME NEW h \in Holders, NEW a \in Accounts, ReadClock(h, a)
        PROVE  LiveGrantIsTheRow' /\ BlockIsBounded'
    BY <1>2 DEF ReadClock
  <1>3. ASSUME NEW h \in Holders, NEW a \in Accounts, Release(h, a)
        PROVE  LiveGrantIsTheRow' /\ BlockIsBounded'
    BY <1>3 DEF Release, NoRow, Owned
  <1>4. ASSUME NEW h \in Holders, NEW a \in Accounts, ReleaseFails(h, a)
        PROVE  LiveGrantIsTheRow' /\ BlockIsBounded'
    BY <1>4 DEF ReleaseFails
  <1>5. ASSUME NEW h \in Holders, Grant(h)
        PROVE  LiveGrantIsTheRow' /\ BlockIsBounded'
    <2> DEFINE instant == acquiring[h].now
    <2>1. PICK a \in Accounts : a = acquiring[h].account
      BY <1>5 DEF Grant
    <2>2. instant \in Nat /\ instant <= clock /\ Expiry(instant) = instant + Ttl
      BY DEF Expiry
    <2>3. lease' = [lease EXCEPT ![a] = [holder |-> h, acquired_at |-> instant,
                                         expires_at |-> Expiry(instant)]]
      BY <1>5, <2>1 DEF Grant
    <2>4. held' = [held EXCEPT ![h][a] = Expiry(instant)] /\ clock' = clock
      BY <1>5, <2>1 DEF Grant
    <2>5. BlockIsBounded'
      BY <2>2, <2>3, <2>4
    \* Whoever the replaced row named is not live: it expired by an instant
    \* that is already past.
    <2>6. \A g \in Holders : g # h => ~LiveGrant(g, a)
      <3> SUFFICES ASSUME NEW g \in Holders, LiveGrant(g, a) PROVE FALSE
        OBVIOUS
      <3>1. lease[a].holder = g /\ lease[a].expires_at > clock
        OBVIOUS
      <3> QED
        BY <1>5, <2>1, <2>2, <3>1 DEF Grant, Blocks
    <2>7. ASSUME NEW g \in Holders, NEW b \in Accounts, LiveGrant(g, b)'
          PROVE  lease'[b].holder = g /\ lease'[b].expires_at = held'[g][b]
      <3>1. CASE g = h /\ b = a
        BY <2>3, <2>4, <3>1
      <3>2. CASE g # h /\ b = a
        BY <2>4, <2>6, <2>7, <3>2
      <3>3. CASE b # a
        BY <2>3, <2>4, <2>7, <3>3
      <3> QED
        BY <3>1, <3>2, <3>3
    <2> QED
      BY <2>5, <2>7
  <1>6. ASSUME NEW h \in Holders, AlreadyHeld(h) \/ AcquireFails(h)
        PROVE  LiveGrantIsTheRow' /\ BlockIsBounded'
    BY <1>6 DEF AlreadyHeld, AcquireFails
  <1>7. ASSUME NEW h \in Holders, Crash(h)
        PROVE  LiveGrantIsTheRow' /\ BlockIsBounded'
    BY <1>7 DEF Crash
  <1>8. CASE SweepReadClock
    BY <1>8 DEF SweepReadClock
  <1>9. CASE SweepDelete
    BY <1>9 DEF SweepDelete, NoRow, Expired
  <1>10. CASE UNCHANGED leaseVars
    BY <1>10 DEF leaseVars
  <1> QED
    BY <1>1, <1>2, <1>3, <1>4, <1>5, <1>6, <1>7, <1>8, <1>9, <1>10 DEF LeaseNext

\* The inductive invariant of the lease.
THEOREM LeaseInvariant == LeaseSpec => []LeaseInv
  <1>1. LeaseInv /\ [LeaseNext]_leaseVars => LeaseInv'
    BY TypeStep, PastStep, RowStep DEF LeaseInv
  <1> QED
    BY <1>1, LeaseInitInv, PTL DEF LeaseSpec

(***************************************************************************)
(* The types of the lease table and of the invocations' beliefs hold for   *)
(* every number of accounts, invocations and instants.                     *)
(***************************************************************************)
THEOREM LeaseTypeCorrect == LeaseSpec => []LeaseTypeOK
  <1>1. LeaseInv => LeaseTypeOK
    BY DEF LeaseInv
  <1> QED
    BY <1>1, LeaseInvariant, PTL

(***************************************************************************)
(* The row of a live grant is the grant's own (sampling_lease.rs, acquire, *)
(* release and clear_expired together).                                    *)
(***************************************************************************)
THEOREM LiveGrantOwnsItsRow == LeaseSpec => []LiveGrantIsTheRow
  <1>1. LeaseInv => LiveGrantIsTheRow
    BY DEF LeaseInv
  <1> QED
    BY <1>1, LeaseInvariant, PTL

(***************************************************************************)
(* Two invocations are never inside their TTL for the same account: the    *)
(* table has one row per account and both grants would have to be it.      *)
(***************************************************************************)
THEOREM LeaseExcludes == LeaseSpec => []ExclusiveWhileLive
  <1>1. LeaseInv => ExclusiveWhileLive
    BY DEF LeaseInv, LiveGrantIsTheRow, ExclusiveWhileLive
  <1> QED
    BY <1>1, LeaseInvariant, PTL

(***************************************************************************)
(* No row stays in force longer than one TTL past the clock.               *)
(***************************************************************************)
THEOREM BlockBounded == LeaseSpec => []BlockIsBounded
  <1>1. LeaseInv => BlockIsBounded
    BY DEF LeaseInv
  <1> QED
    BY <1>1, LeaseInvariant, PTL

\* One step of the action property.
LEMMA LiveRowStep ==
  ASSUME LeaseInv, LeaseNext, NEW a \in Accounts,
         Blocks(lease[a], clock), lease'[a] # lease[a]
  PROVE  /\ held[lease[a].holder][a] # None
         /\ held'[lease[a].holder][a] = None
  <1> USE LeaseAssumption DEF LeaseInv, LeaseTypeOK, InstantsArePast, Instants,
          Expiries, Blocks
  <1>1. ASSUME NEW h \in Holders, Grant(h) PROVE FALSE
    <2>1. acquiring[h].account \in Accounts
      BY <1>1 DEF Grant
    <2>2. acquiring[h].account = a
      BY <1>1, <2>1 DEF Grant
    <2> QED
      BY <1>1, <2>2 DEF Grant
  <1>2. CASE SweepDelete
    BY <1>2 DEF SweepDelete, Expired, None
  <1>3. ASSUME NEW h \in Holders, NEW b \in Accounts, Release(h, b)
        PROVE  /\ held[lease[a].holder][a] # None
               /\ held'[lease[a].holder][a] = None
    <2>1. b = a /\ lease[a].holder = h
      BY <1>3 DEF Release, Owned
    <2> QED
      BY <1>3, <2>1 DEF Release
  <1>4. ASSUME lease' = lease PROVE FALSE
    BY <1>4
  <1> QED
    BY <1>1, <1>2, <1>3, <1>4
    DEF LeaseNext, Tick, ReadClock, ReleaseFails, AlreadyHeld, AcquireFails,
        Crash, SweepReadClock

(***************************************************************************)
(* A live row changes only by its own holder's release: neither a          *)
(* competitor nor doctor --fix ever removes one.                           *)
(***************************************************************************)
THEOREM LiveRowsAreTheHolders == LeaseSpec => OnlyTheHolderEndsALiveRow
  <1>1. LeaseInv /\ [LeaseNext]_leaseVars =>
          [\A a \in Accounts :
             Blocks(lease[a], clock) /\ lease'[a] # lease[a]
               => held'[lease[a].holder][a] = None
                  /\ held[lease[a].holder][a] # None]_leaseVars
    BY LiveRowStep
  <1> QED
    BY <1>1, LeaseInvariant, PTL DEF LeaseSpec, OnlyTheHolderEndsALiveRow

-----------------------------------------------------------------------------
(* The gate.                                                               *)

(* The inductive invariant.                                                *)

WasEstablished(x) ==
    \E i \in DOMAIN history : history[i].kind = "Established" /\ history[i].current = x

Recorded(a) ==
    \E i \in DOMAIN history :
        /\ history[i].kind = "Changed"
        /\ history[i].previous = sampler[a].known
        /\ history[i].current = sampler[a].identity

\* What the phase, the result and the spool say of one attempt.
Tells(a) ==
    /\ sampler[a].phase \in {"idle", "measured", "gated", "refuse", "repeat"} =>
           results[a] = "None" /\ a \notin spooled
    /\ sampler[a].phase \in {"refuse", "repeat"} => sampler[a].gate = "Refuse"
    /\ sampler[a].phase = "repeat" => Recorded(a)
    /\ sampler[a].phase = "spooled" => a \in spooled
    /\ sampler[a].phase = "committed" => results[a] = "Success" /\ sampler[a].gate = "Establish"
    /\ results[a] = "Success" => a \in spooled
    /\ results[a] = "SubscriptionChanged" => a \notin spooled /\ Recorded(a)
    /\ (/\ sampler[a].phase = "gated" \/ a \in spooled
        /\ sampler[a].gate = "Store"
        /\ sampler[a].identity # NoIdentity) => WasEstablished(sampler[a].identity)
    /\ a \in spooled => sampler[a].gate # "Refuse"

ObservedIsSuccess == \A a \in Attempts : Observed(a) <=> results[a] = "Success"

\* A change row is stamped with its own reading's instant, and its sampler is
\* through.
RowsAreDated ==
    \A i \in DOMAIN history :
        history[i].kind = "Changed" =>
            /\ sampler[history[i].attempt].phase = "done"
            /\ sampler[history[i].attempt].at = history[i].at

\* A reading that establishes names a subscription.
FirstSightingsName ==
    \A a \in Attempts :
        sampler[a].gate # "Store" => sampler[a].identity \in Identities

GateInv ==
    /\ TypeOK
    /\ \A a \in Attempts : Tells(a)
    /\ ObservedIsSuccess
    /\ RowsAreDated
    /\ FirstSightingsName
    /\ EstablishmentIsEarned

-----------------------------------------------------------------------------
(* The tables grow.                                                        *)

\* Every row is of its table's type.
LEMMA RowsAreChanges ==
    ASSUME TypeOK, NEW i \in DOMAIN history
    PROVE  history[i] \in Changes /\ history[i].attempt \in Attempts
  <1>1. history[i] \in Changes
    BY DEF TypeOK
  <1> QED BY <1>1 DEF Changes

\* Appending a row keeps the rows there are.
LEMMA HistoryGrows ==
    ASSUME history \in Seq(Changes), NEW row \in Changes, history' = Append(history, row)
    PROVE  /\ history' \in Seq(Changes)
           /\ DOMAIN history' = DOMAIN history \cup {Len(history) + 1}
           /\ Len(history) + 1 \notin DOMAIN history
           /\ \A i \in DOMAIN history : history'[i] = history[i]
           /\ history'[Len(history) + 1] = row
  OBVIOUS

\* An attempt is observed when it was or when the new row is its own.
LEMMA ObservationsGrow ==
    ASSUME observations \in Seq(Attempts), NEW a \in Attempts,
           observations' = Append(observations, a)
    PROVE  /\ observations' \in Seq(Attempts)
           /\ \A b : Observed(b)' <=> Observed(b) \/ b = a
  <1>1. /\ observations' \in Seq(Attempts)
        /\ DOMAIN observations' = DOMAIN observations \cup {Len(observations) + 1}
        /\ \A i \in DOMAIN observations : observations'[i] = observations[i]
        /\ observations'[Len(observations) + 1] = a
    OBVIOUS
  <1> QED BY <1>1 DEF Observed

Extends ==
    /\ DOMAIN history \subseteq DOMAIN history'
    /\ \A i \in DOMAIN history : history'[i] = history[i]

\* What an attempt tells is not disturbed by steps of others.
LEMMA OthersKeepTelling ==
    ASSUME NEW b \in Attempts, Tells(b), Extends,
           sampler'[b] = sampler[b], results'[b] = results[b],
           b \in spooled' <=> b \in spooled
    PROVE  Tells(b)'
  <1>1. Recorded(b) => Recorded(b)'
    BY DEF Recorded, Extends
  <1>2. WasEstablished(sampler[b].identity) => WasEstablished(sampler[b].identity)'
    BY DEF WasEstablished, Extends
  <1> QED BY <1>1, <1>2 DEF Tells

\* An earned establishment stays earned while readings stay stored.
LEMMA EarnedStep ==
    ASSUME GateInv, Extends,
           \A b \in Attempts : Observed(b) =>
               Observed(b)' /\ sampler'[b].identity = sampler[b].identity,
           \A i \in DOMAIN history' \ DOMAIN history :
               history'[i].kind = "Established" =>
                  \/ Accepts(i)'
                  \/ /\ Observed(history[i].attempt)'
                     /\ sampler'[history'[i].attempt].identity = history'[i].current
    PROVE  EstablishmentIsEarned'
  <1> SUFFICES ASSUME NEW i \in DOMAIN history', history'[i].kind = "Established"
               PROVE  \/ Accepts(i)'
                      \/ /\ Observed(history[i].attempt)'
                         /\ sampler'[history'[i].attempt].identity = history'[i].current
    BY DEF EstablishmentIsEarned
  <1>1. CASE i \in DOMAIN history
    <2>1. history'[i] = history[i]
      BY <1>1 DEF Extends
    <2>2. history[i].attempt \in Attempts
      BY <1>1, RowsAreChanges DEF GateInv
    <2>3. CASE Accepts(i)
      BY <1>1, <2>1, <2>3 DEF Accepts, Extends
    <2>4. CASE /\ Observed(history[i].attempt)
               /\ sampler[history[i].attempt].identity = history[i].current
      BY <2>1, <2>2, <2>4
    <2> QED BY <1>1, <2>1, <2>3, <2>4 DEF GateInv, EstablishmentIsEarned
  <1> QED BY <1>1


-----------------------------------------------------------------------------
(* One lemma per action.                                                   *)

\* A step of one sampler that writes no row.
LEMMA SamplerStepKeepsInv ==
    ASSUME GateInv, NEW a \in Attempts,
           sampler' \in [Attempts -> Samplers],
           \A b \in Attempts \ {a} : sampler'[b] = sampler[b],
           UNCHANGED <<credential, results, observations, history>>, now' \in Nat,
           spooled' \subseteq Attempts,
           \A b \in Attempts \ {a} : b \in spooled' <=> b \in spooled,
           sampler[a].phase # "done",
           sampler[a].phase # "idle" => sampler'[a].identity = sampler[a].identity,
           sampler'[a].gate # "Store" => sampler'[a].identity \in Identities,
           Tells(a)'
    PROVE  GateInv'
  <1> USE DEF GateInv
  <1>2. TypeOK'
    BY DEF TypeOK
  <1>3. Extends
    BY DEF Extends
  <1>4. \A b \in Attempts : Tells(b)'
    BY <1>3, OthersKeepTelling
  <1>5. \A b : Observed(b)' <=> Observed(b)
    BY DEF Observed
  <1>6. ObservedIsSuccess'
    BY <1>5 DEF ObservedIsSuccess
  <1>7. RowsAreDated'
    <2> SUFFICES ASSUME NEW i \in DOMAIN history, history[i].kind = "Changed"
                 PROVE  /\ sampler'[history[i].attempt].phase = "done"
                        /\ sampler'[history[i].attempt].at = history[i].at
      BY DEF RowsAreDated
    <2>1. history[i].attempt \in Attempts
      BY RowsAreChanges
    <2> QED BY <2>1 DEF RowsAreDated
  <1>8. FirstSightingsName'
    BY DEF FirstSightingsName
  <1>9. \A b \in Attempts : Observed(b) =>
            Observed(b)' /\ sampler'[b].identity = sampler[b].identity
    BY <1>5 DEF ObservedIsSuccess, Tells
  <1>10. EstablishmentIsEarned'
    BY <1>3, <1>9, EarnedStep
  <1> QED BY <1>2, <1>4, <1>6, <1>7, <1>8, <1>10

\* A reading comes back.
LEMMA MeasureKeepsInv ==
    ASSUME GateInv, NEW a \in Attempts, Measure(a)
    PROVE  GateInv'
  <1> USE DEF GateInv
  <1>1. /\ sampler' \in [Attempts -> Samplers]
        /\ \A b \in Attempts \ {a} : sampler'[b] = sampler[b]
        /\ sampler'[a].phase = "measured" /\ sampler'[a].gate = "Store"
    BY DEF Measure, TypeOK, Samplers, Phases, Gates, Names
  <1>2. /\ sampler[a].phase = "idle" /\ now' \in Nat
        /\ UNCHANGED <<credential, results, observations, history, spooled>>
    BY DEF Measure, TypeOK
  <1>3. Tells(a)'
    BY <1>1, <1>2 DEF Tells
  <1> QED BY <1>1, <1>2, <1>3, SamplerStepKeepsInv DEF TypeOK

\* What the gate reads as established is a row of the history.
LEMMA EstablishedIsARow ==
    ASSUME TypeOK
    PROVE  /\ established_identity_for_account \in Names
           /\ established_identity_for_account # NoIdentity =>
                  WasEstablished(established_identity_for_account)
  <1>1. CASE \E i \in DOMAIN history : IsNewestEstablished(i)
    <2> DEFINE i == CHOOSE i \in DOMAIN history : IsNewestEstablished(i)
    <2>1. i \in DOMAIN history /\ IsNewestEstablished(i)
      BY <1>1
    <2>2. established_identity_for_account = history[i].current
      BY <1>1 DEF established_identity_for_account
    <2>3. history[i] \in Changes
      BY <2>1, RowsAreChanges
    <2> HIDE DEF i
    <2> QED BY <2>1, <2>2, <2>3 DEF Changes, Names, WasEstablished, IsNewestEstablished
  <1>2. CASE ~\E i \in DOMAIN history : IsNewestEstablished(i)
    BY <1>2 DEF established_identity_for_account, Names
  <1> QED BY <1>1, <1>2

\* The gate's read and its conclusion.
LEMMA GateKeepsInv ==
    ASSUME GateInv, NEW a \in Attempts, subscription_gate(a)
    PROVE  GateInv'
  <1> USE DEF GateInv
  <1>1. sampler[a] \in Samplers
    BY DEF TypeOK
  <1>2. PICK known \in Names :
            /\ known # NoIdentity => WasEstablished(known)
            /\ sampler' = [sampler EXCEPT ![a] =
                     [phase |-> "gated", identity |-> sampler[a].identity,
                      at |-> sampler[a].at, gate |-> Verdict(sampler[a].identity, known),
                      known |-> known]]
    BY EstablishedIsARow DEF subscription_gate
  <1>3. /\ sampler[a].phase = "measured"
        /\ UNCHANGED <<credential, now, results, observations, history, spooled>>
    BY DEF subscription_gate
  <1>4. /\ \A b \in Attempts \ {a} : sampler'[b] = sampler[b]
        /\ sampler'[a].phase = "gated" /\ sampler'[a].identity = sampler[a].identity
        /\ sampler'[a].gate = Verdict(sampler[a].identity, known)
    BY <1>2 DEF TypeOK
  <1>5. sampler' \in [Attempts -> Samplers]
    BY <1>1, <1>2 DEF TypeOK, Samplers, Phases, Gates, Verdict
  <1>6. sampler'[a].gate # "Store" => sampler'[a].identity \in Identities
    BY <1>1, <1>4 DEF Samplers, Names, Verdict
  <1>7. \A x \in Names : WasEstablished(x)' <=> WasEstablished(x)
    BY <1>3 DEF WasEstablished
  <1>8. sampler'[a].gate = "Store" /\ sampler'[a].identity # NoIdentity =>
            sampler[a].identity = known /\ WasEstablished(known)
    BY <1>2, <1>4 DEF Verdict
  <1>9. Tells(a)'
    <2>1. results[a] = "None" /\ a \notin spooled
      BY <1>3 DEF Tells
    <2>2. sampler'[a].gate = "Store" /\ sampler'[a].identity # NoIdentity =>
              WasEstablished(sampler[a].identity)'
      BY <1>4, <1>7, <1>8 DEF WasEstablished
    <2> QED BY <1>3, <1>4, <2>1, <2>2 DEF Tells
  <1> QED BY <1>3, <1>4, <1>5, <1>6, <1>9, SamplerStepKeepsInv DEF TypeOK

\* A change of phase alone, as most steps are.
LEMMA PhaseStep ==
    ASSUME TypeOK, NEW a \in Attempts, NEW ph \in Phases,
           sampler' = [sampler EXCEPT ![a].phase = ph]
    PROVE  /\ sampler' \in [Attempts -> Samplers]
           /\ \A b \in Attempts \ {a} : sampler'[b] = sampler[b]
           /\ sampler'[a].phase = ph
           /\ \A b \in Attempts : /\ sampler'[b].identity = sampler[b].identity
                                  /\ sampler'[b].gate = sampler[b].gate
                                  /\ sampler'[b].known = sampler[b].known
                                  /\ sampler'[b].at = sampler[b].at
  BY DEF TypeOK, Samplers

\* The read of the newest row: a repeat has its row.
LEMMA ReadLatestKeepsInv ==
    ASSUME GateInv, NEW a \in Attempts, ReadLatestChange(a)
    PROVE  GateInv'
  <1> USE DEF GateInv
  <1>1. PICK ph \in {"repeat", "refuse"} :
            /\ sampler' = [sampler EXCEPT ![a].phase = ph]
            /\ ph = "repeat" => already_recorded(sampler[a].known, sampler[a].identity)
    BY DEF ReadLatestChange
  <1>2. /\ sampler[a].phase = "gated" /\ sampler[a].gate = "Refuse"
        /\ UNCHANGED <<credential, now, results, observations, history, spooled>>
    BY DEF ReadLatestChange
  <1>3. /\ sampler' \in [Attempts -> Samplers]
        /\ \A b \in Attempts \ {a} : sampler'[b] = sampler[b]
        /\ sampler'[a].phase = ph
        /\ sampler'[a].identity = sampler[a].identity
        /\ sampler'[a].gate = sampler[a].gate
        /\ sampler'[a].known = sampler[a].known
    BY <1>1, PhaseStep DEF Phases
  <1>4. ph = "repeat" => Recorded(a)'
    <2> SUFFICES ASSUME ph = "repeat" PROVE Recorded(a)'
      OBVIOUS
    <2>1. already_recorded(sampler[a].known, sampler[a].identity)
      BY <1>1
    <2>2. history # <<>> => Len(history) \in DOMAIN history
      BY DEF TypeOK
    <2> QED BY <1>2, <1>3, <2>1, <2>2 DEF already_recorded, Recorded
  <1>5. Tells(a)'
    BY <1>2, <1>3, <1>4 DEF Tells
  <1>6. sampler'[a].gate # "Store" => sampler'[a].identity \in Identities
    BY <1>3 DEF FirstSightingsName
  <1> QED BY <1>2, <1>3, <1>5, <1>6, SamplerStepKeepsInv DEF TypeOK

\* The bundle reaches the spool.
LEMMA SpoolKeepsInv ==
    ASSUME GateInv, NEW a \in Attempts, spool_pending(a)
    PROVE  GateInv'
  <1> USE DEF GateInv
  <1>1. /\ sampler[a].phase = "gated" /\ sampler[a].gate # "Refuse"
        /\ spooled' = spooled \cup {a}
        /\ UNCHANGED <<credential, now, results, observations, history>>
    BY DEF spool_pending
  <1>2. /\ sampler' \in [Attempts -> Samplers]
        /\ \A b \in Attempts \ {a} : sampler'[b] = sampler[b]
        /\ sampler'[a].phase = "spooled"
        /\ sampler'[a].identity = sampler[a].identity
        /\ sampler'[a].gate = sampler[a].gate
    BY PhaseStep DEF Phases, spool_pending
  <1>3. Tells(a)'
    <2>1. WasEstablished(sampler[a].identity) => WasEstablished(sampler[a].identity)'
      BY <1>1, <1>2 DEF WasEstablished
    <2> QED BY <1>1, <1>2, <2>1 DEF Tells
  <1>4. sampler'[a].gate # "Store" => sampler'[a].identity \in Identities
    BY <1>2 DEF FirstSightingsName
  <1> QED BY <1>1, <1>2, <1>3, <1>4, SamplerStepKeepsInv DEF TypeOK

\* A sampler ends where it stands.
LEMMA EndKeepsInv ==
    ASSUME GateInv, NEW a \in Attempts, End(a)
    PROVE  GateInv'
  <1> USE DEF GateInv
  <1>1. /\ sampler[a].phase # "done"
        /\ UNCHANGED <<credential, now, results, observations, history, spooled>>
    BY DEF End, Live
  <1>2. /\ sampler' \in [Attempts -> Samplers]
        /\ \A b \in Attempts \ {a} : sampler'[b] = sampler[b]
        /\ sampler'[a].phase = "done"
        /\ sampler'[a].identity = sampler[a].identity
        /\ sampler'[a].gate = sampler[a].gate
        /\ sampler'[a].known = sampler[a].known
    BY PhaseStep DEF Phases, End
  <1>3. Tells(a)'
    <2>1. WasEstablished(sampler[a].identity) => WasEstablished(sampler[a].identity)'
      BY <1>1, <1>2 DEF WasEstablished
    <2>2. Recorded(a) => Recorded(a)'
      BY <1>1, <1>2 DEF Recorded
    <2> QED BY <1>1, <1>2, <2>1, <2>2 DEF Tells
  <1>4. sampler'[a].gate # "Store" => sampler'[a].identity \in Identities
    BY <1>2 DEF FirstSightingsName
  <1> QED BY <1>1, <1>2, <1>3, <1>4, SamplerStepKeepsInv DEF TypeOK

\* The refused result, alone or with its row.
LEMMA RefusalKeepsInv ==
    ASSUME GateInv, NEW a \in Attempts, CommitRepeat(a) \/ commit_subscription_refusal(a)
    PROVE  GateInv'
  <1> USE DEF GateInv
  <1> DEFINE row == ChangedRow(a)
  <1>1. /\ sampler[a].phase \in {"repeat", "refuse"}
        /\ sampler[a].phase = "refuse" => history' = Append(history, row)
        /\ sampler[a].phase = "repeat" => history' = history
        /\ results' = [results EXCEPT ![a] = "SubscriptionChanged"]
        /\ UNCHANGED <<credential, now, observations, spooled>>
    BY DEF CommitRepeat, commit_subscription_refusal
  <1>2. /\ sampler' \in [Attempts -> Samplers]
        /\ \A b \in Attempts \ {a} : sampler'[b] = sampler[b]
        /\ sampler'[a].phase = "done"
        /\ \A b \in Attempts : /\ sampler'[b].identity = sampler[b].identity
                               /\ sampler'[b].gate = sampler[b].gate
                               /\ sampler'[b].known = sampler[b].known
                               /\ sampler'[b].at = sampler[b].at
    BY PhaseStep DEF Phases, CommitRepeat, commit_subscription_refusal
  <1>3. sampler[a] \in Samplers /\ sampler[a].identity \in Identities
    BY <1>1 DEF TypeOK, Tells, FirstSightingsName
  <1>4. /\ row \in Changes
        /\ row.kind = "Changed" /\ row.attempt = a /\ row.at = sampler[a].at
        /\ row.previous = sampler[a].known /\ row.current = sampler[a].identity
    BY <1>3 DEF ChangedRow, Changes, Samplers
  <1> HIDE DEF row
  <1>5. /\ history' \in Seq(Changes)
        /\ Extends
        /\ \A i \in DOMAIN history' \ DOMAIN history : history'[i] = row
        /\ sampler[a].phase = "refuse" => \E i \in DOMAIN history' : history'[i] = row
    <2>1. CASE sampler[a].phase = "refuse"
      BY <1>1, <1>4, <2>1, HistoryGrows DEF Extends, TypeOK
    <2>2. CASE sampler[a].phase = "repeat"
      BY <1>1, <2>2 DEF Extends, TypeOK
    <2> QED BY <1>1, <2>1, <2>2
  <1>6. TypeOK'
    BY <1>1, <1>2, <1>5 DEF TypeOK
  <1>7. Recorded(a)'
    <2>1. CASE sampler[a].phase = "refuse"
      BY <1>2, <1>4, <1>5, <2>1 DEF Recorded
    <2>2. CASE sampler[a].phase = "repeat"
      BY <1>1, <1>2, <2>2 DEF Recorded, Tells
    <2> QED BY <1>1, <2>1, <2>2
  <1>8. results'[a] = "SubscriptionChanged" /\ \A b \in Attempts \ {a} : results'[b] = results[b]
    BY <1>1 DEF TypeOK
  <1>9. Tells(a)'
    BY <1>1, <1>2, <1>7, <1>8 DEF Tells
  <1>10. \A b \in Attempts : Tells(b)'
    BY <1>1, <1>2, <1>5, <1>8, <1>9, OthersKeepTelling
  <1>11. \A b : Observed(b)' <=> Observed(b)
    BY <1>1 DEF Observed
  <1>12. ObservedIsSuccess'
    BY <1>1, <1>8, <1>11 DEF ObservedIsSuccess, Tells
  <1>13. RowsAreDated'
    <2> SUFFICES ASSUME NEW i \in DOMAIN history', history'[i].kind = "Changed"
                 PROVE  /\ sampler'[history'[i].attempt].phase = "done"
                        /\ sampler'[history'[i].attempt].at = history'[i].at
      BY DEF RowsAreDated
    <2>1. CASE i \in DOMAIN history
      <3>1. history'[i] = history[i] /\ history[i].attempt \in Attempts
        BY <1>5, <2>1, RowsAreChanges DEF Extends
      <3> QED BY <1>2, <2>1, <3>1 DEF RowsAreDated
    <2>2. CASE i \notin DOMAIN history
      BY <1>2, <1>4, <1>5, <2>2
    <2> QED BY <2>1, <2>2
  <1>14. FirstSightingsName'
    BY <1>2 DEF FirstSightingsName
  <1>15. EstablishmentIsEarned'
    BY <1>2, <1>4, <1>5, <1>11, EarnedStep
  <1> QED BY <1>6, <1>10, <1>12, <1>13, <1>14, <1>15

\* A bundle commits, from its sampler or from a drain.
LEMMA BundleKeepsInv ==
    ASSUME GateInv, NEW a \in Attempts, commit_terminal_bundle(a) \/ Drain(a)
    PROVE  GateInv'
  <1> USE DEF GateInv
  <1>1. a \in spooled /\ results[a] = "None"
    BY DEF commit_terminal_bundle, Drain, Tells
  <1>2. /\ results' = [results EXCEPT ![a] = "Success"]
        /\ observations' = Append(observations, a)
        /\ UNCHANGED <<credential, now, history, spooled>>
    BY DEF commit_terminal_bundle, Drain, StoreBundle
  <1>3. /\ sampler' \in [Attempts -> Samplers]
        /\ \A b \in Attempts \ {a} : sampler'[b] = sampler[b]
        /\ \A b \in Attempts : /\ sampler'[b].identity = sampler[b].identity
                               /\ sampler'[b].gate = sampler[b].gate
                               /\ sampler'[b].known = sampler[b].known
                               /\ sampler'[b].at = sampler[b].at
        /\ sampler'[a].phase \in {"committed", "done", sampler[a].phase}
        /\ sampler'[a].phase = "committed" => sampler[a].gate = "Establish"
        /\ sampler[a].phase = "done" => sampler'[a].phase = "done"
    <2>1. CASE commit_terminal_bundle(a)
      <3>1. PICK ph \in {"committed", "done"} :
                /\ sampler' = [sampler EXCEPT ![a].phase = ph]
                /\ ph = "committed" => sampler[a].gate = "Establish"
        BY <2>1 DEF commit_terminal_bundle
      <3>2. sampler[a].phase = "spooled"
        BY <2>1 DEF commit_terminal_bundle
      <3> QED BY <3>1, <3>2, PhaseStep DEF Phases
    <2>2. CASE Drain(a)
      BY <1>1, <2>2 DEF Drain, TypeOK, Tells
    <2> QED BY <2>1, <2>2
  <1>4. /\ results'[a] = "Success" /\ \A b \in Attempts \ {a} : results'[b] = results[b]
        /\ results' \in [Attempts -> {"None", "Success", "SubscriptionChanged"}]
    BY <1>2 DEF TypeOK
  <1>5. /\ observations' \in Seq(Attempts)
        /\ \A b \in Attempts : Observed(b)' <=> Observed(b) \/ b = a
    BY <1>2, ObservationsGrow DEF TypeOK
  <1>6. TypeOK'
    BY <1>2, <1>3, <1>4, <1>5 DEF TypeOK
  <1>7. Extends
    BY <1>2 DEF Extends
  <1>8. Tells(a)'
    <2>1. WasEstablished(sampler[a].identity) => WasEstablished(sampler[a].identity)'
      BY <1>2, <1>3 DEF WasEstablished
    <2> QED BY <1>1, <1>2, <1>3, <1>4, <2>1 DEF Tells
  <1>9. \A b \in Attempts : Tells(b)'
    BY <1>2, <1>3, <1>4, <1>7, <1>8, OthersKeepTelling
  <1>10. ObservedIsSuccess'
    BY <1>4, <1>5 DEF ObservedIsSuccess
  <1>11. RowsAreDated'
    <2> SUFFICES ASSUME NEW i \in DOMAIN history, history[i].kind = "Changed"
                 PROVE  /\ sampler'[history[i].attempt].phase = "done"
                        /\ sampler'[history[i].attempt].at = history[i].at
      BY <1>2 DEF RowsAreDated
    <2>1. history[i].attempt \in Attempts
      BY RowsAreChanges
    <2> QED BY <1>3, <2>1 DEF RowsAreDated
  <1>12. FirstSightingsName'
    BY <1>3 DEF FirstSightingsName
  <1>13. EstablishmentIsEarned'
    BY <1>2, <1>3, <1>5, <1>7, EarnedStep
  <1> QED BY <1>6, <1>9, <1>10, <1>11, <1>12, <1>13

\* An establishing row: of a first sighting behind its observation, or of an
\* acceptance behind the change it accepts.
LEMMA EstablishKeepsInv ==
    ASSUME GateInv,
           \/ \E a \in Attempts : record_subscription_established(a)
           \/ \E id \in DOMAIN history : accept_change(id)
    PROVE  GateInv'
  <1> USE DEF GateInv
  <1>1. PICK n \in Nat : n = Len(history) + 1
    BY DEF TypeOK
  <1>2. PICK row \in Changes :
            /\ history' = Append(history, row)
            /\ row.kind = "Established"
            /\ \/ Accepts(n)'
               \/ Observed(row.attempt) /\ sampler[row.attempt].identity = row.current
    <2>1. ASSUME NEW a \in Attempts, record_subscription_established(a)
          PROVE  \E row \in Changes :
                    /\ history' = Append(history, row)
                    /\ row.kind = "Established"
                    /\ Observed(row.attempt) /\ sampler[row.attempt].identity = row.current
      <3>1. sampler[a].phase = "committed" /\ history' = Append(history, EstablishedRow(a))
        BY <2>1 DEF record_subscription_established
      <3>2. Observed(a)
        BY <3>1 DEF Tells, ObservedIsSuccess
      <3>3. sampler[a] \in Samplers /\ sampler[a].identity \in Identities
        BY <3>1 DEF TypeOK, Tells, FirstSightingsName
      <3>4. /\ EstablishedRow(a) \in Changes
            /\ EstablishedRow(a).kind = "Established"
            /\ EstablishedRow(a).attempt = a
            /\ EstablishedRow(a).current = sampler[a].identity
        BY <3>3 DEF EstablishedRow, Changes, Samplers, Names
      <3> QED BY <3>1, <3>2, <3>4
    <2>2. ASSUME NEW id \in DOMAIN history, accept_change(id)
          PROVE  \E row \in Changes :
                    /\ history' = Append(history, row)
                    /\ row.kind = "Established"
                    /\ Accepts(n)'
      <3> DEFINE row == [kind |-> "Established", previous |-> NoIdentity,
                         current |-> history[id].current,
                         attempt |-> history[id].attempt, at |-> now]
      <3>1. /\ id = Len(history) /\ history[id].kind = "Changed"
            /\ history' = Append(history, row)
        BY <2>2 DEF accept_change
      <3>2. history[id] \in Changes
        BY RowsAreChanges
      <3>3. row \in Changes
        BY <3>2 DEF Changes, Names, TypeOK
      <3>4. /\ row.kind = "Established"
            /\ row.current = history[id].current /\ row.attempt = history[id].attempt
        OBVIOUS
      <3> HIDE DEF row
      <3>5. /\ id \in DOMAIN history'
            /\ history'[id] = history[id] /\ history'[n] = row
        BY <1>1, <3>1, <3>3, HistoryGrows DEF TypeOK
      <3>6. n - 1 = id
        BY <1>1, <3>1 DEF TypeOK
      <3>7. Accepts(n)'
        BY <3>1, <3>4, <3>5, <3>6 DEF Accepts
      <3> QED BY <3>1, <3>3, <3>4, <3>7
    <2> QED BY <2>1, <2>2
  <1>3. /\ history' \in Seq(Changes)
        /\ Extends
        /\ \A i \in DOMAIN history' \ DOMAIN history : i = n
        /\ history'[n] = row
    BY <1>1, <1>2, HistoryGrows DEF Extends, TypeOK
  <1>4. /\ UNCHANGED <<credential, results, observations, spooled>>
        /\ now' \in Nat
    <2>1. now \in Nat
      BY DEF TypeOK
    <2>2. CASE \E id \in DOMAIN history : accept_change(id)
      BY <2>1, <2>2 DEF accept_change
    <2>3. CASE \E a \in Attempts : record_subscription_established(a)
      BY <2>1, <2>3 DEF record_subscription_established
    <2> QED BY <2>2, <2>3
  <1>5. /\ sampler' \in [Attempts -> Samplers]
        /\ \A b \in Attempts :
              /\ \/ sampler'[b] = sampler[b]
                 \/ sampler[b].phase = "committed" /\ sampler'[b].phase = "done"
              /\ sampler'[b].identity = sampler[b].identity
              /\ sampler'[b].gate = sampler[b].gate
              /\ sampler'[b].known = sampler[b].known
              /\ sampler'[b].at = sampler[b].at
    <2>1. CASE \E id \in DOMAIN history : accept_change(id)
      BY <2>1 DEF accept_change, TypeOK
    <2>2. CASE \E a \in Attempts : record_subscription_established(a)
      <3>1. PICK a \in Attempts : /\ sampler[a].phase = "committed"
                                  /\ sampler' = [sampler EXCEPT ![a].phase = "done"]
        BY <2>2 DEF record_subscription_established
      <3> QED BY <3>1, PhaseStep DEF Phases
    <2> QED BY <2>1, <2>2
  <1>6. TypeOK'
    BY <1>3, <1>4, <1>5 DEF TypeOK
  <1>7. ASSUME NEW b \in Attempts PROVE Tells(b)'
    <2>1. Recorded(b) => Recorded(b)'
      BY <1>3, <1>5 DEF Recorded, Extends
    <2>2. WasEstablished(sampler[b].identity) => WasEstablished(sampler[b].identity)'
      BY <1>3, <1>5 DEF WasEstablished, Extends
    <2> QED BY <1>4, <1>5, <2>1, <2>2 DEF Tells
  <1>8. \A b : Observed(b)' <=> Observed(b)
    BY <1>4 DEF Observed
  <1>9. ObservedIsSuccess'
    BY <1>4, <1>8 DEF ObservedIsSuccess
  <1>10. RowsAreDated'
    <2> SUFFICES ASSUME NEW i \in DOMAIN history', history'[i].kind = "Changed"
                 PROVE  /\ sampler'[history'[i].attempt].phase = "done"
                        /\ sampler'[history'[i].attempt].at = history'[i].at
      BY DEF RowsAreDated
    <2>1. i \in DOMAIN history
      BY <1>2, <1>3
    <2>2. history'[i] = history[i] /\ history[i].attempt \in Attempts
      BY <1>3, <2>1, RowsAreChanges DEF Extends
    <2> QED BY <1>5, <2>1, <2>2 DEF RowsAreDated
  <1>11. FirstSightingsName'
    BY <1>5 DEF FirstSightingsName
  <1>12. row.attempt \in Attempts
    BY DEF Changes
  <1>13. EstablishmentIsEarned'
    BY <1>2, <1>3, <1>5, <1>8, <1>12, EarnedStep
  <1> QED BY <1>6, <1>7, <1>9, <1>10, <1>11, <1>13

-----------------------------------------------------------------------------
(* Theorems.                                                               *)

\* Empty tables and idle samplers satisfy the invariant.
LEMMA InitHasInv == Init => GateInv
  <1> SUFFICES ASSUME Init PROVE GateInv
    OBVIOUS
  <1>1. TypeOK
    BY DEF Init, TypeOK, NoSampler, Samplers, Names, Gates, Phases
  <1>2. \A a \in Attempts : sampler[a] = NoSampler /\ results[a] = "None" /\ a \notin spooled
    BY DEF Init
  <1>3. DOMAIN history = {} /\ DOMAIN observations = {}
    BY DEF Init
  <1>4. \A a \in Attempts : Tells(a)
    BY <1>2 DEF Tells, NoSampler
  <1>5. ObservedIsSuccess /\ RowsAreDated /\ EstablishmentIsEarned
    BY <1>2, <1>3 DEF ObservedIsSuccess, RowsAreDated, EstablishmentIsEarned, Observed
  <1>6. FirstSightingsName
    BY <1>2 DEF FirstSightingsName, NoSampler
  <1> QED BY <1>1, <1>4, <1>5, <1>6 DEF GateInv

\* Every step keeps the invariant, one lemma per group of actions.
LEMMA NextKeepsInv == GateInv /\ [Next]_vars => GateInv'
  <1> SUFFICES ASSUME GateInv, [Next]_vars PROVE GateInv'
    OBVIOUS
  <1>1. ASSUME NEW a \in Attempts, PersistOne(a) \/ Drain(a) PROVE GateInv'
    BY <1>1, MeasureKeepsInv, GateKeepsInv, ReadLatestKeepsInv, RefusalKeepsInv,
       SpoolKeepsInv, BundleKeepsInv, EstablishKeepsInv, EndKeepsInv DEF PersistOne
  <1>2. CASE \E i \in Names : Login(i)
    <2>1. /\ credential' \in Names
          /\ UNCHANGED <<now, sampler, results, observations, history, spooled>>
      BY <1>2 DEF Login
    <2> QED BY <2>1 DEF GateInv, TypeOK, Tells, Recorded, WasEstablished, ObservedIsSuccess,
               RowsAreDated, FirstSightingsName, EstablishmentIsEarned, Accepts, Observed
  <1>3. CASE UNCHANGED vars
    BY <1>3 DEF vars, GateInv, TypeOK, Tells, Recorded, WasEstablished, ObservedIsSuccess,
                RowsAreDated, FirstSightingsName, EstablishmentIsEarned, Accepts, Observed
  <1> QED BY <1>1, <1>2, <1>3, EstablishKeepsInv DEF Next

\* GateInv is inductive.
THEOREM GateIsSound == Spec => []GateInv
  BY InitHasInv, NextKeepsInv, PTL DEF Spec

\* Tables and samplers keep their types.
THEOREM GateTypeCorrect == Spec => []TypeOK
  <1>1. GateInv => TypeOK
    BY DEF GateInv
  <1> QED BY <1>1, GateIsSound, PTL

\* An identity is established by a stored reading of it, or by the acceptance of
\* the newest change.
THEOREM EstablishmentsAreEarned == Spec => []EstablishmentIsEarned
  <1>1. GateInv => EstablishmentIsEarned
    BY DEF GateInv
  <1> QED BY <1>1, GateIsSound, PTL

\* A stored reading that was no first sighting is of an identity the account was
\* established under.
THEOREM ReadingsAreStoredUnderTheirIdentity == Spec => []StoredUnderItsIdentity
  <1>1. GateInv => StoredUnderItsIdentity
    <2> SUFFICES ASSUME GateInv, NEW a \in Attempts, Observed(a),
                        sampler[a].identity # NoIdentity, sampler[a].gate # "Establish"
                 PROVE  WasEstablished(sampler[a].identity)
      BY DEF StoredUnderItsIdentity, WasEstablished
    <2>1. a \in spooled /\ Tells(a)
      BY DEF GateInv, ObservedIsSuccess, Tells
    <2>2. sampler[a].gate \in Gates
      BY DEF GateInv, TypeOK, Samplers
    <2> QED BY <2>1, <2>2 DEF Tells, Gates
  <1> QED BY <1>1, GateIsSound, PTL

\* A refused reading leaves a result and a row, and is stored nowhere.
THEOREM RefusalsStandAlone == Spec => []RefusalIsRecordedAlone
  <1>1. GateInv => RefusalIsRecordedAlone
    BY DEF GateInv, RefusalIsRecordedAlone, ObservedIsSuccess, Tells, Recorded
  <1> QED BY <1>1, GateIsSound, PTL

\* doctor fails on a refusal that is the newest reading and left the newest row.
THEOREM DoctorSeesRecordedRefusals == Spec => []DoctorFailsOnARecordedRefusal
  <1>1. GateInv => DoctorFailsOnARecordedRefusal
    <2> SUFFICES ASSUME GateInv, NEW a \in Attempts, NewestEnded(a), history # <<>>,
                        history[Len(history)].kind = "Changed",
                        history[Len(history)].attempt = a
                 PROVE  subscription_identity_change = "Fail"
      BY DEF DoctorFailsOnARecordedRefusal
    <2>1. Len(history) \in DOMAIN history
      BY DEF GateInv, TypeOK
    <2>2. sampler[a].at = history[Len(history)].at
      BY <2>1 DEF GateInv, RowsAreDated
    <2>3. ASSUME observations # <<>>
          PROVE  ~(sampler[observations[Len(observations)]].at > history[Len(history)].at)
      <3> DEFINE b == observations[Len(observations)]
      <3>1. Len(observations) \in DOMAIN observations /\ b \in Attempts
        BY <2>3 DEF GateInv, TypeOK
      <3>2. results[b] = "Success"
        BY <3>1 DEF GateInv, ObservedIsSuccess, Observed
      <3>3. sampler[b].at <= sampler[a].at
        BY <3>1, <3>2 DEF NewestEnded
      <3>4. sampler[a].at \in Nat /\ sampler[b].at \in Nat
        BY <3>1 DEF GateInv, TypeOK, Samplers
      <3> HIDE DEF b
      <3> QED BY <2>2, <3>3, <3>4 DEF b
    <2> QED BY <2>3 DEF subscription_identity_change
  <1> QED BY <1>1, GateIsSound, PTL

=============================================================================
