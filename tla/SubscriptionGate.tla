-------------------------- MODULE SubscriptionGate --------------------------
(***************************************************************************)
(* The subscription gate of one account: before a measured reading is      *)
(* stored, the subscription its credential names is compared with the one  *)
(* the account is established under, and the history of the comparison is  *)
(* kept in meter_subscription_change.                                      *)
(*                                                                         *)
(*   src/src/meter/sampler.rs                persist_one, subscription_gate,*)
(*                                           commit_refusal                *)
(*   src/src/store/subscription_identity.rs  the history table             *)
(*   src/src/store/repository.rs             the transactions              *)
(*   src/src/doctor/checks.rs                subscription_identity_change  *)
(*                                                                         *)
(* Every read and every transaction is a step of its own, as in the code,  *)
(* and a sampler may end after any of them (a store error or a crash).     *)
(* The sampling lease keeps the samplers of an account apart while its TTL *)
(* lasts: MaxLive = 1 is that case, more is a lease that ran out.  The     *)
(* files behind a spooled reading are MeterSpool's; here a drain commits   *)
(* at any time what was spooled and never committed.                       *)
(***************************************************************************)
EXTENDS Integers, Sequences, FiniteSets

CONSTANTS Attempts,      \* attempts that end with a measured reading
          Identities,    \* subscription identities a credential can name
          NoIdentity,    \* the credential names none, or none is established
          MaxLive        \* samplers of the account alive at once

ASSUME GateAssumption ==
    /\ IsFiniteSet(Attempts)
    /\ NoIdentity \notin Identities
    /\ MaxLive \in Nat \ {0}

VARIABLES
    credential,    \* the identity the credential on disk names
    now,           \* UTC nanoseconds: no two events share an instant
    sampler,       \* attempt -> its sampler's record
    results,       \* attempt -> meter_attempt_result outcome
    observations,  \* meter_observation rows of the account, by id
    history,       \* meter_subscription_change rows of the account, by id
    spooled        \* attempts whose reading reached the spool

vars == <<credential, now, sampler, results, observations, history, spooled>>

----------------------------------------------------------------------------
Names == Identities \cup {NoIdentity}
Gates == {"Store", "Establish", "Refuse"}
Phases == {"idle", "measured", "gated", "spooled", "committed",
           "refuse", "repeat", "done"}

\* known: the established identity the gate read.
Samplers == [phase : Phases, identity : Names, at : Nat, gate : Gates, known : Names]
NoSampler == [phase |-> "idle", identity |-> NoIdentity, at |-> 0,
              gate |-> "Store", known |-> NoIdentity]

Changes == [kind : {"Established", "Changed"}, previous : Names,
            current : Identities, attempt : Attempts, at : Nat]

TypeOK ==
    /\ credential \in Names
    /\ now \in Nat
    /\ sampler \in [Attempts -> Samplers]
    /\ results \in [Attempts -> {"None", "Success", "SubscriptionChanged"}]
    /\ observations \in Seq(Attempts)
    /\ history \in Seq(Changes)
    /\ spooled \subseteq Attempts

Init ==
    /\ credential \in Identities
    /\ now = 0
    /\ sampler = [a \in Attempts |-> NoSampler]
    /\ results = [a \in Attempts |-> "None"]
    /\ observations = <<>>
    /\ history = <<>>
    /\ spooled = {}

----------------------------------------------------------------------------
(* Reads of the history.                                                   *)

Live == {a \in Attempts : sampler[a].phase \notin {"idle", "done"}}

\* Row i is the newest of its kind that establishes: changed rows never do.
IsNewestEstablished(i) ==
    /\ history[i].kind = "Established"
    /\ \A j \in DOMAIN history : history[j].kind = "Established" => j <= i

\* Mutant: the newest row of any kind establishes.
NewestRowEstablishes ==
    IF history = <<>> THEN NoIdentity ELSE history[Len(history)].current

\* The identity of the newest established row.
established_identity_for_account ==
    IF \E i \in DOMAIN history : IsNewestEstablished(i)
    THEN history[CHOOSE i \in DOMAIN history : IsNewestEstablished(i)].current
    ELSE NoIdentity

\* The newest row is this very change: the episode is on record.
already_recorded(previous, current) ==
    /\ history # <<>>
    /\ history[Len(history)].kind = "Changed"
    /\ history[Len(history)].previous = previous
    /\ history[Len(history)].current = current

----------------------------------------------------------------------------
(* The operator and the provider.                                          *)

\* Another login, or a credential that names no subscription.
Login(i) ==
    /\ credential # i
    /\ credential' = i
    /\ UNCHANGED <<now, sampler, results, observations, history, spooled>>

\* aub account accept-identity with a change id doctor printed some time ago:
\* it must still be the newest row, and a change.  Checked in the transaction.
accept_change(id) ==
    /\ id = Len(history)
    /\ history # <<>>
    /\ history[id].kind = "Changed"
    /\ history' = Append(history,
                    [kind |-> "Established", previous |-> NoIdentity,
                     current |-> history[id].current,
                     attempt |-> history[id].attempt, at |-> now])
    /\ now' = now + 1
    /\ UNCHANGED <<credential, sampler, results, observations, spooled>>

----------------------------------------------------------------------------
(* persist_one.                                                            *)

\* The credential was resolved, the request ran, a reading came back.
Measure(a) ==
    /\ sampler[a].phase = "idle"
    /\ Cardinality(Live) < MaxLive
    /\ sampler' = [sampler EXCEPT ![a] =
                     [phase |-> "measured", identity |-> credential, at |-> now,
                      gate |-> "Store", known |-> NoIdentity]]
    /\ now' = now + 1
    /\ UNCHANGED <<credential, results, observations, history, spooled>>

\* What the gate concludes from the established identity it reads.
Verdict(current, known) ==
    IF current = NoIdentity \/ known = current THEN "Store"
    ELSE IF known = NoIdentity THEN "Establish" ELSE "Refuse"

subscription_gate(a) ==
    /\ sampler[a].phase = "measured"
    /\ LET known == established_identity_for_account IN
       sampler' = [sampler EXCEPT ![a] =
                     [phase |-> "gated", identity |-> @.identity, at |-> @.at,
                      gate |-> Verdict(@.identity, known), known |-> known]]
    /\ UNCHANGED <<credential, now, results, observations, history, spooled>>

\* commit_refusal reads the newest row: a repeat records no second one.
ReadLatestChange(a) ==
    /\ sampler[a].phase = "gated"
    /\ sampler[a].gate = "Refuse"
    /\ sampler' = [sampler EXCEPT ![a].phase =
                     IF already_recorded(sampler[a].known, sampler[a].identity)
                     THEN "repeat" ELSE "refuse"]
    /\ UNCHANGED <<credential, now, results, observations, history, spooled>>

\* commit_terminal_result: the refused result alone.
CommitRepeat(a) ==
    /\ sampler[a].phase = "repeat"
    /\ results' = [results EXCEPT ![a] = "SubscriptionChanged"]
    /\ sampler' = [sampler EXCEPT ![a].phase = "done"]
    /\ UNCHANGED <<credential, now, observations, history, spooled>>

\* The row commit_refusal builds.
ChangedRow(a) == [kind |-> "Changed", previous |-> sampler[a].known,
                  current |-> sampler[a].identity, attempt |-> a,
                  at |-> sampler[a].at]

\* Mutant: the row is a later transaction, which a crash may forget.
CommitRefusalInTwo(a) ==
    \/ /\ sampler[a].phase = "refuse"
       /\ results[a] = "None"
       /\ results' = [results EXCEPT ![a] = "SubscriptionChanged"]
       /\ UNCHANGED <<credential, now, observations, spooled, history, sampler>>
    \/ /\ sampler[a].phase = "refuse"
       /\ results[a] # "None"
       /\ history' = Append(history, ChangedRow(a))
       /\ sampler' = [sampler EXCEPT ![a].phase = "done"]
       /\ UNCHANGED <<credential, now, observations, spooled, results>>

\* The result and the change row, in one transaction.
commit_subscription_refusal(a) ==
    /\ sampler[a].phase = "refuse"
    /\ results' = [results EXCEPT ![a] = "SubscriptionChanged"]
    /\ history' = Append(history, ChangedRow(a))
    /\ sampler' = [sampler EXCEPT ![a].phase = "done"]
    /\ UNCHANGED <<credential, now, observations, spooled>>

\* The bundle is built and spooled once the gate lets the reading through.
spool_pending(a) ==
    /\ sampler[a].phase = "gated"
    /\ sampler[a].gate # "Refuse"
    /\ spooled' = spooled \cup {a}
    /\ sampler' = [sampler EXCEPT ![a].phase = "spooled"]
    /\ UNCHANGED <<credential, now, results, observations, history>>

\* The rows of one bundle: its result and its observation.
StoreBundle(a) ==
    /\ results' = [results EXCEPT ![a] = "Success"]
    /\ observations' = Append(observations, a)

\* commit_terminal_bundle.  A drain that came first holds the result row: the
\* insert fails and the cycle ends LeftPending.
commit_terminal_bundle(a) ==
    /\ sampler[a].phase = "spooled"
    /\ results[a] = "None"
    /\ StoreBundle(a)
    /\ sampler' = [sampler EXCEPT ![a].phase =
                     IF sampler[a].gate = "Establish" THEN "committed" ELSE "done"]
    /\ UNCHANGED <<credential, now, history, spooled>>

\* The row a first sighting leaves.
EstablishedRow(a) == [kind |-> "Established", previous |-> NoIdentity,
                      current |-> sampler[a].identity, attempt |-> a,
                      at |-> sampler[a].at]

\* Mutant: the row precedes the observation.
EstablishBeforeCommit(a) ==
    /\ sampler[a].phase = "spooled"
    /\ sampler[a].gate = "Establish"
    /\ history' = Append(history, EstablishedRow(a))
    /\ sampler' = [sampler EXCEPT ![a].gate = "Store"]
    /\ UNCHANGED <<credential, now, results, observations, spooled>>

\* A first sighting: the row follows the observation, in its own statement.
record_subscription_established(a) ==
    /\ sampler[a].phase = "committed"
    /\ history' = Append(history, EstablishedRow(a))
    /\ sampler' = [sampler EXCEPT ![a].phase = "done"]
    /\ UNCHANGED <<credential, now, results, observations, spooled>>

\* A store error (PersistFailed, Spooled) or a crash ends the sampler.
End(a) ==
    /\ a \in Live
    /\ sampler' = [sampler EXCEPT ![a].phase = "done"]
    /\ UNCHANGED <<credential, now, results, observations, history, spooled>>

\* A later command drains what is still pending; it does not look at identities.
Drain(a) ==
    /\ a \in spooled
    /\ results[a] = "None"
    /\ StoreBundle(a)
    /\ UNCHANGED <<credential, now, sampler, history, spooled>>

----------------------------------------------------------------------------
PersistOne(a) ==
    \/ Measure(a)
    \/ subscription_gate(a)
    \/ ReadLatestChange(a)
    \/ CommitRepeat(a)
    \/ commit_subscription_refusal(a)
    \/ spool_pending(a)
    \/ commit_terminal_bundle(a)
    \/ record_subscription_established(a)
    \/ End(a)

Next ==
    \/ \E a \in Attempts : PersistOne(a) \/ Drain(a)
    \/ \E i \in Names : Login(i)
    \/ \E id \in DOMAIN history : accept_change(id)

Spec == Init /\ [][Next]_vars

----------------------------------------------------------------------------
Observed(a) == \E i \in DOMAIN observations : observations[i] = a

\* An acceptance directly follows the change it accepts.
Accepts(i) ==
    /\ i - 1 \in DOMAIN history
    /\ history[i - 1].kind = "Changed"
    /\ history[i - 1].current = history[i].current
    /\ history[i - 1].attempt = history[i].attempt

(***************************************************************************)
(* An identity is established only by a reading of it that is stored, or   *)
(* by the acceptance of the change that was then the newest row: never by  *)
(* a reading that did not land, and never by a change a later row had      *)
(* superseded.                                                             *)
(***************************************************************************)
EstablishmentIsEarned ==
    \A i \in DOMAIN history :
        history[i].kind = "Established" =>
            \/ Accepts(i)
            \/ /\ Observed(history[i].attempt)
               /\ sampler[history[i].attempt].identity = history[i].current

(***************************************************************************)
(* A stored reading that names a subscription and was not a first sighting *)
(* is of an identity the account was established under at some time, and a *)
(* recorded change alone never lets one in.                                *)
(***************************************************************************)
StoredUnderItsIdentity ==
    \A a \in Attempts :
        (/\ Observed(a)
         /\ sampler[a].identity # NoIdentity
         /\ sampler[a].gate # "Establish") =>
            \E i \in DOMAIN history :
                /\ history[i].kind = "Established"
                /\ history[i].current = sampler[a].identity

(***************************************************************************)
(* A refused reading is on record and nowhere else: the history holds a    *)
(* change row with its pair of identities, and neither the spool nor the   *)
(* observations hold the reading.                                          *)
(***************************************************************************)
RefusalIsRecordedAlone ==
    \A a \in Attempts :
        results[a] = "SubscriptionChanged" =>
            /\ a \notin spooled
            /\ ~Observed(a)
            /\ \E i \in DOMAIN history :
                   /\ history[i].kind = "Changed"
                   /\ history[i].previous = sampler[a].known
                   /\ history[i].current = sampler[a].identity

\* Mutant: any observation settles the change.
AnyObservationSettles ==
    IF history = <<>> \/ history[Len(history)].kind # "Changed" THEN "Pass"
    ELSE IF observations # <<>> THEN "PassWithDetail" ELSE "Fail"

\* doctor: a change is settled by an observation received after it.
subscription_identity_change ==
    IF history = <<>> \/ history[Len(history)].kind # "Changed" THEN "Pass"
    ELSE IF /\ observations # <<>>
            /\ sampler[observations[Len(observations)]].at > history[Len(history)].at
         THEN "PassWithDetail"
         ELSE "Fail"

\* The newest reading that reached a result.
NewestEnded(a) ==
    /\ results[a] # "None"
    /\ \A b \in Attempts : results[b] # "None" => sampler[b].at <= sampler[a].at

(***************************************************************************)
(* doctor fails while the newest reading is a refusal that left the newest *)
(* row, although a drain may store an older reading behind it.  (A refusal *)
(* that repeats the pair of an earlier row leaves none, and doctor may     *)
(* then pass: see the README.)                                             *)
(***************************************************************************)
DoctorFailsOnARecordedRefusal ==
    \A a \in Attempts :
        (/\ NewestEnded(a)
         /\ results[a] = "SubscriptionChanged"
         /\ history # <<>>
         /\ history[Len(history)].kind = "Changed"
         /\ history[Len(history)].attempt = a) =>
            subscription_identity_change = "Fail"

=============================================================================
