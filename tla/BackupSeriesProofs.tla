------------------------- MODULE BackupSeriesProofs -------------------------
(***************************************************************************)
(* Proofs about BackupSeries for any number of overlapping backups, any    *)
(* retention policy that keeps something, and a series of any length.      *)
(*                                                                         *)
(* A prune works from a listing that may be old when it deletes.  What     *)
(* makes that safe is that the archives which ever verified only grow: an  *)
(* archive that was redundant among some of them is redundant among more.  *)
(* So the deletion list of every run, however old, consists of archives    *)
(* that are redundant now and have a newer verified one.                   *)
(***************************************************************************)
EXTENDS BackupSeries, WellFoundedInduction, FiniteSetTheorems, TLAPS

-----------------------------------------------------------------------------
(* Sets of stamps.                                                         *)

LessThan == {p \in Nat \X Nat : p[1] < p[2]}

\* A nonempty set of naturals has a least element.
LEMMA NatHasMin ==
    ASSUME NEW T \in SUBSET Nat, T # {}
    PROVE  \E x \in T : \A y \in T : x <= y
  <1>1. IsWellFoundedOn(LessThan, Nat)
    BY NatLessThanWellFounded DEF OpToRel, LessThan
  <1>2. PICK x \in T : \A y \in T : ~(<<y, x>> \in LessThan)
    BY <1>1, WFMin, Zenon
  <1>3. \A y \in T : ~(y < x)
    BY <1>2 DEF LessThan
  <1> QED BY <1>3

\* A nonempty set of stamps has a newest member: Victim is well defined.
LEMMA StampsHaveMax ==
    ASSUME NEW S \in SUBSET Stamps, S # {}
    PROVE  \E x \in S : \A y \in S : y <= x
  <1> DEFINE T == {MaxTime - x : x \in S}
  <1>1. \A x \in S : x \in Int /\ x <= MaxTime
    BY MaxTimeAssumption DEF Stamps
  <1>2. T \in SUBSET Nat
    BY <1>1, MaxTimeAssumption
  <1>3. T # {}
    OBVIOUS
  <1>4. PICK t \in T : \A y \in T : t <= y
    BY <1>2, <1>3, NatHasMin
  <1>5. PICK x \in S : t = MaxTime - x
    BY <1>4
  <1>6. \A y \in S : MaxTime - x <= MaxTime - y
    BY <1>4, <1>5
  <1> QED BY <1>1, <1>6, MaxTimeAssumption

\* The periods in which stamps fall are finitely many.
LEMMA PeriodsAreFinite ==
    ASSUME NEW A \in SUBSET Stamps, NEW a, NEW t
    PROVE  /\ IsFiniteSet(LaterPeriods(A, a, t))
           /\ Cardinality(LaterPeriods(A, a, t)) \in Nat
  <1> DEFINE C == {c \in A : c > a}
             P == {Period(b, t) : b \in C}
             f == [b \in C |-> Period(b, t)]
  <1>1. IsFiniteSet(Stamps)
    BY MaxTimeAssumption, FS_Interval DEF Stamps
  <1>2. IsFiniteSet(C)
    BY <1>1, FS_Subset
  <1>3. IsFiniteSet(P)
    <2>1. f \in Surjection(C, P)
      BY DEF Surjection
    <2> QED BY <1>2, <2>1, FS_Surjection
  <1>4. LaterPeriods(A, a, t) = P
    BY DEF LaterPeriods
  <1> QED BY <1>3, <1>4, FS_CardinalityType

\* More archives make no archive less redundant.
LEMMA RedundantIsMonotone ==
    ASSUME NEW A \in SUBSET Stamps, NEW B \in SUBSET Stamps, A \subseteq B,
           NEW a, NEW t \in Tiers, Redundant(a, A, t)
    PROVE  Redundant(a, B, t)
  <1>1. LaterPeriods(A, a, t) \subseteq LaterPeriods(B, a, t)
    BY DEF LaterPeriods
  <1>2. Cardinality(LaterPeriods(A, a, t)) <= Cardinality(LaterPeriods(B, a, t))
    BY <1>1, PeriodsAreFinite, FS_Subset
  <1>3. /\ Cardinality(LaterPeriods(A, a, t)) \in Nat
        /\ Cardinality(LaterPeriods(B, a, t)) \in Nat
    BY PeriodsAreFinite
  <1> QED BY <1>1, <1>2, <1>3, TiersAssumption DEF Redundant

\* What select_retained lets go is redundant in every bucket of its listing,
\* has a newer archive beside it and is not the one the pointer names.
LEMMA DoomedIsRedundant ==
    ASSUME NEW L \in SUBSET Stamps, NEW p, NEW a \in L \ select_retained(L, p)
    PROVE  /\ \A t \in Tiers : Redundant(a, L, t)
           /\ \E b \in L : b > a
           /\ a # p
  <1>1. ASSUME NEW t \in Tiers PROVE Redundant(a, L, t)
    <2>1. a \notin retain_bucket(L, t)
      BY DEF select_retained
    <2>2. \/ Period(a, t) \in LaterPeriods(L, a, t)
          \/ ~(Cardinality(LaterPeriods(L, a, t)) < t.keep)
      BY <2>1 DEF retain_bucket
    <2> QED BY <2>2, PeriodsAreFinite, TiersAssumption DEF Redundant
  <1>2. \E b \in L : b > a
    <2>1. PICK t \in Tiers : t.keep \in Nat /\ t.keep > 0
      BY TiersAssumption
    <2>2. LaterPeriods(L, a, t) # {}
      <3>1. SUFFICES ASSUME LaterPeriods(L, a, t) = {} PROVE FALSE
        OBVIOUS
      <3>2. Cardinality(LaterPeriods(L, a, t)) = 0
        BY <3>1, FS_EmptySet
      <3> QED BY <1>1, <2>1, <3>1, <3>2 DEF Redundant
    <2> QED BY <2>2 DEF LaterPeriods
  <1>3. a # p
    BY DEF select_retained, newest_verified
  <1> QED BY <1>1, <1>2, <1>3

-----------------------------------------------------------------------------
(* The inductive invariant.                                                *)

Doomed == UNION {run[r].doomed : r \in Runs}

\* No run owns an archive the clock has not reached, and a run that moves the
\* pointer owns one that verified.
RunsAreDated ==
    \A r \in Runs :
        /\ run[r].pc # "idle" => run[r].own \in 1..clock
        /\ run[r].pc \notin {"idle", "staged"} => run[r].own \in proven

\* Manifests and listings name nothing that never verified.
VerifiedIsProven ==
    /\ proven \subseteq 1..clock
    /\ \A a \in Stamps : manifest[a] = "verified" => a \in proven
    /\ \A r \in Runs : run[r].listed \subseteq proven
    /\ pointer \in Stamps => pointer \in proven

\* A verified archive leaves the root through a prune only.
ProvenIsKept == proven \subseteq present \cup Pruned

Spared(a) ==
    /\ a \in proven
    /\ \E b \in proven : b > a
    /\ \A t \in Tiers : Redundant(a, proven, t)

\* Retention can do without everything that is or is about to be deleted.
ChosenIsSpared == \A a \in Doomed \cup Pruned : Spared(a)

\* The pointer does not name it, nor will, unless it was chosen too early.
ChosenIsUnpointed ==
    \A a \in Doomed \cup Pruned : a \in early \/ (a # pointer /\ a \notin Unpointed)

SeriesInv ==
    /\ TypeOK
    /\ RunsAreDated
    /\ VerifiedIsProven
    /\ ProvenIsKept
    /\ ChosenIsSpared
    /\ ChosenIsUnpointed

\* Only the deletion lists hold what is deleted next.
LEMMA VictimIsDoomed ==
    ASSUME TypeOK, NEW r \in Runs, run[r].doomed # {}
    PROVE  Victim(r) \in run[r].doomed /\ Victim(r) \in Doomed /\ Victim(r) \in Stamps
  <1>1. run[r].doomed \in SUBSET Stamps
    BY DEF TypeOK, RunState
  <1>2. \E a \in run[r].doomed : \A b \in run[r].doomed : b <= a
    BY <1>1, StampsHaveMax
  <1>3. Victim(r) \in run[r].doomed
    BY <1>2 DEF Victim
  <1> QED BY <1>1, <1>3 DEF Doomed

\* A step that verifies archives and chooses none keeps what is chosen spared.
LEMMA SparedStep ==
    ASSUME SeriesInv, proven \subseteq proven', proven' \subseteq Stamps,
           (Doomed \cup Pruned)' \subseteq Doomed \cup Pruned
    PROVE  ChosenIsSpared'
  <1> SUFFICES ASSUME NEW a \in (Doomed \cup Pruned)' PROVE Spared(a)'
    BY DEF ChosenIsSpared
  <1>1. Spared(a)
    BY DEF SeriesInv, ChosenIsSpared
  <1>2. proven \in SUBSET Stamps /\ proven' \in SUBSET Stamps
    BY DEF SeriesInv, TypeOK
  <1>3. ASSUME NEW t \in Tiers PROVE Redundant(a, proven', t)
    <2>1. Redundant(a, proven, t)
      BY <1>1 DEF Spared
    <2> QED BY <1>2, <2>1, RedundantIsMonotone
  <1> QED BY <1>1, <1>3 DEF Spared

\* A step that points to nothing new keeps the pointer away from what is chosen.
LEMMA UnpointedStep ==
    ASSUME SeriesInv, (Doomed \cup Pruned)' \subseteq Doomed \cup Pruned,
           early' = early, Unpointed' \subseteq Unpointed,
           pointer' = pointer \/ pointer' \notin Stamps \/ pointer' \in Unpointed
    PROVE  ChosenIsUnpointed'
  <1> SUFFICES ASSUME NEW a \in (Doomed \cup Pruned)',  a \notin early
               PROVE  a # pointer' /\ a \notin Unpointed'
    BY DEF ChosenIsUnpointed
  <1>1. a # pointer /\ a \notin Unpointed
    BY DEF SeriesInv, ChosenIsUnpointed
  <1>2. a \in Stamps
    BY DEF SeriesInv, ChosenIsSpared, Spared, TypeOK
  <1> QED BY <1>1, <1>2

-----------------------------------------------------------------------------
(* One lemma per action.                                                   *)

\* A run fixes the name of its archive; nothing on disk changes.
LEMMA StampArchiveKeepsInv ==
    ASSUME SeriesInv, NEW r \in Runs, StampArchive(r)
    PROVE  SeriesInv'
  <1> USE DEF SeriesInv
  <1>1. PICK now \in {clock, clock + 1} \cap Stamps :
            /\ clock' = now
            /\ run' = [run EXCEPT ![r] = [Idle EXCEPT !.pc = "staged", !.own = now]]
    BY DEF StampArchive
  <1>2. now \in Stamps /\ clock \in 0..MaxTime /\ now >= clock
    BY <1>1 DEF TypeOK
  <1>3. /\ run'[r] = [pc |-> "staged", own |-> now, unread |-> {}, listed |-> {},
                   doomed |-> {}]
        /\ \A s \in Runs \ {r} : run'[s] = run[s]
        /\ UNCHANGED <<present, manifest, files, pointer, verifier, proven, early>>
    BY <1>1 DEF StampArchive, Idle, TypeOK
  <1>4. TypeOK'
    <2>1. run' \in [Runs -> RunState]
      BY <1>1, <1>2 DEF TypeOK, RunState, Idle, Name
    <2>2. clock' \in 0..MaxTime /\ present' \subseteq 1..clock'
      BY <1>1, <1>2, <1>3, MaxTimeAssumption DEF TypeOK, Stamps
    <2> QED BY <1>3, <2>1, <2>2 DEF TypeOK
  <1>5. 1..clock \subseteq 1..clock' /\ now \in 1..clock'
    BY <1>1, <1>2, MaxTimeAssumption DEF Stamps
  <1>6. RunsAreDated'
    BY <1>3, <1>5 DEF RunsAreDated
  <1>7. VerifiedIsProven'
    BY <1>3, <1>5 DEF VerifiedIsProven
  <1>8. ProvenIsKept'
    BY <1>3 DEF ProvenIsKept, Pruned
  <1>9. (Doomed \cup Pruned)' \subseteq Doomed \cup Pruned
    BY <1>3 DEF Doomed, Pruned
  <1>10. ChosenIsSpared'
    BY <1>3, <1>9, SparedStep DEF TypeOK
  <1>11. ChosenIsUnpointed'
    <2> SUFFICES ASSUME NEW a \in (Doomed \cup Pruned)', a \notin early
                 PROVE  a # pointer /\ a \notin Unpointed'
      BY <1>3 DEF ChosenIsUnpointed
    <2>1. a # pointer /\ a \notin Unpointed /\ Spared(a)
      BY <1>9 DEF ChosenIsUnpointed, ChosenIsSpared
    <2>2. a # now
      <3>1. PICK b \in proven : b > a
        BY <2>1 DEF Spared
      <3>2. b \in 1..clock /\ a \in 1..clock
        BY <2>1, <3>1 DEF VerifiedIsProven, Spared
      <3> QED BY <1>2, <3>1, <3>2, MaxTimeAssumption DEF Stamps
    <2> QED BY <1>3, <2>1, <2>2 DEF Unpointed
  <1> QED BY <1>4, <1>6, <1>7, <1>8, <1>10, <1>11

\* RefuseTakenName, Finish and Stop: the process is gone, the root as it was.
LEMMA EndingKeepsInv ==
    ASSUME SeriesInv, NEW r \in Runs, run' = [run EXCEPT ![r] = Idle],
           UNCHANGED <<clock, present, manifest, files, pointer, verifier, proven, early>>
    PROVE  SeriesInv'
  <1> USE DEF SeriesInv
  <1>1. /\ run'[r] = [pc |-> "idle", own |-> NoArchive, unread |-> {}, listed |-> {},
                   doomed |-> {}]
        /\ \A s \in Runs \ {r} : run'[s] = run[s]
    BY DEF TypeOK, Idle
  <1>2. TypeOK'
    BY DEF TypeOK, RunState, Idle, Name
  <1>3. RunsAreDated' /\ VerifiedIsProven' /\ ProvenIsKept'
    BY <1>1 DEF RunsAreDated, VerifiedIsProven, ProvenIsKept, Pruned
  <1>4. (Doomed \cup Pruned)' \subseteq Doomed \cup Pruned
    BY <1>1 DEF Doomed, Pruned
  <1>5. Unpointed' \subseteq Unpointed
    BY <1>1 DEF Unpointed
  <1>6. ChosenIsSpared' /\ ChosenIsUnpointed'
    BY <1>4, <1>5, SparedStep, UnpointedStep DEF TypeOK
  <1> QED BY <1>2, <1>3, <1>6

\* A verified archive appears.
LEMMA PublishKeepsInv ==
    ASSUME SeriesInv, NEW r \in Runs, Publish(r)
    PROVE  SeriesInv'
  <1> USE DEF SeriesInv
  <1> DEFINE own == run[r].own
  <1>1. own \in 1..clock /\ own \in Stamps /\ own \notin present
    BY MaxTimeAssumption DEF Publish, RunsAreDated, TypeOK, Stamps
  <1>2. /\ run'[r] = [run[r] EXCEPT !.pc = "published"]
        /\ \A s \in Runs \ {r} : run'[s] = run[s]
        /\ present' = present \cup {own}
        /\ proven' = proven \cup {own}
        /\ UNCHANGED <<clock, pointer, verifier, early>>
    BY DEF Publish, TypeOK
  <1>3. \A s \in Runs : /\ run'[s].own = run[s].own
                        /\ run'[s].listed = run[s].listed
                        /\ run'[s].doomed = run[s].doomed
    BY <1>2 DEF TypeOK, RunState
  <1>4. TypeOK'
    <2>1. /\ manifest' \in [Stamps -> {"verified", "unverified", "torn", "absent"}]
          /\ files' \in [Stamps -> {"whole", "rotten", "gutted"}]
      BY DEF TypeOK, Publish
    <2>2. run'[r] \in RunState /\ \A s \in Runs \ {r} : run'[s] \in RunState
      BY <1>2 DEF TypeOK, RunState
    <2>3. run' \in [Runs -> RunState]
      BY <2>2 DEF TypeOK, Publish
    <2> QED BY <1>1, <1>2, <2>1, <2>3 DEF TypeOK
  <1>5. RunsAreDated'
    BY <1>1, <1>2, <1>3 DEF RunsAreDated, Publish
  <1>6. VerifiedIsProven'
    BY <1>1, <1>2, <1>3 DEF VerifiedIsProven, Publish, TypeOK
  <1>7. Pruned' \subseteq Pruned /\ Pruned \subseteq Pruned' \cup {own}
    BY <1>1 DEF Pruned, Publish, TypeOK
  <1>8. ProvenIsKept'
    BY <1>2, <1>7 DEF ProvenIsKept
  <1>9. (Doomed \cup Pruned)' \subseteq Doomed \cup Pruned
    BY <1>3, <1>7 DEF Doomed
  <1>10. Unpointed' \subseteq Unpointed
    BY <1>2, <1>3 DEF Unpointed, Publish
  <1>11. ChosenIsSpared' /\ ChosenIsUnpointed'
    BY <1>1, <1>2, <1>9, <1>10, SparedStep, UnpointedStep DEF TypeOK
  <1> QED BY <1>4, <1>5, <1>6, <1>8, <1>11

\* An archive that failed its verification appears.
LEMMA AdoptKeepsInv ==
    ASSUME SeriesInv, NEW r \in Runs, backup_series_adopt_failed_tmp(r)
    PROVE  SeriesInv'
  <1> USE DEF SeriesInv
  <1> DEFINE own == run[r].own
  <1>1. own \in 1..clock /\ own \in Stamps /\ own \notin present
    BY MaxTimeAssumption DEF backup_series_adopt_failed_tmp, RunsAreDated, TypeOK, Stamps
  <1>2. PICK state \in {"whole", "rotten"} : files' = [files EXCEPT ![own] = state]
    BY DEF backup_series_adopt_failed_tmp
  <1>3. /\ run'[r] = [pc |-> "idle", own |-> NoArchive, unread |-> {}, listed |-> {},
                   doomed |-> {}]
        /\ \A s \in Runs \ {r} : run'[s] = run[s]
        /\ present' = present \cup {own}
        /\ manifest' = [manifest EXCEPT ![own] = "unverified"]
        /\ UNCHANGED <<clock, pointer, verifier, proven, early>>
    BY DEF backup_series_adopt_failed_tmp, TypeOK, Idle
  <1>4. TypeOK'
    <2>1. /\ manifest' \in [Stamps -> {"verified", "unverified", "torn", "absent"}]
          /\ files' \in [Stamps -> {"whole", "rotten", "gutted"}]
      BY <1>2, <1>3 DEF TypeOK
    <2>2. run' \in [Runs -> RunState]
      BY DEF TypeOK, RunState, backup_series_adopt_failed_tmp, Idle, Name
    <2> QED BY <1>1, <1>3, <2>1, <2>2 DEF TypeOK, RunState
  <1>5. RunsAreDated' /\ VerifiedIsProven'
    BY <1>1, <1>3 DEF RunsAreDated, VerifiedIsProven, TypeOK
  <1>6. Pruned' \subseteq Pruned /\ Pruned \subseteq Pruned' \cup {own}
    BY <1>1, <1>2 DEF Pruned, TypeOK
  <1>7. ProvenIsKept'
    BY <1>3, <1>6 DEF ProvenIsKept
  <1>8. (Doomed \cup Pruned)' \subseteq Doomed \cup Pruned
    BY <1>3, <1>6 DEF Doomed
  <1>9. Unpointed' \subseteq Unpointed
    BY <1>3 DEF Unpointed
  <1>10. ChosenIsSpared' /\ ChosenIsUnpointed'
    BY <1>3, <1>8, <1>9, SparedStep, UnpointedStep DEF TypeOK
  <1> QED BY <1>4, <1>5, <1>7, <1>10

\* The pointer file is truncated, and written with the run's own archive.
LEMMA PointerKeepsInv ==
    ASSUME SeriesInv, NEW r \in Runs, TruncatePointer(r) \/ WritePointer(r)
    PROVE  SeriesInv'
  <1> USE DEF SeriesInv
  <1>1. run[r].own \in Stamps /\ run[r].own \in proven /\ run[r].own \in Unpointed
    BY DEF TruncatePointer, WritePointer, RunsAreDated, TypeOK, Unpointed
  <1>2. PICK pc \in {"pointing", "pruning"} : run' = [run EXCEPT ![r].pc = pc]
    BY DEF TruncatePointer, WritePointer
  <1>3. /\ pointer' = Torn \/ pointer' = run[r].own
        /\ UNCHANGED <<clock, present, manifest, files, verifier, proven, early>>
        /\ run[r].pc \in {"published", "pointing"}
    BY DEF TruncatePointer, WritePointer
  <1>4. \A s \in Runs : /\ run'[s].own = run[s].own
                        /\ run'[s].listed = run[s].listed
                        /\ run'[s].doomed = run[s].doomed
                        /\ run'[s].pc = IF s = r THEN pc ELSE run[s].pc
    BY <1>2 DEF TypeOK
  <1>5. TypeOK'
    BY <1>1, <1>2, <1>3 DEF TypeOK, RunState, Name
  <1>6. Torn \notin Stamps
    BY NoArchiveAssumption, MaxTimeAssumption DEF Stamps
  <1>7. RunsAreDated' /\ VerifiedIsProven' /\ ProvenIsKept'
    BY <1>1, <1>3, <1>4, <1>6 DEF RunsAreDated, VerifiedIsProven, ProvenIsKept, Pruned
  <1>8. (Doomed \cup Pruned)' \subseteq Doomed \cup Pruned
    BY <1>3, <1>4 DEF Doomed, Pruned
  <1>9. Unpointed' \subseteq Unpointed
    BY <1>3, <1>4 DEF Unpointed
  <1>10. ChosenIsSpared'
    BY <1>3, <1>8, SparedStep DEF TypeOK
  <1>11. ChosenIsUnpointed'
    BY <1>1, <1>3, <1>6, <1>8, <1>9, UnpointedStep
  <1> QED BY <1>5, <1>7, <1>10, <1>11

\* The listing of a prune: whatever is listed had verified when its manifest was
\* read.
LEMMA ListKeepsInv ==
    ASSUME SeriesInv, NEW r \in Runs, ListArchives(r) \/ ReadManifest(r)
    PROVE  SeriesInv'
  <1> USE DEF SeriesInv
  <1>1. /\ UNCHANGED <<clock, present, manifest, files, pointer, verifier, proven, early>>
        /\ run[r].pc \in {"pruning", "listing"}
    BY DEF ListArchives, ReadManifest
  <1>2. run \in [Runs -> RunState] /\ run[r] \in RunState
    BY DEF TypeOK
  <1>3. /\ run'[r] \in RunState /\ \A s \in Runs \ {r} : run'[s] = run[s]
        /\ run'[r].pc = "listing" /\ run'[r].own = run[r].own
        /\ run'[r].listed \subseteq run[r].listed \cup proven
        /\ run'[r].doomed = run[r].doomed
    <2>1. CASE ListArchives(r)
      <3> DEFINE next == [run[r] EXCEPT !.pc = "listing", !.unread = present]
      <3>1. present \in SUBSET Stamps
        BY MaxTimeAssumption DEF TypeOK, Stamps
      <3>2. run' = [run EXCEPT ![r] = next]
        BY <2>1 DEF ListArchives
      <3>3. /\ next \in RunState /\ next.pc = "listing" /\ next.own = run[r].own
            /\ next.listed = run[r].listed /\ next.doomed = run[r].doomed
        BY <1>2, <3>1 DEF RunState
      <3> HIDE DEF next
      <3> QED BY <1>2, <3>2, <3>3
    <2>2. CASE ReadManifest(r)
      <3> DEFINE found(a) == {b \in {a} \cap present : manifest[b] = "verified"}
                 next(a) == [run[r] EXCEPT !.unread = run[r].unread \ {a},
                                           !.listed = run[r].listed \cup found(a)]
      <3>1. PICK a \in run[r].unread : run' = [run EXCEPT ![r] = next(a)]
        BY <1>2, <2>2 DEF ReadManifest
      <3>2. present \in SUBSET Stamps
        BY MaxTimeAssumption DEF TypeOK, Stamps
      <3>3. found(a) \in SUBSET proven /\ found(a) \in SUBSET Stamps
        BY <3>2 DEF VerifiedIsProven
      <3>4. run[r].pc = "listing"
        BY <2>2 DEF ReadManifest
      <3> HIDE DEF found
      <3>5. /\ next(a) \in RunState /\ next(a).pc = "listing" /\ next(a).own = run[r].own
            /\ next(a).listed = run[r].listed \cup found(a) /\ next(a).doomed = run[r].doomed
        BY <1>2, <3>3, <3>4 DEF RunState
      <3> HIDE DEF next
      <3> QED BY <1>2, <3>1, <3>3, <3>5
    <2> QED BY <2>1, <2>2
  <1>4. TypeOK'
    <2>1. run' = [s \in Runs |-> run'[s]]
      BY <1>2 DEF ListArchives, ReadManifest
    <2>2. run' \in [Runs -> RunState]
      BY <1>2, <1>3, <2>1
    <2> QED BY <1>1, <2>2 DEF TypeOK
  <1>5. RunsAreDated' /\ VerifiedIsProven' /\ ProvenIsKept'
    BY <1>1, <1>3 DEF RunsAreDated, VerifiedIsProven, ProvenIsKept, Pruned
  <1>6. (Doomed \cup Pruned)' \subseteq Doomed \cup Pruned
    BY <1>1, <1>3 DEF Doomed, Pruned
  <1>7. Unpointed' \subseteq Unpointed
    BY <1>1, <1>3 DEF Unpointed
  <1>8. ChosenIsSpared' /\ ChosenIsUnpointed'
    BY <1>1, <1>6, <1>7, SparedStep, UnpointedStep DEF TypeOK
  <1> QED BY <1>4, <1>5, <1>8

\* The selection: what it dooms is spared by every archive that ever verified,
\* is not what the pointer names, and is early when its own run still has to
\* point to it.
LEMMA SelectKeepsInv ==
    ASSUME SeriesInv, NEW r \in Runs, SelectRetained(r)
    PROVE  SeriesInv'
  <1> USE DEF SeriesInv
  <1> DEFINE L == run[r].listed
             doomed == L \ select_retained(L, pointer)
  <1>1. /\ run' = [run EXCEPT ![r] = [pc |-> "deleting", own |-> run[r].own, unread |-> {},
                                      listed |-> {}, doomed |-> doomed]]
        /\ early' = early \cup (doomed \cap Unpointed)
        /\ run[r].pc = "listing"
        /\ UNCHANGED <<clock, present, manifest, files, pointer, verifier, proven>>
    BY DEF SelectRetained
  <1> HIDE DEF doomed
  <1>2. /\ run'[r].pc = "deleting" /\ run'[r].own = run[r].own
        /\ run'[r].listed = {} /\ run'[r].doomed = doomed
        /\ \A s \in Runs \ {r} : run'[s] = run[s]
    BY <1>1 DEF TypeOK
  <1>3. doomed \subseteq L /\ L \in SUBSET Stamps /\ L \subseteq proven
        /\ proven \in SUBSET Stamps
    BY DEF doomed, TypeOK, VerifiedIsProven
  <1>4. TypeOK'
    <2>1. run' \in [Runs -> RunState]
      BY <1>1, <1>3 DEF TypeOK, RunState
    <2> QED BY <1>1, <1>3, <2>1 DEF TypeOK
  <1>5. RunsAreDated' /\ VerifiedIsProven' /\ ProvenIsKept'
    BY <1>1, <1>2 DEF RunsAreDated, VerifiedIsProven, ProvenIsKept, Pruned
  <1>6. (Doomed \cup Pruned)' \subseteq doomed \cup Doomed \cup Pruned
    BY <1>1, <1>2 DEF Doomed, Pruned
  <1>7. ASSUME NEW a \in doomed PROVE Spared(a) /\ a # pointer
    <2>1. /\ \A t \in Tiers : Redundant(a, L, t)
          /\ \E b \in L : b > a
          /\ a # pointer
      BY <1>3, <1>7, DoomedIsRedundant DEF doomed
    <2>2. \A t \in Tiers : Redundant(a, proven, t)
      BY <1>3, <2>1, RedundantIsMonotone
    <2> QED BY <1>3, <1>7, <2>1, <2>2 DEF Spared
  <1>8. ChosenIsSpared'
    BY <1>1, <1>6, <1>7 DEF ChosenIsSpared, Spared
  <1>9. Unpointed' \subseteq Unpointed
    BY <1>1, <1>2 DEF Unpointed
  <1>10. ChosenIsUnpointed'
    BY <1>1, <1>6, <1>7, <1>9 DEF ChosenIsUnpointed
  <1> QED BY <1>4, <1>5, <1>8, <1>10

\* The files of a doomed archive go, then its directory.
LEMMA RemoveKeepsInv ==
    ASSUME SeriesInv, NEW r \in Runs, RemoveFiles(r) \/ RemoveDirectory(r)
    PROVE  SeriesInv'
  <1> USE DEF SeriesInv
  <1> DEFINE v == Victim(r)
  <1>1. v \in run[r].doomed /\ v \in Doomed /\ v \in Stamps
    BY VictimIsDoomed DEF RemoveFiles, RemoveDirectory
  <1> HIDE DEF v
  <1>2. CASE RemoveFiles(r)
    <2>1. PICK left \in {manifest[v], "absent"} : manifest' = [manifest EXCEPT ![v] = left]
      BY <1>2 DEF RemoveFiles, v
    <2>2. /\ files' = [files EXCEPT ![v] = "gutted"]
          /\ UNCHANGED <<clock, present, pointer, run, verifier, proven, early>>
      BY <1>2 DEF RemoveFiles, v
    <2>3. TypeOK'
      BY <1>1, <2>1, <2>2 DEF TypeOK
    <2>4. Pruned' = Pruned \cup {v}
      BY <1>1, <2>2 DEF Pruned, TypeOK
    <2>5. RunsAreDated' /\ VerifiedIsProven' /\ ProvenIsKept'
      BY <1>1, <2>1, <2>2, <2>4 DEF RunsAreDated, VerifiedIsProven, ProvenIsKept, TypeOK
    <2>6. (Doomed \cup Pruned)' \subseteq Doomed \cup Pruned
      BY <1>1, <2>2, <2>4 DEF Doomed
    <2>7. Unpointed' = Unpointed
      BY <2>2 DEF Unpointed
    <2>8. ChosenIsSpared' /\ ChosenIsUnpointed'
      BY <2>2, <2>6, <2>7, SparedStep, UnpointedStep DEF TypeOK
    <2> QED BY <2>3, <2>5, <2>8
  <1>3. CASE RemoveDirectory(r)
    <2>1. /\ present' = present \ {v} /\ files[v] = "gutted"
          /\ run' = [run EXCEPT ![r].doomed = @ \ {v}]
          /\ UNCHANGED <<clock, manifest, files, pointer, verifier, proven, early>>
      BY <1>3 DEF RemoveDirectory, v
    <2>2. \A s \in Runs : /\ run'[s].own = run[s].own /\ run'[s].pc = run[s].pc
                          /\ run'[s].listed = run[s].listed
                          /\ run'[s].doomed \subseteq run[s].doomed
      BY <2>1 DEF TypeOK
    <2>3. TypeOK'
      BY <2>1 DEF TypeOK, RunState
    <2>4. RunsAreDated' /\ VerifiedIsProven'
      BY <2>1, <2>2 DEF RunsAreDated, VerifiedIsProven
    <2>5. Pruned' = Pruned /\ v \in Pruned
      BY <1>1, <2>1 DEF Pruned
    <2>6. ProvenIsKept'
      BY <2>1, <2>5 DEF ProvenIsKept
    <2>7. (Doomed \cup Pruned)' \subseteq Doomed \cup Pruned
      BY <2>2, <2>5 DEF Doomed
    <2>8. Unpointed' = Unpointed
      BY <2>2 DEF Unpointed
    <2>9. ChosenIsSpared' /\ ChosenIsUnpointed'
      BY <2>1, <2>7, <2>8, SparedStep, UnpointedStep DEF TypeOK
    <2> QED BY <2>3, <2>4, <2>6, <2>9
  <1> QED BY <1>2, <1>3

\* The verifier and decay.
LEMMA VerifierKeepsInv ==
    ASSUME SeriesInv,
           \/ \E a \in Stamps : CheckArchive(a) \/ Decay(a)
           \/ TruncateManifest \/ WriteVerdict \/ StopVerifier
    PROVE  SeriesInv'
  <1> USE DEF SeriesInv
  <1>1. /\ UNCHANGED <<clock, present, pointer, run, early>>
        /\ UNCHANGED Pruned
    BY DEF CheckArchive, Decay, TruncateManifest, WriteVerdict, StopVerifier, Pruned, TypeOK
  <1>2. Doomed' = Doomed /\ Unpointed' = Unpointed
    BY <1>1 DEF Doomed, Unpointed
  <1>3. /\ proven \subseteq proven'
        /\ proven' \subseteq present \cup proven
        /\ \A a \in Stamps : manifest'[a] = "verified" => a \in proven'
    BY DEF CheckArchive, Decay, TruncateManifest, WriteVerdict, StopVerifier, TypeOK,
           VerifiedIsProven
  <1>4. TypeOK'
    <2>1. /\ manifest' \in [Stamps -> {"verified", "unverified", "torn", "absent"}]
          /\ files' \in [Stamps -> {"whole", "rotten", "gutted"}]
      BY DEF TypeOK, CheckArchive, Decay, TruncateManifest, WriteVerdict, StopVerifier
    <2>2. verifier' \in [pc : {"idle", "checked", "rewriting"}, own : Name,
                         answer : {"verified", "unverified"}]
      BY DEF TypeOK, CheckArchive, Decay, TruncateManifest, WriteVerdict, StopVerifier,
             Resting, Verdict, Name
    <2>3. proven' \subseteq Stamps
      BY <1>3, MaxTimeAssumption DEF TypeOK, Stamps
    <2> QED BY <1>1, <2>1, <2>2, <2>3 DEF TypeOK
  <1>5. RunsAreDated' /\ VerifiedIsProven' /\ ProvenIsKept'
    BY <1>1, <1>3 DEF RunsAreDated, VerifiedIsProven, ProvenIsKept, TypeOK
  <1>6. ChosenIsSpared' /\ ChosenIsUnpointed'
    BY <1>1, <1>2, <1>3, <1>4, SparedStep, UnpointedStep DEF TypeOK
  <1> QED BY <1>4, <1>5, <1>6

-----------------------------------------------------------------------------
(* Theorems.                                                               *)

\* An empty root and no process satisfy the invariant.
LEMMA InitHasInv == Init => SeriesInv
  <1> SUFFICES ASSUME Init PROVE SeriesInv
    OBVIOUS
  <1>1. TypeOK
    BY MaxTimeAssumption DEF Init, TypeOK, RunState, Idle, Resting, Name
  <1>2. Doomed = {} /\ Pruned = {}
    BY DEF Init, Idle, Doomed, Pruned
  <1>3. RunsAreDated /\ VerifiedIsProven /\ ProvenIsKept
    BY NoArchiveAssumption, MaxTimeAssumption
       DEF Init, Idle, RunsAreDated, VerifiedIsProven, ProvenIsKept, Stamps
  <1> QED BY <1>1, <1>2, <1>3 DEF SeriesInv, ChosenIsSpared, ChosenIsUnpointed

\* Every step keeps the invariant, one lemma per group of actions.
LEMMA NextKeepsInv == SeriesInv /\ [Next]_vars => SeriesInv'
  <1> SUFFICES ASSUME SeriesInv, [Next]_vars PROVE SeriesInv'
    OBVIOUS
  <1>1. ASSUME NEW r \in Runs,
               \/ StampArchive(r) \/ RefuseTakenName(r) \/ Publish(r)
               \/ backup_series_adopt_failed_tmp(r)
               \/ TruncatePointer(r) \/ WritePointer(r)
               \/ ListArchives(r) \/ ReadManifest(r) \/ SelectRetained(r)
               \/ RemoveFiles(r) \/ RemoveDirectory(r) \/ Finish(r) \/ Stop(r)
        PROVE  SeriesInv'
    <2>1. CASE RefuseTakenName(r) \/ Finish(r) \/ Stop(r)
      BY <2>1, EndingKeepsInv DEF RefuseTakenName, Finish, Stop
    <2> QED BY <1>1, <2>1, StampArchiveKeepsInv, PublishKeepsInv, AdoptKeepsInv,
               PointerKeepsInv, ListKeepsInv, SelectKeepsInv, RemoveKeepsInv
  <1>2. CASE UNCHANGED vars
    BY <1>2 DEF vars, SeriesInv, TypeOK, RunsAreDated, VerifiedIsProven, ProvenIsKept,
                ChosenIsSpared, ChosenIsUnpointed, Doomed, Pruned, Spared, Unpointed
  <1> QED BY <1>1, <1>2, VerifierKeepsInv DEF Next

\* SeriesInv is inductive.
THEOREM SeriesIsSound == Spec => []SeriesInv
  BY InitHasInv, NextKeepsInv, PTL DEF Spec

\* The root, the manifests and every process keep their types.
THEOREM SeriesTypeCorrect == Spec => []TypeOK
  <1>1. SeriesInv => TypeOK
    BY DEF SeriesInv
  <1> QED BY <1>1, SeriesIsSound, PTL

\* However many backups overlap, the newest archive that ever verified is in
\* place: what is or is about to be deleted has a newer verified one.
THEOREM NewestIsNeverPruned == Spec => []NewestArchiveSurvives
  <1>1. SeriesInv => NewestArchiveSurvives
    <2> SUFFICES ASSUME SeriesInv, NEW a \in Newest(proven)
                 PROVE  a \in present \ Pruned
      BY DEF NewestArchiveSurvives
    <2>1. a \in proven /\ \A b \in proven : b <= a
      BY DEF Newest
    <2>2. \A b \in proven : b \in Int
      BY MaxTimeAssumption DEF SeriesInv, TypeOK, Stamps
    <2>3. a \notin Pruned
      BY <2>1, <2>2 DEF SeriesInv, ChosenIsSpared, Spared
    <2> QED BY <2>1, <2>3 DEF SeriesInv, ProvenIsKept
  <1> QED BY <1>1, SeriesIsSound, PTL

\* Every archive a prune deletes had verified and is redundant in every bucket.
THEOREM PrunesAreRedundant == Spec => []PrunedWasRedundant
  <1>1. SeriesInv => PrunedWasRedundant
    BY DEF SeriesInv, ChosenIsSpared, Spared, PrunedWasRedundant
  <1> QED BY <1>1, SeriesIsSound, PTL

\* The pointer names an archive that verified, in place unless it was chosen
\* for deletion before its own run pointed to it.
THEOREM PointersAreEarned == Spec => []PointerIsEarned
  <1>1. SeriesInv => PointerIsEarned
    BY DEF SeriesInv, VerifiedIsProven, ProvenIsKept, ChosenIsUnpointed, PointerIsEarned
  <1> QED BY <1>1, SeriesIsSound, PTL

=============================================================================
