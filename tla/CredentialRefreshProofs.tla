---------------------- MODULE CredentialRefreshProofs -----------------------
(***************************************************************************)
(* Proofs about CredentialRefresh for any number of samplers and other     *)
(* refreshers, any expiry lead, lifetime and number of lock attempts.      *)
(*                                                                         *)
(* The argument: from the second read to the rename the refresher holds    *)
(* the lock, and nobody else replaces the file or is issued a pair, so the *)
(* token it read is still the one in the file (LockedReadStands) and the   *)
(* pair it was issued is still the newest (InHandIsNewest).  A file that   *)
(* served one sampler as fresh is replaced only by one that is fresher:    *)
(* who replaces it had found it expired at a later instant.                *)
(***************************************************************************)
EXTENDS CredentialRefresh, TLAPS

----------------------------------------------------------------------------
(* The inductive invariant.                                                *)

Holding == {"locked", "exchange", "rotated", "saved", "temp"}
Exchanging == {"exchange", "rotated", "saved", "temp"}
Usable == {"NotNeeded", "Refreshed", "AlreadyFreshOnDisk"}

\* The lock is held by the one process between its grant and its return.
LockIsHeld == \A p \in Procs : lock = p <=> proc[p].phase \in Holding

BeganInThePast == \A p \in Procs : proc[p].began <= now

\* What the second read saw is still in the file.
LockedReadStands ==
    \A p \in Procs : proc[p].phase \in Exchanging =>
        /\ IsPair(disk)
        /\ is_expired(disk, proc[p].began)
        /\ proc[p].phase = "exchange" => proc[p].token = disk.pair

InHandIsNewest == \A p \in Procs : InHand(p) => proc[p].new = issued

\* Until it is resolved, the file stays fresh for a sampler it was fresh for.
FileStaysFresh ==
    \A p \in Procs :
        (proc[p].phase = "preflighted" /\ proc[p].outcome \in Usable /\ IsPair(disk))
            => ~is_expired(disk, proc[p].began)

RefreshInv ==
    /\ TypeOK
    /\ LockIsHeld
    /\ BeganInThePast
    /\ LockedReadStands
    /\ InHandIsNewest
    /\ FileStaysFresh
    /\ DeadPairHasACause
    /\ RejectionHasACause
    /\ MaterialIsFresh

InHandPhases == {"rotated", "saved", "temp"}

----------------------------------------------------------------------------
(* Records.                                                                *)

\* Every process has a record of its type.
LEMMA ProcRecord ==
    ASSUME TypeOK, NEW p \in Procs
    PROVE  /\ proc[p] \in Records /\ proc[p].began \in Nat /\ proc[p].new \in Nat
           /\ proc[p].token \in Nat /\ proc[p].tries \in Nat
           /\ proc[p].outcome \in Outcomes /\ proc[p].phase \in Phases
           /\ proc[p].read \in Files
  BY DEF TypeOK, Records

\* A process with nothing in hand is of its type.
LEMMA BareFields ==
    ASSUME NEW phase \in Phases, NEW outcome \in Outcomes, NEW at \in Nat
    PROVE  /\ Bare(phase, outcome, at) \in Records
           /\ Bare(phase, outcome, at).phase = phase
           /\ Bare(phase, outcome, at).outcome = outcome
           /\ Bare(phase, outcome, at).began = at
  BY DEF Bare, NoFile, Records, Files

\* What a returning preflight leaves of its record.
LEMMA AfterFields ==
    ASSUME NEW p, NEW outcome \in Outcomes, NEW at \in Nat
    PROVE  /\ After(p, outcome, at) \in Records
           /\ After(p, outcome, at).outcome = outcome
           /\ After(p, outcome, at).began = at
           /\ After(p, outcome, at).phase \in {"ended", "preflighted"}
  <1>1. "ended" \in Phases /\ "preflighted" \in Phases
    BY DEF Phases
  <1> QED BY <1>1, BareFields DEF After

\* What a process that is over leaves of it.
LEMMA EndedFields ==
    ASSUME TypeOK, NEW p \in Procs
    PROVE  /\ Ended(p) \in Records /\ Ended(p).phase = "ended"
           /\ Ended(p).outcome = proc[p].outcome /\ Ended(p).began = 0
  <1>1. "ended" \in Phases
    BY DEF Phases
  <1> QED BY <1>1, BareFields, ProcRecord DEF Ended

\* The holder of the lock is the only process between grant and return.
LEMMA OnlyHolder ==
    ASSUME RefreshInv, NEW p \in Procs, lock = p, NEW q \in Procs, q # p
    PROVE  proc[q].phase \notin Holding
  BY DEF RefreshInv, LockIsHeld

----------------------------------------------------------------------------
(* A step of one process that leaves the file alone, given its record r    *)
(* after the step.                                                         *)

\* r keeps the promises the invariant asks of a process.
Consistent(r) ==
    /\ r \in Records
    /\ r.began <= now
    /\ r.phase \in Exchanging =>
          /\ IsPair(disk) /\ is_expired(disk, r.began)
          /\ r.phase = "exchange" => r.token = disk.pair
    /\ (r.phase = "preflighted" /\ r.outcome \in Usable /\ IsPair(disk)) =>
          ~is_expired(disk, r.began)
    /\ (r.phase = "material" /\ r.outcome \in Usable /\ IsPair(r.read)) =>
          ~is_expired(r.read, r.began)

\* Such a step keeps the invariant when the lock follows the phase, the newest
\* pair is in hand or accounted for, and a rejection comes after a loss.
LEMMA ProcessStep ==
    ASSUME RefreshInv, NEW p \in Procs, NEW r, Consistent(r),
           proc' = [proc EXCEPT ![p] = r],
           UNCHANGED <<rotating, now, disk, durable>>,
           \/ r.phase \in Holding /\ lock \in {p, NoOne} /\ lock' = p
           \/ r.phase \notin Holding /\ lock' = IF lock = p THEN NoOne ELSE lock,
           issued' \in Nat \ {0},
           issued' = issued \/ lock = p,
           lost \subseteq lost', lost' \subseteq Nat,
           r.phase \in InHandPhases => r.new = issued',
           \/ r.phase \in InHandPhases
           \/ issued' \in lost'
           \/ issued' = issued /\ (InHand(p) => issued \in lost'),
           r.outcome = "Rejected" => lost' # {}
    PROVE  RefreshInv'
  <1>1. /\ proc \in [Procs -> Records] /\ p \in Procs /\ r \in Records
        /\ proc'[p] = r /\ \A q \in Procs : q # p => proc'[q] = proc[q]
    BY DEF RefreshInv, TypeOK, Consistent
  <1>2. TypeOK'
    BY <1>1 DEF RefreshInv, TypeOK
  <1>3. NoOne \notin Procs
    BY RefreshAssumption DEF Procs
  <1>4. LockIsHeld'
    BY <1>1, <1>3 DEF RefreshInv, LockIsHeld
  <1>5. BeganInThePast'
    BY <1>1 DEF RefreshInv, BeganInThePast, Consistent
  <1>6. LockedReadStands'
    BY <1>1 DEF RefreshInv, LockedReadStands, Consistent
  <1>7. \A q \in Procs : q # p => (InHand(q)' <=> InHand(q))
    BY <1>1 DEF InHand
  <1>8. InHand(p)' <=> r.phase \in InHandPhases
    BY <1>1 DEF InHand, InHandPhases
  <1>9. InHandIsNewest'
    <2> SUFFICES ASSUME NEW q \in Procs, InHand(q)'
                 PROVE  proc'[q].new = issued'
      BY DEF InHandIsNewest
    <2>1. CASE q = p
      BY <1>1, <1>8, <2>1
    <2>2. CASE q # p
      <3>1. InHand(q) /\ proc[q].phase \in Holding
        BY <1>7, <2>2 DEF InHand, Holding
      <3>2. lock # p
        BY <2>2, <3>1, OnlyHolder
      <3> QED BY <1>1, <2>2, <3>1, <3>2 DEF RefreshInv, InHandIsNewest
    <2> QED BY <2>1, <2>2
  <1>10. FileStaysFresh'
    BY <1>1 DEF RefreshInv, FileStaysFresh, Consistent
  <1>11. DeadPairHasACause'
    <2> SUFFICES ASSUME rotating, IsPair(disk), disk.pair # issued', issued' \notin lost'
                 PROVE  lock' # NoOne /\ (InHand(lock))' /\ proc'[lock'].new = issued'
      BY DEF DeadPairHasACause
    <2>1. CASE r.phase \in InHandPhases
      <3>1. r.phase \in Holding
        BY <2>1 DEF InHandPhases, Holding
      <3>2. lock' = p
        BY <3>1
      <3>3. (InHand(lock))'
        BY <1>8, <2>1, <3>2 DEF InHand
      <3> QED BY <1>1, <1>3, <2>1, <3>2, <3>3
    <2>2. CASE r.phase \notin InHandPhases
      <3>1. issued' = issued /\ ~InHand(p)
        BY <2>2
      <3>2. lock # NoOne /\ InHand(lock) /\ proc[lock].new = issued
        BY <3>1 DEF RefreshInv, DeadPairHasACause
      <3>3. lock # p /\ lock \in Procs
        BY <3>1, <3>2 DEF RefreshInv, TypeOK
      <3>4. lock' = lock
        BY <3>2, <3>3
      <3>5. (InHand(lock))'
        BY <1>1, <3>2, <3>3, <3>4 DEF InHand
      <3> QED BY <1>1, <3>1, <3>2, <3>3, <3>4, <3>5
    <2> QED BY <2>1, <2>2
  <1>12. RejectionHasACause'
    BY <1>1 DEF RefreshInv, RejectionHasACause
  <1>13. MaterialIsFresh'
    BY <1>1 DEF RefreshInv, MaterialIsFresh, Consistent, Usable, Procs
  <1> QED BY <1>2, <1>4, <1>5, <1>6, <1>9, <1>10, <1>11, <1>12, <1>13 DEF RefreshInv

\* A preflight returns: a usable outcome stands for a file that is fresh, or is
\* no pair.
LEMMA ReturnStep ==
    ASSUME RefreshInv, NEW p \in Procs, NEW outcome \in Outcomes,
           Return(p, outcome),
           UNCHANGED <<rotating, now, disk, durable>>,
           issued' \in Nat \ {0},
           issued' = issued \/ lock = p,
           lost \subseteq lost', lost' \subseteq Nat,
           InHand(p) \/ issued' # issued => issued' \in lost',
           outcome = "Rejected" => lost' # {},
           outcome \in Usable /\ IsPair(disk) => ~is_expired(disk, proc[p].began)
    PROVE  RefreshInv'
  <1> DEFINE r == After(p, outcome, proc[p].began)
  <1>1. proc[p].began \in Nat /\ proc[p].began <= now
    BY ProcRecord DEF RefreshInv, BeganInThePast
  <1>2. /\ r \in Records /\ r.outcome = outcome /\ r.began = proc[p].began
        /\ r.phase \in {"ended", "preflighted"}
    BY <1>1, AfterFields
  <1>3. proc' = [proc EXCEPT ![p] = r] /\ lock' = IF lock = p THEN NoOne ELSE lock
    BY DEF Return
  <1> HIDE DEF r
  <1>4. Consistent(r)
    BY <1>1, <1>2 DEF Consistent, Exchanging
  <1>5. r.phase \notin Holding /\ r.phase \notin InHandPhases
    BY <1>2 DEF Holding, InHandPhases
  <1> QED BY <1>2, <1>3, <1>4, <1>5, ProcessStep

----------------------------------------------------------------------------
(* The steps of refresh_if_expired.                                        *)

\* The first read.
LEMMA ReadFileKeepsInv ==
    ASSUME RefreshInv, NEW p \in Procs, ReadFile(p)
    PROVE  RefreshInv'
  <1>1. /\ proc[p].phase = "idle" /\ lock # p /\ now \in Nat
        /\ UNCHANGED <<rotating, now, issued, disk, durable, lock, lost>>
        /\ ~InHand(p) /\ issued \in Nat \ {0} /\ lost \subseteq Nat
    BY DEF ReadFile, RefreshInv, LockIsHeld, Holding, InHand, TypeOK
  <1>2. ASSUME NEW outcome \in {"NotNeeded", "FileUnreadable"},
               proc' = [proc EXCEPT ![p] = After(p, outcome, now)],
               outcome = "NotNeeded" => ~IsPair(disk) \/ ~is_expired(disk, now)
        PROVE  RefreshInv'
    <2> DEFINE r == After(p, outcome, now)
    <2>1. outcome \in Outcomes
      BY DEF Outcomes
    <2>2. /\ r \in Records /\ r.outcome = outcome /\ r.began = now
          /\ r.phase \in {"ended", "preflighted"}
      BY <1>1, <2>1, AfterFields
    <2>3. proc' = [proc EXCEPT ![p] = r]
      BY <1>2
    <2> HIDE DEF r
    <2>4. Consistent(r) /\ r.phase \notin Holding /\ r.phase \notin InHandPhases
      BY <1>1, <1>2, <2>2 DEF Consistent, Exchanging, Usable, Holding, InHandPhases
    <2> QED BY <1>1, <2>2, <2>3, <2>4, ProcessStep
  <1>3. ASSUME IsPair(disk), is_expired(disk, now),
               proc' = [proc EXCEPT ![p].phase = "wait", ![p].began = now,
                                    ![p].token = disk.pair]
        PROVE  RefreshInv'
    <2> DEFINE r == [proc[p] EXCEPT !.phase = "wait", !.began = now, !.token = disk.pair]
    <2>1. proc' = [proc EXCEPT ![p] = r]
      BY <1>3 DEF RefreshInv, TypeOK
    <2>2. r \in Records /\ r.phase = "wait" /\ r.began = now /\ r.outcome = proc[p].outcome
      BY <1>1, ProcRecord DEF RefreshInv, TypeOK, Records, Files, Phases
    <2> HIDE DEF r
    <2>3. Consistent(r) /\ r.phase \notin Holding /\ r.phase \notin InHandPhases
      BY <1>1, <2>2 DEF Consistent, Exchanging, Holding, InHandPhases
    <2> QED BY <1>1, <2>1, <2>2, <2>3, ProcessStep DEF RefreshInv, RejectionHasACause
  <1> QED BY <1>2, <1>3 DEF ReadFile

\* A process that only moves to another phase, with nothing to promise there.
LEMMA PhaseStep ==
    ASSUME RefreshInv, NEW p \in Procs, NEW phase \in Phases,
           proc' = [proc EXCEPT ![p].phase = phase],
           UNCHANGED <<rotating, now, issued, disk, durable, lost>>,
           \/ phase = "locked" /\ ~InHand(p) /\ lock = NoOne /\ lock' = p
           \/ phase \in InHandPhases /\ InHand(p) /\ UNCHANGED lock
    PROVE  RefreshInv'
  <1> DEFINE r == [proc[p] EXCEPT !.phase = phase]
  <1>1. proc' = [proc EXCEPT ![p] = r]
    BY DEF RefreshInv, TypeOK
  <1>2. /\ r \in Records /\ r.phase = phase /\ r.began = proc[p].began
        /\ r.outcome = proc[p].outcome /\ r.new = proc[p].new
    BY ProcRecord DEF RefreshInv, Records
  <1>3. proc[p].began <= now /\ issued \in Nat \ {0} /\ lost \subseteq Nat
    BY DEF RefreshInv, BeganInThePast, TypeOK
  <1> HIDE DEF r
  <1>4. proc[p].outcome = "Rejected" => lost # {}
    BY DEF RefreshInv, RejectionHasACause
  <1>5. CASE phase = "locked"
    <2>1. Consistent(r) /\ r.phase \in Holding /\ r.phase \notin InHandPhases
      BY <1>2, <1>3, <1>5 DEF Consistent, Exchanging, Holding, InHandPhases
    <2>2. lock = NoOne /\ lock' = p /\ ~InHand(p)
      BY <1>5 DEF InHandPhases
    <2> QED BY <1>1, <1>2, <1>3, <1>4, <2>1, <2>2, ProcessStep
  <1>6. CASE phase \in InHandPhases
    <2>1. InHand(p) /\ lock' = lock
      BY <1>6 DEF InHandPhases
    <2>2. proc[p].phase \in Exchanging /\ proc[p].phase \in Holding
      BY <2>1 DEF InHand, Exchanging, Holding
    <2>3. IsPair(disk) /\ is_expired(disk, proc[p].began) /\ proc[p].new = issued /\ lock = p
      BY <2>1, <2>2 DEF RefreshInv, LockedReadStands, InHandIsNewest, LockIsHeld
    <2>4. Consistent(r) /\ r.phase \in Holding /\ r.phase \in InHandPhases
      BY <1>2, <1>3, <1>6, <2>3 DEF Consistent, Exchanging, Holding, InHandPhases
    <2> QED BY <1>1, <1>2, <1>3, <1>4, <2>1, <2>3, <2>4, ProcessStep
  <1> QED BY <1>5, <1>6

\* The bounded wait for the lock.
LEMMA AcquireKeepsInv ==
    ASSUME RefreshInv, NEW p \in Procs, acquire_lock(p)
    PROVE  RefreshInv'
  <1>1. /\ proc[p].phase = "wait" /\ ~InHand(p) /\ lock # p
        /\ UNCHANGED <<rotating, now, issued, disk, durable, lost>>
        /\ issued \in Nat \ {0} /\ lost \subseteq Nat
    BY DEF acquire_lock, RefreshInv, LockIsHeld, Holding, InHand, TypeOK
  <1>2. CASE /\ lock = NoOne /\ lock' = p
             /\ proc' = [proc EXCEPT ![p].phase = "locked"]
    <2>1. "locked" \in Phases
      BY DEF Phases
    <2> QED BY <1>1, <1>2, <2>1, PhaseStep
  <1>3. CASE /\ proc' = [proc EXCEPT ![p].tries = @ + 1]
             /\ UNCHANGED lock
    <2> DEFINE r == [proc[p] EXCEPT !.tries = @ + 1]
    <2>1. proc' = [proc EXCEPT ![p] = r]
      BY <1>3 DEF RefreshInv, TypeOK
    <2>2. /\ r \in Records /\ r.phase = "wait" /\ r.began = proc[p].began
          /\ r.outcome = proc[p].outcome
      BY <1>1, ProcRecord DEF RefreshInv, Records
    <2>3. proc[p].began <= now
      BY DEF RefreshInv, BeganInThePast
    <2> HIDE DEF r
    <2>4. Consistent(r) /\ r.phase \notin Holding /\ r.phase \notin InHandPhases
      BY <2>2, <2>3 DEF Consistent, Exchanging, Holding, InHandPhases
    <2> QED BY <1>1, <1>3, <2>1, <2>2, <2>4, ProcessStep DEF RefreshInv, RejectionHasACause
  <1>4. ASSUME NEW outcome \in {"LockBusy", "EndpointUnreachable", "PersistFailed"},
               Return(p, outcome)
        PROVE  RefreshInv'
    <2>1. outcome \in Outcomes /\ outcome \notin Usable /\ outcome # "Rejected"
      BY DEF Outcomes, Usable
    <2> QED BY <1>1, <1>4, <2>1, ReturnStep
  <1>5. \/ lock = NoOne /\ lock' = p /\ proc' = [proc EXCEPT ![p].phase = "locked"]
        \/ proc' = [proc EXCEPT ![p].tries = @ + 1] /\ UNCHANGED lock
        \/ \E outcome \in {"LockBusy", "EndpointUnreachable", "PersistFailed"} :
               Return(p, outcome)
    BY DEF acquire_lock
  <1> QED BY <1>2, <1>3, <1>4, <1>5

\* The second read.
LEMMA RereadKeepsInv ==
    ASSUME RefreshInv, NEW p \in Procs, Reread(p)
    PROVE  RefreshInv'
  <1>1. /\ proc[p].phase = "locked" /\ ~InHand(p) /\ lock = p
        /\ UNCHANGED <<rotating, now, issued, disk, durable, lost>>
        /\ issued \in Nat \ {0} /\ lost \subseteq Nat
        /\ proc[p].began <= now
    BY DEF Reread, RefreshInv, LockIsHeld, Holding, InHand, TypeOK, BeganInThePast
  <1>2. CASE /\ IsPair(disk) /\ is_expired(disk, proc[p].began)
             /\ proc' = [proc EXCEPT ![p].phase = "exchange", ![p].token = disk.pair]
             /\ UNCHANGED lock
    <2> DEFINE r == [proc[p] EXCEPT !.phase = "exchange", !.token = disk.pair]
    <2>1. proc' = [proc EXCEPT ![p] = r]
      BY <1>2 DEF RefreshInv, TypeOK
    <2>2. /\ r \in Records /\ r.phase = "exchange" /\ r.began = proc[p].began
          /\ r.outcome = proc[p].outcome /\ r.token = disk.pair
      BY ProcRecord DEF RefreshInv, TypeOK, Records, Files, Phases
    <2> HIDE DEF r
    <2>3. Consistent(r) /\ r.phase \in Holding /\ r.phase \notin InHandPhases
      BY <1>1, <1>2, <2>2 DEF Consistent, Exchanging, Holding, InHandPhases
    <2> QED BY <1>1, <1>2, <2>1, <2>2, <2>3, ProcessStep DEF RefreshInv, RejectionHasACause
  <1>3. ASSUME NEW outcome \in {"AlreadyFreshOnDisk", "NotNeeded", "FileUnreadable"},
               Return(p, outcome),
               outcome # "FileUnreadable" =>
                   ~IsPair(disk) \/ ~is_expired(disk, proc[p].began)
        PROVE  RefreshInv'
    <2>1. /\ outcome \in Outcomes /\ outcome # "Rejected"
          /\ outcome \in Usable => outcome # "FileUnreadable"
      BY DEF Outcomes, Usable
    <2> QED BY <1>1, <1>3, <2>1, ReturnStep
  <1>4. \/ /\ IsPair(disk) /\ is_expired(disk, proc[p].began)
           /\ proc' = [proc EXCEPT ![p].phase = "exchange", ![p].token = disk.pair]
           /\ UNCHANGED lock
        \/ \E outcome \in {"AlreadyFreshOnDisk", "NotNeeded", "FileUnreadable"} :
              /\ Return(p, outcome)
              /\ outcome # "FileUnreadable" =>
                     ~IsPair(disk) \/ ~is_expired(disk, proc[p].began)
    BY DEF Reread
  <1> QED BY <1>2, <1>3, <1>4

\* The endpoint answers, or does not.  A rejected token is the file's, so the
\* newest pair is not, and only a loss explains that.
LEMMA ExchangeKeepsInv ==
    ASSUME RefreshInv, NEW p \in Procs,
           \/ ExchangeGranted(p) \/ ExchangeRejected(p)
           \/ ExchangeFailed(p) \/ ExchangeNotConfigured(p)
    PROVE  RefreshInv'
  <1>1. /\ proc[p].phase = "exchange" /\ UNCHANGED <<rotating, now, disk, durable>>
    BY DEF ExchangeGranted, ExchangeRejected, ExchangeFailed, ExchangeNotConfigured
  <1>2. /\ ~InHand(p) /\ lock = p /\ issued \in Nat \ {0} /\ lost \subseteq Nat
        /\ proc[p].began <= now
        /\ IsPair(disk) /\ is_expired(disk, proc[p].began) /\ proc[p].token = disk.pair
    BY <1>1 DEF RefreshInv, LockIsHeld, Holding, Exchanging, InHand, TypeOK,
                BeganInThePast, LockedReadStands
  <1>3. CASE ExchangeGranted(p)
    <2>1. /\ issued' = issued + 1 /\ UNCHANGED <<lock, lost>>
          /\ proc' = [proc EXCEPT ![p].phase = "rotated", ![p].new = issued + 1]
      BY <1>3 DEF ExchangeGranted
    <2> DEFINE r == [proc[p] EXCEPT !.phase = "rotated", !.new = issued + 1]
    <2>2. proc' = [proc EXCEPT ![p] = r]
      BY <2>1 DEF RefreshInv, TypeOK
    <2>3. /\ r \in Records /\ r.phase = "rotated" /\ r.began = proc[p].began
          /\ r.outcome = proc[p].outcome /\ r.new = issued + 1
      <3>1. issued + 1 \in Nat /\ proc[p] \in Records
        BY <1>2, ProcRecord DEF RefreshInv
      <3> QED BY <3>1 DEF Records, Phases
    <2> HIDE DEF r
    <2>4. Consistent(r) /\ r.phase \in Holding /\ r.phase \in InHandPhases
      BY <1>2, <2>3 DEF Consistent, Exchanging, Holding, InHandPhases
    <2>5. r.outcome = "Rejected" => lost # {}
      BY <2>3 DEF RefreshInv, RejectionHasACause
    <2>6. issued' \in Nat \ {0}
      BY <1>2, <2>1
    <2> QED BY <1>1, <1>2, <2>1, <2>2, <2>3, <2>4, <2>5, <2>6, ProcessStep
  <1>4. CASE ExchangeRejected(p)
    <2>1. /\ rotating /\ proc[p].token # issued /\ Return(p, "Rejected")
          /\ UNCHANGED <<issued, lost>>
      BY <1>4 DEF ExchangeRejected, Accepted
    <2>2. issued \in lost
      BY <1>2, <2>1 DEF RefreshInv, DeadPairHasACause
    <2>3. "Rejected" \in Outcomes /\ "Rejected" \notin Usable
      BY DEF Outcomes, Usable
    <2> QED BY <1>1, <1>2, <2>1, <2>2, <2>3, ReturnStep
  <1>5. CASE ExchangeFailed(p)
    <2>1. /\ Return(p, "EndpointUnreachable")
          /\ \/ UNCHANGED <<issued, lost>>
             \/ issued' = issued + 1 /\ lost' = lost \cup {issued + 1}
      BY <1>5 DEF ExchangeFailed
    <2>2. "EndpointUnreachable" \in Outcomes /\ "EndpointUnreachable" \notin Usable
      BY DEF Outcomes, Usable
    <2>3. /\ issued' \in Nat \ {0} /\ lost \subseteq lost' /\ lost' \subseteq Nat
          /\ issued' \in lost' \/ issued' = issued
      <3>1. issued + 1 \in Nat \ {0}
        BY <1>2
      <3>2. CASE UNCHANGED <<issued, lost>>
        BY <1>2, <3>2
      <3>3. CASE issued' = issued + 1 /\ lost' = lost \cup {issued + 1}
        BY <1>2, <3>1, <3>3
      <3> QED BY <2>1, <3>2, <3>3
    <2> QED BY <1>1, <1>2, <2>1, <2>2, <2>3, ReturnStep
  <1>6. CASE ExchangeNotConfigured(p)
    <2>1. Return(p, "ConfigurationFailed") /\ UNCHANGED <<issued, lost>>
      BY <1>6 DEF ExchangeNotConfigured
    <2>2. "ConfigurationFailed" \in Outcomes /\ "ConfigurationFailed" \notin Usable
      BY DEF Outcomes, Usable
    <2> QED BY <1>1, <1>2, <2>1, <2>2, ReturnStep
  <1> QED BY <1>3, <1>4, <1>5, <1>6

\* The copies beside the file, and a failure to put the pair in place.
LEMMA PersistKeepsInv ==
    ASSUME RefreshInv, NEW p \in Procs,
           WriteBackup(p) \/ WriteTemp(p) \/ PersistFails(p)
    PROVE  RefreshInv'
  <1>1. issued \in Nat \ {0} /\ lost \subseteq Nat
    BY DEF RefreshInv, TypeOK
  <1>2. ASSUME NEW phase \in {"saved", "temp"}, InHand(p),
               proc' = [proc EXCEPT ![p].phase = phase],
               UNCHANGED <<rotating, now, issued, disk, durable, lock, lost>>
        PROVE  RefreshInv'
    <2>1. phase \in Phases /\ phase \in InHandPhases
      BY DEF Phases, InHandPhases
    <2> QED BY <1>2, <2>1, PhaseStep
  <1>3. CASE WriteBackup(p)
    BY <1>2, <1>3 DEF WriteBackup, InHand
  <1>4. CASE WriteTemp(p)
    BY <1>2, <1>4 DEF WriteTemp, InHand
  <1>5. CASE PersistFails(p)
    <2>1. /\ InHand(p) /\ Return(p, "PersistFailed") /\ lost' = lost \cup {proc[p].new}
          /\ UNCHANGED <<rotating, now, issued, disk, durable>>
      BY <1>5 DEF PersistFails
    <2>2. proc[p].new = issued
      BY <2>1 DEF RefreshInv, InHandIsNewest
    <2>3. PICK outcome \in Outcomes : /\ outcome = "PersistFailed"
                                      /\ outcome \notin Usable /\ outcome # "Rejected"
      BY DEF Outcomes, Usable
    <2>4. lost \subseteq lost' /\ lost' \subseteq Nat /\ issued \in lost'
      BY <1>1, <2>1, <2>2
    <2>5. /\ issued' \in Nat \ {0} /\ issued' = issued
          /\ UNCHANGED <<rotating, now, disk, durable>> /\ Return(p, outcome)
          /\ lost \subseteq lost' /\ lost' \subseteq Nat
      BY <1>1, <2>1, <2>3, <2>4
    <2>6. issued' \in lost'
      BY <1>1, <2>1, <2>2, Zenon
    <2> QED BY <2>3, <2>5, <2>6, ReturnStep
  <1> QED BY <1>3, <1>4, <1>5

\* The rename.  The file it replaces had expired when this refresher began, so
\* whoever still counts on it began earlier and is served by the new one.
LEMMA RenameKeepsInv ==
    ASSUME RefreshInv, NEW p \in Procs, RenameOver(p)
    PROVE  RefreshInv'
  <1> DEFINE r == After(p, "Refreshed", proc[p].began)
  <1>1. /\ proc[p].phase = "temp" /\ disk' = Rotated(p) /\ Return(p, "Refreshed")
        /\ UNCHANGED <<rotating, now, issued, durable, lost>>
    BY DEF RenameOver
  <1>2. /\ InHand(p) /\ lock = p /\ proc[p].new = issued /\ issued \in Nat \ {0}
        /\ proc[p].began \in Nat /\ proc[p].began <= now
        /\ IsPair(disk) /\ is_expired(disk, proc[p].began)
    <2>1. proc[p].phase \in Holding /\ proc[p].phase \in Exchanging /\ InHand(p)
      BY <1>1 DEF Holding, Exchanging, InHand
    <2> QED BY <2>1, ProcRecord DEF RefreshInv, LockIsHeld, InHandIsNewest, TypeOK,
               BeganInThePast, LockedReadStands
  <1>3. /\ r \in Records /\ r.outcome = "Refreshed" /\ r.began = proc[p].began
        /\ r.phase \in {"ended", "preflighted"}
    BY <1>2, AfterFields DEF Outcomes
  <1>4. proc' = [proc EXCEPT ![p] = r] /\ lock' = NoOne
    BY <1>1, <1>2 DEF Return
  <1> HIDE DEF r
  <1>5. /\ proc \in [Procs -> Records] /\ proc'[p] = r
        /\ \A q \in Procs : q # p => proc'[q] = proc[q]
    BY <1>4 DEF RefreshInv, TypeOK
  <1>6. \A q \in Procs : proc'[q].phase \notin Holding
    BY <1>2, <1>3, <1>5, OnlyHolder DEF Holding
  <1>7. /\ disk' \in Files /\ disk'.pair = issued
        /\ disk'.expires = proc[p].began + Lifetime
    BY <1>1, <1>2, RefreshAssumption DEF Rotated, Files
  <1>8. TypeOK'
    BY <1>1, <1>3, <1>4, <1>5, <1>7 DEF RefreshInv, TypeOK
  <1>9. NoOne \notin Procs
    BY RefreshAssumption DEF Procs
  <1>10. LockIsHeld' /\ LockedReadStands' /\ InHandIsNewest'
    BY <1>4, <1>6, <1>9 DEF LockIsHeld, LockedReadStands, InHandIsNewest, InHand,
                             Holding, Exchanging
  <1>11. BeganInThePast'
    BY <1>1, <1>2, <1>3, <1>5 DEF RefreshInv, BeganInThePast
  <1>12. FileStaysFresh'
    <2> SUFFICES ASSUME NEW q \in Procs, proc'[q].phase = "preflighted",
                        proc'[q].outcome \in Usable
                 PROVE  ~(proc'[q].began + Lead >= disk'.expires)
      BY DEF FileStaysFresh, is_expired
    <2>1. CASE q = p
      BY <1>2, <1>3, <1>5, <1>7, <2>1, RefreshAssumption
    <2>2. CASE q # p
      <3>1. proc[q].began \in Nat /\ disk.expires \in Int
        BY ProcRecord DEF RefreshInv, TypeOK, Files
      <3>2. ~(proc[q].began + Lead >= disk.expires)
        BY <1>2, <1>5, <2>2 DEF RefreshInv, FileStaysFresh, is_expired
      <3>3. proc[p].began + Lead >= disk.expires
        BY <1>2 DEF is_expired
      <3> QED BY <1>2, <1>5, <1>7, <2>2, <3>1, <3>2, <3>3, RefreshAssumption
    <2> QED BY <2>1, <2>2
  <1>13. DeadPairHasACause'
    BY <1>1, <1>7 DEF DeadPairHasACause
  <1>14. RejectionHasACause' /\ MaterialIsFresh'
    BY <1>1, <1>3, <1>5 DEF RefreshInv, RejectionHasACause, MaterialIsFresh, Procs
  <1> QED BY <1>8, <1>10, <1>11, <1>12, <1>13, <1>14 DEF RefreshInv

----------------------------------------------------------------------------
(* resolve and death.                                                      *)

\* What resolve reads is the file that stayed fresh.
LEMMA ResolveKeepsInv ==
    ASSUME RefreshInv, NEW p \in Procs, resolve(p)
    PROVE  RefreshInv'
  <1>1. /\ UNCHANGED <<rotating, now, issued, disk, durable, lock, lost>>
        /\ proc[p].phase \in {"preflighted", "material"}
    BY DEF resolve, ResolveMaterial, ResolveContext
  <1>2. /\ lock # p /\ ~InHand(p) /\ issued \in Nat \ {0} /\ lost \subseteq Nat
        /\ proc[p].began <= now /\ now \in Nat
        /\ proc[p].outcome = "Rejected" => lost # {}
    BY <1>1 DEF RefreshInv, LockIsHeld, Holding, InHand, TypeOK, BeganInThePast,
                RejectionHasACause
  <1>3. CASE ResolveMaterial(p)
    <2>1. /\ proc[p].phase = "preflighted"
          /\ proc' = [proc EXCEPT ![p].phase = "material", ![p].read = disk]
      BY <1>3 DEF ResolveMaterial
    <2> DEFINE r == [proc[p] EXCEPT !.phase = "material", !.read = disk]
    <2>2. proc' = [proc EXCEPT ![p] = r]
      BY <2>1 DEF RefreshInv, TypeOK
    <2>3. /\ r \in Records /\ r.phase = "material" /\ r.began = proc[p].began
          /\ r.outcome = proc[p].outcome /\ r.read = disk
      BY ProcRecord DEF RefreshInv, TypeOK, Records, Phases
    <2> HIDE DEF r
    <2>4. proc[p].outcome \in Usable /\ IsPair(disk) => ~is_expired(disk, proc[p].began)
      BY <2>1 DEF RefreshInv, FileStaysFresh
    <2>5. Consistent(r) /\ r.phase \notin Holding /\ r.phase \notin InHandPhases
      BY <1>2, <2>3, <2>4 DEF Consistent, Exchanging, Holding, InHandPhases
    <2> QED BY <1>1, <1>2, <2>2, <2>3, <2>5, ProcessStep
  <1>4. CASE ResolveContext(p)
    <2> DEFINE r == Ended(p)
    <2>1. proc' = [proc EXCEPT ![p] = r]
      BY <1>4 DEF ResolveContext
    <2>2. r \in Records /\ r.phase = "ended" /\ r.outcome = proc[p].outcome /\ r.began = 0
      BY EndedFields DEF RefreshInv
    <2> HIDE DEF r
    <2>3. Consistent(r) /\ r.phase \notin Holding /\ r.phase \notin InHandPhases
      BY <1>2, <2>2 DEF Consistent, Exchanging, Holding, InHandPhases
    <2> QED BY <1>1, <1>2, <2>1, <2>2, <2>3, ProcessStep
  <1> QED BY <1>3, <1>4 DEF resolve

\* A pair in the hands of a process that dies is lost.
LEMMA DieKeepsInv ==
    ASSUME RefreshInv, NEW p \in Procs, Die(p)
    PROVE  RefreshInv'
  <1> DEFINE r == Ended(p)
  <1>1. /\ proc' = [proc EXCEPT ![p] = r] /\ lock' = IF lock = p THEN NoOne ELSE lock
        /\ lost' = IF InHand(p) THEN lost \cup {proc[p].new} ELSE lost
        /\ UNCHANGED <<rotating, now, issued, disk, durable>>
    BY DEF Die
  <1>2. r \in Records /\ r.phase = "ended" /\ r.outcome = proc[p].outcome /\ r.began = 0
    BY EndedFields DEF RefreshInv
  <1> HIDE DEF r
  <1>3. /\ issued \in Nat \ {0} /\ lost \subseteq Nat /\ now \in Nat
        /\ InHand(p) => proc[p].new = issued
        /\ proc[p].outcome = "Rejected" => lost # {}
    BY DEF RefreshInv, TypeOK, InHandIsNewest, RejectionHasACause
  <1>4. Consistent(r) /\ r.phase \notin Holding /\ r.phase \notin InHandPhases
    BY <1>2, <1>3 DEF Consistent, Exchanging, Holding, InHandPhases
  <1>5. /\ lost \subseteq lost' /\ lost' \subseteq Nat
        /\ InHand(p) => issued \in lost'
    BY <1>1, <1>3
  <1> QED BY <1>1, <1>2, <1>3, <1>4, <1>5, ProcessStep

----------------------------------------------------------------------------
(* The environment.                                                        *)

\* Time passes, or the directory reaches the disk.
LEMMA ClockKeepsInv ==
    ASSUME RefreshInv, Tick \/ Flush
    PROVE  RefreshInv'
  <1>1. /\ now' \in Nat /\ now' >= now /\ durable' \in Files
        /\ UNCHANGED <<rotating, issued, disk, lock, proc, lost>>
    BY DEF Tick, Flush, RefreshInv, TypeOK
  <1>2. TypeOK'
    BY <1>1 DEF RefreshInv, TypeOK
  <1>3. BeganInThePast'
    <2>1. now \in Nat /\ \A p \in Procs : proc[p].began \in Nat /\ proc[p].began <= now
      BY ProcRecord DEF RefreshInv, TypeOK, BeganInThePast
    <2> QED BY <1>1, <2>1 DEF BeganInThePast
  <1>4. \A p : InHand(p)' <=> InHand(p)
    BY <1>1 DEF InHand
  <1> QED BY <1>1, <1>2, <1>3, <1>4 DEF RefreshInv, LockIsHeld, LockedReadStands,
             InHandIsNewest, FileStaysFresh, DeadPairHasACause, RejectionHasACause,
             MaterialIsFresh, InHand

\* A login while nobody holds the lock.
LEMMA LoginKeepsInv ==
    ASSUME RefreshInv, Login
    PROVE  RefreshInv'
  <1>1. /\ lock = NoOne /\ UNCHANGED <<rotating, now, durable, lock, proc, lost>>
        /\ \/ /\ issued' = issued + 1
              /\ disk' = [pair |-> issued + 1, expires |-> now + Lifetime]
           \/ disk' = NoFile /\ UNCHANGED issued
    BY DEF Login
  <1>2. NoOne \notin Procs
    BY RefreshAssumption DEF Procs
  <1>3. \A p \in Procs : proc[p].phase \notin Holding
    BY <1>1, <1>2 DEF RefreshInv, LockIsHeld
  <1>4. /\ now \in Nat /\ issued \in Nat \ {0} /\ issued' \in Nat \ {0}
        /\ disk' \in Files
        /\ disk'.pair # 0 => disk'.pair = issued' /\ disk'.expires = now + Lifetime
    BY <1>1, RefreshAssumption DEF RefreshInv, TypeOK, Files, NoFile
  <1>5. TypeOK'
    BY <1>1, <1>4 DEF RefreshInv, TypeOK
  <1>6. LockIsHeld' /\ LockedReadStands' /\ InHandIsNewest' /\ BeganInThePast'
    BY <1>1, <1>3 DEF RefreshInv, LockIsHeld, LockedReadStands, InHandIsNewest, InHand,
                      Holding, Exchanging, BeganInThePast
  <1>7. FileStaysFresh'
    <2>1. \A p \in Procs : proc[p].began \in Nat /\ proc[p].began <= now
      BY ProcRecord DEF RefreshInv, BeganInThePast
    <2> QED BY <1>1, <1>4, <2>1, RefreshAssumption DEF FileStaysFresh, IsPair, is_expired
  <1>8. DeadPairHasACause' /\ RejectionHasACause' /\ MaterialIsFresh'
    BY <1>1, <1>4 DEF RefreshInv, DeadPairHasACause, IsPair, RejectionHasACause,
                      MaterialIsFresh, is_expired
  <1> QED BY <1>5, <1>6, <1>7, <1>8 DEF RefreshInv

\* Everything stops.
LEMMA PowerLossKeepsInv ==
    ASSUME RefreshInv, PowerLoss
    PROVE  RefreshInv'
  <1>1. /\ disk' \in {disk, durable} /\ durable' = disk' /\ lock' = NoOne
        /\ lost' = lost \cup {proc[p].new : p \in {q \in Procs : InHand(q)}}
                     \cup (IF disk' # disk THEN {issued} \ {disk'.pair} ELSE {})
        /\ proc' = [p \in Procs |-> IF proc[p].phase = "idle" THEN Idle ELSE Ended(p)]
        /\ UNCHANGED <<rotating, now, issued>>
    BY DEF PowerLoss
  <1>2. /\ issued \in Nat \ {0} /\ lost \subseteq Nat /\ now \in Nat
        /\ disk \in Files /\ durable \in Files /\ rotating \in BOOLEAN
        /\ \A p \in Procs : InHand(p) => proc[p].new = issued
    BY DEF RefreshInv, TypeOK, InHandIsNewest
  <1>3. ASSUME NEW p \in Procs
        PROVE  /\ proc'[p] \in Records /\ proc'[p].phase \in {"idle", "ended"}
               /\ proc'[p].began = 0
               /\ proc'[p].outcome \in {"None", proc[p].outcome}
    <2>1. Idle \in Records /\ Idle.phase = "idle" /\ Idle.began = 0 /\ Idle.outcome = "None"
      BY BareFields DEF Idle, Phases, Outcomes
    <2>2. Ended(p) \in Records /\ Ended(p).phase = "ended"
          /\ Ended(p).outcome = proc[p].outcome /\ Ended(p).began = 0
      BY EndedFields DEF RefreshInv
    <2>3. proc'[p] = IF proc[p].phase = "idle" THEN Idle ELSE Ended(p)
      BY <1>1
    <2> QED BY <2>1, <2>2, <2>3
  <1>4. lost \subseteq lost' /\ lost' \subseteq Nat
    BY <1>1, <1>2
  <1>5. TypeOK'
    <2>1. proc' \in [Procs -> Records]
      BY <1>1, <1>3
    <2> QED BY <1>1, <1>2, <1>4, <2>1 DEF TypeOK
  <1>6. NoOne \notin Procs
    BY RefreshAssumption DEF Procs
  <1>7. LockIsHeld' /\ LockedReadStands' /\ InHandIsNewest' /\ BeganInThePast'
    BY <1>1, <1>2, <1>3, <1>6 DEF LockIsHeld, LockedReadStands, InHandIsNewest, InHand,
                      Holding, Exchanging, BeganInThePast
  <1>8. FileStaysFresh' /\ MaterialIsFresh'
    BY <1>3 DEF FileStaysFresh, MaterialIsFresh, Procs
  <1>9. RejectionHasACause'
    BY <1>3, <1>4 DEF RefreshInv, RejectionHasACause
  <1>10. DeadPairHasACause'
    <2> SUFFICES ASSUME rotating, IsPair(disk'), disk'.pair # issued
                 PROVE  issued \in lost'
      BY <1>1 DEF DeadPairHasACause
    <2>1. CASE disk' # disk
      BY <1>1, <2>1
    <2>2. CASE disk' = disk
      <3>1. CASE issued \in lost
        BY <1>4, <3>1
      <3>2. CASE lock # NoOne /\ InHand(lock) /\ proc[lock].new = issued
        <4>1. lock \in Procs
          BY <3>2 DEF RefreshInv, TypeOK
        <4> QED BY <1>1, <3>2, <4>1
      <3> QED BY <2>2, <3>1, <3>2 DEF RefreshInv, DeadPairHasACause
    <2> QED BY <2>1, <2>2
  <1> QED BY <1>5, <1>7, <1>8, <1>9, <1>10 DEF RefreshInv

----------------------------------------------------------------------------
\* The pair of the login and idle processes satisfy the invariant.
LEMMA InitHasInv == Init => RefreshInv
  <1> SUFFICES ASSUME Init PROVE RefreshInv
    OBVIOUS
  <1>1. /\ Idle \in Records /\ Idle.phase = "idle" /\ Idle.began = 0
        /\ Idle.outcome = "None"
    BY BareFields DEF Idle, Phases, Outcomes
  <1>2. \A p \in Procs : proc[p] = Idle
    BY DEF Init
  <1>3. NoOne \notin Procs
    BY RefreshAssumption DEF Procs
  <1>4. disk \in Files /\ (IsPair(disk) => disk.pair = issued)
    BY RefreshAssumption DEF Init, Files, NoFile, IsPair
  <1>5. TypeOK
    <2>1. proc \in [Procs -> Records]
      BY <1>1 DEF Init
    <2> QED BY <1>4, <2>1 DEF Init, TypeOK
  <1> QED BY <1>1, <1>2, <1>3, <1>4, <1>5 DEF Init, RefreshInv, LockIsHeld, Holding,
             BeganInThePast, LockedReadStands, Exchanging, InHandIsNewest, InHand,
             FileStaysFresh, DeadPairHasACause, RejectionHasACause, MaterialIsFresh, Procs

\* Every step keeps the invariant.
LEMMA NextKeepsInv == RefreshInv /\ [Next]_vars => RefreshInv'
  <1> SUFFICES ASSUME RefreshInv, [Next]_vars
               PROVE  RefreshInv'
    OBVIOUS
  <1>1. ASSUME NEW p \in Procs, refresh_if_expired(p)
        PROVE  RefreshInv'
    BY <1>1, ReadFileKeepsInv, AcquireKeepsInv, RereadKeepsInv, ExchangeKeepsInv,
       PersistKeepsInv, RenameKeepsInv DEF refresh_if_expired
  <1>2. ASSUME NEW p \in Procs, Die(p)
        PROVE  RefreshInv'
    BY <1>2, DieKeepsInv
  <1>3. ASSUME NEW p \in Samplers, resolve(p)
        PROVE  RefreshInv'
    BY <1>3, ResolveKeepsInv DEF Procs
  <1>4. CASE Tick \/ Flush
    BY <1>4, ClockKeepsInv
  <1>5. CASE Login
    BY <1>5, LoginKeepsInv
  <1>6. CASE PowerLoss
    BY <1>6, PowerLossKeepsInv
  <1>7. CASE UNCHANGED vars
    <2>1. \A p : InHand(p)' <=> InHand(p)
      BY <1>7 DEF InHand, vars
    <2> QED BY <1>7, <2>1 DEF vars, RefreshInv, TypeOK, LockIsHeld, BeganInThePast,
               LockedReadStands, InHandIsNewest, InHand, FileStaysFresh, DeadPairHasACause,
               RejectionHasACause, MaterialIsFresh
  <1> QED BY <1>1, <1>2, <1>3, <1>4, <1>5, <1>6, <1>7 DEF Next

----------------------------------------------------------------------------
(* Theorems.                                                               *)

\* The invariant holds in every reachable state.
THEOREM RefreshIsSound == Spec => []RefreshInv
  BY InitHasInv, NextKeepsInv, PTL DEF Spec

\* The file, the lock and every process keep their types.
THEOREM RefreshTypeCorrect == Spec => []TypeOK
  <1>1. RefreshInv => TypeOK
    BY DEF RefreshInv
  <1> QED BY <1>1, RefreshIsSound, PTL

\* The file holds the pair the provider still takes, or the holder of the lock
\* is about to put it there, or a fault lost it: no interleaving of refreshers
\* logs the profile out.
THEOREM OnlyFaultsKillThePair == Spec => []DeadPairHasACause
  <1>1. RefreshInv => DeadPairHasACause
    BY DEF RefreshInv
  <1> QED BY <1>1, RefreshIsSound, PTL

\* A refresher is rejected only after a fault lost a pair.
THEOREM RejectionsFollowALoss == Spec => []RejectionHasACause
  <1>1. RefreshInv => RejectionHasACause
    BY DEF RefreshInv
  <1> QED BY <1>1, RefreshIsSound, PTL

\* What resolve hands to a sampler was fresh at the instant of its preflight.
THEOREM ResolvedMaterialIsFresh == Spec => []MaterialIsFresh
  <1>1. RefreshInv => MaterialIsFresh
    BY DEF RefreshInv
  <1> QED BY <1>1, RefreshIsSound, PTL

----------------------------------------------------------------------------
(* The preflight is bounded: a measure of the steps a process has left,    *)
(* which no step of anybody raises and every step of its own lowers.       *)

\* The attempts at the lock that are left, then one for each call.
Left(r) ==
    CASE r.phase = "idle" -> LockTries + 8
      [] r.phase = "wait" -> LockTries - r.tries + 7
      [] r.phase = "locked" -> 7
      [] r.phase = "exchange" -> 6
      [] r.phase = "rotated" -> 5
      [] r.phase = "saved" -> 4
      [] r.phase = "temp" -> 3
      [] r.phase = "preflighted" -> 2
      [] r.phase = "material" -> 1
      [] OTHER -> 0
StepsLeft(p) == Left(proc[p])

OwnStep(p) == refresh_if_expired(p) \/ (p \in Samplers /\ resolve(p)) \/ Die(p)

\* A process that waits has an attempt left.
AttemptIsLeft(r) == r.phase \in {"idle", "wait"} => r.tries < LockTries
AttemptsAreLeft == \A p \in Procs : AttemptIsLeft(proc[p])

StepsAreBounded == \A p \in Procs : StepsLeft(p) \in 0..(LockTries + 8)
StepsRunOut ==
    [][\A p \in Procs : /\ StepsLeft(p)' <= StepsLeft(p)
                        /\ OwnStep(p) => StepsLeft(p)' < StepsLeft(p)]_vars

\* The measure, phase by phase.
LEMMA LeftByPhase ==
    ASSUME NEW r
    PROVE  /\ r.phase = "idle" => Left(r) = LockTries + 8
           /\ r.phase = "wait" => Left(r) = LockTries - r.tries + 7
           /\ r.phase = "locked" => Left(r) = 7
           /\ r.phase = "exchange" => Left(r) = 6
           /\ r.phase = "rotated" => Left(r) = 5
           /\ r.phase = "saved" => Left(r) = 4
           /\ r.phase = "temp" => Left(r) = 3
           /\ r.phase = "preflighted" => Left(r) = 2
           /\ r.phase = "material" => Left(r) = 1
           /\ r.phase = "ended" => Left(r) = 0
  BY DEF Left

\* A process of its type that waits has an attempt left has a bounded measure.
LEMMA LeftIsBounded ==
    ASSUME NEW r \in Records, AttemptIsLeft(r)
    PROVE  Left(r) \in 0..(LockTries + 8)
  <1>1. r.phase \in Phases /\ r.tries \in Nat
    BY DEF Records
  <1> QED BY <1>1, LeftByPhase, RefreshAssumption, SMTT(60) DEF AttemptIsLeft, Phases

\* A process that is past the lock, once it has returned, has fewer steps left.
LEMMA ReturnLowers ==
    ASSUME TypeOK, AttemptsAreLeft, NEW p \in Procs, NEW outcome, NEW at,
           proc[p].phase \notin {"preflighted", "material", "ended"}
    PROVE  /\ Left(After(p, outcome, at)) < Left(proc[p])
           /\ AttemptIsLeft(After(p, outcome, at))
  <1>1. /\ After(p, outcome, at).phase \in {"ended", "preflighted"}
        /\ After(p, outcome, at).tries = 0
    BY DEF After, Bare
  <1>2. Left(After(p, outcome, at)) \in 0..2
    BY <1>1, LeftByPhase
  <1>3. Left(proc[p]) > 2 /\ Left(proc[p]) \in Nat
    <2>1. proc[p].phase \in Phases /\ proc[p].tries \in Nat /\ AttemptIsLeft(proc[p])
      BY ProcRecord DEF AttemptsAreLeft
    <2> QED BY <2>1, LeftByPhase, RefreshAssumption, SMTT(60) DEF AttemptIsLeft, Phases
  <1> QED BY <1>1, <1>2, <1>3 DEF AttemptIsLeft

\* Every step of a process changes its own record only, and lowers its measure.
LEMMA OwnStepLowers ==
    ASSUME TypeOK, AttemptsAreLeft, NEW p \in Procs, OwnStep(p)
    PROVE  /\ \A q \in Procs : q # p => proc'[q] = proc[q]
           /\ Left(proc'[p]) < Left(proc[p])
           /\ AttemptIsLeft(proc'[p])
  <1> DEFINE Lowered == \E r : /\ proc' = [proc EXCEPT ![p] = r]
                               /\ Left(r) < Left(proc[p]) /\ AttemptIsLeft(r)
  <1>1. SUFFICES Lowered
    BY DEF TypeOK
  <1>2. /\ proc[p] \in Records /\ proc[p].tries \in Nat /\ AttemptIsLeft(proc[p])
        /\ proc \in [Procs -> Records] /\ LockTries \in Nat \ {0}
    BY ProcRecord, RefreshAssumption DEF AttemptsAreLeft, TypeOK
  <1>3. ASSUME NEW outcome, Return(p, outcome),
               proc[p].phase \notin {"preflighted", "material", "ended"}
        PROVE  Lowered
    BY <1>3, ReturnLowers DEF Return
  <1>4. ASSUME NEW phase, proc' = [proc EXCEPT ![p].phase = phase],
               \/ proc[p].phase = "wait" /\ phase = "locked"
               \/ proc[p].phase = "rotated" /\ phase = "saved"
               \/ proc[p].phase = "saved" /\ phase = "temp"
        PROVE  Lowered
    <2> DEFINE r == [proc[p] EXCEPT !.phase = phase]
    <2>1. proc' = [proc EXCEPT ![p] = r]
      BY <1>2, <1>4
    <2>2. r.phase = phase
      BY <1>2 DEF Records
    <2> HIDE DEF r
    <2>3. Left(r) < Left(proc[p]) /\ AttemptIsLeft(r)
      BY <1>2, <1>4, <2>2, LeftByPhase DEF AttemptIsLeft
    <2> QED BY <2>1, <2>3
  <1>5. CASE ReadFile(p)
    <2>1. proc[p].phase = "idle"
      BY <1>5 DEF ReadFile
    <2>2. ASSUME NEW outcome, NEW at, proc' = [proc EXCEPT ![p] = After(p, outcome, at)]
          PROVE  Lowered
      BY <2>1, <2>2, ReturnLowers
    <2>3. ASSUME proc' = [proc EXCEPT ![p].phase = "wait", ![p].began = now,
                                      ![p].token = disk.pair]
          PROVE  Lowered
      <3> DEFINE r == [proc[p] EXCEPT !.phase = "wait", !.began = now, !.token = disk.pair]
      <3>1. proc' = [proc EXCEPT ![p] = r]
        BY <1>2, <2>3
      <3>2. r.phase = "wait" /\ r.tries = proc[p].tries
        BY <1>2 DEF Records
      <3> HIDE DEF r
      <3>3. Left(r) < Left(proc[p]) /\ AttemptIsLeft(r)
        BY <1>2, <2>1, <3>2, LeftByPhase DEF AttemptIsLeft
      <3> QED BY <3>1, <3>3
    <2> QED BY <1>5, <2>2, <2>3 DEF ReadFile
  <1>6. CASE acquire_lock(p)
    <2>1. proc[p].phase = "wait"
      BY <1>6 DEF acquire_lock
    <2>2. ASSUME proc' = [proc EXCEPT ![p].tries = @ + 1], proc[p].tries + 1 < LockTries
          PROVE  Lowered
      <3> DEFINE r == [proc[p] EXCEPT !.tries = @ + 1]
      <3>1. proc' = [proc EXCEPT ![p] = r]
        BY <1>2, <2>2
      <3>2. r.phase = "wait" /\ r.tries = proc[p].tries + 1
        BY <1>2, <2>1 DEF Records
      <3> HIDE DEF r
      <3>3. Left(r) < Left(proc[p]) /\ AttemptIsLeft(r)
        BY <1>2, <2>1, <2>2, <3>2, LeftByPhase DEF AttemptIsLeft
      <3> QED BY <3>1, <3>3
    <2>3. \/ proc' = [proc EXCEPT ![p].phase = "locked"]
          \/ proc' = [proc EXCEPT ![p].tries = @ + 1] /\ proc[p].tries + 1 < LockTries
          \/ \E outcome \in {"LockBusy", "EndpointUnreachable", "PersistFailed"} :
                Return(p, outcome)
      BY <1>6 DEF acquire_lock
    <2> QED BY <1>3, <1>4, <2>1, <2>2, <2>3
  <1>7. CASE Reread(p)
    <2>1. proc[p].phase = "locked"
      BY <1>7 DEF Reread
    <2>2. ASSUME proc' = [proc EXCEPT ![p].phase = "exchange", ![p].token = disk.pair]
          PROVE  Lowered
      <3> DEFINE r == [proc[p] EXCEPT !.phase = "exchange", !.token = disk.pair]
      <3>1. proc' = [proc EXCEPT ![p] = r]
        BY <1>2, <2>2
      <3>2. r.phase = "exchange"
        BY <1>2 DEF Records
      <3> HIDE DEF r
      <3>3. Left(r) < Left(proc[p]) /\ AttemptIsLeft(r)
        BY <2>1, <3>2, LeftByPhase DEF AttemptIsLeft
      <3> QED BY <3>1, <3>3
    <2> QED BY <1>3, <1>7, <2>1, <2>2 DEF Reread
  <1>8. CASE ExchangeGranted(p)
    <2> DEFINE r == [proc[p] EXCEPT !.phase = "rotated", !.new = issued + 1]
    <2>1. proc[p].phase = "exchange" /\ proc' = [proc EXCEPT ![p] = r]
      BY <1>2, <1>8 DEF ExchangeGranted
    <2>2. r.phase = "rotated"
      BY <1>2 DEF Records
    <2> HIDE DEF r
    <2>3. Left(r) < Left(proc[p]) /\ AttemptIsLeft(r)
      BY <2>1, <2>2, LeftByPhase DEF AttemptIsLeft
    <2> QED BY <2>1, <2>3
  <1>9. CASE \/ ExchangeRejected(p) \/ ExchangeFailed(p) \/ ExchangeNotConfigured(p)
             \/ RenameOver(p) \/ PersistFails(p)
    <2>1. /\ proc[p].phase \in {"exchange", "rotated", "saved", "temp"}
          /\ \E outcome \in Outcomes : Return(p, outcome)
      BY <1>9 DEF ExchangeRejected, ExchangeFailed, ExchangeNotConfigured, RenameOver,
                  PersistFails, InHand, Outcomes
    <2> QED BY <1>3, <2>1
  <1>10. CASE WriteBackup(p) \/ WriteTemp(p)
    BY <1>4, <1>10 DEF WriteBackup, WriteTemp
  <1>11. CASE ResolveMaterial(p)
    <2> DEFINE r == [proc[p] EXCEPT !.phase = "material", !.read = disk]
    <2>1. proc[p].phase = "preflighted" /\ proc' = [proc EXCEPT ![p] = r]
      BY <1>2, <1>11 DEF ResolveMaterial
    <2>2. r.phase = "material"
      BY <1>2 DEF Records
    <2> HIDE DEF r
    <2>3. Left(r) < Left(proc[p]) /\ AttemptIsLeft(r)
      BY <2>1, <2>2, LeftByPhase DEF AttemptIsLeft
    <2> QED BY <2>1, <2>3
  <1>12. CASE ResolveContext(p) \/ Die(p)
    <2>1. proc[p].phase \notin {"idle", "ended"} /\ proc' = [proc EXCEPT ![p] = Ended(p)]
      BY <1>12 DEF ResolveContext, Die
    <2>2. Left(Ended(p)) = 0 /\ AttemptIsLeft(Ended(p))
      BY EndedFields, LeftByPhase DEF AttemptIsLeft
    <2>3. Left(proc[p]) > 0
      BY <1>2, <2>1, ProcRecord, LeftByPhase, SMTT(60) DEF AttemptIsLeft, Phases
    <2> QED BY <2>1, <2>2, <2>3
  <1> HIDE DEF Lowered
  <1> QED BY <1>5, <1>6, <1>7, <1>8, <1>9, <1>10, <1>11, <1>12
          DEF OwnStep, refresh_if_expired, resolve

\* Nobody's step raises the measure of another process.
LEMMA StepsOnlyRunOut ==
    ASSUME RefreshInv, AttemptsAreLeft, [Next]_vars
    PROVE  /\ AttemptsAreLeft'
           /\ \A p \in Procs : /\ StepsLeft(p)' <= StepsLeft(p)
                               /\ OwnStep(p) => StepsLeft(p)' < StepsLeft(p)
  <1>1. TypeOK
    BY DEF RefreshInv
  <1>2. ASSUME NEW p \in Procs
        PROVE  Left(proc[p]) \in Nat
    BY <1>1, <1>2, LeftIsBounded, ProcRecord, RefreshAssumption DEF AttemptsAreLeft
  <1>3. ASSUME NEW p \in Procs, OwnStep(p)
        PROVE  /\ \A q \in Procs : q # p => proc'[q] = proc[q]
               /\ Left(proc'[p]) < Left(proc[p])
               /\ AttemptIsLeft(proc'[p])
    BY <1>1, <1>3, OwnStepLowers
  <1>4. \A p \in Procs : AttemptIsLeft(proc'[p]) /\ (\/ proc'[p] = proc[p]
                                                     \/ Left(proc'[p]) < Left(proc[p])
                                                     \/ Left(proc'[p]) = Left(proc[p]))
    <2>1. ASSUME NEW p \in Procs, OwnStep(p), NEW q \in Procs
          PROVE  /\ AttemptIsLeft(proc'[q])
                 /\ proc'[q] = proc[q] \/ Left(proc'[q]) < Left(proc[q])
      BY <1>3, <2>1 DEF AttemptsAreLeft
    <2>2. CASE UNCHANGED proc
      BY <2>2 DEF AttemptsAreLeft
    <2>3. CASE PowerLoss
      <3> SUFFICES ASSUME NEW p \in Procs
                   PROVE  /\ AttemptIsLeft(proc'[p])
                          /\ \/ Left(proc'[p]) < Left(proc[p])
                             \/ Left(proc'[p]) = Left(proc[p])
        OBVIOUS
      <3>1. proc'[p] = IF proc[p].phase = "idle" THEN Idle ELSE Ended(p)
        BY <2>3 DEF PowerLoss
      <3>2. Idle.phase = "idle" /\ Idle.tries = 0
        BY DEF Idle, Bare
      <3>3. Left(Idle) = LockTries + 8 /\ AttemptIsLeft(Idle)
        BY <3>2, LeftByPhase, RefreshAssumption DEF AttemptIsLeft
      <3>4. Left(Ended(p)) = 0 /\ AttemptIsLeft(Ended(p))
        BY <1>1, EndedFields, LeftByPhase DEF AttemptIsLeft
      <3>5. proc[p].phase = "idle" => Left(proc[p]) = LockTries + 8
        BY LeftByPhase
      <3> QED BY <1>2, <3>1, <3>3, <3>4, <3>5
    <2>4. Next => \/ \E p \in Procs : OwnStep(p)
                  \/ UNCHANGED proc
                  \/ PowerLoss
      BY DEF Next, OwnStep, Tick, Login, Flush, Procs
    <2>5. UNCHANGED vars => UNCHANGED proc
      BY DEF vars
    <2> QED BY <2>1, <2>2, <2>3, <2>4, <2>5
  <1>5. AttemptsAreLeft'
    BY <1>4 DEF AttemptsAreLeft, AttemptIsLeft
  <1>6. ASSUME NEW p \in Procs
        PROVE  /\ StepsLeft(p)' <= StepsLeft(p)
               /\ OwnStep(p) => StepsLeft(p)' < StepsLeft(p)
    <2>1. StepsLeft(p) = Left(proc[p]) /\ StepsLeft(p)' = Left(proc'[p])
      BY DEF StepsLeft, Left
    <2>2. Left(proc'[p]) < Left(proc[p]) \/ Left(proc'[p]) = Left(proc[p])
      BY <1>4
    <2>3. OwnStep(p) => Left(proc'[p]) < Left(proc[p])
      BY <1>3
    <2>4. Left(proc'[p]) \in Nat
      <3>1. proc'[p] \in Records
        BY NextKeepsInv DEF RefreshInv, TypeOK
      <3> QED BY <1>4, <3>1, LeftIsBounded, RefreshAssumption
    <2> QED BY <1>2, <2>1, <2>2, <2>3, <2>4
  <1> QED BY <1>5, <1>6

\* A waiting process has an attempt at the lock left, in every reachable state.
LEMMA AttemptsStayLeft == Spec => [](RefreshInv /\ AttemptsAreLeft)
  <1>1. Init => AttemptsAreLeft
    <2>1. Idle.tries = 0
      BY DEF Idle, Bare
    <2> QED BY <2>1, RefreshAssumption DEF Init, AttemptsAreLeft, AttemptIsLeft
  <1>2. RefreshInv /\ AttemptsAreLeft /\ [Next]_vars => AttemptsAreLeft'
    BY StepsOnlyRunOut
  <1> QED BY <1>1, <1>2, InitHasInv, NextKeepsInv, PTL DEF Spec

\* A process has at most LockTries + 8 steps before it: the attempts at the lock,
\* and one for each read, exchange, write and rename of the preflight and resolve.
THEOREM PreflightsAreShort == Spec => []StepsAreBounded
  <1>1. RefreshInv /\ AttemptsAreLeft => StepsAreBounded
    BY LeftIsBounded, ProcRecord DEF RefreshInv, AttemptsAreLeft, StepsAreBounded, StepsLeft
  <1> QED BY <1>1, AttemptsStayLeft, PTL

\* Every step a refresher or a resolving sampler takes brings it nearer to its
\* end, and nothing the others do (holding the lock for ever, replacing the file,
\* a login, a power loss) takes it back: a wedged holder costs the attempts only.
THEOREM NobodyWedgesAPreflight == Spec => StepsRunOut
  <1>1. RefreshInv /\ AttemptsAreLeft /\ [Next]_vars =>
          [\A p \in Procs : /\ StepsLeft(p)' <= StepsLeft(p)
                            /\ OwnStep(p) => StepsLeft(p)' < StepsLeft(p)]_vars
    BY StepsOnlyRunOut
  <1> QED BY <1>1, AttemptsStayLeft, PTL DEF Spec, StepsRunOut

=============================================================================
