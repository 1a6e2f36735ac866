------------------------- MODULE CredentialRefresh --------------------------
(***************************************************************************)
(* The renewal of an expired OAuth credential file before an account is    *)
(* sampled, and the read of the file that follows it.                      *)
(*                                                                         *)
(*   src/src/auth/credentials_lock.rs         Anthropic: a rotating pair   *)
(*   src/src/auth/antigravity_credentials.rs  Antigravity: a stable token  *)
(*   src/src/auth.rs                          resolve: material, context id*)
(*   src/src/cli.rs                           the preflight                *)
(*                                                                         *)
(* An Anthropic refresh token is single use: the exchange spends it, and   *)
(* only the pair it returns works from then on.  The n-th pair issued is   *)
(* the number n.  Samplers and the other refreshers of the profile (Claude *)
(* Code, outside this repository) take the same steps under the same lock. *)
(* Each file or network call is a step; a process may die between two, and *)
(* a power loss may bring back the file the last rename replaced, since    *)
(* nobody fsyncs the directory.  Instants are whole units.                 *)
(***************************************************************************)
EXTENDS Integers, FiniteSets

CONSTANTS Samplers,      \* aub invocations that sample the account
          Others,        \* other processes that refresh the same file
          NoOne,         \* nobody holds the lock
          Lead,          \* DEFAULT_EXPIRY_LEAD, EXPIRY_LEAD
          Lifetime,      \* expires_in, as the endpoint answers
          LockTries,     \* LockWait.attempts
          MaxTime,       \* bound on the clock
          MaxIssued      \* bound on the pairs the provider issues

ASSUME RefreshAssumption ==
    /\ Samplers \cap Others = {}
    /\ NoOne \notin Samplers \cup Others
    /\ Lead \in Nat /\ Lifetime \in Nat /\ Lifetime > Lead
    /\ LockTries \in Nat \ {0}
    /\ MaxTime \in Nat /\ MaxIssued \in Nat

Procs == Samplers \cup Others

VARIABLES
    rotating,  \* the provider spends refresh tokens: Anthropic, not agy
    now,       \* the wall clock
    issued,    \* the newest pair the provider issued
    disk,      \* the credential file
    durable,   \* the file a power loss may bring back
    lock,      \* the holder of the flock
    proc,      \* process -> its record
    lost       \* pairs issued that cannot reach the file any more (history)

vars == <<rotating, now, issued, disk, durable, lock, proc, lost>>

----------------------------------------------------------------------------
\* A credential file: pair 0 stands for material that is not an OAuth pair.
Files == [pair : Nat, expires : Int]

Phases == {"idle", "wait", "locked", "exchange", "rotated", "saved", "temp",
           "preflighted", "material", "ended"}
Outcomes == {"None", "NotNeeded", "Refreshed", "AlreadyFreshOnDisk", "LockBusy",
             "Rejected", "EndpointUnreachable", "ConfigurationFailed",
             "PersistFailed", "FileUnreadable"}

\* began: the instant the caller passed.  token: the pair last read by
\* the preflight.  new: the rotated pair.  read: what resolve read.
Records == [phase : Phases, outcome : Outcomes, began : Nat, tries : Nat,
            token : Nat, new : Nat, read : Files]
NoFile == [pair |-> 0, expires |-> 0]

\* A process with nothing in hand.
Bare(phase, outcome, at) ==
    [phase |-> phase, outcome |-> outcome, began |-> at, tries |-> 0,
     token |-> 0, new |-> 0, read |-> NoFile]
Idle == Bare("idle", "None", 0)

TypeOK ==
    /\ rotating \in BOOLEAN
    /\ now \in Nat
    /\ issued \in Nat \ {0}
    /\ disk \in Files
    /\ durable \in Files
    /\ lock \in Procs \cup {NoOne}
    /\ proc \in [Procs -> Records]
    /\ lost \subseteq Nat

Init ==
    /\ rotating \in BOOLEAN
    /\ now = 0
    /\ issued = 1
    /\ disk \in {NoFile, [pair |-> 1, expires |-> Lead]}
    /\ durable = disk
    /\ lock = NoOne
    /\ proc = [p \in Procs |-> Idle]
    /\ lost = {}

----------------------------------------------------------------------------
\* ClaudeCredentials::parse and Credentials::parse.
IsPair(file) == file.pair # 0

is_expired(file, at) == at + Lead >= file.expires

\* The preflight returns; the lock guard, if any, is dropped.  PersistFailed
\* leaves the account out of the batch.
After(p, outcome, at) ==
    Bare(IF outcome = "PersistFailed" \/ p \notin Samplers THEN "ended" ELSE "preflighted",
         outcome, at)

Return(p, outcome) ==
    /\ proc' = [proc EXCEPT ![p] = After(p, outcome, proc[p].began)]
    /\ lock' = IF lock = p THEN NoOne ELSE lock

\* The process is over: only what it reported is kept.
Ended(p) == Bare("ended", proc[p].outcome, 0)

\* The refresher holds a pair that is not in the file.
InHand(p) == proc[p].phase \in {"rotated", "saved", "temp"}

----------------------------------------------------------------------------
(* refresh_if_expired.                                                     *)

\* The first read, without the lock.
ReadFile(p) ==
    /\ proc[p].phase = "idle"
    /\ \/ /\ ~IsPair(disk) \/ ~is_expired(disk, now)
          /\ proc' = [proc EXCEPT ![p] = After(p, "NotNeeded", now)]
       \/ /\ IsPair(disk) /\ is_expired(disk, now)
          /\ proc' = [proc EXCEPT ![p].phase = "wait", ![p].began = now,
                                  ![p].token = disk.pair]
       \/ proc' = [proc EXCEPT ![p] = After(p, "FileUnreadable", now)]
    /\ UNCHANGED <<rotating, now, issued, disk, durable, lock, lost>>

\* Mutant: a held lock is tried for ever.
AcquireForEver(p) ==
    /\ proc[p].phase = "wait"
    /\ \/ /\ lock = NoOne
          /\ lock' = p
          /\ proc' = [proc EXCEPT ![p].phase = "locked"]
       \/ /\ lock # NoOne
          /\ proc' = [proc EXCEPT ![p].tries = (@ + 1) % LockTries]
          /\ UNCHANGED lock
       \/ Return(p, "PersistFailed")
    /\ UNCHANGED <<rotating, now, issued, disk, durable, lost>>

\* A held lock is tried again, a bounded number of times.
acquire_lock(p) ==
    /\ proc[p].phase = "wait"
    /\ \/ /\ lock = NoOne
          /\ lock' = p
          /\ proc' = [proc EXCEPT ![p].phase = "locked"]
       \/ /\ lock # NoOne
          /\ proc[p].tries + 1 < LockTries
          /\ proc' = [proc EXCEPT ![p].tries = @ + 1]
          /\ UNCHANGED lock
       \/ /\ lock # NoOne
          /\ proc[p].tries + 1 >= LockTries
          /\ Return(p, IF rotating THEN "LockBusy" ELSE "EndpointUnreachable")
       \/ Return(p, "PersistFailed")
    /\ UNCHANGED <<rotating, now, issued, disk, durable, lost>>

\* Mutant: the pair of the first read is used.
RereadNothing(p) ==
    /\ proc[p].phase = "locked"
    /\ \/ proc' = [proc EXCEPT ![p].phase = "exchange"] /\ UNCHANGED lock
       \/ Return(p, "FileUnreadable")
    /\ UNCHANGED <<rotating, now, issued, disk, durable, lost>>

\* The second read, under the lock: another refresher may have won.
Reread(p) ==
    /\ proc[p].phase = "locked"
    /\ \/ /\ IsPair(disk) /\ is_expired(disk, proc[p].began)
          /\ proc' = [proc EXCEPT ![p].phase = "exchange", ![p].token = disk.pair]
          /\ UNCHANGED lock
       \/ IsPair(disk) /\ ~is_expired(disk, proc[p].began)
            /\ Return(p, "AlreadyFreshOnDisk")
       \/ ~IsPair(disk) /\ Return(p, "NotNeeded")
       \/ Return(p, "FileUnreadable")
    /\ UNCHANGED <<rotating, now, issued, disk, durable, lost>>

\* The endpoint takes the token: a rotating one is spent by it.
Accepted(p) == ~rotating \/ proc[p].token = issued

\* A new pair comes back.
ExchangeGranted(p) ==
    /\ proc[p].phase = "exchange"
    /\ Accepted(p)
    /\ issued < MaxIssued
    /\ issued' = issued + 1
    /\ proc' = [proc EXCEPT ![p].phase = "rotated", ![p].new = issued + 1]
    /\ UNCHANGED <<rotating, now, disk, durable, lock, lost>>

\* invalid_grant: the token was spent before.
ExchangeRejected(p) ==
    /\ proc[p].phase = "exchange"
    /\ ~Accepted(p)
    /\ Return(p, "Rejected")
    /\ UNCHANGED <<rotating, now, issued, disk, durable, lost>>

\* A status, a timeout or a malformed body; the endpoint may have rotated
\* before its answer was lost.
ExchangeFailed(p) ==
    /\ proc[p].phase = "exchange"
    /\ Return(p, "EndpointUnreachable")
    /\ \/ UNCHANGED <<issued, lost>>
       \/ /\ Accepted(p)
          /\ issued < MaxIssued
          /\ issued' = issued + 1
          /\ lost' = lost \cup {issued + 1}
    /\ UNCHANGED <<rotating, now, disk, durable>>

\* Antigravity's client is not configured.
ExchangeNotConfigured(p) ==
    /\ proc[p].phase = "exchange"
    /\ ~rotating
    /\ Return(p, "ConfigurationFailed")
    /\ UNCHANGED <<rotating, now, issued, disk, durable, lost>>

\* persist: the previous bytes to .bak, the new ones to a temp file, both
\* fsynced, each under its own name.
WriteBackup(p) ==
    /\ proc[p].phase = "rotated"
    /\ proc' = [proc EXCEPT ![p].phase = "saved"]
    /\ UNCHANGED <<rotating, now, issued, disk, durable, lock, lost>>

WriteTemp(p) ==
    /\ proc[p].phase = "saved"
    /\ proc' = [proc EXCEPT ![p].phase = "temp"]
    /\ UNCHANGED <<rotating, now, issued, disk, durable, lock, lost>>

\* Mutant: the old expiry stays in the document.
RotatedWithOldExpiry(p) == [pair |-> proc[p].new, expires |-> disk.expires]

\* with_rotated and refreshed: the expiry counts from the caller's instant.
Rotated(p) == [pair |-> proc[p].new, expires |-> proc[p].began + Lifetime]

\* Mutant: the lock is dropped before the rename.
RenameAfterUnlock(p) ==
    \/ /\ proc[p].phase = "temp" /\ lock = p
       /\ lock' = NoOne
       /\ UNCHANGED <<rotating, now, issued, durable, lost, disk, proc>>
    \/ /\ proc[p].phase = "temp" /\ lock # p
       /\ disk' = Rotated(p)
       /\ Return(p, "Refreshed")
       /\ UNCHANGED <<rotating, now, issued, durable, lost>>

\* The rename, then the lock is dropped.
RenameOver(p) ==
    /\ proc[p].phase = "temp"
    /\ disk' = Rotated(p)
    /\ Return(p, "Refreshed")
    /\ UNCHANGED <<rotating, now, issued, durable, lost>>

\* A write or the rename fails.
PersistFails(p) ==
    /\ InHand(p)
    /\ Return(p, "PersistFailed")
    /\ lost' = lost \cup {proc[p].new}
    /\ UNCHANGED <<rotating, now, issued, disk, durable>>

refresh_if_expired(p) ==
    \/ ReadFile(p)
    \/ acquire_lock(p)
    \/ Reread(p)
    \/ ExchangeGranted(p)
    \/ ExchangeRejected(p)
    \/ ExchangeFailed(p)
    \/ ExchangeNotConfigured(p)
    \/ WriteBackup(p)
    \/ WriteTemp(p)
    \/ RenameOver(p)
    \/ PersistFails(p)

----------------------------------------------------------------------------
(* resolve reads the file; the modification time that names the credential *)
(* context is a second call, which leaves this state alone.                *)

ResolveMaterial(p) ==
    /\ proc[p].phase = "preflighted"
    /\ proc' = [proc EXCEPT ![p].phase = "material", ![p].read = disk]
    /\ UNCHANGED <<rotating, now, issued, disk, durable, lock, lost>>

\* The context id is read, or an I/O error ends the command with AuthRequired.
ResolveContext(p) ==
    /\ proc[p].phase \in {"preflighted", "material"}
    /\ proc' = [proc EXCEPT ![p] = Ended(p)]
    /\ UNCHANGED <<rotating, now, issued, disk, durable, lock, lost>>

resolve(p) == ResolveMaterial(p) \/ ResolveContext(p)

----------------------------------------------------------------------------
(* The environment.                                                        *)

Tick ==
    /\ now < MaxTime
    /\ now' = now + 1
    /\ UNCHANGED <<rotating, issued, disk, durable, lock, proc, lost>>

\* A fresh login, under the profile's lock, or other material put in place.
Login ==
    /\ lock = NoOne
    /\ \/ /\ issued < MaxIssued
          /\ issued' = issued + 1
          /\ disk' = [pair |-> issued + 1, expires |-> now + Lifetime]
       \/ disk' = NoFile /\ UNCHANGED issued
    /\ UNCHANGED <<rotating, now, durable, lock, proc, lost>>

\* The kernel writes the directory back.
Flush ==
    /\ durable # disk
    /\ durable' = disk
    /\ UNCHANGED <<rotating, now, issued, disk, lock, proc, lost>>

\* The process dies; its flock goes with it.
Die(p) ==
    /\ proc[p].phase \notin {"idle", "ended"}
    /\ proc' = [proc EXCEPT ![p] = Ended(p)]
    /\ lock' = IF lock = p THEN NoOne ELSE lock
    /\ lost' = IF InHand(p) THEN lost \cup {proc[p].new} ELSE lost
    /\ UNCHANGED <<rotating, now, issued, disk, durable>>

\* Everything stops; an unflushed rename may be undone.
PowerLoss ==
    /\ disk' \in {disk, durable}
    /\ durable' = disk'
    /\ lost' = lost \cup {proc[p].new : p \in {q \in Procs : InHand(q)}}
                 \cup (IF disk' # disk THEN {issued} \ {disk'.pair} ELSE {})
    /\ proc' = [p \in Procs |-> IF proc[p].phase = "idle" THEN Idle ELSE Ended(p)]
    /\ lock' = NoOne
    /\ UNCHANGED <<rotating, now, issued>>

Next ==
    \/ \E p \in Procs : refresh_if_expired(p) \/ Die(p)
    \/ \E p \in Samplers : resolve(p)
    \/ Tick \/ Login \/ Flush \/ PowerLoss

Spec == Init /\ [][Next]_vars

\* A sampler runs until it ends or dies.  Nothing is asked of the others: the
\* holder of the lock may hang.
FairSpec == Spec /\ \A p \in Samplers : WF_vars(refresh_if_expired(p) \/ resolve(p))

----------------------------------------------------------------------------
(***************************************************************************)
(* "The lock, and the re-read after acquiring it, are what make that       *)
(* safe": the pair in the file is the one the provider still takes, unless *)
(* the newest pair is in the hands of the lock's holder or was lost in a   *)
(* fault (a crash, a failed write, a lost answer, an undone rename).  No   *)
(* interleaving of refreshers alone kills it.                              *)
(***************************************************************************)
DeadPairHasACause ==
    (rotating /\ IsPair(disk) /\ disk.pair # issued) =>
        \/ issued \in lost
        \/ lock # NoOne /\ InHand(lock) /\ proc[lock].new = issued

(***************************************************************************)
(* A refresher presents a spent token only after a fault lost the pair     *)
(* that replaced it: "the loser's next refresh is rejected and that        *)
(* profile is logged out" never happens to two healthy refreshers.         *)
(***************************************************************************)
RejectionHasACause ==
    \A p \in Procs : proc[p].outcome = "Rejected" => lost # {}

(***************************************************************************)
(* Where the preflight reports a usable file, what resolve reads next was  *)
(* not expired at the instant the preflight was given, although others may *)
(* have replaced the file in between.                                      *)
(***************************************************************************)
MaterialIsFresh ==
    \A p \in Samplers :
        (/\ proc[p].phase = "material"
         /\ proc[p].outcome \in {"NotNeeded", "Refreshed", "AlreadyFreshOnDisk"}
         /\ IsPair(proc[p].read)) =>
            ~is_expired(proc[p].read, proc[p].began)

(***************************************************************************)
(* "A crashed refresher must not be able to wedge sampling": a preflight   *)
(* that began ends, even when the holder of the lock never lets go.        *)
(***************************************************************************)
PreflightEnds ==
    \A p \in Samplers : proc[p].phase # "idle" ~> proc[p].phase = "ended"
=============================================================================
