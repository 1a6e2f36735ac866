--------------------------- MODULE SamplingLease ---------------------------
(***************************************************************************)
(* The per-account sampling lease (src/src/store/sampling_lease.rs): one   *)
(* row per account in the table sampling_lease, written by concurrent      *)
(* `aub` invocations and timed by the wall clock.                          *)
(*                                                                         *)
(* `acquire` reads the clock and computes the expiry BEFORE it takes the   *)
(* SQLite write lock, so the instant it decides with may be arbitrarily    *)
(* old by the time the decision is made: the two halves are two actions.   *)
(* `clear_expired` binds its instant before its DELETE in the same way.    *)
(* The BEGIN IMMEDIATE transaction and each DELETE are one atomic step of  *)
(* the database.  The clock never steps back: a wall clock that does is    *)
(* outside what the code handles.                                          *)
(***************************************************************************)
EXTENDS Integers

CONSTANTS Accounts,      \* configured account names
          Holders,       \* invocations, one LeaseHolder (trigger and pid) each
          NoHolder,      \* stands for "no row"
          NoAccount,     \* stands for "not inside acquire"
          Ttl,           \* lease_ttl
          MaxTime        \* bound on the wall clock

ASSUME LeaseAssumption ==
    /\ Ttl \in Nat \ {0}        \* acquire refuses a zero TTL
    /\ MaxTime \in Nat
    /\ NoHolder \notin Holders
    /\ NoAccount \notin Accounts

VARIABLES clock,     \* the wall clock
          lease,     \* account -> its row
          acquiring, \* invocation -> the acquire call it is inside, if any
          held,      \* invocation -> account -> expires_at of its grant, or None
          sweep      \* the instant clear_expired read before its DELETE, or None

leaseVars == <<clock, lease, acquiring, held, sweep>>

None == -1
Instants == 0 .. MaxTime
Expiries == 0 .. MaxTime + Ttl

NoRow == [holder |-> NoHolder, acquired_at |-> 0, expires_at |-> 0]
NoCall == [account |-> NoAccount, now |-> 0]

LeaseTypeOK ==
    /\ clock \in Instants
    /\ lease \in [Accounts -> [holder : Holders \cup {NoHolder},
                               acquired_at : Instants, expires_at : Expiries]]
    /\ acquiring \in [Holders -> [account : Accounts \cup {NoAccount},
                                  now : Instants]]
    /\ held \in [Holders -> [Accounts -> Expiries \cup {None}]]
    /\ sweep \in Instants \cup {None}

----------------------------------------------------------------------------
LeaseInit ==
    /\ clock = 0
    /\ lease = [a \in Accounts |-> NoRow]
    /\ acquiring = [h \in Holders |-> NoCall]
    /\ held = [h \in Holders |-> [a \in Accounts |-> None]]
    /\ sweep = None

\* Mutant: a second TTL is added, as if the caller had not added its own.
ExpiryTwice(now) == now + 2 * Ttl

Expiry(now) == now + Ttl

Tick ==
    /\ clock < MaxTime
    /\ clock' = clock + 1
    /\ UNCHANGED <<lease, acquiring, held, sweep>>

\* acquire up to the lock: the instant the decision will use is fixed here.
ReadClock(h, a) ==
    /\ acquiring[h].account = NoAccount
    /\ held[h][a] = None
    /\ acquiring' = [acquiring EXCEPT ![h] = [account |-> a, now |-> clock]]
    /\ UNCHANGED <<clock, lease, held, sweep>>

\* Mutant: the expiry is compared with the row's acquisition, not with now.
BlocksOnlyFresh(row, now) == row.holder # NoHolder /\ row.acquired_at >= now

\* The row found under the write lock excludes a caller whose instant is now.
Blocks(row, now) == row.holder # NoHolder /\ row.expires_at > now

\* acquire under the write lock, Granted: INSERT OR REPLACE and COMMIT.
Grant(h) ==
    LET a   == acquiring[h].account
        now == acquiring[h].now
    IN  /\ a # NoAccount
        /\ ~Blocks(lease[a], now)
        /\ lease' = [lease EXCEPT ![a] = [holder |-> h, acquired_at |-> now,
                                          expires_at |-> Expiry(now)]]
        /\ held' = [held EXCEPT ![h][a] = Expiry(now)]
        /\ acquiring' = [acquiring EXCEPT ![h] = NoCall]
        /\ UNCHANGED <<clock, sweep>>

\* acquire under the write lock, AlreadyHeld: the transaction is dropped.
AlreadyHeld(h) ==
    /\ acquiring[h].account # NoAccount
    /\ Blocks(lease[acquiring[h].account], acquiring[h].now)
    /\ acquiring' = [acquiring EXCEPT ![h] = NoCall]
    /\ UNCHANGED <<clock, lease, held, sweep>>

\* acquire fails: the write lock is busy, or the statement errors.
AcquireFails(h) ==
    /\ acquiring[h].account # NoAccount
    /\ acquiring' = [acquiring EXCEPT ![h] = NoCall]
    /\ UNCHANGED <<clock, lease, held, sweep>>

\* The row release deletes: the account's, and only while the caller holds it.
Owned(h, a) == lease[a].holder = h

\* release: the invocation is done with the account either way.
Release(h, a) ==
    /\ held[h][a] # None
    /\ lease' = [lease EXCEPT ![a] = IF Owned(h, a) THEN NoRow ELSE @]
    /\ held' = [held EXCEPT ![h][a] = None]
    /\ UNCHANGED <<clock, acquiring, sweep>>

\* release fails and the sampler ignores it: the row waits for its expiry.
ReleaseFails(h, a) ==
    /\ held[h][a] # None
    /\ held' = [held EXCEPT ![h][a] = None]
    /\ UNCHANGED <<clock, lease, acquiring, sweep>>

\* The process dies: everything it believed goes, its rows stay.
Crash(h) ==
    /\ \/ acquiring[h].account # NoAccount
       \/ \E a \in Accounts : held[h][a] # None
    /\ acquiring' = [acquiring EXCEPT ![h] = NoCall]
    /\ held' = [held EXCEPT ![h] = [a \in Accounts |-> None]]
    /\ UNCHANGED <<clock, lease, sweep>>

\* clear_expired (doctor --fix, retention), first half: the instant is bound.
SweepReadClock ==
    /\ sweep = None
    /\ sweep' = clock
    /\ UNCHANGED <<clock, lease, acquiring, held>>

\* Mutant: off by one, a lease is swept one tick before it expires.
ExpiredEarly(row, now) == row.holder # NoHolder /\ row.expires_at <= now + 1

Expired(row, now) == row.holder # NoHolder /\ row.expires_at <= now

\* clear_expired, second half: one DELETE over the whole table.
SweepDelete ==
    /\ sweep # None
    /\ lease' = [a \in Accounts |->
                    IF Expired(lease[a], sweep) THEN NoRow ELSE lease[a]]
    /\ sweep' = None
    /\ UNCHANGED <<clock, acquiring, held>>

LeaseNext ==
    \/ Tick
    \/ \E h \in Holders :
          \/ \E a \in Accounts : \/ ReadClock(h, a)
                                 \/ Release(h, a)
                                 \/ ReleaseFails(h, a)
          \/ Grant(h)
          \/ AlreadyHeld(h)
          \/ AcquireFails(h)
          \/ Crash(h)
    \/ SweepReadClock
    \/ SweepDelete

LeaseSpec == LeaseInit /\ [][LeaseNext]_leaseVars

----------------------------------------------------------------------------
\* h's own grant for a has not expired by the wall clock.
LiveGrant(h, a) == held[h][a] # None /\ held[h][a] > clock

(***************************************************************************)
(* An invocation inside its TTL is the one the table names: whatever       *)
(* instant a competitor read, however long it then waited for the write    *)
(* lock, and whatever doctor --fix swept, the row of a grant that is still *)
(* live is the grant's own row.                                            *)
(***************************************************************************)
LiveGrantIsTheRow ==
    \A h \in Holders, a \in Accounts :
        LiveGrant(h, a) => /\ lease[a].holder = h
                           /\ lease[a].expires_at = held[h][a]

(***************************************************************************)
(* At most one sampler per account inside its TTL (module comment of       *)
(* sampling_lease.rs): a grant decided with a stale instant, a late        *)
(* release by a holder that was taken over, or a sweep never lets a second *)
(* invocation in beside a live one.                                        *)
(***************************************************************************)
ExclusiveWhileLive ==
    \A g, h \in Holders, a \in Accounts :
        LiveGrant(g, a) /\ LiveGrant(h, a) => g = h

(***************************************************************************)
(* A row blocks its account for at most one TTL: no row outlives Ttl past  *)
(* the wall clock, so a holder that died is passed over once Ttl ticks     *)
(* went by, even if nobody ever sweeps.                                    *)
(***************************************************************************)
BlockIsBounded ==
    \A a \in Accounts : lease[a].expires_at <= clock + Ttl

(***************************************************************************)
(* A live row leaves the table, or changes, only by its own holder's hand: *)
(* a competitor's acquire, a release by anybody else, and clear_expired    *)
(* leave it alone.                                                         *)
(***************************************************************************)
OnlyTheHolderEndsALiveRow ==
    [][\A a \in Accounts :
          Blocks(lease[a], clock) /\ lease'[a] # lease[a]
             => held'[lease[a].holder][a] = None
                /\ held[lease[a].holder][a] # None]_leaseVars
============================================================================
