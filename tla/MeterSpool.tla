----------------------------- MODULE MeterSpool -----------------------------
(***************************************************************************)
(* The meter evidence cycle: an attempt is committed before its request, a *)
(* measured reading is spooled to a file, committed into SQLite and its    *)
(* file deleted; every other command drains what was left behind; a backup *)
(* cuts the database and the spool together.                               *)
(*                                                                         *)
(*   src/src/store/spool.rs       pending files, drains, the snapshot lock *)
(*   src/src/store/repository.rs  the write transactions                   *)
(*   src/src/projection.rs        publication after every commit           *)
(*   src/src/store/backup.rs      the backup cut                           *)
(*   src/src/meter/sampler.rs     what persist_one reports                 *)
(*                                                                         *)
(* A process is an attempt's own live sampler, a drainer (the drain that   *)
(* opens every command) or a backup.  Each SQLite transaction and each     *)
(* file-system call is one step; any process may die between two steps,    *)
(* and a power loss also undoes directory updates nobody fsynced.          *)
(* The advisory lock .spool-snapshot.lock is a function of where the       *)
(* processes stand, so it is not a variable.                               *)
(***************************************************************************)
EXTENDS Integers, FiniteSets

CONSTANTS Attempts,      \* meter_attempt row ids
          Drainers,      \* invocations that run drain_pending
          Backups,       \* invocations that run capture_backup_cut
          Fragile,       \* attempts whose pending file may be damaged (bound)
          NoAttempt      \* no record in hand

ASSUME SpoolAssumption ==
    /\ IsFiniteSet(Attempts)
    /\ NoAttempt \notin Attempts
    /\ Fragile \subseteq Attempts
    /\ Attempts \cap Drainers = {}
    /\ Attempts \cap Backups = {}
    /\ Drainers \cap Backups = {}

VARIABLES
    \* SQLite (synchronous = FULL: a commit survives a power loss)
    started,     \* attempts with a meter_attempt row
    results,     \* attempts with a meter_attempt_result row
    evidence,    \* attempts with evidence, observation and windows
    generation,  \* ledger_generation
    \* the state directory
    pending,     \* pending/attempt-<id>.json files
    damaged,     \* pending files that no longer parse or reconstruct
    quarantined, \* quarantine/attempt-<id>.json files
    unsynced,    \* records whose creation is not fsynced yet
    ghosts,      \* pending names whose removal is not fsynced yet
    projection,  \* the published projection file
    \* the processes
    live,        \* attempt -> its live sampler's stage
    report,      \* attempt -> the AccountDisposition persist_one returned
    drain,       \* drainer or backup -> [stage, todo, record]
    snapshot,    \* process -> the publication snapshot it holds
    cut,         \* backup -> what its archive has so far
    kept         \* readings spool_pending reported durable (history)

Db == <<started, results, evidence, generation>>
Files == <<pending, damaged, quarantined, unsynced, ghosts>>
vars == <<Db, Files, projection, live, report, drain, snapshot, cut, kept>>

Drains == Drainers \cup Backups
Procs == Attempts \cup Drains

----------------------------------------------------------------------------
LiveStages == {"idle", "startPublish", "request", "resultPublish", "spool",
               "temp", "renamed", "commit", "commitPublish", "remove", "done"}
Reports == {"none", "Sampled", "Spooled", "PersistFailed"}
DrainStages == {"idle", "next", "apply", "remove", "publish", "copy", "capture"}

\* What a publication reads in its one read transaction, and the file holds.
Views == [generation : Int, started : SUBSET Attempts,
          results : SUBSET Attempts, evidence : SUBSET Attempts]

\* No snapshot in hand; for the file, no file.
NoView == [generation |-> -1, started |-> {}, results |-> {}, evidence |-> {}]

\* Where a drain stands, what is left of its listing, the record in its hands.
Passes == [stage : DrainStages, todo : SUBSET Attempts,
           record : Attempts \cup {NoAttempt}]
IdleDrain == [stage |-> "idle", todo |-> {}, record |-> NoAttempt]

\* due: durable when the barrier was taken.  copied, captured: in the archive.
\* aside: in quarantine when the cut ended, which an archive does not hold.
Cuts == [due : SUBSET Attempts, drained : BOOLEAN, copied : SUBSET Attempts,
         captured : SUBSET Attempts, aside : SUBSET Attempts, complete : BOOLEAN]
NoCut == [due |-> {}, drained |-> FALSE, copied |-> {}, captured |-> {},
          aside |-> {}, complete |-> FALSE]

TypeOK ==
    /\ started \subseteq Attempts
    /\ results \subseteq started
    /\ evidence \subseteq results
    /\ generation \in Nat
    /\ pending \subseteq Attempts
    /\ damaged \subseteq pending
    /\ quarantined \subseteq Attempts
    /\ unsynced \subseteq pending \cup quarantined
    /\ ghosts \subseteq Attempts
    /\ projection \in Views
    /\ live \in [Attempts -> LiveStages]
    /\ report \in [Attempts -> Reports]
    /\ drain \in [Drains -> Passes]
    /\ snapshot \in [Procs -> Views]
    /\ cut \in [Backups -> Cuts]
    /\ kept \subseteq Attempts

Init ==
    /\ started = {} /\ results = {} /\ evidence = {} /\ generation = 0
    /\ pending = {} /\ damaged = {} /\ quarantined = {}
    /\ unsynced = {} /\ ghosts = {}
    /\ projection = NoView
    /\ live = [a \in Attempts |-> "idle"]
    /\ report = [a \in Attempts |-> "none"]
    /\ drain = [d \in Drains |-> IdleDrain]
    /\ snapshot = [p \in Procs |-> NoView]
    /\ cut = [b \in Backups |-> NoCut]
    /\ kept = {}

----------------------------------------------------------------------------
(* The snapshot lock: spool_pending and drain_pending hold it shared, a    *)
(* backup holds it exclusively from its barrier to its pending capture.    *)

SharedHolders == {a \in Attempts : live[a] \in {"temp", "renamed"}}
                   \cup {d \in Drainers : drain[d].stage # "idle"}
BarrierHolders == {b \in Backups : drain[b].stage # "idle"}

\* The record's meter_attempt row exists and it has no result row yet: the
\* foreign key and the primary key of meter_attempt_result.
Acceptable(a) == a \in started /\ a \notin results

\* commit_terminal_bundle_on_connection: result, evidence, observation,
\* windows and the generation advance in one IMMEDIATE transaction.
CommitBundle(a) ==
    /\ Acceptable(a)
    /\ results' = results \cup {a}
    /\ evidence' = evidence \cup {a}
    /\ generation' = generation + 1
    /\ UNCHANGED started

\* remove_pending_file on a file that is there.
RemoveFile(a) ==
    /\ a \in pending
    /\ pending' = pending \ {a}
    /\ damaged' = damaged \ {a}
    /\ unsynced' = unsynced \ {a}
    /\ ghosts' = ghosts \cup {a}
    /\ UNCHANGED quarantined

\* quarantine: a rename out of the pending directory.
QuarantineFile(a) ==
    /\ a \in pending
    /\ pending' = pending \ {a}
    /\ damaged' = damaged \ {a}
    /\ ghosts' = ghosts \cup {a}
    /\ quarantined' = quarantined \cup {a}
    /\ UNCHANGED unsynced

----------------------------------------------------------------------------
(* Publication, publish_checked: one read transaction takes the snapshot,  *)
(* a temporary file is renamed over the projection afterwards, under no    *)
(* lock.  Any failure is Deferred and the caller goes on.                  *)

\* Mutant: spooled records are published as if they were committed.
DbViewWithSpool == [generation |-> generation, started |-> started,
                    results |-> results, evidence |-> evidence \cup pending]

DbView == [generation |-> generation, started |-> started,
           results |-> results, evidence |-> evidence]

\* Where a live sampler goes once its publication is over, one way or another.
AfterPublish(stage) ==
    CASE stage = "startPublish"  -> "request"
      [] stage = "resultPublish" -> "done"
      [] stage = "commitPublish" -> "remove"

Publishing(p) ==
    IF p \in Attempts THEN live[p] \in {"startPublish", "resultPublish", "commitPublish"}
                      ELSE drain[p].stage = "publish"

\* The process continues behind its publication.
Continue(p) ==
    IF p \in Attempts
    THEN /\ live' = [live EXCEPT ![p] = AfterPublish(@)]
         /\ report' = [report EXCEPT ![p] =
                IF live[p] = "resultPublish" THEN "Sampled" ELSE @]
         /\ UNCHANGED <<drain, cut>>
    ELSE /\ drain' = [drain EXCEPT ![p] =
                IF p \in Backups THEN [IdleDrain EXCEPT !.stage = "copy"] ELSE IdleDrain]
         /\ cut' = IF p \in Backups THEN [cut EXCEPT ![p].drained = TRUE] ELSE cut
         /\ UNCHANGED <<live, report>>

ReadSnapshot(p) ==
    /\ Publishing(p)
    /\ snapshot[p] = NoView
    /\ snapshot' = [snapshot EXCEPT ![p] = DbView]
    /\ UNCHANGED <<Db, Files, projection, live, report, drain, cut, kept>>

\* Mutant: the content is read after the generation, outside the snapshot.
RenameProjectionTorn(p) ==
    /\ Publishing(p)
    /\ snapshot[p] # NoView
    /\ projection' = [DbView EXCEPT !.generation = snapshot[p].generation]
    /\ snapshot' = [snapshot EXCEPT ![p] = NoView]
    /\ Continue(p)
    /\ UNCHANGED <<Db, Files, kept>>

RenameProjection(p) ==
    /\ Publishing(p)
    /\ snapshot[p] # NoView
    /\ projection' = snapshot[p]
    /\ snapshot' = [snapshot EXCEPT ![p] = NoView]
    /\ Continue(p)
    /\ UNCHANGED <<Db, Files, kept>>

DeferPublication(p) ==
    /\ Publishing(p)
    /\ snapshot' = [snapshot EXCEPT ![p] = NoView]
    /\ Continue(p)
    /\ UNCHANGED <<Db, Files, projection, kept>>

----------------------------------------------------------------------------
(* The live path: start_meter_attempt, the request, persist_one.           *)

\* start_meter_attempt: the attempt row and the generation, then publication;
\* the request goes out only behind both.
StartAttempt(a) ==
    /\ live[a] = "idle"
    /\ started' = started \cup {a}
    /\ generation' = generation + 1
    /\ live' = [live EXCEPT ![a] = "startPublish"]
    /\ UNCHANGED <<results, evidence, Files, projection, report, drain,
                   snapshot, cut, kept>>

\* The request ended without a reading: commit_terminal_result.
CommitResult(a) ==
    /\ live[a] = "request"
    /\ Acceptable(a)
    /\ results' = results \cup {a}
    /\ generation' = generation + 1
    /\ live' = [live EXCEPT ![a] = "resultPublish"]
    /\ UNCHANGED <<started, evidence, Files, projection, report, drain,
                   snapshot, cut, kept>>

\* The live sampler is through, and this is what the batch report says.
Finish(a, disposition) ==
    /\ live' = [live EXCEPT ![a] = "done"]
    /\ report' = [report EXCEPT ![a] = disposition]

CommitResultFails(a) ==
    /\ live[a] = "request"
    /\ Finish(a, "PersistFailed")
    /\ UNCHANGED <<Db, Files, projection, drain, snapshot, cut, kept>>

\* A measured reading: terminal_bundle builds what spool_then_commit takes.
Measured(a) ==
    /\ live[a] = "request"
    /\ live' = [live EXCEPT ![a] = "spool"]
    /\ UNCHANGED <<Db, Files, projection, report, drain, snapshot, cut, kept>>

\* spool_pending: the shared lease, then write_temp_file and its fsync.  A
\* drain never sees a .tmp- name, so the temporary file is not state here.
SpoolTemp(a) ==
    /\ live[a] = "spool"
    /\ BarrierHolders = {}
    /\ live' = [live EXCEPT ![a] = "temp"]
    /\ UNCHANGED <<Db, Files, projection, report, drain, snapshot, cut, kept>>

\* rename_into_place: from here every drain can discover the record.
SpoolRename(a) ==
    /\ live[a] = "temp"
    /\ pending' = pending \cup {a}
    /\ unsynced' = unsynced \cup {a}
    /\ live' = [live EXCEPT ![a] = "renamed"]
    /\ UNCHANGED <<Db, damaged, quarantined, ghosts, projection, report, drain,
                   snapshot, cut, kept>>

\* fsync_pending_dir makes every earlier update of the directory durable;
\* spool_pending returns and drops the shared lease.
SpoolSync(a) ==
    /\ live[a] = "renamed"
    /\ unsynced' = {}
    /\ ghosts' = {}
    /\ kept' = kept \cup {a}
    /\ live' = [live EXCEPT ![a] = "commit"]
    /\ UNCHANGED <<Db, pending, damaged, quarantined, projection, report, drain,
                   snapshot, cut>>

\* Mutant: a failed spool write is reported as spooled.
SpoolFailsQuietly(a) ==
    /\ live[a] \in {"spool", "temp", "renamed"}
    /\ Finish(a, "Spooled")
    /\ UNCHANGED <<Db, Files, projection, drain, snapshot, cut, kept>>

\* Any step of spool_pending fails (a full disk): the error is PersistFailed,
\* and a record already renamed stays where it is.
SpoolFails(a) ==
    /\ live[a] \in {"spool", "temp", "renamed"}
    /\ Finish(a, "PersistFailed")
    /\ UNCHANGED <<Db, Files, projection, drain, snapshot, cut, kept>>

\* spool_then_commit holds no lease from here on.
LiveCommit(a) ==
    /\ live[a] = "commit"
    /\ CommitBundle(a)
    /\ live' = [live EXCEPT ![a] = "commitPublish"]
    /\ UNCHANGED <<Files, projection, report, drain, snapshot, cut, kept>>

\* The commit errors (busy, or a drain was first): LeftPending.
LiveCommitFails(a) ==
    /\ live[a] = "commit"
    /\ Finish(a, "Spooled")
    /\ UNCHANGED <<Db, Files, projection, drain, snapshot, cut, kept>>

\* The file goes, then a first sighting records the account's subscription; if
\* that fails, persist_one reports PersistFailed.
LiveRemove(a) ==
    /\ live[a] = "remove"
    /\ RemoveFile(a)
    /\ \E disposition \in {"Sampled", "PersistFailed"} : Finish(a, disposition)
    /\ UNCHANGED <<Db, projection, drain, snapshot, cut, kept>>

\* remove_pending_file finds no file: the error leaves spool_then_commit.
LiveRemoveFails(a) ==
    /\ live[a] = "remove"
    /\ a \notin pending
    /\ Finish(a, "PersistFailed")
    /\ UNCHANGED <<Db, Files, projection, drain, snapshot, cut, kept>>

----------------------------------------------------------------------------
(* drain_pending, and the drain a backup runs under its own barrier.       *)

\* drain_pending: the shared lease and the one directory listing.
DrainBegin(d) ==
    /\ d \in Drainers
    /\ drain[d].stage = "idle"
    /\ BarrierHolders = {}
    /\ drain' = [drain EXCEPT ![d] = [stage |-> "next", todo |-> pending,
                                      record |-> NoAttempt]]
    /\ UNCHANGED <<Db, Files, projection, live, report, snapshot, cut, kept>>

\* An error ends the pass where it is and skips the publication.  The command
\* behind a drainer ends with it; a backup notes drain_completed = false.
DrainError(d) ==
    drain' = [drain EXCEPT ![d] =
        IF d \in Backups THEN [IdleDrain EXCEPT !.stage = "copy"] ELSE IdleDrain]

\* The pass goes through its listing in the lexical order of the file names,
\* which is not the order of the ids: any order is allowed here.
Take(d, a, stage) ==
    drain' = [drain EXCEPT ![d] = [stage |-> stage, todo |-> @.todo \ {a},
                                   record |-> a]]

\* Mutant: the replay check looks at the attempt row, not at its evidence.
DrainReadByStart(d, a) ==
    /\ drain[d].stage = "next"
    /\ a \in drain[d].todo
    /\ a \in pending \ damaged
    /\ Take(d, a, IF a \in started THEN "remove" ELSE "apply")
    /\ UNCHANGED <<Db, Files, projection, live, report, snapshot, cut, kept>>

\* drain_one on a record that reads and parses.
DrainRead(d, a) ==
    /\ drain[d].stage = "next"
    /\ a \in drain[d].todo
    /\ a \in pending \ damaged
    /\ Take(d, a, IF a \in evidence THEN "remove" ELSE "apply")
    /\ UNCHANGED <<Db, Files, projection, live, report, snapshot, cut, kept>>

\* Mutant: a record that does not parse is skipped instead of moved.
DrainSkipsDamaged(d, a) ==
    /\ drain[d].stage = "next"
    /\ a \in drain[d].todo
    /\ a \in damaged
    /\ drain' = [drain EXCEPT ![d].todo = @ \ {a}]
    /\ UNCHANGED <<Db, Files, projection, live, report, snapshot, cut, kept>>

\* drain_one on a record that does not: it moves to quarantine.
DrainQuarantine(d, a) ==
    /\ drain[d].stage = "next"
    /\ a \in drain[d].todo
    /\ a \in damaged
    /\ QuarantineFile(a)
    /\ drain' = [drain EXCEPT ![d].todo = @ \ {a}]
    /\ UNCHANGED <<Db, projection, live, report, snapshot, cut, kept>>

\* drain_one on a name that is gone since the listing.
DrainReadFails(d, a) ==
    /\ drain[d].stage = "next"
    /\ a \in drain[d].todo
    /\ a \notin pending
    /\ DrainError(d)
    /\ UNCHANGED <<Db, Files, projection, live, report, snapshot, cut, kept>>

DrainApply(d) ==
    /\ drain[d].stage = "apply"
    /\ CommitBundle(drain[d].record)
    /\ drain' = [drain EXCEPT ![d].stage = "remove"]
    /\ UNCHANGED <<Files, projection, live, report, snapshot, cut, kept>>

\* Mutant: a refused record is dropped and the pass goes on.
DrainApplyFailsAndDrops(d) ==
    /\ drain[d].stage = "apply"
    /\ RemoveFile(drain[d].record)
    /\ drain' = [drain EXCEPT ![d].stage = "next"]
    /\ UNCHANGED <<Db, projection, live, report, snapshot, cut, kept>>

\* Mutant: a refused record is passed over, and the drain still completes.
DrainApplyFailsAndContinues(d) ==
    /\ drain[d].stage = "apply"
    /\ drain' = [drain EXCEPT ![d].stage = "next"]
    /\ UNCHANGED <<Db, Files, projection, live, report, snapshot, cut, kept>>

\* FailStop: the database is busy, or somebody committed the record first.
DrainApplyFails(d) ==
    /\ drain[d].stage = "apply"
    /\ DrainError(d)
    /\ UNCHANGED <<Db, Files, projection, live, report, snapshot, cut, kept>>

DrainRemove(d) ==
    /\ drain[d].stage = "remove"
    /\ RemoveFile(drain[d].record)
    /\ drain' = [drain EXCEPT ![d].stage = "next", ![d].record = NoAttempt]
    /\ UNCHANGED <<Db, projection, live, report, snapshot, cut, kept>>

DrainRemoveFails(d) ==
    /\ drain[d].stage = "remove"
    /\ drain[d].record \notin pending
    /\ DrainError(d)
    /\ UNCHANGED <<Db, Files, projection, live, report, snapshot, cut, kept>>

\* Mutant: a pass publishes nothing.
DrainDoneQuietly(d) ==
    /\ drain[d].stage = "next"
    /\ drain[d].todo = {}
    /\ drain' = [drain EXCEPT ![d] = IdleDrain]
    /\ UNCHANGED <<Db, Files, projection, live, report, snapshot, cut, kept>>

\* The listing is worked through: publish, whatever the pass applied.
DrainDone(d) ==
    /\ drain[d].stage = "next"
    /\ drain[d].todo = {}
    /\ drain' = [drain EXCEPT ![d].stage = "publish"]
    /\ UNCHANGED <<Db, Files, projection, live, report, snapshot, cut, kept>>

----------------------------------------------------------------------------
(* capture_backup_cut.                                                     *)

\* The exclusive barrier, then the drain's listing.
BackupBegin(b) ==
    /\ drain[b].stage = "idle"
    /\ SharedHolders = {}
    /\ BarrierHolders = {}
    /\ drain' = [drain EXCEPT ![b] = [stage |-> "next", todo |-> pending,
                                      record |-> NoAttempt]]
    /\ cut' = [cut EXCEPT ![b] = [NoCut EXCEPT !.due = evidence \cup pending]]
    /\ UNCHANGED <<Db, Files, projection, live, report, snapshot, kept>>

\* SQLite's online backup restarts when another connection writes, so the
\* copy is the database of one instant.
BackupCopy(b) ==
    /\ drain[b].stage = "copy"
    /\ cut' = [cut EXCEPT ![b].copied = evidence]
    /\ drain' = [drain EXCEPT ![b].stage = "capture"]
    /\ UNCHANGED <<Db, Files, projection, live, report, snapshot, kept>>

BackupCopyFails(b) ==
    /\ drain[b].stage = "copy"
    /\ cut' = [cut EXCEPT ![b] = NoCut]
    /\ drain' = [drain EXCEPT ![b] = IdleDrain]
    /\ UNCHANGED <<Db, Files, projection, live, report, snapshot, kept>>

\* snapshot_pending_records, the last step under the barrier.
BackupCapture(b) ==
    /\ drain[b].stage = "capture"
    /\ cut' = [cut EXCEPT ![b].captured = pending,
                           ![b].aside = quarantined, ![b].complete = TRUE]
    /\ drain' = [drain EXCEPT ![b] = IdleDrain]
    /\ UNCHANGED <<Db, Files, projection, live, report, snapshot, kept>>

----------------------------------------------------------------------------
(* What the environment does.                                              *)

\* A pending file is damaged, or left by a binary with another format.
Damage(a) ==
    /\ a \in pending \cap Fragile
    /\ damaged' = damaged \cup {a}
    /\ UNCHANGED <<Db, pending, quarantined, unsynced, ghosts, projection, live,
                   report, drain, snapshot, cut, kept>>

Running(p) == IF p \in Attempts THEN live[p] \notin {"idle", "done"}
                                ELSE drain[p].stage # "idle"

\* The processes in dead are killed; the kernel drops their locks.
Kill(dead) ==
    /\ live' = [a \in Attempts |-> IF a \in dead THEN "done" ELSE live[a]]
    /\ drain' = [d \in Drains |-> IF d \in dead THEN IdleDrain ELSE drain[d]]
    /\ snapshot' = [p \in Procs |-> IF p \in dead THEN NoView ELSE snapshot[p]]
    /\ cut' = [b \in Backups |-> IF b \in dead THEN NoCut ELSE cut[b]]

Crash(p) ==
    /\ Running(p)
    /\ Kill({p})
    /\ UNCHANGED <<Db, Files, projection, report, kept>>

\* A power loss kills everyone; an update of the pending directory that was
\* not fsynced is kept or undone, each on its own.
PowerLoss ==
    /\ Kill({p \in Procs : Running(p)})
    /\ \E lost \in SUBSET unsynced, revived \in SUBSET ghosts :
          /\ pending' = (pending \cup revived) \ lost
          /\ damaged' = (damaged \cup (revived \cap quarantined)) \ lost
          /\ quarantined' = (quarantined \ revived) \ lost
    /\ unsynced' = {}
    /\ ghosts' = {}
    /\ UNCHANGED <<Db, projection, report, kept>>

----------------------------------------------------------------------------
LiveStep(a) ==
    \/ StartAttempt(a) \/ CommitResult(a) \/ CommitResultFails(a) \/ Measured(a)
    \/ SpoolTemp(a) \/ SpoolRename(a) \/ SpoolSync(a) \/ SpoolFails(a)
    \/ LiveCommit(a) \/ LiveCommitFails(a) \/ LiveRemove(a) \/ LiveRemoveFails(a)

DrainStep(d) ==
    \/ DrainBegin(d)
    \/ \E a \in Attempts :
          DrainRead(d, a) \/ DrainQuarantine(d, a) \/ DrainReadFails(d, a)
    \/ DrainApply(d) \/ DrainApplyFails(d)
    \/ DrainRemove(d) \/ DrainRemoveFails(d) \/ DrainDone(d)

BackupStep(b) ==
    BackupBegin(b) \/ BackupCopy(b) \/ BackupCopyFails(b) \/ BackupCapture(b)

PublishStep(p) == ReadSnapshot(p) \/ RenameProjection(p) \/ DeferPublication(p)

Next ==
    \/ \E a \in Attempts : LiveStep(a) \/ Damage(a)
    \/ \E d \in Drains : DrainStep(d)
    \/ \E b \in Backups : BackupStep(b)
    \/ \E p \in Procs : PublishStep(p) \/ Crash(p)
    \/ PowerLoss

Spec == Init /\ [][Next]_vars

----------------------------------------------------------------------------
(***************************************************************************)
(* An irreplaceable reading never disappears (spool_then_commit): from the *)
(* moment spool_pending returned, the reading is in the ledger, in the     *)
(* spool or in quarantine, through every race of live commits and drains,  *)
(* every crash and every power loss.                                       *)
(***************************************************************************)
NoReadingLost == kept \subseteq evidence \cup pending \cup quarantined

(***************************************************************************)
(* A pending file is deleted only behind its commit: a name a power loss   *)
(* may bring back, and that is not in quarantine, already has its evidence *)
(* in the ledger, so replaying it is a no-op.                              *)
(***************************************************************************)
RevivedRecordsAreReplays == ghosts \subseteq evidence \cup quarantined

(***************************************************************************)
(* The generation counts the projection-relevant commits, one per attempt  *)
(* start and one per terminal fact: no commit skips its advance, and a     *)
(* replayed record advances nothing a second time (PLAN.md section 11.6).  *)
(***************************************************************************)
GenerationCountsCommits == generation = Cardinality(started) + Cardinality(results)

Behind(view) ==
    /\ view.generation <= generation
    /\ view.started \subseteq started
    /\ view.results \subseteq results
    /\ view.evidence \subseteq evidence

(***************************************************************************)
(* The projection never claims what the database does not hold (module     *)
(* comment of projection.rs), whoever published last and however long ago  *)
(* its snapshot was read.                                                  *)
(***************************************************************************)
ProjectionNeverAhead == Behind(projection)

(***************************************************************************)
(* The file records exactly the generation of the state it contains        *)
(* (publish): generation and content come from one instant.                *)
(***************************************************************************)
ProjectionIsOneInstant ==
    projection # NoView =>
        projection.generation = Cardinality(projection.started)
                                  + Cardinality(projection.results)

(***************************************************************************)
(* What persist_one tells the operator is true of the disk: Sampled is in  *)
(* the ledger, Spooled is durable somewhere a drain or an operator finds.  *)
(***************************************************************************)
ReportIsTrue ==
    \A a \in Attempts :
        /\ report[a] = "Sampled" => a \in results
        /\ report[a] = "Spooled" => a \in evidence \cup pending \cup quarantined

(***************************************************************************)
(* A backup whose drain completed holds every reading that was durable     *)
(* when it took the barrier, save those the drain set aside as damaged.    *)
(***************************************************************************)
DrainedCutIsComplete ==
    \A b \in Backups :
        cut[b].complete /\ cut[b].drained =>
            cut[b].due \subseteq cut[b].copied \cup cut[b].captured \cup cut[b].aside

----------------------------------------------------------------------------
(* The abstract specification this one implements.                         *)

\* A record is durable once its name is fsynced.
Reading ==
    [a \in Attempts |->
        IF a \in evidence THEN "recorded"
        ELSE IF a \in unsynced THEN "unread"
        ELSE IF a \in quarantined THEN "aside"
        ELSE IF a \in pending THEN "kept" ELSE "unread"]

Lifecycle == INSTANCE ReadingLifecycle WITH reading <- Reading

(***************************************************************************)
(* The evidence cycle implements the reading's life cycle: no interleaving *)
(* of commits, drains, backups, crashes and power losses takes a durable   *)
(* reading back.                                                           *)
(***************************************************************************)
ImplementsLifecycle == Lifecycle!Spec

(***************************************************************************)
(* Fairness.  Every command drains before its body and a timer starts      *)
(* commands for ever, so drains keep beginning; neither a crash, nor a     *)
(* busy database, nor a failed write of the projection hits every drain    *)
(* (strong fairness of each step that succeeds).  A process that runs goes *)
(* on until it ends or dies.                                               *)
(***************************************************************************)
DrainFairness(d) ==
    /\ WF_vars(DrainStep(d) \/ PublishStep(d))
    /\ SF_vars(DrainBegin(d))
    /\ SF_vars(\E a \in Attempts : DrainRead(d, a))
    /\ SF_vars(\E a \in Attempts : DrainQuarantine(d, a))
    /\ SF_vars(DrainApply(d))
    /\ SF_vars(DrainRemove(d))
    /\ SF_vars(DrainDone(d))
    /\ SF_vars(ReadSnapshot(d))
    /\ SF_vars(RenameProjection(d))

FairSpec ==
    /\ Spec
    /\ \A d \in Drainers : DrainFairness(d)
    /\ \A b \in Backups : WF_vars(DrainStep(b) \/ BackupStep(b) \/ PublishStep(b))

(***************************************************************************)
(* "The next drain applies it" (LeftPending): a durable record does not    *)
(* stay in the spool for ever.                                             *)
(***************************************************************************)
KeptIsSettled == Lifecycle!KeptIsSettled

(***************************************************************************)
(* "A deferred publication is healed by the next one" (projection.rs): the *)
(* file ends up at the database's generation and stays there once commits  *)
(* stop, although publishers race and an old snapshot may be renamed over  *)
(* a newer one.                                                            *)
(***************************************************************************)
ProjectionCatchesUp == <>[](projection.generation = generation)
=============================================================================
