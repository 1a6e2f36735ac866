-------------------------- MODULE MeterSpoolProofs --------------------------
(***************************************************************************)
(* MeterSpool, proved for any number of attempts, drainers and backups.    *)
(***************************************************************************)
EXTENDS MeterSpool, FiniteSetTheorems, TLAPS

\* An attempt in one of these stages has no record anywhere yet.
Unspooled == {"idle", "startPublish", "request", "spool", "temp"}

\* What a live sampler's stage tells about its attempt.
StagesTell ==
    \A a \in Attempts :
        /\ live[a] = "idle" => a \notin started
        /\ live[a] \in Unspooled =>
              a \notin pending \cup quarantined \cup ghosts \cup kept \cup evidence
        /\ live[a] = "renamed" =>
              a \notin kept /\ a \in pending \cup quarantined \cup evidence
        /\ live[a] = "resultPublish" => a \in results
        /\ live[a] = "commit" => a \in kept
        /\ live[a] \in {"commitPublish", "remove"} => a \in kept \cap evidence

\* A drain holds a record that was spooled, and deletes it behind its commit.
DrainsHoldRecords ==
    \A d \in Drains :
        /\ drain[d].stage \in {"apply", "remove"} =>
              drain[d].record \in Attempts /\ live[drain[d].record] \notin Unspooled
        /\ drain[d].stage = "remove" => drain[d].record \in evidence

\* A power loss undoes the creation of no record that was reported durable.
KeptIsSynced == kept \cap unsynced = {}

ReportsFollow ==
    \A a \in Attempts : /\ report[a] = "Sampled" => a \in results
                        /\ report[a] = "Spooled" => a \in kept

\* A publication's snapshot is an earlier state of the database.
OneInstant(view) ==
    view # NoView =>
        view.generation = Cardinality(view.started) + Cardinality(view.results)
ViewsAreTrue ==
    /\ Behind(projection) /\ OneInstant(projection)
    /\ \A p \in Procs : Behind(snapshot[p]) /\ OneInstant(snapshot[p])

\* What is left of a cut's due readings, stage by stage.
CutsFollow ==
    \A b \in Backups :
        LET d == drain[b]
            c == cut[b]
        IN  /\ d.stage = "next" => c.due \subseteq evidence \cup quarantined \cup d.todo
            /\ d.stage = "apply" =>
                  c.due \subseteq evidence \cup quarantined \cup d.todo \cup {d.record}
            /\ d.stage = "remove" => c.due \subseteq evidence \cup quarantined \cup d.todo
            /\ d.stage = "publish" => c.due \subseteq evidence \cup quarantined
            /\ (d.stage = "copy" /\ c.drained) => c.due \subseteq evidence \cup quarantined
            /\ (d.stage = "capture" /\ c.drained) =>
                  c.due \subseteq c.copied \cup quarantined
            /\ d.stage \in {"next", "apply", "remove", "publish"} => ~c.drained
            /\ c.complete => d.stage = "idle"
            /\ (c.complete /\ c.drained) =>
                  c.due \subseteq c.copied \cup c.captured \cup c.aside

SpoolInv ==
    /\ TypeOK
    /\ StagesTell
    /\ DrainsHoldRecords
    /\ KeptIsSynced
    /\ NoReadingLost
    /\ RevivedRecordsAreReplays
    /\ ReportsFollow
    /\ GenerationCountsCommits
    /\ ViewsAreTrue
    /\ CutsFollow

\* The ledger starts out empty, its spool too.
LEMMA SpoolInitInv == Init => SpoolInv
<1> SUFFICES ASSUME Init PROVE SpoolInv
  OBVIOUS
<1> USE SpoolAssumption DEF Init, Drains, Procs
<1>1. TypeOK
  BY DEF TypeOK, Views, NoView, Cuts, NoCut, Passes, IdleDrain, LiveStages,
         Reports, DrainStages
<1>2. StagesTell /\ KeptIsSynced /\ NoReadingLost /\ RevivedRecordsAreReplays
  BY DEF StagesTell, KeptIsSynced, NoReadingLost, RevivedRecordsAreReplays
<1>3. DrainsHoldRecords /\ ReportsFollow
  BY DEF DrainsHoldRecords, IdleDrain, ReportsFollow
<1>4. GenerationCountsCommits
  BY FS_EmptySet DEF GenerationCountsCommits
<1>5. ViewsAreTrue
  BY DEF ViewsAreTrue, Behind, OneInstant, NoView
<1>6. CutsFollow
  BY DEF CutsFollow, IdleDrain, NoCut
<1> QED
  BY <1>1, <1>2, <1>3, <1>4, <1>5, <1>6 DEF SpoolInv

\* The tables of the ledger are finite and their row counts are numbers.
LEMMA TablesAreFinite ==
    ASSUME TypeOK
    PROVE  /\ IsFiniteSet(started) /\ Cardinality(started) \in Nat
           /\ IsFiniteSet(results) /\ Cardinality(results) \in Nat
<1>1. IsFiniteSet(started) /\ IsFiniteSet(results)
  BY SpoolAssumption, FS_Subset DEF TypeOK
<1> QED
  BY <1>1, FS_CardinalityType

\* StartAttempt preserves the invariant.
LEMMA StartAttemptStep ==
    ASSUME SpoolInv, NEW a \in Attempts, StartAttempt(a) PROVE SpoolInv'
<1> USE SpoolAssumption DEF SpoolInv, Db, Files, Drains, Procs
<1>1. TypeOK'
  BY DEF StartAttempt, TypeOK, Views, Cuts, Passes, LiveStages, Reports,
     DrainStages
<1>2. StagesTell'
  BY DEF StartAttempt, TypeOK, Views, Cuts, Passes, StagesTell, Unspooled
<1>3. DrainsHoldRecords'
  BY DEF StartAttempt, DrainsHoldRecords, Unspooled
<1>4. GenerationCountsCommits'
  <2>1. a \notin started
    BY DEF StartAttempt, StagesTell
  <2>2. Cardinality(started \cup {a}) = Cardinality(started) + 1
    BY <2>1, TablesAreFinite, FS_AddElement
  <2> QED
    BY <2>2, TablesAreFinite DEF StartAttempt, TypeOK, GenerationCountsCommits
<1>5. ViewsAreTrue'
  BY DEF StartAttempt, TypeOK, Views, Cuts, Passes, ViewsAreTrue, Behind,
     OneInstant
<1>6. (KeptIsSynced /\ NoReadingLost /\ RevivedRecordsAreReplays /\
       ReportsFollow /\ CutsFollow)'
  BY DEF StartAttempt, KeptIsSynced, NoReadingLost, RevivedRecordsAreReplays,
     ReportsFollow, CutsFollow
<1> QED
  BY <1>1, <1>2, <1>3, <1>4, <1>5, <1>6

\* CommitResult preserves the invariant.
LEMMA CommitResultStep ==
    ASSUME SpoolInv, NEW a \in Attempts, CommitResult(a) PROVE SpoolInv'
<1> USE SpoolAssumption DEF SpoolInv, Db, Files, Drains, Procs
<1>1. TypeOK'
  BY DEF CommitResult, Acceptable, TypeOK, Views, Cuts, Passes, LiveStages,
     Reports, DrainStages
<1>2. StagesTell'
  BY DEF CommitResult, Acceptable, StagesTell, Unspooled
<1>3. DrainsHoldRecords'
  BY DEF CommitResult, Acceptable, DrainsHoldRecords, Unspooled
<1>4. ReportsFollow'
  BY DEF CommitResult, Acceptable, ReportsFollow
<1>5. GenerationCountsCommits'
  <2>1. a \notin results
    BY DEF CommitResult, Acceptable
  <2>2. Cardinality(results \cup {a}) = Cardinality(results) + 1
    BY <2>1, TablesAreFinite, FS_AddElement
  <2> QED
    BY <2>2, TablesAreFinite DEF CommitResult, TypeOK, GenerationCountsCommits
<1>6. ViewsAreTrue'
  BY DEF CommitResult, Acceptable, TypeOK, Views, Cuts, Passes, ViewsAreTrue,
     Behind, OneInstant
<1>7. (KeptIsSynced /\ NoReadingLost /\ RevivedRecordsAreReplays /\
       CutsFollow)'
  BY DEF CommitResult, Acceptable, KeptIsSynced, NoReadingLost,
     RevivedRecordsAreReplays, CutsFollow
<1> QED
  BY <1>1, <1>2, <1>3, <1>4, <1>5, <1>6, <1>7

\* CommitResultFails preserves the invariant.
LEMMA CommitResultFailsStep ==
    ASSUME SpoolInv, NEW a \in Attempts, CommitResultFails(a) PROVE SpoolInv'
<1> USE SpoolAssumption DEF SpoolInv, Db, Files, Drains, Procs
<1>1. TypeOK'
  BY DEF CommitResultFails, Finish, TypeOK, Views, Cuts, Passes, LiveStages,
     Reports, DrainStages
<1>2. StagesTell'
  BY DEF CommitResultFails, Finish, StagesTell, Unspooled
<1>3. DrainsHoldRecords'
  BY DEF CommitResultFails, Finish, DrainsHoldRecords, Unspooled
<1>4. ReportsFollow'
  BY DEF CommitResultFails, Finish, ReportsFollow
<1>5. (KeptIsSynced /\ NoReadingLost /\ RevivedRecordsAreReplays /\
       GenerationCountsCommits /\ ViewsAreTrue /\ CutsFollow)'
  BY DEF CommitResultFails, Finish, KeptIsSynced, NoReadingLost,
     RevivedRecordsAreReplays, GenerationCountsCommits, ViewsAreTrue, Behind,
     OneInstant, CutsFollow
<1> QED
  BY <1>1, <1>2, <1>3, <1>4, <1>5

\* Measured preserves the invariant.
LEMMA MeasuredStep ==
    ASSUME SpoolInv, NEW a \in Attempts, Measured(a) PROVE SpoolInv'
<1> USE SpoolAssumption DEF SpoolInv, Db, Files, Drains, Procs
<1>1. TypeOK'
  BY DEF Measured, TypeOK, Views, Cuts, Passes, LiveStages, Reports,
     DrainStages
<1>2. StagesTell'
  BY DEF Measured, StagesTell, Unspooled
<1>3. DrainsHoldRecords'
  BY DEF Measured, DrainsHoldRecords, Unspooled
<1>4. (KeptIsSynced /\ NoReadingLost /\ RevivedRecordsAreReplays /\
       ReportsFollow /\ GenerationCountsCommits /\ ViewsAreTrue /\
       CutsFollow)'
  BY DEF Measured, KeptIsSynced, NoReadingLost, RevivedRecordsAreReplays,
     ReportsFollow, GenerationCountsCommits, ViewsAreTrue, Behind, OneInstant,
     CutsFollow
<1> QED
  BY <1>1, <1>2, <1>3, <1>4

\* SpoolTemp preserves the invariant.
LEMMA SpoolTempStep ==
    ASSUME SpoolInv, NEW a \in Attempts, SpoolTemp(a) PROVE SpoolInv'
<1> USE SpoolAssumption DEF SpoolInv, Db, Files, Drains, Procs
<1>1. TypeOK'
  BY DEF SpoolTemp, TypeOK, Views, Cuts, Passes, LiveStages, Reports,
     DrainStages
<1>2. StagesTell'
  BY DEF SpoolTemp, StagesTell, Unspooled
<1>3. DrainsHoldRecords'
  BY DEF SpoolTemp, DrainsHoldRecords, Unspooled
<1>4. (KeptIsSynced /\ NoReadingLost /\ RevivedRecordsAreReplays /\
       ReportsFollow /\ GenerationCountsCommits /\ ViewsAreTrue /\
       CutsFollow)'
  BY DEF SpoolTemp, KeptIsSynced, NoReadingLost, RevivedRecordsAreReplays,
     ReportsFollow, GenerationCountsCommits, ViewsAreTrue, Behind, OneInstant,
     CutsFollow
<1> QED
  BY <1>1, <1>2, <1>3, <1>4

\* SpoolRename preserves the invariant.
LEMMA SpoolRenameStep ==
    ASSUME SpoolInv, NEW a \in Attempts, SpoolRename(a) PROVE SpoolInv'
<1> USE SpoolAssumption DEF SpoolInv, Db, Files, Drains, Procs
<1>1. TypeOK'
  BY DEF SpoolRename, TypeOK, Views, Cuts, Passes, LiveStages, Reports,
     DrainStages
<1>2. StagesTell'
  BY DEF SpoolRename, TypeOK, Views, Cuts, Passes, StagesTell, Unspooled,
     DrainsHoldRecords
<1>3. DrainsHoldRecords'
  BY DEF SpoolRename, DrainsHoldRecords, Unspooled
<1>4. KeptIsSynced'
  BY DEF SpoolRename, TypeOK, Views, Cuts, Passes, StagesTell, Unspooled,
     DrainsHoldRecords, KeptIsSynced
<1>5. NoReadingLost'
  BY DEF SpoolRename, NoReadingLost
<1>6. (RevivedRecordsAreReplays /\ ReportsFollow /\
       GenerationCountsCommits /\ ViewsAreTrue /\ CutsFollow)'
  BY DEF SpoolRename, RevivedRecordsAreReplays, ReportsFollow,
     GenerationCountsCommits, ViewsAreTrue, Behind, OneInstant, CutsFollow
<1> QED
  BY <1>1, <1>2, <1>3, <1>4, <1>5, <1>6

\* SpoolSync preserves the invariant.
LEMMA SpoolSyncStep ==
    ASSUME SpoolInv, NEW a \in Attempts, SpoolSync(a) PROVE SpoolInv'
<1> USE SpoolAssumption DEF SpoolInv, Db, Files, Drains, Procs
<1>1. TypeOK'
  BY DEF SpoolSync, TypeOK, Views, Cuts, Passes, LiveStages, Reports,
     DrainStages
<1>2. StagesTell'
  BY DEF SpoolSync, TypeOK, Views, Cuts, Passes, StagesTell, Unspooled
<1>3. DrainsHoldRecords'
  BY DEF SpoolSync, DrainsHoldRecords, Unspooled
<1>4. KeptIsSynced'
  BY DEF SpoolSync, KeptIsSynced
<1>5. NoReadingLost'
  BY DEF SpoolSync, TypeOK, Views, Cuts, Passes, StagesTell, Unspooled,
     DrainsHoldRecords, NoReadingLost
<1>6. RevivedRecordsAreReplays'
  BY DEF SpoolSync, RevivedRecordsAreReplays
<1>7. ReportsFollow'
  BY DEF SpoolSync, ReportsFollow
<1>8. (GenerationCountsCommits /\ ViewsAreTrue /\ CutsFollow)'
  BY DEF SpoolSync, GenerationCountsCommits, ViewsAreTrue, Behind, OneInstant,
     CutsFollow
<1> QED
  BY <1>1, <1>2, <1>3, <1>4, <1>5, <1>6, <1>7, <1>8

\* SpoolFails preserves the invariant.
LEMMA SpoolFailsStep ==
    ASSUME SpoolInv, NEW a \in Attempts, SpoolFails(a) PROVE SpoolInv'
<1> USE SpoolAssumption DEF SpoolInv, Db, Files, Drains, Procs
<1>1. TypeOK'
  BY DEF SpoolFails, Finish, TypeOK, Views, Cuts, Passes, LiveStages, Reports,
     DrainStages
<1>2. StagesTell'
  BY DEF SpoolFails, Finish, StagesTell, Unspooled
<1>3. DrainsHoldRecords'
  BY DEF SpoolFails, Finish, DrainsHoldRecords, Unspooled
<1>4. ReportsFollow'
  BY DEF SpoolFails, Finish, ReportsFollow
<1>5. (KeptIsSynced /\ NoReadingLost /\ RevivedRecordsAreReplays /\
       GenerationCountsCommits /\ ViewsAreTrue /\ CutsFollow)'
  BY DEF SpoolFails, Finish, KeptIsSynced, NoReadingLost,
     RevivedRecordsAreReplays, GenerationCountsCommits, ViewsAreTrue, Behind,
     OneInstant, CutsFollow
<1> QED
  BY <1>1, <1>2, <1>3, <1>4, <1>5

\* LiveCommit preserves the invariant.
LEMMA LiveCommitStep ==
    ASSUME SpoolInv, NEW a \in Attempts, LiveCommit(a) PROVE SpoolInv'
<1> USE SpoolAssumption DEF SpoolInv, Db, Files, Drains, Procs
<1>1. TypeOK'
  BY DEF LiveCommit, CommitBundle, Acceptable, TypeOK, Views, Cuts, Passes,
     LiveStages, Reports, DrainStages
<1>2. StagesTell'
  BY DEF LiveCommit, CommitBundle, Acceptable, StagesTell, Unspooled
<1>3. DrainsHoldRecords'
  BY DEF LiveCommit, CommitBundle, Acceptable, DrainsHoldRecords, Unspooled
<1>4. NoReadingLost'
  BY DEF LiveCommit, CommitBundle, Acceptable, NoReadingLost
<1>5. RevivedRecordsAreReplays'
  BY DEF LiveCommit, CommitBundle, Acceptable, RevivedRecordsAreReplays
<1>6. ReportsFollow'
  BY DEF LiveCommit, CommitBundle, Acceptable, ReportsFollow
<1>7. GenerationCountsCommits'
  <2>1. a \notin results
    BY DEF LiveCommit, CommitBundle, Acceptable
  <2>2. Cardinality(results \cup {a}) = Cardinality(results) + 1
    BY <2>1, TablesAreFinite, FS_AddElement
  <2> QED
    BY <2>2, TablesAreFinite DEF LiveCommit, CommitBundle, TypeOK, GenerationCountsCommits
<1>8. ViewsAreTrue'
  BY DEF LiveCommit, CommitBundle, Acceptable, TypeOK, Views, Cuts, Passes,
     ViewsAreTrue, Behind, OneInstant
<1>9. CutsFollow'
  BY DEF LiveCommit, CommitBundle, Acceptable, CutsFollow
<1>10. KeptIsSynced'
  BY DEF LiveCommit, CommitBundle, Acceptable, KeptIsSynced
<1> QED
  BY <1>1, <1>2, <1>3, <1>4, <1>5, <1>6, <1>7, <1>8, <1>9, <1>10

\* LiveCommitFails preserves the invariant.
LEMMA LiveCommitFailsStep ==
    ASSUME SpoolInv, NEW a \in Attempts, LiveCommitFails(a) PROVE SpoolInv'
<1> USE SpoolAssumption DEF SpoolInv, Db, Files, Drains, Procs
<1>1. TypeOK'
  BY DEF LiveCommitFails, Finish, TypeOK, Views, Cuts, Passes, LiveStages,
     Reports, DrainStages
<1>2. StagesTell'
  BY DEF LiveCommitFails, Finish, StagesTell, Unspooled
<1>3. DrainsHoldRecords'
  BY DEF LiveCommitFails, Finish, DrainsHoldRecords, Unspooled
<1>4. ReportsFollow'
  BY DEF LiveCommitFails, Finish, TypeOK, Views, Cuts, Passes, StagesTell,
     Unspooled, DrainsHoldRecords, ReportsFollow
<1>5. (KeptIsSynced /\ NoReadingLost /\ RevivedRecordsAreReplays /\
       GenerationCountsCommits /\ ViewsAreTrue /\ CutsFollow)'
  BY DEF LiveCommitFails, Finish, KeptIsSynced, NoReadingLost,
     RevivedRecordsAreReplays, GenerationCountsCommits, ViewsAreTrue, Behind,
     OneInstant, CutsFollow
<1> QED
  BY <1>1, <1>2, <1>3, <1>4, <1>5

\* LiveRemove preserves the invariant.
LEMMA LiveRemoveStep ==
    ASSUME SpoolInv, NEW a \in Attempts, LiveRemove(a) PROVE SpoolInv'
<1> USE SpoolAssumption DEF SpoolInv, Db, Files, Drains, Procs
<1>1. TypeOK'
  BY DEF LiveRemove, RemoveFile, Finish, TypeOK, Views, Cuts, Passes,
     LiveStages, Reports, DrainStages
<1>2. StagesTell'
  BY DEF LiveRemove, RemoveFile, Finish, TypeOK, Views, Cuts, Passes,
     StagesTell, Unspooled, DrainsHoldRecords
<1>3. DrainsHoldRecords'
  BY DEF LiveRemove, RemoveFile, Finish, DrainsHoldRecords, Unspooled
<1>4. KeptIsSynced'
  BY DEF LiveRemove, RemoveFile, Finish, KeptIsSynced
<1>5. NoReadingLost'
  BY DEF LiveRemove, RemoveFile, Finish, TypeOK, Views, Cuts, Passes,
     StagesTell, Unspooled, DrainsHoldRecords, NoReadingLost
<1>6. RevivedRecordsAreReplays'
  BY DEF LiveRemove, RemoveFile, Finish, TypeOK, Views, Cuts, Passes,
     StagesTell, Unspooled, DrainsHoldRecords, RevivedRecordsAreReplays
<1>7. ReportsFollow'
  BY DEF LiveRemove, RemoveFile, Finish, TypeOK, Views, Cuts, Passes,
     StagesTell, Unspooled, DrainsHoldRecords, ReportsFollow
<1>8. (GenerationCountsCommits /\ ViewsAreTrue /\ CutsFollow)'
  BY DEF LiveRemove, RemoveFile, Finish, GenerationCountsCommits,
     ViewsAreTrue, Behind, OneInstant, CutsFollow
<1> QED
  BY <1>1, <1>2, <1>3, <1>4, <1>5, <1>6, <1>7, <1>8

\* LiveRemoveFails preserves the invariant.
LEMMA LiveRemoveFailsStep ==
    ASSUME SpoolInv, NEW a \in Attempts, LiveRemoveFails(a) PROVE SpoolInv'
<1> USE SpoolAssumption DEF SpoolInv, Db, Files, Drains, Procs
<1>1. TypeOK'
  BY DEF LiveRemoveFails, Finish, TypeOK, Views, Cuts, Passes, LiveStages,
     Reports, DrainStages
<1>2. StagesTell'
  BY DEF LiveRemoveFails, Finish, StagesTell, Unspooled
<1>3. DrainsHoldRecords'
  BY DEF LiveRemoveFails, Finish, DrainsHoldRecords, Unspooled
<1>4. ReportsFollow'
  BY DEF LiveRemoveFails, Finish, ReportsFollow
<1>5. (KeptIsSynced /\ NoReadingLost /\ RevivedRecordsAreReplays /\
       GenerationCountsCommits /\ ViewsAreTrue /\ CutsFollow)'
  BY DEF LiveRemoveFails, Finish, KeptIsSynced, NoReadingLost,
     RevivedRecordsAreReplays, GenerationCountsCommits, ViewsAreTrue, Behind,
     OneInstant, CutsFollow
<1> QED
  BY <1>1, <1>2, <1>3, <1>4, <1>5

\* DrainBegin preserves the invariant.
LEMMA DrainBeginStep ==
    ASSUME SpoolInv, NEW d \in Drains, DrainBegin(d) PROVE SpoolInv'
<1> USE SpoolAssumption DEF SpoolInv, Db, Files, Drains, Procs
<1>1. TypeOK'
  BY DEF DrainBegin, TypeOK, Views, Cuts, Passes, IdleDrain, NoCut,
     LiveStages, Reports, DrainStages
<1>2. DrainsHoldRecords'
  BY DEF DrainBegin, DrainsHoldRecords, Unspooled, IdleDrain, NoCut
<1>3. CutsFollow'
  BY DEF DrainBegin, CutsFollow, IdleDrain, NoCut
<1>4. (StagesTell /\ KeptIsSynced /\ NoReadingLost /\
       RevivedRecordsAreReplays /\ ReportsFollow /\
       GenerationCountsCommits /\ ViewsAreTrue)'
  BY DEF DrainBegin, StagesTell, Unspooled, KeptIsSynced, NoReadingLost,
     RevivedRecordsAreReplays, ReportsFollow, GenerationCountsCommits,
     ViewsAreTrue, Behind, OneInstant
<1> QED
  BY <1>1, <1>2, <1>3, <1>4

\* DrainRead preserves the invariant.
LEMMA DrainReadStep ==
    ASSUME SpoolInv, NEW d \in Drains, NEW a \in Attempts, DrainRead(d, a) PROVE SpoolInv'
<1> USE SpoolAssumption DEF SpoolInv, Db, Files, Drains, Procs
<1>1. TypeOK'
  BY DEF DrainRead, Take, TypeOK, Views, Cuts, Passes, IdleDrain, NoCut,
     LiveStages, Reports, DrainStages
<1>2. DrainsHoldRecords'
  BY DEF DrainRead, Take, TypeOK, Views, Cuts, Passes, StagesTell, Unspooled,
     DrainsHoldRecords, IdleDrain, NoCut
<1>3. CutsFollow'
  BY DEF DrainRead, Take, CutsFollow, IdleDrain, NoCut
<1>4. (StagesTell /\ KeptIsSynced /\ NoReadingLost /\
       RevivedRecordsAreReplays /\ ReportsFollow /\
       GenerationCountsCommits /\ ViewsAreTrue)'
  BY DEF DrainRead, Take, StagesTell, Unspooled, KeptIsSynced, NoReadingLost,
     RevivedRecordsAreReplays, ReportsFollow, GenerationCountsCommits,
     ViewsAreTrue, Behind, OneInstant
<1> QED
  BY <1>1, <1>2, <1>3, <1>4

\* DrainQuarantine preserves the invariant.
LEMMA DrainQuarantineStep ==
    ASSUME SpoolInv, NEW d \in Drains, NEW a \in Attempts, DrainQuarantine(d, a) PROVE SpoolInv'
<1> USE SpoolAssumption DEF SpoolInv, Db, Files, Drains, Procs
<1>1. TypeOK'
  BY DEF DrainQuarantine, QuarantineFile, TypeOK, Views, Cuts, Passes,
     IdleDrain, NoCut, LiveStages, Reports, DrainStages
<1>2. StagesTell'
  BY DEF DrainQuarantine, QuarantineFile, TypeOK, Views, Cuts, Passes,
     StagesTell, Unspooled, DrainsHoldRecords, IdleDrain, NoCut
<1>3. DrainsHoldRecords'
  BY DEF DrainQuarantine, QuarantineFile, DrainsHoldRecords, Unspooled,
     IdleDrain, NoCut
<1>4. NoReadingLost'
  BY DEF DrainQuarantine, QuarantineFile, NoReadingLost, IdleDrain, NoCut
<1>5. RevivedRecordsAreReplays'
  BY DEF DrainQuarantine, QuarantineFile, RevivedRecordsAreReplays, IdleDrain,
     NoCut
<1>6. CutsFollow'
  BY DEF DrainQuarantine, QuarantineFile, CutsFollow, IdleDrain, NoCut
<1>7. (KeptIsSynced /\ ReportsFollow /\ GenerationCountsCommits /\
       ViewsAreTrue)'
  BY DEF DrainQuarantine, QuarantineFile, KeptIsSynced, ReportsFollow,
     GenerationCountsCommits, ViewsAreTrue, Behind, OneInstant
<1> QED
  BY <1>1, <1>2, <1>3, <1>4, <1>5, <1>6, <1>7

\* DrainReadFails preserves the invariant.
LEMMA DrainReadFailsStep ==
    ASSUME SpoolInv, NEW d \in Drains, NEW a \in Attempts, DrainReadFails(d, a) PROVE SpoolInv'
<1> USE SpoolAssumption DEF SpoolInv, Db, Files, Drains, Procs
<1>1. TypeOK'
  BY DEF DrainReadFails, DrainError, TypeOK, Views, Cuts, Passes, IdleDrain,
     NoCut, LiveStages, Reports, DrainStages
<1>2. DrainsHoldRecords'
  BY DEF DrainReadFails, DrainError, DrainsHoldRecords, Unspooled, IdleDrain,
     NoCut
<1>3. CutsFollow'
  BY DEF DrainReadFails, DrainError, CutsFollow, IdleDrain, NoCut
<1>4. (StagesTell /\ KeptIsSynced /\ NoReadingLost /\
       RevivedRecordsAreReplays /\ ReportsFollow /\
       GenerationCountsCommits /\ ViewsAreTrue)'
  BY DEF DrainReadFails, DrainError, StagesTell, Unspooled, KeptIsSynced,
     NoReadingLost, RevivedRecordsAreReplays, ReportsFollow,
     GenerationCountsCommits, ViewsAreTrue, Behind, OneInstant
<1> QED
  BY <1>1, <1>2, <1>3, <1>4

\* DrainApply preserves the invariant.
LEMMA DrainApplyStep ==
    ASSUME SpoolInv, NEW d \in Drains, DrainApply(d) PROVE SpoolInv'
<1> USE SpoolAssumption DEF SpoolInv, Db, Files, Drains, Procs
<1>1. TypeOK'
  BY DEF DrainApply, CommitBundle, Acceptable, TypeOK, Views, Cuts, Passes,
     IdleDrain, NoCut, LiveStages, Reports, DrainStages
<1>2. StagesTell'
  BY DEF DrainApply, CommitBundle, Acceptable, TypeOK, Views, Cuts, Passes,
     StagesTell, Unspooled, DrainsHoldRecords, IdleDrain, NoCut
<1>3. DrainsHoldRecords'
  BY DEF DrainApply, CommitBundle, Acceptable, DrainsHoldRecords, Unspooled,
     IdleDrain, NoCut
<1>4. NoReadingLost'
  BY DEF DrainApply, CommitBundle, Acceptable, NoReadingLost, IdleDrain, NoCut
<1>5. RevivedRecordsAreReplays'
  BY DEF DrainApply, CommitBundle, Acceptable, RevivedRecordsAreReplays,
     IdleDrain, NoCut
<1>6. ReportsFollow'
  BY DEF DrainApply, CommitBundle, Acceptable, ReportsFollow, IdleDrain, NoCut
<1>7. GenerationCountsCommits'
  <2> DEFINE a == drain[d].record
  <2>1. a \notin results
    BY DEF DrainApply, CommitBundle, Acceptable
  <2>2. Cardinality(results \cup {a}) = Cardinality(results) + 1
    BY <2>1, TablesAreFinite, FS_AddElement
  <2> QED
    BY <2>2, TablesAreFinite DEF DrainApply, CommitBundle, TypeOK, GenerationCountsCommits
<1>8. ViewsAreTrue'
  BY DEF DrainApply, CommitBundle, Acceptable, TypeOK, Views, Cuts, Passes,
     ViewsAreTrue, Behind, OneInstant, IdleDrain, NoCut
<1>9. CutsFollow'
  BY DEF DrainApply, CommitBundle, Acceptable, CutsFollow, IdleDrain, NoCut
<1>10. KeptIsSynced'
  BY DEF DrainApply, CommitBundle, Acceptable, KeptIsSynced
<1> QED
  BY <1>1, <1>2, <1>3, <1>4, <1>5, <1>6, <1>7, <1>8, <1>9, <1>10

\* DrainApplyFails preserves the invariant.
LEMMA DrainApplyFailsStep ==
    ASSUME SpoolInv, NEW d \in Drains, DrainApplyFails(d) PROVE SpoolInv'
<1> USE SpoolAssumption DEF SpoolInv, Db, Files, Drains, Procs
<1>1. TypeOK'
  BY DEF DrainApplyFails, DrainError, TypeOK, Views, Cuts, Passes, IdleDrain,
     NoCut, LiveStages, Reports, DrainStages
<1>2. DrainsHoldRecords'
  BY DEF DrainApplyFails, DrainError, DrainsHoldRecords, Unspooled, IdleDrain,
     NoCut
<1>3. CutsFollow'
  BY DEF DrainApplyFails, DrainError, CutsFollow, IdleDrain, NoCut
<1>4. (StagesTell /\ KeptIsSynced /\ NoReadingLost /\
       RevivedRecordsAreReplays /\ ReportsFollow /\
       GenerationCountsCommits /\ ViewsAreTrue)'
  BY DEF DrainApplyFails, DrainError, StagesTell, Unspooled, KeptIsSynced,
     NoReadingLost, RevivedRecordsAreReplays, ReportsFollow,
     GenerationCountsCommits, ViewsAreTrue, Behind, OneInstant
<1> QED
  BY <1>1, <1>2, <1>3, <1>4

\* DrainRemove preserves the invariant.
LEMMA DrainRemoveStep ==
    ASSUME SpoolInv, NEW d \in Drains, DrainRemove(d) PROVE SpoolInv'
<1> USE SpoolAssumption DEF SpoolInv, Db, Files, Drains, Procs
<1>1. TypeOK'
  BY DEF DrainRemove, RemoveFile, TypeOK, Views, Cuts, Passes, IdleDrain,
     NoCut, LiveStages, Reports, DrainStages
<1>2. StagesTell'
  BY DEF DrainRemove, RemoveFile, TypeOK, Views, Cuts, Passes, StagesTell,
     Unspooled, DrainsHoldRecords, IdleDrain, NoCut
<1>3. DrainsHoldRecords'
  BY DEF DrainRemove, RemoveFile, TypeOK, Views, Cuts, Passes,
     DrainsHoldRecords, Unspooled, IdleDrain, NoCut
<1>4. KeptIsSynced'
  BY DEF DrainRemove, RemoveFile, KeptIsSynced, IdleDrain, NoCut
<1>5. NoReadingLost'
  BY DEF DrainRemove, RemoveFile, TypeOK, Views, Cuts, Passes, NoReadingLost,
     IdleDrain, NoCut
<1>6. RevivedRecordsAreReplays'
  BY DEF DrainRemove, RemoveFile, TypeOK, Views, Cuts, Passes,
     RevivedRecordsAreReplays, IdleDrain, NoCut
<1>7. CutsFollow'
  BY DEF DrainRemove, RemoveFile, TypeOK, Views, Cuts, Passes, CutsFollow,
     IdleDrain, NoCut
<1>8. (ReportsFollow /\ GenerationCountsCommits /\ ViewsAreTrue)'
  BY DEF DrainRemove, RemoveFile, ReportsFollow, GenerationCountsCommits,
     ViewsAreTrue, Behind, OneInstant
<1> QED
  BY <1>1, <1>2, <1>3, <1>4, <1>5, <1>6, <1>7, <1>8

\* DrainRemoveFails preserves the invariant.
LEMMA DrainRemoveFailsStep ==
    ASSUME SpoolInv, NEW d \in Drains, DrainRemoveFails(d) PROVE SpoolInv'
<1> USE SpoolAssumption DEF SpoolInv, Db, Files, Drains, Procs
<1>1. TypeOK'
  BY DEF DrainRemoveFails, DrainError, TypeOK, Views, Cuts, Passes, IdleDrain,
     NoCut, LiveStages, Reports, DrainStages
<1>2. DrainsHoldRecords'
  BY DEF DrainRemoveFails, DrainError, DrainsHoldRecords, Unspooled,
     IdleDrain, NoCut
<1>3. CutsFollow'
  BY DEF DrainRemoveFails, DrainError, CutsFollow, IdleDrain, NoCut
<1>4. (StagesTell /\ KeptIsSynced /\ NoReadingLost /\
       RevivedRecordsAreReplays /\ ReportsFollow /\
       GenerationCountsCommits /\ ViewsAreTrue)'
  BY DEF DrainRemoveFails, DrainError, StagesTell, Unspooled, KeptIsSynced,
     NoReadingLost, RevivedRecordsAreReplays, ReportsFollow,
     GenerationCountsCommits, ViewsAreTrue, Behind, OneInstant
<1> QED
  BY <1>1, <1>2, <1>3, <1>4

\* DrainDone preserves the invariant.
LEMMA DrainDoneStep ==
    ASSUME SpoolInv, NEW d \in Drains, DrainDone(d) PROVE SpoolInv'
<1> USE SpoolAssumption DEF SpoolInv, Db, Files, Drains, Procs
<1>1. TypeOK'
  BY DEF DrainDone, TypeOK, Views, Cuts, Passes, IdleDrain, NoCut, LiveStages,
     Reports, DrainStages
<1>2. DrainsHoldRecords'
  BY DEF DrainDone, DrainsHoldRecords, Unspooled, IdleDrain, NoCut
<1>3. CutsFollow'
  BY DEF DrainDone, CutsFollow, IdleDrain, NoCut
<1>4. (StagesTell /\ KeptIsSynced /\ NoReadingLost /\
       RevivedRecordsAreReplays /\ ReportsFollow /\
       GenerationCountsCommits /\ ViewsAreTrue)'
  BY DEF DrainDone, StagesTell, Unspooled, KeptIsSynced, NoReadingLost,
     RevivedRecordsAreReplays, ReportsFollow, GenerationCountsCommits,
     ViewsAreTrue, Behind, OneInstant
<1> QED
  BY <1>1, <1>2, <1>3, <1>4

\* BackupBegin preserves the invariant.
LEMMA BackupBeginStep ==
    ASSUME SpoolInv, NEW b \in Backups, BackupBegin(b) PROVE SpoolInv'
<1> USE SpoolAssumption DEF SpoolInv, Db, Files, Drains, Procs
<1>1. TypeOK'
  BY DEF BackupBegin, TypeOK, Views, Cuts, Passes, IdleDrain, NoCut,
     LiveStages, Reports, DrainStages
<1>2. DrainsHoldRecords'
  BY DEF BackupBegin, DrainsHoldRecords, Unspooled, IdleDrain, NoCut
<1>3. CutsFollow'
  BY DEF BackupBegin, TypeOK, Views, Cuts, Passes, CutsFollow, IdleDrain,
     NoCut
<1>4. (StagesTell /\ KeptIsSynced /\ NoReadingLost /\
       RevivedRecordsAreReplays /\ ReportsFollow /\
       GenerationCountsCommits /\ ViewsAreTrue)'
  BY DEF BackupBegin, StagesTell, Unspooled, KeptIsSynced, NoReadingLost,
     RevivedRecordsAreReplays, ReportsFollow, GenerationCountsCommits,
     ViewsAreTrue, Behind, OneInstant
<1> QED
  BY <1>1, <1>2, <1>3, <1>4

\* BackupCopy preserves the invariant.
LEMMA BackupCopyStep ==
    ASSUME SpoolInv, NEW b \in Backups, BackupCopy(b) PROVE SpoolInv'
<1> USE SpoolAssumption DEF SpoolInv, Db, Files, Drains, Procs
<1>1. TypeOK'
  <2>1. cut[b] \in Cuts /\ drain[b] \in Passes
    BY DEF TypeOK
  <2>2. [cut[b] EXCEPT !.copied = evidence] \in Cuts
    BY <2>1 DEF TypeOK, Cuts
  <2>3. cut' \in [Backups -> Cuts]
    BY <2>2 DEF TypeOK, BackupCopy
  <2>4. drain' \in [Drains -> Passes]
    BY <2>1 DEF TypeOK, BackupCopy, Passes, DrainStages, IdleDrain
  <2> QED
    BY <2>3, <2>4 DEF TypeOK, BackupCopy
<1>2. DrainsHoldRecords'
  BY DEF BackupCopy, DrainsHoldRecords, Unspooled, IdleDrain, NoCut
<1>3. CutsFollow'
  BY DEF BackupCopy, TypeOK, Views, Cuts, Passes, CutsFollow, IdleDrain, NoCut
<1>4. (StagesTell /\ KeptIsSynced /\ NoReadingLost /\
       RevivedRecordsAreReplays /\ ReportsFollow /\
       GenerationCountsCommits /\ ViewsAreTrue)'
  BY DEF BackupCopy, StagesTell, Unspooled, KeptIsSynced, NoReadingLost,
     RevivedRecordsAreReplays, ReportsFollow, GenerationCountsCommits,
     ViewsAreTrue, Behind, OneInstant
<1> QED
  BY <1>1, <1>2, <1>3, <1>4

\* BackupCopyFails preserves the invariant.
LEMMA BackupCopyFailsStep ==
    ASSUME SpoolInv, NEW b \in Backups, BackupCopyFails(b) PROVE SpoolInv'
<1> USE SpoolAssumption DEF SpoolInv, Db, Files, Drains, Procs
<1>1. TypeOK'
  BY DEF BackupCopyFails, TypeOK, Views, Cuts, Passes, IdleDrain, NoCut,
     LiveStages, Reports, DrainStages
<1>2. DrainsHoldRecords'
  BY DEF BackupCopyFails, DrainsHoldRecords, Unspooled, IdleDrain, NoCut
<1>3. CutsFollow'
  BY DEF BackupCopyFails, CutsFollow, IdleDrain, NoCut
<1>4. (StagesTell /\ KeptIsSynced /\ NoReadingLost /\
       RevivedRecordsAreReplays /\ ReportsFollow /\
       GenerationCountsCommits /\ ViewsAreTrue)'
  BY DEF BackupCopyFails, StagesTell, Unspooled, KeptIsSynced, NoReadingLost,
     RevivedRecordsAreReplays, ReportsFollow, GenerationCountsCommits,
     ViewsAreTrue, Behind, OneInstant
<1> QED
  BY <1>1, <1>2, <1>3, <1>4

\* BackupCapture preserves the invariant.
LEMMA BackupCaptureStep ==
    ASSUME SpoolInv, NEW b \in Backups, BackupCapture(b) PROVE SpoolInv'
<1> USE SpoolAssumption DEF SpoolInv, Db, Files, Drains, Procs
<1>1. TypeOK'
  <2>1. cut[b] \in Cuts /\ drain[b] \in Passes
    BY DEF TypeOK
  <2>2. [cut[b] EXCEPT !.captured = pending, !.aside = quarantined,
                      !.complete = TRUE] \in Cuts
    BY <2>1 DEF TypeOK, Cuts
  <2>3. cut' \in [Backups -> Cuts]
    BY <2>2 DEF TypeOK, BackupCapture
  <2>4. drain' \in [Drains -> Passes]
    BY <2>1 DEF TypeOK, BackupCapture, Passes, DrainStages, IdleDrain
  <2> QED
    BY <2>3, <2>4 DEF TypeOK, BackupCapture
<1>2. DrainsHoldRecords'
  BY DEF BackupCapture, DrainsHoldRecords, Unspooled, IdleDrain, NoCut
<1>3. CutsFollow'
  BY DEF BackupCapture, TypeOK, Views, Cuts, Passes, CutsFollow, IdleDrain,
     NoCut
<1>4. (StagesTell /\ KeptIsSynced /\ NoReadingLost /\
       RevivedRecordsAreReplays /\ ReportsFollow /\
       GenerationCountsCommits /\ ViewsAreTrue)'
  BY DEF BackupCapture, StagesTell, Unspooled, KeptIsSynced, NoReadingLost,
     RevivedRecordsAreReplays, ReportsFollow, GenerationCountsCommits,
     ViewsAreTrue, Behind, OneInstant
<1> QED
  BY <1>1, <1>2, <1>3, <1>4

\* ReadSnapshot preserves the invariant.
LEMMA ReadSnapshotStep ==
    ASSUME SpoolInv, NEW p \in Procs, ReadSnapshot(p) PROVE SpoolInv'
<1> USE SpoolAssumption DEF SpoolInv, Db, Files, Drains, Procs
<1>1. TypeOK'
  <2>1. DbView \in Views
    BY DEF DbView, Views, TypeOK
  <2> QED
    BY <2>1 DEF TypeOK, ReadSnapshot
<1>2. ViewsAreTrue'
  <2>1. Behind(DbView) /\ OneInstant(DbView)
    BY DEF DbView, Behind, OneInstant, GenerationCountsCommits, TypeOK
  <2>2. ASSUME NEW q \in Procs PROVE snapshot'[q] \in {snapshot[q], DbView}
    BY DEF TypeOK, ReadSnapshot
  <2>3. (Behind(projection) /\ OneInstant(projection))'
    BY DEF ReadSnapshot, ViewsAreTrue, Behind, OneInstant
  <2>4. ASSUME NEW q \in Procs
        PROVE  (Behind(snapshot[q]) /\ OneInstant(snapshot[q]))'
    BY <2>1, <2>2 DEF ReadSnapshot, ViewsAreTrue, Behind, OneInstant
  <2> QED
    BY <2>3, <2>4 DEF ViewsAreTrue
<1>3. (StagesTell /\ DrainsHoldRecords /\ KeptIsSynced /\ NoReadingLost /\
       RevivedRecordsAreReplays /\ ReportsFollow /\
       GenerationCountsCommits /\ CutsFollow)'
  BY DEF ReadSnapshot, Publishing, StagesTell, Unspooled, DrainsHoldRecords,
     KeptIsSynced, NoReadingLost, RevivedRecordsAreReplays, ReportsFollow,
     GenerationCountsCommits, CutsFollow
<1> QED
  BY <1>1, <1>2, <1>3

\* RenameProjection preserves the invariant.
LEMMA RenameProjectionStep ==
    ASSUME SpoolInv, NEW p \in Procs, RenameProjection(p) PROVE SpoolInv'
<1> USE SpoolAssumption DEF SpoolInv, Db, Files, Drains, Procs
<1>1. TypeOK'
  <2>1. projection' \in Views /\ snapshot' \in [Procs -> Views]
    BY DEF RenameProjection, TypeOK, NoView, Views
  <2>2. live' \in [Attempts -> LiveStages] /\ report' \in [Attempts -> Reports]
    BY DEF RenameProjection, Publishing, Continue, AfterPublish, TypeOK, LiveStages, Reports
  <2>3. drain' \in [Drains -> Passes]
    BY DEF RenameProjection, Continue, TypeOK, Passes, IdleDrain, DrainStages
  <2>4. cut' \in [Backups -> Cuts]
    <3>1. ASSUME p \in Backups PROVE [cut[p] EXCEPT !.drained = TRUE] \in Cuts
      <4>1. cut[p] \in Cuts
        BY <3>1 DEF TypeOK
      <4> QED
        BY <4>1 DEF Cuts
    <3> QED
      BY <3>1 DEF RenameProjection, Continue, TypeOK
  <2> QED
    BY <2>1, <2>2, <2>3, <2>4 DEF RenameProjection, TypeOK
<1>2. StagesTell'
  BY DEF RenameProjection, Publishing, Continue, AfterPublish, TypeOK, Views,
     Cuts, Passes, StagesTell, Unspooled, IdleDrain, NoCut, NoView
<1>3. DrainsHoldRecords'
  <2>1. CASE p \in Attempts
    BY <2>1 DEF RenameProjection, Publishing, Continue, AfterPublish, TypeOK,
       IdleDrain, DrainsHoldRecords, Unspooled
  <2>2. CASE p \in Drainers
    BY <2>2 DEF RenameProjection, Publishing, Continue, AfterPublish, TypeOK,
       IdleDrain, DrainsHoldRecords, Unspooled
  <2>3. CASE p \in Backups
    BY <2>3 DEF RenameProjection, Publishing, Continue, AfterPublish, TypeOK,
       IdleDrain, DrainsHoldRecords, Unspooled
  <2> QED
    BY <2>1, <2>2, <2>3
<1>4. ReportsFollow'
  BY DEF RenameProjection, Publishing, Continue, AfterPublish, TypeOK, Views,
     Cuts, Passes, StagesTell, Unspooled, DrainsHoldRecords, ReportsFollow,
     IdleDrain, NoCut, NoView
<1>5. ViewsAreTrue'
  BY DEF RenameProjection, Publishing, Continue, AfterPublish, TypeOK, Views,
     Cuts, Passes, ViewsAreTrue, Behind, OneInstant, IdleDrain, NoCut, NoView
<1>6. CutsFollow'
  <2>1. CASE p \in Attempts
    BY <2>1 DEF RenameProjection, Publishing, Continue, AfterPublish, TypeOK,
       IdleDrain, CutsFollow
  <2>2. CASE p \in Drainers
    BY <2>2 DEF RenameProjection, Publishing, Continue, AfterPublish, TypeOK,
       IdleDrain, CutsFollow
  <2>3. CASE p \in Backups
    <3>1. cut[p] \in Cuts /\ drain[p].stage = "publish" /\ p \notin Attempts
      BY <2>3 DEF RenameProjection, Publishing, TypeOK
    <3>2. /\ drain' = [drain EXCEPT ![p] = [IdleDrain EXCEPT !.stage = "copy"]]
          /\ cut' = [cut EXCEPT ![p] = [cut[p] EXCEPT !.drained = TRUE]]
      BY <2>3, <3>1 DEF RenameProjection, Continue
    <3>3. /\ drain'[p].stage = "copy"
          /\ cut'[p].due = cut[p].due /\ cut'[p].complete = cut[p].complete
      BY <2>3, <3>1, <3>2 DEF TypeOK, IdleDrain, Cuts
    <3>4. ASSUME NEW b \in Backups, b # p
          PROVE  drain'[b] = drain[b] /\ cut'[b] = cut[b]
      BY <3>2, <3>4 DEF TypeOK
    <3> QED
      BY <3>1, <3>3, <3>4 DEF RenameProjection, CutsFollow
  <2> QED
    BY <2>1, <2>2, <2>3
<1>7. (KeptIsSynced /\ NoReadingLost /\ RevivedRecordsAreReplays /\
       GenerationCountsCommits)'
  BY DEF RenameProjection, Publishing, Continue, AfterPublish, KeptIsSynced,
     NoReadingLost, RevivedRecordsAreReplays, GenerationCountsCommits
<1> QED
  BY <1>1, <1>2, <1>3, <1>4, <1>5, <1>6, <1>7

\* DeferPublication preserves the invariant.
LEMMA DeferPublicationStep ==
    ASSUME SpoolInv, NEW p \in Procs, DeferPublication(p) PROVE SpoolInv'
<1> USE SpoolAssumption DEF SpoolInv, Db, Files, Drains, Procs
<1>1. TypeOK'
  <2>1. projection' \in Views /\ snapshot' \in [Procs -> Views]
    BY DEF DeferPublication, TypeOK, NoView, Views
  <2>2. live' \in [Attempts -> LiveStages] /\ report' \in [Attempts -> Reports]
    BY DEF DeferPublication, Publishing, Continue, AfterPublish, TypeOK, LiveStages, Reports
  <2>3. drain' \in [Drains -> Passes]
    BY DEF DeferPublication, Continue, TypeOK, Passes, IdleDrain, DrainStages
  <2>4. cut' \in [Backups -> Cuts]
    <3>1. ASSUME p \in Backups PROVE [cut[p] EXCEPT !.drained = TRUE] \in Cuts
      <4>1. cut[p] \in Cuts
        BY <3>1 DEF TypeOK
      <4> QED
        BY <4>1 DEF Cuts
    <3> QED
      BY <3>1 DEF DeferPublication, Continue, TypeOK
  <2> QED
    BY <2>1, <2>2, <2>3, <2>4 DEF DeferPublication, TypeOK
<1>2. StagesTell'
  BY DEF DeferPublication, Publishing, Continue, AfterPublish, TypeOK, Views,
     Cuts, Passes, StagesTell, Unspooled, IdleDrain, NoCut, NoView
<1>3. DrainsHoldRecords'
  <2>1. CASE p \in Attempts
    BY <2>1 DEF DeferPublication, Publishing, Continue, AfterPublish, TypeOK,
       IdleDrain, DrainsHoldRecords, Unspooled
  <2>2. CASE p \in Drainers
    BY <2>2 DEF DeferPublication, Publishing, Continue, AfterPublish, TypeOK,
       IdleDrain, DrainsHoldRecords, Unspooled
  <2>3. CASE p \in Backups
    BY <2>3 DEF DeferPublication, Publishing, Continue, AfterPublish, TypeOK,
       IdleDrain, DrainsHoldRecords, Unspooled
  <2> QED
    BY <2>1, <2>2, <2>3
<1>4. ReportsFollow'
  BY DEF DeferPublication, Publishing, Continue, AfterPublish, TypeOK, Views,
     Cuts, Passes, StagesTell, Unspooled, DrainsHoldRecords, ReportsFollow,
     IdleDrain, NoCut, NoView
<1>5. ViewsAreTrue'
  BY DEF DeferPublication, Publishing, Continue, AfterPublish, TypeOK, Views,
     Cuts, Passes, ViewsAreTrue, Behind, OneInstant, IdleDrain, NoCut, NoView
<1>6. CutsFollow'
  <2>1. CASE p \in Attempts
    BY <2>1 DEF DeferPublication, Publishing, Continue, AfterPublish, TypeOK,
       IdleDrain, CutsFollow
  <2>2. CASE p \in Drainers
    BY <2>2 DEF DeferPublication, Publishing, Continue, AfterPublish, TypeOK,
       IdleDrain, CutsFollow
  <2>3. CASE p \in Backups
    <3>1. cut[p] \in Cuts /\ drain[p].stage = "publish" /\ p \notin Attempts
      BY <2>3 DEF DeferPublication, Publishing, TypeOK
    <3>2. /\ drain' = [drain EXCEPT ![p] = [IdleDrain EXCEPT !.stage = "copy"]]
          /\ cut' = [cut EXCEPT ![p] = [cut[p] EXCEPT !.drained = TRUE]]
      BY <2>3, <3>1 DEF DeferPublication, Continue
    <3>3. /\ drain'[p].stage = "copy"
          /\ cut'[p].due = cut[p].due /\ cut'[p].complete = cut[p].complete
      BY <2>3, <3>1, <3>2 DEF TypeOK, IdleDrain, Cuts
    <3>4. ASSUME NEW b \in Backups, b # p
          PROVE  drain'[b] = drain[b] /\ cut'[b] = cut[b]
      BY <3>2, <3>4 DEF TypeOK
    <3> QED
      BY <3>1, <3>3, <3>4 DEF DeferPublication, CutsFollow
  <2> QED
    BY <2>1, <2>2, <2>3
<1>7. (KeptIsSynced /\ NoReadingLost /\ RevivedRecordsAreReplays /\
       GenerationCountsCommits)'
  BY DEF DeferPublication, Publishing, Continue, AfterPublish, KeptIsSynced,
     NoReadingLost, RevivedRecordsAreReplays, GenerationCountsCommits
<1> QED
  BY <1>1, <1>2, <1>3, <1>4, <1>5, <1>6, <1>7

\* Damage preserves the invariant.
LEMMA DamageStep ==
    ASSUME SpoolInv, NEW a \in Attempts, Damage(a) PROVE SpoolInv'
<1> USE SpoolAssumption DEF SpoolInv, Db, Files, Drains, Procs
<1>1. TypeOK'
  BY DEF Damage, TypeOK, Views, Cuts, Passes, LiveStages, Reports, DrainStages
<1>2. (StagesTell /\ DrainsHoldRecords /\ KeptIsSynced /\ NoReadingLost /\
       RevivedRecordsAreReplays /\ ReportsFollow /\
       GenerationCountsCommits /\ ViewsAreTrue /\ CutsFollow)'
  BY DEF Damage, StagesTell, Unspooled, DrainsHoldRecords, KeptIsSynced,
     NoReadingLost, RevivedRecordsAreReplays, ReportsFollow,
     GenerationCountsCommits, ViewsAreTrue, Behind, OneInstant, CutsFollow
<1> QED
  BY <1>1, <1>2

\* Crash preserves the invariant.
LEMMA CrashStep ==
    ASSUME SpoolInv, NEW p \in Procs, Crash(p) PROVE SpoolInv'
<1> USE SpoolAssumption DEF SpoolInv, Db, Files, Drains, Procs
<1>1. TypeOK'
  BY DEF Crash, Running, Kill, TypeOK, Views, Cuts, Passes, IdleDrain, NoCut,
     NoView, LiveStages, Reports, DrainStages
<1>2. StagesTell'
  BY DEF Crash, Running, Kill, StagesTell, Unspooled, IdleDrain, NoCut, NoView
<1>3. DrainsHoldRecords'
  BY DEF Crash, Running, Kill, DrainsHoldRecords, Unspooled, IdleDrain, NoCut,
     NoView
<1>4. ViewsAreTrue'
  BY DEF Crash, Running, Kill, TypeOK, Views, Cuts, Passes, ViewsAreTrue,
     Behind, OneInstant, IdleDrain, NoCut, NoView
<1>5. CutsFollow'
  BY DEF Crash, Running, Kill, CutsFollow, IdleDrain, NoCut, NoView
<1>6. (KeptIsSynced /\ NoReadingLost /\ RevivedRecordsAreReplays /\
       ReportsFollow /\ GenerationCountsCommits)'
  BY DEF Crash, Running, Kill, KeptIsSynced, NoReadingLost,
     RevivedRecordsAreReplays, ReportsFollow, GenerationCountsCommits
<1> QED
  BY <1>1, <1>2, <1>3, <1>4, <1>5, <1>6

\* PowerLoss preserves the invariant.
LEMMA PowerLossStep ==
    ASSUME SpoolInv, PowerLoss PROVE SpoolInv'
<1> USE SpoolAssumption DEF SpoolInv, Db, Files, Drains, Procs
<1>1. TypeOK'
  BY DEF PowerLoss, Running, Kill, TypeOK, Views, Cuts, Passes, IdleDrain,
     NoCut, NoView, LiveStages, Reports, DrainStages
<1>2. StagesTell'
  BY DEF PowerLoss, Running, Kill, TypeOK, Views, Cuts, Passes, StagesTell,
     Unspooled, DrainsHoldRecords, IdleDrain, NoCut, NoView
<1>3. DrainsHoldRecords'
  BY DEF PowerLoss, Running, Kill, DrainsHoldRecords, Unspooled, IdleDrain,
     NoCut, NoView
<1>4. KeptIsSynced'
  BY DEF PowerLoss, Running, Kill, KeptIsSynced, IdleDrain, NoCut, NoView
<1>5. NoReadingLost'
  BY DEF PowerLoss, TypeOK, NoReadingLost, KeptIsSynced
<1>6. RevivedRecordsAreReplays'
  BY DEF PowerLoss, Running, Kill, RevivedRecordsAreReplays, IdleDrain, NoCut,
     NoView
<1>7. ViewsAreTrue'
  BY DEF PowerLoss, Running, Kill, TypeOK, Views, Cuts, Passes, ViewsAreTrue,
     Behind, OneInstant, IdleDrain, NoCut, NoView
<1>8. CutsFollow'
  BY DEF PowerLoss, Running, Kill, CutsFollow, IdleDrain, NoCut, NoView
<1>9. (ReportsFollow /\ GenerationCountsCommits)'
  BY DEF PowerLoss, Running, Kill, ReportsFollow, GenerationCountsCommits
<1> QED
  BY <1>1, <1>2, <1>3, <1>4, <1>5, <1>6, <1>7, <1>8, <1>9


\* Every step preserves the invariant.
LEMMA SpoolStep == SpoolInv /\ [Next]_vars => SpoolInv'
<1> SUFFICES ASSUME SpoolInv, [Next]_vars PROVE SpoolInv'
  OBVIOUS
<1>1. ASSUME NEW a \in Attempts, LiveStep(a) PROVE SpoolInv'
  BY <1>1, StartAttemptStep, CommitResultStep, CommitResultFailsStep,
     MeasuredStep, SpoolTempStep, SpoolRenameStep, SpoolSyncStep, SpoolFailsStep,
     LiveCommitStep, LiveCommitFailsStep, LiveRemoveStep, LiveRemoveFailsStep
     DEF LiveStep
<1>2. ASSUME NEW a \in Attempts, Damage(a) PROVE SpoolInv'
  BY <1>2, DamageStep
<1>3. ASSUME NEW d \in Drains, DrainStep(d) PROVE SpoolInv'
  BY <1>3, DrainBeginStep, DrainReadStep, DrainQuarantineStep,
     DrainReadFailsStep, DrainApplyStep, DrainApplyFailsStep, DrainRemoveStep,
     DrainRemoveFailsStep, DrainDoneStep DEF DrainStep
<1>4. ASSUME NEW b \in Backups, BackupStep(b) PROVE SpoolInv'
  BY <1>4, BackupBeginStep, BackupCopyStep, BackupCopyFailsStep,
     BackupCaptureStep DEF BackupStep
<1>5. ASSUME NEW p \in Procs, PublishStep(p) \/ Crash(p) PROVE SpoolInv'
  BY <1>5, ReadSnapshotStep, RenameProjectionStep, DeferPublicationStep,
     CrashStep DEF PublishStep
<1>6. CASE PowerLoss
  BY <1>6, PowerLossStep
<1>7. CASE UNCHANGED vars
  BY <1>7 DEF vars, Db, Files, SpoolInv, TypeOK, StagesTell, DrainsHoldRecords,
     KeptIsSynced, NoReadingLost, RevivedRecordsAreReplays, ReportsFollow,
     GenerationCountsCommits, ViewsAreTrue, Behind, OneInstant, CutsFollow
<1> QED
  BY <1>1, <1>2, <1>3, <1>4, <1>5, <1>6, <1>7 DEF Next

(***************************************************************************)
(* The inductive invariant behind every theorem below: what each live      *)
(* sampler's stage and each drain's record tell about the ledger and the   *)
(* spool, that snapshots are earlier states of the database, and what of a *)
(* backup's due readings is left to collect.                               *)
(***************************************************************************)
THEOREM SpoolInvariant == Spec => []SpoolInv
<1> QED
  BY SpoolInitInv, SpoolStep, PTL DEF Spec

(***************************************************************************)
(* The ledger's rows nest (evidence, results, attempts), the directories   *)
(* hold attempts' files only, and every process is in a stage it has.      *)
(***************************************************************************)
THEOREM SpoolTypeCorrect == Spec => []TypeOK
<1>1. SpoolInv => TypeOK
  BY DEF SpoolInv
<1> QED
  BY <1>1, SpoolInvariant, PTL

(***************************************************************************)
(* spool_then_commit and drain_pending never lose a reading that           *)
(* spool_pending reported durable, for any number of processes and under   *)
(* crashes and power losses.                                               *)
(***************************************************************************)
THEOREM ReadingsAreNeverLost == Spec => []NoReadingLost
<1>1. SpoolInv => NoReadingLost
  BY DEF SpoolInv
<1> QED
  BY <1>1, SpoolInvariant, PTL

(***************************************************************************)
(* remove_pending_file runs only behind its record's commit: every name a  *)
(* power loss may bring back is a replay or a quarantined record.          *)
(***************************************************************************)
THEOREM RevivalsAreReplays == Spec => []RevivedRecordsAreReplays
<1>1. SpoolInv => RevivedRecordsAreReplays
  BY DEF SpoolInv
<1> QED
  BY <1>1, SpoolInvariant, PTL

(***************************************************************************)
(* ledger_generation is the number of attempt starts and terminal facts,   *)
(* whoever commits them and however often a record is replayed.            *)
(***************************************************************************)
THEOREM GenerationIsTheCount == Spec => []GenerationCountsCommits
<1>1. SpoolInv => GenerationCountsCommits
  BY DEF SpoolInv
<1> QED
  BY <1>1, SpoolInvariant, PTL

(***************************************************************************)
(* The published projection is never ahead of the database.                *)
(***************************************************************************)
THEOREM ProjectionIsNeverAhead == Spec => []ProjectionNeverAhead
<1>1. SpoolInv => ProjectionNeverAhead
  BY DEF SpoolInv, ViewsAreTrue, ProjectionNeverAhead
<1> QED
  BY <1>1, SpoolInvariant, PTL

(***************************************************************************)
(* The generation a published projection records is that of its content.   *)
(***************************************************************************)
THEOREM ProjectionIsOfOneInstant == Spec => []ProjectionIsOneInstant
<1>1. SpoolInv => ProjectionIsOneInstant
  BY DEF SpoolInv, ViewsAreTrue, OneInstant, ProjectionIsOneInstant
<1> QED
  BY <1>1, SpoolInvariant, PTL

(***************************************************************************)
(* A disposition persist_one returned stays true of the disk, also after   *)
(* later drains, crashes and power losses.                                 *)
(***************************************************************************)
THEOREM ReportsAreTrue == Spec => []ReportIsTrue
<1>1. SpoolInv => ReportIsTrue
  BY DEF SpoolInv, ReportsFollow, NoReadingLost, ReportIsTrue
<1> QED
  BY <1>1, SpoolInvariant, PTL

(***************************************************************************)
(* A backup whose drain completed holds what was durable at its barrier,   *)
(* although live samplers commit and delete files during the cut.          *)
(***************************************************************************)
THEOREM DrainedCutsAreComplete == Spec => []DrainedCutIsComplete
<1>1. SpoolInv => DrainedCutIsComplete
  BY DEF SpoolInv, CutsFollow, DrainedCutIsComplete
<1> QED
  BY <1>1, SpoolInvariant, PTL

----------------------------------------------------------------------------
(* The refinement.                                                         *)

\* The reading is in the ledger, or in a file whose name is fsynced.
Durable(a) == \/ a \in evidence
              \/ a \in pending \cup quarantined /\ a \notin unsynced

\* No step takes a durable reading back: a file is removed behind its commit,
\* and only a record that has no file yet is renamed into place.
LEMMA DurableStays ==
    ASSUME SpoolInv, [Next]_vars, NEW a \in Attempts, Durable(a)
    PROVE  Durable(a)'
<1> USE DEF SpoolInv, Durable, Db, Files
<1>1. ASSUME NEW x \in Attempts, LiveStep(x) PROVE Durable(a)'
  <2>1. CASE SpoolRename(x)
    BY <2>1 DEF SpoolRename, StagesTell, Unspooled
  <2>2. CASE SpoolSync(x)
    BY <2>2 DEF SpoolSync
  <2>3. CASE LiveCommit(x)
    BY <2>3 DEF LiveCommit, CommitBundle
  <2>4. CASE LiveRemove(x)
    BY <2>4 DEF LiveRemove, RemoveFile, StagesTell
  <2>5. CASE UNCHANGED <<evidence, pending, quarantined, unsynced>>
    BY <2>5
  <2> QED
    BY <1>1, <2>1, <2>2, <2>3, <2>4, <2>5 DEF LiveStep, StartAttempt, CommitResult,
       CommitResultFails, Measured, SpoolTemp, SpoolFails, LiveCommitFails,
       LiveRemoveFails
<1>2. ASSUME NEW x \in Attempts, Damage(x) PROVE Durable(a)'
  BY <1>2 DEF Damage
<1>3. ASSUME NEW d \in Drains, DrainStep(d) PROVE Durable(a)'
  <2>1. ASSUME NEW x \in Attempts, DrainQuarantine(d, x) PROVE Durable(a)'
    BY <2>1 DEF DrainQuarantine, QuarantineFile
  <2>2. CASE DrainApply(d)
    BY <2>2 DEF DrainApply, CommitBundle
  <2>3. CASE DrainRemove(d)
    BY <2>3 DEF DrainRemove, RemoveFile, DrainsHoldRecords
  <2>4. CASE UNCHANGED <<evidence, pending, quarantined, unsynced>>
    BY <2>4
  <2> QED
    BY <1>3, <2>1, <2>2, <2>3, <2>4 DEF DrainStep, DrainBegin, DrainRead,
       DrainReadFails, DrainApplyFails, DrainRemoveFails, DrainDone
<1>4. ASSUME NEW b \in Backups, BackupStep(b) PROVE Durable(a)'
  BY <1>4 DEF BackupStep, BackupBegin, BackupCopy, BackupCopyFails, BackupCapture
<1>5. ASSUME NEW p \in Procs, PublishStep(p) \/ Crash(p) PROVE Durable(a)'
  BY <1>5 DEF PublishStep, ReadSnapshot, RenameProjection, DeferPublication, Crash
<1>6. CASE PowerLoss
  BY <1>6 DEF PowerLoss
<1>7. CASE UNCHANGED vars
  BY <1>7 DEF vars
<1> QED
  BY <1>1, <1>2, <1>3, <1>4, <1>5, <1>6, <1>7 DEF Next

\* No step deletes evidence.
LEMMA EvidenceGrows == ASSUME [Next]_vars PROVE evidence \subseteq evidence'
<1> USE DEF Db
<1>1. ASSUME NEW a \in Attempts, LiveStep(a) PROVE evidence \subseteq evidence'
  BY <1>1 DEF LiveStep, StartAttempt, CommitResult, CommitResultFails, Measured,
     SpoolTemp, SpoolRename, SpoolSync, SpoolFails, LiveCommit, CommitBundle,
     LiveCommitFails, LiveRemove, LiveRemoveFails
<1>2. ASSUME NEW d \in Drains, DrainStep(d) PROVE evidence \subseteq evidence'
  BY <1>2 DEF DrainStep, DrainBegin, DrainRead, DrainQuarantine, DrainReadFails,
     DrainApply, CommitBundle, DrainApplyFails, DrainRemove, DrainRemoveFails,
     DrainDone
<1>3. CASE UNCHANGED evidence
  BY <1>3
<1> QED
  BY <1>1, <1>2, <1>3 DEF Next, Damage, BackupStep, BackupBegin, BackupCopy,
     BackupCopyFails, BackupCapture, PublishStep, ReadSnapshot, RenameProjection,
     DeferPublication, Crash, PowerLoss, vars

\* A step of the cycle is a step of the life cycle, or none.
LEMMA LifecycleStep ==
    ASSUME SpoolInv, [Next]_vars PROVE [Lifecycle!Next]_Reading
<1>1. Reading' \in [Attempts -> Lifecycle!States]
  BY DEF Reading, Lifecycle!States
<1>2. ASSUME NEW a \in Attempts
      PROVE  \/ Reading'[a] = Reading[a]
             \/ <<Reading[a], Reading'[a]>> \in Lifecycle!Moves
  <2>1. Durable(a) => Durable(a)'
    BY DurableStays
  <2>2. a \in evidence => a \in evidence'
    BY EvidenceGrows
  <2> QED
    BY <2>1, <2>2 DEF Reading, Durable, Lifecycle!Moves
<1> QED
  BY <1>1, <1>2 DEF Lifecycle!Next

(***************************************************************************)
(* The evidence cycle implements the life cycle of a reading: with any     *)
(* number of samplers, drains and backups, crashes and power losses, a     *)
(* durable reading stays durable and a recorded one stays recorded.        *)
(***************************************************************************)
THEOREM CycleImplementsLifecycle == Spec => ImplementsLifecycle
<1>1. Init => Lifecycle!Init
  BY DEF Init, Reading, Lifecycle!Init
<1>2. SpoolInv /\ [Next]_vars => [Lifecycle!Next]_Reading
  BY LifecycleStep
<1> QED
  BY <1>1, <1>2, SpoolInvariant, PTL DEF Spec, ImplementsLifecycle, Lifecycle!Spec
=============================================================================
