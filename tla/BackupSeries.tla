---------------------------- MODULE BackupSeries ----------------------------
(***************************************************************************)
(* The backup destination root of src/src/backup.rs: a series of dated     *)
(* archives, the newest-verified pointer beside them, and the tiered       *)
(* retention that prunes them.                                             *)
(*                                                                         *)
(* `aub backup` runs (the shipped timer and the operator's own) are        *)
(* separate processes with no lock on the root.  Each builds an archive in *)
(* a staging directory nobody else reads, stamps and verifies it, renames  *)
(* it to its dated name, moves the pointer, and then lists, selects and    *)
(* deletes.  `aub backup verify` re-checks an archive in place and         *)
(* rewrites its manifest when the answer changed.  Any of them may stop    *)
(* between two steps, by a crash or an error; files may rot.               *)
(*                                                                         *)
(* An archive is known by its creation stamp: the dated name is the stamp  *)
(* and the ledger generation.  Days, weeks, months and years are periods   *)
(* of a fixed length in clock units.                                       *)
(***************************************************************************)
EXTENDS Integers, FiniteSets

CONSTANTS Runs,      \* processes that execute `aub backup`
          NoArchive, \* no archive; a root without a pointer file
          Torn,      \* a pointer file that was truncated and not yet written
          Tiers,     \* retention buckets: [keep |-> count, length |-> period]
          MaxTime    \* bound: clock readings in one behaviour

Stamps == 1..MaxTime
Name == Stamps \cup {NoArchive}

ASSUME MaxTimeAssumption == MaxTime \in Nat
ASSUME NoArchiveAssumption == NoArchive \notin Int /\ Torn \notin Int /\ Torn # NoArchive
ASSUME TiersAssumption ==
    /\ \A t \in Tiers : t.keep \in Nat /\ t.length \in Nat \ {0}
    /\ \E t \in Tiers : t.keep > 0

VARIABLES
    clock,     \* the latest reading of the system clock
    present,   \* stamps of the archive directories under the root
    manifest,  \* stamp -> what its manifest says of its verification
    files,     \* stamp -> what its files are
    pointer,   \* the newest-verified file: absent, torn, or a stamp
    run,       \* process -> where its backup stands
    verifier,  \* where `backup verify` stands: its archive and its answer
    proven,    \* history: stamps whose manifest ever said verified
    early      \* history: stamps selected for deletion before their own run
               \* had moved the pointer to them
vars == <<clock, present, manifest, files, pointer, run, verifier, proven, early>>

Idle == [pc |-> "idle", own |-> NoArchive, unread |-> {}, listed |-> {},
         doomed |-> {}]
Resting == [pc |-> "idle", own |-> NoArchive, answer |-> "unverified"]

Init ==
    /\ clock = 0
    /\ present = {}
    /\ manifest = [a \in Stamps |-> "unverified"]
    /\ files = [a \in Stamps |-> "whole"]
    /\ pointer = NoArchive
    /\ run = [r \in Runs |-> Idle]
    /\ verifier = Resting
    /\ proven = {} /\ early = {}

-----------------------------------------------------------------------------
(* Retention.                                                              *)

Period(a, t) == a \div t.length

\* The periods of a tier in which some archive newer than a was made.
LaterPeriods(archives, a, t) == {Period(b, t) : b \in {c \in archives : c > a}}

\* Mutant: a bucket stops one period short.
retain_bucketShort(verified, t) ==
    {a \in verified :
        /\ Period(a, t) \notin LaterPeriods(verified, a, t)
        /\ Cardinality(LaterPeriods(verified, a, t)) + 1 < t.keep}

\* Newest first, the first archive of each period, until the bucket has seen
\* its count of periods.
retain_bucket(verified, t) ==
    {a \in verified :
        /\ Period(a, t) \notin LaterPeriods(verified, a, t)
        /\ Cardinality(LaterPeriods(verified, a, t)) < t.keep}

\* Mutant: the pointer is not consulted.
newest_verifiedByStamp(verified, pointed) ==
    {a \in verified : \A b \in verified : b <= a}

\* The archive no prune may take: the pointer's, when it is a verified archive
\* of the listing, and the newest verified one otherwise.
newest_verified(verified, pointed) ==
    IF pointed \in verified THEN {pointed}
    ELSE {a \in verified : \A b \in verified : b <= a}

\* Mutant: the oldest first.
select_retainedOldest(verified, pointed) ==
    newest_verified(verified, pointed) \cup {a \in verified : \A b \in verified : a <= b}

select_retained(verified, pointed) ==
    newest_verified(verified, pointed)
      \cup UNION {retain_bucket(verified, t) : t \in Tiers}

-----------------------------------------------------------------------------
(* backup_series_create.                                                   *)

\* The cut is staged and its manifest stamped, unverified.  Two runs may read
\* the same instant.
StampArchive(r) ==
    /\ run[r].pc = "idle"
    /\ \E now \in {clock, clock + 1} \cap Stamps :
          /\ clock' = now
          /\ run' = [run EXCEPT ![r] = [Idle EXCEPT !.pc = "staged", !.own = now]]
    /\ UNCHANGED <<present, manifest, files, pointer, verifier, proven, early>>

\* A taken name is refused and the staging directory removed.
RefuseTakenName(r) ==
    /\ run[r].pc = "staged" /\ run[r].own \in present
    /\ run' = [run EXCEPT ![r] = Idle]
    /\ UNCHANGED <<clock, present, manifest, files, pointer, verifier, proven, early>>

\* Verified, and renamed to its dated name.
Publish(r) ==
    /\ run[r].pc = "staged" /\ run[r].own \notin present
    /\ present' = present \cup {run[r].own}
    /\ manifest' = [manifest EXCEPT ![run[r].own] = "verified"]
    /\ files' = [files EXCEPT ![run[r].own] = "whole"]
    /\ proven' = proven \cup {run[r].own}
    /\ run' = [run EXCEPT ![r].pc = "published"]
    /\ UNCHANGED <<clock, pointer, verifier, early>>

\* A cut whose verification failed is renamed too, as an unverified archive kept
\* for diagnosis; the run ends without moving the pointer or pruning.
backup_series_adopt_failed_tmp(r) ==
    /\ run[r].pc = "staged" /\ run[r].own \notin present
    /\ present' = present \cup {run[r].own}
    /\ manifest' = [manifest EXCEPT ![run[r].own] = "unverified"]
    /\ \E state \in {"whole", "rotten"} : files' = [files EXCEPT ![run[r].own] = state]
    /\ run' = [run EXCEPT ![r] = Idle]
    /\ UNCHANGED <<clock, pointer, verifier, proven, early>>

\* write_file truncates the pointer file before it writes the new name.
TruncatePointer(r) ==
    /\ run[r].pc = "published"
    /\ pointer' = Torn
    /\ run' = [run EXCEPT ![r].pc = "pointing"]
    /\ UNCHANGED <<clock, present, manifest, files, verifier, proven, early>>

WritePointer(r) ==
    /\ run[r].pc = "pointing"
    /\ pointer' = run[r].own
    /\ run' = [run EXCEPT ![r].pc = "pruning"]
    /\ UNCHANGED <<clock, present, manifest, files, verifier, proven, early>>

-----------------------------------------------------------------------------
(* backup_series_prune.                                                    *)

\* backup_series_list_archives: the names under the root come in one call (for
\* a root as small as a series is), the manifests are read one by one, in any
\* order.
ListArchives(r) ==
    /\ run[r].pc = "pruning"
    /\ run' = [run EXCEPT ![r] = [@ EXCEPT !.pc = "listing", !.unread = present]]
    /\ UNCHANGED <<clock, present, manifest, files, pointer, verifier, proven, early>>

\* A directory that is gone or lost its manifest is passed over; a manifest that
\* cannot be read fails the listing.  Verified archives compete for retention.
ReadManifest(r) ==
    /\ run[r].pc = "listing"
    /\ \E a \in run[r].unread :
          /\ a \in present => manifest[a] # "torn"
          /\ LET found == {b \in {a} \cap present : manifest[b] = "verified"}
             IN  run' = [run EXCEPT ![r] = [run[r] EXCEPT !.unread = run[r].unread \ {a},
                                                          !.listed = run[r].listed \cup found]]
    /\ UNCHANGED <<clock, present, manifest, files, pointer, verifier, proven, early>>

\* Archives whose own run has still to move the pointer to them.
Unpointed ==
    {run[r].own : r \in {s \in Runs : run[s].pc \in {"staged", "published", "pointing"}}}

\* The pointer is read after the listing; a torn one fails the prune, and so does
\* a root without a verified archive.
SelectRetained(r) ==
    /\ run[r].pc = "listing" /\ run[r].unread = {} /\ run[r].listed # {}
    /\ pointer # Torn
    /\ LET doomed == run[r].listed \ select_retained(run[r].listed, pointer)
       IN  /\ run' = [run EXCEPT ![r] = [pc |-> "deleting", own |-> @.own, unread |-> {},
                                         listed |-> {}, doomed |-> doomed]]
           /\ early' = early \cup (doomed \cap Unpointed)
    /\ UNCHANGED <<clock, present, manifest, files, pointer, verifier, proven>>

\* The doomed archives go newest first.
Victim(r) == CHOOSE a \in run[r].doomed : \A b \in run[r].doomed : b <= a

\* remove_dir_all unlinks the files one by one and in any order; until it is
\* through, the directory may still hold its manifest and no longer what it
\* describes.
RemoveFiles(r) ==
    /\ run[r].pc = "deleting" /\ run[r].doomed # {}
    /\ Victim(r) \in present /\ files[Victim(r)] # "gutted"
    /\ files' = [files EXCEPT ![Victim(r)] = "gutted"]
    /\ \E left \in {manifest[Victim(r)], "absent"} :
          manifest' = [manifest EXCEPT ![Victim(r)] = left]
    /\ UNCHANGED <<clock, present, pointer, run, verifier, proven, early>>

RemoveDirectory(r) ==
    /\ run[r].pc = "deleting" /\ run[r].doomed # {}
    /\ Victim(r) \in present /\ files[Victim(r)] = "gutted"
    /\ present' = present \ {Victim(r)}
    /\ run' = [run EXCEPT ![r].doomed = @ \ {Victim(r)}]
    /\ UNCHANGED <<clock, manifest, files, pointer, verifier, proven, early>>

Finish(r) ==
    /\ run[r].pc = "deleting" /\ run[r].doomed = {}
    /\ run' = [run EXCEPT ![r] = Idle]
    /\ UNCHANGED <<clock, present, manifest, files, pointer, verifier, proven, early>>

\* The process dies, or a step returns an error: an unreadable manifest, a torn
\* pointer, an archive another run removed first.
Stop(r) ==
    /\ run[r].pc # "idle"
    /\ run' = [run EXCEPT ![r] = Idle]
    /\ UNCHANGED <<clock, present, manifest, files, pointer, verifier, proven, early>>

-----------------------------------------------------------------------------
(* verify_archive on an archive of the series, and decay.                  *)

Verdict(a) == IF files[a] = "whole" THEN "verified" ELSE "unverified"

\* The manifest is read and every file checked; nothing is written when the
\* answer is the recorded one.
CheckArchive(a) ==
    /\ verifier.pc = "idle"
    /\ a \in present /\ manifest[a] \notin {"torn", "absent", Verdict(a)}
    /\ verifier' = [pc |-> "checked", own |-> a, answer |-> Verdict(a)]
    /\ UNCHANGED <<clock, present, manifest, files, pointer, run, proven, early>>

\* The manifest is rewritten in place, the file truncated before it is written.
TruncateManifest ==
    /\ verifier.pc = "checked" /\ verifier.own \in present
    /\ manifest' = [manifest EXCEPT ![verifier.own] = "torn"]
    /\ verifier' = [verifier EXCEPT !.pc = "rewriting"]
    /\ UNCHANGED <<clock, present, files, pointer, run, proven, early>>

WriteVerdict ==
    /\ verifier.pc = "rewriting" /\ verifier.own \in present
    /\ manifest' = [manifest EXCEPT ![verifier.own] = verifier.answer]
    /\ proven' = IF verifier.answer = "verified" THEN proven \cup {verifier.own} ELSE proven
    /\ verifier' = Resting
    /\ UNCHANGED <<clock, present, files, pointer, run, early>>

\* The process dies, or finds its archive gone.
StopVerifier ==
    /\ verifier.pc # "idle"
    /\ verifier' = Resting
    /\ UNCHANGED <<clock, present, manifest, files, pointer, run, proven, early>>

Decay(a) ==
    /\ a \in present /\ files[a] = "whole"
    /\ files' = [files EXCEPT ![a] = "rotten"]
    /\ UNCHANGED <<clock, present, manifest, pointer, run, verifier, proven, early>>

Next ==
    \/ \E r \in Runs :
          \/ StampArchive(r) \/ RefuseTakenName(r) \/ Publish(r)
          \/ backup_series_adopt_failed_tmp(r)
          \/ TruncatePointer(r) \/ WritePointer(r)
          \/ ListArchives(r) \/ ReadManifest(r) \/ SelectRetained(r)
          \/ RemoveFiles(r) \/ RemoveDirectory(r) \/ Finish(r) \/ Stop(r)
    \/ \E a \in Stamps : CheckArchive(a) \/ Decay(a)
    \/ TruncateManifest \/ WriteVerdict \/ StopVerifier

Spec == Init /\ [][Next]_vars

-----------------------------------------------------------------------------
(* What the series promises.                                               *)

RunState ==
    [pc : {"idle", "staged", "published", "pointing", "pruning", "listing", "deleting"},
     own : Name, unread : SUBSET Stamps, listed : SUBSET Stamps, doomed : SUBSET Stamps]

\* Every directory holds an archive some run stamped, and every process stands
\* at a step of backup.rs.
TypeOK ==
    /\ clock \in 0..MaxTime
    /\ present \subseteq 1..clock
    /\ manifest \in [Stamps -> {"verified", "unverified", "torn", "absent"}]
    /\ files \in [Stamps -> {"whole", "rotten", "gutted"}]
    /\ pointer \in Name \cup {Torn}
    /\ run \in [Runs -> RunState]
    /\ verifier \in [pc : {"idle", "checked", "rewriting"}, own : Name,
                     answer : {"verified", "unverified"}]
    /\ proven \subseteq Stamps /\ early \subseteq Stamps

\* An archive whose deletion began: its files stay gutted once it is gone.
Pruned == {a \in Stamps : files[a] = "gutted"}

Newest(archives) == {a \in archives : \A b \in archives : b <= a}

\* Whatever prunes overlap, and wherever a listing, a pointer or a verdict is
\* stale when it is used, the newest archive that ever verified is still there.
NewestArchiveSurvives == Newest(proven) \subseteq present \ Pruned

Redundant(a, archives, t) ==
    \/ Period(a, t) \in LaterPeriods(archives, a, t)
    \/ t.keep <= Cardinality(LaterPeriods(archives, a, t))

\* An archive is pruned only when it once verified, so a failed cut adopted for
\* diagnosis never is, and when every bucket could spare it: its period has a
\* newer verified archive, or the bucket's whole count of later periods has one
\* each.  A prune that works from an old listing never takes the last archive
\* of a period retention still covers.
PrunedWasRedundant ==
    /\ Pruned \subseteq proven
    /\ \A a \in Pruned, t \in Tiers : Redundant(a, proven, t)

\* The pointer names an archive that verified, and one that is being or has
\* been pruned only if some other run chose it for deletion before its own run
\* had moved the pointer to it.
PointerIsEarned ==
    pointer \in Stamps =>
        /\ pointer \in proven
        /\ pointer \in Pruned \/ pointer \notin present => pointer \in early

=============================================================================
