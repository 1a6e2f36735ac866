-------------------------- MODULE TranscriptIngest --------------------------
(***************************************************************************)
(* Transcript ingestion: src/src/ingest.rs (run, split_into_batches), the  *)
(* transaction of src/src/store/ingest.rs (persist_ingest_batch), the      *)
(* change index of src/src/transcripts/watermark.rs and                    *)
(* src/src/store/transcript_file.rs, and the replay rule of                *)
(* src/src/dedup.rs.                                                       *)
(*                                                                         *)
(* An agent appends usage records to its transcript files, rewrites a file *)
(* in place or replaces it by a rename.  Passes (`aub ingest`, the refresh *)
(* of `aub spend`, the repair of `aub doctor`) run as separate processes   *)
(* with no lock between them: each looks at every file in turn, keeps one  *)
(* canonical event per identity over everything it parsed, and lands the   *)
(* events in several transactions.  A pass may die between any two steps.  *)
(*                                                                         *)
(* A line is a record with a strong identity and an output count, the only *)
(* count a replay changes; sizes and offsets count lines.  The heuristic   *)
(* domain, the trailing partial line, the parser version (one per          *)
(* program) and the session, quarantine and generation rows that ride in   *)
(* the same transactions are left out: no rule below reads them.           *)
(***************************************************************************)
EXTENDS Integers, Sequences, FiniteSets

CONSTANTS Files,           \* the discovered files, in discovery order
          Ids,             \* source-provided event identifiers
          Outputs,         \* output counts a record can state
          Contents,        \* file -> what its agent may leave in it
          Passes,          \* the processes that run a pass
          NoFile,
          MaxBatchEvents,  \* config.ingest.max_batch_events
          MaxBatchFiles,   \* config.ingest.max_batch_files
          MaxEdits         \* bound: changes to the files in one behaviour

FileSet == {Files[i] : i \in 1..Len(Files)}
Line == [id : Ids, out : Outputs]

ASSUME FilesAssumption ==
    /\ Len(Files) \in Nat \ {0}
    /\ \A i, j \in 1..Len(Files) : Files[i] = Files[j] => i = j
    /\ NoFile \notin FileSet
ASSUME ContentsAssumption ==
    /\ Outputs \subseteq Nat \ {0}
    /\ \A f \in FileSet : Contents[f] \subseteq Seq(Line)
ASSUME BoundsAssumption ==
    /\ MaxBatchEvents \in Nat \ {0}
    /\ MaxBatchFiles \in Nat \ {0}
    /\ MaxEdits \in Nat

VARIABLES
    disk,    \* file -> its inode, modification time, lines, and whether this
             \* inode was ever rewritten in place (history)
    index,   \* file -> the transcript_file row: at most one watermark
    owner,   \* id -> the source_file of its usage_occurrence, or NoFile
    count,   \* id -> the output component of its usage_event, 0 without one
    pass,    \* process -> where its pass stands
    lost,    \* history: id -> the largest count taken away and not regained, and
             \* whether a pass took it that had landed the event itself
    cut      \* history: files a pass had begun to land when it died, or that two
             \* passes landed at once, until one replaces their contribution
vars == <<disk, index, owner, count, pass, lost, cut>>

-----------------------------------------------------------------------------
(* The change index.                                                       *)

\* FileState: what a stat of the file shows.
FileState(f) ==
    [size |-> Len(disk[f].lines), mtime |-> disk[f].mtime, ino |-> disk[f].ino]

\* The class of a file's state against its stored watermark.
classify(stored, current) ==
    IF stored = {} THEN "New"
    ELSE LET w == CHOOSE x \in stored : TRUE IN
         IF w.ino # current.ino \/ current.size < w.size THEN "RebuildRequired"
         ELSE IF current.size > w.size THEN "Appended"
         ELSE IF current.mtime = w.mtime THEN "Unchanged"
         ELSE "RebuildRequired"

-----------------------------------------------------------------------------
(* Replays and batches.                                                    *)

\* One occurrence more: a new identity goes to the end; an occurrence with the
\* larger output takes the place, and the source file, of the one kept.
collapse(kept, event) ==
    LET at == {k \in 1..Len(kept) : kept[k].id = event.id}
    IN  IF at = {} THEN Append(kept, event)
        ELSE [k \in 1..Len(kept) |->
                 IF k \in at /\ event.out > kept[k].out THEN event ELSE kept[k]]

\* deduplicate: one event per identity in first-seen order.
deduplicate(events) ==
    LET canonical[n \in 0..Len(events)] ==
            IF n = 0 THEN << >> ELSE collapse(canonical[n - 1], events[n])
    IN  canonical[Len(events)]

\* The event at i would take the batch that began at s past either bound.
Overflows(events, s, i) ==
    LET spanned == {events[j].file : j \in s..(i - 1)}
    IN  \/ i - s >= MaxBatchEvents
        \/ events[i].file \notin spanned /\ Cardinality(spanned) >= MaxBatchFiles

\* split_into_batches: the first event of the batch each event falls in.
BatchStart(events) ==
    LET start[i \in 1..Len(events)] ==
            IF i = 1 \/ Overflows(events, start[i - 1], i) THEN i ELSE start[i - 1]
    IN  start

-----------------------------------------------------------------------------
NoStat == [size |-> 0, mtime |-> 0, ino |-> 0]
Idle == [active |-> FALSE, changed_only |-> FALSE, at |-> 1, stat |-> NoStat,
         events |-> << >>, whole |-> {}, marks |-> {}, next |-> 1]
NotLost == [count |-> 0, undone |-> FALSE]

Scanning(p) == pass[p].active /\ pass[p].at <= Len(Files)
Landing(p) == pass[p].active /\ pass[p].at > Len(Files)

\* What the agents may have left in the files before the first pass.
Texts == {text \in [FileSet -> UNION {Contents[f] : f \in FileSet} \cup {<< >>}] :
              \A f \in FileSet : text[f] \in Contents[f] \cup {<< >>}}

Init ==
    /\ \E text \in Texts :
           disk = [f \in FileSet |->
               [ino |-> 1, mtime |-> 0, lines |-> text[f], rewritten |-> FALSE]]
    /\ index = [f \in FileSet |-> {}]
    /\ owner = [id \in Ids |-> NoFile]
    /\ count = [id \in Ids |-> 0]
    /\ pass = [p \in Passes |-> Idle]
    /\ lost = [id \in Ids |-> NotLost]
    /\ cut = {}

-----------------------------------------------------------------------------
(* The agents that write the files.                                        *)

Edits == LET sum[i \in 0..Len(Files)] ==
                 IF i = 0 THEN 0 ELSE sum[i - 1] + disk[Files[i]].mtime
         IN  sum[Len(Files)]

IsGrowth(old, new) ==
    /\ Len(new) > Len(old)
    /\ SubSeq(new, 1, Len(old)) = old

\* Every edit moves the modification time; only a rename makes a new inode, and
\* its number is one no watermark has seen (a file system may hand a freed number
\* out again: to the index that is a rewrite in place).
Write(f, c, ino, rewritten) ==
    /\ Edits < MaxEdits
    /\ disk' = [disk EXCEPT ![f] = [ino |-> ino, mtime |-> @.mtime + 1,
                                    lines |-> c, rewritten |-> rewritten]]
    /\ UNCHANGED <<index, owner, count, pass, lost, cut>>

AppendLines(f, c) ==
    /\ IsGrowth(disk[f].lines, c)
    /\ Write(f, c, disk[f].ino, disk[f].rewritten)
RewriteInPlace(f, c) ==
    /\ c # disk[f].lines /\ ~IsGrowth(disk[f].lines, c)
    /\ Write(f, c, disk[f].ino, TRUE)
ReplaceByRename(f, c) ==
    /\ c # disk[f].lines
    /\ Write(f, c, disk[f].ino + 1, FALSE)

-----------------------------------------------------------------------------
(* One pass of run.                                                        *)

Start(p, changed_only) ==
    /\ ~pass[p].active
    /\ pass' = [pass EXCEPT ![p] =
                   [Idle EXCEPT !.active = TRUE, !.changed_only = changed_only]]
    /\ UNCHANGED <<disk, index, owner, count, lost, cut>>

File(p) == Files[pass[p].at]
\* The pass turns to the next file; after the last one it deduplicates what it
\* parsed and starts to land it (its mode mattered to the scan only).
NextFile(p, events) ==
    [pass[p] EXCEPT !.at = @ + 1, !.stat = NoStat,
                    !.changed_only = @ /\ pass[p].at < Len(Files),
                    !.events = IF pass[p].at = Len(Files) THEN deduplicate(events) ELSE events]

\* FileState::read, before the contents are opened.
StatFile(p) ==
    /\ Scanning(p) /\ pass[p].stat = NoStat
    /\ pass' = [pass EXCEPT ![p].stat = FileState(File(p))]
    /\ UNCHANGED <<disk, index, owner, count, lost, cut>>

\* A file that cannot be stat or opened is named in the report and the pass
\* goes on without it; neither failure leaves anything behind.
SkipUnreadable(p) ==
    /\ Scanning(p) /\ pass[p].stat = NoStat
    /\ pass' = [pass EXCEPT ![p] = NextFile(p, @.events)]
    /\ UNCHANGED <<disk, index, owner, count, lost, cut>>

Unchanged(p) ==
    pass[p].changed_only /\ classify(index[File(p)], pass[p].stat) = "Unchanged"
Resumes(p) ==
    pass[p].changed_only /\ classify(index[File(p)], pass[p].stat) = "Appended"

SkipUnchanged(p) ==
    /\ Scanning(p) /\ pass[p].stat # NoStat
    /\ Unchanged(p)
    /\ pass' = [pass EXCEPT ![p] = NextFile(p, @.events)]
    /\ UNCHANGED <<disk, index, owner, count, lost, cut>>

\* What a resumed parse stands on: the stored consumed offset, never past the
\* end of the file, and (history) the lines parsed to reach it.
Resumed(p) ==
    IF ~Resumes(p) THEN << >>
    ELSE LET w == CHOOSE x \in index[File(p)] : TRUE
             len == Len(disk[File(p)].lines)
         IN  SubSeq(w.seen, 1, IF w.consumed <= len THEN w.consumed ELSE len)

\* Mutant: the read stops where the stat said the file ends, and the watermark
\* is stamped with a stat taken afterwards.
MarkByLaterStat(f, stat, seen) ==
    LET n == IF stat.size <= Len(seen) THEN stat.size ELSE Len(seen)
    IN  [file |-> f, size |-> Len(disk[f].lines), mtime |-> disk[f].mtime,
         ino |-> disk[f].ino, consumed |-> n, seen |-> SubSeq(seen, 1, n)]

\* The watermark carries the stat taken before the read and the offset the read
\* reached; `seen` is history: the lines that were parsed to reach it.
Mark(f, stat, seen) ==
    [file |-> f, size |-> stat.size, mtime |-> stat.mtime, ino |-> stat.ino,
     consumed |-> Len(seen), seen |-> seen]

\* The stored watermark and the contents are read in one step: the index is no
\* part of the disk, so an edit between the two reads could as well have come
\* before both, and another pass's commit after both.
ReadFile(p) ==
    /\ Scanning(p) /\ pass[p].stat # NoStat
    /\ ~Unchanged(p)
    /\ LET f == File(p)
           slice == SubSeq(disk[f].lines, Len(Resumed(p)) + 1, Len(disk[f].lines))
           new == [i \in 1..Len(slice) |->
                      [id |-> slice[i].id, out |-> slice[i].out, file |-> f]]
       IN  pass' = [pass EXCEPT ![p] =
               [NextFile(p, pass[p].events \o new) EXCEPT
                  !.whole = IF Resumes(p) THEN pass[p].whole ELSE pass[p].whole \cup {f},
                  !.marks = pass[p].marks \cup {Mark(f, pass[p].stat, Resumed(p) \o slice)}]]
    /\ UNCHANGED <<disk, index, owner, count, lost, cut>>

-----------------------------------------------------------------------------
(* persist_ingest_batch: one IMMEDIATE transaction.                        *)

\* The events of the batch that begins or continues at the pass's cursor.
BatchEnd(events, i) ==
    CHOOSE e \in i..Len(events) :
        /\ BatchStart(events)[e] = BatchStart(events)[i]
        /\ e = Len(events) \/ BatchStart(events)[e + 1] = e + 1

\* Mutant: a fresh parse lands beside the contribution it should replace.
ReplacedNone(p, events, i) == {}

\* The files whose old contribution goes with the transaction at index i: at
\* the head of a batch, the replaced files whose first event it carries, and
\* with the last batch those without any event.
Replaced(p, events, i) ==
    {f \in pass[p].whole :
        LET own == {j \in 1..Len(events) : events[j].file = f}
            batch == IF events = << >> THEN {} ELSE i..BatchEnd(events, i)
            head == i = 1 \/ BatchStart(events)[i] = i
        IN  /\ head
            /\ IF own = {}
               THEN events = << >> \/ BatchEnd(events, i) = Len(events)
               ELSE \E j \in own \cap batch : \A k \in own : j <= k}

\* Mutant: the watermarks ride with every transaction.
CarriesMarksFirst(events, last) == TRUE

\* The watermarks ride with the transaction that drains the last batch.
CarriesMarks(events, last) == last = Len(events)

\* transcript_file::upsert: the new watermark takes the place of the stored one.
upsert(stored, new) == IF new = {} THEN stored ELSE new

\* The loop over the batches, and over the transactions of a batch, ends when
\* every canonical event has landed.
Completes(events, last) == last = Len(events)

\* The pass has landed the event in an earlier one of its transactions.
HasLanded(p, id) ==
    \E j \in 1..(pass[p].next - 1) : pass[p].events[j].id = id

\* The files a pass has read, and will state a watermark for.
Opened(p) == {m.file : m \in pass[p].marks}

\* The files of a pass that another one has read too and will add to without
\* replacing the contribution: it resumed them, or it is past their replacement.
Shared(p) ==
    {f \in Opened(p) : \E q \in Passes \ {p} :
        f \in Opened(q) /\ (pass[q].next > 1 \/ f \notin pass[q].whole)}

PersistBatch(p) ==
    /\ Landing(p)
    /\ LET events == pass[p].events
           first == pass[p].next
       IN  \E last \in IF events = << >> THEN {0} ELSE first..BatchEnd(events, first) :
           LET gone == {id \in Ids : owner[id] \in Replaced(p, events, first)}
               here == {events[j].id : j \in first..last}
               event(id) == CHOOSE e \in {events[j] : j \in first..last} : e.id = id
               kept(id) == IF id \in gone THEN 0 ELSE count[id]
               larger(a, b) == IF a >= b THEN a ELSE b
           IN  /\ owner' = [id \in Ids |->
                      IF id \notin gone /\ owner[id] # NoFile THEN owner[id]
                      ELSE IF id \in here THEN event(id).file ELSE NoFile]
               /\ count' = [id \in Ids |->
                      IF id \in here THEN larger(kept(id), event(id).out) ELSE kept(id)]
               /\ index' = [f \in FileSet |->
                      upsert(index[f], {m \in pass[p].marks :
                                           CarriesMarks(events, last) /\ m.file = f})]
               /\ lost' = [id \in Ids |->
                      IF count'[id] >= larger(count[id], lost[id].count) THEN NotLost
                      ELSE [count |-> larger(count[id], lost[id].count),
                            undone |-> \/ lost[id].undone
                                       \/ id \in gone /\ HasLanded(p, id)]]
               /\ cut' = (cut \ Replaced(p, events, first)) \cup
                         (IF Completes(events, last) THEN Shared(p) ELSE {})
               /\ pass' = [pass EXCEPT ![p] =
                      IF Completes(events, last) THEN Idle ELSE [@ EXCEPT !.next = last + 1]]
    /\ UNCHANGED disk

\* The process dies, the writer slot is refused, or a sink reports an error:
\* what is committed stays and nothing else of the pass does.
Fail(p) ==
    /\ pass[p].active
    /\ pass' = [pass EXCEPT ![p] = Idle]
    /\ cut' = IF pass[p].next > 1 THEN cut \cup Opened(p) ELSE cut
    /\ UNCHANGED <<disk, index, owner, count, lost>>

-----------------------------------------------------------------------------
Next ==
    \/ \E f \in FileSet : \E c \in Contents[f] :
          AppendLines(f, c) \/ RewriteInPlace(f, c) \/ ReplaceByRename(f, c)
    \/ \E p \in Passes :
          \/ \E changed_only \in BOOLEAN : Start(p, changed_only)
          \/ StatFile(p) \/ SkipUnreadable(p) \/ SkipUnchanged(p) \/ ReadFile(p)
          \/ PersistBatch(p) \/ Fail(p)

Spec == Init /\ [][Next]_vars

-----------------------------------------------------------------------------
(* Properties.                                                             *)

Count == {0} \cup Outputs
Event == [id : Ids, out : Outputs, file : FileSet]
WatermarkOf(f) ==
    [file : {f}, size : Nat, mtime : Nat, ino : Nat, consumed : Nat, seen : Seq(Line)]

\* Type invariant: an identity has one occurrence and a count exactly when it has
\* one, a file has at most one watermark, and a pass carries only what it read.
TypeOK ==
    /\ \A f \in FileSet :
          /\ disk[f].ino \in Nat /\ disk[f].mtime \in 0..MaxEdits
          /\ disk[f].lines \in Contents[f] \cup {<< >>} /\ disk[f].rewritten \in BOOLEAN
          /\ index[f] \subseteq WatermarkOf(f) /\ Cardinality(index[f]) <= 1
    /\ owner \in [Ids -> FileSet \cup {NoFile}]
    /\ count \in [Ids -> Count]
    /\ \A id \in Ids : owner[id] = NoFile <=> count[id] = 0
    /\ \A p \in Passes :
          /\ pass[p].active \in BOOLEAN /\ pass[p].changed_only \in BOOLEAN
          /\ pass[p].at \in 1..(Len(Files) + 1)
          /\ pass[p].events \in Seq(Event)
          /\ pass[p].whole \subseteq FileSet
          /\ \A m \in pass[p].marks : m \in WatermarkOf(m.file) /\ m.file \in FileSet
          /\ pass[p].next \in Nat \ {0}

\* The watermark of a file that a --changed-only pass would skip now.
Skipped(f) == {w \in index[f] : classify(index[f], FileState(f)) = "Unchanged"}

\* A file the index calls unchanged was read to its end, and what was parsed is
\* what it holds, however its agent's appends fell between the stat and the read
\* and whichever pass's watermark landed last.  What the index cannot see is a
\* rewrite in place that grew the file: it is taken for an append.  The files
\* excepted are more: all whose inode was ever rewritten in place.
SkippedFileWasRead ==
    \A f \in FileSet : \A w \in Skipped(f) :
        /\ w.consumed = Len(disk[f].lines)
        /\ w.seen = disk[f].lines \/ disk[f].rewritten

\* A watermark never claims a line whose event has not landed (ingest.rs: the
\* watermarks ride in the final batch): for every line behind the watermark of a
\* skipped file, the ledger holds its event with at least its output, or held it
\* and a later replacement took it away.
WatermarkNeverAhead ==
    \A f \in FileSet : \A w \in Skipped(f) : \A i \in 1..Len(w.seen) :
        LET line == w.seen[i]
        IN  count[line.id] >= line.out \/ lost[line.id].count >= line.out

\* The ledger holds no stale second opinion of a skipped file (the mode section of
\* ingest.rs): a row that names the file as its source is one of the lines its
\* watermark stands for, unless a pass over the file is landing or died while it
\* was, two passes landed it at once, or the file was rewritten in place.
NoStaleOpinion ==
    \A f \in FileSet : \A w \in Skipped(f) : \A id \in Ids :
        owner[id] = f =>
            \/ \E i \in 1..Len(w.seen) : w.seen[i].id = id
            \/ f \in cut \/ disk[f].rewritten
            \/ \E p \in Passes : Landing(p) /\ pass[p].next > 1 /\ f \in Opened(p)

\* Refuted by the code: the comment of run has "the old contribution is deleted
\* before the fresh rows land", so no pass deletes an event it has landed.  A batch
\* that replaces a file deletes the events the file owned, also those an earlier
\* batch of the same pass landed from another file, which the upsert left to their
\* first owner.
FreshRowsSurvive == \A id \in Ids : ~lost[id].undone

=============================================================================
