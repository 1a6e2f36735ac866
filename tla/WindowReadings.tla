--------------------------- MODULE WindowReadings ---------------------------
(***************************************************************************)
(* One Anthropic account read from two sources, and what the ledger        *)
(* concludes from consecutive readings.                                    *)
(*                                                                         *)
(* The endpoint reports every window the provider has.  The status line    *)
(* (src/src/statusline.rs) is free: each Claude Code session renders the   *)
(* figures of its own last response, and the tee appends a line when they  *)
(* moved for that session.  A tick of src/src/cli.rs and                   *)
(* src/src/meter/anthropic.rs takes a fresh line instead of the endpoint,  *)
(* unless the newest full reading is a freshness horizon old.  The reading *)
(* commits, or waits in the spool and is replayed later, out of order.     *)
(* The committing transaction compares it with the observation committed   *)
(* just before it (src/src/store/window_anomaly.rs); the projection shows  *)
(* the newest full reading within a bounded walk                           *)
(* (src/src/store/projection_source.rs).                                   *)
(*                                                                         *)
(* The figures are those of the session window, of a fixed length; of the  *)
(* other windows only their presence matters here.  A unit of the clock is *)
(* a sampling cadence.  The sampling lease keeps two attempts apart        *)
(* (SamplingLease); ordinary ticks are a cadence apart (SamplingSchedule). *)
(***************************************************************************)
EXTENDS Integers, Sequences, FiniteSets

CONSTANTS Sessions,  \* Claude Code sessions of the account
          None,      \* no line, no cached response, no reading
          Length,    \* nominal length of the session window
          Jitter,    \* RESET_TIMESTAMP_JITTER_TOLERANCE_NANOS
          Wobble,    \* how far one reset instant varies between two reports
          Horizon,   \* freshness.meter
          Cap,       \* SUCCESSFUL_OBSERVATION_SCAN_CAP
          Offers,    \* the window sets the provider may have
          Begun,     \* resets of the window open when a behaviour begins
          MaxUsed,   \* bound: quota used
          MaxTime,   \* bound: cadences in one behaviour
          MaxReadings \* bound: readings in one behaviour

\* Windows of the vocabulary: the first two span the account, the third is of
\* one model.
AccountWide == {"session", "weekly_all"}
ModelSpecific == {"weekly_model"}
Windows == AccountWide \cup ModelSpecific

ASSUME BoundsAssumption ==
    /\ MaxUsed \in Nat /\ MaxTime \in Nat \ {0} /\ MaxReadings \in Nat
    /\ Begun \subseteq 2..(1 + Length)
    /\ Offers \subseteq SUBSET Windows /\ \A o \in Offers : "session" \in o
    /\ None \notin [used : Nat, resets : Nat, windows : SUBSET Windows]
    /\ None \notin [attempt : Nat, source : {"line", "endpoint"}, used : Nat,
                     resets : Nat, windows : SUBSET Windows, instant : Nat,
                     was : [used : Nat, resets : Nat, windows : SUBSET Windows],
                     unflagged : BOOLEAN]
ASSUME ResetAssumption ==
    /\ Jitter \in Nat /\ Wobble \in Nat /\ Length \in Nat
    /\ Wobble < Jitter /\ Jitter + Wobble <= Length
ASSUME WalkAssumption == Horizon \in Nat \ {0} /\ Cap \in Nat /\ Cap > Horizon

\* The reset state of a window that has not started.
NotStarted == 0

VARIABLES
    clock,
    provider,  \* the meter: session window's use and reset, windows offered
    cache,     \* session -> the figures of its last response
    last,      \* session -> whether its session-*.last file holds those figures
    line,      \* the last line of the account's record file
    tick,      \* where the sampling tick stands, and whether this cadence had one
    held,      \* the reading in hand, measured and not yet committed
    pending,   \* readings waiting in the spool
    rows,      \* observations, in commit order
    anomalies, \* rows an anomaly, and its exclusion, was recorded at, against the
               \* row before
    changes,   \* window-set changes recorded
    excused    \* history: since the newest full reading, the endpoint was
               \* asked in vain, the ledger could not be asked whether one is
               \* due, or a reading or a request was lost with its process
vars == <<clock, provider, cache, last, line, tick, held, pending, rows,
          anomalies, changes, excused>>
tee == <<cache, last, line>>
ledger == <<pending, rows, anomalies, changes>>

\* The provider (external): use grows within a window, a window ends at its
\* reset, and the next one starts at once, later, or never.
Evolve(p, now) ==
    IF p.resets > now
    THEN [used : p.used..MaxUsed, resets : {p.resets}, windows : Offers]
    ELSE [used : {0}, resets : {NotStarted}, windows : Offers]
           \cup [used : 0..MaxUsed, resets : {now + Length}, windows : Offers]

Init ==
    /\ clock = 1
    /\ provider \in
          [used : {0}, resets : {NotStarted}, windows : Offers]
            \cup [used : 0..MaxUsed, resets : Begun, windows : Offers]
    /\ cache = [s \in Sessions |-> None]
    /\ last = [s \in Sessions |-> FALSE]
    /\ line = None
    /\ tick = [pc |-> "idle", first |-> FALSE, spent |-> FALSE]
    /\ held = None
    /\ pending = {} /\ rows = <<>> /\ anomalies = {} /\ changes = {}
    /\ excused = FALSE

-----------------------------------------------------------------------------
(* What the provider reports.                                              *)

\* Bound: once the last reading is taken, only the spool is still at work.
ReadingsLeft == Len(rows) + Cardinality(pending) < MaxReadings

Tick ==
    /\ clock < MaxTime /\ ReadingsLeft
    /\ clock' = clock + 1
    /\ provider' \in Evolve(provider, clock')
    /\ tick' = [tick EXCEPT !.spent = FALSE]
    /\ UNCHANGED <<tee, held, ledger, excused>>

\* A report of the meter names some of its windows; the reset instant comes with
\* the source's own precision.
Report(p, names, w) ==
    [used |-> p.used, windows |-> names,
     resets |-> IF p.resets = NotStarted THEN NotStarted ELSE p.resets + w]

-----------------------------------------------------------------------------
(* statusline.rs.                                                          *)

\* A response reaches a session, which renders its figures from now on: the
\* reset in whole seconds, and the session window alone, as the payload may
\* leave any other out.
Respond(s) ==
    /\ ReadingsLeft
    /\ cache' = [cache EXCEPT ![s] = Report(provider, {"session"}, 0)]
    /\ last' = [last EXCEPT ![s] = @ /\ cache[s] = cache'[s]]
    /\ UNCHANGED <<clock, provider, line, tick, held, ledger, excused>>

windows_moved_since(s) == ~last[s]

Line(s) == [report |-> cache[s], instant |-> clock, was |-> provider]

\* A render earns a line when the windows moved for the session.  The last
\* value is written after the line.
record(s) ==
    /\ ReadingsLeft /\ cache[s] # None /\ windows_moved_since(s)
    /\ line' = Line(s)
    /\ last' = [last EXCEPT ![s] = TRUE]
    /\ UNCHANGED <<clock, provider, cache, tick, held, ledger, excused>>

\* The tee dies between the two writes, or cannot write the second.
RecordDies(s) ==
    /\ ReadingsLeft /\ cache[s] # None /\ windows_moved_since(s)
    /\ line' = Line(s)
    /\ UNCHANGED <<clock, provider, cache, last, tick, held, ledger, excused>>

-----------------------------------------------------------------------------
(* The projection's reading.                                               *)

\* The newest readings by attempt, at most Cap of them.
visit_newest_observations ==
    {i \in DOMAIN rows :
        Cardinality({j \in DOMAIN rows : rows[j].attempt > rows[i].attempt}) < Cap}

\* Mutant: the newest by commit.
NewestCommit(walk) == {i \in walk : \A j \in walk : j <= i}

Newest(walk) == {i \in walk : \A j \in walk : rows[j].attempt <= rows[i].attempt}

Full(walk) == {i \in walk : rows[i].source = "endpoint"}

\* The row the projection renders: the newest full reading of the walk, and the
\* newest subset when it holds none.
last_successful_observation ==
    IF Full(visit_newest_observations) # {}
    THEN Newest(Full(visit_newest_observations))
    ELSE Newest(visit_newest_observations)

\* Mutant: due only once the horizon has passed.
full_reading_dueLate(now) ==
    \A i \in Newest(Full(visit_newest_observations)) : now - rows[i].instant > Horizon

full_reading_due(now) ==
    \A i \in Newest(Full(visit_newest_observations)) : now - rows[i].instant >= Horizon

-----------------------------------------------------------------------------
(* One tick.                                                               *)

\* sample_command asks the ledger whether a full reading is due.  A ledger that
\* cannot be read keeps the line as the source.
SampleCommand ==
    /\ tick.pc = "idle" /\ ~tick.spent /\ ReadingsLeft
    /\ \E readable \in BOOLEAN :
          /\ tick' = [pc |-> "observing", spent |-> TRUE,
                      first |-> readable /\ full_reading_due(clock)]
          /\ excused' = (excused \/ ~readable)
    /\ UNCHANGED <<clock, provider, tee, held, ledger>>

Fresh == line # None /\ line.instant <= clock /\ clock - line.instant <= 1

\* The reading of the next attempt.
Reading(source, report, instant, was) ==
    [attempt |-> Len(rows) + Cardinality(pending) + 1, source |-> source,
     used |-> report.used, resets |-> report.resets, windows |-> report.windows,
     instant |-> instant, was |-> was, unflagged |-> FALSE]

TakeReading(reading) ==
    /\ held' = reading
    /\ tick' = [tick EXCEPT !.pc = "measured", !.first = FALSE]

\* The line stands for the endpoint while it is fresh, and for an endpoint that
\* was asked first and did not measure.
observe_statusline ==
    /\ tick.pc = "observing" /\ Fresh
    /\ TakeReading(Reading("line", line.report, line.instant, line.was))
    /\ excused' = (excused \/ tick.first)
    /\ UNCHANGED <<clock, provider, tee, ledger>>

observe_endpoint ==
    /\ tick.pc = "observing" /\ (tick.first \/ ~Fresh)
    /\ \E w \in 0..Wobble :
          TakeReading(Reading("endpoint", Report(provider, provider.windows, w), clock, provider))
    /\ excused' = FALSE
    /\ UNCHANGED <<clock, provider, tee, ledger>>

\* Neither source measures: the attempt fails.
EndpointFails ==
    /\ tick.pc = "observing" /\ ~Fresh
    /\ tick' = [tick EXCEPT !.pc = "idle", !.first = FALSE]
    /\ excused' = TRUE
    /\ UNCHANGED <<clock, provider, tee, held, ledger>>

\* The process dies with its reading.
Die ==
    /\ tick.pc # "idle"
    /\ tick' = [tick EXCEPT !.pc = "idle", !.first = FALSE]
    /\ held' = None
    /\ excused' = (excused \/ tick.first \/ held # None)
    /\ UNCHANGED <<clock, provider, tee, ledger>>

-----------------------------------------------------------------------------
(* window_anomaly.rs, within the transaction that inserts an observation.  *)

Distance(a, b) == IF a < b THEN b - a ELSE a - b

reset_changed(old, new) ==
    IF old = NotStarted \/ new = NotStarted
    THEN old # new
    ELSE Distance(old, new) >= Jitter

reset_due(old, now) == old # NotStarted /\ now >= old - Jitter

reset_advanced(old, new) ==
    IF old = NotStarted \/ new = NotStarted THEN old # new ELSE new >= old + Jitter

legitimate_reset(p, c) ==
    /\ reset_changed(p.resets, c.resets)
    /\ reset_due(p.resets, c.instant)
    /\ reset_advanced(p.resets, c.resets)

is_window_start(p, c) ==
    /\ p.resets = NotStarted /\ c.resets # NotStarted
    /\ c.resets <= c.instant + Length + Jitter

\* A decrease without a reset, or a reset that moved unexpectedly.
classify_window_transition(p, c) ==
    IF c.used < p.used
    THEN ~legitimate_reset(p, c)
    ELSE reset_changed(p.resets, c.resets) /\ ~legitimate_reset(p, c) /\ ~is_window_start(p, c)

\* Mutant: the pair is compared in whatever order it was committed.
AnomalousInAnyOrder(p, c) ==
    /\ "session" \in p.windows \cap c.windows
    /\ classify_window_transition(p, c)

\* Plan and tier are always unobserved here, and so always match.
Anomalous(p, c) ==
    /\ "session" \in p.windows \cap c.windows
    /\ p.instant <= c.instant
    /\ classify_window_transition(p, c)

\* Mutant: a subset's silence counts as a disappearance.
SetChangesOfAny(p, c, subset_source) ==
    [kind : {"NewAccountWideWindow"}, window : AccountWide \cap (c.windows \ p.windows)]
      \cup [kind : {"MissingModelSpecificWindow"},
            window : ModelSpecific \cap (p.windows \ c.windows)]

\* A window a subset does not name was not looked for.
SetChanges(p, c, subset_source) ==
    [kind : {"NewAccountWideWindow"}, window : AccountWide \cap (c.windows \ p.windows)]
      \cup [kind : {"MissingModelSpecificWindow"},
            window : IF subset_source THEN {} ELSE ModelSpecific \cap (p.windows \ c.windows)]

\* detect_and_persist compares with the observation committed just before.
Commit(reading, subset_source) ==
    LET n == Len(rows)
    IN  /\ rows' = Append(rows, reading)
        /\ IF n = 0 THEN UNCHANGED <<anomalies, changes>>
           ELSE /\ anomalies' = IF Anomalous(rows[n], reading)
                                THEN anomalies \cup {n + 1} ELSE anomalies
                /\ changes' = changes \cup
                     {[current |-> n + 1, kind |-> ch.kind, window |-> ch.window] :
                         ch \in SetChanges(rows[n], reading, subset_source)}

commit_terminal_result ==
    /\ tick.pc = "measured"
    /\ Commit(held, held.source = "line")
    /\ tick' = [tick EXCEPT !.pc = "idle", !.first = FALSE]
    /\ held' = None
    /\ UNCHANGED <<clock, provider, tee, pending, excused>>

\* The commit failed; the bundle is on disk.
Spool ==
    /\ tick.pc = "measured"
    /\ pending' = pending \cup {held}
    /\ tick' = [tick EXCEPT !.pc = "idle", !.first = FALSE]
    /\ held' = None
    /\ UNCHANGED <<clock, provider, tee, rows, anomalies, changes, excused>>

\* A drain rebuilds the bundle without its subset flag, which only a status
\* line has set (unflagged is history).
Replay ==
    \E b \in pending :
        /\ Commit([b EXCEPT !.unflagged = (b.source = "line")], FALSE)
        /\ pending' = pending \ {b}
        /\ UNCHANGED <<clock, provider, tee, tick, held, excused>>

Next ==
    \/ Tick
    \/ \E s \in Sessions : Respond(s) \/ record(s) \/ RecordDies(s)
    \/ SampleCommand \/ observe_statusline \/ observe_endpoint \/ EndpointFails \/ Die
    \/ commit_terminal_result \/ Spool \/ Replay

Spec == Init /\ [][Next]_vars

-----------------------------------------------------------------------------
(* What the readings promise.                                              *)

Meters == [used : 0..MaxUsed, resets : 0..(MaxTime + Length), windows : Offers]
Reports == [used : 0..MaxUsed, resets : 0..(MaxTime + Length + Wobble), windows : SUBSET Windows]
Readings ==
    [attempt : 1..MaxReadings, source : {"line", "endpoint"}, used : 0..MaxUsed,
     resets : 0..(MaxTime + Length + Wobble), windows : SUBSET Windows,
     instant : 1..MaxTime, was : Meters, unflagged : BOOLEAN]

\* Every variable holds a value of the code's types, and every row the ledger's
\* conclusions name exists and has a row before it.
TypeOK ==
    /\ clock \in 1..MaxTime
    /\ provider \in Meters
    /\ cache \in [Sessions -> Reports \cup {None}]
    /\ last \in [Sessions -> BOOLEAN]
    /\ line \in [report : Reports, instant : 1..MaxTime, was : Meters] \cup {None}
    /\ tick \in [pc : {"idle", "observing", "measured"}, first : BOOLEAN, spent : BOOLEAN]
    /\ held \in Readings \cup {None}
    /\ held = None <=> tick.pc # "measured"
    /\ pending \in SUBSET Readings
    /\ rows \in Seq(Readings)
    /\ anomalies \subseteq 2..Len(rows)
    /\ changes \in SUBSET [current : 2..Len(rows), window : Windows,
                           kind : {"NewAccountWideWindow", "MissingModelSpecificWindow"}]
    /\ excused \in BOOLEAN

\* A reading whose figures were the provider's at the instant it carries.
Honest(r) ==
    /\ r.used = r.was.used
    /\ r.resets = NotStarted <=> r.was.resets = NotStarted
    /\ Distance(r.resets, r.was.resets) <= Wobble

\* A provider that keeps its own rules is never accused: an anomaly, which
\* excludes its interval from calibration, always involves a status line that
\* rendered figures no longer true.  Two honest readings are never an anomaly,
\* in whatever order a spool replays them and whatever windows began and ended
\* between them.
NoInventedAnomaly ==
    \A n \in anomalies : ~Honest(rows[n]) \/ ~Honest(rows[n - 1])

\* A window is recorded as new or missing only when the provider did not have it
\* at the earlier, or the later, of the two readings, with two exceptions: after
\* a status line every window it did not name counts as new, and a status line
\* replayed from the spool makes every model's window it did not name missing.
SetChangeHasACause ==
    \A ch \in changes :
        LET prior == rows[ch.current - 1]  current == rows[ch.current]
        IN  CASE ch.kind = "NewAccountWideWindow" ->
                   prior.source = "line" \/ ch.window \notin prior.was.windows
              [] ch.kind = "MissingModelSpecificWindow" ->
                   \/ current.unflagged
                   \/ ch.window \notin current.was.windows

\* A full reading on the screen is the account's newest, although replays commit
\* older ones after it.
RenderedIsNewest ==
    \A i \in Full(last_successful_observation), j \in Full(DOMAIN rows) :
        rows[j].instant <= rows[i].instant

\* However many fresh lines stand in for the endpoint, they never push the last
\* full reading out of the projection's walk: a subset is rendered only after
\* the endpoint was asked in vain, the ledger could not be asked, a process died
\* with its reading, or while a full reading waits in the spool.
SubsetOnlyAfterOutage ==
    (\E i \in last_successful_observation : rows[i].source = "line")
        => \/ excused
           \/ \E b \in pending : b.source = "endpoint"
           \/ held # None /\ held.source = "endpoint"

=============================================================================
