------------------------ MODULE WindowReadingsProofs ------------------------
(***************************************************************************)
(* Proofs about WindowReadings, for every window length, jitter, horizon   *)
(* and walk, any number of sessions and readings.                          *)
(*                                                                         *)
(* Anomalies: whatever a reading says, `was` is what the provider's meter  *)
(* stood at at the reading's instant, and any two of those are related by  *)
(* the provider's rules.  A report that is not the meter's own is off by a *)
(* whole window length, so two honest readings differ as the meter did, up *)
(* to the wobble.                                                          *)
(*                                                                         *)
(* The projection: attempts are numbered in the order they are taken, full *)
(* readings carry the instant they are taken at, and after the newest full *)
(* reading at most one status line per cadence is taken until the horizon. *)
(***************************************************************************)
EXTENDS WindowReadings, FiniteSetTheorems, TLAPS

----------------------------------------------------------------------------
(* The meter.                                                              *)

Meter == [used : Nat, resets : Nat, windows : SUBSET Windows]

\* A window that has not started is unused; one that has ends within a length.
Plausible(p, i) ==
    \/ p.resets = NotStarted /\ p.used = 0
    \/ i < p.resets /\ p.resets <= i + Length

\* From p the meter may have come to stand at q at instant j: within the same
\* window use only grows, and a later window ends a length later at least.
Led(p, q, j) ==
    /\ p.resets > j => q.resets = p.resets /\ p.used <= q.used
    /\ (p.resets # NotStarted /\ p.resets <= j) =>
           q.resets = NotStarted \/ p.resets + Length <= q.resets

\* A meter that is looked at twice in one instant stands where it stood.
LEMMA LedReflexive ==
    ASSUME NEW p \in Meter, NEW i \in Nat, Plausible(p, i)
    PROVE  Led(p, p, i)
  BY DEF Led, Plausible, Meter, NotStarted

\* The provider's step keeps to its rules.
LEMMA LedEvolves ==
    ASSUME NEW p \in Meter, NEW q \in Meter, NEW j \in Nat, Plausible(q, j),
           Led(p, q, j), NEW r \in Evolve(q, j + 1)
    PROVE  Led(p, r, j + 1)
  <1>1. /\ p.resets \in Nat /\ p.used \in Nat /\ q.resets \in Nat /\ q.used \in Nat
        /\ Length \in Nat /\ MaxUsed \in Nat
    BY ResetAssumption, BoundsAssumption DEF Meter
  <1>2. CASE q.resets > j + 1
    <2>1. r.resets = q.resets /\ r.used \in q.used..MaxUsed
      BY <1>2 DEF Evolve
    <2> QED BY <1>1, <1>2, <2>1 DEF Led, NotStarted
  <1>3. CASE ~(q.resets > j + 1)
    <2>1. r.resets = NotStarted \/ r.resets = j + 1 + Length
      BY <1>3 DEF Evolve
    <2> QED BY <1>1, <1>3, <2>1 DEF Led, Plausible, NotStarted
  <1> QED BY <1>2, <1>3

\* And leaves it plausible.
LEMMA EvolvePlausible ==
    ASSUME NEW q \in Meter, NEW j \in Nat, Plausible(q, j), NEW r \in Evolve(q, j + 1)
    PROVE  /\ Plausible(r, j + 1) /\ r.used \in 0..MaxUsed /\ r.windows \in Offers
           /\ r \in [used : 0..MaxUsed, resets : 0..(j + 1 + Length), windows : Offers]
  <1>1. /\ q.resets \in Nat /\ q.used \in Nat /\ Length \in Nat /\ Length > 0
        /\ MaxUsed \in Nat
    BY ResetAssumption, BoundsAssumption DEF Meter
  <1>2. CASE q.resets > j + 1
    <2>1. /\ r \in [used : q.used..MaxUsed, resets : {q.resets}, windows : Offers]
      BY <1>2 DEF Evolve
    <2>2. q.resets <= j + Length
      BY <1>1, <1>2 DEF Plausible, NotStarted
    <2> QED BY <1>1, <1>2, <2>1, <2>2 DEF Plausible
  <1>3. CASE ~(q.resets > j + 1)
    <2>1. \/ r \in [used : {0}, resets : {NotStarted}, windows : Offers]
          \/ r \in [used : 0..MaxUsed, resets : {j + 1 + Length}, windows : Offers]
      BY <1>3 DEF Evolve
    <2> QED BY <1>1, <2>1 DEF Plausible, NotStarted
  <1> QED BY <1>2, <1>3

----------------------------------------------------------------------------
(* What a report says of the meter.                                        *)

\* The reset is the meter's, as precise as the source is, or a whole window old.
Traced(r, p) ==
    \/ r = NotStarted \/ p.resets = NotStarted
    \/ p.resets <= r /\ r <= p.resets + Wobble
    \/ r + Length <= p.resets

\* The fields of a reading, in the widest types.
AnyReading ==
    [attempt : Nat, source : {"line", "endpoint"}, used : Nat,
     resets : Nat, windows : SUBSET Windows, instant : Nat,
     was : Meter, unflagged : BOOLEAN]

\* An honest report is off by the wobble at most, and never early.
LEMMA HonestIsPrecise ==
    ASSUME NEW r \in AnyReading, Traced(r.resets, r.was), Honest(r)
    PROVE  /\ r.used = r.was.used
           /\ \/ r.resets = NotStarted /\ r.was.resets = NotStarted
              \/ /\ r.resets # NotStarted /\ r.was.resets # NotStarted
                 /\ r.was.resets <= r.resets /\ r.resets <= r.was.resets + Wobble
  <1>1. r.resets \in Nat /\ r.was.resets \in Nat
    BY DEF AnyReading, Meter
  <1>2. /\ Wobble \in Nat /\ Jitter \in Nat /\ Length \in Nat
        /\ Wobble < Jitter /\ Jitter + Wobble <= Length
    BY ResetAssumption
  <1> QED BY <1>1, <1>2 DEF Honest, Traced, Distance, NotStarted

\* Two honest readings of a meter that kept its rules are no anomaly.
LEMMA HonestPairIsNoAnomaly ==
    ASSUME NEW a \in AnyReading, NEW b \in AnyReading,
           Traced(a.resets, a.was), Traced(b.resets, b.was), Honest(a), Honest(b),
           Plausible(a.was, a.instant), Plausible(b.was, b.instant),
           Led(a.was, b.was, b.instant)
    PROVE  ~classify_window_transition(a, b)
  <1> DEFINE P == a.was.resets
             Q == b.was.resets
  <1>1. /\ P \in Nat /\ Q \in Nat /\ a.was.used \in Nat /\ b.was.used \in Nat
        /\ a.resets \in Nat /\ b.resets \in Nat
        /\ a.instant \in Nat /\ b.instant \in Nat
    BY DEF AnyReading, Meter
  <1>2. /\ Wobble \in Nat /\ Jitter \in Nat /\ Length \in Nat
        /\ Wobble < Jitter /\ Jitter + Wobble <= Length
    BY ResetAssumption
  <1>3. /\ a.used = a.was.used
        /\ \/ a.resets = 0 /\ P = 0
           \/ a.resets # 0 /\ P # 0 /\ P <= a.resets /\ a.resets <= P + Wobble
    BY HonestIsPrecise DEF NotStarted
  <1>4. /\ b.used = b.was.used
        /\ \/ b.resets = 0 /\ Q = 0
           \/ b.resets # 0 /\ Q # 0 /\ Q <= b.resets /\ b.resets <= Q + Wobble
    BY HonestIsPrecise DEF NotStarted
  <1>5. CASE P = 0
    <2>1. a.used = 0 /\ a.resets = 0 /\ ~(b.used < a.used)
      BY <1>1, <1>3, <1>4, <1>5 DEF Plausible, NotStarted
    <2>2. b.resets = 0 \/ b.resets <= b.instant + Length + Jitter
      BY <1>1, <1>2, <1>4 DEF Plausible, NotStarted
    <2> QED BY <2>1, <2>2
            DEF classify_window_transition, is_window_start, reset_changed, NotStarted
  <1>6. CASE P # 0 /\ P > b.instant
    <2>1. Q = P /\ ~(b.used < a.used)
      BY <1>1, <1>3, <1>4, <1>6 DEF Led
    <2>2. a.resets # 0 /\ b.resets # 0 /\ ~(Distance(a.resets, b.resets) >= Jitter)
      BY <1>1, <1>2, <1>3, <1>4, <1>6, <2>1 DEF Distance
    <2>3. ~reset_changed(a.resets, b.resets)
      BY <2>2 DEF reset_changed, NotStarted
    <2> QED BY <2>1, <2>3 DEF classify_window_transition
  <1>7. CASE P # 0 /\ ~(P > b.instant)
    <2>1. Q = 0 \/ P + Length <= Q
      BY <1>1, <1>7 DEF Led, NotStarted
    <2>2. reset_due(a.resets, b.instant)
      BY <1>1, <1>2, <1>3, <1>7 DEF reset_due, NotStarted
    <2>3. b.resets = 0 \/ a.resets + Jitter <= b.resets
      BY <1>1, <1>2, <1>3, <1>4, <1>7, <2>1
    <2>4. reset_changed(a.resets, b.resets) /\ reset_advanced(a.resets, b.resets)
      BY <1>1, <1>2, <1>3, <1>7, <2>3 DEF reset_changed, reset_advanced, Distance, NotStarted
    <2> QED BY <2>2, <2>4 DEF classify_window_transition, legitimate_reset
  <1> QED BY <1>5, <1>6, <1>7

----------------------------------------------------------------------------
(* The inductive invariant.                                                *)

\* Readings stored, in the ledger or in the spool.
Stored == Len(rows) + Cardinality(pending)

Held == IF held = None THEN {} ELSE {held}
Taken == {rows[i] : i \in DOMAIN rows} \cup pending \cup Held

\* Whatever was looked at: the readings, and the line that may become one.
Marks == Taken \cup (IF line = None THEN {} ELSE {line})

Seen(m) ==
    /\ m.instant <= clock
    /\ Plausible(m.was, m.instant)
    /\ Led(m.was, provider, clock)
    /\ m.instant = clock => m.was = provider

\* Marks are true of the meter, each by itself and any two together.
MarksAreTrue ==
    /\ Plausible(provider, clock)
    /\ \A m \in Marks : Seen(m)
    /\ \A m, n \in Marks : m.instant <= n.instant => Led(m.was, n.was, n.instant)

\* A session's figures are the meter's, or those of a window that has ended.
CacheIsTraced ==
    \A s \in Sessions : cache[s] # None =>
        \/ cache[s].resets = NotStarted
        \/ cache[s].resets = provider.resets
        \/ /\ cache[s].resets <= clock
           /\ provider.resets # NotStarted => cache[s].resets + Length <= provider.resets

LineIsTraced == line # None => Traced(line.report.resets, line.was)

ReadingsAreTraced ==
    \A r \in Taken :
        /\ Traced(r.resets, r.was)
        /\ r.source = "endpoint" => r.windows = r.was.windows

\* Attempts are numbered as they are taken, and a number is used once.
AttemptsAreDistinct ==
    /\ \A i, j \in DOMAIN rows : i # j => rows[i].attempt # rows[j].attempt
    /\ \A b \in pending, i \in DOMAIN rows : b.attempt # rows[i].attempt
    /\ \A b, c \in pending : b.attempt = c.attempt => b = c
    /\ \A i \in DOMAIN rows : rows[i].attempt <= Stored
    /\ \A b \in pending : b.attempt <= Stored
    /\ held # None => held.attempt = Stored + 1

RoomIsLeft == tick.pc # "idle" => Stored < MaxReadings

\* Full readings are taken in the order of their instants.
FullInOrder ==
    \A a, b \in Taken :
        (a.source = "endpoint" /\ b.source = "endpoint" /\ a.attempt <= b.attempt)
            => a.instant <= b.instant

\* Attempts made, and the one that may still bring a line without an excuse.
Made == Stored + (IF held = None THEN 0 ELSE 1)
Asking == IF tick.pc = "observing" /\ ~tick.first THEN 1 ELSE 0
Spent == IF tick.spent THEN 1 ELSE 0

\* f is the newest full reading, and what was taken since is one line a cadence,
\* none of them after the horizon.
IsRecent(f) ==
    /\ f.source = "endpoint"
    /\ \A g \in Taken : g.source = "endpoint" => g.attempt <= f.attempt
    /\ Made + Asking <= f.attempt + Horizon
    /\ Made + Asking + f.instant <= f.attempt + clock + Spent

LinesAreFew ==
    \/ excused
    \/ Made = 0 /\ Asking = 0
    \/ \E f \in Taken : IsRecent(f)

TypeInv == TypeOK /\ IsFiniteSet(pending) /\ RoomIsLeft

WindowInv ==
    /\ TypeInv
    /\ MarksAreTrue
    /\ CacheIsTraced
    /\ LineIsTraced
    /\ ReadingsAreTraced
    /\ AttemptsAreDistinct
    /\ FullInOrder
    /\ LinesAreFew
    /\ NoInventedAnomaly
    /\ SetChangeHasACause

----------------------------------------------------------------------------
(* Types.                                                                  *)

\* What the bounds of the model are members of.
LEMMA MetersAreMeter == Meters \subseteq Meter /\ Reports \subseteq Meter
  BY BoundsAssumption, ResetAssumption DEF Meters, Reports, Meter

LEMMA ReadingsAreAny == Readings \subseteq AnyReading
  BY MetersAreMeter, BoundsAssumption, ResetAssumption DEF Readings, AnyReading

\* No reading is the mark for none.
LEMMA ReadingIsNotNone == None \notin Readings /\ None \notin Reports
  <1>1. None \notin AnyReading /\ None \notin Meter
    BY BoundsAssumption DEF AnyReading, Meter
  <1> QED BY <1>1, ReadingsAreAny, MetersAreMeter

\* Counts are naturals.
LEMMA StoredIsNat ==
    ASSUME TypeInv
    PROVE  /\ Stored \in Nat /\ Len(rows) \in Nat /\ Cardinality(pending) \in Nat
           /\ Len(rows) <= Stored /\ DOMAIN rows = 1..Len(rows)
           /\ \A i \in 1..Len(rows) : rows[i] \in Readings
           /\ clock \in Nat
  <1>1. Cardinality(pending) \in Nat
    BY FS_CardinalityType DEF TypeInv
  <1>2. /\ Len(rows) \in Nat /\ DOMAIN rows = 1..Len(rows)
        /\ \A i \in 1..Len(rows) : rows[i] \in Readings
    BY DEF TypeInv, TypeOK
  <1>3. clock \in Nat
    BY BoundsAssumption DEF TypeInv, TypeOK
  <1> QED BY <1>1, <1>2, <1>3 DEF Stored

\* Every reading has a reading's type.
LEMMA TakenAreReadings ==
    ASSUME TypeInv
    PROVE  Taken \subseteq Readings
  BY StoredIsNat DEF Taken, Held, TypeInv, TypeOK

\* A new reading is well formed, and bears the next number.
LEMMA ReadingTyped ==
    ASSUME TypeInv, Stored < MaxReadings, NEW source \in {"line", "endpoint"},
           NEW report \in Reports, NEW instant \in 1..MaxTime, NEW was \in Meters
    PROVE  /\ Reading(source, report, instant, was) \in Readings
           /\ Reading(source, report, instant, was) # None
           /\ Reading(source, report, instant, was) =
                 [attempt |-> Stored + 1, source |-> source, used |-> report.used,
                  resets |-> report.resets, windows |-> report.windows,
                  instant |-> instant, was |-> was, unflagged |-> FALSE]
  <1> DEFINE r == [attempt |-> Stored + 1, source |-> source, used |-> report.used,
                   resets |-> report.resets, windows |-> report.windows,
                   instant |-> instant, was |-> was, unflagged |-> FALSE]
  <1>1. Stored + 1 \in 1..MaxReadings
    BY StoredIsNat, BoundsAssumption
  <1>2. Reading(source, report, instant, was) = r
    BY DEF Reading, Stored
  <1>3. r \in Readings
    BY <1>1 DEF Readings, Reports
  <1> HIDE DEF r
  <1>4. r # None
    BY <1>3, ReadingIsNotNone
  <1> QED BY <1>2, <1>3, <1>4 DEF r

\* A report of the meter is well formed.
LEMMA ReportTyped ==
    ASSUME NEW p \in Meters, NEW names \in SUBSET Windows, NEW w \in 0..Wobble,
           NEW r, r = Report(p, names, w)
    PROVE  /\ r \in Reports /\ r.used = p.used /\ r.windows = names
           /\ r.resets = IF p.resets = NotStarted THEN NotStarted ELSE p.resets + w
  <1>1. p.resets \in 0..(MaxTime + Length) /\ p.used \in 0..MaxUsed
    BY DEF Meters
  <1>2. (IF p.resets = NotStarted THEN NotStarted ELSE p.resets + w)
            \in 0..(MaxTime + Length + Wobble)
    BY <1>1, ResetAssumption, BoundsAssumption DEF NotStarted
  <1> QED BY <1>1, <1>2 DEF Report, Reports

\* What a commit adds to the ledger.
LEMMA CommitTyped ==
    ASSUME TypeInv, NEW reading \in Readings, NEW subset \in BOOLEAN,
           Commit(reading, subset)
    PROVE  /\ rows' \in Seq(Readings) /\ Len(rows') = Len(rows) + 1
           /\ DOMAIN rows' = 1..(Len(rows) + 1)
           /\ rows'[Len(rows) + 1] = reading
           /\ \A i \in 1..Len(rows) : rows'[i] = rows[i]
           /\ anomalies' \subseteq 2..Len(rows')
           /\ changes' \in SUBSET [current : 2..Len(rows'), window : Windows,
                  kind : {"NewAccountWideWindow", "MissingModelSpecificWindow"}]
  <1> DEFINE n == Len(rows)
             New == {[current |-> n + 1, kind |-> ch.kind, window |-> ch.window] :
                         ch \in SetChanges(rows[n], reading, subset)}
             Kinds == {"NewAccountWideWindow", "MissingModelSpecificWindow"}
  <1>1. rows \in Seq(Readings) /\ n \in Nat
    BY DEF TypeInv, TypeOK
  <1>2. rows' = Append(rows, reading)
    BY DEF Commit
  <1>3. /\ rows' \in Seq(Readings) /\ Len(rows') = n + 1 /\ DOMAIN rows' = 1..(n + 1)
        /\ rows'[n + 1] = reading /\ \A i \in 1..n : rows'[i] = rows[i]
    BY <1>1, <1>2
  <1>4. anomalies \subseteq 2..n
        /\ changes \in SUBSET [current : 2..n, window : Windows, kind : Kinds]
    BY DEF TypeInv, TypeOK
  <1>5. anomalies' \subseteq 2..(n + 1)
    <2>1. anomalies \subseteq 2..n /\ n \in Nat
      BY <1>1, <1>4
    <2>2. CASE n = 0
      <3>1. anomalies' = anomalies
        BY <2>2 DEF Commit
      <3> QED BY <2>1, <2>2, <3>1
    <2>3. CASE n # 0
      <3>1. anomalies' = IF Anomalous(rows[n], reading) THEN anomalies \cup {n + 1}
                                                        ELSE anomalies
        BY <2>3 DEF Commit
      <3>2. n + 1 \in 2..(n + 1) /\ 2..n \subseteq 2..(n + 1)
        BY <2>1, <2>3
      <3> QED BY <2>1, <3>1, <3>2
    <2> QED BY <2>2, <2>3
  <1>6. changes \in SUBSET [current : 2..(n + 1), window : Windows, kind : Kinds]
    BY <1>1, <1>4
  <1>7. CASE n = 0
    BY <1>3, <1>5, <1>6, <1>7 DEF Commit
  <1>8. CASE n # 0
    <2>1. \A ch \in SetChanges(rows[n], reading, subset) :
             ch.kind \in Kinds /\ ch.window \in Windows
      BY DEF SetChanges, Windows
    <2>2. n + 1 \in 2..(n + 1)
      BY <1>1, <1>8
    <2>3. New \in SUBSET [current : 2..(n + 1), window : Windows, kind : Kinds]
      BY <2>1, <2>2
    <2>4. changes' = changes \cup New
      BY <1>8 DEF Commit
    <2> HIDE DEF New
    <2> QED BY <1>3, <1>5, <1>6, <2>3, <2>4
  <1> QED BY <1>7, <1>8

\* Every step keeps the types, and leaves room for the reading it promises.
LEMMA TypeStep ==
    ASSUME TypeInv, Plausible(provider, clock), Next
    PROVE  TypeInv'
  <1> USE DEF TypeInv
  <1>1. CASE Tick
    <2>1. /\ clock' = clock + 1 /\ clock < MaxTime /\ provider' \in Evolve(provider, clock')
          /\ tick' = [tick EXCEPT !.spent = FALSE]
          /\ UNCHANGED <<cache, last, line, held, pending, rows, anomalies, changes, excused>>
      BY <1>1 DEF Tick, tee, ledger
    <2>2. clock' \in 1..MaxTime
      BY <2>1, BoundsAssumption DEF TypeOK
    <2>3. provider' \in Meters
      <3>1. provider \in Meter /\ clock \in Nat
        BY MetersAreMeter, BoundsAssumption DEF TypeOK
      <3>2. provider' \in [used : 0..MaxUsed, resets : 0..(clock + 1 + Length),
                           windows : Offers]
        BY <2>1, <3>1, EvolvePlausible
      <3>3. 0..(clock + 1 + Length) \subseteq 0..(MaxTime + Length)
        BY <2>1, <3>1, BoundsAssumption, ResetAssumption
      <3> QED BY <3>2, <3>3 DEF Meters
    <2>4. /\ tick' \in [pc : {"idle", "observing", "measured"}, first : BOOLEAN,
                        spent : BOOLEAN]
          /\ tick'.pc = tick.pc
      BY <2>1 DEF TypeOK
    <2> QED BY <2>1, <2>2, <2>3, <2>4 DEF TypeOK, RoomIsLeft, Stored
  <1>2. ASSUME NEW s \in Sessions, Respond(s)
        PROVE  TypeInv'
    <2>1. /\ cache' = [cache EXCEPT ![s] = Report(provider, {"session"}, 0)]
          /\ last' = [last EXCEPT ![s] = @ /\ cache[s] = cache'[s]]
          /\ UNCHANGED <<clock, provider, line, tick, held, pending, rows, anomalies,
                         changes, excused>>
      BY <1>2 DEF Respond, ledger
    <2>2. Report(provider, {"session"}, 0) \in Reports
      BY ReportTyped, ResetAssumption DEF TypeOK, Windows, AccountWide
    <2>3. cache' \in [Sessions -> Reports \cup {None}]
      BY <2>1, <2>2 DEF TypeOK
    <2>4. last' \in [Sessions -> BOOLEAN]
      <3> DEFINE moved == cache[s] = cache'[s]
      <3>1. last' = [last EXCEPT ![s] = last[s] /\ moved] /\ last \in [Sessions -> BOOLEAN]
        BY <2>1 DEF TypeOK
      <3> HIDE DEF moved
      <3>2. (last[s] /\ moved) \in BOOLEAN
        OBVIOUS
      <3> QED BY <3>1, <3>2, Zenon
    <2> QED BY <2>1, <2>3, <2>4 DEF TypeOK, RoomIsLeft, Stored
  <1>3. ASSUME NEW s \in Sessions, record(s) \/ RecordDies(s)
        PROVE  TypeInv'
    <2>1. /\ cache[s] # None /\ line' = Line(s)
          /\ last' = last \/ last' = [last EXCEPT ![s] = TRUE]
          /\ UNCHANGED <<clock, provider, cache, tick, held, pending, rows, anomalies,
                         changes, excused>>
      BY <1>3 DEF record, RecordDies, ledger
    <2>2. line' \in [report : Reports, instant : 1..MaxTime, was : Meters]
      BY <2>1 DEF TypeOK, Line
    <2>3. last' \in [Sessions -> BOOLEAN]
      BY <2>1 DEF TypeOK
    <2> QED BY <2>1, <2>2, <2>3 DEF TypeOK, RoomIsLeft, Stored
  <1>4. CASE SampleCommand
    <2>1. /\ tick.pc = "idle" /\ ReadingsLeft
          /\ UNCHANGED <<clock, provider, cache, last, line, held, pending, rows,
                         anomalies, changes>>
      BY <1>4 DEF SampleCommand, tee, ledger
    <2>2. PICK readable \in BOOLEAN :
             /\ tick' = [pc |-> "observing", spent |-> TRUE,
                         first |-> readable /\ full_reading_due(clock)]
             /\ excused' = (excused \/ ~readable)
      BY <1>4 DEF SampleCommand
    <2>3. (readable /\ full_reading_due(clock)) \in BOOLEAN /\ excused' \in BOOLEAN
      BY <2>2
    <2>4. tick' \in [pc : {"idle", "observing", "measured"}, first : BOOLEAN,
                     spent : BOOLEAN]
          /\ tick'.pc = "observing"
      <3> DEFINE first == readable /\ full_reading_due(clock)
      <3>1. first \in BOOLEAN /\ tick' = [pc |-> "observing", spent |-> TRUE, first |-> first]
        BY <2>2, <2>3
      <3> HIDE DEF first
      <3> QED BY <3>1
    <2>5. TypeOK'
      BY <2>1, <2>3, <2>4 DEF TypeOK
    <2>6. RoomIsLeft'
      BY <2>1 DEF ReadingsLeft, RoomIsLeft, Stored
    <2> QED BY <2>1, <2>5, <2>6
  <1>5. CASE observe_statusline \/ observe_endpoint
    <2>1. /\ tick.pc = "observing"
          /\ UNCHANGED <<clock, provider, cache, last, line, pending, rows, anomalies,
                         changes>>
          /\ excused' \in BOOLEAN
      BY <1>5 DEF observe_statusline, observe_endpoint, tee, ledger
    <2>2. Stored < MaxReadings
      BY <2>1 DEF RoomIsLeft
    <2>3. tick' = [tick EXCEPT !.pc = "measured", !.first = FALSE]
      BY <1>5 DEF observe_statusline, observe_endpoint, TakeReading
    <2>4. held' \in Readings /\ held' # None
      <3>1. CASE observe_statusline
        <4>1. /\ held' = Reading("line", line.report, line.instant, line.was)
              /\ line # None
          BY <3>1 DEF observe_statusline, TakeReading, Fresh
        <4>2. line.report \in Reports /\ line.instant \in 1..MaxTime /\ line.was \in Meters
          BY <4>1 DEF TypeOK
        <4> DEFINE r == Reading("line", line.report, line.instant, line.was)
        <4>3. r \in Readings /\ r # None
          BY <2>2, <4>2, ReadingTyped
        <4> QED BY <4>1, <4>3
      <3>2. CASE observe_endpoint
        <4>1. PICK w \in 0..Wobble :
                held' = Reading("endpoint", Report(provider, provider.windows, w), clock,
                                provider)
          BY <3>2 DEF observe_endpoint, TakeReading
        <4>2. /\ provider \in Meters /\ clock \in 1..MaxTime
              /\ provider.windows \in SUBSET Windows
          BY BoundsAssumption DEF TypeOK, Meters
        <4>3. Report(provider, provider.windows, w) \in Reports
          BY <4>2, ReportTyped
        <4> DEFINE r == Reading("endpoint", Report(provider, provider.windows, w), clock,
                                provider)
        <4>4. r \in Readings /\ r # None
          BY <2>2, <4>2, <4>3, ReadingTyped
        <4> QED BY <4>1, <4>4
      <3> QED BY <1>5, <3>1, <3>2
    <2>5. /\ tick' \in [pc : {"idle", "observing", "measured"}, first : BOOLEAN,
                        spent : BOOLEAN]
          /\ tick'.pc = "measured"
      BY <2>3 DEF TypeOK
    <2>6. RoomIsLeft'
      BY <2>1, <2>2 DEF RoomIsLeft, Stored
    <2> QED BY <2>1, <2>4, <2>5, <2>6 DEF TypeOK
  <1>6. CASE EndpointFails \/ Die
    <2>1. /\ tick' = [tick EXCEPT !.pc = "idle", !.first = FALSE]
          /\ held' = None /\ excused' \in BOOLEAN
          /\ UNCHANGED <<clock, provider, cache, last, line, pending, rows, anomalies,
                         changes>>
      BY <1>6 DEF EndpointFails, Die, tee, ledger, TypeOK
    <2>2. /\ tick' \in [pc : {"idle", "observing", "measured"}, first : BOOLEAN,
                        spent : BOOLEAN]
          /\ tick'.pc = "idle"
      BY <2>1 DEF TypeOK
    <2> QED BY <2>1, <2>2 DEF TypeOK, RoomIsLeft
  <1>7. CASE commit_terminal_result
    <2>1. /\ tick.pc = "measured" /\ Commit(held, held.source = "line")
          /\ tick' = [tick EXCEPT !.pc = "idle", !.first = FALSE] /\ held' = None
          /\ UNCHANGED <<clock, provider, cache, last, line, pending, excused>>
      BY <1>7 DEF commit_terminal_result, tee
    <2>2. held \in Readings /\ (held.source = "line") \in BOOLEAN
      BY <2>1 DEF TypeOK
    <2>3. /\ rows' \in Seq(Readings) /\ anomalies' \subseteq 2..Len(rows')
          /\ changes' \in SUBSET [current : 2..Len(rows'), window : Windows,
                 kind : {"NewAccountWideWindow", "MissingModelSpecificWindow"}]
      BY <2>1, <2>2, CommitTyped
    <2>4. /\ tick' \in [pc : {"idle", "observing", "measured"}, first : BOOLEAN,
                        spent : BOOLEAN]
          /\ tick'.pc = "idle"
      BY <2>1 DEF TypeOK
    <2> QED BY <2>1, <2>3, <2>4 DEF TypeOK, RoomIsLeft
  <1>8. CASE Spool
    <2>1. /\ tick.pc = "measured" /\ pending' = pending \cup {held}
          /\ tick' = [tick EXCEPT !.pc = "idle", !.first = FALSE] /\ held' = None
          /\ UNCHANGED <<clock, provider, cache, last, line, rows, anomalies, changes,
                         excused>>
      BY <1>8 DEF Spool, tee
    <2>2. held \in Readings
      BY <2>1 DEF TypeOK
    <2>3. pending' \in SUBSET Readings /\ IsFiniteSet(pending')
      BY <2>1, <2>2, FS_AddElement DEF TypeOK
    <2>4. /\ tick' \in [pc : {"idle", "observing", "measured"}, first : BOOLEAN,
                        spent : BOOLEAN]
          /\ tick'.pc = "idle"
      BY <2>1 DEF TypeOK
    <2> QED BY <2>1, <2>3, <2>4 DEF TypeOK, RoomIsLeft
  <1>9. CASE Replay
    <2>1. PICK b \in pending :
             /\ Commit([b EXCEPT !.unflagged = (b.source = "line")], FALSE)
             /\ pending' = pending \ {b}
             /\ UNCHANGED <<clock, provider, cache, last, line, tick, held, excused>>
      BY <1>9 DEF Replay, tee
    <2>2. [b EXCEPT !.unflagged = (b.source = "line")] \in Readings
      <3>1. b \in Readings /\ (b.source = "line") \in BOOLEAN
        BY DEF TypeOK
      <3> DEFINE f == b.source = "line"
      <3> HIDE DEF f
      <3>2. f \in BOOLEAN
        BY <3>1 DEF f
      <3>3. [b EXCEPT !.unflagged = f] \in Readings
        BY <3>1, <3>2 DEF Readings
      <3> QED BY <3>3 DEF f
    <2>3. /\ rows' \in Seq(Readings) /\ anomalies' \subseteq 2..Len(rows')
          /\ Len(rows') = Len(rows) + 1
          /\ changes' \in SUBSET [current : 2..Len(rows'), window : Windows,
                 kind : {"NewAccountWideWindow", "MissingModelSpecificWindow"}]
      BY <2>1, <2>2, CommitTyped
    <2>4. /\ pending' \in SUBSET Readings /\ IsFiniteSet(pending')
          /\ Cardinality(pending') = Cardinality(pending) - 1
      BY <2>1, FS_RemoveElement DEF TypeOK
    <2>5. RoomIsLeft'
      <3>1. Stored' = Stored
        BY <2>3, <2>4, StoredIsNat DEF Stored
      <3> QED BY <2>1, <3>1 DEF RoomIsLeft
    <2> QED BY <2>1, <2>3, <2>4, <2>5 DEF TypeOK
  <1> QED BY <1>1, <1>2, <1>3, <1>4, <1>5, <1>6, <1>7, <1>8, <1>9 DEF Next

----------------------------------------------------------------------------
(* Marks.                                                                  *)

\* The types of marks, spelled out.
LEMMA MarksAreTyped ==
    ASSUME TypeInv
    PROVE  /\ \A m \in Marks : m.was \in Meter /\ m.instant \in Nat
           /\ provider \in Meter /\ clock \in Nat /\ Length \in Nat
  <1>1. \A m \in Taken : m.was \in Meter /\ m.instant \in Nat
    BY TakenAreReadings, ReadingsAreAny DEF AnyReading
  <1>2. line # None => line.was \in Meter /\ line.instant \in Nat
    BY MetersAreMeter DEF TypeInv, TypeOK
  <1>3. provider \in Meter /\ clock \in Nat /\ Length \in Nat
    BY MetersAreMeter, StoredIsNat, ResetAssumption DEF TypeInv, TypeOK
  <1> QED BY <1>1, <1>2, <1>3 DEF Marks

\* While the meter stands, marks that are copied, or made of it now, are true.
LEMMA MarksStep ==
    ASSUME TypeInv, MarksAreTrue, UNCHANGED <<clock, provider>>,
           \A m \in Marks' :
               \/ \E k \in Marks : k.was = m.was /\ k.instant = m.instant
               \/ m.was = provider /\ m.instant = clock
    PROVE  MarksAreTrue'
  <1>1. Led(provider, provider, clock) /\ Plausible(provider, clock)
    BY MarksAreTyped, LedReflexive DEF MarksAreTrue
  <1>2. \A m \in Marks' : Seen(m)
    BY <1>1, MarksAreTyped DEF MarksAreTrue, Seen
  <1>3. ASSUME NEW m \in Marks', NEW n \in Marks', m.instant <= n.instant
        PROVE  Led(m.was, n.was, n.instant)
    <2>1. CASE n.was = provider /\ n.instant = clock
      BY <1>2, <2>1 DEF Seen
    <2>2. CASE \E k \in Marks : k.was = n.was /\ k.instant = n.instant
      <3>1. CASE m.was = provider /\ m.instant = clock
        <4>1. n.instant = clock
          BY <1>2, <1>3, <2>2, <3>1, MarksAreTyped DEF Seen
        <4>2. n.was = provider
          BY <1>2, <4>1 DEF Seen
        <4> QED BY <1>1, <3>1, <4>1, <4>2
      <3>2. CASE \E k \in Marks : k.was = m.was /\ k.instant = m.instant
        BY <1>3, <2>2, <3>2 DEF MarksAreTrue
      <3> QED BY <3>1, <3>2
    <2> QED BY <2>1, <2>2
  <1>4. \A m \in Marks' : Seen(m)'
    BY <1>2 DEF Seen
  <1> QED BY <1>1, <1>3, <1>4 DEF MarksAreTrue

\* The meter moves on, and the marks become the past.
LEMMA MarksTick ==
    ASSUME TypeInv, MarksAreTrue, CacheIsTraced, Tick
    PROVE  MarksAreTrue' /\ CacheIsTraced'
  <1>1. /\ clock' = clock + 1 /\ provider' \in Evolve(provider, clock + 1)
        /\ UNCHANGED <<cache, line, held, pending, rows>>
    BY DEF Tick, tee, ledger
  <1>2. Marks' = Marks
    BY <1>1 DEF Marks, Taken, Held
  <1>3. Plausible(provider, clock)
    BY DEF MarksAreTrue
  <1>4. Plausible(provider', clock')
    BY <1>1, <1>3, MarksAreTyped, EvolvePlausible
  <1>5. ASSUME NEW m \in Marks
        PROVE  Seen(m)'
    <2>1. Seen(m) /\ m.was \in Meter /\ m.instant \in Nat
      BY MarksAreTyped DEF MarksAreTrue
    <2>2. Led(m.was, provider', clock + 1)
      BY <1>1, <1>3, <2>1, MarksAreTyped, LedEvolves DEF Seen
    <2> QED BY <1>1, <2>1, <2>2, MarksAreTyped DEF Seen
  <1>6. CacheIsTraced'
    <2> SUFFICES ASSUME NEW s \in Sessions, cache[s] # None
                 PROVE  \/ cache[s].resets = NotStarted
                        \/ cache[s].resets = provider'.resets
                        \/ /\ cache[s].resets <= clock + 1
                           /\ provider'.resets # NotStarted =>
                                 cache[s].resets + Length <= provider'.resets
      BY <1>1 DEF CacheIsTraced
    <2>1. cache[s].resets \in Nat /\ provider.resets \in Nat /\ clock \in Nat
          /\ Length \in Nat
      <3>1. cache[s] \in Meter
        BY MetersAreMeter DEF TypeInv, TypeOK
      <3> QED BY <3>1, MarksAreTyped DEF Meter
    <2>2. \/ provider'.resets = provider.resets /\ provider.resets > clock + 1
          \/ ~(provider.resets > clock + 1) /\ provider'.resets = NotStarted
          \/ ~(provider.resets > clock + 1) /\ provider'.resets = clock + 1 + Length
      BY <1>1 DEF Evolve
    <2>3. \/ cache[s].resets = NotStarted
          \/ cache[s].resets = provider.resets
          \/ /\ cache[s].resets <= clock
             /\ provider.resets # NotStarted => cache[s].resets + Length <= provider.resets
      BY DEF CacheIsTraced
    <2> QED BY <2>1, <2>2, <2>3 DEF NotStarted
  <1> QED BY <1>1, <1>2, <1>4, <1>5, <1>6 DEF MarksAreTrue

----------------------------------------------------------------------------
(* Readings on the move.                                                   *)

\* The same reading, but for the history of its flag.
Same(x, y) ==
    /\ x.attempt = y.attempt /\ x.source = y.source /\ x.used = y.used
    /\ x.resets = y.resets /\ x.windows = y.windows
    /\ x.instant = y.instant /\ x.was = y.was

\* What holds of each reading, and of two, moves with them.
LEMMA MovesKeepReadings ==
    ASSUME TypeInv, MarksAreTrue, LineIsTraced, ReadingsAreTraced, FullInOrder,
           CacheIsTraced, \A x \in Taken' : \E y \in Taken : Same(x, y),
           UNCHANGED <<clock, provider, line, cache>>
    PROVE  (MarksAreTrue /\ LineIsTraced /\ ReadingsAreTraced /\ FullInOrder
              /\ CacheIsTraced)'
  <1>1. MarksAreTrue'
    <2>1. \A m \in Marks' : \E k \in Marks : k.was = m.was /\ k.instant = m.instant
      BY DEF Marks, Same
    <2> QED BY <2>1, MarksStep
  <1>2. LineIsTraced' /\ CacheIsTraced'
    BY DEF LineIsTraced, CacheIsTraced
  <1>3. ReadingsAreTraced'
    BY DEF ReadingsAreTraced, Same
  <1>4. FullInOrder'
    BY DEF FullInOrder, Same
  <1> QED BY <1>1, <1>2, <1>3, <1>4

\* The newest full reading stays recent while nothing is taken.
LEMMA RecencyStays ==
    ASSUME TypeInv, LinesAreFew, clock' \in Nat,
           \A x \in Taken' : \E y \in Taken : Same(x, y),
           \A y \in Taken : \E x \in Taken' : Same(x, y),
           Made' = Made, Asking' <= Asking, clock + Spent <= clock' + Spent'
    PROVE  excused \/ LinesAreFew'
  <1>0. /\ Made \in Nat /\ Asking \in {0, 1} /\ Asking' \in {0, 1}
        /\ Spent \in {0, 1} /\ Spent' \in {0, 1} /\ clock \in Nat /\ Horizon \in Nat
    BY StoredIsNat, WalkAssumption DEF Made, Asking, Spent
  <1>1. CASE Made = 0 /\ Asking = 0
    <2>1. Made' = 0 /\ Asking' = 0
      BY <1>0, <1>1
    <2> QED BY <2>1 DEF LinesAreFew
  <1>2. ASSUME NEW f \in Taken, IsRecent(f)
        PROVE  LinesAreFew'
    <2>1. PICK g \in Taken' : Same(g, f)
      OBVIOUS
    <2>2. f.attempt \in Nat /\ f.instant \in Nat
      BY TakenAreReadings, ReadingsAreAny DEF AnyReading
    <2>3. /\ Made + Asking <= f.attempt + Horizon
          /\ Made + Asking + f.instant <= f.attempt + clock + Spent
      BY <1>2 DEF IsRecent
    <2>4. /\ Made + Asking' <= f.attempt + Horizon
          /\ Made + Asking' + f.instant <= f.attempt + clock' + Spent'
      <3> DEFINE a == Asking
                 b == Asking'
                 c == clock + Spent
                 d == clock' + Spent'
                 m == Made
                 n == f.attempt
                 i == f.instant
      <3>1. /\ a \in Nat /\ b \in Nat /\ c \in Nat /\ d \in Nat /\ m \in Nat
            /\ n \in Nat /\ i \in Nat /\ b <= a /\ c <= d
        <4>1. a \in Nat /\ b \in Nat
          BY <1>0
        <4>2. c \in Nat
          BY <1>0
        <4>3. d \in Nat
          <5>1. clock' \in Nat /\ Spent' \in Nat
            BY <1>0
          <5>2. \A x, y \in Nat : x + y \in Nat
            OBVIOUS
          <5> QED BY <5>1, <5>2, Zenon
        <4>4. m \in Nat /\ n \in Nat /\ i \in Nat
          BY <1>0, <2>2
        <4>5. b <= a
          OBVIOUS
        <4>6. c <= d
          OBVIOUS
        <4> HIDE DEF a, b, c, d, m, n, i
        <4> QED BY <4>1, <4>2, <4>3, <4>4, <4>5, <4>6
      <3>2. m + a <= n + Horizon /\ m + a + i <= n + c
        BY <1>0, <2>2, <2>3
      <3> SUFFICES m + b <= n + Horizon /\ m + b + i <= n + d
        BY <1>0, <2>2
      <3> HIDE DEF a, b, c, d, m, n, i
      <3> QED BY <3>1, <3>2, WalkAssumption
    <2>5. \A x \in Taken' : x.source = "endpoint" => x.attempt <= g.attempt
      <3> SUFFICES ASSUME NEW x \in Taken', x.source = "endpoint"
                   PROVE  x.attempt <= g.attempt
        OBVIOUS
      <3>1. PICK y \in Taken : Same(x, y)
        OBVIOUS
      <3> QED BY <1>2, <2>1, <3>1 DEF IsRecent, Same
    <2>6. IsRecent(g)'
      BY <1>2, <2>1, <2>4, <2>5 DEF IsRecent, Same
    <2> QED BY <2>6 DEF LinesAreFew
  <1> QED BY <1>1, <1>2 DEF LinesAreFew

\* A step that leaves the readings alone leaves alone what is said of them.
LEMMA QuietStep ==
    ASSUME WindowInv, UNCHANGED <<held, pending, rows, anomalies, changes>>
    PROVE  /\ Taken' = Taken /\ Stored' = Stored /\ Made' = Made
           /\ (ReadingsAreTraced /\ AttemptsAreDistinct /\ FullInOrder)'
           /\ (NoInventedAnomaly /\ SetChangeHasACause)'
  <1>1. Taken' = Taken /\ Stored' = Stored /\ Made' = Made
    BY DEF Taken, Held, Stored, Made
  <1>2. (ReadingsAreTraced /\ FullInOrder)'
    BY <1>1 DEF WindowInv, ReadingsAreTraced, FullInOrder
  <1>3. AttemptsAreDistinct'
    BY <1>1 DEF WindowInv, AttemptsAreDistinct
  <1>4. NoInventedAnomaly'
    BY DEF WindowInv, NoInventedAnomaly
  <1>5. SetChangeHasACause'
    BY DEF WindowInv, SetChangeHasACause
  <1> QED BY <1>1, <1>2, <1>3, <1>4, <1>5

----------------------------------------------------------------------------
(* The steps.                                                              *)

LEMMA InitialWindows ==
    ASSUME Init
    PROVE  WindowInv
  <1>0. /\ MaxTime \in Nat /\ MaxTime >= 1 /\ MaxUsed \in Nat
        /\ Wobble \in Nat /\ Length \in Nat /\ Length > 0
    BY BoundsAssumption, ResetAssumption
  <1>1. rows = <<>> /\ pending = {} /\ held = None /\ line = None
    BY DEF Init
  <1>2. Taken = {} /\ Marks = {} /\ Stored = 0
    BY <1>1, FS_EmptySet DEF Taken, Held, Marks, Stored
  <1>3. provider \in Meters /\ Plausible(provider, 1)
    <2>1. CASE provider \in [used : {0}, resets : {NotStarted}, windows : Offers]
      BY <1>0, <2>1 DEF Meters, Plausible, NotStarted
    <2>2. CASE provider \in [used : 0..MaxUsed, resets : Begun, windows : Offers]
      <3>1. provider.resets \in 2..(1 + Length)
        BY <2>2, BoundsAssumption
      <3>2. provider.resets \in 0..(MaxTime + Length)
        BY <1>0, <3>1
      <3>3. provider \in Meters
        BY <2>2, <3>2 DEF Meters
      <3> QED BY <1>0, <3>1, <3>3 DEF Plausible
    <2> QED BY <2>1, <2>2 DEF Init
  <1>4. TypeInv
    <2>1. /\ clock \in 1..MaxTime /\ excused \in BOOLEAN
          /\ cache \in [Sessions -> Reports \cup {None}]
      <3>1. clock = 1 /\ excused = FALSE /\ cache = [s \in Sessions |-> None]
        BY DEF Init
      <3>2. cache \in [Sessions -> Reports \cup {None}]
        BY <3>1
      <3>3. excused \in BOOLEAN
        BY <3>1, Zenon
      <3>4. clock \in 1..MaxTime
        BY <1>0, <3>1
      <3> QED BY <3>2, <3>3, <3>4
    <2>2. last \in [Sessions -> BOOLEAN]
      BY DEF Init
    <2>3. /\ tick \in [pc : {"idle", "observing", "measured"}, first : BOOLEAN,
                       spent : BOOLEAN]
          /\ tick.pc = "idle"
      BY DEF Init
    <2>4. IsFiniteSet(pending) /\ rows \in Seq(Readings) /\ anomalies = {} /\ changes = {}
      BY <1>1, FS_EmptySet DEF Init
    <2> QED BY <1>1, <1>3, <2>1, <2>2, <2>3, <2>4 DEF TypeInv, TypeOK, RoomIsLeft
  <1>5. MarksAreTrue /\ CacheIsTraced /\ LineIsTraced
    BY <1>1, <1>2, <1>3 DEF Init, MarksAreTrue, CacheIsTraced, LineIsTraced
  <1>6. ReadingsAreTraced /\ AttemptsAreDistinct /\ FullInOrder
    BY <1>1, <1>2 DEF ReadingsAreTraced, AttemptsAreDistinct, FullInOrder
  <1>7. LinesAreFew
    BY <1>1, <1>2 DEF Init, LinesAreFew, Made, Asking
  <1>8. NoInventedAnomaly /\ SetChangeHasACause
    BY DEF Init, NoInventedAnomaly, SetChangeHasACause
  <1> QED BY <1>4, <1>5, <1>6, <1>7, <1>8 DEF WindowInv

\* Quiet steps of the two clocks: nothing is taken, and the excuse stands.
LEMMA QuietKeepsRecency ==
    ASSUME WindowInv, UNCHANGED <<held, pending, rows, anomalies, changes>>,
           clock' \in Nat, clock + Spent <= clock' + Spent', Asking' <= Asking,
           excused' = excused
    PROVE  LinesAreFew'
  <1>1. Taken' = Taken /\ Made' = Made
    BY QuietStep
  <1>2. \A x \in Taken : Same(x, x)
    BY DEF Same
  <1>3. TypeInv /\ LinesAreFew
    BY DEF WindowInv
  <1>4. excused \/ LinesAreFew'
    BY <1>1, <1>2, <1>3, RecencyStays
  <1> QED BY <1>4 DEF LinesAreFew

LEMMA TickStep ==
    ASSUME WindowInv, TypeInv', Tick
    PROVE  WindowInv'
  <1>1. /\ clock' = clock + 1 /\ tick' = [tick EXCEPT !.spent = FALSE]
        /\ UNCHANGED <<cache, last, line, held, pending, rows, anomalies, changes, excused>>
    BY DEF Tick, tee, ledger
  <1>2. MarksAreTrue' /\ CacheIsTraced'
    BY MarksTick DEF WindowInv
  <1>3. LineIsTraced'
    BY <1>1 DEF WindowInv, LineIsTraced
  <1>4. LinesAreFew'
    <2>1. clock \in Nat
      BY StoredIsNat DEF WindowInv
    <2>2. tick'.pc = tick.pc /\ tick'.first = tick.first
      BY <1>1 DEF WindowInv, TypeInv, TypeOK
    <2>3. Asking' = Asking /\ Asking \in Nat
      BY <2>2 DEF Asking
    <2>4. Spent \in {0, 1} /\ Spent' \in {0, 1}
      BY DEF Spent
    <2>5. clock' \in Nat /\ clock + Spent <= clock' + Spent'
      BY <1>1, <2>1, <2>4
    <2>6. Asking' <= Asking
      BY <2>3
    <2> QED BY <1>1, <2>5, <2>6, QuietKeepsRecency
  <1>5. /\ (ReadingsAreTraced /\ AttemptsAreDistinct /\ FullInOrder)'
        /\ (NoInventedAnomaly /\ SetChangeHasACause)'
    BY <1>1, QuietStep
  <1> QED BY <1>2, <1>3, <1>4, <1>5 DEF WindowInv

\* A response brings the meter's figures to a session.
LEMMA RespondStep ==
    ASSUME WindowInv, TypeInv', NEW s \in Sessions, Respond(s)
    PROVE  WindowInv'
  <1>1. /\ cache' = [cache EXCEPT ![s] = Report(provider, {"session"}, 0)]
        /\ UNCHANGED <<clock, provider, line, tick, held, pending, rows, anomalies, changes,
                       excused>>
    BY DEF Respond, ledger
  <1>2. MarksAreTrue'
    <2>1. Marks' = Marks
      BY <1>1 DEF Marks, Taken, Held
    <2> QED BY <1>1, <2>1, MarksStep DEF WindowInv
  <1>3. CacheIsTraced'
    <2>1. Report(provider, {"session"}, 0).resets = provider.resets
      <3>1. provider.resets \in Nat
        BY MarksAreTyped DEF WindowInv, Meter
      <3> QED BY <3>1 DEF Report, NotStarted
    <2>2. cache \in [Sessions -> Reports \cup {None}]
      BY DEF WindowInv, TypeInv, TypeOK
    <2>3. /\ cache'[s] = Report(provider, {"session"}, 0)
          /\ \A t \in Sessions : t # s => cache'[t] = cache[t]
      BY <1>1, <2>2
    <2>4. cache'[s].resets = provider.resets
      BY <2>1, <2>3
    <2>5. CacheIsTraced
      BY DEF WindowInv
    <2> QED BY <1>1, <2>3, <2>4, <2>5 DEF CacheIsTraced
  <1>4. LineIsTraced'
    BY <1>1 DEF WindowInv, LineIsTraced
  <1>5. LinesAreFew'
    <2>1. Asking' = Asking /\ Spent' = Spent /\ Asking \in Nat /\ Spent \in Nat
      BY <1>1 DEF Asking, Spent
    <2>2. clock \in Nat
      BY StoredIsNat DEF WindowInv
    <2>3. clock' \in Nat /\ clock + Spent <= clock' + Spent' /\ Asking' <= Asking
      BY <1>1, <2>1, <2>2
    <2> QED BY <1>1, <2>3, QuietKeepsRecency
  <1>6. /\ (ReadingsAreTraced /\ AttemptsAreDistinct /\ FullInOrder)'
        /\ (NoInventedAnomaly /\ SetChangeHasACause)'
    BY <1>1, QuietStep
  <1> QED BY <1>2, <1>3, <1>4, <1>5, <1>6 DEF WindowInv

\* A line bears the instant it was written at, whatever the figures are.
LEMMA RecordStep ==
    ASSUME WindowInv, TypeInv', NEW s \in Sessions, record(s) \/ RecordDies(s)
    PROVE  WindowInv'
  <1>1. /\ cache[s] # None /\ line' = Line(s)
        /\ UNCHANGED <<clock, provider, cache, tick, held, pending, rows, anomalies, changes,
                       excused>>
    BY DEF record, RecordDies, ledger
  <1>2. line'.was = provider /\ line'.instant = clock /\ line'.report = cache[s]
    BY <1>1 DEF Line
  <1>3. MarksAreTrue'
    <2>1. Taken' = Taken
      BY <1>1 DEF Taken, Held
    <2>2. ASSUME NEW m \in Marks'
          PROVE  \/ \E k \in Marks : k.was = m.was /\ k.instant = m.instant
                 \/ m.was = provider /\ m.instant = clock
      BY <1>2, <2>1 DEF Marks
    <2> QED BY <1>1, <2>2, MarksStep DEF WindowInv
  <1>4. CacheIsTraced'
    BY <1>1 DEF WindowInv, CacheIsTraced
  <1>5. LineIsTraced'
    <2>1. cache[s].resets \in Nat /\ provider.resets \in Nat
      <3>1. cache[s] \in Meter
        BY <1>1, MetersAreMeter DEF WindowInv, TypeInv, TypeOK
      <3> QED BY <3>1, MarksAreTyped DEF WindowInv, Meter
    <2>2. \/ cache[s].resets = NotStarted
          \/ cache[s].resets = provider.resets
          \/ /\ cache[s].resets <= clock
             /\ provider.resets # NotStarted => cache[s].resets + Length <= provider.resets
      BY <1>1 DEF WindowInv, CacheIsTraced
    <2>3. Traced(cache[s].resets, provider)
      BY <2>1, <2>2, ResetAssumption DEF Traced
    <2> QED BY <1>2, <2>3 DEF LineIsTraced
  <1>6. LinesAreFew'
    <2>1. Asking' = Asking /\ Spent' = Spent /\ Asking \in Nat /\ Spent \in Nat
      BY <1>1 DEF Asking, Spent
    <2>2. clock \in Nat
      BY StoredIsNat DEF WindowInv
    <2>3. clock' \in Nat /\ clock + Spent <= clock' + Spent' /\ Asking' <= Asking
      BY <1>1, <2>1, <2>2
    <2> QED BY <1>1, <2>3, QuietKeepsRecency
  <1>7. /\ (ReadingsAreTraced /\ AttemptsAreDistinct /\ FullInOrder)'
        /\ (NoInventedAnomaly /\ SetChangeHasACause)'
    BY <1>1, QuietStep
  <1> QED BY <1>3, <1>4, <1>5, <1>6, <1>7 DEF WindowInv

\* What stands when only the tick moves.
LEMMA OnlyTheTick ==
    ASSUME WindowInv,
           UNCHANGED <<clock, provider, cache, line, held, pending, rows, anomalies, changes>>
    PROVE  (MarksAreTrue /\ CacheIsTraced /\ LineIsTraced)'
  <1>1. Marks' = Marks
    BY DEF Marks, Taken, Held
  <1>2. MarksAreTrue'
    BY <1>1, MarksStep DEF WindowInv
  <1> QED BY <1>2 DEF WindowInv, CacheIsTraced, LineIsTraced

\* A tick that may take a line finds the newest full reading within the horizon.
LEMMA LineIsEarned ==
    ASSUME WindowInv, ~full_reading_due(clock), NEW f \in Taken, IsRecent(f)
    PROVE  clock - f.instant < Horizon
  <1>1. PICK i \in Newest(Full(visit_newest_observations)) :
           ~(clock - rows[i].instant >= Horizon)
    BY DEF full_reading_due
  <1>2. i \in DOMAIN rows /\ rows[i].source = "endpoint"
    BY <1>1 DEF Newest, Full, visit_newest_observations
  <1>3. rows[i] \in Taken
    BY <1>2 DEF Taken
  <1>4. rows[i].instant <= f.instant
    BY <1>2, <1>3 DEF IsRecent, WindowInv, FullInOrder
  <1>5. rows[i].instant \in Nat /\ f.instant \in Nat /\ clock \in Nat
    BY <1>3, TakenAreReadings, ReadingsAreAny, StoredIsNat DEF WindowInv, AnyReading
  <1> QED BY <1>1, <1>4, <1>5, WalkAssumption

\* Without a reading, one is due.
LEMMA FirstReadingIsDue ==
    ASSUME TypeInv, Made = 0
    PROVE  full_reading_due(clock)
  <1>1. Len(rows) = 0
    BY StoredIsNat DEF Made
  <1>2. DOMAIN rows = {}
    BY <1>1, StoredIsNat
  <1> QED BY <1>2 DEF full_reading_due, Newest, Full, visit_newest_observations

LEMMA SampleStep ==
    ASSUME WindowInv, TypeInv', SampleCommand
    PROVE  WindowInv'
  <1>1. /\ tick.pc = "idle" /\ ~tick.spent
        /\ UNCHANGED <<clock, provider, cache, last, line, held, pending, rows, anomalies,
                       changes>>
    BY DEF SampleCommand, tee, ledger
  <1>2. PICK readable \in BOOLEAN :
           /\ tick' = [pc |-> "observing", spent |-> TRUE,
                       first |-> readable /\ full_reading_due(clock)]
           /\ excused' = (excused \/ ~readable)
    BY DEF SampleCommand
  <1>3. /\ tick'.pc = "observing" /\ tick'.spent = TRUE
        /\ tick'.first <=> (readable /\ full_reading_due(clock))
    BY <1>2
  <1>4. TypeInv /\ LinesAreFew
    BY DEF WindowInv
  <1>5. Taken' = Taken /\ Made' = Made
    BY <1>1, QuietStep
  <1>6. Asking = 0 /\ Spent = 0 /\ Spent' = 1
    BY <1>1, <1>3 DEF Asking, Spent
  <1>7. LinesAreFew'
    <2>1. CASE excused \/ ~readable
      BY <1>2, <2>1 DEF LinesAreFew
    <2>2. CASE readable /\ full_reading_due(clock)
      <3>1. Asking' = 0 /\ clock \in Nat
        BY <1>3, <1>4, <2>2, StoredIsNat DEF Asking
      <3>2. \A x \in Taken : Same(x, x)
        BY DEF Same
      <3>3. Asking' <= Asking /\ clock' \in Nat /\ clock + Spent <= clock' + Spent'
        BY <1>1, <1>6, <3>1
      <3>4. excused \/ LinesAreFew'
        BY <1>4, <1>5, <3>2, <3>3, RecencyStays
      <3> QED BY <2>1, <3>4
    <2>3. CASE ~excused /\ readable /\ ~full_reading_due(clock)
      <3>1. Made # 0
        BY <1>4, <2>3, FirstReadingIsDue
      <3>2. PICK f \in Taken : IsRecent(f)
        BY <1>4, <2>3, <3>1 DEF LinesAreFew
      <3>3. clock - f.instant < Horizon
        BY <2>3, <3>2, LineIsEarned
      <3>4. /\ f.attempt \in Nat /\ f.instant \in Nat /\ clock \in Nat /\ Made \in Nat
            /\ Horizon \in Nat
        BY <1>4, TakenAreReadings, ReadingsAreAny, StoredIsNat, WalkAssumption
        DEF AnyReading, Made
      <3>5. Made + f.instant <= f.attempt + clock
        BY <1>6, <3>2, <3>4 DEF IsRecent
      <3>6. Asking' = 1
        BY <1>3, <2>3 DEF Asking
      <3>7. /\ Made' + Asking' <= f.attempt + Horizon
            /\ Made' + Asking' + f.instant <= f.attempt + clock' + Spent'
        BY <1>1, <1>5, <1>6, <3>3, <3>4, <3>5, <3>6
      <3>8. IsRecent(f)'
        BY <1>5, <3>2, <3>7 DEF IsRecent
      <3> QED BY <1>5, <3>8 DEF LinesAreFew
    <2> QED BY <2>1, <2>2, <2>3
  <1>8. /\ (ReadingsAreTraced /\ AttemptsAreDistinct /\ FullInOrder)'
        /\ (NoInventedAnomaly /\ SetChangeHasACause)'
        /\ (MarksAreTrue /\ CacheIsTraced /\ LineIsTraced)'
    BY <1>1, QuietStep, OnlyTheTick
  <1> QED BY <1>7, <1>8 DEF WindowInv

\* An attempt that brings nothing is an excuse, unless it was only to look at the
\* line.
LEMMA FailStep ==
    ASSUME WindowInv, TypeInv', EndpointFails \/ Die
    PROVE  WindowInv'
  <1>1. /\ tick' = [tick EXCEPT !.pc = "idle", !.first = FALSE] /\ held' = None
        /\ UNCHANGED <<clock, provider, cache, last, line, pending, rows, anomalies, changes>>
    BY DEF EndpointFails, Die, tee, ledger, WindowInv, TypeInv, TypeOK
  <1>2. excused' = TRUE \/ (excused' = excused /\ held = None)
    BY DEF EndpointFails, Die, WindowInv, TypeInv, TypeOK
  <1>3. CASE held = None
    <2>1. UNCHANGED <<held, pending, rows, anomalies, changes>>
      BY <1>1, <1>3
    <2>2. LinesAreFew'
      <3>1. CASE excused' = TRUE
        BY <3>1 DEF LinesAreFew
      <3>2. CASE excused' = excused
        <4>1. tick'.pc = "idle" /\ tick'.spent = tick.spent /\ clock \in Nat
          BY <1>1, StoredIsNat DEF WindowInv, TypeInv, TypeOK
        <4>2. Asking' = 0 /\ Asking \in Nat /\ Spent' = Spent /\ Spent \in Nat
          BY <4>1 DEF Asking, Spent
        <4>3. Asking' <= Asking /\ clock' \in Nat /\ clock + Spent <= clock' + Spent'
          BY <1>1, <4>1, <4>2
        <4> QED BY <2>1, <3>2, <4>3, QuietKeepsRecency
      <3> QED BY <1>2, <3>1, <3>2
    <2>3. /\ (ReadingsAreTraced /\ AttemptsAreDistinct /\ FullInOrder)'
          /\ (NoInventedAnomaly /\ SetChangeHasACause)'
          /\ (MarksAreTrue /\ CacheIsTraced /\ LineIsTraced)'
      BY <1>1, <2>1, QuietStep, OnlyTheTick
    <2> QED BY <2>2, <2>3 DEF WindowInv
  <1>4. CASE held # None
    <2>1. LinesAreFew'
      BY <1>2, <1>4 DEF LinesAreFew
    <2>2. Taken' \subseteq Taken
      BY <1>1 DEF Taken, Held
    <2>3. \A x \in Taken : Same(x, x)
      BY DEF Same
    <2>4. (MarksAreTrue /\ LineIsTraced /\ ReadingsAreTraced /\ FullInOrder
             /\ CacheIsTraced)'
      BY <1>1, <2>2, <2>3, MovesKeepReadings DEF WindowInv
    <2>5. AttemptsAreDistinct'
      <3>1. Stored' = Stored
        BY <1>1 DEF Stored
      <3> QED BY <1>1, <3>1 DEF WindowInv, AttemptsAreDistinct
    <2>6. (NoInventedAnomaly /\ SetChangeHasACause)'
      BY <1>1 DEF WindowInv, NoInventedAnomaly, SetChangeHasACause
    <2> QED BY <2>1, <2>4, <2>5, <2>6 DEF WindowInv
  <1> QED BY <1>3, <1>4

\* A reading is taken: it bears the next number, and is true of a mark.
LEMMA TakeKeeps ==
    ASSUME WindowInv, TypeInv', held = None, held' # None, held'.attempt = Stored + 1,
           UNCHANGED <<clock, provider, cache, line, pending, rows, anomalies, changes>>,
           \/ \E m \in Marks : m.was = held'.was /\ m.instant = held'.instant
           \/ held'.was = provider /\ held'.instant = clock,
           Traced(held'.resets, held'.was),
           held'.source = "endpoint" =>
               held'.instant = clock /\ held'.windows = held'.was.windows
    PROVE  /\ Taken' = Taken \cup {held'} /\ Made = Stored /\ Made' = Stored + 1
           /\ \A x \in Taken : x.attempt <= Stored
           /\ (MarksAreTrue /\ CacheIsTraced /\ LineIsTraced /\ ReadingsAreTraced)'
           /\ (AttemptsAreDistinct /\ FullInOrder /\ NoInventedAnomaly /\ SetChangeHasACause)'
  <1>0. TypeInv /\ Stored \in Nat /\ clock \in Nat
    BY StoredIsNat DEF WindowInv
  <1>1. Stored' = Stored /\ Made = Stored /\ Made' = Stored + 1
    BY <1>0 DEF Stored, Made
  <1>2. Taken' = Taken \cup {held'}
    BY DEF Taken, Held
  <1>3. \A x \in Taken : x.attempt <= Stored
    BY DEF Taken, Held, WindowInv, AttemptsAreDistinct
  <1>4. MarksAreTrue'
    <2>1. ASSUME NEW m \in Marks'
          PROVE  \/ \E k \in Marks : k.was = m.was /\ k.instant = m.instant
                 \/ m.was = provider /\ m.instant = clock
      BY <1>2 DEF Marks
    <2> QED BY <1>0, <2>1, MarksStep DEF WindowInv
  <1>5. CacheIsTraced' /\ LineIsTraced'
    BY DEF WindowInv, CacheIsTraced, LineIsTraced
  <1>6. ReadingsAreTraced'
    BY <1>2 DEF WindowInv, ReadingsAreTraced
  <1>7. AttemptsAreDistinct'
    BY <1>1 DEF WindowInv, AttemptsAreDistinct
  <1>8. FullInOrder'
    <2> SUFFICES ASSUME NEW a \in Taken', NEW b \in Taken', a.source = "endpoint",
                        b.source = "endpoint", a.attempt <= b.attempt
                 PROVE  a.instant <= b.instant
      BY DEF FullInOrder
    <2>0. \A x \in Taken : x.attempt \in Nat /\ x.instant \in Nat /\ x.instant <= clock
      <3>1. \A x \in Taken : x.instant <= clock
        BY DEF WindowInv, MarksAreTrue, Marks, Seen
      <3> QED BY <1>0, <3>1, TakenAreReadings, ReadingsAreAny DEF AnyReading
    <2>1. CASE a \in Taken /\ b \in Taken
      BY <2>1 DEF WindowInv, FullInOrder
    <2>2. CASE a = held' /\ b \in Taken
      <3>1. Stored + 1 <= b.attempt /\ b.attempt <= Stored /\ b.attempt \in Nat
        BY <1>3, <2>0, <2>2
      <3> QED BY <1>0, <3>1
    <2>3. CASE b = held' /\ a \in Taken
      BY <2>0, <2>3
    <2>4. CASE a = held' /\ b = held'
      BY <1>0, <2>4
    <2> QED BY <1>2, <2>1, <2>2, <2>3, <2>4
  <1>9. (NoInventedAnomaly /\ SetChangeHasACause)'
    BY DEF WindowInv, NoInventedAnomaly, SetChangeHasACause
  <1> QED BY <1>1, <1>2, <1>3, <1>4, <1>5, <1>6, <1>7, <1>8, <1>9

LEMMA LineStep ==
    ASSUME WindowInv, TypeInv', observe_statusline
    PROVE  WindowInv'
  <1>1. /\ tick.pc = "observing" /\ line # None
        /\ held' = Reading("line", line.report, line.instant, line.was)
        /\ tick' = [tick EXCEPT !.pc = "measured", !.first = FALSE]
        /\ excused' = (excused \/ tick.first)
        /\ UNCHANGED <<clock, provider, cache, last, line, pending, rows, anomalies, changes>>
    BY DEF observe_statusline, TakeReading, Fresh, tee, ledger
  <1>2. TypeInv /\ held = None /\ Stored < MaxReadings
    BY <1>1 DEF WindowInv, TypeInv, TypeOK, RoomIsLeft
  <1>3. line.report \in Reports /\ line.instant \in 1..MaxTime /\ line.was \in Meters
    BY <1>1, <1>2 DEF TypeInv, TypeOK
  <1>4. /\ held' # None /\ held'.attempt = Stored + 1 /\ held'.source = "line"
        /\ held'.resets = line.report.resets /\ held'.instant = line.instant
        /\ held'.was = line.was
    <2> DEFINE r == Reading("line", line.report, line.instant, line.was)
    <2>1. /\ r # None
          /\ r = [attempt |-> Stored + 1, source |-> "line", used |-> line.report.used,
                  resets |-> line.report.resets, windows |-> line.report.windows,
                  instant |-> line.instant, was |-> line.was, unflagged |-> FALSE]
      BY <1>2, <1>3, ReadingTyped
    <2>2. held' = r
      BY <1>1
    <2> HIDE DEF r
    <2> QED BY <2>1, <2>2
  <1>5. line \in Marks /\ Traced(held'.resets, held'.was)
    BY <1>1, <1>4 DEF Marks, WindowInv, LineIsTraced
  <1>6. /\ Taken' = Taken \cup {held'} /\ Made = Stored /\ Made' = Stored + 1
        /\ (MarksAreTrue /\ CacheIsTraced /\ LineIsTraced /\ ReadingsAreTraced)'
        /\ (AttemptsAreDistinct /\ FullInOrder /\ NoInventedAnomaly /\ SetChangeHasACause)'
    BY <1>1, <1>2, <1>4, <1>5, TakeKeeps
  <1>7. LinesAreFew'
    <2>1. CASE excused \/ tick.first
      BY <1>1, <2>1 DEF LinesAreFew
    <2>2. CASE ~(excused \/ tick.first)
      <3>1. Asking = 1
        BY <1>1, <2>2 DEF Asking
      <3>2. PICK f \in Taken : IsRecent(f)
        BY <2>2, <3>1 DEF WindowInv, LinesAreFew
      <3>3. tick'.pc = "measured" /\ tick'.spent = tick.spent
        BY <1>1, <1>2 DEF TypeInv, TypeOK
      <3>4. Asking' = 0 /\ Spent' = Spent
        BY <3>3 DEF Asking, Spent
      <3>5. Stored \in Nat
        BY <1>2, StoredIsNat
      <3>6. Made' + Asking' = Made + Asking
        BY <1>6, <3>1, <3>4, <3>5
      <3>7. IsRecent(f)'
        BY <1>1, <1>4, <1>6, <3>2, <3>4, <3>6 DEF IsRecent
      <3> QED BY <1>6, <3>7 DEF LinesAreFew
    <2> QED BY <2>1, <2>2
  <1> QED BY <1>6, <1>7 DEF WindowInv

LEMMA EndpointStep ==
    ASSUME WindowInv, TypeInv', observe_endpoint
    PROVE  WindowInv'
  <1>1. /\ tick.pc = "observing"
        /\ tick' = [tick EXCEPT !.pc = "measured", !.first = FALSE]
        /\ UNCHANGED <<clock, provider, cache, last, line, pending, rows, anomalies, changes>>
    BY DEF observe_endpoint, TakeReading, tee, ledger
  <1>2. PICK w \in 0..Wobble :
           held' = Reading("endpoint", Report(provider, provider.windows, w), clock, provider)
    BY DEF observe_endpoint, TakeReading
  <1>3. TypeInv /\ held = None /\ Stored < MaxReadings
    BY <1>1 DEF WindowInv, TypeInv, TypeOK, RoomIsLeft
  <1>4. /\ provider \in Meters /\ clock \in 1..MaxTime
        /\ provider.windows \in SUBSET Windows /\ provider.resets \in Nat
    BY <1>3, BoundsAssumption, ResetAssumption DEF TypeInv, TypeOK, Meters
  <1> DEFINE report == Report(provider, provider.windows, w)
  <1>5. /\ report \in Reports /\ report.windows = provider.windows
        /\ report.resets = IF provider.resets = NotStarted
                           THEN NotStarted ELSE provider.resets + w
    BY <1>4, ReportTyped
  <1>6. held' = Reading("endpoint", report, clock, provider)
    BY <1>2
  <1> HIDE DEF report
  <1>7. /\ held' # None /\ held'.attempt = Stored + 1 /\ held'.source = "endpoint"
        /\ held'.resets = report.resets /\ held'.instant = clock /\ held'.was = provider
        /\ held'.windows = provider.windows
    <2> DEFINE r == Reading("endpoint", report, clock, provider)
    <2>1. /\ r # None
          /\ r = [attempt |-> Stored + 1, source |-> "endpoint", used |-> report.used,
                  resets |-> report.resets, windows |-> report.windows,
                  instant |-> clock, was |-> provider, unflagged |-> FALSE]
      BY <1>3, <1>4, <1>5, ReadingTyped
    <2>2. held' = r
      BY <1>6
    <2> HIDE DEF r
    <2> QED BY <1>5, <2>1, <2>2
  <1>8. Traced(held'.resets, held'.was)
    BY <1>4, <1>5, <1>7, ResetAssumption DEF Traced, NotStarted
  <1>9. /\ Taken' = Taken \cup {held'} /\ Made' = Stored + 1
        /\ \A x \in Taken : x.attempt <= Stored
        /\ (MarksAreTrue /\ CacheIsTraced /\ LineIsTraced /\ ReadingsAreTraced)'
        /\ (AttemptsAreDistinct /\ FullInOrder /\ NoInventedAnomaly /\ SetChangeHasACause)'
    BY <1>1, <1>3, <1>7, <1>8, TakeKeeps
  <1>10. LinesAreFew'
    <2>1. tick'.pc = "measured"
      BY <1>1, <1>3 DEF TypeInv, TypeOK
    <2>2. Asking' = 0 /\ Spent' \in Nat
      BY <2>1 DEF Asking, Spent
    <2>3. Stored \in Nat /\ clock \in Nat /\ Horizon \in Nat
      BY <1>3, StoredIsNat, WalkAssumption
    <2>4. /\ Made' + Asking' <= held'.attempt + Horizon
          /\ Made' + Asking' + held'.instant <= held'.attempt + clock' + Spent'
      BY <1>1, <1>7, <1>9, <2>2, <2>3
    <2>5. \A g \in Taken' : g.attempt <= held'.attempt
      <3>1. \A g \in Taken : g.attempt \in Nat
        BY <1>3, TakenAreReadings, ReadingsAreAny DEF AnyReading
      <3> QED BY <1>7, <1>9, <2>3, <3>1
    <2>6. IsRecent(held)'
      BY <1>7, <2>4, <2>5 DEF IsRecent
    <2> QED BY <1>9, <2>6 DEF LinesAreFew
  <1> QED BY <1>9, <1>10 DEF WindowInv

\* The ledger compares the committed reading with the row before it.
LEMMA CommitConcludes ==
    ASSUME WindowInv, NEW reading \in Readings, NEW subset \in BOOLEAN,
           Commit(reading, subset), NEW y \in Taken, Same(reading, y),
           reading.source = "line" => subset \/ reading.unflagged
    PROVE  (NoInventedAnomaly /\ SetChangeHasACause)'
  <1> DEFINE n == Len(rows)
  <1>0. /\ TypeInv /\ n \in Nat /\ DOMAIN rows = 1..n /\ n = Len(rows)
        /\ \A i \in 1..n : rows[i] \in Readings /\ rows[i] \in Taken
    BY StoredIsNat DEF WindowInv, Taken
  <1>1. /\ rows'[n + 1] = reading /\ \A i \in 1..n : rows'[i] = rows[i]
    BY <1>0, CommitTyped
  <1>2. n = 0 => anomalies' = anomalies /\ changes' = changes
    BY DEF Commit
  <1>3. n # 0 => anomalies' \subseteq anomalies \cup {n + 1}
    BY DEF Commit
  <1>4. (n # 0 /\ ~Anomalous(rows[n], reading)) => anomalies' = anomalies
    BY DEF Commit
  <1>5. n # 0 => changes' = changes \cup
          {[current |-> n + 1, kind |-> ch.kind, window |-> ch.window] :
              ch \in SetChanges(rows[n], reading, subset)}
    BY DEF Commit
  <1> HIDE DEF n
  <1>6. anomalies \subseteq 2..n
    BY <1>0 DEF TypeInv, TypeOK
  <1>7. \A ch \in changes : ch.current \in 2..n
    BY <1>0 DEF TypeInv, TypeOK
  <1>8. NoInventedAnomaly'
    <2>1. ASSUME NEW k \in anomalies
          PROVE  ~Honest(rows'[k]) \/ ~Honest(rows'[k - 1])
      <3>1. k \in 1..n /\ k - 1 \in 1..n
        BY <1>0, <1>6
      <3> QED BY <1>1, <3>1 DEF WindowInv, NoInventedAnomaly
    <2>2. ASSUME n # 0, Anomalous(rows[n], reading)
          PROVE  ~Honest(reading) \/ ~Honest(rows[n])
      <3> DEFINE a == rows[n]
      <3>1. a \in Readings /\ a \in Taken
        BY <1>0, <2>2
      <3>2. a \in AnyReading /\ reading \in AnyReading
        BY <3>1, ReadingsAreAny
      <3>3. Traced(a.resets, a.was) /\ Traced(reading.resets, reading.was)
        BY <3>1 DEF WindowInv, ReadingsAreTraced, Same
      <3>4. a \in Marks /\ y \in Marks
        BY <3>1 DEF Marks
      <3>5. Plausible(a.was, a.instant) /\ Plausible(reading.was, reading.instant)
        BY <3>4 DEF WindowInv, MarksAreTrue, Seen, Same
      <3>6. a.instant <= reading.instant /\ classify_window_transition(a, reading)
        BY <2>2 DEF Anomalous
      <3>7. Led(a.was, reading.was, reading.instant)
        BY <3>4, <3>6 DEF WindowInv, MarksAreTrue, Same
      <3> HIDE DEF a
      <3>8. ~(Honest(a) /\ Honest(reading))
        BY <3>2, <3>3, <3>5, <3>6, <3>7, HonestPairIsNoAnomaly
      <3> QED BY <3>8 DEF a
    <2>3. ASSUME NEW k \in anomalies', k \notin anomalies
          PROVE  ~Honest(rows'[k]) \/ ~Honest(rows'[k - 1])
      <3>1. n # 0 /\ k = n + 1 /\ Anomalous(rows[n], reading)
        BY <1>2, <1>3, <1>4, <2>3
      <3>2. n \in 1..n /\ k - 1 = n
        BY <1>0, <3>1
      <3> QED BY <1>1, <2>2, <3>1, <3>2
    <2> QED BY <2>1, <2>3 DEF NoInventedAnomaly
  <1>9. SetChangeHasACause'
    <2> DEFINE Cause(ch, prior, current) ==
                 CASE ch.kind = "NewAccountWideWindow" ->
                        prior.source = "line" \/ ch.window \notin prior.was.windows
                   [] ch.kind = "MissingModelSpecificWindow" ->
                        \/ current.unflagged
                        \/ ch.window \notin current.was.windows
    <2>1. ASSUME NEW ch \in changes
          PROVE  Cause(ch, rows'[ch.current - 1], rows'[ch.current])
      <3>1. ch.current \in 1..n /\ ch.current - 1 \in 1..n
        BY <1>0, <1>7
      <3>2. Cause(ch, rows[ch.current - 1], rows[ch.current])
        BY DEF WindowInv, SetChangeHasACause
      <3> HIDE DEF Cause
      <3> QED BY <1>1, <3>1, <3>2
    <2>2. ASSUME n # 0, NEW ch \in SetChanges(rows[n], reading, subset)
          PROVE  Cause(ch, rows[n], reading)
      <3>1. rows[n] \in Readings /\ rows[n] \in Taken
        BY <1>0, <2>2
      <3>2. /\ rows[n].source \in {"line", "endpoint"} /\ reading.source \in {"line", "endpoint"}
        BY <3>1 DEF Readings
      <3>3. /\ rows[n].source = "endpoint" => rows[n].windows = rows[n].was.windows
            /\ reading.source = "endpoint" => reading.windows = reading.was.windows
        BY <3>1 DEF WindowInv, ReadingsAreTraced, Same
      <3>4. \/ /\ ch.kind = "NewAccountWideWindow"
               /\ ch.window \notin rows[n].windows
            \/ /\ ch.kind = "MissingModelSpecificWindow"
               /\ ~subset /\ ch.window \notin reading.windows
        BY <2>2 DEF SetChanges
      <3>5. CASE ch.kind = "NewAccountWideWindow"
        BY <3>2, <3>3, <3>4, <3>5
      <3>6. CASE ch.kind = "MissingModelSpecificWindow"
        BY <3>2, <3>3, <3>4, <3>6
      <3> QED BY <3>4, <3>5, <3>6
    <2>3. ASSUME NEW ch \in changes', ch \notin changes
          PROVE  Cause(ch, rows'[ch.current - 1], rows'[ch.current])
      <3>1. n # 0
        BY <1>2, <2>3
      <3>2. PICK c \in SetChanges(rows[n], reading, subset) :
               ch = [current |-> n + 1, kind |-> c.kind, window |-> c.window]
        BY <1>5, <2>3, <3>1
      <3>3. ch.current = n + 1 /\ ch.kind = c.kind /\ ch.window = c.window
        BY <3>2
      <3>4. ch.current - 1 = n /\ n \in 1..n
        BY <1>0, <3>1, <3>3
      <3>5. rows'[ch.current - 1] = rows[n] /\ rows'[ch.current] = reading
        BY <1>1, <3>3, <3>4
      <3>6. Cause(c, rows[n], reading)
        BY <2>2, <3>1
      <3>7. Cause(ch, rows[n], reading)
        BY <3>3, <3>6
      <3> HIDE DEF Cause
      <3> QED BY <3>5, <3>7
    <2>4. \A ch \in changes' : Cause(ch, rows'[ch.current - 1], rows'[ch.current])
      BY <2>1, <2>3
    <2> QED BY <2>4 DEF SetChangeHasACause
  <1> QED BY <1>8, <1>9

\* A reading that only moves keeps what is known of readings.
LEMMA MoveKeeps ==
    ASSUME WindowInv, \A x \in Taken' : \E z \in Taken : Same(x, z),
           \A z \in Taken : \E x \in Taken' : Same(x, z), Made' = Made,
           UNCHANGED <<clock, provider, cache, line, excused>>,
           tick.pc = "measured" \/ tick' = tick, tick'.pc = "idle" \/ tick' = tick,
           tick'.spent = tick.spent
    PROVE  /\ (MarksAreTrue /\ CacheIsTraced /\ LineIsTraced /\ ReadingsAreTraced)'
           /\ (FullInOrder /\ LinesAreFew)'
  <1>1. (MarksAreTrue /\ LineIsTraced /\ ReadingsAreTraced /\ FullInOrder /\ CacheIsTraced)'
    BY MovesKeepReadings DEF WindowInv
  <1>2. Asking' = Asking /\ Asking \in Nat /\ Spent' = Spent /\ Spent \in Nat
    BY DEF Asking, Spent
  <1>3. clock \in Nat /\ TypeInv /\ LinesAreFew
    BY StoredIsNat DEF WindowInv
  <1>4. Asking' <= Asking /\ clock' \in Nat /\ clock + Spent <= clock' + Spent'
    BY <1>2, <1>3
  <1>5. excused \/ LinesAreFew'
    BY <1>3, <1>4, RecencyStays
  <1>6. LinesAreFew'
    BY <1>5 DEF LinesAreFew
  <1> QED BY <1>1, <1>6

LEMMA CommitStep ==
    ASSUME WindowInv, TypeInv', commit_terminal_result
    PROVE  WindowInv'
  <1>1. /\ tick.pc = "measured" /\ Commit(held, held.source = "line")
        /\ tick' = [tick EXCEPT !.pc = "idle", !.first = FALSE] /\ held' = None
        /\ UNCHANGED <<clock, provider, cache, last, line, pending, excused>>
    BY DEF commit_terminal_result, tee
  <1>2. /\ held \in Readings /\ held # None /\ (held.source = "line") \in BOOLEAN
        /\ tick'.pc = "idle" /\ tick'.spent = tick.spent
    BY <1>1 DEF WindowInv, TypeInv, TypeOK
  <1> DEFINE n == Len(rows)
  <1>3. /\ TypeInv /\ n \in Nat /\ Stored \in Nat /\ Cardinality(pending) \in Nat
        /\ DOMAIN rows = 1..n
    BY StoredIsNat DEF WindowInv
  <1>4. /\ Len(rows') = n + 1 /\ DOMAIN rows' = 1..(n + 1) /\ rows'[n + 1] = held
        /\ \A i \in 1..n : rows'[i] = rows[i]
    BY <1>1, <1>2, <1>3, CommitTyped
  <1>5. Stored' = Stored + 1
    BY <1>1, <1>3, <1>4 DEF Stored
  <1>6. (NoInventedAnomaly /\ SetChangeHasACause)'
    <2>1. held \in Taken /\ Same(held, held)
      BY <1>2 DEF Taken, Held, Same
    <2> QED BY <1>1, <1>2, <2>1, CommitConcludes
  <1> HIDE DEF n
  <1>7. Taken' = Taken
    <2>1. {rows'[i] : i \in 1..(n + 1)} = {rows[i] : i \in 1..n} \cup {held}
      BY <1>3, <1>4
    <2> QED BY <1>1, <1>2, <1>3, <1>4, <2>1 DEF Taken, Held
  <1>8. Made' = Made
    BY <1>1, <1>2, <1>3, <1>5 DEF Made
  <1>9. \A x \in Taken : Same(x, x)
    BY DEF Same
  <1>10. /\ (MarksAreTrue /\ CacheIsTraced /\ LineIsTraced /\ ReadingsAreTraced)'
         /\ (FullInOrder /\ LinesAreFew)'
    BY <1>1, <1>2, <1>7, <1>8, <1>9, MoveKeeps
  <1>11. AttemptsAreDistinct'
    <2>1. /\ held.attempt = Stored + 1
          /\ \A i \in 1..n : rows[i].attempt <= Stored
          /\ \A b \in pending : b.attempt <= Stored
          /\ \A i, j \in 1..n : i # j => rows[i].attempt # rows[j].attempt
          /\ \A b \in pending, i \in 1..n : b.attempt # rows[i].attempt
          /\ \A b, c \in pending : b.attempt = c.attempt => b = c
      BY <1>2, <1>3 DEF WindowInv, AttemptsAreDistinct
    <2>2. /\ \A i \in 1..n : rows[i].attempt \in Nat
          /\ \A b \in pending : b.attempt \in Nat
      <3>1. \A r \in Readings : r.attempt \in Nat
        BY ReadingsAreAny DEF AnyReading
      <3> QED BY <1>3, <3>1, StoredIsNat DEF TypeInv, TypeOK, n
    <2>3. \A i \in 1..(n + 1) : i \in 1..n \/ i = n + 1
      BY <1>3
    <2>4. \A i \in 1..(n + 1) : rows'[i].attempt <= Stored + 1
      BY <1>3, <1>4, <2>1, <2>2, <2>3
    <2>5. \A i, j \in 1..(n + 1) : i # j => rows'[i].attempt # rows'[j].attempt
      BY <1>3, <1>4, <2>1, <2>2, <2>3
    <2>6. ASSUME NEW b \in pending, NEW i \in 1..(n + 1)
          PROVE  b.attempt # rows'[i].attempt
      <3>1. CASE i \in 1..n
        BY <1>4, <2>1, <3>1
      <3>2. CASE i = n + 1
        <4>1. b.attempt <= Stored /\ b.attempt \in Nat /\ rows'[i].attempt = Stored + 1
          BY <1>4, <2>1, <2>2, <3>2
        <4> QED BY <1>3, <4>1
      <3> QED BY <2>3, <3>1, <3>2
    <2>7. \A b \in pending : b.attempt <= Stored + 1
      BY <1>3, <2>1, <2>2
    <2> QED BY <1>1, <1>4, <1>5, <2>1, <2>4, <2>5, <2>6, <2>7 DEF AttemptsAreDistinct
  <1> QED BY <1>6, <1>10, <1>11 DEF WindowInv

LEMMA SpoolStep ==
    ASSUME WindowInv, TypeInv', Spool
    PROVE  WindowInv'
  <1>1. /\ tick.pc = "measured" /\ pending' = pending \cup {held}
        /\ tick' = [tick EXCEPT !.pc = "idle", !.first = FALSE] /\ held' = None
        /\ UNCHANGED <<clock, provider, cache, last, line, rows, anomalies, changes, excused>>
    BY DEF Spool, tee
  <1>2. /\ held \in Readings /\ held # None
        /\ tick'.pc = "idle" /\ tick'.spent = tick.spent
    BY <1>1 DEF WindowInv, TypeInv, TypeOK
  <1>3. /\ TypeInv /\ Len(rows) \in Nat /\ Stored \in Nat /\ Cardinality(pending) \in Nat
        /\ IsFiniteSet(pending)
    BY StoredIsNat DEF WindowInv, TypeInv
  <1>4. /\ held.attempt = Stored + 1
        /\ \A i \in DOMAIN rows : rows[i].attempt <= Stored
        /\ \A b \in pending : b.attempt <= Stored
        /\ \A i, j \in DOMAIN rows : i # j => rows[i].attempt # rows[j].attempt
        /\ \A b \in pending, i \in DOMAIN rows : b.attempt # rows[i].attempt
        /\ \A b, c \in pending : b.attempt = c.attempt => b = c
    BY <1>2 DEF WindowInv, AttemptsAreDistinct
  <1>5. /\ \A i \in DOMAIN rows : rows[i].attempt \in Nat
        /\ \A b \in pending : b.attempt \in Nat
    <2>1. \A r \in Readings : r.attempt \in Nat
      BY ReadingsAreAny DEF AnyReading
    <2> QED BY <1>3, <2>1, StoredIsNat DEF TypeInv, TypeOK
  <1>6. held \notin pending
    BY <1>3, <1>4, <1>5
  <1>7. Cardinality(pending') = Cardinality(pending) + 1
    BY <1>1, <1>3, <1>6, FS_AddElement
  <1>8. Stored' = Stored + 1
    BY <1>1, <1>3, <1>7 DEF Stored
  <1>9. Taken' = Taken
    BY <1>1, <1>2 DEF Taken, Held
  <1>10. Made' = Made
    BY <1>1, <1>2, <1>3, <1>8 DEF Made
  <1>11. \A x \in Taken : Same(x, x)
    BY DEF Same
  <1>12. /\ (MarksAreTrue /\ CacheIsTraced /\ LineIsTraced /\ ReadingsAreTraced)'
         /\ (FullInOrder /\ LinesAreFew)'
    BY <1>1, <1>2, <1>9, <1>10, <1>11, MoveKeeps
  <1>13. AttemptsAreDistinct'
    <2>1. \A i \in DOMAIN rows : rows[i].attempt <= Stored + 1 /\ rows[i].attempt # Stored + 1
      BY <1>3, <1>4, <1>5
    <2>2. \A b \in pending : b.attempt <= Stored + 1 /\ b.attempt # Stored + 1
      BY <1>3, <1>4, <1>5
    <2>3. held.attempt <= Stored + 1
      BY <1>3, <1>4
    <2> QED BY <1>1, <1>4, <1>8, <2>1, <2>2, <2>3 DEF AttemptsAreDistinct
  <1>14. (NoInventedAnomaly /\ SetChangeHasACause)'
    BY <1>1 DEF WindowInv, NoInventedAnomaly, SetChangeHasACause
  <1> QED BY <1>12, <1>13, <1>14 DEF WindowInv

\* A replayed reading is the one that was spooled, but for its flag.
LEMMA ReplayStep ==
    ASSUME WindowInv, TypeInv', Replay
    PROVE  WindowInv'
  <1>1. PICK b \in pending :
           /\ Commit([b EXCEPT !.unflagged = (b.source = "line")], FALSE)
           /\ pending' = pending \ {b}
           /\ UNCHANGED <<clock, provider, cache, last, line, tick, held, excused>>
    BY DEF Replay, tee
  <1> DEFINE r == [b EXCEPT !.unflagged = (b.source = "line")]
             n == Len(rows)
  <1>2. b \in Readings /\ b \in Taken
    BY DEF WindowInv, TypeInv, TypeOK, Taken
  <1>3. r \in Readings /\ Same(r, b) /\ (r.source = "line" => r.unflagged)
    <2> DEFINE f == b.source = "line"
    <2>1. f \in BOOLEAN
      OBVIOUS
    <2>2. f <=> b.source = "line"
      OBVIOUS
    <2>3. r = [b EXCEPT !.unflagged = f]
      OBVIOUS
    <2> HIDE DEF f, r
    <2>4. /\ [b EXCEPT !.unflagged = f] \in Readings
          /\ Same([b EXCEPT !.unflagged = f], b)
      BY <1>2, <2>1 DEF Readings, Same
    <2>5. [b EXCEPT !.unflagged = f].unflagged = f
      BY <1>2 DEF Readings
    <2>6. r.unflagged = f /\ r \in Readings /\ Same(r, b)
      BY <2>3, <2>4, <2>5
    <2>7. r.source = b.source
      BY <2>6 DEF Same
    <2> QED BY <2>2, <2>6, <2>7
  <1>4. Commit(r, FALSE)
    BY <1>1
  <1> HIDE DEF r
  <1>5. /\ TypeInv /\ n \in Nat /\ Stored \in Nat /\ Cardinality(pending) \in Nat
        /\ DOMAIN rows = 1..n /\ IsFiniteSet(pending)
    BY StoredIsNat DEF WindowInv, TypeInv
  <1>6. /\ Len(rows') = n + 1 /\ DOMAIN rows' = 1..(n + 1) /\ rows'[n + 1] = r
        /\ \A i \in 1..n : rows'[i] = rows[i]
    BY <1>3, <1>4, <1>5, CommitTyped
  <1>7. Cardinality(pending') = Cardinality(pending) - 1
    BY <1>1, <1>5, FS_RemoveElement
  <1>8. Stored' = Stored /\ Made' = Made
    BY <1>1, <1>5, <1>6, <1>7 DEF Stored, Made
  <1>9. (NoInventedAnomaly /\ SetChangeHasACause)'
    BY <1>2, <1>3, <1>4, CommitConcludes
  <1> HIDE DEF n
  <1>10. /\ \A x \in Taken' : \E z \in Taken : Same(x, z)
         /\ \A z \in Taken : \E x \in Taken' : Same(x, z)
    <2>1. {rows'[i] : i \in 1..(n + 1)} = {rows[i] : i \in 1..n} \cup {r}
      BY <1>5, <1>6
    <2>2. Taken' = {rows[i] : i \in 1..n} \cup {r} \cup (pending \ {b}) \cup Held
      BY <1>1, <1>6, <2>1 DEF Taken, Held
    <2>3. Taken = {rows[i] : i \in 1..n} \cup pending \cup Held
      BY <1>5 DEF Taken
    <2>4. Taken' \subseteq Taken \cup {r} /\ Taken \subseteq Taken' \cup {b}
          /\ r \in Taken' /\ b \in Taken
      BY <2>2, <2>3
    <2>5. \A x : Same(x, x)
      BY DEF Same
    <2> QED BY <1>3, <2>4, <2>5
  <1>11. /\ (MarksAreTrue /\ CacheIsTraced /\ LineIsTraced /\ ReadingsAreTraced)'
         /\ (FullInOrder /\ LinesAreFew)'
    BY <1>1, <1>8, <1>10, MoveKeeps
  <1>12. AttemptsAreDistinct'
    <2>1. /\ \A i \in 1..n : rows[i].attempt <= Stored
          /\ \A c \in pending : c.attempt <= Stored
          /\ \A i, j \in 1..n : i # j => rows[i].attempt # rows[j].attempt
          /\ \A c \in pending, i \in 1..n : c.attempt # rows[i].attempt
          /\ \A c, d \in pending : c.attempt = d.attempt => c = d
          /\ held # None => held.attempt = Stored + 1
      BY <1>5 DEF WindowInv, AttemptsAreDistinct
    <2>2. r.attempt = b.attempt
      BY <1>3 DEF Same
    <2>3. \A i \in 1..(n + 1) : i \in 1..n \/ i = n + 1
      BY <1>5
    <2>4. \A i \in 1..(n + 1) : rows'[i].attempt <= Stored
      BY <1>6, <2>1, <2>2, <2>3
    <2>5. \A i, j \in 1..(n + 1) : i # j => rows'[i].attempt # rows'[j].attempt
      BY <1>6, <2>1, <2>2, <2>3
    <2>6. \A c \in pending \ {b}, i \in 1..(n + 1) : c.attempt # rows'[i].attempt
      BY <1>6, <2>1, <2>2, <2>3
    <2> QED BY <1>1, <1>6, <1>8, <2>1, <2>4, <2>5, <2>6 DEF AttemptsAreDistinct
  <1> QED BY <1>9, <1>11, <1>12 DEF WindowInv

----------------------------------------------------------------------------
(* What the readings promise, for every value of the constants.            *)

\* The invariant holds in every reachable state: what is committed, spooled or in
\* hand is true of the provider's meter, numbered in order, and followed by few
\* status lines.
THEOREM WindowInvariant == Spec => []WindowInv
  <1>1. Init => WindowInv
    BY InitialWindows
  <1>2. WindowInv /\ [Next]_vars => WindowInv'
    <2> SUFFICES ASSUME WindowInv, [Next]_vars
                 PROVE  WindowInv'
      OBVIOUS
    <2>1. CASE UNCHANGED vars
      <3>1. UNCHANGED <<clock, provider, cache, last, line, tick, held, pending, rows,
                        anomalies, changes, excused>>
        BY <2>1 DEF vars
      <3>2. TypeInv'
        BY <3>1 DEF WindowInv, TypeInv, TypeOK, RoomIsLeft, Stored
      <3>3. LinesAreFew'
        <4>1. Asking' = Asking /\ Spent' = Spent /\ Asking \in Nat /\ Spent \in Nat
          BY <3>1 DEF Asking, Spent
        <4>2. clock \in Nat
          BY StoredIsNat DEF WindowInv
        <4>3. clock' \in Nat /\ clock + Spent <= clock' + Spent' /\ Asking' <= Asking
          BY <3>1, <4>1, <4>2
        <4> QED BY <3>1, <4>3, QuietKeepsRecency
      <3> QED BY <3>1, <3>2, <3>3, QuietStep, OnlyTheTick DEF WindowInv
    <2>2. CASE Next
      <3>1. TypeInv'
        BY <2>2, TypeStep DEF WindowInv, MarksAreTrue
      <3>2. CASE Tick
        BY <3>1, <3>2, TickStep
      <3>3. CASE \E s \in Sessions : Respond(s) \/ record(s) \/ RecordDies(s)
        BY <3>1, <3>3, RespondStep, RecordStep
      <3>4. CASE SampleCommand
        BY <3>1, <3>4, SampleStep
      <3>5. CASE observe_statusline \/ observe_endpoint
        BY <3>1, <3>5, LineStep, EndpointStep
      <3>6. CASE EndpointFails \/ Die
        BY <3>1, <3>6, FailStep
      <3>7. CASE commit_terminal_result \/ Spool \/ Replay
        BY <3>1, <3>7, CommitStep, SpoolStep, ReplayStep
      <3> QED BY <2>2, <3>2, <3>3, <3>4, <3>5, <3>6, <3>7 DEF Next
    <2> QED BY <2>1, <2>2
  <1> QED BY <1>1, <1>2, PTL DEF Spec

\* Type correctness.
THEOREM WindowTypeCorrect == Spec => []TypeOK
  <1>1. WindowInv => TypeOK
    BY DEF WindowInv, TypeInv
  <1> QED BY <1>1, WindowInvariant, PTL

\* A provider that keeps its rules is never accused on two honest readings, in
\* whatever order the spool replays them (window_anomaly.rs).
THEOREM HonestReadingsAreNeverAnomalous == Spec => []NoInventedAnomaly
  <1>1. WindowInv => NoInventedAnomaly
    BY DEF WindowInv
  <1> QED BY <1>1, WindowInvariant, PTL

\* A recorded window-set change is the provider's, or follows from a status line
\* that names one window (detect_and_persist).
THEOREM SetChangesAreExplained == Spec => []SetChangeHasACause
  <1>1. WindowInv => SetChangeHasACause
    BY DEF WindowInv
  <1> QED BY <1>1, WindowInvariant, PTL

\* A reading newer than one of the walk is in the walk.
LEMMA WalkIsUpward ==
    ASSUME TypeInv, NEW i \in visit_newest_observations, NEW j \in DOMAIN rows,
           rows[i].attempt <= rows[j].attempt
    PROVE  j \in visit_newest_observations
  <1> DEFINE Above(k) == {m \in DOMAIN rows : rows[m].attempt > rows[k].attempt}
  <1>1. DOMAIN rows = 1..Len(rows) /\ Len(rows) \in Nat
    BY StoredIsNat
  <1>2. IsFiniteSet(DOMAIN rows)
    BY <1>1, FS_Interval
  <1>3. \A m \in DOMAIN rows : rows[m].attempt \in Nat
    BY <1>1, StoredIsNat, ReadingsAreAny DEF AnyReading
  <1>4. i \in DOMAIN rows /\ Cardinality(Above(i)) < Cap
    BY DEF visit_newest_observations
  <1>5. Above(i) \in SUBSET DOMAIN rows /\ Above(j) \in SUBSET DOMAIN rows
    OBVIOUS
  <1>6. Above(j) \in SUBSET Above(i)
    BY <1>3, <1>4
  <1> HIDE DEF Above
  <1>7. IsFiniteSet(Above(i)) /\ IsFiniteSet(Above(j))
    BY <1>2, <1>5, FS_Subset
  <1>8. Cardinality(Above(j)) <= Cardinality(Above(i))
    BY <1>6, <1>7, FS_Subset
  <1>9. Cardinality(Above(j)) \in Nat /\ Cardinality(Above(i)) \in Nat
    BY <1>7, FS_CardinalityType
  <1>10. Cardinality(Above(j)) < Cap
    BY <1>4, <1>8, <1>9, WalkAssumption
  <1> QED BY <1>10 DEF visit_newest_observations, Above

\* A full reading on the screen is the account's newest, although replays commit
\* older ones after it (last_successful_observation).
THEOREM ScreenShowsTheNewest == Spec => []RenderedIsNewest
  <1>1. WindowInv => RenderedIsNewest
    <2> SUFFICES ASSUME WindowInv, NEW i \in Full(last_successful_observation),
                        NEW j \in Full(DOMAIN rows)
                 PROVE  rows[j].instant <= rows[i].instant
      BY DEF RenderedIsNewest
    <2> DEFINE walk == visit_newest_observations
    <2>1. /\ i \in walk /\ i \in DOMAIN rows /\ rows[i].source = "endpoint"
          /\ j \in DOMAIN rows /\ rows[j].source = "endpoint"
      BY DEF Full, last_successful_observation, Newest, visit_newest_observations
    <2>2. i \in Full(walk)
      BY <2>1 DEF Full
    <2>3. i \in Newest(Full(walk))
      BY <2>2 DEF last_successful_observation, Full
    <2>4. rows[i] \in Taken /\ rows[j] \in Taken /\ TypeInv
      BY <2>1 DEF Taken, WindowInv
    <2>5. rows[i].attempt \in Nat /\ rows[j].attempt \in Nat
      BY <2>4, TakenAreReadings, ReadingsAreAny DEF AnyReading
    <2>6. CASE rows[j].attempt <= rows[i].attempt
      BY <2>1, <2>4, <2>6 DEF WindowInv, FullInOrder
    <2>7. CASE rows[i].attempt < rows[j].attempt
      <3>1. j \in walk
        BY <2>1, <2>4, <2>5, <2>7, WalkIsUpward
      <3>2. j \in Full(walk)
        BY <2>1, <3>1 DEF Full
      <3>3. rows[j].attempt <= rows[i].attempt
        BY <2>3, <3>2 DEF Newest
      <3> QED BY <2>5, <2>7, <3>3
    <2> QED BY <2>5, <2>6, <2>7
  <1> QED BY <1>1, WindowInvariant, PTL

\* At most a horizon of attempts separates a recent full reading from the newest
\* attempt, and the walk is longer than that.
LEMMA RecentIsInTheWalk ==
    ASSUME WindowInv, NEW j \in DOMAIN rows, IsRecent(rows[j])
    PROVE  j \in visit_newest_observations
  <1> DEFINE Above == {m \in DOMAIN rows : rows[m].attempt > rows[j].attempt}
             Later == (rows[j].attempt + 1)..Stored
             number == [m \in Above |-> rows[m].attempt]
  <1>1. /\ TypeInv /\ Stored \in Nat /\ \A m \in DOMAIN rows : rows[m].attempt \in Nat
        /\ \A m \in DOMAIN rows : rows[m].attempt <= Stored
        /\ \A m, k \in DOMAIN rows : m # k => rows[m].attempt # rows[k].attempt
    <2>1. TypeInv
      BY DEF WindowInv
    <2> QED BY <2>1, StoredIsNat, ReadingsAreAny DEF WindowInv, AttemptsAreDistinct, AnyReading
  <1>2. number \in [Above -> Later]
    BY <1>1
  <1>3. \A m, k \in Above : number[m] = number[k] => m = k
    BY <1>1
  <1>4. number \in Injection(Above, Later)
    BY <1>2, <1>3 DEF Injection, IsInjective
  <1>5. /\ IsFiniteSet(Later)
        /\ Cardinality(Later) = IF rows[j].attempt + 1 > Stored
                                THEN 0 ELSE Stored - (rows[j].attempt + 1) + 1
    BY <1>1, FS_Interval, SMTT(60)
  <1> HIDE DEF Above, Later, number
  <1>6. IsFiniteSet(Above) /\ Cardinality(Above) <= Cardinality(Later)
    BY <1>4, <1>5, FS_Injection
  <1>7. Cardinality(Above) \in Nat /\ Cardinality(Later) \in Nat
    BY <1>5, <1>6, FS_CardinalityType
  <1>8. Stored <= rows[j].attempt + Horizon
    <2>1. Made + Asking <= rows[j].attempt + Horizon
      BY DEF IsRecent
    <2>2. Made \in Nat /\ Asking \in Nat /\ Stored <= Made + Asking /\ Horizon \in Nat
      BY <1>1, WalkAssumption DEF Made, Asking
    <2> QED BY <1>1, <2>1, <2>2
  <1>9. Cardinality(Above) < Cap
    BY <1>1, <1>5, <1>6, <1>7, <1>8, WalkAssumption
  <1> QED BY <1>9 DEF visit_newest_observations, Above

\* However many status lines stand in for the endpoint, they never push the last
\* full reading out of the projection's walk (sample_command, full_reading_due,
\* visit_newest_observations).
THEOREM LinesNeverHideAFullReading == Spec => []SubsetOnlyAfterOutage
  <1>1. WindowInv => SubsetOnlyAfterOutage
    <2> SUFFICES ASSUME WindowInv, ~excused,
                        NEW i \in last_successful_observation, rows[i].source = "line",
                        ~\E b \in pending : b.source = "endpoint",
                        ~(held # None /\ held.source = "endpoint")
                 PROVE  FALSE
      BY DEF SubsetOnlyAfterOutage
    <2> DEFINE walk == visit_newest_observations
    <2>1. i \in walk /\ i \in DOMAIN rows /\ Full(walk) = {}
      BY DEF last_successful_observation, Newest, Full, visit_newest_observations
    <2>2. Made # 0
      <3>1. TypeInv
        BY DEF WindowInv
      <3>2. Stored \in Nat /\ Stored >= 1
        BY <2>1, <3>1, StoredIsNat
      <3> QED BY <3>2 DEF Made
    <2>3. PICK f \in Taken : IsRecent(f)
      BY <2>2 DEF WindowInv, LinesAreFew
    <2>4. f.source = "endpoint"
      BY <2>3 DEF IsRecent
    <2>5. PICK j \in DOMAIN rows : f = rows[j]
      BY <2>4 DEF Taken, Held
    <2>6. j \in walk
      BY <2>3, <2>5, RecentIsInTheWalk
    <2>7. j \in Full(walk)
      BY <2>4, <2>5, <2>6 DEF Full
    <2> QED BY <2>1, <2>7
  <1> QED BY <1>1, WindowInvariant, PTL

=============================================================================
