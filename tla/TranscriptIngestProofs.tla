----------------------- MODULE TranscriptIngestProofs -----------------------
(***************************************************************************)
(* Proofs about TranscriptIngest for any files, identities, contents,      *)
(* batch bounds and number of passes at once.                              *)
(*                                                                         *)
(* A watermark tells of the file as it was stat, and every edit moves the  *)
(* modification time, so a watermark that still matches was read from what *)
(* is there now (MarkTells).  What a watermark claims has landed, or is    *)
(* still ahead of the pass that carries it (MarksLand).  A file's rows are *)
(* its current lines as soon as nobody is in the middle of landing it      *)
(* (RowsAreKnown), because a pass replaces a contribution before it adds   *)
(* to it; that it does so for every file it replaces is what the batch     *)
(* arithmetic shows (EveryFileIsReplaced).                                 *)
(***************************************************************************)
EXTENDS TranscriptIngest, FiniteSetTheorems, SequenceTheorems, WellFoundedInduction, TLAPS

-----------------------------------------------------------------------------
(* The inductive invariant.                                                *)

Stat == [size : Nat, mtime : Nat, ino : Nat]
Inode == [ino : Nat \ {0}, mtime : Nat, lines : Seq(Line), rewritten : BOOLEAN]
Watermark ==
    [file : FileSet, size : Nat, mtime : Nat, ino : Nat, consumed : Nat, seen : Seq(Line)]
Pass ==
    [active : BOOLEAN, changed_only : BOOLEAN, at : 1..(Len(Files) + 1), stat : Stat,
     events : Seq(Event), whole : SUBSET FileSet, marks : SUBSET Watermark,
     next : Nat \ {0}]

IngestTypes ==
    /\ disk \in [FileSet -> Inode]
    /\ index \in [FileSet -> SUBSET Watermark]
    /\ owner \in [Ids -> FileSet \cup {NoFile}]
    /\ count \in [Ids -> Nat]
    /\ pass \in [Passes -> Pass]
    /\ lost \in [Ids -> [count : Nat, undone : BOOLEAN]]
    /\ cut \in SUBSET FileSet

\* What the fields of a pass say of one another.
PassTells(p) ==
    /\ ~pass[p].active => pass[p] = Idle
    /\ pass[p].at <= Len(Files) => pass[p].next = 1
    /\ pass[p].stat # NoStat => Scanning(p)
    /\ Landing(p) =>
          /\ \A i, j \in 1..Len(pass[p].events) :
                pass[p].events[i].id = pass[p].events[j].id => i = j
          /\ pass[p].next <= Len(pass[p].events) \/ pass[p].next = 1
    /\ pass[p].whole \subseteq Opened(p)

\* A file has one watermark at most, in the index and in a pass, and a pass has
\* one only for the files it is past.
MarksAreSingle ==
    /\ \A f \in FileSet : \A w \in index[f] : w.file = f /\ \A v \in index[f] : v = w
    /\ \A p \in Passes : \A m \in pass[p].marks :
          /\ \E i \in 1..(pass[p].at - 1) : m.file = Files[i]
          /\ \A n \in pass[p].marks : n.file = m.file => n = m

IsStart(s, t) == Len(s) <= Len(t) /\ \A i \in 1..Len(s) : s[i] = t[i]

\* A stat is of this inode or an earlier one; if the modification time is the
\* same, it is of what the file holds.
StatTells(f, s) ==
    /\ s.ino <= disk[f].ino /\ s.mtime <= disk[f].mtime
    /\ s.mtime = disk[f].mtime => s.ino = disk[f].ino /\ s.size = Len(disk[f].lines)
StatsAreTrue == \A p \in Passes : pass[p].stat # NoStat => StatTells(File(p), pass[p].stat)

\* The watermark is of the inode the file still is, and no line was rewritten.
Fits(f, m) == m.ino = disk[f].ino /\ ~disk[f].rewritten

MarkTells(f, m) ==
    /\ StatTells(f, m)
    /\ m.consumed = Len(m.seen)
    /\ Fits(f, m) => IsStart(m.seen, disk[f].lines)
    /\ m.mtime = disk[f].mtime => m.consumed = Len(disk[f].lines)
MarksAreTrue ==
    /\ \A f \in FileSet : \A w \in index[f] : MarkTells(f, w)
    /\ \A p \in Passes : \A m \in pass[p].marks : MarkTells(m.file, m)

\* The ledger holds the line's event with its count, or held it.
Landed(line) == count[line.id] >= line.out \/ lost[line.id].count >= line.out
Ahead(p, line) ==
    \E j \in pass[p].next..Len(pass[p].events) :
        pass[p].events[j].id = line.id /\ pass[p].events[j].out >= line.out

MarksLand ==
    /\ \A f \in FileSet : \A w \in index[f] : \A i \in 1..Len(w.seen) : Landed(w.seen[i])
    /\ \A p \in Passes : \A m \in pass[p].marks : \A i \in 1..Len(m.seen) :
          Landed(m.seen[i]) \/ Ahead(p, m.seen[i])

\* An event of a pass is a line of a file it has read.
EventsAreRead ==
    \A p \in Passes : \A j \in 1..Len(pass[p].events) :
        \E m \in pass[p].marks :
            /\ m.file = pass[p].events[j].file
            /\ \E i \in 1..Len(m.seen) : m.seen[i].id = pass[p].events[j].id

\* The pass is between two of its transactions and has the file open.
Amid(p, f) == pass[p].next > 1 /\ f \in Opened(p)
\* Nobody but p is in the middle of landing the file, or left it so.
QuietBut(p, f) == f \notin cut /\ \A q \in Passes \ {p} : ~Amid(q, f)
Quiet(f) == f \notin cut /\ \A q \in Passes : ~Amid(q, f)
\* The pass has deleted the file's old contribution.
Past(p, f) == \E k \in 1..(pass[p].next - 1) : f \in Replaced(p, pass[p].events, k)

\* Every row that names the file as its source is one of its lines.
Known(f) ==
    \A id \in Ids : owner[id] = f =>
        \E i \in 1..Len(disk[f].lines) : disk[f].lines[i].id = id
RowsAreKnown ==
    /\ \A f \in FileSet : \A w \in index[f] : Quiet(f) /\ Fits(f, w) => Known(f)
    /\ \A p \in Passes : \A m \in pass[p].marks :
          /\ QuietBut(p, m.file) /\ Fits(m.file, m)
          /\ m.file \in pass[p].whole => Past(p, m.file)
          => Known(m.file)

IngestInv ==
    /\ IngestTypes
    /\ \A p \in Passes : PassTells(p)
    /\ MarksAreSingle
    /\ StatsAreTrue
    /\ MarksAreTrue
    /\ MarksLand
    /\ EventsAreRead
    /\ RowsAreKnown

-----------------------------------------------------------------------------
(* deduplicate.                                                            *)

\* The order of the naturals as the relation the induction theorems speak of.
LessThan == {p \in Nat \X Nat : p[1] < p[2]}

\* A nonempty set of naturals has a least element.
LEMMA NatHasMin ==
    ASSUME NEW T \in SUBSET Nat, T # {}
    PROVE  \E x \in T : \A y \in T : x <= y
  <1>1. IsWellFoundedOn(LessThan, Nat)
    BY NatLessThanWellFounded DEF OpToRel, LessThan
  <1>2. PICK x \in T : \A y \in T : ~(<<y, x>> \in LessThan)
    BY <1>1, WFMin, Zenon
  <1>3. \A y \in T : ~(y < x)
    BY <1>2 DEF LessThan
  <1> QED BY <1>3

\* c stands for the first n occurrences: it has one event per identity, each of
\* them an occurrence, with no smaller output than any occurrence of it.
StandsFor(c, events, n) ==
    /\ c \in Seq(Event)
    /\ \A i, j \in 1..Len(c) : c[i].id = c[j].id => i = j
    /\ \A k \in 1..Len(c) : \E i \in 1..n : c[k] = events[i]
    /\ \A i \in 1..n : \E k \in 1..Len(c) : c[k].id = events[i].id /\ c[k].out >= events[i].out

\* One occurrence more is stood for too.
LEMMA CollapseStandsFor ==
    ASSUME NEW events \in Seq(Event), NEW n \in 1..Len(events), NEW c,
           StandsFor(c, events, n - 1)
    PROVE  StandsFor(collapse(c, events[n]), events, n)
  <1> DEFINE e == events[n]
             at == {k \in 1..Len(c) : c[k].id = e.id}
             d == collapse(c, e)
  <1>1. e \in Event /\ c \in Seq(Event) /\ Len(c) \in Nat /\ n \in Nat
    BY DEF StandsFor
  <1>2. \A x \in Event : x.out \in Nat
    BY ContentsAssumption DEF Event
  <1>3. CASE at = {}
    <2>1. d = Append(c, e)
      BY <1>3 DEF collapse
    <2>2. d \in Seq(Event) /\ Len(d) = Len(c) + 1 /\ d[Len(c) + 1] = e
          /\ \A k \in 1..Len(c) : d[k] = c[k]
      BY <1>1, <2>1
    <2>3. \A i, j \in 1..Len(d) : d[i].id = d[j].id => i = j
      <3>1. \A k \in 1..Len(c) : d[k].id # e.id
        BY <1>3, <2>2
      <3>2. \A i, j \in 1..Len(c) : d[i].id = d[j].id => i = j
        BY <2>2 DEF StandsFor
      <3> HIDE DEF d, e, at
      <3> QED BY <1>1, <2>2, <3>1, <3>2
    <2>4. \A k \in 1..Len(d) : \E i \in 1..n : d[k] = events[i]
      <3> SUFFICES ASSUME NEW k \in 1..Len(d)
                   PROVE  \E i \in 1..n : d[k] = events[i]
        OBVIOUS
      <3>1. CASE k = Len(c) + 1
        BY <1>1, <2>2, <3>1
      <3>2. CASE k \in 1..Len(c)
        <4>1. PICK i \in 1..(n - 1) : c[k] = events[i]
          BY <3>2 DEF StandsFor
        <4> QED BY <1>1, <2>2, <3>2, <4>1
      <3> QED BY <1>1, <2>2, <3>1, <3>2
    <2>5. \A i \in 1..n : \E k \in 1..Len(d) : d[k].id = events[i].id /\ d[k].out >= events[i].out
      <3> SUFFICES ASSUME NEW i \in 1..n
                   PROVE  \E k \in 1..Len(d) : d[k].id = events[i].id /\ d[k].out >= events[i].out
        OBVIOUS
      <3>1. CASE i = n
        BY <1>1, <1>2, <2>2, <3>1
      <3>2. CASE i \in 1..(n - 1)
        <4>1. PICK k \in 1..Len(c) : c[k].id = events[i].id /\ c[k].out >= events[i].out
          BY <3>2 DEF StandsFor
        <4>2. k \in 1..Len(d) /\ d[k] = c[k]
          BY <1>1, <2>2
        <4> HIDE DEF d
        <4> QED BY <4>1, <4>2
      <3> QED BY <1>1, <3>1, <3>2
    <2> QED BY <2>2, <2>3, <2>4, <2>5 DEF StandsFor
  <1>4. CASE at # {}
    <2>1. d = [k \in 1..Len(c) |-> IF k \in at /\ e.out > c[k].out THEN e ELSE c[k]]
      BY <1>4 DEF collapse
    <2>2. d \in Seq(Event) /\ Len(d) = Len(c)
      BY <1>1, <2>1
    <2>3. \A k \in 1..Len(c) : d[k].id = c[k].id /\ (d[k] = c[k] \/ d[k] = e) /\ d[k].out >= c[k].out
      BY <1>1, <1>2, <2>1
    <2>4. \A i, j \in 1..Len(d) : d[i].id = d[j].id => i = j
      BY <2>2, <2>3 DEF StandsFor
    <2>5. \A k \in 1..Len(d) : \E i \in 1..n : d[k] = events[i]
      <3> SUFFICES ASSUME NEW k \in 1..Len(d)
                   PROVE  \E i \in 1..n : d[k] = events[i]
        OBVIOUS
      <3>1. PICK i \in 1..(n - 1) : c[k] = events[i]
        BY <2>2 DEF StandsFor
      <3> QED BY <1>1, <2>2, <2>3, <3>1
    <2>6. \A i \in 1..n : \E k \in 1..Len(d) : d[k].id = events[i].id /\ d[k].out >= events[i].out
      <3> SUFFICES ASSUME NEW i \in 1..n
                   PROVE  \E k \in 1..Len(d) : d[k].id = events[i].id /\ d[k].out >= events[i].out
        OBVIOUS
      <3>0. \A k \in 1..Len(c) : c[k].out \in Nat /\ d[k].out \in Nat
        BY <1>1, <1>2, <2>2
      <3>1. CASE i = n
        <4>1. PICK k \in at : TRUE
          BY <1>4
        <4>2. d[k].id = e.id /\ d[k].out >= e.out
          BY <1>1, <1>2, <2>1, <2>3, <3>0, <4>1
        <4> QED BY <2>2, <3>1, <4>2
      <3>2. CASE i \in 1..(n - 1)
        <4>1. PICK k \in 1..Len(c) : c[k].id = events[i].id /\ c[k].out >= events[i].out
          BY <3>2 DEF StandsFor
        <4>2. events[i] \in Event
          BY <3>2
        <4>3. d[k].id = events[i].id /\ d[k].out >= events[i].out
          BY <1>2, <2>3, <3>0, <4>1, <4>2
        <4> QED BY <2>2, <4>3
      <3> QED BY <1>1, <3>1, <3>2
    <2> QED BY <2>2, <2>4, <2>5, <2>6 DEF StandsFor
  <1> QED BY <1>3, <1>4

\* deduplicate returns a sequence that stands for all it was given: what its
\* recursion computes exists, by the least length for which it would not.
LEMMA DeduplicateStandsFor ==
    ASSUME NEW events \in Seq(Event)
    PROVE  StandsFor(deduplicate(events), events, Len(events))
  <1> DEFINE N == Len(events)
             Runs(g, n) == \A i \in 0..n :
                 g[i] = (IF i = 0 THEN << >> ELSE collapse(g[i - 1], events[i]))
             Rec(g) == [i \in 0..N |-> IF i = 0 THEN << >> ELSE collapse(g[i - 1], events[i])]
             Bad == {n \in 0..N : ~\E g : g = [i \in 0..n |-> g[i]] /\ Runs(g, n)}
  <1>1. N \in Nat
    OBVIOUS
  <1>2. Bad = {}
    <2> SUFFICES ASSUME Bad # {} PROVE FALSE
      OBVIOUS
    <2>1. PICK n \in Bad : \A y \in Bad : n <= y
      <3>1. Bad \in SUBSET Nat
        BY <1>1
      <3> HIDE DEF Bad
      <3> QED BY <3>1, NatHasMin
    <2>2. n # 0
      <3>1. LET g == [i \in 0..0 |-> << >>] IN g = [i \in 0..0 |-> g[i]] /\ Runs(g, 0)
        OBVIOUS
      <3> QED BY <2>1, <3>1, Zenon
    <2>3. n \in 1..N /\ n - 1 \in 0..N /\ n - 1 \notin Bad
      BY <1>1, <2>1, <2>2
    <2>4. PICK g : g = [i \in 0..(n - 1) |-> g[i]] /\ Runs(g, n - 1)
      BY <2>3, Zenon
    <2> DEFINE h == [i \in 0..n |-> IF i = n THEN collapse(g[n - 1], events[n]) ELSE g[i]]
    <2>5. h = [i \in 0..n |-> h[i]]
      OBVIOUS
    <2>6. Runs(h, n)
      <3>1. \A i \in 0..(n - 1) : h[i] = g[i]
        BY <1>1, <2>3
      <3> SUFFICES ASSUME NEW i \in 0..n
                   PROVE  h[i] = (IF i = 0 THEN << >> ELSE collapse(h[i - 1], events[i]))
        OBVIOUS
      <3>2. CASE i = n
        <4>1. h[n] = collapse(g[n - 1], events[n])
          BY <1>1, <2>3
        <4>2. n # 0 => h[n - 1] = g[n - 1]
          BY <1>1, <2>3, <3>1
        <4> HIDE DEF h
        <4> QED BY <1>1, <2>3, <3>2, <4>1, <4>2
      <3>3. CASE i \in 0..(n - 1)
        <4>1. i # 0 => h[i - 1] = g[i - 1]
          BY <1>1, <2>3, <3>1, <3>3
        <4>2. h[i] = g[i]
          BY <3>1, <3>3
        <4> HIDE DEF h
        <4> QED BY <1>1, <2>3, <2>4, <3>3, <4>1, <4>2
      <3> QED BY <1>1, <2>3, <3>2, <3>3
    <2> HIDE DEF h, Runs
    <2> QED BY <2>1, <2>5, <2>6, Zenon
  <1>3. PICK g : g = [i \in 0..N |-> g[i]] /\ Runs(g, N)
    BY <1>1, <1>2, SMTT(60)
  <1>4. g = Rec(g)
    BY <1>3
  <1> DEFINE c == CHOOSE h : h = Rec(h)
  <1>5. c = Rec(c)
    <2> HIDE DEF Rec
    <2> QED BY <1>4, Zenon
  <1>6. deduplicate(events) = c[N]
    BY DEF deduplicate
  <1> HIDE DEF c
  <1>7. c[0] = << >> /\ \A i \in 1..N : c[i] = collapse(c[i - 1], events[i])
    <2>1. \A i \in 0..N : c[i] = (IF i = 0 THEN << >> ELSE collapse(c[i - 1], events[i]))
      BY <1>5
    <2> QED BY <1>1, <2>1
  <1> HIDE DEF Bad, Runs
  <1> DEFINE Wrong == {n \in 0..N : ~StandsFor(c[n], events, n)}
  <1>8. Wrong = {}
    <2> SUFFICES ASSUME Wrong # {} PROVE FALSE
      OBVIOUS
    <2>1. PICK n \in Wrong : \A y \in Wrong : n <= y
      <3>1. Wrong \in SUBSET Nat
        BY <1>1
      <3> HIDE DEF Wrong
      <3> QED BY <3>1, NatHasMin
    <2>2. StandsFor(c[0], events, 0)
      BY <1>7 DEF StandsFor
    <2>3. n \in 1..N /\ n - 1 \in 0..N /\ n - 1 \notin Wrong
      BY <1>1, <2>1, <2>2
    <2>4. StandsFor(c[n - 1], events, n - 1)
      BY <2>3
    <2>5. StandsFor(c[n], events, n)
      BY <1>7, <2>3, <2>4, CollapseStandsFor
    <2> QED BY <2>1, <2>5
  <1> QED BY <1>1, <1>6, <1>8

-----------------------------------------------------------------------------
(* Batches.                                                                *)

\* split_into_batches: an event begins its batch or falls in the one before it.
LEMMA BatchStarts ==
    ASSUME NEW events \in Seq(Event)
    PROVE  /\ \A i \in 1..Len(events) :
                 BatchStart(events)[i] \in 1..i
           /\ \A i \in 2..Len(events) :
                 \/ BatchStart(events)[i] = i
                 \/ BatchStart(events)[i] = BatchStart(events)[i - 1]
  <1> DEFINE N == Len(events)
             Step(g, i) == IF i = 1 \/ Overflows(events, g[i - 1], i) THEN i ELSE g[i - 1]
             Runs(g, n) == \A i \in 1..n : g[i] = Step(g, i)
             Rec(g) == [i \in 1..N |-> Step(g, i)]
             Bad == {n \in 0..N : ~\E g : g = [i \in 1..n |-> g[i]] /\ Runs(g, n)}
  <1>1. N \in Nat
    OBVIOUS
  <1>2. Bad = {}
    <2> SUFFICES ASSUME Bad # {} PROVE FALSE
      OBVIOUS
    <2>1. PICK n \in Bad : \A y \in Bad : n <= y
      <3>1. Bad \in SUBSET Nat
        BY <1>1
      <3> HIDE DEF Bad
      <3> QED BY <3>1, NatHasMin
    <2>2. n # 0
      <3>1. LET g == [i \in 1..0 |-> 1] IN g = [i \in 1..0 |-> g[i]] /\ Runs(g, 0)
        OBVIOUS
      <3> QED BY <2>1, <3>1, Zenon
    <2>3. n \in 1..N /\ n - 1 \in 0..N /\ n - 1 \notin Bad
      BY <1>1, <2>1, <2>2
    <2>4. PICK g : g = [i \in 1..(n - 1) |-> g[i]] /\ Runs(g, n - 1)
      BY <2>3, Zenon
    <2> DEFINE h == [i \in 1..n |-> IF i = n THEN Step(g, n) ELSE g[i]]
    <2>5. h = [i \in 1..n |-> h[i]]
      OBVIOUS
    <2>6. Runs(h, n)
      <3>1. \A i \in 1..(n - 1) : h[i] = g[i]
        BY <1>1, <2>3
      <3> SUFFICES ASSUME NEW i \in 1..n
                   PROVE  h[i] = Step(h, i)
        OBVIOUS
      <3>2. CASE i = n
        <4>1. h[n] = Step(g, n)
          BY <1>1, <2>3
        <4>2. n # 1 => h[n - 1] = g[n - 1]
          BY <1>1, <2>3, <3>1
        <4> HIDE DEF h
        <4> QED BY <1>1, <2>3, <3>2, <4>1, <4>2
      <3>3. CASE i \in 1..(n - 1)
        <4>1. i # 1 => h[i - 1] = g[i - 1]
          BY <1>1, <2>3, <3>1, <3>3
        <4>2. h[i] = g[i]
          BY <3>1, <3>3
        <4> HIDE DEF h
        <4> QED BY <1>1, <2>3, <2>4, <3>3, <4>1, <4>2
      <3> QED BY <1>1, <2>3, <3>2, <3>3
    <2> HIDE DEF h, Runs
    <2> QED BY <2>1, <2>5, <2>6, Zenon
  <1>3. PICK g : g = [i \in 1..N |-> g[i]] /\ Runs(g, N)
    BY <1>1, <1>2
  <1>4. g = Rec(g)
    BY <1>3
  <1> DEFINE c == CHOOSE h : h = Rec(h)
  <1>5. c = Rec(c)
    <2> HIDE DEF Rec
    <2> QED BY <1>4, Zenon
  <1>6. BatchStart(events) = c
    BY DEF BatchStart
  <1> HIDE DEF c
  <1>7. \A i \in 1..N : c[i] = Step(c, i)
    BY <1>5
  <1> DEFINE Wrong == {n \in 1..N : c[n] \notin 1..n}
  <1>8. Wrong = {}
    <2> SUFFICES ASSUME Wrong # {} PROVE FALSE
      OBVIOUS
    <2>1. PICK n \in Wrong : \A y \in Wrong : n <= y
      <3>1. Wrong \in SUBSET Nat
        BY <1>1
      <3> HIDE DEF Wrong
      <3> QED BY <3>1, NatHasMin
    <2>2. c[n] = n \/ (n # 1 /\ c[n] = c[n - 1])
      BY <1>7, <2>1
    <2>3. n # 1 => n - 1 \in 1..N /\ n - 1 \notin Wrong
      BY <1>1, <2>1
    <2> QED BY <1>1, <2>1, <2>2, <2>3
  <1> QED BY <1>1, <1>6, <1>7, <1>8

\* Batches follow one another, and the first event of one is in it.
LEMMA BatchesAscend ==
    ASSUME NEW events \in Seq(Event)
    PROVE  /\ \A i, j \in 1..Len(events) : i <= j => BatchStart(events)[i] <= BatchStart(events)[j]
           /\ \A i \in 1..Len(events) :
                 BatchStart(events)[BatchStart(events)[i]] = BatchStart(events)[i]
  <1> DEFINE N == Len(events)
             s == BatchStart(events)
  <1>1. N \in Nat
    OBVIOUS
  <1>2. \A i \in 1..N : s[i] \in 1..i
    BY BatchStarts
  <1>3. \A i \in 2..N : s[i] = i \/ s[i] = s[i - 1]
    BY BatchStarts
  <1> HIDE DEF s
  <1>4. ASSUME NEW i \in 1..N, NEW j \in 1..N, i <= j
        PROVE  s[i] <= s[j]
    <2> DEFINE Bad == {k \in i..N : ~(s[i] <= s[k])}
    <2> SUFFICES Bad = {}
      BY <1>1, <1>4
    <2> SUFFICES ASSUME Bad # {} PROVE FALSE
      OBVIOUS
    <2>1. PICK n \in Bad : \A y \in Bad : n <= y
      <3>1. Bad \in SUBSET Nat
        BY <1>1
      <3> HIDE DEF Bad
      <3> QED BY <3>1, NatHasMin
    <2>2. n # i
      BY <1>2, <2>1
    <2>3. n \in 2..N /\ n - 1 \in i..N /\ n - 1 \notin Bad
      BY <1>1, <2>1, <2>2
    <2> QED BY <1>1, <1>2, <1>3, <2>1, <2>3
  <1> DEFINE Odd == {i \in 1..N : s[s[i]] # s[i]}
  <1>5. Odd = {}
    <2> SUFFICES ASSUME Odd # {} PROVE FALSE
      OBVIOUS
    <2>1. PICK n \in Odd : \A y \in Odd : n <= y
      <3>1. Odd \in SUBSET Nat
        BY <1>1
      <3> HIDE DEF Odd
      <3> QED BY <3>1, NatHasMin
    <2>2. s[n] # n
      BY <2>1
    <2>3. n # 1
      BY <1>2, <2>1, <2>2
    <2>4. n \in 2..N /\ n - 1 \in 1..N /\ n - 1 \notin Odd
      BY <1>1, <2>1, <2>3
    <2>5. s[n] = s[n - 1]
      BY <1>3, <2>2, <2>4
    <2> QED BY <2>1, <2>4, <2>5
  <1> QED BY <1>4, <1>5 DEF s

\* A batch ends before the first event of the next, and all its events have its
\* start.
LEMMA BatchEnds ==
    ASSUME NEW events \in Seq(Event), NEW i \in 1..Len(events)
    PROVE  /\ BatchEnd(events, i) \in i..Len(events)
           /\ \/ BatchEnd(events, i) = Len(events)
              \/ BatchStart(events)[BatchEnd(events, i) + 1] = BatchEnd(events, i) + 1
           /\ \A k \in i..BatchEnd(events, i) : BatchStart(events)[k] = BatchStart(events)[i]
  <1> DEFINE N == Len(events)
             s == BatchStart(events)
             In == {j \in i..N : s[j] = s[i]}
             Rest == {N - j : j \in In}
             Ends(e) == s[e] = s[i] /\ (e = N \/ s[e + 1] = e + 1)
  <1>1. N \in Nat /\ i \in Nat
    OBVIOUS
  <1>2. \A j \in 1..N : s[j] \in 1..j
    BY BatchStarts
  <1>3. \A j \in 2..N : s[j] = j \/ s[j] = s[j - 1]
    BY BatchStarts
  <1>4. \A j, k \in 1..N : j <= k => s[j] <= s[k]
    BY BatchesAscend
  <1>5. BatchEnd(events, i) = CHOOSE e \in i..N : Ends(e)
    BY DEF BatchEnd
  <1> HIDE DEF s
  <1>6. \E e \in i..N : Ends(e)
    <2>1. Rest \in SUBSET Nat
      BY <1>1
    <2>2. i \in In
      BY <1>1
    <2>3. N - i \in Rest
      BY <2>2
    <2>4. PICK t \in Rest : \A y \in Rest : t <= y
      <3> HIDE DEF Rest
      <3> QED BY <2>1, <2>3, NatHasMin
    <2>5. PICK e \in In : t = N - e
      BY <2>4
    <2>6. ASSUME e # N
          PROVE  s[e + 1] = e + 1
      <3>1. e + 1 \in 2..N /\ e + 1 \in i..N
        BY <1>1, <2>5, <2>6
      <3>2. e + 1 \notin In
        <4>1. N - (e + 1) < t
          BY <1>1, <2>5, <3>1
        <4> HIDE DEF In
        <4>2. e + 1 \in In => N - (e + 1) \in Rest
          OBVIOUS
        <4> HIDE DEF Rest
        <4> QED BY <1>1, <2>1, <2>4, <3>1, <4>1, <4>2
      <3>3. s[e + 1] # s[e]
        BY <2>5, <3>1, <3>2
      <3>4. (e + 1) - 1 = e
        BY <1>1, <2>5
      <3> QED BY <1>3, <3>1, <3>3, <3>4
    <2> QED BY <2>5, <2>6
  <1> DEFINE e == BatchEnd(events, i)
  <1>7. e \in i..N /\ Ends(e)
    <2> HIDE DEF Ends
    <2> QED BY <1>5, <1>6
  <1>8. \A k \in i..e : s[k] = s[i]
    <2> SUFFICES ASSUME NEW k \in i..e
                 PROVE  s[k] = s[i]
      OBVIOUS
    <2>1. s[i] <= s[k] /\ s[k] <= s[e]
      BY <1>1, <1>4, <1>7
    <2>2. s[i] \in Nat /\ s[k] \in Nat /\ s[e] = s[i]
      BY <1>1, <1>2, <1>7
    <2> QED BY <2>1, <2>2
  <1> QED BY <1>7, <1>8 DEF s

\* Only the first transaction of a batch replaces anything.
LEMMA OnlyHeadsReplace ==
    ASSUME NEW p \in Passes, NEW events \in Seq(Event), NEW i \in 1..Len(events),
           NEW k \in (i + 1)..BatchEnd(events, i)
    PROVE  Replaced(p, events, k) = {}
  <1>1. k \in 1..Len(events) /\ k # 1 /\ i \in Nat
    BY BatchEnds
  <1>2. BatchStart(events)[k] = BatchStart(events)[i] /\ BatchStart(events)[i] \in 1..i
    BY <1>1, BatchEnds, BatchStarts
  <1>3. BatchStart(events)[k] # k
    BY <1>1, <1>2
  <1> QED BY <1>1, <1>3 DEF Replaced

\* Every file a pass read whole is replaced by one of its transactions.
LEMMA EveryFileIsReplaced ==
    ASSUME NEW p \in Passes, NEW events \in Seq(Event), events # << >>,
           NEW f \in pass[p].whole
    PROVE  \E k \in 1..Len(events) : f \in Replaced(p, events, k)
  <1> DEFINE N == Len(events)
             s == BatchStart(events)
             own == {j \in 1..N : events[j].file = f}
  <1>1. N \in Nat /\ N >= 1
    OBVIOUS
  <1>2. \A i \in 1..N : s[i] \in 1..i /\ s[s[i]] = s[i]
    BY BatchStarts, BatchesAscend
  \* The batch that begins where an event's batch does contains the event.
  <1>3. ASSUME NEW j \in 1..N
        PROVE  s[j] \in 1..N /\ j \in s[j]..BatchEnd(events, s[j])
    <2> DEFINE k == s[j]
               e == BatchEnd(events, k)
    <2>1. k \in 1..j /\ k \in 1..N /\ s[k] = k
      BY <1>1, <1>2
    <2>2. e \in k..N /\ (e = N \/ s[e + 1] = e + 1)
      BY <2>1, BatchEnds
    <2>3. \A a, b \in 1..N : a <= b => s[a] <= s[b]
      BY BatchesAscend
    <2>4. j <= e
      <3> SUFFICES ASSUME e < j PROVE FALSE
        BY <1>1, <2>2
      <3>1. e + 1 \in 1..N /\ e + 1 <= j /\ e # N
        BY <1>1, <2>1, <2>2
      <3>2. s[e + 1] <= s[j]
        BY <2>3, <3>1
      <3>3. e + 1 <= k
        BY <2>2, <3>1, <3>2
      <3> QED BY <1>1, <2>1, <2>2, <3>3
    <2> QED BY <1>1, <2>1, <2>2, <2>4
  <1>4. CASE own = {}
    <2> DEFINE k == s[N]
    <2>1. k \in 1..N /\ N \in k..BatchEnd(events, k) /\ s[k] = k
      BY <1>1, <1>2, <1>3
    <2>2. BatchEnd(events, k) = N
      BY <1>1, <2>1, BatchEnds
    <2>3. f \in Replaced(p, events, k)
      BY <1>4, <2>1, <2>2 DEF Replaced
    <2> QED BY <2>1, <2>3
  <1>5. CASE own # {}
    <2>1. PICK j \in own : \A y \in own : j <= y
      <3>1. own \in SUBSET Nat
        BY <1>1
      <3> HIDE DEF own
      <3> QED BY <1>5, <3>1, NatHasMin
    <2> DEFINE k == s[j]
    <2>2. k \in 1..N /\ j \in k..BatchEnd(events, k) /\ s[k] = k
      BY <1>1, <1>2, <1>3, <2>1
    <2>3. f \in Replaced(p, events, k)
      BY <1>5, <2>1, <2>2 DEF Replaced
    <2> QED BY <2>2, <2>3
  <1> QED BY <1>4, <1>5

-----------------------------------------------------------------------------
(* The agents and the scan.                                                *)

\* The count of a line or an event is a number that can be compared.
LEMMA OutputsAreNumbers ==
    /\ \A line \in Line : line.id \in Ids /\ line.out \in Nat \ {0}
    /\ \A e \in Event : e.id \in Ids /\ e.out \in Nat \ {0} /\ e.file \in FileSet
  BY ContentsAssumption DEF Line, Event

\* Every file starts out as an agent may have left it, on its first inode.
LEMMA InitialDisk ==
    ASSUME Init
    PROVE  /\ disk \in [FileSet -> Inode]
           /\ \A f \in FileSet : disk[f].mtime = 0 /\ disk[f].lines \in Contents[f] \cup {<< >>}
  <1>1. PICK text \in Texts :
            disk = [f \in FileSet |->
               [ino |-> 1, mtime |-> 0, lines |-> text[f], rewritten |-> FALSE]]
    BY DEF Init
  <1>2. \A f \in FileSet : text[f] \in Contents[f] \cup {<< >>}
    BY DEF Texts
  <1>3. ASSUME NEW f \in FileSet PROVE text[f] \in Seq(Line)
    <2>1. text[f] = << >> \/ text[f] \in Contents[f]
      BY <1>2
    <2>2. << >> \in Seq(Line) /\ Contents[f] \subseteq Seq(Line)
      BY ContentsAssumption
    <2> QED BY <2>1, <2>2, Zenon
  <1>4. \A f \in FileSet :
            [ino |-> 1, mtime |-> 0, lines |-> text[f], rewritten |-> FALSE] \in Inode
    BY <1>3 DEF Inode
  <1> QED BY <1>1, <1>2, <1>4

\* The ledger starts out empty.
LEMMA IngestInitInv == Init => IngestInv
  <1> SUFFICES ASSUME Init PROVE IngestInv
    OBVIOUS
  <1>1. Idle \in Pass /\ Idle.active = FALSE /\ Idle.events = << >> /\ Idle.marks = {}
        /\ Idle.whole = {} /\ Idle.next = 1 /\ Idle.at = 1 /\ Idle.stat = NoStat
    BY FilesAssumption DEF Idle, Pass, Stat, NoStat
  <1>2. \A p \in Passes : pass[p] = Idle
    BY DEF Init
  <1>3. IngestTypes
    BY <1>1, InitialDisk DEF Init, IngestTypes, NotLost
  <1>4. \A p \in Passes : PassTells(p)
    BY <1>1, <1>2 DEF PassTells, Landing, Scanning
  <1>5. MarksAreSingle /\ StatsAreTrue /\ MarksAreTrue /\ MarksLand /\ EventsAreRead
        /\ RowsAreKnown
    BY <1>1, <1>2 DEF Init, MarksAreSingle, StatsAreTrue, MarksAreTrue, MarksLand,
       EventsAreRead, RowsAreKnown
  <1> QED BY <1>3, <1>4, <1>5 DEF IngestInv

\* An edit: the modification time moves; unless the inode changes too, the file
\* counts as rewritten or the old lines are where they were.
LEMMA EditStep ==
    ASSUME IngestInv, NEW f \in FileSet, NEW c \in Contents[f],
           NEW ino \in Nat, NEW rewritten \in BOOLEAN,
           Write(f, c, ino, rewritten),
           \/ ino = disk[f].ino + 1
           \/ /\ ino = disk[f].ino
              /\ rewritten \/ (rewritten = disk[f].rewritten /\ IsStart(disk[f].lines, c))
    PROVE  IngestInv'
  <1>1. c \in Seq(Line)
    BY ContentsAssumption
  <1>2. disk \in [FileSet -> Inode] /\ disk[f] \in Inode
    BY DEF IngestInv, IngestTypes
  <1> DEFINE d == [ino |-> ino, mtime |-> disk[f].mtime + 1, lines |-> c, rewritten |-> rewritten]
  <1>3. disk' = [disk EXCEPT ![f] = d]
    BY DEF Write
  <1>4. UNCHANGED <<index, owner, count, pass, lost, cut>>
    BY DEF Write
  <1>5. d \in Inode
    BY <1>1, <1>2 DEF Inode
  <1>6. disk'[f] = d /\ \A g \in FileSet \ {f} : disk'[g] = disk[g]
    BY <1>2, <1>3
  <1>7. IngestTypes'
    BY <1>3, <1>4, <1>5 DEF IngestInv, IngestTypes
  <1>8. (\A p \in Passes : PassTells(p))' /\ MarksAreSingle' /\ MarksLand' /\ EventsAreRead'
    BY <1>4 DEF IngestInv, PassTells, Scanning, Landing, Opened, MarksAreSingle,
       MarksLand, Landed, Ahead, EventsAreRead
  <1>9. ASSUME NEW g \in FileSet, NEW s, s.ino \in Nat, s.mtime \in Nat, StatTells(g, s)
        PROVE  StatTells(g, s)'
    <2>1. CASE g # f
      BY <1>6, <1>9, <2>1 DEF StatTells
    <2>2. CASE g = f
      BY <1>2, <1>6, <1>9, <2>2 DEF StatTells, Inode
    <2> QED BY <2>1, <2>2
  <1>10. StatsAreTrue'
    <2> SUFFICES ASSUME NEW p \in Passes, pass[p].stat # NoStat
                 PROVE  StatTells(File(p), pass[p].stat)'
      BY <1>4 DEF StatsAreTrue, File
    <2>1. pass[p] \in Pass /\ Scanning(p) /\ StatTells(File(p), pass[p].stat)
      BY DEF IngestInv, IngestTypes, PassTells, StatsAreTrue
    <2>2. File(p) \in FileSet
      BY <2>1, FilesAssumption DEF Pass, Scanning, File, FileSet
    <2>3. pass[p].stat.ino \in Nat /\ pass[p].stat.mtime \in Nat
      BY <2>1 DEF Pass, Stat
    <2>4. pass'[p] = pass[p] /\ File(p)' = File(p)
      BY <1>4 DEF File
    <2> QED BY <1>9, <2>1, <2>2, <2>3, <2>4 DEF StatTells
  <1>11. ASSUME NEW g \in FileSet, NEW m \in Watermark, MarkTells(g, m)
         PROVE  MarkTells(g, m)' /\ (Fits(g, m)' => Fits(g, m))
    <2>1. CASE g # f
      BY <1>6, <1>11, <2>1 DEF MarkTells, StatTells, Fits
    <2>2. CASE g = f
      <3>1. m.ino \in Nat /\ m.mtime \in Nat /\ m.seen \in Seq(Line) /\ Len(m.seen) \in Nat
        BY DEF Watermark
      <3>2. m.ino <= disk[f].ino /\ m.mtime <= disk[f].mtime /\ disk[f].ino \in Nat
            /\ disk[f].mtime \in Nat /\ disk[f].lines \in Seq(Line)
        BY <1>2, <1>11, <2>2 DEF MarkTells, StatTells, Inode
      <3>3. disk'[f].mtime # m.mtime
        BY <1>6, <3>1, <3>2
      <3>4. StatTells(g, m)'
        BY <1>9, <1>11, <3>1 DEF MarkTells
      <3>5. Fits(g, m)' => Fits(g, m) /\ IsStart(disk[f].lines, c)
        BY <1>6, <2>2, <3>1, <3>2 DEF Fits
      <3>6. Fits(g, m)' => IsStart(m.seen, c)
        <4> SUFFICES ASSUME Fits(g, m)' PROVE IsStart(m.seen, c)
          OBVIOUS
        <4>1. IsStart(m.seen, disk[f].lines) /\ IsStart(disk[f].lines, c)
          BY <1>11, <2>2, <3>5 DEF MarkTells
        <4>2. Len(m.seen) <= Len(disk[f].lines) /\ Len(disk[f].lines) <= Len(c)
              /\ Len(disk[f].lines) \in Nat /\ Len(c) \in Nat
          BY <1>1, <3>2, <4>1 DEF IsStart
        <4>3. ASSUME NEW i \in 1..Len(m.seen)
              PROVE  m.seen[i] = c[i]
          <5>1. i \in 1..Len(disk[f].lines)
            BY <3>1, <4>2
          <5> QED BY <4>1, <4>3, <5>1 DEF IsStart
        <4> QED BY <3>1, <4>2, <4>3 DEF IsStart
      <3> QED BY <1>6, <1>11, <2>2, <3>3, <3>4, <3>5, <3>6 DEF MarkTells
    <2> QED BY <2>1, <2>2
  <1>12. /\ \A g \in FileSet : index[g] \in SUBSET Watermark
         /\ \A p \in Passes : pass[p].marks \in SUBSET Watermark
         /\ \A m \in Watermark : m.file \in FileSet
    BY DEF IngestInv, IngestTypes, Pass, Watermark
  <1>13. MarksAreTrue'
    BY <1>4, <1>11, <1>12 DEF IngestInv, MarksAreTrue
  <1>14. ASSUME NEW g \in FileSet, NEW m \in Watermark, MarkTells(g, m), Fits(g, m)', Known(g)
         PROVE  Known(g)'
    <2>1. CASE g # f
      BY <1>4, <1>6, <1>14, <2>1 DEF Known
    <2>2. CASE g = f
      <3>1. m.ino \in Nat /\ disk[f].ino \in Nat /\ m.ino <= disk[f].ino
        BY <1>2, <1>14, <2>2 DEF Watermark, MarkTells, StatTells, Inode
      <3>2. IsStart(disk[f].lines, c)
        BY <1>6, <1>14, <2>2, <3>1 DEF Fits
      <3>3. Len(disk[f].lines) \in Nat /\ Len(c) \in Nat
        BY <1>1, <1>2 DEF Inode
      <3> QED BY <1>4, <1>6, <1>14, <2>2, <3>2, <3>3 DEF Known, IsStart
    <2> QED BY <2>1, <2>2
  <1>15. RowsAreKnown'
    <2>1. \A g \in FileSet : Quiet(g)' = Quiet(g)
      BY <1>4 DEF Quiet, Amid, Opened
    <2>2. \A p \in Passes : \A g : QuietBut(p, g)' = QuietBut(p, g) /\ Past(p, g)' = Past(p, g)
      BY <1>4 DEF QuietBut, Past, Amid, Opened, Replaced
    <2>3. ASSUME NEW g \in FileSet, NEW w \in index[g], Quiet(g), Fits(g, w)'
          PROVE  Known(g)'
      BY <1>11, <1>12, <1>14, <2>3 DEF IngestInv, MarksAreTrue, RowsAreKnown
    <2>4. ASSUME NEW p \in Passes, NEW m \in pass[p].marks,
                 QuietBut(p, m.file), Fits(m.file, m)',
                 m.file \in pass[p].whole => Past(p, m.file)
          PROVE  Known(m.file)'
      <3>1. m \in Watermark /\ m.file \in FileSet /\ MarkTells(m.file, m)
        BY <1>12 DEF IngestInv, MarksAreTrue
      <3>2. Fits(m.file, m)
        BY <1>11, <2>4, <3>1
      <3>3. Known(m.file)
        BY <2>4, <3>2 DEF IngestInv, RowsAreKnown
      <3> QED BY <1>14, <2>4, <3>1, <3>3
    <2>5. index' = index /\ pass' = pass
      BY <1>4
    <2> QED BY <2>1, <2>2, <2>3, <2>4, <2>5 DEF RowsAreKnown
  <1> QED BY <1>7, <1>8, <1>10, <1>13, <1>15 DEF IngestInv

\* What a pass has replaced depends on the pass alone.
LEMMA PastStands ==
    ASSUME NEW p \in Passes, pass'[p].events = pass[p].events,
           pass'[p].whole = pass[p].whole, pass'[p].next = pass[p].next
    PROVE  \A f : Past(p, f)' = Past(p, f)
  <1>1. \A e, k : Replaced(p, e, k)' = Replaced(p, e, k)
    BY DEF Replaced
  <1>2. \A k : Replaced(p, pass[p].events, k)' = Replaced(p, pass[p].events, k)
    BY <1>1
  <1> QED BY <1>2 DEF Past

\* A pass begins with nothing in hand.
LEMMA StartStep ==
    ASSUME IngestInv, NEW p \in Passes, NEW changed_only \in BOOLEAN, Start(p, changed_only)
    PROVE  IngestInv'
  <1> DEFINE r == [Idle EXCEPT !.active = TRUE, !.changed_only = changed_only]
  <1>1. pass[p] = Idle
    BY DEF Start, IngestInv, PassTells
  <1>2. /\ r \in Pass /\ r.at = 1 /\ r.stat = NoStat /\ r.events = << >> /\ r.whole = {}
        /\ r.marks = {} /\ r.next = 1 /\ r.active
    <2>1. Idle \in Pass
      BY FilesAssumption DEF Idle, Pass, Stat, NoStat
    <2>2. CASE changed_only = TRUE
      <3>1. r = [Idle EXCEPT !.active = TRUE, !.changed_only = TRUE]
        BY <2>2, Zenon
      <3> HIDE DEF r
      <3> QED BY <2>1, <3>1 DEF Idle, Pass
    <2>3. CASE changed_only = FALSE
      <3>1. r = [Idle EXCEPT !.active = TRUE, !.changed_only = FALSE]
        BY <2>3, Zenon
      <3> HIDE DEF r
      <3> QED BY <2>1, <3>1 DEF Idle, Pass
    <2> HIDE DEF r
    <2> QED BY <2>2, <2>3, Zenon
  <1>3. Idle.marks = {} /\ Idle.next = 1 /\ Idle.at = 1 /\ Idle.stat = NoStat
    BY DEF Idle
  <1>4. pass \in [Passes -> Pass] /\ pass' = [pass EXCEPT ![p] = r]
    BY DEF Start, IngestInv, IngestTypes
  <1> HIDE DEF r
  <1>5. pass'[p] = r /\ \A q \in Passes \ {p} : pass'[q] = pass[q]
    BY <1>4
  <1>6. UNCHANGED <<disk, index, owner, count, lost, cut>>
    BY DEF Start
  <1>7. IngestTypes'
    BY <1>2, <1>4, <1>6 DEF IngestInv, IngestTypes
  <1>8. ASSUME NEW q \in Passes
        PROVE  PassTells(q)'
    <2>1. CASE q = p
      BY <1>2, <1>5, <2>1, FilesAssumption DEF PassTells, Scanning, Landing
    <2>2. CASE q # p
      <3>1. PassTells(q)
        BY DEF IngestInv
      <3> QED BY <1>5, <2>2, <3>1 DEF PassTells, Scanning, Landing, Opened
    <2> QED BY <2>1, <2>2
  <1>9. MarksAreSingle' /\ MarksAreTrue' /\ MarksLand' /\ EventsAreRead'
    <2>1. MarksAreSingle'
      BY <1>2, <1>5, <1>6 DEF IngestInv, MarksAreSingle
    <2>2. \A f, m : MarkTells(f, m)' = MarkTells(f, m)
      BY <1>6 DEF MarkTells, StatTells, Fits
    <2>3. MarksAreTrue'
      BY <1>2, <1>5, <1>6, <2>2 DEF IngestInv, MarksAreTrue
    <2>4. \A q \in Passes \ {p} : \A line : Landed(line)' = Landed(line) /\ Ahead(q, line)' = Ahead(q, line)
      BY <1>5, <1>6 DEF Landed, Ahead
    <2>5. \A line : Landed(line)' = Landed(line)
      BY <1>6 DEF Landed
    <2>6. MarksLand'
      BY <1>2, <1>5, <1>6, <2>4, <2>5 DEF IngestInv, MarksLand
    <2>7. EventsAreRead'
      <3>1. EventsAreRead
        BY DEF IngestInv
      <3>2. pass'[p].events = << >>
        BY <1>2, <1>5
      <3> QED BY <1>5, <3>1, <3>2 DEF EventsAreRead
    <2> QED BY <2>1, <2>3, <2>6, <2>7
  <1>10. StatsAreTrue'
    BY <1>2, <1>5, <1>6 DEF IngestInv, StatsAreTrue, StatTells, File
  <1>11. RowsAreKnown'
    <2>1. \A q \in Passes, f \in FileSet : Amid(q, f)' = Amid(q, f)
      BY <1>1, <1>2, <1>3, <1>5 DEF Amid, Opened
    <2>2. \A f \in FileSet : Quiet(f)' = Quiet(f) /\ Known(f)' = Known(f)
      BY <1>6, <2>1 DEF Quiet, Known
    <2>3. \A q \in Passes, f \in FileSet : QuietBut(q, f)' = QuietBut(q, f)
      BY <1>6, <2>1 DEF QuietBut
    <2>4. \A q \in Passes \ {p} : \A f \in FileSet : Past(q, f)' = Past(q, f)
      BY <1>5, PastStands
    <2>5. \A q \in Passes : \A m \in pass[q].marks : m.file \in FileSet
      BY DEF IngestInv, IngestTypes, Pass, Watermark
    <2>6. \A f \in FileSet : \A m : Fits(f, m)' = Fits(f, m)
      BY <1>6 DEF Fits
    <2> QED BY <1>2, <1>5, <1>6, <2>2, <2>3, <2>4, <2>5, <2>6 DEF IngestInv, RowsAreKnown
  <1> QED BY <1>7, <1>8, <1>9, <1>10, <1>11 DEF IngestInv

\* A stat tells of the file as it is.
LEMMA StatStep ==
    ASSUME IngestInv, NEW p \in Passes, StatFile(p)
    PROVE  IngestInv'
  <1> DEFINE s == FileState(File(p))
             r == [pass[p] EXCEPT !.stat = s]
  <1>1. pass \in [Passes -> Pass] /\ pass[p] \in Pass /\ disk \in [FileSet -> Inode]
    BY DEF IngestInv, IngestTypes
  <1>2. File(p) \in FileSet /\ Scanning(p)
    BY <1>1, FilesAssumption DEF StatFile, Pass, Scanning, File, FileSet
  <1>3. s \in Stat /\ StatTells(File(p), s)
    BY <1>1, <1>2 DEF Inode, Stat, FileState, StatTells
  <1>4. pass' = [pass EXCEPT ![p] = r]
    BY DEF StatFile
  <1>5. /\ r \in Pass /\ r.stat = s /\ r.active = pass[p].active /\ r.at = pass[p].at
        /\ r.events = pass[p].events /\ r.whole = pass[p].whole /\ r.marks = pass[p].marks
        /\ r.next = pass[p].next
    BY <1>1, <1>3 DEF Pass
  <1> HIDE DEF r, s
  <1>6. pass'[p] = r /\ \A q \in Passes \ {p} : pass'[q] = pass[q]
    BY <1>1, <1>4
  <1>7. \A q \in Passes : /\ pass'[q].active = pass[q].active /\ pass'[q].at = pass[q].at
                          /\ pass'[q].events = pass[q].events /\ pass'[q].whole = pass[q].whole
                          /\ pass'[q].marks = pass[q].marks /\ pass'[q].next = pass[q].next
    BY <1>5, <1>6
  <1>8. UNCHANGED <<disk, index, owner, count, lost, cut>>
    BY DEF StatFile
  <1>9. IngestTypes'
    BY <1>1, <1>4, <1>5, <1>8 DEF IngestInv, IngestTypes
  <1>10. ASSUME NEW q \in Passes
         PROVE  PassTells(q)'
    <2>1. PassTells(q)
      BY DEF IngestInv
    <2>2. CASE q = p
      BY <1>2, <1>7, <2>1, <2>2 DEF PassTells, Scanning, Landing, Opened
    <2>3. CASE q # p
      BY <1>6, <2>1, <2>3 DEF PassTells, Scanning, Landing, Opened
    <2> QED BY <2>2, <2>3
  <1>11. MarksAreSingle' /\ MarksAreTrue' /\ MarksLand' /\ EventsAreRead'
    <2>1. MarksAreSingle'
      BY <1>7, <1>8 DEF IngestInv, MarksAreSingle
    <2>2. \A f, m : MarkTells(f, m)' = MarkTells(f, m)
      BY <1>8 DEF MarkTells, StatTells, Fits
    <2>3. MarksAreTrue'
      BY <1>7, <1>8, <2>2 DEF IngestInv, MarksAreTrue
    <2>4. \A q \in Passes : \A line : Landed(line)' = Landed(line) /\ Ahead(q, line)' = Ahead(q, line)
      BY <1>7, <1>8 DEF Landed, Ahead
    <2>5. \A line : Landed(line)' = Landed(line)
      BY <1>8 DEF Landed
    <2>6. MarksLand'
      BY <1>7, <1>8, <2>4, <2>5 DEF IngestInv, MarksLand
    <2>7. EventsAreRead'
      <3> SUFFICES ASSUME NEW q \in Passes, NEW j \in 1..Len(pass'[q].events)
                   PROVE  \E m \in pass'[q].marks :
                              /\ m.file = pass'[q].events[j].file
                              /\ \E i \in 1..Len(m.seen) : m.seen[i].id = pass'[q].events[j].id
        BY DEF EventsAreRead
      <3>1. pass'[q].events = pass[q].events /\ pass'[q].marks = pass[q].marks
        BY <1>7
      <3>2. j \in 1..Len(pass[q].events)
        BY <3>1
      <3>3. PICK m \in pass[q].marks :
               /\ m.file = pass[q].events[j].file
               /\ \E i \in 1..Len(m.seen) : m.seen[i].id = pass[q].events[j].id
        BY <3>2 DEF IngestInv, EventsAreRead
      <3> QED BY <3>1, <3>3
    <2> QED BY <2>1, <2>3, <2>6, <2>7
  <1>12. StatsAreTrue'
    BY <1>3, <1>5, <1>6, <1>7, <1>8, SMTT(60) DEF IngestInv, StatsAreTrue, StatTells, File
  <1>13. RowsAreKnown'
    <2>1. \A q \in Passes, f \in FileSet : Amid(q, f)' = Amid(q, f)
      BY <1>7 DEF Amid, Opened
    <2>2. \A f \in FileSet : Quiet(f)' = Quiet(f) /\ Known(f)' = Known(f)
      BY <1>8, <2>1 DEF Quiet, Known
    <2>3. \A q \in Passes, f \in FileSet : QuietBut(q, f)' = QuietBut(q, f)
      BY <1>8, <2>1 DEF QuietBut
    <2>4. \A q \in Passes : \A f \in FileSet : Past(q, f)' = Past(q, f)
      BY <1>7, PastStands
    <2>5. \A q \in Passes : \A m \in pass[q].marks : m.file \in FileSet
      BY DEF IngestInv, IngestTypes, Pass, Watermark
    <2>6. \A f \in FileSet : \A m : Fits(f, m)' = Fits(f, m)
      BY <1>8 DEF Fits
    <2> QED BY <1>7, <1>8, <2>2, <2>3, <2>4, <2>5, <2>6 DEF IngestInv, RowsAreKnown
  <1> QED BY <1>9, <1>10, <1>11, <1>12, <1>13 DEF IngestInv

\* A pass that dies leaves its files cut if it had begun to land.
LEMMA FailStep ==
    ASSUME IngestInv, NEW p \in Passes, Fail(p)
    PROVE  IngestInv'
  <1>1. /\ Idle \in Pass /\ Idle.at = 1 /\ Idle.stat = NoStat /\ Idle.events = << >>
        /\ Idle.whole = {} /\ Idle.marks = {} /\ Idle.next = 1 /\ Idle.active = FALSE
    BY FilesAssumption DEF Idle, Pass, Stat, NoStat
  <1>2. pass \in [Passes -> Pass] /\ pass' = [pass EXCEPT ![p] = Idle]
    BY DEF Fail, IngestInv, IngestTypes
  <1>3. pass'[p] = Idle /\ \A q \in Passes \ {p} : pass'[q] = pass[q]
    BY <1>2
  <1>4. UNCHANGED <<disk, index, owner, count, lost>>
    BY DEF Fail
  <1>5. cut' \in SUBSET FileSet /\ cut \subseteq cut'
        /\ \A f \in FileSet : Amid(p, f) => f \in cut'
    <2>1. \A m \in pass[p].marks : m.file \in FileSet
      BY DEF IngestInv, IngestTypes, Pass, Watermark
    <2> QED BY <2>1 DEF Fail, IngestInv, IngestTypes, Amid, Opened
  <1>6. IngestTypes'
    BY <1>1, <1>2, <1>4, <1>5 DEF IngestInv, IngestTypes
  <1>7. ASSUME NEW q \in Passes
         PROVE  PassTells(q)'
    <2>1. PassTells(q)
      BY DEF IngestInv
    <2>2. CASE q = p
      BY <1>1, <1>3, <2>2 DEF PassTells, Scanning, Landing
    <2>3. CASE q # p
      BY <1>3, <2>1, <2>3 DEF PassTells, Scanning, Landing, Opened
    <2> QED BY <2>2, <2>3
  <1>8. MarksAreSingle' /\ MarksAreTrue' /\ EventsAreRead'
    <2>1. MarksAreSingle'
      BY <1>1, <1>3, <1>4 DEF IngestInv, MarksAreSingle
    <2>2. \A f, m : MarkTells(f, m)' = MarkTells(f, m)
      BY <1>4 DEF MarkTells, StatTells, Fits
    <2>3. MarksAreTrue'
      BY <1>1, <1>3, <1>4, <2>2 DEF IngestInv, MarksAreTrue
    <2>4. EventsAreRead'
      BY <1>1, <1>3, SMTT(60) DEF IngestInv, EventsAreRead
    <2> QED BY <2>1, <2>3, <2>4
  <1>9. MarksLand'
    <2>1. \A line \in Line : Landed(line) => Landed(line)'
      BY <1>4 DEF Landed
    <2>2. /\ \A f \in FileSet : \A w \in index[f] : w.seen \in Seq(Line)
          /\ \A q \in Passes : \A m \in pass[q].marks : m.seen \in Seq(Line)
      BY DEF IngestInv, IngestTypes, Pass, Watermark
    <2>3. \A q \in Passes \ {p} : \A line \in Line : Ahead(q, line)' = Ahead(q, line)
      BY <1>3 DEF Ahead
    <2>4. \A f \in FileSet : \A w \in index[f] : \A i \in 1..Len(w.seen) : w.seen[i] \in Line
      BY <2>2
    <2>5. \A q \in Passes : \A m \in pass[q].marks : \A i \in 1..Len(m.seen) : m.seen[i] \in Line
      BY <2>2
    <2> QED BY <1>1, <1>3, <1>4, <2>1, <2>3, <2>4, <2>5 DEF IngestInv, MarksLand
  <1>10. StatsAreTrue'
    BY <1>1, <1>3, <1>4 DEF IngestInv, StatsAreTrue, StatTells, File
  <1>11. RowsAreKnown'
    <2>1. \A q \in Passes \ {p} : \A f \in FileSet : Amid(q, f)' = Amid(q, f)
      BY <1>3 DEF Amid, Opened
    <2>2. \A f \in FileSet : (Quiet(f)' => Quiet(f)) /\ Known(f)' = Known(f)
      BY <1>4, <1>5, <2>1 DEF Quiet, Known
    <2>3. \A q \in Passes \ {p}, f \in FileSet : QuietBut(q, f)' => QuietBut(q, f)
      BY <1>5, <2>1 DEF QuietBut
    <2>4. \A q \in Passes \ {p} : \A f \in FileSet : Past(q, f)' = Past(q, f)
      BY <1>3, PastStands
    <2>5. \A q \in Passes : \A m \in pass[q].marks : m.file \in FileSet
      BY DEF IngestInv, IngestTypes, Pass, Watermark
    <2>6. \A f \in FileSet : \A m : Fits(f, m)' = Fits(f, m)
      BY <1>4 DEF Fits
    <2> QED BY <1>1, <1>3, <1>4, <2>2, <2>3, <2>4, <2>5, <2>6 DEF IngestInv, RowsAreKnown
  <1> QED BY <1>6, <1>7, <1>8, <1>9, <1>10, <1>11 DEF IngestInv

\* r is what becomes of a pass that turns to the next file with these events,
\* replaced files and watermarks: its events stand for those given, one per
\* identity once the scan is over.
Turned(p, r, ev, W, M) ==
    /\ r \in Pass
    /\ r.active = TRUE /\ r.at = pass[p].at + 1 /\ r.stat = NoStat /\ r.next = 1
    /\ r.whole = W /\ r.marks = M
    /\ \A k \in 1..Len(r.events) : \E i \in 1..Len(ev) : r.events[k] = ev[i]
    /\ \A i \in 1..Len(ev) : \E k \in 1..Len(r.events) :
          r.events[k].id = ev[i].id /\ r.events[k].out >= ev[i].out
    /\ r.at > Len(Files) =>
          \A i, j \in 1..Len(r.events) : r.events[i].id = r.events[j].id => i = j

\* NextFile turns the pass.
LEMMA NextFileTurns ==
    ASSUME IngestInv, NEW p \in Passes, Scanning(p), NEW ev \in Seq(Event),
           NEW W \in SUBSET FileSet, NEW M \in SUBSET Watermark
    PROVE  Turned(p, [NextFile(p, ev) EXCEPT !.whole = W, !.marks = M], ev, W, M)
  <1> DEFINE E == IF pass[p].at = Len(Files) THEN deduplicate(ev) ELSE ev
             c == pass[p].changed_only /\ pass[p].at < Len(Files)
             r == [NextFile(p, ev) EXCEPT !.whole = W, !.marks = M]
  <1>1. /\ pass[p] \in Pass /\ pass[p].next = 1 /\ pass[p].active = TRUE
        /\ pass[p].at <= Len(Files) /\ pass[p].at \in Nat /\ pass[p].at >= 1 /\ Len(Files) \in Nat
    <2>1. pass[p] \in Pass /\ Len(Files) \in Nat
      BY FilesAssumption DEF IngestInv, IngestTypes
    <2>2. pass[p].at \in 1..(Len(Files) + 1) /\ pass[p].active \in BOOLEAN
      BY <2>1 DEF Pass
    <2> QED BY <2>1, <2>2 DEF IngestInv, PassTells, Scanning
  <1>2. StandsFor(deduplicate(ev), ev, Len(ev))
    BY DeduplicateStandsFor
  <1>3. E \in Seq(Event)
    BY <1>2 DEF StandsFor
  <1>4. c \in BOOLEAN
    OBVIOUS
  <1>5. NoStat \in Stat /\ pass[p].at + 1 \in 1..(Len(Files) + 1)
    BY <1>1 DEF NoStat, Stat
  <1>6. r = [pass[p] EXCEPT !.at = pass[p].at + 1, !.stat = NoStat, !.changed_only = c,
                            !.events = E, !.whole = W, !.marks = M]
    BY <1>1 DEF NextFile, Pass
  <1> HIDE DEF c, E, r
  <1>7. /\ r.at = pass[p].at + 1 /\ r.stat = NoStat /\ r.whole = W /\ r.marks = M
        /\ r.next = 1 /\ r.events = E /\ r.active = TRUE
    BY <1>1, <1>6 DEF Pass
  <1>8. r \in Pass
    BY <1>1, <1>3, <1>4, <1>5, <1>6 DEF Pass
  <1>9. /\ \A k \in 1..Len(E) : \E i \in 1..Len(ev) : E[k] = ev[i]
        /\ \A i \in 1..Len(ev) : \E k \in 1..Len(E) : E[k].id = ev[i].id /\ E[k].out >= ev[i].out
    <2>1. CASE pass[p].at = Len(Files)
      BY <1>2, <2>1 DEF E, StandsFor
    <2>2. CASE pass[p].at # Len(Files)
      <3>1. E = ev
        BY <2>2 DEF E
      <3>2. \A i \in 1..Len(ev) : ev[i].out \in Nat
        BY OutputsAreNumbers
      <3>3. \A n \in Nat : n >= n
        OBVIOUS
      <3> QED BY <3>1, <3>2, <3>3
    <2> QED BY <2>1, <2>2
  <1>10. r.at > Len(Files) => \A i, j \in 1..Len(E) : E[i].id = E[j].id => i = j
    <2>1. r.at > Len(Files) => pass[p].at = Len(Files)
      BY <1>1, <1>7
    <2> QED BY <1>2, <2>1 DEF E, StandsFor
  <1>11. Turned(p, r, ev, W, M)
    BY <1>7, <1>8, <1>9, <1>10, ZenonT(60) DEF Turned
  <1> QED BY <1>11 DEF r

\* What a pass may take from the file it is at: at most one watermark (X), which
\* tells of the file, and the events (in ev) behind what has not landed.
Takes(p, ev, W, X) ==
    /\ pass[p].whole \subseteq W
    /\ W \subseteq pass[p].whole \cup {m.file : m \in X}
    /\ \A m \in X : m.file = File(p) /\ MarkTells(m.file, m) /\ \A n \in X : n = m
    /\ \A i \in 1..Len(pass[p].events) : \E k \in 1..Len(ev) : ev[k] = pass[p].events[i]
    /\ \A k \in 1..Len(ev) :
          \/ \E i \in 1..Len(pass[p].events) : ev[k] = pass[p].events[i]
          \/ \E m \in X : /\ m.file = ev[k].file
                          /\ \E i \in 1..Len(m.seen) : m.seen[i].id = ev[k].id
    /\ \A m \in X : \A i \in 1..Len(m.seen) :
          \/ Landed(m.seen[i])
          \/ \E k \in 1..Len(ev) : ev[k].id = m.seen[i].id /\ ev[k].out >= m.seen[i].out
    /\ \A m \in X : m.file \notin W /\ QuietBut(p, m.file) /\ Fits(m.file, m) => Known(m.file)

\* A pass turns to the next file.
LEMMA ScanStep ==
    ASSUME IngestInv, NEW p \in Passes, Scanning(p), NEW ev \in Seq(Event),
           NEW W \in SUBSET FileSet, NEW X \in SUBSET Watermark, NEW r,
           Turned(p, r, ev, W, pass[p].marks \cup X),
           pass' = [pass EXCEPT ![p] = r],
           UNCHANGED <<disk, index, owner, count, lost, cut>>,
           Takes(p, ev, W, X)
    PROVE  IngestInv'
  <1> DEFINE M == pass[p].marks \cup X
             old == pass[p].events
  <1>1. pass \in [Passes -> Pass] /\ pass[p] \in Pass /\ old \in Seq(Event)
    BY DEF IngestInv, IngestTypes, Pass
  <1>2. pass[p].active /\ pass[p].at \in Nat /\ pass[p].at >= 1 /\ pass[p].at <= Len(Files)
        /\ Len(Files) \in Nat /\ pass[p].next = 1
    BY <1>1, FilesAssumption DEF IngestInv, PassTells, Scanning, Pass
  <1>3. M \in SUBSET Watermark
    BY <1>1 DEF Pass
  <1>4. /\ r \in Pass /\ r.active = TRUE /\ r.at = pass[p].at + 1 /\ r.stat = NoStat
        /\ r.whole = W /\ r.marks = M /\ r.next = 1
    BY DEF Turned
  <1>5. \A k \in 1..Len(r.events) : \E i \in 1..Len(ev) : r.events[k] = ev[i]
    BY DEF Turned
  <1>6. \A i \in 1..Len(ev) : \E k \in 1..Len(r.events) :
              r.events[k].id = ev[i].id /\ r.events[k].out >= ev[i].out
    BY DEF Turned
  <1>7. r.at > Len(Files) =>
              \A i, j \in 1..Len(r.events) : r.events[i].id = r.events[j].id => i = j
    BY DEF Turned
  <1>8. /\ pass[p].whole \subseteq W
         /\ W \subseteq pass[p].whole \cup {m.file : m \in X}
    BY DEF Takes
  <1>9. \A m \in X : m.file = File(p) /\ MarkTells(m.file, m) /\ \A n \in X : n = m
    BY DEF Takes
  <1>10. \A i \in 1..Len(old) : \E k \in 1..Len(ev) : ev[k] = old[i]
    BY DEF Takes
  <1>11. \A k \in 1..Len(ev) :
            \/ \E i \in 1..Len(old) : ev[k] = old[i]
            \/ \E m \in X : /\ m.file = ev[k].file
                            /\ \E i \in 1..Len(m.seen) : m.seen[i].id = ev[k].id
    BY DEF Takes
  <1>12. \A m \in X : \A i \in 1..Len(m.seen) :
            \/ Landed(m.seen[i])
            \/ \E k \in 1..Len(ev) : ev[k].id = m.seen[i].id /\ ev[k].out >= m.seen[i].out
    BY DEF Takes
  <1>13. \A m \in X : m.file \notin W /\ QuietBut(p, m.file) /\ Fits(m.file, m) => Known(m.file)
    BY DEF Takes
  <1>14. pass'[p] = r /\ \A q \in Passes \ {p} : pass'[q] = pass[q]
    BY <1>1
  <1>15. IngestTypes'
    BY <1>1, <1>4 DEF IngestInv, IngestTypes
  <1>16. ASSUME NEW q \in Passes
        PROVE  PassTells(q)'
    <2>1. PassTells(q)
      BY DEF IngestInv
    <2>2. CASE q = p
      <3>1. r.whole \subseteq {m.file : m \in M}
        BY <1>4, <1>8, <2>1, <2>2 DEF PassTells, Opened
      <3> QED BY <1>2, <1>4, <1>7, <1>14, <2>2, <3>1 DEF PassTells, Scanning, Landing, Opened
    <2>3. CASE q # p
      BY <1>14, <2>1, <2>3 DEF PassTells, Scanning, Landing, Opened
    <2> QED BY <2>2, <2>3
  <1>17. MarksAreSingle'
    <2>1. \A m \in pass[p].marks : m.file # File(p)
      BY <1>2, FilesAssumption DEF IngestInv, MarksAreSingle, File
    <2>2. ASSUME NEW m \in M
          PROVE  /\ \E i \in 1..(r.at - 1) : m.file = Files[i]
                 /\ \A n \in M : n.file = m.file => n = m
      <3>1. CASE m \in pass[p].marks
        <4>1. PICK i \in 1..(pass[p].at - 1) : m.file = Files[i]
          BY <3>1 DEF IngestInv, MarksAreSingle
        <4>2. i \in 1..(r.at - 1)
          BY <1>2, <1>4
        <4> QED BY <1>9, <2>1, <3>1, <4>1, <4>2 DEF IngestInv, MarksAreSingle
      <3>2. CASE m \in X
        <4>1. pass[p].at \in 1..(r.at - 1)
          BY <1>2, <1>4
        <4> QED BY <1>9, <2>1, <3>2, <4>1 DEF File
      <3> QED BY <3>1, <3>2
    <2> QED BY <1>4, <1>14, <2>2 DEF IngestInv, MarksAreSingle
  <1>18. StatsAreTrue'
    BY <1>4, <1>14 DEF IngestInv, StatsAreTrue, StatTells, File
  <1>19. MarksAreTrue'
    <2>1. \A f, m : MarkTells(f, m)' = MarkTells(f, m)
      BY DEF MarkTells, StatTells, Fits
    <2> QED BY <1>4, <1>14, <1>9, <2>1 DEF IngestInv, MarksAreTrue
  <1>20. MarksLand'
    <2>1. \A line : Landed(line)' = Landed(line)
      BY DEF Landed
    <2>2. \A q \in Passes \ {p} : \A line : Ahead(q, line)' = Ahead(q, line)
      BY <1>14 DEF Ahead
    <2>3. ASSUME NEW line \in Line, NEW i \in 1..Len(ev), ev[i].id = line.id, ev[i].out >= line.out
          PROVE  Ahead(p, line)'
      <3>1. PICK k \in 1..Len(r.events) : r.events[k].id = ev[i].id /\ r.events[k].out >= ev[i].out
        BY <1>6
      <3>2. r.events \in Seq(Event) /\ r.events[k] \in Event /\ ev[i] \in Event
        BY <1>4, <3>1 DEF Pass
      <3>3. r.events[k].out \in Nat /\ ev[i].out \in Nat /\ line.out \in Nat
        BY <3>2, OutputsAreNumbers
      <3>4. r.events[k].out >= line.out
        BY <2>3, <3>1, <3>3
      <3> QED BY <1>4, <1>14, <2>3, <3>1, <3>4 DEF Ahead
    <2>4. ASSUME NEW m \in M, NEW i \in 1..Len(m.seen)
          PROVE  Landed(m.seen[i]) \/ Ahead(p, m.seen[i])'
      <3>0. m.seen[i] \in Line
        BY <1>3 DEF Watermark
      <3>1. CASE m \in X
        BY <1>12, <2>3, <3>0, <3>1
      <3>2. CASE m \in pass[p].marks
        <4>1. Landed(m.seen[i]) \/ Ahead(p, m.seen[i])
          BY <3>2 DEF IngestInv, MarksLand
        <4>2. ASSUME Ahead(p, m.seen[i])
              PROVE  Ahead(p, m.seen[i])'
          <5>1. PICK j \in 1..Len(old) : old[j].id = m.seen[i].id /\ old[j].out >= m.seen[i].out
            BY <1>2, <4>2 DEF Ahead
          <5>2. PICK k \in 1..Len(ev) : ev[k] = old[j]
            BY <1>10, <5>1
          <5> QED BY <2>3, <3>0, <5>1, <5>2
        <4> QED BY <4>1, <4>2
      <3> QED BY <3>1, <3>2
    <2> QED BY <1>4, <1>14, <2>1, <2>2, <2>4 DEF IngestInv, MarksLand
  <1>21. EventsAreRead'
    <2>1. ASSUME NEW j \in 1..Len(r.events)
          PROVE  \E m \in M : /\ m.file = r.events[j].file
                              /\ \E i \in 1..Len(m.seen) : m.seen[i].id = r.events[j].id
      <3>1. PICK k \in 1..Len(ev) : r.events[j] = ev[k]
        BY <1>5
      <3>2. CASE \E i \in 1..Len(old) : ev[k] = old[i]
        BY <3>1, <3>2 DEF IngestInv, EventsAreRead
      <3>3. CASE \E m \in X : /\ m.file = ev[k].file
                              /\ \E i \in 1..Len(m.seen) : m.seen[i].id = ev[k].id
        BY <3>1, <3>3
      <3> QED BY <1>11, <3>2, <3>3
    <2> SUFFICES ASSUME NEW q \in Passes, NEW j \in 1..Len(pass'[q].events)
                 PROVE  \E m \in pass'[q].marks :
                           /\ m.file = pass'[q].events[j].file
                           /\ \E i \in 1..Len(m.seen) : m.seen[i].id = pass'[q].events[j].id
      BY DEF EventsAreRead
    <2>2. CASE q # p
      <3>1. pass'[q] = pass[q]
        BY <1>14, <2>2
      <3>2. j \in 1..Len(pass[q].events)
        BY <3>1
      <3>3. PICK m \in pass[q].marks :
               /\ m.file = pass[q].events[j].file
               /\ \E i \in 1..Len(m.seen) : m.seen[i].id = pass[q].events[j].id
        BY <3>2 DEF IngestInv, EventsAreRead
      <3> QED BY <3>1, <3>3
    <2>3. CASE q = p
      <3>1. pass'[q] = r /\ r.marks = M
        BY <1>4, <1>14, <2>3
      <3>2. j \in 1..Len(r.events)
        BY <3>1
      <3> QED BY <2>1, <3>1, <3>2
    <2> QED BY <2>2, <2>3
  <1>22. RowsAreKnown'
    <2>1. \A q \in Passes, f \in FileSet : Amid(q, f)' = Amid(q, f)
      BY <1>2, <1>4, <1>14 DEF Amid, Opened
    <2>2. \A f \in FileSet : Quiet(f)' = Quiet(f) /\ Known(f)' = Known(f)
      BY <2>1 DEF Quiet, Known
    <2>3. \A q \in Passes, f \in FileSet : QuietBut(q, f)' = QuietBut(q, f)
      BY <2>1 DEF QuietBut
    <2>4. \A q \in Passes \ {p} : \A f \in FileSet : Past(q, f)' = Past(q, f)
      BY <1>14, PastStands
    <2>5. \A f : ~Past(p, f)'
      BY <1>4, <1>14 DEF Past
    <2>6. \A q \in Passes : \A m \in pass'[q].marks : m.file \in FileSet
      BY <1>15 DEF IngestTypes, Pass, Watermark
    <2>7. \A f \in FileSet : \A m : Fits(f, m)' = Fits(f, m)
      BY DEF Fits
    <2>8. ASSUME NEW m \in M, QuietBut(p, m.file), Fits(m.file, m), m.file \notin W
          PROVE  Known(m.file)
      <3>1. CASE m \in X
        BY <1>13, <2>8, <3>1
      <3>2. CASE m \in pass[p].marks
        BY <1>8, <2>8, <3>2 DEF IngestInv, RowsAreKnown
      <3> QED BY <3>1, <3>2
    <2>9. ASSUME NEW q \in Passes, NEW m \in pass'[q].marks,
                 QuietBut(q, m.file)', Fits(m.file, m)',
                 m.file \in pass'[q].whole => Past(q, m.file)'
          PROVE  Known(m.file)'
      <3>1. m.file \in FileSet /\ QuietBut(q, m.file) /\ Fits(m.file, m)
        BY <2>3, <2>6, <2>7, <2>9
      <3>2. CASE q = p
        BY <1>4, <1>14, <2>2, <2>5, <2>8, <2>9, <3>1, <3>2
      <3>3. CASE q # p
        <4>1. m \in pass[q].marks /\ (m.file \in pass[q].whole => Past(q, m.file))
          BY <1>14, <2>4, <2>9, <3>1, <3>3
        <4> QED BY <2>2, <3>1, <4>1 DEF IngestInv, RowsAreKnown
      <3> QED BY <3>2, <3>3
    <2>10. ASSUME NEW f \in FileSet, NEW w \in index[f], Quiet(f), Fits(f, w)
           PROVE  Known(f)
      BY <2>10 DEF IngestInv, RowsAreKnown
    <2> QED BY <2>2, <2>7, <2>9, <2>10 DEF RowsAreKnown
  <1> QED BY <1>15, <1>16, <1>17, <1>18, <1>19, <1>20, <1>21, <1>22 DEF IngestInv

\* A file that cannot be read, or is skipped, leaves nothing behind.
LEMMA SkipStep ==
    ASSUME IngestInv, NEW p \in Passes, SkipUnreadable(p) \/ SkipUnchanged(p)
    PROVE  IngestInv'
  <1> DEFINE ev == pass[p].events
             W == pass[p].whole
             M == pass[p].marks
             r == NextFile(p, ev)
  <1>1. /\ Scanning(p) /\ pass' = [pass EXCEPT ![p] = r]
        /\ UNCHANGED <<disk, index, owner, count, lost, cut>>
    BY DEF SkipUnreadable, SkipUnchanged
  <1>2. pass[p] \in Pass
    BY DEF IngestInv, IngestTypes
  <1>3. ev \in Seq(Event) /\ W \in SUBSET FileSet /\ M \in SUBSET Watermark
    BY <1>2 DEF Pass
  <1>4. r = [NextFile(p, ev) EXCEPT !.whole = W, !.marks = M]
    BY <1>2 DEF NextFile, Pass
  <1>5. Turned(p, [NextFile(p, ev) EXCEPT !.whole = W, !.marks = M], ev, W, M)
    BY <1>1, <1>3, NextFileTurns
  <1>6. Takes(p, ev, W, {})
    BY DEF Takes
  <1> HIDE DEF r, ev, W, M
  <1>7. Turned(p, r, ev, W, M \cup {})
    <2>1. M \cup {} = M
      OBVIOUS
    <2> QED BY <1>4, <1>5, <2>1, Zenon
  <1>8. {} \in SUBSET Watermark
    OBVIOUS
  <1> QED BY <1>1, <1>3, <1>6, <1>7, <1>8, ScanStep DEF M

\* A resumed parse stands on lines a watermark of the same inode was stated for.
LEMMA ResumedIsSeen ==
    ASSUME IngestInv, NEW p \in Passes, Scanning(p)
    PROVE  /\ Resumed(p) \in Seq(Line) /\ Len(Resumed(p)) <= Len(disk[File(p)].lines)
           /\ ~Resumes(p) => Len(Resumed(p)) = 0
           /\ Resumes(p) => \E w \in index[File(p)] :
                 /\ w.ino = pass[p].stat.ino
                 /\ Len(Resumed(p)) <= Len(w.seen)
                 /\ \A i \in 1..Len(Resumed(p)) : Resumed(p)[i] = w.seen[i]
  <1> DEFINE f == File(p)
             w == CHOOSE x \in index[f] : TRUE
             len == Len(disk[f].lines)
             n == IF w.consumed <= len THEN w.consumed ELSE len
  <1>1. f \in FileSet
    BY FilesAssumption DEF IngestInv, IngestTypes, Pass, Scanning, File, FileSet
  <1>2. disk[f].lines \in Seq(Line) /\ len \in Nat /\ index[f] \in SUBSET Watermark
    BY <1>1 DEF IngestInv, IngestTypes, Inode
  <1>3. CASE ~Resumes(p)
    <2>1. Resumed(p) = << >>
      BY <1>3 DEF Resumed
    <2> QED BY <1>2, <1>3, <2>1
  <1>4. CASE Resumes(p)
    <2>1. classify(index[f], pass[p].stat) = "Appended"
      BY <1>4 DEF Resumes
    <2>2. index[f] # {} /\ w.ino = pass[p].stat.ino
      BY <2>1 DEF classify
    <2>3. w \in index[f]
      BY <2>2
    <2>4. Resumed(p) = SubSeq(w.seen, 1, n)
      BY <1>4 DEF Resumed
    <2>5. w \in Watermark /\ w.consumed = Len(w.seen)
      BY <1>1, <1>2, <2>3 DEF IngestInv, MarksAreTrue, MarkTells
    <2> HIDE DEF w
    <2>6. w.seen \in Seq(Line) /\ Len(w.seen) \in Nat
      BY <2>5 DEF Watermark
    <2>7. n \in Nat /\ n <= Len(w.seen) /\ n <= len
      BY <1>2, <2>5, <2>6
    <2> HIDE DEF n
    <2>8. \A i \in 1..n : w.seen[i] \in Line
      BY <2>6, <2>7
    <2>9. /\ SubSeq(w.seen, 1, n) \in Seq(Line)
          /\ Len(SubSeq(w.seen, 1, n)) = IF 1 <= n THEN n - 1 + 1 ELSE 0
          /\ \A i \in 1..(n - 1 + 1) : SubSeq(w.seen, 1, n)[i] = w.seen[1 + i - 1]
      BY <2>7, <2>8, SubSeqProperties
    <2>10. Resumed(p) \in Seq(Line) /\ Len(Resumed(p)) = n
      BY <2>4, <2>7, <2>9
    <2>11. \A i \in 1..n : Resumed(p)[i] = w.seen[i]
      BY <2>4, <2>7, <2>9
    <2> QED BY <1>4, <2>2, <2>3, <2>7, <2>10, <2>11
  <1> QED BY <1>3, <1>4

\* The contents of a file become a watermark, and the part that was not resumed
\* becomes events.
LEMMA ReadStep ==
    ASSUME IngestInv, NEW p \in Passes, ReadFile(p)
    PROVE  IngestInv'
  <1> DEFINE f == File(p)
             R == Resumed(p)
             lines == disk[f].lines
             slice == SubSeq(lines, Len(R) + 1, Len(lines))
             new == [i \in 1..Len(slice) |->
                        [id |-> slice[i].id, out |-> slice[i].out, file |-> f]]
             old == pass[p].events
             ev == old \o new
             seen == R \o slice
             m == Mark(f, pass[p].stat, seen)
             W == IF Resumes(p) THEN pass[p].whole ELSE pass[p].whole \cup {f}
             M == pass[p].marks \cup {m}
             r == [NextFile(p, ev) EXCEPT !.whole = W, !.marks = M]
  <1>1. pass[p] \in Pass /\ Scanning(p) /\ pass[p].stat # NoStat
        /\ UNCHANGED <<disk, index, owner, count, lost, cut>>
    BY DEF ReadFile, IngestInv, IngestTypes
  <1>2. f \in FileSet /\ disk[f] \in Inode
    BY <1>1, FilesAssumption DEF IngestInv, IngestTypes, Pass, Scanning, File, FileSet
  <1>3. lines \in Seq(Line) /\ Len(lines) \in Nat
    BY <1>2 DEF Inode
  <1>4. pass' = [pass EXCEPT ![p] = r]
    BY DEF ReadFile
  <1>5. /\ R \in Seq(Line) /\ Len(R) \in Nat /\ Len(R) <= Len(lines)
        /\ ~Resumes(p) => Len(R) = 0
        /\ Resumes(p) => \E w \in index[f] :
              /\ w.ino = pass[p].stat.ino
              /\ Len(R) <= Len(w.seen)
              /\ \A i \in 1..Len(R) : R[i] = w.seen[i]
    BY <1>1, ResumedIsSeen
  <1> HIDE DEF R
  <1>6. slice \in Seq(Line) /\ Len(slice) = Len(lines) - Len(R)
        /\ \A i \in 1..Len(slice) : slice[i] = lines[Len(R) + i] /\ slice[i] \in Line
    <2>1. \A i \in (Len(R) + 1)..Len(lines) : lines[i] \in Line
      BY <1>3, <1>5
    <2>2. Len(R) + 1 \in Int /\ Len(lines) \in Int
      BY <1>3, <1>5
    <2>3. /\ slice \in Seq(Line)
          /\ Len(slice) = IF Len(R) + 1 <= Len(lines) THEN Len(lines) - (Len(R) + 1) + 1 ELSE 0
          /\ \A i \in 1..(Len(lines) - (Len(R) + 1) + 1) : slice[i] = lines[Len(R) + 1 + i - 1]
      BY <2>1, <2>2, SubSeqProperties
    <2> HIDE DEF slice
    <2>4. Len(slice) = Len(lines) - Len(R)
      BY <1>3, <1>5, <2>3
    <2>5. \A i \in 1..Len(slice) : slice[i] = lines[Len(R) + i]
      BY <1>3, <1>5, <2>3, <2>4
    <2> QED BY <2>3, <2>4, <2>5
  <1> HIDE DEF slice, lines
  <1>7. new \in Seq(Event) /\ Len(new) = Len(slice)
    <2>1. \A i \in 1..Len(slice) : new[i] \in Event
      BY <1>2, <1>6 DEF Event, Line
    <2> QED BY <1>6, <2>1
  <1>8. old \in Seq(Event) /\ Len(old) \in Nat
    BY <1>1 DEF Pass
  <1>9. \A i \in 1..Len(slice) :
           new[i].id = slice[i].id /\ new[i].out = slice[i].out /\ new[i].file = f
    OBVIOUS
  <1> HIDE DEF new, old
  <1>10. ev \in Seq(Event) /\ Len(ev) = Len(old) + Len(slice)
         /\ \A i \in 1..(Len(old) + Len(slice)) :
               ev[i] = IF i <= Len(old) THEN old[i] ELSE new[i - Len(old)]
    BY <1>7, <1>8, ConcatProperties
  <1>11. seen \in Seq(Line) /\ Len(seen) = Len(lines)
         /\ \A i \in 1..Len(lines) : seen[i] = IF i <= Len(R) THEN R[i] ELSE slice[i - Len(R)]
    <2>1. /\ seen \in Seq(Line) /\ Len(seen) = Len(R) + Len(slice)
          /\ \A i \in 1..(Len(R) + Len(slice)) : seen[i] = IF i <= Len(R) THEN R[i] ELSE slice[i - Len(R)]
      BY <1>5, <1>6, ConcatProperties
    <2> HIDE DEF seen
    <2>2. Len(R) + Len(slice) = Len(lines)
      BY <1>3, <1>5, <1>6
    <2> QED BY <2>1, <2>2
  <1> HIDE DEF ev, seen
  <1>12. m \in Watermark /\ m.file = f /\ m.seen = seen /\ m.consumed = Len(lines)
         /\ m.ino = pass[p].stat.ino /\ m.mtime = pass[p].stat.mtime /\ m.size = pass[p].stat.size
    BY <1>1, <1>2, <1>3, <1>11 DEF Mark, Watermark, Pass, Stat
  <1>13. StatTells(f, m)
    BY <1>1, <1>12 DEF IngestInv, StatsAreTrue, StatTells
  <1>14. ASSUME Fits(f, m)
         PROVE  IsStart(seen, lines)
    <2> SUFFICES ASSUME NEW i \in 1..Len(lines)
                 PROVE  seen[i] = lines[i]
      BY <1>3, <1>11 DEF IsStart
    <2>1. CASE i <= Len(R)
      <3>1. Resumes(p) /\ i \in 1..Len(R)
        BY <1>3, <1>5, <2>1
      <3>2. PICK w \in index[f] : /\ w.ino = pass[p].stat.ino
                                  /\ Len(R) <= Len(w.seen)
                                  /\ \A k \in 1..Len(R) : R[k] = w.seen[k]
        BY <1>5, <3>1
      <3>3. Fits(f, w)
        BY <1>12, <1>14, <3>2 DEF Fits
      <3>4. IsStart(w.seen, lines) /\ w \in Watermark
        BY <1>2, <3>2, <3>3 DEF IngestInv, IngestTypes, MarksAreTrue, MarkTells, lines
      <3>5. i \in 1..Len(w.seen)
        BY <1>5, <3>1, <3>2, <3>4 DEF Watermark
      <3>6. w.seen[i] = lines[i]
        BY <3>4, <3>5 DEF IsStart
      <3> QED BY <1>11, <2>1, <3>1, <3>2, <3>6
    <2>2. CASE i > Len(R)
      <3>1. i - Len(R) \in 1..Len(slice) /\ Len(R) + (i - Len(R)) = i
        BY <1>3, <1>5, <1>6, <2>2
      <3>2. seen[i] = slice[i - Len(R)]
        BY <1>3, <1>5, <1>11, <2>2
      <3> QED BY <1>6, <3>1, <3>2
    <2> QED BY <1>3, <1>5, <2>1, <2>2
  <1>15. MarkTells(m.file, m)
    BY <1>11, <1>12, <1>13, <1>14 DEF MarkTells, lines
  <1> HIDE DEF m
  <1>16. \A i \in 1..Len(old) : \E k \in 1..Len(ev) : ev[k] = old[i]
    <2> SUFFICES ASSUME NEW i \in 1..Len(old) PROVE i \in 1..Len(ev) /\ ev[i] = old[i]
      OBVIOUS
    <2>1. i \in 1..(Len(old) + Len(slice)) /\ i <= Len(old)
      BY <1>3, <1>5, <1>6, <1>8
    <2> QED BY <1>10, <2>1
  <1>17. \A k \in 1..Len(ev) :
            \/ \E i \in 1..Len(old) : ev[k] = old[i]
            \/ \E x \in {m} : /\ x.file = ev[k].file
                              /\ \E i \in 1..Len(x.seen) : x.seen[i].id = ev[k].id
    <2> SUFFICES ASSUME NEW k \in 1..Len(ev), ~(k <= Len(old))
                 PROVE  /\ m.file = ev[k].file
                        /\ \E i \in 1..Len(m.seen) : m.seen[i].id = ev[k].id
      <3>1. \A k \in 1..Len(ev) : k <= Len(old) => k \in 1..Len(old) /\ ev[k] = old[k]
        BY <1>3, <1>5, <1>6, <1>8, <1>10
      <3> QED BY <3>1
    <2> DEFINE j == k - Len(old)
               i == Len(R) + j
    <2>1. j \in 1..Len(slice) /\ i \in 1..Len(lines) /\ ~(i <= Len(R)) /\ i - Len(R) = j
      BY <1>3, <1>5, <1>6, <1>8, <1>10
    <2>2. ev[k] = new[j]
      BY <1>10
    <2>3. seen[i] = slice[j]
      BY <1>11, <2>1
    <2> HIDE DEF i, j
    <2>4. ev[k].file = f /\ ev[k].id = seen[i].id
      BY <1>9, <2>1, <2>2, <2>3
    <2> QED BY <1>11, <1>12, <2>1, <2>4
  <1>18. \A i \in 1..Len(m.seen) :
            \/ Landed(m.seen[i])
            \/ \E k \in 1..Len(ev) : ev[k].id = m.seen[i].id /\ ev[k].out >= m.seen[i].out
    <2> SUFFICES ASSUME NEW i \in 1..Len(lines)
                 PROVE  \/ Landed(seen[i])
                        \/ \E k \in 1..Len(ev) : ev[k].id = seen[i].id /\ ev[k].out >= seen[i].out
      BY <1>11, <1>12
    <2>1. CASE i <= Len(R)
      <3>1. Resumes(p) /\ i \in 1..Len(R)
        BY <1>3, <1>5, <2>1
      <3>2. PICK w \in index[f] : /\ w.ino = pass[p].stat.ino
                                  /\ Len(R) <= Len(w.seen)
                                  /\ \A k \in 1..Len(R) : R[k] = w.seen[k]
        BY <1>5, <3>1
      <3>3. w \in Watermark
        BY <1>2, <3>2 DEF IngestInv, IngestTypes
      <3>4. i \in 1..Len(w.seen)
        BY <1>5, <3>1, <3>2, <3>3 DEF Watermark
      <3>5. Landed(w.seen[i])
        BY <1>2, <3>2, <3>4 DEF IngestInv, MarksLand
      <3>6. seen[i] = w.seen[i]
        BY <1>11, <2>1, <3>1, <3>2
      <3> QED BY <3>5, <3>6
    <2>2. CASE i > Len(R)
      <3> DEFINE j == i - Len(R)
                 k == Len(old) + j
      <3>1. j \in 1..Len(slice) /\ k \in 1..Len(ev) /\ ~(k <= Len(old)) /\ k - Len(old) = j
        BY <1>3, <1>5, <1>6, <1>8, <1>10, <2>2
      <3>2. ev[k] = new[j]
        BY <1>10, <3>1
      <3>3. seen[i] = slice[j]
        BY <1>3, <1>5, <1>11, <2>2
      <3> HIDE DEF j, k
      <3>4. ev[k].id = seen[i].id /\ ev[k].out = seen[i].out
        BY <1>9, <3>1, <3>2, <3>3
      <3>5. seen[i].out \in Nat
        BY <1>11, OutputsAreNumbers
      <3>6. ev[k].out >= seen[i].out
        BY <3>4, <3>5
      <3> QED BY <3>1, <3>4, <3>6
    <2> QED BY <1>3, <1>5, <2>1, <2>2
  <1>19. m.file \notin W /\ QuietBut(p, m.file) /\ Fits(m.file, m) => Known(m.file)
    <2> SUFFICES ASSUME f \notin W, QuietBut(p, f), Fits(f, m)
                 PROVE  Known(f)
      BY <1>12
    <2>1. Resumes(p)
      OBVIOUS
    <2>2. PICK w \in index[f] : w.ino = pass[p].stat.ino
      BY <1>5, <2>1
    <2>3. Fits(f, w)
      BY <1>12, <2>2 DEF Fits
    <2>4. pass[p].next = 1
      BY <1>1 DEF IngestInv, PassTells, Scanning
    <2>5. Quiet(f)
      BY <2>4 DEF Quiet, QuietBut, Amid
    <2> QED BY <1>2, <2>2, <2>3, <2>5 DEF IngestInv, RowsAreKnown
  <1>20. W \in SUBSET FileSet /\ pass[p].whole \subseteq W
         /\ W \subseteq pass[p].whole \cup {x.file : x \in {m}}
    BY <1>1, <1>2, <1>12 DEF Pass
  <1>21. Takes(p, ev, W, {m})
    BY <1>12, <1>15, <1>16, <1>17, <1>18, <1>19, <1>20 DEF Takes, old
  <1>22. M \in SUBSET Watermark /\ {m} \in SUBSET Watermark
    BY <1>1, <1>12 DEF Pass
  <1>23. Turned(p, r, ev, W, M)
    BY <1>1, <1>10, <1>20, <1>22, NextFileTurns
  <1> HIDE DEF r, W
  <1> QED BY <1>1, <1>4, <1>10, <1>20, <1>21, <1>22, <1>23, ScanStep

-----------------------------------------------------------------------------
(* Landing.                                                                *)

\* What the transaction of p that drains the events up to `last` does, told one
\* row at a time: a row is kept, or it comes from an event it landed; nothing is
\* taken that the history does not tell of.
Lands(p, last) ==
    LET events == pass[p].events
        first == pass[p].next
        rep == Replaced(p, events, first)
    IN  /\ last \in Nat /\ first <= last + 1 /\ last <= Len(events)
        /\ events # << >> => first <= Len(events) /\ last \in first..BatchEnd(events, first)
        /\ owner' \in [Ids -> FileSet \cup {NoFile}]
        /\ \A id \in Ids :
              \/ owner'[id] = NoFile
              \/ owner'[id] = owner[id] /\ owner[id] \notin rep
              \/ \E j \in first..last : events[j].id = id /\ events[j].file = owner'[id]
        /\ count' \in [Ids -> Nat]
        /\ \A j \in first..last : count'[events[j].id] >= events[j].out
        /\ \A id \in Ids :
              /\ count'[id] \in {0, count[id]} \/ \E j \in first..last : count'[id] = events[j].out
              /\ (owner[id] = NoFile <=> count[id] = 0) => (owner'[id] = NoFile <=> count'[id] = 0)
        /\ lost' \in [Ids -> [count : Nat, undone : BOOLEAN]]
        /\ \A id \in Ids :
              /\ count'[id] >= count[id] \/ lost'[id].count >= count[id]
              /\ count'[id] >= lost[id].count \/ lost'[id].count >= lost[id].count
        /\ index' = [f \in FileSet |->
               upsert(index[f], {m \in pass[p].marks : last = Len(events) /\ m.file = f})]
        /\ cut' = (cut \ rep) \cup (IF last = Len(events) THEN Shared(p) ELSE {})
        /\ pass' = [pass EXCEPT ![p] =
               IF last = Len(events) THEN Idle ELSE [pass[p] EXCEPT !.next = last + 1]]
        /\ disk' = disk

\* A transaction does that.
LEMMA PersistLands ==
    ASSUME IngestInv, NEW p \in Passes, PersistBatch(p)
    PROVE  \E last : Lands(p, last)
  <1> DEFINE E == pass[p].events
             first == pass[p].next
             rep == Replaced(p, E, first)
             gone == {id \in Ids : owner[id] \in rep}
             here(last) == {E[j].id : j \in first..last}
             event(last, id) == CHOOSE e \in {E[j] : j \in first..last} : e.id = id
             kept(id) == IF id \in gone THEN 0 ELSE count[id]
             larger(a, b) == IF a >= b THEN a ELSE b
  <1>1. pass[p] \in Pass /\ E \in Seq(Event) /\ Len(E) \in Nat /\ first \in Nat /\ first >= 1
    BY DEF IngestInv, IngestTypes, Pass
  <1>2. Landing(p)
    BY DEF PersistBatch
  <1>3. /\ \A i, j \in 1..Len(E) : E[i].id = E[j].id => i = j
        /\ first <= Len(E) \/ first = 1
    BY <1>2 DEF IngestInv, PassTells
  <1>4. E # << >> => Len(E) >= 1 /\ first <= Len(E)
    BY <1>1, <1>3
  <1>5. E = << >> => Len(E) = 0 /\ first = 1
    BY <1>1, <1>3
  <1>6. PICK last \in IF E = << >> THEN {0} ELSE first..BatchEnd(E, first) :
          /\ owner' = [id \in Ids |->
                 IF id \notin gone /\ owner[id] # NoFile THEN owner[id]
                 ELSE IF id \in here(last) THEN event(last, id).file ELSE NoFile]
          /\ count' = [id \in Ids |->
                 IF id \in here(last) THEN larger(kept(id), event(last, id).out) ELSE kept(id)]
          /\ index' = [f \in FileSet |->
                 upsert(index[f], {m \in pass[p].marks : CarriesMarks(E, last) /\ m.file = f})]
          /\ lost' = [id \in Ids |->
                 IF count'[id] >= larger(count[id], lost[id].count) THEN NotLost
                 ELSE [count |-> larger(count[id], lost[id].count),
                       undone |-> \/ lost[id].undone
                                  \/ id \in gone /\ HasLanded(p, id)]]
          /\ cut' = (cut \ rep) \cup (IF Completes(E, last) THEN Shared(p) ELSE {})
          /\ pass' = [pass EXCEPT ![p] =
                 IF Completes(E, last) THEN Idle ELSE [pass[p] EXCEPT !.next = last + 1]]
    BY DEF PersistBatch
  <1>7. E # << >> => last \in first..BatchEnd(E, first) /\ BatchEnd(E, first) \in first..Len(E)
    <2>1. E # << >> => first \in 1..Len(E)
      BY <1>1, <1>4
    <2> QED BY <1>1, <1>6, <2>1, BatchEnds
  <1>8. last \in Nat /\ first <= last + 1 /\ last <= Len(E)
    BY <1>1, <1>5, <1>6, <1>7, SMTT(60)
  <1>9. \A j \in first..last : j \in 1..Len(E) /\ E[j] \in Event
    BY <1>1, <1>8
  <1>10. ASSUME NEW id \in here(last)
         PROVE  \E j \in first..last : event(last, id) = E[j] /\ E[j].id = id
    <2> DEFINE Q == {E[j] : j \in first..last}
    <2>1. \E e \in Q : e.id = id
      OBVIOUS
    <2>2. event(last, id) \in Q /\ event(last, id).id = id
      <3> HIDE DEF Q
      <3>1. (CHOOSE e \in Q : e.id = id) \in Q /\ (CHOOSE e \in Q : e.id = id).id = id
        BY <2>1
      <3> QED BY <3>1 DEF Q
    <2> HIDE DEF event
    <2> QED BY <2>2
  <1>11. \A j \in first..last : E[j].id \in here(last) /\ event(last, E[j].id) = E[j]
    <2> SUFFICES ASSUME NEW j \in first..last
                 PROVE  E[j].id \in here(last) /\ event(last, E[j].id) = E[j]
      OBVIOUS
    <2>1. E[j].id \in here(last)
      OBVIOUS
    <2>2. PICK k \in first..last : event(last, E[j].id) = E[k] /\ E[k].id = E[j].id
      BY <1>10, <2>1
    <2>3. k = j
      BY <1>3, <1>9, <2>2
    <2> QED BY <2>1, <2>2, <2>3
  <1> HIDE DEF event
  <1>12. \A id \in here(last) : event(last, id) \in Event
    BY <1>9, <1>10
  <1>13. owner \in [Ids -> FileSet \cup {NoFile}] /\ count \in [Ids -> Nat]
         /\ lost \in [Ids -> [count : Nat, undone : BOOLEAN]]
    BY DEF IngestInv, IngestTypes
  <1>14. \A id \in Ids : kept(id) \in Nat
    BY <1>13
  <1> HIDE DEF rep
  <1>15. owner' \in [Ids -> FileSet \cup {NoFile}]
    <2>1. ASSUME NEW id \in Ids
          PROVE  owner'[id] \in FileSet \cup {NoFile}
      <3>1. id \in here(last) => event(last, id).file \in FileSet
        BY <1>12, OutputsAreNumbers
      <3> HIDE DEF here, gone
      <3> QED BY <1>6, <1>13, <3>1
    <2> HIDE DEF here, gone
    <2>2. owner' = [id \in Ids |-> owner'[id]]
      BY <1>6
    <2> QED BY <2>1, <2>2
  <1>16. ASSUME NEW id \in Ids
         PROVE  \/ owner'[id] = NoFile
                \/ owner'[id] = owner[id] /\ owner[id] \notin rep
                \/ \E j \in first..last : E[j].id = id /\ E[j].file = owner'[id]
    <2>1. CASE id \notin gone /\ owner[id] # NoFile
      BY <1>6, <2>1
    <2>2. CASE ~(id \notin gone /\ owner[id] # NoFile) /\ id \in here(last)
      <3>1. owner'[id] = event(last, id).file
        BY <1>6, <2>2
      <3> QED BY <1>10, <2>2, <3>1
    <2>3. CASE ~(id \notin gone /\ owner[id] # NoFile) /\ id \notin here(last)
      BY <1>6, <2>3
    <2> QED BY <2>1, <2>2, <2>3
  <1> HIDE DEF gone
  <1>17. ASSUME NEW id \in Ids
         PROVE  /\ count'[id] \in Nat
                /\ id \in here(last) => count'[id] >= event(last, id).out
    <2>1. CASE id \notin here(last)
      BY <1>6, <1>14, <2>1
    <2>2. CASE id \in here(last)
      <3>1. event(last, id).out \in Nat
        BY <1>12, <2>2, OutputsAreNumbers
      <3>2. count'[id] = larger(kept(id), event(last, id).out)
        BY <1>6, <2>2
      <3>3. kept(id) \in Nat
        BY <1>14
      <3> HIDE DEF kept
      <3> QED BY <3>1, <3>2, <3>3
    <2> QED BY <2>1, <2>2
  <1>18. count' \in [Ids -> Nat]
    <2>1. count' = [id \in Ids |-> count'[id]]
      BY <1>6
    <2> QED BY <1>17, <2>1
  <1>19. \A j \in first..last : count'[E[j].id] >= E[j].out
    <2> SUFFICES ASSUME NEW j \in first..last
                 PROVE  count'[E[j].id] >= E[j].out
      OBVIOUS
    <2>1. E[j].id \in Ids
      BY <1>9, OutputsAreNumbers
    <2> QED BY <1>11, <1>17, <2>1
  <1>20. ASSUME NEW id \in Ids
         PROVE  /\ lost'[id] \in [count : Nat, undone : BOOLEAN]
                /\ count'[id] >= count[id] \/ lost'[id].count >= count[id]
                /\ count'[id] >= lost[id].count \/ lost'[id].count >= lost[id].count
    <2>1. count[id] \in Nat /\ lost[id] \in [count : Nat, undone : BOOLEAN] /\ count'[id] \in Nat
      BY <1>13, <1>17
    <2>2. CASE count'[id] >= larger(count[id], lost[id].count)
      <3>1. lost'[id] = NotLost
        BY <1>6, <2>2
      <3>2. lost'[id] \in [count : Nat, undone : BOOLEAN]
        BY <3>1 DEF NotLost
      <3>3. count'[id] >= count[id] /\ count'[id] >= lost[id].count
        BY <2>1, <2>2
      <3> QED BY <3>2, <3>3
    <2>3. CASE ~(count'[id] >= larger(count[id], lost[id].count))
      <3> DEFINE undone == lost[id].undone \/ (id \in gone /\ HasLanded(p, id))
      <3>1. lost'[id] = [count |-> larger(count[id], lost[id].count), undone |-> undone]
        BY <1>6, <2>3
      <3>2. undone \in BOOLEAN
        BY <2>1
      <3> HIDE DEF undone
      <3>3. larger(count[id], lost[id].count) \in Nat
            /\ larger(count[id], lost[id].count) >= count[id]
            /\ larger(count[id], lost[id].count) >= lost[id].count
        BY <2>1
      <3> HIDE DEF larger
      <3> QED BY <3>1, <3>2, <3>3
    <2> QED BY <2>2, <2>3
  <1>21. lost' \in [Ids -> [count : Nat, undone : BOOLEAN]]
    <2> HIDE DEF here
    <2>1. lost' = [id \in Ids |-> lost'[id]]
      BY <1>6
    <2> QED BY <1>20, <2>1
  <1>22. disk' = disk
    BY DEF PersistBatch
  <1>23. ASSUME NEW id \in Ids
         PROVE  /\ count'[id] \in {0, count[id]} \/ \E j \in first..last : count'[id] = E[j].out
                /\ (owner[id] = NoFile <=> count[id] = 0) => (owner'[id] = NoFile <=> count'[id] = 0)
    <2>1. CASE id \in here(last)
      <3>1. PICK j \in first..last : event(last, id) = E[j]
        BY <1>10, <2>1
      <3>2. E[j].out \in Nat \ {0} /\ E[j].file # NoFile
        BY <1>9, FilesAssumption, OutputsAreNumbers
      <3>3. owner'[id] # NoFile
        BY <1>6, <2>1, <3>1, <3>2
      <3>4. count'[id] = larger(kept(id), E[j].out) /\ kept(id) \in Nat /\ kept(id) \in {0, count[id]}
        BY <1>6, <1>14, <2>1, <3>1
      <3> HIDE DEF kept, here
      <3>5. count'[id] # 0 /\ (count'[id] \in {0, count[id]} \/ count'[id] = E[j].out)
        BY <3>2, <3>4
      <3> QED BY <3>3, <3>5
    <2>2. CASE id \notin here(last) /\ id \in gone
      <3>1. owner'[id] = NoFile /\ count'[id] = 0
        BY <1>6, <2>2
      <3> QED BY <3>1
    <2>3. CASE id \notin here(last) /\ id \notin gone
      <3>1. owner'[id] = owner[id] /\ count'[id] = count[id]
        BY <1>6, <2>3
      <3> QED BY <3>1
    <2> QED BY <2>1, <2>2, <2>3
  <1> HIDE DEF here, kept, larger
  <1>24. Lands(p, last)
    BY <1>4, <1>6, <1>7, <1>8, <1>15, <1>16, <1>18, <1>19, <1>20, <1>21, <1>22, <1>23
       DEF Lands, CarriesMarks, Completes, rep
  <1> QED BY <1>24

\* The pass has more events to land than those up to `last`.
GoesOn(p, last) ==
    /\ pass'[p].active = TRUE /\ pass'[p].at = pass[p].at
    /\ pass'[p].stat = NoStat
    /\ pass'[p].events = pass[p].events /\ pass'[p].whole = pass[p].whole
    /\ pass'[p].marks = pass[p].marks
    /\ pass'[p].next = last + 1 /\ last + 1 > 1 /\ last + 1 <= Len(pass[p].events)

\* The pass after the transaction: over, or past `last`.
LEMMA LandTurns ==
    ASSUME IngestInv, NEW p \in Passes, NEW last, Landing(p), Lands(p, last)
    PROVE  /\ \A q \in Passes \ {p} : pass'[q] = pass[q]
           /\ pass' \in [Passes -> Pass]
           /\ last = Len(pass[p].events) => pass'[p] = Idle
           /\ last # Len(pass[p].events) => GoesOn(p, last)
  <1> DEFINE E == pass[p].events
             first == pass[p].next
             r == IF last = Len(E) THEN Idle ELSE [pass[p] EXCEPT !.next = last + 1]
  <1>1. pass \in [Passes -> Pass] /\ pass[p] \in Pass /\ E \in Seq(Event) /\ Len(E) \in Nat
        /\ first \in Nat /\ first >= 1
    BY DEF IngestInv, IngestTypes, Pass
  <1>2. pass[p].stat = NoStat /\ pass[p].active = TRUE
    <2>1. ~Scanning(p) /\ pass[p].active
      BY <1>1, FilesAssumption DEF Landing, Scanning, Pass
    <2>2. pass[p].active \in BOOLEAN
      BY <1>1 DEF Pass
    <2> QED BY <2>1, <2>2 DEF IngestInv, PassTells
  <1>3. /\ last \in Nat /\ first <= last + 1 /\ last <= Len(E)
        /\ E # << >> => first <= Len(E) /\ last \in first..BatchEnd(E, first)
    BY DEF Lands
  <1>4. pass' = [pass EXCEPT ![p] = r]
    BY DEF Lands
  <1>5. last # Len(E) => last + 1 > 1 /\ last + 1 <= Len(E)
    <2>1. last # Len(E) => E # << >>
      BY <1>1, <1>3
    <2>2. last # Len(E) => last >= first
      BY <1>1, <1>3, <2>1, BatchEnds
    <2> QED BY <1>1, <1>3, <2>2
  <1>6. Idle \in Pass
    BY FilesAssumption DEF Idle, Pass, Stat, NoStat
  <1>7. last # Len(E) =>
            /\ r = [pass[p] EXCEPT !.next = last + 1] /\ r \in Pass
            /\ r.active = pass[p].active /\ r.at = pass[p].at /\ r.stat = pass[p].stat
            /\ r.events = pass[p].events /\ r.whole = pass[p].whole
            /\ r.marks = pass[p].marks /\ r.next = last + 1
    <2> DEFINE s == [pass[p] EXCEPT !.next = last + 1]
    <2>1. last + 1 \in Nat \ {0}
      BY <1>3
    <2>2. /\ s \in Pass
          /\ s.active = pass[p].active /\ s.at = pass[p].at /\ s.stat = pass[p].stat
          /\ s.events = pass[p].events /\ s.whole = pass[p].whole
          /\ s.marks = pass[p].marks /\ s.next = last + 1
      BY <1>1, <2>1 DEF Pass
    <2>3. last # Len(E) => r = s
      BY Zenon
    <2> HIDE DEF r, s
    <2> QED BY <2>2, <2>3 DEF s
  <1>8. last = Len(E) => r = Idle
    OBVIOUS
  <1>9. r \in Pass
    BY <1>6, <1>7, <1>8
  <1> HIDE DEF r
  <1>10. pass'[p] = r /\ \A q \in Passes \ {p} : pass'[q] = pass[q]
    BY <1>1, <1>4
  <1> QED BY <1>1, <1>2, <1>4, <1>5, <1>7, <1>8, <1>9, <1>10 DEF GoesOn

\* The rows of a file after a transaction: its current lines, as soon as nobody
\* is in the middle of landing it.
LEMMA LandedRows ==
    ASSUME IngestInv, NEW p \in Passes, NEW last, Landing(p), Lands(p, last)
    PROVE  RowsAreKnown'
  <1> DEFINE E == pass[p].events
             first == pass[p].next
             rep == Replaced(p, E, first)
             done == last = Len(E)
  <1>1. pass[p] \in Pass /\ E \in Seq(Event) /\ Len(E) \in Nat
        /\ first \in Nat /\ first >= 1
    BY DEF IngestInv, IngestTypes, Pass
  <1>2. /\ last \in Nat /\ first <= last + 1 /\ last <= Len(E)
        /\ E # << >> => first <= Len(E) /\ last \in first..BatchEnd(E, first)
    BY DEF Lands
  <1>3. /\ \A q \in Passes \ {p} : pass'[q] = pass[q]
        /\ done => pass'[p] = Idle
        /\ ~done => /\ pass'[p].events = E /\ pass'[p].whole = pass[p].whole
                    /\ pass'[p].marks = pass[p].marks
                    /\ pass'[p].next = last + 1 /\ last + 1 > 1
    <2>1. \A q \in Passes \ {p} : pass'[q] = pass[q]
      BY LandTurns
    <2>2. done => pass'[p] = Idle
      BY LandTurns
    <2>3. ~done => GoesOn(p, last)
      BY LandTurns
    <2> QED BY <2>1, <2>2, <2>3 DEF GoesOn
  <1>4. Idle.marks = {} /\ Idle.next = 1
    BY DEF Idle
  <1>5. disk' = disk /\ cut' = (cut \ rep) \cup (IF done THEN Shared(p) ELSE {})
    BY DEF Lands
  <1>6. \A f \in FileSet : \A m : Fits(f, m)' = Fits(f, m)
    BY <1>5 DEF Fits
  <1>7. /\ \A q \in Passes : \A m \in pass[q].marks : m \in Watermark /\ m.file \in FileSet
        /\ \A m, n \in pass[p].marks : n.file = m.file => n = m
    BY DEF IngestInv, IngestTypes, Pass, Watermark, MarksAreSingle
  <1>8. rep \subseteq pass[p].whole /\ pass[p].whole \subseteq Opened(p)
    BY DEF Replaced, IngestInv, PassTells
  <1>9. \A q \in Passes \ {p} : \A f : Amid(q, f)' = Amid(q, f)
    BY <1>3 DEF Amid, Opened
  <1>10. ~done => \A f \in Opened(p) : Amid(p, f)'
    BY <1>3 DEF Amid, Opened
  <1>11. \A f : f \notin rep /\ f \notin cut' => f \notin cut
    BY <1>5
  <1>12. ASSUME NEW f, NEW k \in 1..last, f \in Replaced(p, E, k), f \notin rep
         PROVE  Past(p, f)
    <2>1. E # << >> /\ first \in 1..Len(E) /\ last \in first..BatchEnd(E, first)
      BY <1>1, <1>2
    <2>2. k # first
      BY <1>12
    <2>3. k \in (first + 1)..BatchEnd(E, first) => Replaced(p, E, k) = {}
      BY <1>1, <2>1, OnlyHeadsReplace
    <2>4. BatchEnd(E, first) \in Nat
      BY <1>1, <2>1, BatchEnds
    <2>5. k < first
      BY <1>1, <1>2, <1>12, <2>1, <2>2, <2>3, <2>4
    <2> QED BY <1>1, <1>12, <2>5 DEF Past
  \* The rows after the transaction.
  <1>13. ASSUME NEW f \in FileSet, NEW id \in Ids, owner'[id] = f
         PROVE  \/ owner[id] = f /\ f \notin rep
                \/ \E m \in pass[p].marks : m.file = f /\ \E i \in 1..Len(m.seen) : m.seen[i].id = id
    <2>1. f # NoFile
      BY FilesAssumption
    <2>2. \/ owner'[id] = NoFile
          \/ owner'[id] = owner[id] /\ owner[id] \notin rep
          \/ \E j \in first..last : E[j].id = id /\ E[j].file = owner'[id]
      BY DEF Lands
    <2>3. CASE \E j \in first..last : E[j].id = id /\ E[j].file = owner'[id]
      <3>1. PICK j \in first..last : E[j].id = id /\ E[j].file = f
        BY <1>13, <2>3
      <3>2. j \in 1..Len(E)
        BY <1>1, <1>2
      <3> QED BY <3>1, <3>2 DEF IngestInv, EventsAreRead
    <2> QED BY <1>13, <2>1, <2>2, <2>3
  <1>14. ASSUME NEW m \in pass[p].marks, Fits(m.file, m), m.file \in rep \/ Known(m.file)
         PROVE  Known(m.file)'
    <2> SUFFICES ASSUME NEW id \in Ids, owner'[id] = m.file
                 PROVE  \E i \in 1..Len(disk[m.file].lines) : disk[m.file].lines[i].id = id
      BY <1>5 DEF Known
    <2>1. CASE owner[id] = m.file /\ m.file \notin rep
      BY <1>14, <2>1 DEF Known
    <2>2. CASE \E n \in pass[p].marks : n.file = m.file /\ \E i \in 1..Len(n.seen) : n.seen[i].id = id
      <3>1. PICK i \in 1..Len(m.seen) : m.seen[i].id = id
        BY <1>7, <2>2
      <3>2. IsStart(m.seen, disk[m.file].lines)
        BY <1>14 DEF IngestInv, MarksAreTrue, MarkTells
      <3>3. Len(m.seen) \in Nat /\ Len(disk[m.file].lines) \in Nat
        BY <1>7 DEF Watermark, IngestInv, IngestTypes, Inode
      <3>4. i \in 1..Len(disk[m.file].lines) /\ disk[m.file].lines[i] = m.seen[i]
        BY <3>2, <3>3 DEF IsStart
      <3> QED BY <3>1, <3>4
    <2> QED BY <1>7, <1>13, <2>1, <2>2
  <1>15. ASSUME NEW f \in FileSet, f \notin Opened(p), Known(f)
         PROVE  Known(f)'
    BY <1>5, <1>13, <1>15 DEF Known, Opened
  <1>16. ASSUME NEW f \in FileSet, f \notin Opened(p)
         PROVE  /\ f \notin rep
                /\ Quiet(f)' => Quiet(f)
                /\ \A q \in Passes \ {p} : QuietBut(q, f)' => QuietBut(q, f)
    <2>1. f \notin rep /\ ~Amid(p, f)
      BY <1>8, <1>16 DEF Amid
    <2> QED BY <1>9, <1>11, <2>1 DEF Quiet, QuietBut
  <1>17. ASSUME NEW f \in FileSet, f \notin rep, QuietBut(p, f)'
         PROVE  QuietBut(p, f)
    BY <1>9, <1>11, <1>17 DEF QuietBut
  <1> HIDE DEF rep
  <1>18. ASSUME NEW f \in FileSet, NEW w \in index'[f], Quiet(f)', Fits(f, w)
         PROVE  Known(f)'
    <2>1. index'[f] = upsert(index[f], {m \in pass[p].marks : done /\ m.file = f})
      BY DEF Lands
    <2>2. CASE f \notin Opened(p)
      <3>1. {m \in pass[p].marks : done /\ m.file = f} = {}
        BY <2>2 DEF Opened
      <3>2. w \in index[f]
        BY <2>1, <3>1 DEF upsert
      <3>3. Known(f)
        BY <1>16, <1>18, <2>2, <3>2 DEF IngestInv, RowsAreKnown
      <3> QED BY <1>15, <2>2, <3>3
    <2>3. CASE f \in Opened(p)
      <3>1. done
        BY <1>10, <1>18, <2>3 DEF Quiet
      <3>2. {m \in pass[p].marks : done /\ m.file = f} # {}
        BY <2>3, <3>1 DEF Opened
      <3>3. w \in pass[p].marks /\ w.file = f
        BY <2>1, <3>2 DEF upsert
      <3>4. ASSUME f \notin rep
            PROVE  Known(f)
        <4>1. QuietBut(p, f)
          BY <1>17, <1>18, <3>4 DEF Quiet, QuietBut
        <4>2. ASSUME f \in pass[p].whole
              PROVE  Past(p, f)
          <5>1. E # << >>
            <6> SUFFICES ASSUME E = << >> PROVE FALSE
              OBVIOUS
            <6>1. first = 1 /\ Len(E) = 0
              BY <1>1, <1>2
            <6>2. f \in rep
              BY <4>2, <6>1 DEF rep, Replaced
            <6> QED BY <3>4, <6>2
          <5>2. PICK k \in 1..Len(E) : f \in Replaced(p, E, k)
            BY <1>1, <4>2, <5>1, EveryFileIsReplaced
          <5> QED BY <1>12, <3>1, <3>4, <5>2
        <4> QED BY <1>18, <3>3, <4>1, <4>2 DEF IngestInv, RowsAreKnown
      <3> QED BY <1>14, <1>18, <3>3, <3>4
    <2> QED BY <2>2, <2>3
  <1>19. ASSUME NEW m \in pass'[p].marks, QuietBut(p, m.file)', Fits(m.file, m),
                m.file \in pass'[p].whole => Past(p, m.file)'
         PROVE  Known(m.file)'
    <2>1. ~done
      BY <1>3, <1>4
    <2>2. m \in pass[p].marks /\ m.file \in FileSet
      BY <1>3, <1>7, <2>1
    <2>3. ASSUME m.file \notin rep
          PROVE  Known(m.file)
      <3>1. QuietBut(p, m.file)
        BY <1>17, <1>19, <2>2, <2>3
      <3>2. ASSUME m.file \in pass[p].whole
            PROVE  Past(p, m.file)
        <4>1. \A k : Replaced(p, E, k)' = Replaced(p, E, k)
          BY <1>3, <2>1, ZenonT(60) DEF Replaced
        <4>2. Past(p, m.file)'
          BY <1>3, <1>19, <2>1, <3>2
        <4>3. PICK k \in 1..(pass'[p].next - 1) : m.file \in Replaced(p, E, k)'
          BY <4>2, Zenon DEF Past
        <4>4. k \in 1..last /\ m.file \in Replaced(p, E, k)
          BY <1>2, <1>3, <2>1, <4>1, <4>3
        <4> QED BY <1>12, <2>3, <4>4
      <3> QED BY <1>19, <2>2, <3>1, <3>2 DEF IngestInv, RowsAreKnown
    <2> QED BY <1>14, <1>19, <2>2, <2>3
  <1>20. ASSUME NEW q \in Passes \ {p}, NEW m \in pass'[q].marks, QuietBut(q, m.file)',
                Fits(m.file, m), m.file \in pass'[q].whole => Past(q, m.file)'
         PROVE  Known(m.file)'
    <2>1. pass'[q] = pass[q] /\ m \in pass[q].marks /\ m.file \in FileSet
      BY <1>3, <1>7
    <2>2. m.file \in pass[q].whole => Past(q, m.file)
      BY <1>20, <2>1, PastStands
    <2>3. m.file \notin Opened(p)
      <3> SUFFICES ASSUME m.file \in Opened(p) PROVE FALSE
        OBVIOUS
      <3>1. done
        BY <1>10, <1>20 DEF QuietBut
      <3>2. m.file \notin Shared(p)
        BY <1>5, <1>20, <3>1 DEF QuietBut
      <3>3. m.file \in Opened(q)
        BY <2>1 DEF Opened
      <3>4. ~(pass[q].next > 1) /\ m.file \in pass[q].whole
        BY <3>2, <3>3 DEF Shared
      <3>5. pass[q].next \in Nat \ {0}
        BY DEF IngestInv, IngestTypes, Pass
      <3>6. pass[q].next = 1
        BY <3>4, <3>5
      <3> QED BY <2>2, <3>4, <3>6 DEF Past
    <2>4. QuietBut(q, m.file)
      BY <1>16, <1>20, <2>1, <2>3
    <2>5. Known(m.file)
      BY <1>20, <2>1, <2>2, <2>4 DEF IngestInv, RowsAreKnown
    <2> QED BY <1>15, <2>1, <2>3, <2>5
  <1>21. ASSUME NEW q \in Passes, NEW m \in pass'[q].marks, QuietBut(q, m.file)',
                Fits(m.file, m)', m.file \in pass'[q].whole => Past(q, m.file)'
         PROVE  Known(m.file)'
    <2>1. Fits(m.file, m)
      BY <1>5, <1>21 DEF Fits
    <2> QED BY <1>19, <1>20, <1>21, <2>1
  <1> QED BY <1>6, <1>18, <1>21 DEF RowsAreKnown

\* A transaction: what the watermarks claim has landed when they do.
LEMMA PersistStep ==
    ASSUME IngestInv, NEW p \in Passes, PersistBatch(p)
    PROVE  IngestInv'
  <1>1. Landing(p)
    BY DEF PersistBatch
  <1>2. PICK last : Lands(p, last)
    BY PersistLands
  <1> DEFINE E == pass[p].events
             first == pass[p].next
             done == last = Len(E)
  <1>3. pass[p] \in Pass /\ E \in Seq(Event) /\ Len(E) \in Nat
        /\ first \in Nat /\ first >= 1
    BY DEF IngestInv, IngestTypes, Pass
  <1>4. last \in Nat /\ first <= last + 1 /\ last <= Len(E)
    BY <1>2 DEF Lands
  <1>5. /\ \A q \in Passes \ {p} : pass'[q] = pass[q]
        /\ pass' \in [Passes -> Pass]
        /\ done => pass'[p] = Idle
        /\ ~done => GoesOn(p, last)
    BY <1>1, <1>2, LandTurns
  <1>6. /\ Idle.at = 1 /\ Idle.stat = NoStat /\ Idle.events = << >> /\ Idle.active = FALSE
        /\ Idle.whole = {} /\ Idle.marks = {} /\ Idle.next = 1
    BY DEF Idle
  <1>7. disk' = disk
    BY <1>2 DEF Lands
  <1>8. ASSUME NEW f \in FileSet
        PROVE  \/ index'[f] = index[f]
               \/ done /\ \A w \in index'[f] : w \in pass[p].marks /\ w.file = f
    <2>1. index'[f] = upsert(index[f], {m \in pass[p].marks : done /\ m.file = f})
      BY <1>2 DEF Lands
    <2> QED BY <2>1 DEF upsert
  <1>9. pass'[p].marks \subseteq pass[p].marks
    BY <1>5, <1>6 DEF GoesOn
  <1>10. IngestTypes'
    <2>1. index' \in [FileSet -> SUBSET Watermark]
      <3>1. index' = [f \in FileSet |-> index'[f]]
        BY <1>2 DEF Lands
      <3>2. \A f \in FileSet : index'[f] \in SUBSET Watermark
        BY <1>3, <1>8 DEF IngestInv, IngestTypes, Pass
      <3> QED BY <3>1, <3>2
    <2>2. cut' \in SUBSET FileSet
      <3>1. Shared(p) \subseteq FileSet
        BY <1>3 DEF Shared, Opened, Pass, Watermark
      <3> QED BY <1>2, <3>1 DEF Lands, IngestInv, IngestTypes
    <2>3. /\ owner' \in [Ids -> FileSet \cup {NoFile}] /\ count' \in [Ids -> Nat]
          /\ lost' \in [Ids -> [count : Nat, undone : BOOLEAN]]
      BY <1>2 DEF Lands
    <2> QED BY <1>5, <1>7, <2>1, <2>2, <2>3 DEF IngestInv, IngestTypes
  <1>11. ASSUME NEW q \in Passes
         PROVE  PassTells(q)'
    <2>1. PassTells(q)
      BY DEF IngestInv
    <2>2. CASE q # p
      BY <1>5, <2>1, <2>2 DEF PassTells, Scanning, Landing, Opened
    <2>3. CASE q = p /\ done
      BY <1>5, <1>6, <2>3 DEF PassTells, Scanning, Landing
    <2>4. CASE q = p /\ ~done
      <3>1. /\ pass'[p].active = TRUE /\ pass'[p].at = pass[p].at /\ pass'[p].stat = NoStat
            /\ pass'[p].events = E /\ pass'[p].whole = pass[p].whole
            /\ pass'[p].marks = pass[p].marks
            /\ pass'[p].next = last + 1 /\ last + 1 <= Len(E)
        BY <1>5, <2>4 DEF GoesOn
      <3>2. ~(pass[p].at <= Len(Files))
        BY <1>1, <1>3, FilesAssumption DEF Landing, Pass
      <3>3. \A i, j \in 1..Len(E) : E[i].id = E[j].id => i = j
        BY <1>1, <2>1, <2>4 DEF PassTells
      <3>4. pass'[p].whole \subseteq Opened(p)'
        BY <2>1, <2>4, <3>1 DEF PassTells, Opened
      <3> QED BY <2>4, <3>1, <3>2, <3>3, <3>4 DEF PassTells, Scanning, Landing
    <2> QED BY <2>2, <2>3, <2>4
  <1>12. MarksAreSingle'
    <2>1. \A f \in FileSet : \A w \in index'[f] : w.file = f /\ \A v \in index'[f] : v = w
      BY <1>8 DEF IngestInv, MarksAreSingle
    <2>2. ASSUME NEW q \in Passes, NEW m \in pass'[q].marks
          PROVE  /\ \E i \in 1..(pass'[q].at - 1) : m.file = Files[i]
                 /\ \A n \in pass'[q].marks : n.file = m.file => n = m
      <3>1. pass'[q].at = pass[q].at /\ pass'[q].marks = pass[q].marks
        BY <1>5, <1>6 DEF GoesOn
      <3> QED BY <2>2, <3>1 DEF IngestInv, MarksAreSingle
    <2> QED BY <2>1, <2>2 DEF MarksAreSingle
  <1>13. StatsAreTrue'
    <2>1. pass'[p].stat = NoStat
      BY <1>5, <1>6 DEF GoesOn
    <2> QED BY <1>5, <1>7, <2>1 DEF IngestInv, StatsAreTrue, StatTells, File
  <1>14. MarksAreTrue'
    <2>1. \A f, m : MarkTells(f, m)' = MarkTells(f, m)
      BY <1>7 DEF MarkTells, StatTells, Fits
    <2>2. ASSUME NEW f \in FileSet, NEW w \in index'[f]
          PROVE  MarkTells(f, w)
      <3>1. CASE w \in index[f]
        BY <3>1 DEF IngestInv, MarksAreTrue
      <3>2. CASE w \in pass[p].marks /\ w.file = f
        BY <3>2 DEF IngestInv, MarksAreTrue
      <3> QED BY <1>8, <3>1, <3>2
    <2>3. ASSUME NEW q \in Passes, NEW m \in pass'[q].marks
          PROVE  MarkTells(m.file, m)
      <3>1. m \in pass[q].marks
        BY <1>5, <1>9
      <3> QED BY <3>1 DEF IngestInv, MarksAreTrue
    <2> QED BY <2>1, <2>2, <2>3 DEF MarksAreTrue
  <1>15. MarksLand'
    <2>1. ASSUME NEW line \in Line, Landed(line)
          PROVE  Landed(line)'
      <3> DEFINE id == line.id
      <3>1. id \in Ids /\ line.out \in Nat
        BY OutputsAreNumbers
      <3>2. count[id] \in Nat /\ count'[id] \in Nat /\ lost[id].count \in Nat /\ lost'[id].count \in Nat
        BY <1>10, <3>1 DEF IngestInv, IngestTypes
      <3>3. /\ count'[id] >= count[id] \/ lost'[id].count >= count[id]
            /\ count'[id] >= lost[id].count \/ lost'[id].count >= lost[id].count
        BY <1>2, <3>1 DEF Lands
      <3>4. count[id] >= line.out \/ lost[id].count >= line.out
        BY <2>1 DEF Landed
      <3>5. count'[id] >= line.out \/ lost'[id].count >= line.out
        BY <3>1, <3>2, <3>3, <3>4
      <3> QED BY <3>5 DEF Landed
    <2>2. ASSUME NEW line \in Line, Ahead(p, line)
          PROVE  Landed(line)' \/ (~done /\ Ahead(p, line)')
      <3>1. PICK j \in first..Len(E) : E[j].id = line.id /\ E[j].out >= line.out
        BY <2>2 DEF Ahead
      <3>2. CASE j <= last
        <4>1. j \in first..last /\ j \in 1..Len(E)
          BY <1>3, <1>4, <3>2
        <4>2. count'[E[j].id] >= E[j].out
          BY <1>2, <4>1 DEF Lands
        <4>3. E[j].out \in Nat /\ line.out \in Nat /\ E[j].id \in Ids
          BY <1>3, <4>1, OutputsAreNumbers
        <4>4. count'[E[j].id] \in Nat
          BY <1>10, <4>3 DEF IngestTypes
        <4>5. count'[line.id] >= line.out
          BY <3>1, <4>2, <4>3, <4>4
        <4> QED BY <4>5 DEF Landed
      <3>3. CASE ~(j <= last)
        <4>1. ~done /\ j \in (last + 1)..Len(E)
          BY <1>3, <1>4, <3>3
        <4>2. pass'[p].next = last + 1 /\ pass'[p].events = E
          BY <1>5, <4>1 DEF GoesOn
        <4> QED BY <3>1, <4>1, <4>2 DEF Ahead
      <3> QED BY <3>2, <3>3
    <2>3. /\ \A f \in FileSet : \A w \in index[f] : \A i \in 1..Len(w.seen) : w.seen[i] \in Line
          /\ \A q \in Passes : \A m \in pass[q].marks : \A i \in 1..Len(m.seen) : m.seen[i] \in Line
      <3>1. /\ \A f \in FileSet : \A w \in index[f] : w.seen \in Seq(Line)
            /\ \A q \in Passes : \A m \in pass[q].marks : m.seen \in Seq(Line)
        BY DEF IngestInv, IngestTypes, Pass, Watermark
      <3> QED BY <3>1
    <2>4. ASSUME NEW m \in pass[p].marks, NEW i \in 1..Len(m.seen)
          PROVE  Landed(m.seen[i])' \/ (~done /\ Ahead(p, m.seen[i])')
      <3>1. Landed(m.seen[i]) \/ Ahead(p, m.seen[i])
        BY DEF IngestInv, MarksLand
      <3>2. m.seen[i] \in Line
        BY <2>3
      <3> QED BY <2>1, <2>2, <3>1, <3>2
    <2>5. ASSUME NEW f \in FileSet, NEW w \in index'[f], NEW i \in 1..Len(w.seen)
          PROVE  Landed(w.seen[i])'
      <3>1. CASE w \in index[f]
        BY <2>1, <2>3, <3>1 DEF IngestInv, MarksLand
      <3>2. CASE done /\ w \in pass[p].marks
        BY <2>4, <3>2
      <3> QED BY <1>8, <3>1, <3>2
    <2>6. ASSUME NEW q \in Passes, NEW m \in pass'[q].marks, NEW i \in 1..Len(m.seen)
          PROVE  Landed(m.seen[i])' \/ Ahead(q, m.seen[i])'
      <3>1. CASE q = p
        BY <1>9, <2>4, <3>1
      <3>2. CASE q # p
        <4>1. pass'[q] = pass[q]
          BY <1>5, <3>2
        <4>2. Landed(m.seen[i]) \/ Ahead(q, m.seen[i])
          BY <4>1 DEF IngestInv, MarksLand
        <4>3. Ahead(q, m.seen[i]) => Ahead(q, m.seen[i])'
          BY <4>1 DEF Ahead
        <4> QED BY <2>1, <2>3, <4>1, <4>2, <4>3
      <3> QED BY <3>1, <3>2
    <2> QED BY <2>5, <2>6 DEF MarksLand
  <1>16. EventsAreRead'
    <2> SUFFICES ASSUME NEW q \in Passes, NEW j \in 1..Len(pass'[q].events)
                 PROVE  \E m \in pass'[q].marks :
                           /\ m.file = pass'[q].events[j].file
                           /\ \E i \in 1..Len(m.seen) : m.seen[i].id = pass'[q].events[j].id
      BY DEF EventsAreRead
    <2>1. pass'[q].events = pass[q].events /\ pass'[q].marks = pass[q].marks
      <3>1. CASE q # p
        BY <1>5, <3>1
      <3>2. CASE q = p /\ ~done
        BY <1>5, <3>2 DEF GoesOn
      <3>3. ~(q = p /\ done)
        BY <1>5, <1>6
      <3> QED BY <3>1, <3>2, <3>3
    <2>2. j \in 1..Len(pass[q].events)
      BY <2>1
    <2>3. PICK m \in pass[q].marks :
             /\ m.file = pass[q].events[j].file
             /\ \E i \in 1..Len(m.seen) : m.seen[i].id = pass[q].events[j].id
      BY <2>2 DEF IngestInv, EventsAreRead
    <2> QED BY <2>1, <2>3
  <1>17. RowsAreKnown'
    BY <1>1, <1>2, LandedRows
  <1> QED BY <1>10, <1>11, <1>12, <1>13, <1>14, <1>15, <1>16, <1>17 DEF IngestInv

-----------------------------------------------------------------------------
(* The whole specification.                                                *)

\* Growth leaves the old lines where they were.
LEMMA GrowthIsStart ==
    ASSUME NEW old \in Seq(Line), NEW new \in Seq(Line), IsGrowth(old, new)
    PROVE  IsStart(old, new)
  <1>1. Len(old) \in Nat /\ Len(new) \in Nat /\ Len(old) < Len(new) /\ SubSeq(new, 1, Len(old)) = old
    BY DEF IsGrowth
  <1>2. \A i \in 1..Len(old) : new[i] \in Line
    BY <1>1
  <1>3. \A i \in 1..(Len(old) - 1 + 1) : SubSeq(new, 1, Len(old))[i] = new[1 + i - 1]
    BY <1>1, <1>2, SubSeqProperties
  <1>4. \A i \in 1..Len(old) : i \in 1..(Len(old) - 1 + 1) /\ 1 + i - 1 = i
    BY <1>1
  <1>5. \A i \in 1..Len(old) : old[i] = new[i]
    BY <1>1, <1>3, <1>4
  <1> QED BY <1>1, <1>5 DEF IsStart

\* The agents' edits.
LEMMA AgentStep ==
    ASSUME IngestInv, NEW f \in FileSet, NEW c \in Contents[f],
           AppendLines(f, c) \/ RewriteInPlace(f, c) \/ ReplaceByRename(f, c)
    PROVE  IngestInv'
  <1>1. disk[f] \in Inode /\ c \in Seq(Line)
    BY ContentsAssumption DEF IngestInv, IngestTypes
  <1>2. disk[f].ino \in Nat /\ disk[f].ino + 1 \in Nat /\ disk[f].rewritten \in BOOLEAN
        /\ disk[f].lines \in Seq(Line)
    BY <1>1 DEF Inode
  <1>3. CASE AppendLines(f, c)
    <2>1. Write(f, c, disk[f].ino, disk[f].rewritten) /\ IsStart(disk[f].lines, c)
      BY <1>1, <1>2, <1>3, GrowthIsStart DEF AppendLines
    <2> QED BY <1>2, <2>1, EditStep
  <1>4. CASE RewriteInPlace(f, c)
    <2>1. Write(f, c, disk[f].ino, TRUE)
      BY <1>4 DEF RewriteInPlace
    <2> QED BY <1>2, <2>1, EditStep
  <1>5. CASE ReplaceByRename(f, c)
    <2>1. Write(f, c, disk[f].ino + 1, FALSE)
      BY <1>5 DEF ReplaceByRename
    <2> QED BY <1>2, <2>1, EditStep
  <1> QED BY <1>3, <1>4, <1>5

\* No step breaks the invariant.
LEMMA IngestStep == IngestInv /\ [Next]_vars => IngestInv'
  <1> SUFFICES ASSUME IngestInv, [Next]_vars PROVE IngestInv'
    OBVIOUS
  <1>1. CASE UNCHANGED vars
    <2>1. UNCHANGED <<disk, index, owner, count, pass, lost, cut>>
      BY <1>1 DEF vars
    <2>2. IngestTypes' /\ (\A p \in Passes : PassTells(p))' /\ MarksAreSingle'
      BY <2>1 DEF IngestInv, IngestTypes, PassTells, Scanning, Landing, Opened, MarksAreSingle
    <2>3. StatsAreTrue' /\ MarksAreTrue'
      BY <2>1 DEF IngestInv, StatsAreTrue, StatTells, File, MarksAreTrue, MarkTells, Fits
    <2>4. MarksLand' /\ EventsAreRead'
      BY <2>1 DEF IngestInv, MarksLand, Landed, Ahead, EventsAreRead
    <2>5. RowsAreKnown'
      <3>1. \A f \in FileSet : Quiet(f)' = Quiet(f) /\ Known(f)' = Known(f)
        BY <2>1 DEF Quiet, Known, Amid, Opened
      <3>2. \A p \in Passes : \A f : QuietBut(p, f)' = QuietBut(p, f) /\ Known(f)' = Known(f)
        BY <2>1 DEF QuietBut, Amid, Opened, Known
      <3>3. \A p \in Passes : \A f : Past(p, f)' = Past(p, f)
        BY <2>1, PastStands
      <3>4. \A f, m : Fits(f, m)' = Fits(f, m)
        BY <2>1 DEF Fits
      <3> QED BY <2>1, <3>1, <3>2, <3>3, <3>4 DEF IngestInv, RowsAreKnown
    <2> QED BY <2>2, <2>3, <2>4, <2>5 DEF IngestInv
  <1>2. ASSUME NEW f \in FileSet, NEW c \in Contents[f],
               AppendLines(f, c) \/ RewriteInPlace(f, c) \/ ReplaceByRename(f, c)
        PROVE  IngestInv'
    BY <1>2, AgentStep
  <1>3. ASSUME NEW p \in Passes, NEW changed_only \in BOOLEAN, Start(p, changed_only)
        PROVE  IngestInv'
    BY <1>3, StartStep
  <1>4. ASSUME NEW p \in Passes, StatFile(p)
        PROVE  IngestInv'
    BY <1>4, StatStep
  <1>5. ASSUME NEW p \in Passes, SkipUnreadable(p) \/ SkipUnchanged(p)
        PROVE  IngestInv'
    BY <1>5, SkipStep
  <1>6. ASSUME NEW p \in Passes, ReadFile(p)
        PROVE  IngestInv'
    BY <1>6, ReadStep
  <1>7. ASSUME NEW p \in Passes, PersistBatch(p)
        PROVE  IngestInv'
    BY <1>7, PersistStep
  <1>8. ASSUME NEW p \in Passes, Fail(p)
        PROVE  IngestInv'
    BY <1>8, FailStep
  <1> QED BY <1>1, <1>2, <1>3, <1>4, <1>5, <1>6, <1>7, <1>8 DEF Next

\* The invariant holds however passes overlap, die and start again while the
\* agents append to, rewrite and replace their files.
THEOREM IngestInvariant == Spec => []IngestInv
  <1>1. Init => IngestInv
    BY IngestInitInv
  <1>2. IngestInv /\ [Next]_vars => IngestInv'
    BY IngestStep
  <1> QED BY <1>1, <1>2, PTL DEF Spec

\* A watermark that a --changed-only pass would skip by: it matches the file.
LEMMA SkippedMatches ==
    ASSUME IngestInv, NEW f \in FileSet, NEW w \in Skipped(f)
    PROVE  /\ w \in index[f] /\ w \in Watermark /\ w.ino = disk[f].ino
           /\ w.consumed = Len(disk[f].lines) /\ w.consumed = Len(w.seen)
           /\ ~disk[f].rewritten => w.seen = disk[f].lines
  <1>1. w \in index[f] /\ classify(index[f], FileState(f)) = "Unchanged"
    BY DEF Skipped
  <1>2. \A v \in index[f] : v = w
    BY <1>1 DEF IngestInv, MarksAreSingle
  <1>3. (CHOOSE x \in index[f] : TRUE) = w
    BY <1>1, <1>2
  <1>4. w.ino = disk[f].ino /\ w.mtime = disk[f].mtime
    BY <1>1, <1>3 DEF classify, FileState
  <1>5. w \in Watermark /\ disk[f] \in Inode
    BY <1>1 DEF IngestInv, IngestTypes
  <1>6. MarkTells(f, w)
    BY <1>1 DEF IngestInv, MarksAreTrue
  <1>7. w.consumed = Len(disk[f].lines) /\ w.consumed = Len(w.seen)
    BY <1>4, <1>6 DEF MarkTells
  <1>8. ASSUME ~disk[f].rewritten
        PROVE  w.seen = disk[f].lines
    <2>1. IsStart(w.seen, disk[f].lines)
      BY <1>4, <1>6, <1>8 DEF MarkTells, Fits
    <2>2. w.seen \in Seq(Line) /\ disk[f].lines \in Seq(Line)
      BY <1>5 DEF Watermark, Inode
    <2>3. Len(w.seen) = Len(disk[f].lines) /\ \A i \in 1..Len(w.seen) : w.seen[i] = disk[f].lines[i]
      BY <1>7, <2>1 DEF IsStart
    <2> QED BY <2>2, <2>3, SeqEqual
  <1> QED BY <1>1, <1>4, <1>5, <1>7, <1>8

\* SkippedFileWasRead: a file the change index calls unchanged was parsed to its
\* end, whatever was appended between the stat and the read.
THEOREM SkippedFilesWereRead == Spec => []SkippedFileWasRead
  <1>1. IngestInv => SkippedFileWasRead
    BY SkippedMatches DEF SkippedFileWasRead
  <1> QED BY <1>1, IngestInvariant, PTL

\* WatermarkNeverAhead: what a watermark stands for has landed, for watermarks
\* ride only with the transaction that drains the last batch.
THEOREM WatermarksNeverAhead == Spec => []WatermarkNeverAhead
  <1>1. IngestInv => WatermarkNeverAhead
    BY DEF IngestInv, MarksLand, Landed, Skipped, WatermarkNeverAhead
  <1> QED BY <1>1, IngestInvariant, PTL

\* NoStaleOpinion: a row of a skipped file is one of its lines, unless a pass
\* over it is landing, died while it was, or overlapped another one.
THEOREM NoStaleOpinions == Spec => []NoStaleOpinion
  <1>1. IngestInv => NoStaleOpinion
    <2> SUFFICES ASSUME IngestInv, NEW f \in FileSet, NEW w \in Skipped(f), NEW id \in Ids,
                        owner[id] = f, f \notin cut, ~disk[f].rewritten,
                        \A p \in Passes : ~(Landing(p) /\ pass[p].next > 1 /\ f \in Opened(p))
                 PROVE  \E i \in 1..Len(w.seen) : w.seen[i].id = id
      BY DEF NoStaleOpinion
    <2>1. w \in index[f] /\ w.ino = disk[f].ino /\ w.seen = disk[f].lines
      BY SkippedMatches
    <2>2. \A p \in Passes : pass[p].next > 1 => Landing(p)
      <3> SUFFICES ASSUME NEW p \in Passes, pass[p].next > 1 PROVE Landing(p)
        OBVIOUS
      <3>1. pass[p].next # 1 /\ Idle.next = 1
        BY DEF Idle
      <3>2. pass[p].active /\ ~(pass[p].at <= Len(Files))
        BY <3>1 DEF IngestInv, PassTells
      <3>3. pass[p].at \in Nat /\ Len(Files) \in Nat
        BY FilesAssumption DEF IngestInv, IngestTypes, Pass
      <3> QED BY <3>2, <3>3 DEF Landing
    <2>3. Quiet(f) /\ Fits(f, w)
      BY <2>1, <2>2 DEF Quiet, Amid, Fits
    <2>4. Known(f)
      BY <2>1, <2>3 DEF IngestInv, RowsAreKnown
    <2> QED BY <2>1, <2>4 DEF Known
  <1> QED BY <1>1, IngestInvariant, PTL

\* An edit is counted by the modification time it moves.
LEMMA MtimesWithinEdits ==
    ASSUME disk \in [FileSet -> Inode], NEW f \in FileSet
    PROVE  Edits \in Nat /\ disk[f].mtime <= Edits
  <1> DEFINE N == Len(Files)
             t(i) == disk[Files[i]].mtime
             Runs(g, n) == \A i \in 0..n : g[i] = (IF i = 0 THEN 0 ELSE g[i - 1] + t(i))
             Rec(g) == [i \in 0..N |-> IF i = 0 THEN 0 ELSE g[i - 1] + t(i)]
             Bad == {n \in 0..N : ~\E g : g = [i \in 0..n |-> g[i]] /\ Runs(g, n)}
  <1>1. N \in Nat
    BY FilesAssumption
  <1>2. \A i \in 1..N : t(i) \in Nat
    BY DEF FileSet, Inode
  <1> HIDE DEF t
  <1>3. Bad = {}
    <2> SUFFICES ASSUME Bad # {} PROVE FALSE
      OBVIOUS
    <2>1. PICK n \in Bad : \A y \in Bad : n <= y
      <3>1. Bad \in SUBSET Nat
        BY <1>1
      <3> HIDE DEF Bad
      <3> QED BY <3>1, NatHasMin
    <2>2. n # 0
      <3>1. LET g == [i \in 0..0 |-> 0] IN g = [i \in 0..0 |-> g[i]] /\ Runs(g, 0)
        OBVIOUS
      <3> QED BY <2>1, <3>1, Zenon
    <2>3. n \in 1..N /\ n - 1 \in 0..N /\ n - 1 \notin Bad
      BY <1>1, <2>1, <2>2
    <2>4. PICK g : g = [i \in 0..(n - 1) |-> g[i]] /\ Runs(g, n - 1)
      BY <2>3, Zenon
    <2> DEFINE h == [i \in 0..n |-> IF i = n THEN g[n - 1] + t(n) ELSE g[i]]
    <2>5. h = [i \in 0..n |-> h[i]]
      OBVIOUS
    <2>6. Runs(h, n)
      <3>1. \A i \in 0..(n - 1) : h[i] = g[i]
        BY <1>1, <2>3
      <3> SUFFICES ASSUME NEW i \in 0..n
                   PROVE  h[i] = (IF i = 0 THEN 0 ELSE h[i - 1] + t(i))
        OBVIOUS
      <3>2. CASE i = n
        <4>1. h[n] = g[n - 1] + t(n)
          BY <1>1, <2>3
        <4>2. n # 0 => h[n - 1] = g[n - 1]
          BY <1>1, <2>3, <3>1
        <4> HIDE DEF h
        <4> QED BY <1>1, <2>3, <3>2, <4>1, <4>2
      <3>3. CASE i \in 0..(n - 1)
        <4>1. i # 0 => h[i - 1] = g[i - 1]
          BY <1>1, <2>3, <3>1, <3>3
        <4>2. h[i] = g[i]
          BY <3>1, <3>3
        <4> HIDE DEF h
        <4> QED BY <1>1, <2>3, <2>4, <3>3, <4>1, <4>2
      <3> QED BY <1>1, <2>3, <3>2, <3>3
    <2> HIDE DEF h, Runs
    <2> QED BY <2>1, <2>5, <2>6, Zenon
  <1>4. PICK g : g = [i \in 0..N |-> g[i]] /\ Runs(g, N)
    BY <1>1, <1>3
  <1>5. g = Rec(g)
    BY <1>4
  <1> DEFINE c == CHOOSE h : h = Rec(h)
  <1>6. c = Rec(c)
    <2> HIDE DEF Rec
    <2> QED BY <1>5, Zenon
  <1>7. Edits = c[N]
    BY DEF Edits, t
  <1> HIDE DEF c
  <1>8. c[0] = 0 /\ \A i \in 1..N : c[i] = c[i - 1] + t(i)
    <2>1. \A i \in 0..N : c[i] = (IF i = 0 THEN 0 ELSE c[i - 1] + t(i))
      BY <1>6
    <2> QED BY <1>1, <2>1
  <1> HIDE DEF Bad, Runs
  <1> DEFINE Holds(n) == c[n] \in Nat /\ \A i \in 1..n : t(i) <= c[n]
             Wrong == {n \in 0..N : ~Holds(n)}
  <1>9. Wrong = {}
    <2> SUFFICES ASSUME Wrong # {} PROVE FALSE
      OBVIOUS
    <2>1. PICK n \in Wrong : \A y \in Wrong : n <= y
      <3>1. Wrong \in SUBSET Nat
        BY <1>1
      <3> HIDE DEF Wrong
      <3> QED BY <3>1, NatHasMin
    <2>2. Holds(0)
      BY <1>8
    <2>3. n \in 1..N /\ n - 1 \in 0..N /\ n - 1 \notin Wrong
      BY <1>1, <2>1, <2>2
    <2>4. Holds(n - 1)
      BY <2>3
    <2>5. c[n] = c[n - 1] + t(n) /\ t(n) \in Nat
      BY <1>2, <1>8, <2>3
    <2>6. ASSUME NEW i \in 1..n
          PROVE  t(i) <= c[n]
      <3>1. CASE i = n
        BY <2>4, <2>5, <3>1
      <3>2. CASE i # n
        <4>1. i \in 1..(n - 1) /\ t(i) \in Nat
          BY <1>1, <1>2, <2>3, <3>2
        <4> QED BY <2>4, <2>5, <4>1
      <3> QED BY <3>1, <3>2
    <2> QED BY <2>1, <2>4, <2>5, <2>6
  <1>10. Holds(N)
    BY <1>1, <1>9
  <1>11. PICK i \in 1..N : f = Files[i]
    BY DEF FileSet
  <1> QED BY <1>7, <1>10, <1>11 DEF t

\* What the types of the ledger and the files say beyond IngestTypes.
LedgerTypes ==
    /\ \A f \in FileSet : /\ disk[f].mtime <= MaxEdits
                          /\ disk[f].lines \in Contents[f] \cup {<< >>}
    /\ count \in [Ids -> Count]
    /\ \A id \in Ids : owner[id] = NoFile <=> count[id] = 0

\* An edit stays within the bound on edits, and a transaction gives an identity a
\* count exactly when it gives it an occurrence.
LEMMA LedgerStep == IngestInv /\ LedgerTypes /\ [Next]_vars => LedgerTypes'
  <1> SUFFICES ASSUME IngestInv, LedgerTypes, [Next]_vars PROVE LedgerTypes'
    OBVIOUS
  <1>1. CASE UNCHANGED <<disk, owner, count>>
    BY <1>1 DEF LedgerTypes
  <1>2. ASSUME NEW f \in FileSet, NEW c \in Contents[f], NEW ino, NEW rewritten,
               Write(f, c, ino, rewritten)
        PROVE  LedgerTypes'
    <2>1. disk \in [FileSet -> Inode] /\ disk[f].mtime \in Nat
      BY DEF IngestInv, IngestTypes, Inode
    <2>2. Edits \in Nat /\ disk[f].mtime <= Edits /\ Edits < MaxEdits
      BY <1>2, <2>1, MtimesWithinEdits DEF Write
    <2>3. disk[f].mtime + 1 <= MaxEdits
      BY <2>1, <2>2, BoundsAssumption
    <2>4. /\ disk'[f].mtime = disk[f].mtime + 1 /\ disk'[f].lines = c
          /\ \A g \in FileSet \ {f} : disk'[g] = disk[g]
          /\ UNCHANGED <<owner, count>>
      BY <1>2, <2>1 DEF Write
    <2>5. ASSUME NEW g \in FileSet
          PROVE  disk'[g].mtime <= MaxEdits /\ disk'[g].lines \in Contents[g] \cup {<< >>}
      <3>1. CASE g = f
        BY <2>3, <2>4, <3>1
      <3>2. CASE g # f
        BY <2>4, <3>2 DEF LedgerTypes
      <3> QED BY <3>1, <3>2
    <2> QED BY <2>4, <2>5 DEF LedgerTypes
  <1>3. ASSUME NEW p \in Passes, PersistBatch(p)
        PROVE  LedgerTypes'
    <2> DEFINE E == pass[p].events
               first == pass[p].next
    <2>1. PICK last : Lands(p, last)
      BY <1>3, PersistLands
    <2>2. /\ disk' = disk /\ count' \in [Ids -> Nat]
          /\ last \in Nat /\ last <= Len(E)
      BY <2>1 DEF Lands
    <2>3. E \in Seq(Event) /\ first \in Nat /\ first >= 1 /\ Len(E) \in Nat
      BY DEF IngestInv, IngestTypes, Pass
    <2>4. ASSUME NEW id \in Ids
          PROVE  count'[id] \in Count /\ (owner'[id] = NoFile <=> count'[id] = 0)
      <3>1. /\ count'[id] \in {0, count[id]} \/ \E j \in first..last : count'[id] = E[j].out
            /\ (owner[id] = NoFile <=> count[id] = 0) => (owner'[id] = NoFile <=> count'[id] = 0)
        BY <2>1 DEF Lands
      <3>2. \A j \in first..last : E[j].out \in Outputs
        <4>1. \A j \in first..last : E[j] \in Event
          BY <2>2, <2>3
        <4> QED BY <4>1 DEF Event
      <3>3. count[id] \in Count /\ (owner[id] = NoFile <=> count[id] = 0)
        BY DEF LedgerTypes
      <3> QED BY <3>1, <3>2, <3>3 DEF Count
    <2>5. count' \in [Ids -> Count]
      BY <2>2, <2>4
    <2> QED BY <2>2, <2>4, <2>5 DEF LedgerTypes
  <1>4. ASSUME NEW p \in Passes, PersistBatch(p) => FALSE,
               \/ \E changed_only \in BOOLEAN : Start(p, changed_only)
               \/ StatFile(p) \/ SkipUnreadable(p) \/ SkipUnchanged(p) \/ ReadFile(p)
               \/ PersistBatch(p) \/ Fail(p)
        PROVE  UNCHANGED <<disk, owner, count>>
    BY <1>4 DEF Start, StatFile, SkipUnreadable, SkipUnchanged, ReadFile, Fail
  <1>5. ASSUME NEW f \in FileSet, NEW c \in Contents[f],
               AppendLines(f, c) \/ RewriteInPlace(f, c) \/ ReplaceByRename(f, c)
        PROVE  LedgerTypes'
    BY <1>2, <1>5 DEF AppendLines, RewriteInPlace, ReplaceByRename
  <1> QED BY <1>1, <1>3, <1>4, <1>5 DEF Next, vars

\* Types: an identity has one occurrence, and a count exactly when it has one; a
\* file has at most one watermark, and it names that file.
THEOREM IngestTypeCorrect == Spec => []TypeOK
  <1>1. Init => LedgerTypes
    <2> SUFFICES ASSUME Init PROVE LedgerTypes
      OBVIOUS
    <2>1. \A f \in FileSet : disk[f].mtime <= MaxEdits /\ disk[f].lines \in Contents[f] \cup {<< >>}
      BY InitialDisk, BoundsAssumption
    <2>2. count \in [Ids -> Count] /\ \A id \in Ids : owner[id] = NoFile <=> count[id] = 0
      BY DEF Init, Count
    <2> QED BY <2>1, <2>2 DEF LedgerTypes
  <1>2. Spec => []LedgerTypes
    <2>1. IngestInv /\ LedgerTypes /\ [Next]_vars => LedgerTypes'
      BY LedgerStep
    <2> QED BY <1>1, <2>1, IngestInvariant, PTL DEF Spec
  <1>3. IngestInv /\ LedgerTypes => TypeOK
    <2> SUFFICES ASSUME IngestInv, LedgerTypes PROVE TypeOK
      OBVIOUS
    <2>1. ASSUME NEW f \in FileSet
          PROVE  /\ disk[f].ino \in Nat /\ disk[f].mtime \in 0..MaxEdits
                 /\ disk[f].lines \in Contents[f] \cup {<< >>} /\ disk[f].rewritten \in BOOLEAN
                 /\ index[f] \subseteq WatermarkOf(f) /\ Cardinality(index[f]) <= 1
      <3>1. disk[f] \in Inode /\ disk[f].mtime <= MaxEdits
            /\ disk[f].lines \in Contents[f] \cup {<< >>}
        BY DEF IngestInv, IngestTypes, LedgerTypes
      <3>2. disk[f].ino \in Nat /\ disk[f].mtime \in 0..MaxEdits /\ disk[f].rewritten \in BOOLEAN
        BY <3>1, BoundsAssumption DEF Inode
      <3>3. index[f] \subseteq WatermarkOf(f)
        <4> SUFFICES ASSUME NEW w \in index[f] PROVE w \in WatermarkOf(f)
          OBVIOUS
        <4>1. w \in Watermark /\ w.file = f
          BY DEF IngestInv, IngestTypes, MarksAreSingle
        <4> QED BY <4>1 DEF Watermark, WatermarkOf
      <3>4. Cardinality(index[f]) <= 1
        <4>1. CASE index[f] = {}
          BY <4>1, FS_EmptySet
        <4>2. CASE index[f] # {}
          <5>1. PICK w \in index[f] : TRUE
            BY <4>2
          <5>2. MarksAreSingle
            BY DEF IngestInv
          <5>3. \A v \in index[f] : v = w
            BY <5>1, <5>2 DEF MarksAreSingle
          <5>4. index[f] = {w}
            BY <5>1, <5>3
          <5>5. Cardinality({w}) = 1
            BY FS_Singleton
          <5> QED BY <5>4, <5>5
        <4> QED BY <4>1, <4>2
      <3> QED BY <3>1, <3>2, <3>3, <3>4
    <2>2. ASSUME NEW p \in Passes
          PROVE  /\ pass[p].active \in BOOLEAN /\ pass[p].changed_only \in BOOLEAN
                 /\ pass[p].at \in 1..(Len(Files) + 1)
                 /\ pass[p].events \in Seq(Event)
                 /\ pass[p].whole \subseteq FileSet
                 /\ \A m \in pass[p].marks : m \in WatermarkOf(m.file) /\ m.file \in FileSet
                 /\ pass[p].next \in Nat \ {0}
      <3>1. pass[p] \in Pass
        BY DEF IngestInv, IngestTypes
      <3>2. \A m \in Watermark : m \in WatermarkOf(m.file) /\ m.file \in FileSet
        BY DEF Watermark, WatermarkOf
      <3>3. pass[p].marks \subseteq Watermark
        BY <3>1 DEF Pass
      <3>4. /\ pass[p].active \in BOOLEAN /\ pass[p].changed_only \in BOOLEAN
            /\ pass[p].at \in 1..(Len(Files) + 1) /\ pass[p].events \in Seq(Event)
            /\ pass[p].whole \subseteq FileSet /\ pass[p].next \in Nat \ {0}
        BY <3>1 DEF Pass
      <3> QED BY <3>2, <3>3, <3>4
    <2>3. /\ owner \in [Ids -> FileSet \cup {NoFile}] /\ count \in [Ids -> Count]
          /\ \A id \in Ids : owner[id] = NoFile <=> count[id] = 0
      BY DEF IngestInv, IngestTypes, LedgerTypes
    <2> QED BY <2>1, <2>2, <2>3 DEF TypeOK
  <1> QED BY <1>2, <1>3, IngestInvariant, PTL

=============================================================================
