----------------------- MODULE SamplingScheduleProofs -----------------------
(***************************************************************************)
(* Proofs about SamplingSchedule and Sampler for every policy, every reset *)
(* calendar, histories of any length and any number of invocations.  The   *)
(* argument: evaluate() looks only at the newest attempt, so what keeps it *)
(* from returning a spent slot is an ordering that every attempt must      *)
(* satisfy, due <= start <= finish, and that due instants never decrease.  *)
(* A reset rule then yields an instant after the newest start or evidence, *)
(* the cadence rule one a cadence after the newest due instant, and both   *)
(* are after all earlier ones.  With several invocations, the lease makes  *)
(* the newest attempt that was read stay the newest until the decision is  *)
(* committed; only its result may change under the reader.                 *)
(* Coverage subtracts the holds of every attempt, so one that the cadence  *)
(* has left behind must be over: each ordinary attempt is due no earlier   *)
(* than the end of the hold before it, unless the hold was excused by a    *)
(* changed credential or the attempt had been owed before an answer came.  *)
(***************************************************************************)
EXTENDS SamplingSchedule, Sampler, WellFoundedInduction, FiniteSetTheorems, TLAPS

----------------------------------------------------------------------------
(* Extrema.                                                                *)

LessThan == {p \in Nat \X Nat : p[1] < p[2]}

\* The order on the naturals, as a relation, is well founded.
LEMMA LessThanWellFounded == IsWellFoundedOn(LessThan, Nat)
  BY NatLessThanWellFounded DEF OpToRel, LessThan

\* A nonempty set of naturals has a least element.
LEMMA NatHasMin ==
    ASSUME NEW T \in SUBSET Nat, T # {}
    PROVE  \E x \in T : \A y \in T : x <= y
  <1>1. PICK x \in T : \A y \in T : ~(<<y, x>> \in LessThan)
    BY LessThanWellFounded, WFMin, Zenon
  <1>2. \A y \in T : ~(y < x)
    BY <1>1 DEF LessThan
  <1> QED BY <1>2

\* Min picks it.
LEMMA MinOfNats ==
    ASSUME NEW T \in SUBSET Nat, T # {}
    PROVE  Min(T) \in T /\ \A y \in T : Min(T) <= y
  BY NatHasMin DEF Min

\* Max of a nonempty set of integers that has an upper bound is its maximum.
LEMMA MaxOfBounded ==
    ASSUME NEW S \in SUBSET Int, S # {}, NEW b \in Int, \A x \in S : x <= b
    PROVE  Max(S) \in S /\ \A y \in S : y <= Max(S)
  <1> DEFINE T == {b - x : x \in S}
  <1>1. T \in SUBSET Nat /\ T # {}
    <2>1. PICK x \in S : TRUE
      OBVIOUS
    <2>2. b - x \in T
      OBVIOUS
    <2> QED BY <2>2
  <1>2. PICK t \in T : \A y \in T : t <= y
    BY <1>1, NatHasMin
  <1>3. PICK x \in S : t = b - x
    BY <1>2
  <1>4. \A y \in S : x >= y
    BY <1>2, <1>3
  <1> QED BY <1>3, <1>4 DEF Max

\* The smaller of two naturals.
LEMMA MinOfTwo ==
    ASSUME NEW a \in Nat, NEW b \in Nat
    PROVE  Min({a, b}) \in Nat /\ Min({a, b}) <= a /\ Min({a, b}) <= b
  BY MinOfNats

----------------------------------------------------------------------------
(* evaluate().                                                             *)

Ordered(e) == e.due <= e.start /\ (Terminal(e) => e.start <= e.finish)

\* A hold can only move the due instant past the cadence boundary.
LEMMA EffectiveDueAtKeepsCadence ==
    ASSUME NEW e \in Attempt, NEW streak \in Nat, NEW changed \in BOOLEAN
    PROVE  /\ EffectiveDueAt(e, streak, changed) \in Int
           /\ EffectiveDueAt(e, streak, changed) >= e.due + Cadence
           /\ \A x \in RetryPostponement(e) \cup AuthPostponement(e, streak, changed) :
                 x <= EffectiveDueAt(e, streak, changed)
  <1> DEFINE c == e.due + Cadence
             R == RetryPostponement(e)
             A == AuthPostponement(e, streak, changed)
             S == {c} \cup R \cup A
             top == e.finish + RetryCap + AuthCap
             b == IF c >= 0 THEN c + top ELSE top
  <1>1. c \in Int /\ top \in Nat /\ e.finish \in Nat /\ e.retry \subseteq Nat
    <2>1. e.due \in Int /\ e.finish \in Nat /\ e.retry \subseteq RetryAfters
      BY DEF Attempt
    <2>2. c \in Int
      BY <2>1, PolicyAssumption
    <2>3. top \in Nat
      BY <2>1, PolicyAssumption
    <2>4. e.retry \subseteq Nat
      BY <2>1, ScheduleAssumption
    <2> QED BY <2>1, <2>2, <2>3, <2>4
  <1>2. R \subseteq Int /\ \A x \in R : x <= top
    <2>1. \A r \in e.retry : Min({r, RetryCap}) \in Nat /\ Min({r, RetryCap}) <= RetryCap
      BY <1>1, MinOfTwo, PolicyAssumption
    <2>2. ASSUME NEW x \in R
          PROVE  x \in Int /\ x <= top
      <3>1. PICK r \in e.retry : x = e.finish + Min({r, RetryCap})
        BY DEF RetryPostponement
      <3> DEFINE m == Min({r, RetryCap})
      <3>2. m \in Nat /\ m <= RetryCap
        BY <2>1
      <3>3. x = e.finish + m
        BY <3>1
      <3> HIDE DEF m
      <3> QED BY <1>1, <3>2, <3>3, PolicyAssumption
    <2> QED BY <2>2
  <1>3. A \subseteq Int /\ \A x \in A : x <= top
    <2>1. \A d \in AuthBackoffDelay(streak, changed) : d \in Nat /\ d <= AuthCap
      BY PolicyAssumption DEF AuthBackoffDelay
    <2> QED BY <1>1, <2>1, PolicyAssumption DEF AuthPostponement
  <1>4. S \in SUBSET Int /\ S # {} /\ b \in Int /\ \A x \in S : x <= b
    BY <1>1, <1>2, <1>3
  <1>5. Max(S) \in S /\ \A y \in S : y <= Max(S)
    <2> HIDE DEF S, b
    <2> QED BY <1>4, MaxOfBounded
  <1> QED BY <1>1, <1>4, <1>5 DEF EffectiveDueAt

\* An owed attempt is owed no later than now, and its instant lies past the
\* newest attempt's: not before it when forced, after it for the reset rules,
\* a cadence after it for the cadence rule.
LEMMA DecisionAdvances ==
    ASSUME NEW h \in Seq(Attempt), NEW known \in SUBSET Nat, NEW now \in Nat,
           NEW forced \in BOOLEAN, NEW streak \in Nat, NEW changed \in BOOLEAN,
           h # <<>> => Ordered(Newest(h)) /\ Newest(h).start <= now,
           NEW d, d = Evaluate(h, known, now, forced, streak, changed), d.owed
    PROVE  /\ d.at \in Int /\ d.at <= now /\ d.reason \in Reasons
           /\ h # <<>> =>
                /\ Newest(h).due <= d.at
                /\ d.reason # "ForcedOrManual" => Newest(h).due < d.at
                /\ d.reason = "OrdinaryCadence" => Newest(h).due + Cadence <= d.at
  <1> DEFINE e == Newest(h)
  <1>1. h # <<>> => e \in Attempt
    BY DEF Newest
  <1>2. h # <<>> => /\ e.due \in Int /\ e.start \in Nat /\ e.finish \in Nat
                    /\ e.due <= e.start /\ e.start <= now
                    /\ EvidenceAt(e) \in Nat /\ e.start <= EvidenceAt(e)
    BY <1>1 DEF Attempt, Ordered, EvidenceAt
  <1>3. CASE forced
    BY <1>2, <1>3 DEF Evaluate, Due, Reasons
  <1>4. CASE ~forced /\ ConfirmationOwed(h, known, now)
    <2> DEFINE P == Passed(known, now)
               r == Max(P)
    <2>1. P \in SUBSET Int /\ now \in Int /\ \A x \in P : x <= now
      <3>1. P \in SUBSET Nat
        BY DEF Passed
      <3>2. \A x \in P : x <= now
        BY DEF Passed
      <3> HIDE DEF P
      <3> QED BY <3>1, <3>2
    <2>2. P # {}
      BY <1>4 DEF ConfirmationOwed
    <2>3. r \in Int /\ r <= now
      <3> HIDE DEF P
      <3>1. Max(P) \in P
        BY <2>1, <2>2, MaxOfBounded
      <3> QED BY <2>1, <3>1
    <2>4. h # <<>> => e.start < r
      BY <1>4 DEF ConfirmationOwed
    <2>5. d.at = r /\ d.reason = "PostResetConfirmation"
      BY <1>4 DEF Evaluate, Due
    <2> HIDE DEF r, e
    <2> QED BY <1>2, <2>3, <2>4, <2>5 DEF Reasons, e
  <1>5. CASE ~forced /\ ~ConfirmationOwed(h, known, now) /\ EdgeOwed(h, known, now)
    <2> DEFINE C == Coming(known, now)
               r == Min(C)
    <2>1. C \in SUBSET Nat /\ C # {}
      BY <1>5 DEF Coming, EdgeOwed
    <2>2. r \in Nat
      <3> HIDE DEF C
      <3> QED BY <2>1, MinOfNats
    <2>3. r - now <= Lead /\ (h # <<>> => EvidenceAt(e) < r - Lead)
      BY <1>5 DEF EdgeOwed
    <2>4. d.at = r - Lead /\ d.reason = "ResetEdge"
      BY <1>5 DEF Evaluate, Due
    <2> HIDE DEF r, e
    <2> QED BY <1>2, <2>2, <2>3, <2>4, PolicyAssumption DEF Reasons, e
  <1>6. CASE /\ ~forced /\ ~ConfirmationOwed(h, known, now)
             /\ ~EdgeOwed(h, known, now)
    <2>1. CASE h = <<>>
      BY <1>6, <2>1 DEF Evaluate, Due, Reasons
    <2>2. CASE h # <<>>
      <3> DEFINE at == EffectiveDueAt(e, streak, changed)
      <3>1. at \in Int /\ at >= e.due + Cadence
        BY <1>1, <2>2, EffectiveDueAtKeepsCadence
      <3>2. d = IF now < at THEN NotYet(at) ELSE Due(at, "OrdinaryCadence")
        BY <1>6, <2>2 DEF Evaluate
      <3> HIDE DEF at, e
      <3>3. ~(now < at) /\ d = Due(at, "OrdinaryCadence")
        BY <3>2 DEF NotYet, Due
      <3>4. d.at = at /\ d.reason = "OrdinaryCadence"
        BY <3>3 DEF Due
      <3> QED BY <1>2, <2>2, <3>1, <3>3, <3>4, PolicyAssumption DEF Reasons, e
    <2> QED BY <2>1, <2>2
  <1> QED BY <1>3, <1>4, <1>5, <1>6

\* Whatever it is given, the decision is an instant and one of the reasons.
LEMMA DecisionTyped ==
    ASSUME NEW h \in Seq(Attempt), NEW known \in SUBSET Nat, NEW now \in Nat,
           NEW forced \in BOOLEAN, NEW streak \in Nat, NEW changed \in BOOLEAN,
           NEW d, d = Evaluate(h, known, now, forced, streak, changed)
    PROVE  d.at \in Int /\ d.reason \in Reasons
  <1>1. CASE forced
    BY <1>1 DEF Evaluate, Due, Reasons
  <1>2. CASE ~forced /\ ConfirmationOwed(h, known, now)
    <2> DEFINE P == Passed(known, now)
    <2>1. P \in SUBSET Nat /\ P # {} /\ \A x \in P : x <= now
      BY <1>2 DEF Passed, ConfirmationOwed
    <2>2. Max(P) \in Int
      <3> HIDE DEF P
      <3>1. P \in SUBSET Int /\ now \in Int
        BY <2>1
      <3>2. Max(P) \in P
        BY <2>1, <3>1, MaxOfBounded
      <3> QED BY <3>1, <3>2
    <2>3. d.at = Max(P) /\ d.reason = "PostResetConfirmation"
      BY <1>2 DEF Evaluate, Due
    <2> HIDE DEF P
    <2> QED BY <2>2, <2>3 DEF Reasons
  <1>3. CASE ~forced /\ ~ConfirmationOwed(h, known, now) /\ EdgeOwed(h, known, now)
    <2> DEFINE C == Coming(known, now)
    <2>1. C \in SUBSET Nat /\ C # {}
      BY <1>3 DEF Coming, EdgeOwed
    <2>2. Min(C) \in Nat
      <3> HIDE DEF C
      <3> QED BY <2>1, MinOfNats
    <2>3. d.at = Min(C) - Lead /\ d.reason = "ResetEdge"
      BY <1>3 DEF Evaluate, Due
    <2> HIDE DEF C
    <2> QED BY <2>2, <2>3, PolicyAssumption DEF Reasons
  <1>4. CASE /\ ~forced /\ ~ConfirmationOwed(h, known, now)
             /\ ~EdgeOwed(h, known, now)
    <2>1. CASE h = <<>>
      BY <1>4, <2>1 DEF Evaluate, Due, Reasons
    <2>2. CASE h # <<>>
      <3> DEFINE at == EffectiveDueAt(Newest(h), streak, changed)
      <3>1. at \in Int
        <4>1. Newest(h) \in Attempt
          BY <2>2 DEF Newest
        <4> QED BY <4>1, EffectiveDueAtKeepsCadence
      <3>2. d = IF now < at THEN NotYet(at) ELSE Due(at, "OrdinaryCadence")
        BY <1>4, <2>2 DEF Evaluate
      <3> HIDE DEF at
      <3> QED BY <3>1, <3>2 DEF NotYet, Due, Reasons
    <2> QED BY <2>1, <2>2
  <1> QED BY <1>1, <1>2, <1>3, <1>4

----------------------------------------------------------------------------
(* The history, whoever writes it.                                         *)

\* Time runs forward within an attempt.
AttemptsAreOrdered ==
    \A i \in DOMAIN history :
        /\ history[i].due <= history[i].start
        /\ history[i].start <= clock
        /\ history[i].outcome \in Terminals \cup {"spooled"} =>
               history[i].start <= history[i].finish

HistoryInv ==
    /\ HistoryTypeOK
    /\ AttemptsAreOrdered
    /\ SlotIsSpentOnce
    /\ OrdinaryGridKeepsItsPace

\* A decision that no attempt of the history has overtaken.
Ahead(due, reason) ==
    \A i \in DOMAIN history :
        /\ history[i].due <= due
        /\ reason # "ForcedOrManual" => history[i].due < due
        /\ reason = "OrdinaryCadence" => history[i].due + Cadence <= due

\* A step that fills in results keeps every slot, and of the attempts in flight
\* it ends at most attempt k.
FillsResults(k) ==
    /\ history' \in Seq(Attempt) /\ Len(history') = Len(history)
    /\ newest' \in 0..Len(history)
    /\ clock' = clock
    /\ \A i \in 1..Len(history) :
          /\ history'[i].due = history[i].due
          /\ history'[i].reason = history[i].reason
          /\ history'[i].start = history[i].start
          /\ history'[i].outcome \in Terminals \cup {"spooled"} =>
                 history'[i].start <= history'[i].finish
          /\ (i # k /\ history[i].outcome = "inflight") =>
                 history'[i].outcome = "inflight"

\* The history's types, spelled out.
LEMMA HistoryShape ==
    ASSUME HistoryInv
    PROVE  /\ history \in Seq(Attempt) /\ Len(history) \in Nat /\ clock \in Nat
           /\ DOMAIN history = 1..Len(history) /\ newest \in 0..Len(history)
           /\ \A i \in 1..Len(history) :
                 /\ history[i] \in Attempt
                 /\ history[i].due \in Int /\ history[i].start \in Nat
                 /\ history[i].finish \in Nat
  <1>1. /\ history \in Seq(Attempt) /\ Len(history) \in Nat /\ clock \in Nat
        /\ DOMAIN history = 1..Len(history) /\ newest \in 0..Len(history)
        /\ \A i \in 1..Len(history) : history[i] \in Attempt
    BY DEF HistoryInv, HistoryTypeOK
  <1> QED BY <1>1 DEF Attempt

\* A step that only fills in results keeps every property of the slots.
LEMMA ResultsKeepSlots ==
    ASSUME HistoryInv, NEW k, FillsResults(k)
    PROVE  HistoryInv'
  <1>1. DOMAIN history = 1..Len(history) /\ DOMAIN history' = 1..Len(history)
    BY HistoryShape DEF FillsResults
  <1>2. HistoryTypeOK'
    BY HistoryShape DEF FillsResults, HistoryTypeOK
  <1>3. AttemptsAreOrdered'
    BY <1>1 DEF HistoryInv, AttemptsAreOrdered, FillsResults
  <1>4. SlotIsSpentOnce'
    BY <1>1 DEF HistoryInv, SlotIsSpentOnce, FillsResults
  <1>5. OrdinaryGridKeepsItsPace'
    BY <1>1 DEF HistoryInv, OrdinaryGridKeepsItsPace, FillsResults
  <1> QED BY <1>2, <1>3, <1>4, <1>5 DEF HistoryInv

\* A step that leaves the database alone fills in nothing.
LEMMA NothingFillsResults ==
    ASSUME HistoryInv, UNCHANGED <<clock, Database>>, NEW k
    PROVE  FillsResults(k)
  <1>1. \A i \in 1..Len(history) :
           history[i].outcome \in Terminals \cup {"spooled"} =>
               history[i].start <= history[i].finish
    BY HistoryShape DEF HistoryInv, AttemptsAreOrdered
  <1> QED BY <1>1, HistoryShape DEF FillsResults, Database

\* A drain turns spooled rows into successes and touches nothing else of them.
LEMMA CommitFillsResults ==
    ASSUME HistoryInv, NEW S, S \subseteq Spooled, NEW last \in Spooled,
           Commit(S, last), clock' = clock, NEW k
    PROVE  FillsResults(k)
  <1> DEFINE n == Len(history)
  <1>1. n \in Nat /\ DOMAIN history = 1..n /\ \A i \in 1..n : history[i] \in Attempt
    BY HistoryShape
  <1>2. history' = [i \in 1..n |->
                      IF i \in S THEN [history[i] EXCEPT !.outcome = "success"]
                                 ELSE history[i]]
    BY <1>1 DEF Commit
  <1>3. \A i \in 1..n : history'[i] \in Attempt
    BY <1>1, <1>2 DEF Attempt, Outcomes, Terminals
  <1>4. history' \in Seq(Attempt) /\ Len(history') = n
    BY <1>1, <1>2, <1>3
  <1>5. \A i \in S : i \in 1..n /\ history[i].outcome = "spooled"
    BY <1>1 DEF Spooled
  <1>6. \A i \in 1..n : /\ history'[i].due = history[i].due
                        /\ history'[i].reason = history[i].reason
                        /\ history'[i].start = history[i].start
                        /\ history'[i].finish = history[i].finish
                        /\ i \notin S => history'[i].outcome = history[i].outcome
    BY <1>1, <1>2 DEF Attempt
  <1>7. \A i \in 1..n : history[i].outcome \in Terminals \cup {"spooled"} =>
                           history[i].start <= history[i].finish
    BY <1>1 DEF HistoryInv, AttemptsAreOrdered
  <1>8. newest' \in 0..n
    BY <1>1 DEF Commit, Spooled
  <1>9. \A i \in 1..n : history[i].outcome = "inflight" =>
                           history'[i].outcome = "inflight"
    BY <1>5, <1>6
  <1> QED BY <1>4, <1>5, <1>6, <1>7, <1>8, <1>9 DEF FillsResults

\* The drain at the start of a command.
LEMMA DrainSpoolFillsResults ==
    ASSUME HistoryInv, DrainSpool, clock' = clock, NEW k
    PROVE  FillsResults(k)
  BY NothingFillsResults, CommitFillsResults DEF DrainSpool

\* An answer fills in the result of one attempt in flight, received now.
LEMMA AnswerFillsResults ==
    ASSUME HistoryInv, NEW k \in InFlight, NEW outcome \in Outcomes,
           NEW retry \in SUBSET RetryAfters, NEW resets \in SUBSET ResetTimes,
           Answer(k, outcome, retry, resets), newest' \in {newest, k},
           clock' = clock
    PROVE  FillsResults(k)
  <1> DEFINE n == Len(history)
             new == [history[k] EXCEPT !.outcome = outcome, !.finish = clock,
                                       !.retry = retry, !.resets = resets]
  <1>1. /\ n \in Nat /\ DOMAIN history = 1..n /\ clock \in Nat
        /\ \A i \in 1..n : history[i] \in Attempt
    BY HistoryShape
  <1>2. k \in 1..n
    BY <1>1 DEF InFlight
  <1>3. new \in Attempt
    BY <1>1, <1>2 DEF Attempt
  <1>4. history' = [history EXCEPT ![k] = new]
    BY <1>1, <1>2 DEF Answer, Attempt
  <1>5. /\ new.due = history[k].due /\ new.reason = history[k].reason
        /\ new.start = history[k].start /\ new.finish = clock
    BY <1>1, <1>2 DEF Attempt
  <1>6. \A i \in 1..n : /\ history[i].start <= clock
                        /\ history[i].outcome \in Terminals \cup {"spooled"} =>
                           history[i].start <= history[i].finish
    BY <1>1 DEF HistoryInv, AttemptsAreOrdered
  <1>7. history \in Seq(Attempt)
    BY HistoryShape
  <1> HIDE DEF new
  <1>8. history' \in Seq(Attempt) /\ Len(history') = n
    BY <1>2, <1>3, <1>4, <1>7
  <1>9. \A i \in 1..n : history'[i] = IF i = k THEN new ELSE history[i]
    BY <1>1, <1>2, <1>4
  <1>10. newest' \in 0..n
    BY <1>1, <1>2, HistoryShape
  <1> QED BY <1>2, <1>5, <1>6, <1>8, <1>9, <1>10 DEF FillsResults

\* Whatever becomes of a request, only its own attempt is filled in.
LEMMA SettlingFillsResults ==
    ASSUME HistoryInv, NEW k, Measure(k) \/ Fail(k) \/ Lose(k) \/ Drain(k)
    PROVE  FillsResults(k)
  <1>1. CASE Measure(k)
    <2>1. k \in InFlight /\ clock' = clock
      BY <1>1 DEF Measure
    <2>2. PICK resets \in SUBSET ResetTimes :
             \/ Answer(k, "success", {}, resets) /\ newest' = k
             \/ Answer(k, "spooled", {}, resets) /\ UNCHANGED newest
      BY <1>1 DEF Measure
    <2>3. "success" \in Outcomes /\ "spooled" \in Outcomes
      BY DEF Outcomes, Terminals
    <2>4. CASE Answer(k, "success", {}, resets) /\ newest' = k
      BY <2>1, <2>3, <2>4, AnswerFillsResults
    <2>5. CASE Answer(k, "spooled", {}, resets) /\ UNCHANGED newest
      BY <2>1, <2>3, <2>5, AnswerFillsResults
    <2> QED BY <2>2, <2>4, <2>5
  <1>2. CASE Fail(k)
    <2>1. k \in InFlight /\ UNCHANGED <<clock, newest>>
      BY <1>2 DEF Fail
    <2>2. PICK outcome \in Outcomes, retry \in SUBSET RetryAfters :
             Answer(k, outcome, retry, {})
      <3>1. {"auth", "unreachable", "limited"} \subseteq Outcomes
        BY DEF Outcomes, Terminals
      <3>2. CASE \E outcome \in {"auth", "unreachable", "limited"} :
                    Answer(k, outcome, {}, {})
        BY <3>1, <3>2
      <3>3. CASE \E r \in RetryAfters : Answer(k, "limited", {r}, {})
        BY <3>1, <3>3
      <3> QED BY <1>2, <3>2, <3>3 DEF Fail
    <2> QED BY <2>1, <2>2, AnswerFillsResults
  <1>3. CASE Lose(k)
    <2> DEFINE n == Len(history)
               new == [history[k] EXCEPT !.outcome = "lost"]
    <2>1. /\ k \in 1..n /\ UNCHANGED <<clock, newest>>
          /\ history' = [history EXCEPT ![k].outcome = "lost"]
      BY <1>3, HistoryShape DEF Lose, InFlight
    <2>2. new \in Attempt /\ history' = [history EXCEPT ![k] = new]
      BY <2>1, HistoryShape DEF Attempt, Outcomes
    <2>3. /\ new.due = history[k].due /\ new.reason = history[k].reason
          /\ new.start = history[k].start
          /\ new.outcome \notin Terminals \cup {"spooled"}
      BY <2>1, HistoryShape DEF Attempt, Terminals
    <2> HIDE DEF new
    <2>4. /\ history' \in Seq(Attempt) /\ Len(history') = n
          /\ \A i \in 1..n : history'[i] = IF i = k THEN new ELSE history[i]
      BY <2>1, <2>2, HistoryShape
    <2>5. \A i \in 1..n : history[i].outcome \in Terminals \cup {"spooled"} =>
                             history[i].start <= history[i].finish
      BY HistoryShape DEF HistoryInv, AttemptsAreOrdered
    <2> QED BY <2>1, <2>3, <2>4, <2>5, HistoryShape DEF FillsResults
  <1>4. CASE Drain(k)
    <2>1. k \in Spooled /\ Commit({k}, k) /\ clock' = clock
      BY <1>4 DEF Drain
    <2> QED BY <2>1, CommitFillsResults
  <1> QED BY <1>1, <1>2, <1>3, <1>4

\* The streak the store counts is a natural number.
LEMMA AuthStreakIsNat ==
    ASSUME NEW h \in Seq(Attempt)
    PROVE  AuthStreak(h) \in Nat
  <1> DEFINE rows == {i \in TerminalRows(h) :
                \A j \in TerminalRows(h) : j >= i => h[j].outcome = "auth"}
  <1>1. rows \subseteq 1..Len(h) /\ Len(h) \in Nat
    BY DEF TerminalRows
  <1>2. IsFiniteSet(1..Len(h))
    BY <1>1, FS_Interval
  <1>3. IsFiniteSet(rows)
    BY <1>1, <1>2, FS_Subset
  <1>4. Cardinality(rows) \in Nat
    BY <1>3, FS_CardinalityType
  <1>5. Min({StreakLimit, Cardinality(rows)}) \in Nat
    <2> HIDE DEF rows
    <2> QED BY <1>4, MinOfTwo DEF StreakLimit
  <1> QED BY <1>5 DEF AuthStreak

\* What the store knows of the resets is a set of instants.
LEMMA KnownResetsAreInstants ==
    ASSUME HistoryInv
    PROVE  KnownResets \in SUBSET Nat
  <1>1. newest # 0 => history[newest].resets \in SUBSET ResetTimes
    BY HistoryShape DEF Attempt
  <1> QED BY <1>1, ScheduleAssumption DEF KnownResets

\* What lies past the newest attempt's instant lies past every attempt's.
LEMMA PastNewestIsAhead ==
    ASSUME HistoryInv, NEW due \in Int, NEW reason,
           history # <<>> =>
               /\ Newest(history).due <= due
               /\ reason # "ForcedOrManual" => Newest(history).due < due
               /\ reason = "OrdinaryCadence" => Newest(history).due + Cadence <= due
    PROVE  Ahead(due, reason)
  <1> DEFINE n == Len(history)
  <1>1. n \in Nat /\ DOMAIN history = 1..n /\ \A i \in 1..n : history[i].due \in Int
    BY HistoryShape
  <1> SUFFICES ASSUME NEW i \in 1..n
               PROVE  /\ history[i].due <= due
                      /\ reason # "ForcedOrManual" => history[i].due < due
                      /\ reason = "OrdinaryCadence" => history[i].due + Cadence <= due
    BY <1>1 DEF Ahead
  <1>2. history # <<>> /\ n \in 1..n /\ Newest(history).due \in Int
    BY <1>1 DEF Newest
  <1>3. history[i].due <= Newest(history).due
    BY <1>1, <1>2 DEF HistoryInv, SlotIsSpentOnce, Newest
  <1> QED BY <1>1, <1>2, <1>3, PolicyAssumption

\* Committing an attempt that is ahead spends exactly its slot.
LEMMA StartKeepsSlots ==
    ASSUME HistoryInv, NEW due \in Int, NEW reason \in Reasons, NEW start \in Nat,
           NEW ctx \in Contexts, due <= start, start <= clock, Ahead(due, reason),
           start_meter_attempt(due, reason, start, ctx)
    PROVE  /\ HistoryInv' /\ Len(history') = Len(history) + 1
           /\ \A i \in 1..Len(history) : history'[i] = history[i]
           /\ history'[Len(history) + 1].start = start
           /\ history'[Len(history) + 1].outcome = "inflight"
           /\ UNCHANGED <<clock, newest>>
  <1> DEFINE n == Len(history)
             e == [due |-> due, reason |-> reason, start |-> start,
                   context |-> ctx, outcome |-> "inflight",
                   finish |-> 0, retry |-> {}, resets |-> {}]
  <1>1. history' = Append(history, e) /\ UNCHANGED <<clock, newest>>
    BY DEF start_meter_attempt
  <1>2. e \in Attempt
    BY DEF Attempt, Outcomes
  <1>3. /\ e.due = due /\ e.reason = reason /\ e.start = start
        /\ e.outcome = "inflight" /\ e.outcome \notin Terminals \cup {"spooled"}
    BY DEF Terminals
  <1> HIDE DEF e
  <1>4. n \in Nat /\ DOMAIN history = 1..n /\ \A i \in 1..n : history[i].due \in Int
    BY HistoryShape
  <1>5. /\ history' \in Seq(Attempt) /\ Len(history') = n + 1
        /\ DOMAIN history' = 1..(n + 1)
        /\ history'[n + 1] = e /\ \A i \in 1..n : history'[i] = history[i]
    BY <1>1, <1>2, HistoryShape
  <1>6. HistoryTypeOK'
    BY <1>1, <1>5, HistoryShape DEF HistoryTypeOK
  <1>7. AttemptsAreOrdered'
    BY <1>1, <1>3, <1>4, <1>5 DEF HistoryInv, AttemptsAreOrdered
  <1>8. SlotIsSpentOnce'
    BY <1>3, <1>4, <1>5 DEF HistoryInv, SlotIsSpentOnce, Ahead
  <1>9. OrdinaryGridKeepsItsPace'
    BY <1>3, <1>4, <1>5, PolicyAssumption, SMTT(60) DEF HistoryInv, OrdinaryGridKeepsItsPace, Ahead
  <1> QED BY <1>1, <1>3, <1>5, <1>6, <1>7, <1>8, <1>9 DEF HistoryInv

\* Time passing leaves the history as it should be.
LEMMA TimeKeepsHistory ==
    ASSUME HistoryInv, clock' = clock + 1, UNCHANGED Database
    PROVE  HistoryInv'
  <1>1. HistoryTypeOK'
    BY HistoryShape DEF HistoryTypeOK, Database
  <1>2. AttemptsAreOrdered'
    BY HistoryShape DEF HistoryInv, AttemptsAreOrdered, Database
  <1>3. SlotIsSpentOnce' /\ OrdinaryGridKeepsItsPace'
    BY DEF HistoryInv, SlotIsSpentOnce, OrdinaryGridKeepsItsPace, Database
  <1> QED BY <1>1, <1>2, <1>3 DEF HistoryInv

----------------------------------------------------------------------------
(* SamplingSchedule: one invocation at a time.                             *)

\* What the invocation has decided is still ahead of every attempt.
DecisionIsAhead ==
    sampler.phase = "decided" =>
        sampler.due <= clock /\ Ahead(sampler.due, sampler.reason)

ContextIsResolved == sampler.phase # "idle" => sampler.context \in Contexts

ScheduleInv ==
    /\ ScheduleTypeOK
    /\ HistoryInv
    /\ ContextIsResolved
    /\ DecisionIsAhead

\* The empty history satisfies all of it.
LEMMA ScheduleInitInv == Init => ScheduleInv
  BY DEF Init, NoHistory, ScheduleInv, ScheduleTypeOK, HistoryInv, HistoryTypeOK,
         ContextIsResolved, Idle, Reasons, AttemptsAreOrdered, SlotIsSpentOnce,
         OrdinaryGridKeepsItsPace, DecisionIsAhead

\* Filling in results disturbs neither the decision nor its credential.
LEMMA ResultsKeepSchedule ==
    ASSUME ScheduleInv, NEW k, FillsResults(k), UNCHANGED <<context, sampler>>
    PROVE  ScheduleInv'
  <1>1. HistoryInv'
    BY ResultsKeepSlots DEF ScheduleInv
  <1>2. ScheduleTypeOK' /\ ContextIsResolved'
    BY <1>1 DEF ScheduleInv, ScheduleTypeOK, ContextIsResolved, HistoryInv
  <1>3. DecisionIsAhead'
    <2>1. Ahead(sampler.due, sampler.reason) => Ahead(sampler.due, sampler.reason)'
      <3>1. \A i \in 1..Len(history) : history'[i].due = history[i].due
        BY DEF FillsResults
      <3>2. DOMAIN history = 1..Len(history) /\ DOMAIN history' = 1..Len(history)
        BY HistoryShape DEF FillsResults, ScheduleInv
      <3> QED BY <3>1, <3>2 DEF Ahead
    <2> QED BY <2>1 DEF ScheduleInv, DecisionIsAhead, FillsResults
  <1> QED BY <1>1, <1>2, <1>3 DEF ScheduleInv

\* An invocation that has decided nothing yet is no danger to the invariant.
LEMMA UndecidedKeepsSchedule ==
    ASSUME ScheduleInv, NEW k, FillsResults(k), context' = context,
           \/ sampler' = Idle
           \/ sampler' \in [phase : {"ready"}, forced : BOOLEAN,
                            context : Contexts, due : Int, reason : Reasons]
    PROVE  ScheduleInv'
  <1>1. HistoryInv'
    BY ResultsKeepSlots DEF ScheduleInv
  <1>2. /\ sampler' \in [phase : {"idle", "ready", "decided"}, forced : BOOLEAN,
                         context : Contexts \cup {"none"}, due : Int,
                         reason : Reasons]
        /\ sampler'.phase # "decided"
        /\ sampler'.phase # "idle" => sampler'.context \in Contexts
    <2>1. CASE sampler' = Idle
      BY <2>1 DEF Idle, Reasons
    <2>2. CASE sampler' \in [phase : {"ready"}, forced : BOOLEAN,
                             context : Contexts, due : Int, reason : Reasons]
      BY <2>2
    <2> QED BY <2>1, <2>2
  <1>3. ScheduleTypeOK'
    BY <1>1, <1>2 DEF ScheduleInv, ScheduleTypeOK, HistoryInv
  <1> QED BY <1>1, <1>2, <1>3 DEF ScheduleInv, ContextIsResolved, DecisionIsAhead

\* The decision taken under the lease is ahead of every attempt.
LEMMA EvaluateStep ==
    ASSUME ScheduleInv, EvaluateUnderLease
    PROVE  ScheduleInv'
  <1> DEFINE n == Len(history)
             d == Decision(clock, sampler.forced, sampler.context)
  <1>1. /\ d.owed /\ sampler.phase = "ready"
        /\ sampler' = [sampler EXCEPT !.phase = "decided", !.due = d.at,
                                      !.reason = d.reason]
        /\ UNCHANGED <<clock, context, history, newest>>
    BY DEF EvaluateUnderLease, Database
  <1>2. HistoryInv /\ sampler.forced \in BOOLEAN
    BY DEF ScheduleInv, ScheduleTypeOK
  <1>3. KnownResets \in SUBSET Nat
    BY <1>2, KnownResetsAreInstants
  <1>4. AuthStreak(history) \in Nat
    BY <1>2, HistoryShape, AuthStreakIsNat
  <1>5. CredentialChanged(history, sampler.context) \in BOOLEAN
    BY DEF CredentialChanged
  <1>6. history # <<>> => Ordered(Newest(history)) /\ Newest(history).start <= clock
    <2>1. history # <<>> => n \in 1..n
      BY <1>2, HistoryShape
    <2> QED BY <1>2, <2>1, HistoryShape
            DEF HistoryInv, AttemptsAreOrdered, Ordered, Newest, Terminal
  <1>7. /\ d.at \in Int /\ d.at <= clock /\ d.reason \in Reasons
        /\ history # <<>> =>
             /\ Newest(history).due <= d.at
             /\ d.reason # "ForcedOrManual" => Newest(history).due < d.at
             /\ d.reason = "OrdinaryCadence" => Newest(history).due + Cadence <= d.at
    <2>1. d = Evaluate(history, KnownResets, clock, sampler.forced,
                       AuthStreak(history),
                       CredentialChanged(history, sampler.context))
      BY DEF Decision
    <2> HIDE DEF d
    <2>2. history \in Seq(Attempt) /\ clock \in Nat
      BY <1>2, HistoryShape
    <2> QED BY <1>1, <1>2, <1>3, <1>4, <1>5, <1>6, <2>1, <2>2, DecisionAdvances
  <1> HIDE DEF d
  <1>8. Ahead(d.at, d.reason)
    BY <1>2, <1>7, PastNewestIsAhead
  <1>9. /\ sampler'.due = d.at /\ sampler'.reason = d.reason
        /\ sampler'.phase = "decided" /\ sampler'.context = sampler.context
        /\ sampler' \in [phase : {"idle", "ready", "decided"}, forced : BOOLEAN,
                          context : Contexts \cup {"none"}, due : Int,
                          reason : Reasons]
    BY <1>1, <1>7 DEF ScheduleInv, ScheduleTypeOK
  <1>10. HistoryInv'
    BY <1>1, <1>2 DEF HistoryInv, HistoryTypeOK, AttemptsAreOrdered, SlotIsSpentOnce,
                      OrdinaryGridKeepsItsPace
  <1>11. ScheduleTypeOK' /\ ContextIsResolved'
    BY <1>1, <1>9, <1>10 DEF ScheduleInv, ScheduleTypeOK, ContextIsResolved, HistoryInv
  <1>12. DecisionIsAhead'
    BY <1>1, <1>7, <1>8, <1>9 DEF DecisionIsAhead, Ahead
  <1> QED BY <1>10, <1>11, <1>12 DEF ScheduleInv

\* Committing the decided attempt spends exactly that slot.
LEMMA StartStep ==
    ASSUME ScheduleInv, Start
    PROVE  ScheduleInv'
  <1>1. /\ sampler.phase = "decided" /\ sampler' = Idle /\ context' = context
        /\ start_meter_attempt(sampler.due, sampler.reason, clock, sampler.context)
    BY DEF Start
  <1>2. /\ sampler.due \in Int /\ sampler.reason \in Reasons /\ clock \in Nat
        /\ sampler.context \in Contexts /\ sampler.due <= clock
        /\ Ahead(sampler.due, sampler.reason)
    BY <1>1 DEF ScheduleInv, ScheduleTypeOK, HistoryTypeOK, ContextIsResolved,
                DecisionIsAhead
  <1>3. HistoryInv'
    BY <1>1, <1>2, StartKeepsSlots DEF ScheduleInv
  <1> QED BY <1>1, <1>3 DEF ScheduleInv, ScheduleTypeOK, ContextIsResolved,
                            DecisionIsAhead, HistoryInv, Idle, Reasons

\* Every step keeps the invariant.
LEMMA ScheduleStep == ScheduleInv /\ [Next]_vars => ScheduleInv'
  <1> SUFFICES ASSUME ScheduleInv, [Next]_vars
               PROVE  ScheduleInv'
    OBVIOUS
  <1>1. HistoryInv /\ context \in Contexts /\ clock \in Nat
    BY DEF ScheduleInv, ScheduleTypeOK, HistoryTypeOK
  <1>2. CASE Tick
    <2>1. clock' = clock + 1 /\ UNCHANGED <<context, Database, sampler>>
      BY <1>2 DEF Tick
    <2>2. HistoryInv'
      BY <1>1, <2>1, TimeKeepsHistory
    <2>3. ScheduleTypeOK' /\ ContextIsResolved'
      BY <2>1, <2>2 DEF ScheduleInv, ScheduleTypeOK, ContextIsResolved, HistoryInv
    <2>4. DecisionIsAhead'
      <3>1. sampler.due \in Int
        BY DEF ScheduleInv, ScheduleTypeOK
      <3> QED BY <1>1, <2>1, <3>1 DEF ScheduleInv, DecisionIsAhead, Ahead, Database
    <2> QED BY <2>2, <2>3, <2>4 DEF ScheduleInv
  <1>3. CASE RewriteCredential
    BY <1>3 DEF RewriteCredential, Database, ScheduleInv, ScheduleTypeOK, HistoryInv,
                HistoryTypeOK, ContextIsResolved, AttemptsAreOrdered, SlotIsSpentOnce,
                OrdinaryGridKeepsItsPace, DecisionIsAhead, Ahead
  <1>4. ASSUME NEW forced \in BOOLEAN, Begin(forced)
        PROVE  ScheduleInv'
    <2>1. /\ DrainSpool /\ UNCHANGED <<clock, context>>
          /\ sampler' = [phase |-> "ready", forced |-> forced, context |-> context,
                         due |-> 0, reason |-> "OrdinaryCadence"]
      BY <1>4 DEF Begin, Idle
    <2>2. sampler' \in [phase : {"ready"}, forced : BOOLEAN,
                        context : Contexts, due : Int, reason : Reasons]
      BY <1>1, <2>1 DEF Reasons
    <2> QED BY <1>1, <2>1, <2>2, DrainSpoolFillsResults, UndecidedKeepsSchedule
  <1>5. CASE EvaluateUnderLease
    BY <1>5, EvaluateStep
  <1>6. CASE Skip \/ Abandon
    <2>1. sampler' = Idle /\ UNCHANGED <<clock, context, Database>>
      BY <1>6 DEF Skip, Abandon
    <2> QED BY <1>1, <2>1, NothingFillsResults, UndecidedKeepsSchedule
  <1>7. CASE Start
    BY <1>7, StartStep
  <1>8. CASE Settle
    <2>1. PICK k : Measure(k) \/ Fail(k) \/ Lose(k) \/ Drain(k)
      BY <1>8 DEF Settle
    <2>2. UNCHANGED <<context, sampler>>
      BY <1>8 DEF Settle
    <2> QED BY <1>1, <2>1, <2>2, SettlingFillsResults, ResultsKeepSchedule
  <1>9. CASE UNCHANGED vars
    BY <1>1, <1>9, NothingFillsResults, ResultsKeepSchedule DEF vars, Database
  <1> QED BY <1>2, <1>3, <1>4, <1>5, <1>6, <1>7, <1>8, <1>9 DEF Next

----------------------------------------------------------------------------
(* Sampler: invocations that race.                                         *)

\* An instant an invocation has read has come.
InstantHasCome(p) == proc[p].now <= clock

\* The grant is decided within a TTL of the instant it is counted from.
GrantIsTimely(p) == Phase(p) = "locking" => clock < proc[p].now + Ttl

\* From the grant to the start the lease is its own and has not run out.
HoldsTheLease(p) ==
    Phase(p) \in Eligible =>
        /\ lease.holder = p
        /\ lease.expires_at = proc[p].expires_at
        /\ clock < proc[p].expires_at

\* While the statements of the snapshot run, the attempt the first one found
\* stays the latest.
SnapshotIsNewest(p) ==
    Phase(p) \in {"latest", "result", "streak"} =>
        /\ proc[p].row = Len(history)
        /\ \A i \in DOMAIN history : history[i].start <= proc[p].now

\* Its slot is the one the history has, whatever became of its result.
EntryIsNewest(p) ==
    Phase(p) \in {"result", "streak"} =>
        IF history = <<>> THEN proc[p].entry = <<>>
        ELSE /\ Len(proc[p].entry) = 1
             /\ Ordered(proc[p].entry[1])
             /\ proc[p].entry[1].due = Newest(history).due
             /\ proc[p].entry[1].start = Newest(history).start

\* A decision taken under the lease is ahead of every attempt until its start.
DecisionStands(p) ==
    Phase(p) \in {"decided", "stamped"} =>
        /\ proc[p].due <= proc[p].now
        /\ Ahead(proc[p].due, proc[p].reason)
        /\ \A i \in DOMAIN history : history[i].start <= proc[p].now

RunInv(p) ==
    /\ InstantHasCome(p)
    /\ GrantIsTimely(p)
    /\ HoldsTheLease(p)
    /\ SnapshotIsNewest(p)
    /\ EntryIsNewest(p)
    /\ DecisionStands(p)

SamplerInv ==
    /\ SamplerTypeOK
    /\ HistoryInv
    /\ HistoryIsOrderedByStart
    /\ \A p \in Invocations : RunInv(p)

\* Nothing has run yet.
LEMMA SamplerInitInv == SamplerInit => SamplerInv
  <1> SUFFICES ASSUME SamplerInit
               PROVE  SamplerInv
    OBVIOUS
  <1>1. history = <<>> /\ clock = 0 /\ newest = 0 /\ lease = NoRow
        /\ proc = [p \in Invocations |-> NoRun]
    BY DEF SamplerInit, NoHistory
  <1>2. HistoryInv
    BY <1>1 DEF HistoryInv, HistoryTypeOK, AttemptsAreOrdered, SlotIsSpentOnce,
                OrdinaryGridKeepsItsPace
  <1>3. NoRun \in Runs /\ NoRun.phase = "idle" /\ NoRun.now = 0
    BY <1>1 DEF NoRun, Runs, Phases, Reasons
  <1>4. SamplerTypeOK
    BY <1>1, <1>2, <1>3 DEF SamplerTypeOK, HistoryInv, NoRow, Leases
  <1>5. \A p \in Invocations : RunInv(p)
    BY <1>1, <1>3 DEF RunInv, InstantHasCome, GrantIsTimely, HoldsTheLease,
                      SnapshotIsNewest, EntryIsNewest, DecisionStands, Phase, Eligible
  <1> QED BY <1>1, <1>2, <1>4, <1>5 DEF SamplerInv, HistoryIsOrderedByStart

\* The types of a run, spelled out.
LEMMA RunShape ==
    ASSUME SamplerInv, NEW p \in Invocations
    PROVE  /\ proc[p] \in Runs /\ Phase(p) = proc[p].phase
           /\ proc[p].now \in Nat /\ proc[p].expires_at \in Nat
           /\ proc[p].row \in 0..Len(history) /\ proc[p].due \in Int
           /\ proc[p].reason \in Reasons /\ proc[p].forced \in BOOLEAN
           /\ proc[p].entry \in Seq(Attempt) /\ proc[p].streak \in Nat
           /\ lease.expires_at \in Nat /\ clock \in Nat
  <1>1. proc[p] \in Runs /\ lease \in Leases /\ clock \in Nat
    BY DEF SamplerInv, SamplerTypeOK, HistoryTypeOK
  <1> QED BY <1>1 DEF Runs, Leases, Phase

\* An invocation that stands still keeps its invariant while results are filled
\* in, as long as nobody takes its lease away.
LEMMA StandingRunKeepsInv ==
    ASSUME SamplerInv, NEW k, FillsResults(k), NEW p \in Invocations,
           proc'[p] = proc[p], Phase(p) \in Eligible => lease' = lease
    PROVE  RunInv(p)'
  <1>1. /\ Len(history) \in Nat /\ clock' = clock
        /\ DOMAIN history = 1..Len(history) /\ DOMAIN history' = 1..Len(history)
        /\ Len(history') = Len(history)
    BY HistoryShape DEF FillsResults, SamplerInv
  <1>2. \A i \in 1..Len(history) : /\ history'[i].due = history[i].due
                                   /\ history'[i].start = history[i].start
    BY DEF FillsResults
  <1>3. RunInv(p)
    BY DEF SamplerInv
  <1>4. (InstantHasCome(p) /\ GrantIsTimely(p) /\ HoldsTheLease(p))'
    BY <1>1, <1>3 DEF RunInv, InstantHasCome, GrantIsTimely, HoldsTheLease, Phase
  <1>5. SnapshotIsNewest(p)'
    BY <1>1, <1>2, <1>3 DEF RunInv, SnapshotIsNewest, Phase
  <1>6. EntryIsNewest(p)'
    <2>1. history = <<>> <=> history' = <<>>
      BY <1>1, HistoryShape DEF SamplerInv, FillsResults
    <2>2. history # <<>> => /\ Newest(history)'.due = Newest(history).due
                            /\ Newest(history)'.start = Newest(history).start
      <3>1. history # <<>> => Len(history) \in 1..Len(history)
        BY <1>1, HistoryShape DEF SamplerInv
      <3> QED BY <1>1, <1>2, <3>1 DEF Newest
    <2> QED BY <1>3, <2>1, <2>2 DEF RunInv, EntryIsNewest, Phase
  <1>7. DecisionStands(p)'
    BY <1>1, <1>2, <1>3 DEF RunInv, DecisionStands, Ahead, Phase
  <1> QED BY <1>4, <1>5, <1>6, <1>7 DEF RunInv

\* A step that fills in results at most: the invocations that stand still are
\* not robbed of lease or request, and the one that moves keeps its invariant.
LEMMA RunsStep ==
    ASSUME SamplerInv, NEW k, FillsResults(k),
           lease' \in Leases, proc' \in [Invocations -> Runs],
           \A p \in Invocations :
               \/ /\ proc'[p] = proc[p]
                  /\ Phase(p) \in Eligible => lease' = lease
                  /\ Phase(p) = "request" => proc[p].row # k
               \/ proc'[p].phase # "request" /\ RunInv(p)'
    PROVE  SamplerInv'
  <1>1. /\ HistoryInv' /\ Len(history') = Len(history)
        /\ DOMAIN history = 1..Len(history) /\ DOMAIN history' = 1..Len(history)
    <2>1. HistoryInv'
      BY ResultsKeepSlots DEF SamplerInv
    <2> QED BY <2>1, HistoryShape DEF SamplerInv, FillsResults
  <1>2. HistoryIsOrderedByStart'
    BY <1>1 DEF SamplerInv, HistoryIsOrderedByStart, FillsResults
  <1>3. SamplerTypeOK'
    <2>1. HistoryTypeOK' /\ (proc \in [Invocations -> Runs])'
      BY <1>1 DEF HistoryInv, Runs
    <2>2. ASSUME NEW p \in Invocations, proc'[p].phase = "request"
          PROVE  /\ proc'[p].row \in InFlight'
                 /\ \A q \in Invocations \ {p} :
                       proc'[q].phase = "request" => proc'[q].row # proc'[p].row
      <3>1. /\ proc'[p] = proc[p] /\ proc[p].phase = "request"
            /\ proc[p].row # k
        BY <2>2 DEF Phase
      <3>2. proc[p].row \in InFlight
        BY <3>1 DEF SamplerInv, SamplerTypeOK
      <3>3. proc[p].row \in InFlight'
        BY <1>1, <3>1, <3>2 DEF InFlight, FillsResults
      <3>4. \A q \in Invocations : proc'[q].phase = "request" => proc'[q] = proc[q]
        OBVIOUS
      <3> QED BY <3>1, <3>3, <3>4 DEF SamplerInv, SamplerTypeOK
    <2> QED BY <2>1, <2>2 DEF SamplerTypeOK
  <1>4. ASSUME NEW p \in Invocations
        PROVE  RunInv(p)'
    <2>1. CASE proc'[p] = proc[p] /\ (Phase(p) \in Eligible => lease' = lease)
      BY <2>1, StandingRunKeepsInv
    <2> QED BY <2>1
  <1> QED BY <1>1, <1>2, <1>3, <1>4 DEF SamplerInv

\* A step of one invocation that leaves it without a lease to count on.
LEMMA IneligibleStep ==
    ASSUME SamplerInv, NEW p \in Invocations, NEW k, FillsResults(k),
           lease' \in Leases,
           \A q \in Invocations \ {p} :
               /\ Phase(q) \in Eligible => lease' = lease
               /\ Phase(q) = "request" => proc[q].row # k,
           NEW r \in Runs, proc' = [proc EXCEPT ![p] = r],
           r.phase \notin Eligible \cup {"locking", "request"}, r.now <= clock
    PROVE  SamplerInv'
  <1>1. proc \in [Invocations -> Runs]
    BY DEF SamplerInv, SamplerTypeOK
  <1>2. proc'[p] = r /\ \A q \in Invocations \ {p} : proc'[q] = proc[q]
    BY <1>1
  <1>3. proc' \in [Invocations -> Runs]
    BY <1>1
  <1>4. RunInv(p)'
    BY <1>2 DEF FillsResults, RunInv, InstantHasCome, GrantIsTimely, HoldsTheLease,
                SnapshotIsNewest, EntryIsNewest, DecisionStands, Phase, Eligible
  <1> QED BY <1>2, <1>3, <1>4, RunsStep

\* A step of one invocation that changes neither the database nor the lease.
LEMMA LocalStep ==
    ASSUME SamplerInv, NEW p \in Invocations, UNCHANGED <<clock, Database, lease>>,
           NEW r \in Runs, proc' = [proc EXCEPT ![p] = r],
           r.phase # "request", RunInv(p)'
    PROVE  SamplerInv'
  <1>1. proc \in [Invocations -> Runs] /\ lease \in Leases
    BY DEF SamplerInv, SamplerTypeOK
  <1>2. proc'[p] = r /\ \A q \in Invocations \ {p} : proc'[q] = proc[q]
    BY <1>1
  <1>3. proc' \in [Invocations -> Runs]
    BY <1>1
  <1>4. FillsResults(0)
    BY NothingFillsResults DEF SamplerInv
  <1>5. \A q \in Invocations : Phase(q) = "request" => proc[q].row # 0
    BY HistoryShape DEF SamplerInv, SamplerTypeOK, InFlight, Phase
  <1> QED BY <1>1, <1>2, <1>3, <1>4, <1>5, RunsStep

\* What an invocation falls back to when it ends, or has only to release.
LEMMA EndedRun ==
    ASSUME SamplerInv, NEW p \in Invocations
    PROVE  /\ NoRun \in Runs /\ NoRun.phase = "idle" /\ NoRun.now = 0
           /\ Releasing(p) \in Runs
           /\ Releasing(p).phase = "release" /\ Releasing(p).now = 0
  <1>1. 0 \in 0..Len(history)
    BY HistoryShape DEF SamplerInv
  <1>2. NoRun \in Runs /\ NoRun.phase = "idle" /\ NoRun.now = 0
    BY <1>1 DEF NoRun, Runs, Phases, Reasons
  <1>3. /\ Releasing(p) \in Runs
        /\ Releasing(p).phase = "release" /\ Releasing(p).now = 0
    <2>1. proc[p].expires_at \in Nat
      BY RunShape
    <2>2. Releasing(p) = [NoRun EXCEPT !.phase = "release",
                                       !.expires_at = proc[p].expires_at]
      BY DEF Releasing
    <2>3. NoRun.now = 0 /\ "release" \in Phases
      BY DEF NoRun, Phases
    <2> HIDE DEF NoRun
    <2> QED BY <1>2, <2>1, <2>2, <2>3 DEF Runs
  <1> QED BY <1>2, <1>3

\* An invocation that ends, or goes on to release, without a request.
LEMMA GivingUpStep ==
    ASSUME SamplerInv, NEW p \in Invocations, UNCHANGED <<clock, Database, lease>>,
           \/ proc' = [proc EXCEPT ![p] = NoRun]
           \/ proc' = [proc EXCEPT ![p] = Releasing(p)]
    PROVE  SamplerInv'
  <1>1. FillsResults(0) /\ lease' \in Leases
    BY NothingFillsResults DEF SamplerInv, SamplerTypeOK
  <1>2. \A q \in Invocations : Phase(q) = "request" => proc[q].row # 0
    BY HistoryShape DEF SamplerInv, SamplerTypeOK, InFlight, Phase
  <1>3. clock \in Nat /\ 0 <= clock
    BY DEF SamplerInv, SamplerTypeOK, HistoryTypeOK
  <1>4. "idle" \notin Eligible \cup {"locking", "request"}
        /\ "release" \notin Eligible \cup {"locking", "request"}
    BY DEF Eligible
  <1> QED BY <1>1, <1>2, <1>3, <1>4, EndedRun, IneligibleStep, ZenonT(60)

\* The command starts and drains the spool.
LEMMA InvokeStep ==
    ASSUME SamplerInv, NEW p \in Invocations, NEW forced \in BOOLEAN, Invoke(p, forced)
    PROVE  SamplerInv'
  <1> DEFINE r == [NoRun EXCEPT !.phase = "determine", !.forced = forced, !.now = clock]
  <1>1. DrainSpool /\ UNCHANGED <<clock, lease>> /\ proc' = [proc EXCEPT ![p] = r]
    BY DEF Invoke
  <1>2. FillsResults(0) /\ lease' \in Leases
    BY <1>1, DrainSpoolFillsResults DEF SamplerInv, SamplerTypeOK
  <1>3. \A q \in Invocations : Phase(q) = "request" => proc[q].row # 0
    BY HistoryShape DEF SamplerInv, SamplerTypeOK, InFlight, Phase
  <1>4. r \in Runs /\ r.phase = "determine" /\ r.now = clock
    <2>1. clock \in Nat /\ NoRun \in Runs
      BY HistoryShape, EndedRun DEF SamplerInv
    <2> QED BY <2>1 DEF Runs, Phases
  <1>5. clock \in Nat
    BY HistoryShape DEF SamplerInv
  <1> HIDE DEF r
  <1>6. r.phase \notin Eligible \cup {"locking", "request"} /\ r.now <= clock
    BY <1>4, <1>5 DEF Eligible
  <1> QED BY <1>1, <1>2, <1>3, <1>4, <1>6, IneligibleStep

\* Stage 1 decides whether there is anything to lease for.
LEMMA DetermineStep ==
    ASSUME SamplerInv, NEW p \in Invocations, DetermineDue(p)
    PROVE  SamplerInv'
  <1> DEFINE d == Decision(proc[p].now, proc[p].forced, "none")
             r == [proc[p] EXCEPT !.phase = "acquire", !.due = d.at, !.reason = d.reason]
  <1>1. /\ UNCHANGED <<clock, Database, lease>>
        /\ proc' = [proc EXCEPT ![p] = IF d.owed THEN r ELSE NoRun]
    BY DEF DetermineDue, SamplerInv, SamplerTypeOK
  <1>2. CASE ~d.owed
    BY <1>1, <1>2, GivingUpStep
  <1>3. CASE d.owed
    <2>1. d.at \in Int /\ d.reason \in Reasons
      <3>1. d = Evaluate(history, KnownResets, proc[p].now, proc[p].forced,
                         AuthStreak(history), CredentialChanged(history, "none"))
        BY DEF Decision
      <3>2. CredentialChanged(history, "none") \in BOOLEAN
        BY DEF CredentialChanged
      <3>3. KnownResets \in SUBSET Nat /\ AuthStreak(history) \in Nat
            /\ history \in Seq(Attempt)
        BY HistoryShape, KnownResetsAreInstants, AuthStreakIsNat DEF SamplerInv
      <3> HIDE DEF d
      <3> QED BY <3>1, <3>2, <3>3, RunShape, DecisionTyped
    <2> HIDE DEF d
    <2>2. r \in Runs /\ r.phase = "acquire" /\ r.now = proc[p].now
      BY <2>1, RunShape DEF Runs, Phases
    <2>3. proc' = [proc EXCEPT ![p] = r] /\ r.now <= clock
      BY <1>1, <1>3, <2>2 DEF SamplerInv, RunInv, InstantHasCome
    <2>4. FillsResults(0) /\ lease' \in Leases
      BY <1>1, NothingFillsResults DEF SamplerInv, SamplerTypeOK
    <2>5. \A q \in Invocations : Phase(q) = "request" => proc[q].row # 0
      BY HistoryShape DEF SamplerInv, SamplerTypeOK, InFlight, Phase
    <2>6. r.phase \notin Eligible \cup {"locking", "request"}
      BY <2>2 DEF Eligible
    <2> HIDE DEF r
    <2> QED BY <1>1, <2>2, <2>3, <2>4, <2>5, <2>6, IneligibleStep
  <1> QED BY <1>2, <1>3

\* At most one invocation is between its grant and its start.
LEMMA OneIsEligible ==
    ASSUME SamplerInv, NEW p \in Invocations, NEW q \in Invocations,
           Phase(p) \in Eligible, Phase(q) \in Eligible
    PROVE  p = q
  BY DEF SamplerInv, RunInv, HoldsTheLease

\* acquire reads the clock.
LEMMA ReadLeaseClockStep ==
    ASSUME SamplerInv, NEW p \in Invocations, ReadLeaseClock(p)
    PROVE  SamplerInv'
  <1> DEFINE r == [proc[p] EXCEPT !.phase = "locking", !.now = clock]
  <1>1. UNCHANGED <<clock, Database, lease>> /\ proc' = [proc EXCEPT ![p] = r]
    BY DEF ReadLeaseClock, SamplerInv, SamplerTypeOK
  <1>2. r \in Runs /\ r.phase = "locking" /\ r.now = clock
    BY RunShape DEF Runs, Phases
  <1> HIDE DEF r
  <1>3. proc'[p] = r
    BY <1>1 DEF SamplerInv, SamplerTypeOK
  <1>4. RunInv(p)'
    BY <1>1, <1>2, <1>3, RunShape, SamplerAssumption
       DEF RunInv, InstantHasCome, GrantIsTimely, HoldsTheLease, SnapshotIsNewest,
           EntryIsNewest, DecisionStands, Phase, Eligible
  <1> QED BY <1>1, <1>2, <1>4, LocalStep

\* The grant: whoever was eligible has a row that blocks it.
LEMMA GrantStep ==
    ASSUME SamplerInv, NEW p \in Invocations, Grant(p)
    PROVE  SamplerInv'
  <1> DEFINE r == [proc[p] EXCEPT !.phase = "leased", !.expires_at = proc[p].now + Ttl]
  <1>1. /\ Phase(p) = "locking" /\ ~Blocks(p) /\ UNCHANGED <<clock, Database>>
        /\ lease' = [holder |-> p, expires_at |-> proc[p].now + Ttl]
        /\ proc' = [proc EXCEPT ![p] = r]
    BY DEF Grant, SamplerInv, SamplerTypeOK
  <1>2. /\ r \in Runs /\ r.phase = "leased" /\ r.now = proc[p].now
        /\ r.expires_at = proc[p].now + Ttl
    <2>1. proc[p].now + Ttl \in Nat
      BY RunShape, SamplerAssumption
    <2> QED BY <2>1, RunShape DEF Runs, Phases
  <1> HIDE DEF r
  <1>3. /\ proc'[p] = r /\ proc' \in [Invocations -> Runs]
        /\ \A q \in Invocations \ {p} : proc'[q] = proc[q]
    BY <1>1, <1>2 DEF SamplerInv, SamplerTypeOK
  <1>4. /\ lease' \in Leases /\ lease'.holder = p
        /\ lease'.expires_at = proc[p].now + Ttl
    BY <1>1, RunShape, SamplerAssumption DEF Leases
  <1>5. InstantHasCome(p) /\ GrantIsTimely(p)
    BY DEF SamplerInv, RunInv
  <1>6. RunInv(p)'
    BY <1>1, <1>2, <1>3, <1>4, <1>5
       DEF RunInv, InstantHasCome, GrantIsTimely, HoldsTheLease, SnapshotIsNewest,
           EntryIsNewest, DecisionStands, Phase
  <1>7. ASSUME NEW q \in Invocations \ {p}
        PROVE  Phase(q) \notin Eligible
    <2> SUFFICES ASSUME Phase(q) \in Eligible
                 PROVE  FALSE
      OBVIOUS
    <2>1. lease.holder = q /\ lease.expires_at > clock
      BY RunShape DEF SamplerInv, RunInv, HoldsTheLease
    <2>2. lease.expires_at > proc[p].now
      BY <1>5, <2>1, RunShape DEF InstantHasCome
    <2> QED BY <1>1, <2>1, <2>2, SamplerAssumption DEF Blocks
  <1>8. FillsResults(0)
    BY <1>1, NothingFillsResults DEF SamplerInv
  <1>9. \A q \in Invocations : Phase(q) = "request" => proc[q].row # 0
    BY HistoryShape DEF SamplerInv, SamplerTypeOK, InFlight, Phase
  <1> QED BY <1>2, <1>3, <1>4, <1>6, <1>7, <1>8, <1>9, RunsStep

\* The latest attempt is found, and is no younger than the instant read.
LEMMA ReadLatestStep ==
    ASSUME SamplerInv, NEW p \in Invocations, ReadLatest(p)
    PROVE  SamplerInv'
  <1> DEFINE r == [proc[p] EXCEPT !.phase = "latest", !.now = clock,
                                  !.row = Len(history)]
  <1>1. /\ Phase(p) = "leased" /\ UNCHANGED <<clock, Database, lease>>
        /\ proc' = [proc EXCEPT ![p] = r]
    BY DEF ReadLatest, SamplerInv, SamplerTypeOK
  <1>2. Len(history) \in 0..Len(history)
    BY HistoryShape DEF SamplerInv
  <1>3. /\ r \in Runs /\ r.phase = "latest" /\ r.now = clock
        /\ r.row = Len(history) /\ r.expires_at = proc[p].expires_at
    BY <1>2, RunShape DEF Runs, Phases
  <1> HIDE DEF r
  <1>4. proc'[p] = r
    BY <1>1 DEF SamplerInv, SamplerTypeOK
  <1>5. HoldsTheLease(p)'
    BY <1>1, <1>3, <1>4 DEF SamplerInv, RunInv, HoldsTheLease, Phase, Eligible
  <1>6. SnapshotIsNewest(p)'
    BY <1>1, <1>3, <1>4 DEF SnapshotIsNewest, SamplerInv, HistoryInv,
                            AttemptsAreOrdered, Database
  <1>7. RunInv(p)'
    BY <1>1, <1>3, <1>4, <1>5, <1>6, RunShape
       DEF RunInv, InstantHasCome, GrantIsTimely, EntryIsNewest, DecisionStands, Phase
  <1> QED BY <1>1, <1>3, <1>7, LocalStep

\* Its result is joined; the attempt itself is still the latest.
LEMMA ReadResultStep ==
    ASSUME SamplerInv, NEW p \in Invocations, ReadResult(p)
    PROVE  SamplerInv'
  <1> DEFINE entry == IF proc[p].row = 0 THEN <<>> ELSE <<history[proc[p].row]>>
             r == [proc[p] EXCEPT !.phase = "result", !.entry = entry]
  <1>1. /\ Phase(p) = "latest" /\ UNCHANGED <<clock, Database, lease>>
        /\ proc' = [proc EXCEPT ![p] = r]
    BY DEF ReadResult, SamplerInv, SamplerTypeOK
  <1>2. /\ proc[p].row = Len(history)
        /\ \A i \in DOMAIN history : history[i].start <= proc[p].now
    BY <1>1 DEF SamplerInv, RunInv, SnapshotIsNewest
  <1>3. IF history = <<>> THEN entry = <<>> ELSE entry = <<Newest(history)>>
    BY <1>2, HistoryShape DEF SamplerInv, Newest
  <1>4. history # <<>> => Newest(history) \in Attempt /\ Ordered(Newest(history))
    <2>1. history # <<>> => Len(history) \in 1..Len(history)
      BY HistoryShape DEF SamplerInv
    <2> QED BY <2>1, HistoryShape
            DEF SamplerInv, HistoryInv, AttemptsAreOrdered, Ordered, Newest, Terminal
  <1>5. entry \in Seq(Attempt)
    BY <1>3, <1>4
  <1>6. IF history = <<>> THEN entry = <<>>
        ELSE Len(entry) = 1 /\ entry[1] = Newest(history)
    BY <1>3
  <1> HIDE DEF entry
  <1>7. /\ r \in Runs /\ r.phase = "result" /\ r.now = proc[p].now
        /\ r.row = proc[p].row /\ r.expires_at = proc[p].expires_at
        /\ r.entry = entry
    BY <1>5, RunShape DEF Runs, Phases
  <1> HIDE DEF r
  <1>8. proc'[p] = r
    BY <1>1 DEF SamplerInv, SamplerTypeOK
  <1>9. (InstantHasCome(p) /\ HoldsTheLease(p))'
    BY <1>1, <1>7, <1>8 DEF SamplerInv, RunInv, InstantHasCome, HoldsTheLease, Phase,
                            Eligible
  <1>10. SnapshotIsNewest(p)'
    BY <1>1, <1>2, <1>7, <1>8 DEF SnapshotIsNewest, Database
  <1>11. EntryIsNewest(p)'
    BY <1>1, <1>4, <1>6, <1>7, <1>8 DEF EntryIsNewest, Database
  <1>12. RunInv(p)'
    BY <1>7, <1>8, <1>9, <1>10, <1>11 DEF RunInv, GrantIsTimely, DecisionStands, Phase
  <1> QED BY <1>1, <1>7, <1>12, LocalStep

\* The count of auth failures may already know more than the result read.
LEMMA ReadStreakStep ==
    ASSUME SamplerInv, NEW p \in Invocations, ReadStreak(p)
    PROVE  SamplerInv'
  <1> DEFINE r == [proc[p] EXCEPT !.phase = "streak", !.streak = AuthStreak(history)]
  <1>1. /\ Phase(p) = "result" /\ UNCHANGED <<clock, Database, lease>>
        /\ proc' = [proc EXCEPT ![p] = r]
    BY DEF ReadStreak, SamplerInv, SamplerTypeOK
  <1>2. AuthStreak(history) \in Nat
    BY HistoryShape, AuthStreakIsNat DEF SamplerInv
  <1>3. /\ r \in Runs /\ r.phase = "streak" /\ r.now = proc[p].now
        /\ r.row = proc[p].row /\ r.expires_at = proc[p].expires_at
        /\ r.entry = proc[p].entry
    BY <1>2, RunShape DEF Runs, Phases
  <1> HIDE DEF r
  <1>4. proc'[p] = r
    BY <1>1 DEF SamplerInv, SamplerTypeOK
  <1>5. RunInv(p)
    BY DEF SamplerInv
  <1>6. (InstantHasCome(p) /\ HoldsTheLease(p))'
    BY <1>1, <1>3, <1>4, <1>5 DEF RunInv, InstantHasCome, HoldsTheLease, Phase, Eligible
  <1>7. SnapshotIsNewest(p)' /\ EntryIsNewest(p)'
    BY <1>1, <1>3, <1>4, <1>5 DEF RunInv, SnapshotIsNewest, EntryIsNewest, Phase, Database
  <1>8. RunInv(p)'
    BY <1>3, <1>4, <1>6, <1>7 DEF RunInv, GrantIsTimely, DecisionStands, Phase
  <1> QED BY <1>1, <1>3, <1>8, LocalStep

\* The decision from the torn snapshot is ahead of every attempt: what may be
\* stale in it is the newest attempt's result, never its slot.
LEMMA DecideStep ==
    ASSUME SamplerInv, NEW p \in Invocations, Decide(p)
    PROVE  SamplerInv'
  <1> DEFINE h == proc[p].entry
             now == proc[p].now
             d == Evaluate(h, KnownResets, now, proc[p].forced, proc[p].streak, FALSE)
             r == [proc[p] EXCEPT !.phase = "decided", !.due = d.at, !.reason = d.reason]
  <1>1. /\ Phase(p) = "streak" /\ UNCHANGED <<clock, Database, lease>>
        /\ proc' = [proc EXCEPT ![p] =
                       IF d.owed THEN r ELSE Releasing(p)]
    BY DEF Decide, SamplerInv, SamplerTypeOK
  <1>2. CASE ~d.owed
    BY <1>1, <1>2, GivingUpStep
  <1>3. CASE d.owed
    <2>1. /\ RunInv(p) /\ HistoryInv
          /\ \A i \in DOMAIN history : history[i].start <= now
      BY <1>1 DEF SamplerInv, RunInv, SnapshotIsNewest
    <2>2. /\ h \in Seq(Attempt) /\ now \in Nat /\ proc[p].forced \in BOOLEAN
          /\ proc[p].streak \in Nat /\ KnownResets \in SUBSET Nat
      BY <2>1, RunShape, KnownResetsAreInstants
    <2>3. IF history = <<>> THEN h = <<>>
          ELSE /\ h # <<>> /\ Ordered(Newest(h))
               /\ Newest(h).due = Newest(history).due
               /\ Newest(h).start = Newest(history).start
      BY <1>1, <2>1, <2>2 DEF RunInv, EntryIsNewest, Newest
    <2>4. history # <<>> => Newest(history).start <= now
      <3>1. history # <<>> => Len(history) \in DOMAIN history
        BY <2>1, HistoryShape
      <3> QED BY <2>1, <3>1 DEF Newest
    <2>5. /\ d.at \in Int /\ d.at <= now /\ d.reason \in Reasons
          /\ h # <<>> =>
                /\ Newest(h).due <= d.at
                /\ d.reason # "ForcedOrManual" => Newest(h).due < d.at
                /\ d.reason = "OrdinaryCadence" => Newest(h).due + Cadence <= d.at
      <3> DEFINE known == KnownResets
      <3>1. h # <<>> => Ordered(Newest(h)) /\ Newest(h).start <= now
        BY <2>3, <2>4
      <3>2. d = Evaluate(h, known, now, proc[p].forced, proc[p].streak, FALSE)
        OBVIOUS
      <3> HIDE DEF d, h, now, known
      <3> QED BY <1>3, <2>2, <3>1, <3>2, DecisionAdvances DEF h, now, known
    <2>6. Ahead(d.at, d.reason)
      <3> HIDE DEF d, h
      <3> QED BY <2>1, <2>3, <2>5, PastNewestIsAhead
    <2> HIDE DEF d, h
    <2>7. /\ r \in Runs /\ r.phase = "decided" /\ r.now = now
          /\ r.expires_at = proc[p].expires_at
          /\ r.due = d.at /\ r.reason = d.reason
      BY <2>5, RunShape DEF Runs, Phases
    <2> HIDE DEF r
    <2>8. proc'[p] = r /\ proc' = [proc EXCEPT ![p] = r]
      BY <1>1, <1>3 DEF SamplerInv, SamplerTypeOK
    <2>9. (InstantHasCome(p) /\ HoldsTheLease(p))'
      BY <1>1, <2>1, <2>7, <2>8 DEF RunInv, InstantHasCome, HoldsTheLease, Phase, Eligible
    <2>10. DecisionStands(p)'
      BY <1>1, <2>1, <2>5, <2>6, <2>7, <2>8 DEF DecisionStands, Ahead, Database
    <2>11. RunInv(p)'
      BY <2>7, <2>8, <2>9, <2>10 DEF RunInv, GrantIsTimely, SnapshotIsNewest,
                                     EntryIsNewest, Phase
    <2> QED BY <1>1, <2>7, <2>8, <2>11, LocalStep
  <1> QED BY <1>2, <1>3

\* The instant the attempt will be recorded to have started at.
LEMMA StampStep ==
    ASSUME SamplerInv, NEW p \in Invocations, Stamp(p)
    PROVE  SamplerInv'
  <1> DEFINE r == [proc[p] EXCEPT !.phase = "stamped", !.now = clock]
  <1>1. /\ Phase(p) = "decided" /\ UNCHANGED <<clock, Database, lease>>
        /\ proc' = [proc EXCEPT ![p] = r]
    BY DEF Stamp, SamplerInv, SamplerTypeOK
  <1>2. /\ r \in Runs /\ r.phase = "stamped" /\ r.now = clock
        /\ r.expires_at = proc[p].expires_at
        /\ r.due = proc[p].due /\ r.reason = proc[p].reason
    BY RunShape DEF Runs, Phases
  <1> HIDE DEF r
  <1>3. proc'[p] = r
    BY <1>1 DEF SamplerInv, SamplerTypeOK
  <1>4. RunInv(p) /\ HistoryInv
    BY DEF SamplerInv
  <1>5. HoldsTheLease(p)'
    BY <1>1, <1>2, <1>3, <1>4 DEF RunInv, HoldsTheLease, Phase, Eligible
  <1>6. DecisionStands(p)'
    <2>1. /\ proc[p].due <= clock /\ Ahead(proc[p].due, proc[p].reason)
          /\ \A i \in DOMAIN history : history[i].start <= clock
      BY <1>1, <1>4, RunShape
         DEF RunInv, InstantHasCome, DecisionStands, HistoryInv, AttemptsAreOrdered
    <2> QED BY <1>1, <1>2, <1>3, <2>1 DEF DecisionStands, Ahead, Database
  <1>7. RunInv(p)'
    BY <1>1, <1>2, <1>3, <1>5, <1>6, RunShape
       DEF RunInv, InstantHasCome, GrantIsTimely, SnapshotIsNewest, EntryIsNewest, Phase
  <1> QED BY <1>1, <1>2, <1>7, LocalStep

\* The start: of all invocations only this one could be eligible, so nobody
\* else counts on the history it extends.
LEMMA StartAttemptStep ==
    ASSUME SamplerInv, NEW p \in Invocations, StartAttempt(p)
    PROVE  SamplerInv'
  <1> DEFINE n == Len(history)
             r == [NoRun EXCEPT !.phase = "request", !.row = n + 1,
                                !.expires_at = proc[p].expires_at]
  <1>1. /\ Phase(p) = "stamped" /\ lease' = lease
        /\ start_meter_attempt(proc[p].due, proc[p].reason, proc[p].now, "none")
        /\ proc' = [proc EXCEPT ![p] = r]
    BY DEF StartAttempt
  <1>2. /\ proc[p].due <= proc[p].now /\ proc[p].now <= clock
        /\ Ahead(proc[p].due, proc[p].reason)
        /\ \A i \in DOMAIN history : history[i].start <= proc[p].now
    BY <1>1 DEF SamplerInv, RunInv, InstantHasCome, DecisionStands
  <1>3. /\ HistoryInv' /\ Len(history') = n + 1
        /\ \A i \in 1..n : history'[i] = history[i]
        /\ history'[n + 1].start = proc[p].now
        /\ history'[n + 1].outcome = "inflight"
        /\ UNCHANGED <<clock, newest>>
    BY <1>1, <1>2, RunShape, SamplerAssumption, StartKeepsSlots DEF SamplerInv
  <1>4. n \in Nat /\ DOMAIN history = 1..n /\ DOMAIN history' = 1..(n + 1)
    BY <1>3, HistoryShape DEF SamplerInv, HistoryInv, HistoryTypeOK
  <1>5. HistoryIsOrderedByStart'
    BY <1>2, <1>3, <1>4, RunShape DEF SamplerInv, HistoryIsOrderedByStart
  <1>6. \A q \in Invocations \ {p} : proc[q] \in Runs'
    <2>1. 0..n \subseteq 0..(n + 1)
      BY <1>4
    <2> QED BY <1>3, <2>1, RunShape DEF Runs
  <1>7. r \in Runs' /\ r.phase = "request" /\ r.now = 0 /\ r.row = n + 1
    <2>1. n + 1 \in 0..(n + 1)
      BY <1>4
    <2>2. NoRun \in Runs' /\ NoRun.now = 0
      BY <1>3, <1>4 DEF NoRun, Runs, Phases, Reasons
    <2> QED BY <1>3, <2>1, <2>2, RunShape DEF Runs, Phases
  <1> HIDE DEF r
  <1>8. /\ proc'[p] = r /\ \A q \in Invocations \ {p} : proc'[q] = proc[q]
        /\ proc' \in [Invocations -> Runs']
    BY <1>1, <1>6, <1>7 DEF SamplerInv, SamplerTypeOK
  <1>9. \A q \in Invocations \ {p} : Phase(q) = "request" =>
           /\ proc[q].row \in 1..n
           /\ history[proc[q].row].outcome = "inflight"
    BY <1>4 DEF SamplerInv, SamplerTypeOK, InFlight, Phase
  <1>10. SamplerTypeOK'
    <2>1. HistoryTypeOK' /\ (lease \in Leases)'
      BY <1>1, <1>3 DEF HistoryInv, SamplerInv, SamplerTypeOK, Leases
    <2>2. ASSUME NEW q \in Invocations, proc'[q].phase = "request"
          PROVE  proc'[q].row \in InFlight'
      BY <1>3, <1>4, <1>7, <1>8, <1>9, <2>2 DEF InFlight, Phase
    <2>3. ASSUME NEW q \in Invocations, proc'[q].phase = "request",
                 NEW o \in Invocations \ {q}, proc'[o].phase = "request"
          PROVE  proc'[o].row # proc'[q].row
      <3>1. CASE q = p \/ o = p
        BY <1>4, <1>7, <1>8, <1>9, <2>3, <3>1 DEF Phase
      <3>2. CASE q # p /\ o # p
        BY <1>8, <2>3, <3>2 DEF SamplerInv, SamplerTypeOK
      <3> QED BY <3>1, <3>2
    <2> QED BY <1>8, <2>1, <2>2, <2>3 DEF SamplerTypeOK
  <1>11. RunInv(p)'
    BY <1>3, <1>7, <1>8, RunShape
       DEF RunInv, InstantHasCome, GrantIsTimely, HoldsTheLease, SnapshotIsNewest,
           EntryIsNewest, DecisionStands, Phase, Eligible
  <1>12. ASSUME NEW q \in Invocations \ {p}
         PROVE  RunInv(q)'
    <2>1. Phase(q) \notin Eligible
      BY <1>1, OneIsEligible DEF Eligible
    <2>2. RunInv(q) /\ proc'[q] = proc[q]
      BY <1>8 DEF SamplerInv
    <2> QED BY <1>3, <2>1, <2>2
            DEF RunInv, InstantHasCome, GrantIsTimely, HoldsTheLease, SnapshotIsNewest,
                EntryIsNewest, DecisionStands, Phase, Eligible
  <1> QED BY <1>3, <1>5, <1>10, <1>11, <1>12 DEF SamplerInv

\* The request ends, in whatever way: only its own attempt changes.
LEMMA SettledStep ==
    ASSUME SamplerInv, NEW p \in Invocations, Phase(p) = "request", NEW k,
           k = proc[p].row, Measure(k) \/ Fail(k) \/ Lose(k), lease' = lease,
           \/ proc' = [proc EXCEPT ![p] = NoRun]
           \/ proc' = [proc EXCEPT ![p] = Releasing(p)]
    PROVE  SamplerInv'
  <1>1. FillsResults(k) /\ lease' \in Leases
    BY SettlingFillsResults DEF SamplerInv, SamplerTypeOK
  <1>2. \A q \in Invocations \ {p} : Phase(q) = "request" => proc[q].row # k
    BY DEF SamplerInv, SamplerTypeOK, Phase
  <1>3. clock \in Nat /\ 0 <= clock
    BY DEF SamplerInv, SamplerTypeOK, HistoryTypeOK
  <1>4. /\ "idle" \notin Eligible \cup {"locking", "request"}
        /\ "release" \notin Eligible \cup {"locking", "request"}
    BY DEF Eligible
  <1> QED BY <1>1, <1>2, <1>3, <1>4, EndedRun, IneligibleStep

\* The release deletes a row of its own, so nobody else counts on it.
LEMMA ReleaseStep ==
    ASSUME SamplerInv, NEW p \in Invocations, Release(p)
    PROVE  SamplerInv'
  <1>1. /\ UNCHANGED <<clock, Database>> /\ proc' = [proc EXCEPT ![p] = NoRun]
        /\ lease' = IF lease.holder = p THEN NoRow ELSE lease
    BY DEF Release, Owned
  <1>2. lease' \in Leases
    BY <1>1 DEF SamplerInv, SamplerTypeOK, NoRow, Leases
  <1>3. FillsResults(0)
    BY <1>1, NothingFillsResults DEF SamplerInv
  <1>4. \A q \in Invocations \ {p} : Phase(q) \in Eligible => lease' = lease
    BY <1>1 DEF SamplerInv, RunInv, HoldsTheLease
  <1>5. \A q \in Invocations : Phase(q) = "request" => proc[q].row # 0
    BY HistoryShape DEF SamplerInv, SamplerTypeOK, InFlight, Phase
  <1>6. clock \in Nat /\ 0 <= clock
    BY DEF SamplerInv, SamplerTypeOK, HistoryTypeOK
  <1>7. "idle" \notin Eligible \cup {"locking", "request"}
    BY DEF Eligible
  <1> QED BY <1>1, <1>2, <1>3, <1>4, <1>5, <1>6, <1>7, EndedRun, IneligibleStep

\* The clock advances only while grant and start stay within their TTL.
LEMMA ElapseStep ==
    ASSUME SamplerInv, Elapse
    PROVE  SamplerInv'
  <1>1. StartIsPrompt /\ clock' = clock + 1 /\ UNCHANGED <<Database, lease, proc>>
    BY DEF Elapse
  <1>2. HistoryInv'
    BY <1>1, TimeKeepsHistory DEF SamplerInv
  <1>3. SamplerTypeOK' /\ HistoryIsOrderedByStart'
    BY <1>1, <1>2 DEF SamplerInv, HistoryInv, SamplerTypeOK, HistoryIsOrderedByStart,
                      Database, InFlight, Runs, Leases
  <1>4. ASSUME NEW p \in Invocations
        PROVE  RunInv(p)'
    <2>1. RunInv(p)
      BY DEF SamplerInv
    <2>2. InstantHasCome(p)'
      BY <1>1, <2>1, RunShape DEF RunInv, InstantHasCome
    <2>3. GrantIsTimely(p)' /\ HoldsTheLease(p)'
      BY <1>1, <2>1, RunShape DEF RunInv, GrantIsTimely, HoldsTheLease, StartIsPrompt, Phase
    <2>4. (SnapshotIsNewest(p) /\ EntryIsNewest(p) /\ DecisionStands(p))'
      BY <1>1, <2>1 DEF RunInv, SnapshotIsNewest, EntryIsNewest, DecisionStands, Ahead,
                        Phase, Database
    <2> QED BY <2>2, <2>3, <2>4 DEF RunInv
  <1> QED BY <1>2, <1>3, <1>4 DEF SamplerInv

\* A step in which every invocation stands still.
LEMMA StandingStep ==
    ASSUME SamplerInv, FillsResults(0), UNCHANGED <<lease, proc>>
    PROVE  SamplerInv'
  <1>1. \A q \in Invocations : Phase(q) = "request" => proc[q].row # 0
    BY HistoryShape DEF SamplerInv, SamplerTypeOK, InFlight, Phase
  <1>2. proc' \in [Invocations -> Runs] /\ lease' \in Leases
    BY DEF SamplerInv, SamplerTypeOK
  <1> QED BY <1>1, <1>2, RunsStep

\* Every step keeps the invariant.
LEMMA SamplerStep == SamplerInv /\ [SamplerNext]_samplerVars => SamplerInv'
  <1> SUFFICES ASSUME SamplerInv, [SamplerNext]_samplerVars
               PROVE  SamplerInv'
    OBVIOUS
  <1>1. ASSUME NEW p \in Invocations, Step(p)
        PROVE  SamplerInv'
    <2>1. ASSUME NEW forced \in BOOLEAN, Invoke(p, forced)
          PROVE  SamplerInv'
      BY <2>1, InvokeStep
    <2>2. CASE DetermineDue(p)
      BY <2>2, DetermineStep
    <2>3. CASE ReadLeaseClock(p)
      BY <2>3, ReadLeaseClockStep
    <2>4. CASE Grant(p)
      BY <2>4, GrantStep
    <2>5. CASE AlreadyHeld(p)
      BY <2>5, GivingUpStep DEF AlreadyHeld
    <2>6. CASE ReadLatest(p)
      BY <2>6, ReadLatestStep
    <2>7. CASE ReadResult(p)
      BY <2>7, ReadResultStep
    <2>8. CASE ReadStreak(p)
      BY <2>8, ReadStreakStep
    <2>9. CASE Decide(p)
      BY <2>9, DecideStep
    <2>10. CASE Stamp(p)
      BY <2>10, StampStep
    <2>11. CASE StartAttempt(p)
      BY <2>11, StartAttemptStep
    <2>12. CASE EligibilityFails(p)
      BY <2>12, GivingUpStep DEF EligibilityFails
    <2>13. CASE Persist(p)
      BY <2>13, SettledStep DEF Persist
    <2>14. CASE Release(p)
      BY <2>14, ReleaseStep
    <2>15. CASE Die(p)
      <3>1. lease' = lease /\ proc' = [proc EXCEPT ![p] = NoRun]
        BY <2>15 DEF Die
      <3>2. CASE Phase(p) = "request"
        BY <2>15, <3>1, <3>2, SettledStep DEF Die
      <3>3. CASE Phase(p) # "request"
        BY <2>15, <3>1, <3>3, GivingUpStep DEF Die
      <3> QED BY <3>2, <3>3
    <2> QED BY <1>1, <2>1, <2>2, <2>3, <2>4, <2>5, <2>6, <2>7, <2>8, <2>9, <2>10,
               <2>11, <2>12, <2>13, <2>14, <2>15 DEF Step
  <1>2. CASE DrainByAnother
    <2>1. PICK i \in Spooled : Drain(i)
      BY <1>2 DEF DrainByAnother
    <2>2. FillsResults(0)
      BY <2>1, CommitFillsResults DEF Drain, SamplerInv
    <2> QED BY <1>2, <2>2, StandingStep DEF DrainByAnother
  <1>3. CASE Elapse
    BY <1>3, ElapseStep
  <1>4. CASE UNCHANGED samplerVars
    <2>1. UNCHANGED <<clock, Database>> /\ UNCHANGED <<lease, proc>>
      BY <1>4 DEF samplerVars, Database
    <2>2. FillsResults(0)
      BY <2>1, NothingFillsResults DEF SamplerInv
    <2> QED BY <2>1, <2>2, StandingStep
  <1> QED BY <1>1, <1>2, <1>3, <1>4 DEF SamplerNext

----------------------------------------------------------------------------
(* The pipeline implements the lease protocol.                             *)

\* SamplingLease's variables as the pipeline's state gives them.
Table == [a \in {Account} |-> Row]
Calls == [p \in Invocations |-> Call(p)]
Grants == [p \in Invocations |-> [a \in {Account} |-> OwnGrant(p)]]

\* The instance is SamplingLease with these.
LEMMA LeaseStateIs ==
    UNCHANGED <<clock, Table, Calls, Grants>> => UNCHANGED Lease!leaseVars
  BY DEF Lease!leaseVars, Table, Calls, Grants

\* A step of one invocation changes its own call and its own grant only.
LEMMA OwnCallAndGrant ==
    ASSUME SamplerInv, NEW p \in Invocations, NEW r, proc' = [proc EXCEPT ![p] = r]
    PROVE  /\ proc'[p] = r
           /\ Calls[p] = Call(p) /\ Grants[p][Account] = OwnGrant(p)
           /\ Calls' = [Calls EXCEPT ![p] = Call(p)']
           /\ Grants' = [Grants EXCEPT ![p] = [a \in {Account} |-> OwnGrant(p)']]
           /\ Grants' = [Grants EXCEPT ![p][Account] = OwnGrant(p)']
           /\ OwnGrant(p)' = OwnGrant(p) => Grants' = Grants
  <1>1. proc'[p] = r /\ \A q \in Invocations : q # p => proc'[q] = proc[q]
    BY DEF SamplerInv, SamplerTypeOK
  <1>2. \A q \in Invocations : q # p => Call(q)' = Call(q) /\ OwnGrant(q)' = OwnGrant(q)
    BY <1>1 DEF Call, OwnGrant, Phase
  <1>3. Calls[p] = Call(p) /\ Grants[p][Account] = OwnGrant(p)
    BY DEF Calls, Grants
  <1>4. Calls' = [Calls EXCEPT ![p] = Call(p)']
    BY <1>2 DEF Calls
  <1>5. Grants' = [Grants EXCEPT ![p] = [a \in {Account} |-> OwnGrant(p)']]
    BY <1>2 DEF Grants
  <1>6. Grants' = [Grants EXCEPT ![p][Account] = OwnGrant(p)']
    BY <1>2 DEF Grants
  <1>7. OwnGrant(p)' = OwnGrant(p) => Grants' = Grants
    BY <1>2 DEF Grants
  <1> QED BY <1>1, <1>3, <1>4, <1>5, <1>6, <1>7

\* Outside "locking" an invocation is in no call of acquire, and its step stays
\* on its side of the grant and of the release.
Quiet(p) ==
    \E r : /\ proc' = [proc EXCEPT ![p] = r]
           /\ UNCHANGED <<clock, lease>>
           /\ Phase(p) # "locking" /\ r.phase # "locking"
           /\ \/ Phase(p) \notin Holding /\ r.phase \notin Holding
              \/ /\ Phase(p) \in Holding /\ r.phase \in Holding
                 /\ r.expires_at = proc[p].expires_at

\* A death inside acquire, or with a grant to give back.
Gone(p) ==
    /\ Phase(p) \in Holding \cup {"locking"}
    /\ UNCHANGED <<clock, lease>>
    /\ proc' = [proc EXCEPT ![p] = NoRun]

\* A quiet step leaves the lease alone.
LEMMA QuietStep ==
    ASSUME SamplerInv, NEW p \in Invocations, Quiet(p)
    PROVE  UNCHANGED Lease!leaseVars
  <1>1. PICK r : /\ proc' = [proc EXCEPT ![p] = r]
                 /\ UNCHANGED <<clock, lease>>
                 /\ Phase(p) # "locking" /\ r.phase # "locking"
                 /\ \/ Phase(p) \notin Holding /\ r.phase \notin Holding
                    \/ /\ Phase(p) \in Holding /\ r.phase \in Holding
                       /\ r.expires_at = proc[p].expires_at
    BY DEF Quiet
  <1>2. proc'[p] = r /\ \A q \in Invocations : q # p => proc'[q] = proc[q]
    BY <1>1 DEF SamplerInv, SamplerTypeOK
  <1>3. Call(p)' = Call(p) /\ OwnGrant(p)' = OwnGrant(p)
    BY <1>1, <1>2 DEF Call, OwnGrant, Phase
  <1>4. \A q \in Invocations : Call(q)' = Call(q) /\ OwnGrant(q)' = OwnGrant(q)
    BY <1>2, <1>3 DEF Call, OwnGrant, Phase
  <1>5. UNCHANGED <<Table, Calls, Grants>>
    BY <1>1, <1>4 DEF Table, Row, Calls, Grants
  <1> QED BY <1>1, <1>5, LeaseStateIs

\* Nothing moves but what SamplingLease does not see.
LEMMA StandingIsQuiet ==
    UNCHANGED <<clock, lease, proc>> => UNCHANGED Lease!leaseVars
  <1>1. UNCHANGED <<lease, proc>> => UNCHANGED <<Table, Calls, Grants>>
    BY DEF Table, Row, Calls, Call, Grants, OwnGrant, Phase
  <1> QED BY <1>1, LeaseStateIs

\* acquire, up to the lock.
LEMMA ReadsItsClock ==
    ASSUME SamplerInv, NEW p \in Invocations, ReadLeaseClock(p)
    PROVE  Lease!ReadClock(p, Account)
  <1> DEFINE r == [proc[p] EXCEPT !.phase = "locking", !.now = clock]
  <1>1. Phase(p) = "acquire" /\ UNCHANGED <<clock, lease>> /\ proc' = [proc EXCEPT ![p] = r]
    BY DEF ReadLeaseClock, SamplerInv, SamplerTypeOK
  <1>2. r.phase = "locking" /\ r.now = clock
    BY RunShape DEF Runs
  <1> HIDE DEF r
  <1>3. /\ Call(p) = [account |-> "none", now |-> 0]
        /\ Call(p)' = [account |-> Account, now |-> clock]
        /\ OwnGrant(p) = -1 /\ OwnGrant(p)' = -1
    BY <1>1, <1>2, OwnCallAndGrant DEF Call, OwnGrant, Phase, Holding, Eligible
  <1>4. /\ Calls[p].account = "none" /\ Grants[p][Account] = -1
        /\ Calls' = [Calls EXCEPT ![p] = [account |-> Account, now |-> clock]]
        /\ Grants' = Grants
    <2>1. /\ Calls[p] = Call(p) /\ Grants[p][Account] = OwnGrant(p)
          /\ Calls' = [Calls EXCEPT ![p] = Call(p)']
          /\ OwnGrant(p)' = OwnGrant(p) => Grants' = Grants
      BY <1>1, OwnCallAndGrant
    <2> QED BY <1>3, <2>1
  <1>5. Table' = Table
    BY <1>1 DEF Table, Row
  <1> QED BY <1>1, <1>4, <1>5 DEF Lease!ReadClock, Lease!None, Calls, Grants, Table

\* acquire under the lock, granted.
LEMMA IsGranted ==
    ASSUME SamplerInv, NEW p \in Invocations, Grant(p)
    PROVE  Lease!Grant(p)
  <1> DEFINE r == [proc[p] EXCEPT !.phase = "leased", !.expires_at = proc[p].now + Ttl]
             row == [holder |-> p, acquired_at |-> proc[p].now,
                     expires_at |-> proc[p].now + Ttl]
  <1>1. /\ Phase(p) = "locking" /\ ~Blocks(p) /\ clock' = clock
        /\ lease' = [holder |-> p, expires_at |-> proc[p].now + Ttl]
        /\ proc' = [proc EXCEPT ![p] = r]
    BY DEF Grant, SamplerInv, SamplerTypeOK
  <1>2. /\ r.phase = "leased" /\ r.expires_at = proc[p].now + Ttl
        /\ (proc[p].now + Ttl) - Ttl = proc[p].now
    BY RunShape, SamplerAssumption DEF Runs
  <1> HIDE DEF r
  <1>3. /\ Call(p) = [account |-> Account, now |-> proc[p].now]
        /\ Call(p)' = [account |-> "none", now |-> 0]
        /\ OwnGrant(p)' = proc[p].now + Ttl
    BY <1>1, <1>2, OwnCallAndGrant DEF Call, OwnGrant, Phase, Holding, Eligible
  <1>4. Row' = row
    <2>1. lease'.holder = p /\ p # NoOne /\ lease'.expires_at = proc[p].now + Ttl
      BY <1>1, SamplerAssumption
    <2> QED BY <1>2, <2>1 DEF Row
  <1>5. /\ Calls[p] = [account |-> Account, now |-> proc[p].now]
        /\ Calls' = [Calls EXCEPT ![p] = [account |-> "none", now |-> 0]]
        /\ Grants' = [Grants EXCEPT ![p][Account] = proc[p].now + Ttl]
    BY <1>1, <1>3, OwnCallAndGrant
  <1>6. Table' = [Table EXCEPT ![Account] = row]
    BY <1>4 DEF Table
  <1>7. ~Lease!Blocks(Table[Account], Calls[p].now)
    BY <1>1, <1>5 DEF Lease!Blocks, Table, Row, Blocks
  <1>8. Account # "none" /\ Calls[p].account = Account /\ Calls[p].now = proc[p].now
    BY <1>5 DEF Account
  <1> HIDE DEF row
  <1>9. /\ Calls[p].account # "none" /\ ~Lease!Blocks(Table[Calls[p].account], Calls[p].now)
        /\ Table' = [Table EXCEPT ![Calls[p].account] = row]
        /\ Grants' = [Grants EXCEPT ![p][Calls[p].account] = Calls[p].now + Ttl]
    BY <1>5, <1>6, <1>7, <1>8
  <1>10. row = [holder |-> p, acquired_at |-> Calls[p].now,
                expires_at |-> Calls[p].now + Ttl]
    BY <1>8 DEF row
  <1> QED BY <1>1, <1>5, <1>9, <1>10
          DEF Lease!Grant, Lease!Expiry, Lease!NoCall, Calls, Grants, Table

\* acquire under the lock, refused.
LEMMA IsRefused ==
    ASSUME SamplerInv, NEW p \in Invocations, AlreadyHeld(p)
    PROVE  Lease!AlreadyHeld(p)
  <1>1. /\ Phase(p) = "locking" /\ Blocks(p) /\ UNCHANGED <<clock, lease>>
        /\ proc' = [proc EXCEPT ![p] = NoRun]
    BY DEF AlreadyHeld
  <1>2. /\ Call(p) = [account |-> Account, now |-> proc[p].now]
        /\ Call(p)' = [account |-> "none", now |-> 0]
        /\ OwnGrant(p) = -1 /\ OwnGrant(p)' = -1
    <2>1. proc'[p].phase = "idle"
      BY <1>1, OwnCallAndGrant, EndedRun
    <2> QED BY <1>1, <2>1 DEF Call, OwnGrant, Phase, Holding, Eligible
  <1>3. /\ Calls[p] = [account |-> Account, now |-> proc[p].now]
        /\ Calls' = [Calls EXCEPT ![p] = [account |-> "none", now |-> 0]]
        /\ Grants' = Grants
    BY <1>1, <1>2, OwnCallAndGrant
  <1>a. Table' = Table
    BY <1>1 DEF Table, Row
  <1>4. Lease!Blocks(Table[Account], Calls[p].now)
    BY <1>1, <1>3 DEF Lease!Blocks, Table, Row, Blocks
  <1>5. Account # "none"
    BY DEF Account
  <1> QED BY <1>1, <1>3, <1>a, <1>4, <1>5
          DEF Lease!AlreadyHeld, Lease!NoCall, Calls, Grants, Table

\* release: the row goes only if it is its own.
LEMMA IsReleased ==
    ASSUME SamplerInv, NEW p \in Invocations, Release(p)
    PROVE  Lease!Release(p, Account)
  <1>1. /\ Phase(p) = "release" /\ clock' = clock /\ proc' = [proc EXCEPT ![p] = NoRun]
        /\ lease' = IF lease.holder = p THEN NoRow ELSE lease
    BY DEF Release, Owned
  <1>2. Call(p)' = Call(p) /\ OwnGrant(p)' = -1
    <2>1. proc'[p].phase = "idle"
      BY <1>1, OwnCallAndGrant, EndedRun
    <2> QED BY <1>1, <2>1 DEF Call, OwnGrant, Phase, Holding, Eligible
  <1>3. OwnGrant(p) # -1
    BY <1>1, RunShape DEF OwnGrant, Holding
  <1>4. /\ Calls[p] = Call(p) /\ Grants[p][Account] = OwnGrant(p)
        /\ Calls' = [Calls EXCEPT ![p] = Call(p)']
        /\ Grants' = [Grants EXCEPT ![p][Account] = OwnGrant(p)']
    BY <1>1, OwnCallAndGrant
  <1>5. Calls' = Calls
    BY <1>2, <1>4 DEF Calls
  <1>6. Row' = IF lease.holder = p
               THEN [holder |-> NoOne, acquired_at |-> 0, expires_at |-> 0] ELSE Row
    BY <1>1 DEF Row, NoRow
  <1>7. Table' = [Table EXCEPT ![Account] =
                     IF Table[Account].holder = p
                     THEN [holder |-> NoOne, acquired_at |-> 0, expires_at |-> 0] ELSE @]
    <2>1. Table[Account].holder = lease.holder
      BY DEF Table, Row
    <2> QED BY <1>6, <2>1 DEF Table
  <1> QED BY <1>1, <1>2, <1>3, <1>4, <1>5, <1>7
          DEF Lease!Release, Lease!Owned, Lease!NoRow, Lease!None, Calls, Grants, Table

\* Such a death is a crash.
LEMMA IsGone ==
    ASSUME SamplerInv, NEW p \in Invocations, Gone(p)
    PROVE  Lease!Crash(p)
  <1> USE DEF Gone
  <1>1. Call(p)' = [account |-> "none", now |-> 0] /\ OwnGrant(p)' = -1
    <2>1. proc'[p].phase = "idle"
      BY OwnCallAndGrant, EndedRun
    <2> QED BY <2>1 DEF Call, OwnGrant, Phase, Holding, Eligible
  <1>2. /\ Calls[p] = Call(p) /\ Grants[p][Account] = OwnGrant(p)
        /\ Calls' = [Calls EXCEPT ![p] = Call(p)']
        /\ Grants' = [Grants EXCEPT ![p] = [a \in {Account} |-> OwnGrant(p)']]
    BY OwnCallAndGrant
  <1>3. Calls[p].account # "none" \/ \E a \in {Account} : Grants[p][a] # -1
    <2>1. CASE Phase(p) = "locking"
      BY <1>2, <2>1 DEF Call, Account
    <2>2. CASE Phase(p) \in Holding
      <3>1. OwnGrant(p) # -1
        BY <2>2, RunShape DEF OwnGrant
      <3> QED BY <1>2, <3>1
    <2> QED BY <2>1, <2>2
  <1>4. Calls' = [Calls EXCEPT ![p] = [account |-> "none", now |-> 0]]
    BY <1>1, <1>2
  <1>5. Grants' = [Grants EXCEPT ![p] = [a \in {Account} |-> -1]]
    BY <1>1, <1>2
  <1>6. Table' = Table
    BY DEF Table, Row
  <1> QED BY <1>3, <1>4, <1>5, <1>6
          DEF Lease!Crash, Lease!NoCall, Lease!None, Calls, Grants, Table

\* What a step of an invocation may do with the lease.
LEMMA StepShape ==
    ASSUME SamplerInv, NEW p \in Invocations, Step(p)
    PROVE  \/ Quiet(p) \/ ReadLeaseClock(p) \/ Grant(p) \/ AlreadyHeld(p)
           \/ Release(p) \/ Gone(p)
  <1> DEFINE Before == {"idle", "determine", "acquire"}
  <1>1. /\ Before \cap Holding = {} /\ "locking" \notin Before \cup Holding
        /\ Eligible \subseteq Holding /\ {"request", "release"} \subseteq Holding
        /\ {"leased", "latest", "result", "streak", "decided", "stamped"} \subseteq Eligible
    BY DEF Holding, Eligible
  <1>2. proc[p] \in Runs /\ Phase(p) = proc[p].phase
    BY RunShape
  <1>3. /\ NoRun.phase = "idle" /\ Releasing(p).phase = "release"
        /\ Releasing(p).expires_at = proc[p].expires_at
    BY EndedRun DEF Releasing, NoRun
  <1>4. ASSUME NEW r, proc' = [proc EXCEPT ![p] = r], UNCHANGED <<clock, lease>>,
               \/ Phase(p) \in Before /\ r.phase \in Before
               \/ /\ Phase(p) \in Holding /\ r.phase \in Holding
                  /\ r.expires_at = proc[p].expires_at
        PROVE  Quiet(p)
    BY <1>1, <1>4 DEF Quiet
  <1>5. ASSUME NEW forced \in BOOLEAN, Invoke(p, forced)
        PROVE  Quiet(p)
    <2> DEFINE r == [NoRun EXCEPT !.phase = "determine", !.forced = forced, !.now = clock]
    <2>1. Phase(p) = "idle" /\ UNCHANGED <<clock, lease>> /\ proc' = [proc EXCEPT ![p] = r]
      BY <1>5 DEF Invoke
    <2>2. r.phase = "determine"
      BY DEF NoRun
    <2> HIDE DEF r
    <2> QED BY <1>4, <2>1, <2>2
  <1>6. CASE DetermineDue(p)
    <2> DEFINE d == Decision(proc[p].now, proc[p].forced, "none")
               r == IF d.owed THEN [proc[p] EXCEPT !.phase = "acquire", !.due = d.at,
                                                   !.reason = d.reason]
                              ELSE NoRun
    <2>1. /\ Phase(p) = "determine" /\ UNCHANGED <<clock, lease>>
          /\ proc' = [proc EXCEPT ![p] = r]
      BY <1>6 DEF DetermineDue, SamplerInv, SamplerTypeOK
    <2> HIDE DEF d
    <2>2. r.phase \in Before
      BY <1>2, <1>3 DEF Runs
    <2> HIDE DEF r
    <2> QED BY <1>4, <2>1, <2>2
  <1>7. CASE ReadLeaseClock(p) \/ Grant(p) \/ AlreadyHeld(p) \/ Release(p)
    BY <1>7
  <1>8. CASE ReadLatest(p) \/ ReadResult(p) \/ ReadStreak(p) \/ Stamp(p)
    <2>1. PICK r : /\ Phase(p) \in Eligible /\ UNCHANGED <<clock, lease>>
                   /\ proc' = [proc EXCEPT ![p] = r]
                   /\ r.phase \in Eligible /\ r.expires_at = proc[p].expires_at
      <3>1. CASE ReadLatest(p)
        <4> DEFINE r == [proc[p] EXCEPT !.phase = "latest", !.now = clock,
                                        !.row = Len(history)]
        <4>1. /\ Phase(p) = "leased" /\ UNCHANGED <<clock, lease>>
              /\ proc' = [proc EXCEPT ![p] = r]
          BY <3>1 DEF ReadLatest, SamplerInv, SamplerTypeOK
        <4>2. r.phase = "latest" /\ r.expires_at = proc[p].expires_at
          BY <1>2 DEF Runs
        <4> QED BY <1>1, <4>1, <4>2
      <3>2. CASE ReadResult(p)
        <4> DEFINE e == IF proc[p].row = 0 THEN <<>> ELSE <<history[proc[p].row]>>
                   r == [proc[p] EXCEPT !.phase = "result", !.entry = e]
        <4>1. /\ Phase(p) = "latest" /\ UNCHANGED <<clock, lease>>
              /\ proc' = [proc EXCEPT ![p] = r]
          BY <3>2 DEF ReadResult, SamplerInv, SamplerTypeOK
        <4> HIDE DEF e
        <4>2. r.phase = "result" /\ r.expires_at = proc[p].expires_at
          BY <1>2 DEF Runs
        <4> QED BY <1>1, <4>1, <4>2
      <3>3. CASE ReadStreak(p)
        <4> DEFINE n == AuthStreak(history)
                   r == [proc[p] EXCEPT !.phase = "streak", !.streak = n]
        <4>1. /\ Phase(p) = "result" /\ UNCHANGED <<clock, lease>>
              /\ proc' = [proc EXCEPT ![p] = r]
          BY <3>3 DEF ReadStreak, SamplerInv, SamplerTypeOK
        <4> HIDE DEF n
        <4>2. r.phase = "streak" /\ r.expires_at = proc[p].expires_at
          BY <1>2 DEF Runs
        <4> QED BY <1>1, <4>1, <4>2
      <3>4. CASE Stamp(p)
        <4> DEFINE r == [proc[p] EXCEPT !.phase = "stamped", !.now = clock]
        <4>1. /\ Phase(p) = "decided" /\ UNCHANGED <<clock, lease>>
              /\ proc' = [proc EXCEPT ![p] = r]
          BY <3>4 DEF Stamp, SamplerInv, SamplerTypeOK
        <4>2. r.phase = "stamped" /\ r.expires_at = proc[p].expires_at
          BY <1>2 DEF Runs
        <4> QED BY <1>1, <4>1, <4>2
      <3> QED BY <1>8, <3>1, <3>2, <3>3, <3>4
    <2> QED BY <1>1, <1>4, <2>1
  <1>9. CASE Decide(p)
    <2> DEFINE d == Evaluate(proc[p].entry, KnownResets, proc[p].now,
                             proc[p].forced, proc[p].streak, FALSE)
               r == IF d.owed THEN [proc[p] EXCEPT !.phase = "decided", !.due = d.at,
                                                   !.reason = d.reason]
                              ELSE Releasing(p)
    <2>1. /\ Phase(p) = "streak" /\ UNCHANGED <<clock, lease>>
          /\ proc' = [proc EXCEPT ![p] = r]
      BY <1>9 DEF Decide, SamplerInv, SamplerTypeOK
    <2> HIDE DEF d
    <2>2. r.phase \in {"decided", "release"} /\ r.expires_at = proc[p].expires_at
      BY <1>2, <1>3 DEF Runs
    <2> HIDE DEF r
    <2> QED BY <1>1, <1>4, <2>1, <2>2
  <1>10. CASE StartAttempt(p)
    <2> DEFINE n == Len(history) + 1
               r == [NoRun EXCEPT !.phase = "request", !.row = n,
                                  !.expires_at = proc[p].expires_at]
    <2>1. /\ Phase(p) = "stamped" /\ UNCHANGED <<clock, lease>>
          /\ proc' = [proc EXCEPT ![p] = r]
      BY <1>10 DEF StartAttempt, start_meter_attempt
    <2> HIDE DEF n
    <2>2. r.phase = "request" /\ r.expires_at = proc[p].expires_at
      BY DEF NoRun
    <2> HIDE DEF r
    <2> QED BY <1>1, <1>4, <2>1, <2>2
  <1>11. CASE EligibilityFails(p) \/ Persist(p)
    <2>1. /\ Phase(p) \in Holding /\ UNCHANGED <<clock, lease>>
          /\ proc' = [proc EXCEPT ![p] = Releasing(p)]
      BY <1>1, <1>11 DEF EligibilityFails, Persist, Measure, Fail, Lose
    <2> QED BY <1>1, <1>3, <1>4, <2>1
  <1>12. CASE Die(p)
    <2>1. UNCHANGED <<clock, lease>> /\ proc' = [proc EXCEPT ![p] = NoRun]
      BY <1>12 DEF Die, Lose
    <2>2. CASE Phase(p) \in Before
      BY <1>3, <1>4, <2>1, <2>2
    <2>3. CASE Phase(p) \in Holding \cup {"locking"}
      BY <2>1, <2>3 DEF Gone
    <2> QED BY <1>2, <2>2, <2>3 DEF Runs, Phases, Holding, Eligible
  <1> QED BY <1>5, <1>6, <1>7, <1>8, <1>9, <1>10, <1>11, <1>12
          DEF Step

\* Each of these is a step of SamplingLease, or none.
LEMMA StepOfTheLease ==
    ASSUME SamplerInv, NEW p \in Invocations, Step(p)
    PROVE  Lease!LeaseNext \/ UNCHANGED Lease!leaseVars
  <1>1. CASE Quiet(p)
    BY <1>1, QuietStep
  <1>2. CASE ReadLeaseClock(p)
    BY <1>2, ReadsItsClock DEF Lease!LeaseNext
  <1>3. CASE Grant(p)
    BY <1>3, IsGranted DEF Lease!LeaseNext
  <1>4. CASE AlreadyHeld(p)
    BY <1>4, IsRefused DEF Lease!LeaseNext
  <1>5. CASE Release(p)
    BY <1>5, IsReleased DEF Lease!LeaseNext
  <1>6. CASE Gone(p)
    BY <1>6, IsGone DEF Lease!LeaseNext
  <1> QED BY <1>1, <1>2, <1>3, <1>4, <1>5, <1>6, StepShape

\* So is every step of the sampler.
LEMMA StepsOfTheLease ==
    SamplerInv /\ [SamplerNext]_samplerVars => [Lease!LeaseNext]_(Lease!leaseVars)
  <1> SUFFICES ASSUME SamplerInv, [SamplerNext]_samplerVars
               PROVE  Lease!LeaseNext \/ UNCHANGED Lease!leaseVars
    OBVIOUS
  <1>1. CASE \E p \in Invocations : Step(p)
    BY <1>1, StepOfTheLease
  <1>2. CASE DrainByAnother
    <2>1. UNCHANGED <<clock, lease, proc>>
      BY <1>2 DEF DrainByAnother, Drain
    <2> QED BY <2>1, StandingIsQuiet
  <1>3. CASE Elapse
    <2>1. clock < MaxTime /\ clock' = clock + 1 /\ UNCHANGED <<lease, proc>>
      BY <1>3 DEF Elapse
    <2>2. UNCHANGED <<Table, Calls, Grants>>
      BY <2>1 DEF Table, Row, Calls, Call, Grants, OwnGrant, Phase
    <2>3. Lease!Tick
      BY <2>1, <2>2 DEF Lease!Tick, Table, Calls, Grants
    <2> QED BY <2>3 DEF Lease!LeaseNext
  <1>4. CASE UNCHANGED samplerVars
    BY <1>4, StandingIsQuiet DEF samplerVars
  <1> QED BY <1>1, <1>2, <1>3, <1>4 DEF SamplerNext

\* An invocation whose own grant has not run out is the one the row names.
LiveOwnsTheRow(p) ==
    Phase(p) \in Holding /\ clock < proc[p].expires_at =>
        lease.holder = p /\ lease.expires_at = proc[p].expires_at

LiveOwnTheirRows == \A p \in Invocations : LiveOwnsTheRow(p)

\* A step of one invocation never takes a live row from another.
LEMMA LiveRowsSurviveAStep ==
    ASSUME SamplerInv, LiveOwnTheirRows, NEW p \in Invocations, Step(p)
    PROVE  LiveOwnTheirRows'
  <1>1. ASSUME NEW r, proc' = [proc EXCEPT ![p] = r], UNCHANGED <<clock, lease>>,
               \/ r.phase \notin Holding
               \/ Phase(p) \in Holding /\ r.expires_at = proc[p].expires_at
        PROVE  LiveOwnTheirRows'
    <2>1. proc'[p] = r /\ \A q \in Invocations : q # p => proc'[q] = proc[q]
      BY <1>1 DEF SamplerInv, SamplerTypeOK
    <2> QED BY <1>1, <2>1 DEF LiveOwnTheirRows, LiveOwnsTheRow, Phase
  <1>2. CASE Quiet(p)
    BY <1>1, <1>2 DEF Quiet
  <1>3. CASE ReadLeaseClock(p)
    <2> DEFINE r == [proc[p] EXCEPT !.phase = "locking", !.now = clock]
    <2>1. UNCHANGED <<clock, lease>> /\ proc' = [proc EXCEPT ![p] = r]
      BY <1>3 DEF ReadLeaseClock, SamplerInv, SamplerTypeOK
    <2>2. r.phase \notin Holding
      BY RunShape DEF Runs, Holding, Eligible
    <2> HIDE DEF r
    <2> QED BY <1>1, <2>1, <2>2
  <1>4. NoRun.phase \notin Holding
    BY EndedRun DEF Holding, Eligible
  <1>5. CASE AlreadyHeld(p) \/ Gone(p)
    <2>1. UNCHANGED <<clock, lease>> /\ proc' = [proc EXCEPT ![p] = NoRun]
      BY <1>5 DEF AlreadyHeld, Gone
    <2> QED BY <1>1, <1>4, <2>1
  <1>6. CASE Release(p)
    <2>1. /\ clock' = clock /\ proc' = [proc EXCEPT ![p] = NoRun]
          /\ lease.holder # p => lease' = lease
      BY <1>6 DEF Release, Owned
    <2>2. proc'[p] = NoRun /\ \A q \in Invocations : q # p => proc'[q] = proc[q]
      BY <2>1 DEF SamplerInv, SamplerTypeOK
    <2>3. ASSUME NEW q \in Invocations
          PROVE  LiveOwnsTheRow(q)'
      <3>1. CASE q = p
        BY <1>4, <2>2, <3>1 DEF LiveOwnsTheRow, Phase
      <3>2. CASE q # p
        BY <2>1, <2>2, <3>2 DEF LiveOwnTheirRows, LiveOwnsTheRow, Phase
      <3> QED BY <3>1, <3>2
    <2> QED BY <2>3 DEF LiveOwnTheirRows
  <1>7. CASE Grant(p)
    <2> DEFINE r == [proc[p] EXCEPT !.phase = "leased", !.expires_at = proc[p].now + Ttl]
    <2>1. /\ ~Blocks(p) /\ clock' = clock /\ proc' = [proc EXCEPT ![p] = r]
          /\ lease' = [holder |-> p, expires_at |-> proc[p].now + Ttl]
      BY <1>7 DEF Grant, SamplerInv, SamplerTypeOK
    <2>2. r.expires_at = proc[p].now + Ttl
      BY RunShape DEF Runs
    <2> HIDE DEF r
    <2>3. proc'[p] = r /\ \A q \in Invocations : q # p => proc'[q] = proc[q]
      BY <2>1 DEF SamplerInv, SamplerTypeOK
    <2>4. ASSUME NEW q \in Invocations, q # p, Phase(q) \in Holding,
                 clock < proc[q].expires_at
          PROVE  FALSE
      <3>1. lease.holder = q /\ lease.expires_at = proc[q].expires_at
        BY <2>4 DEF LiveOwnTheirRows, LiveOwnsTheRow
      <3>2. proc[p].now <= clock
        BY DEF SamplerInv, RunInv, InstantHasCome
      <3>3. lease.expires_at > proc[p].now
        <4>1. proc[q].expires_at \in Nat
          BY RunShape
        <4> QED BY <2>4, <3>1, <3>2, <4>1, RunShape
      <3> QED BY <2>1, <3>1, <3>3, SamplerAssumption DEF Blocks
    <2>5. ASSUME NEW q \in Invocations
          PROVE  LiveOwnsTheRow(q)'
      <3>1. CASE q = p
        BY <2>1, <2>2, <2>3, <3>1 DEF LiveOwnsTheRow
      <3>2. CASE q # p
        BY <2>1, <2>3, <2>4, <3>2 DEF LiveOwnsTheRow, Phase
      <3> QED BY <3>1, <3>2
    <2> QED BY <2>5 DEF LiveOwnTheirRows
  <1> QED BY <1>2, <1>3, <1>5, <1>6, <1>7, StepShape

\* Time passing ends grants, and everything else leaves the lease alone.
LEMMA LiveRowsSurvive ==
    SamplerInv /\ LiveOwnTheirRows /\ [SamplerNext]_samplerVars => LiveOwnTheirRows'
  <1> SUFFICES ASSUME SamplerInv, LiveOwnTheirRows, [SamplerNext]_samplerVars
               PROVE  LiveOwnTheirRows'
    OBVIOUS
  <1>1. CASE \E p \in Invocations : Step(p)
    BY <1>1, LiveRowsSurviveAStep
  <1>2. CASE DrainByAnother \/ UNCHANGED samplerVars
    <2>1. UNCHANGED <<clock, lease, proc>>
      BY <1>2 DEF DrainByAnother, Drain, samplerVars
    <2> QED BY <2>1 DEF LiveOwnTheirRows, LiveOwnsTheRow, Phase
  <1>3. CASE Elapse
    <2>1. clock' = clock + 1 /\ UNCHANGED <<lease, proc>>
      BY <1>3 DEF Elapse
    <2>2. ASSUME NEW p \in Invocations
          PROVE  LiveOwnsTheRow(p)'
      BY <2>1, RunShape DEF LiveOwnTheirRows, LiveOwnsTheRow, Phase
    <2> QED BY <2>2 DEF LiveOwnTheirRows
  <1> QED BY <1>1, <1>2, <1>3 DEF SamplerNext

----------------------------------------------------------------------------
(* coverage.rs.                                                            *)

\* 2^n is the number of subsets of a set of n elements.
LEMMA PowerCounts ==
    ASSUME NEW n \in Nat
    PROVE  /\ IsFiniteSet(SUBSET (1..n)) /\ Cardinality(SUBSET (1..n)) = 2^n
           /\ 2^n \in Nat
  <1>1. IsFiniteSet(1..n) /\ Cardinality(1..n) = n
    BY FS_Interval
  <1>2. /\ IsFiniteSet(SUBSET (1..n))
        /\ Cardinality(SUBSET (1..n)) = 2^Cardinality(1..n)
    BY <1>1, FS_SUBSET
  <1>3. Cardinality(SUBSET (1..n)) \in Nat
    BY <1>2, FS_CardinalityType
  <1> QED BY <1>1, <1>2, <1>3

\* So powers of two do not decrease.
LEMMA PowerGrows ==
    ASSUME NEW m \in Nat, NEW n \in Nat, m <= n
    PROVE  2^m <= 2^n
  <1>1. SUBSET (1..m) \subseteq SUBSET (1..n)
    OBVIOUS
  <1>2. Cardinality(SUBSET (1..m)) <= Cardinality(SUBSET (1..n))
    BY <1>1, PowerCounts, FS_Subset
  <1> QED BY <1>2, PowerCounts

\* A longer streak is held longer, although the store counts only to its limit:
\* by then the doubling has stopped.
LEMMA LongerStreakHoldsLonger ==
    ASSUME AuthThreshold + 29 <= StreakLimit, NEW s \in Nat, NEW c \in Nat, s <= c,
           NEW d \in AuthBackoffDelay(s, FALSE)
    PROVE  \E l \in AuthBackoffDelay(Min({StreakLimit, c}), FALSE) : d <= l
  <1> DEFINE t == Min({StreakLimit, c})
             x == Min({s - AuthThreshold + 1, 30})
             y == Min({t - AuthThreshold + 1, 30})
             short == Cadence * 2^x
             long == Cadence * 2^y
             l == Min({long, AuthCap})
  <1>0. /\ AuthThreshold \in Nat /\ Cadence \in Nat /\ AuthCap \in Nat /\ StreakLimit = 64
        /\ AuthThreshold <= 35
    BY PolicyAssumption DEF StreakLimit
  <1>1. AuthThreshold # 0 /\ s >= AuthThreshold
    BY <1>0 DEF AuthBackoffDelay
  <1>2. d \in 1..AuthCap /\ d = Min({short, AuthCap})
    BY <1>0, <1>1 DEF AuthBackoffDelay
  <1>3. t \in {StreakLimit, c} /\ t \in Nat /\ t <= c
    BY <1>0, MinOfNats
  <1>4. t >= AuthThreshold /\ (t >= s \/ t = 64)
    BY <1>0, <1>1, <1>3
  <1>5. AuthBackoffDelay(t, FALSE) = {k \in 1..AuthCap : k = l}
    BY <1>0, <1>1, <1>3, <1>4 DEF AuthBackoffDelay
  <1>6. x \in Nat /\ x <= s - AuthThreshold + 1 /\ x <= 30
    <2>1. s - AuthThreshold + 1 \in Nat
      BY <1>0, <1>1
    <2> QED BY <2>1, MinOfTwo
  <1>7. y \in Nat /\ (y = t - AuthThreshold + 1 \/ y = 30)
    <2> HIDE DEF t
    <2>1. t - AuthThreshold + 1 \in Nat
      BY <1>0, <1>3, <1>4
    <2> QED BY <2>1, MinOfNats
  <1> HIDE DEF x, y, t
  <1>8. x <= y
    BY <1>0, <1>1, <1>3, <1>4, <1>6, <1>7
  <1>9. 2^x <= 2^y /\ 2^x \in Nat /\ 2^y \in Nat
    BY <1>6, <1>7, <1>8, PowerGrows, PowerCounts
  <1>10. short \in Nat /\ long \in Nat /\ short <= long
    <2>1. \A a, b \in Nat : a <= b => /\ Cadence * a \in Nat /\ Cadence * b \in Nat
                                      /\ Cadence * a <= Cadence * b
      BY <1>0
    <2> QED BY <1>9, <2>1
  <1> HIDE DEF short, long
  <1>11. d <= short /\ d <= AuthCap
    BY <1>0, <1>2, <1>10, MinOfTwo
  <1>12. l \in {long, AuthCap}
    BY <1>0, <1>10, MinOfNats
  <1> HIDE DEF l
  <1>13. l \in Nat /\ d <= l /\ l <= AuthCap
    <2>1. l <= AuthCap
      BY <1>0, <1>10, MinOfTwo DEF l
    <2> QED BY <1>0, <1>2, <1>10, <1>11, <1>12, <2>1
  <1>14. l \in 1..AuthCap
    BY <1>0, <1>2, <1>13
  <1> QED BY <1>5, <1>13, <1>14 DEF t

\* Coverage counts no rejection that the store does not.
LEMMA CoverageCountsFewer ==
    ASSUME HistoryInv, history # <<>>, Newest(history).outcome = "auth"
    PROVE  \E c \in Nat : /\ AuthStreak(history) = Min({StreakLimit, c})
                          /\ CoverageStreak(Len(history)) \in Nat
                          /\ CoverageStreak(Len(history)) <= c
  <1> DEFINE n == Len(history)
             stored == {i \in TerminalRows(history) :
                 \A j \in TerminalRows(history) : j >= i => history[j].outcome = "auth"}
             counted == {k \in 1..n :
                 /\ \A j \in k..n : history[j].outcome = "auth"
                 /\ \A j \in (k + 1)..n : ~ContextRewritten(j)}
  <1>1. n \in Nat /\ DOMAIN history = 1..n
    BY HistoryShape
  <1>2. stored \subseteq 1..n
    BY <1>1 DEF TerminalRows
  <1>3. counted \subseteq stored
    <2> SUFFICES ASSUME NEW k \in 1..n, \A j \in k..n : history[j].outcome = "auth"
                 PROVE  k \in stored
      OBVIOUS
    <2>1. k \in TerminalRows(history)
      BY <1>1 DEF TerminalRows, Terminal, Terminals
    <2>2. \A j \in TerminalRows(history) : j >= k => history[j].outcome = "auth"
      BY <1>1 DEF TerminalRows
    <2> QED BY <2>1, <2>2
  <1>4. IsFiniteSet(1..n)
    BY <1>1, FS_Interval
  <1>5. AuthStreak(history) = Min({StreakLimit, Cardinality(stored)})
    BY DEF AuthStreak, Terminal, Terminals
  <1>6. CoverageStreak(n) = Cardinality(counted)
    BY DEF CoverageStreak
  <1> HIDE DEF stored, counted
  <1>7. IsFiniteSet(stored) /\ Cardinality(stored) \in Nat
    BY <1>2, <1>4, FS_Subset, FS_CardinalityType
  <1>8. /\ IsFiniteSet(counted) /\ Cardinality(counted) \in Nat
        /\ Cardinality(counted) <= Cardinality(stored)
    BY <1>3, <1>7, FS_Subset, FS_CardinalityType
  <1> QED BY <1>5, <1>6, <1>7, <1>8

\* Only an attempt the provider limited has a Retry-After.
RetryIsLimited ==
    \A i \in DOMAIN history : history[i].retry # {} => history[i].outcome = "limited"

\* The ends of coverage's holds are instants.
LEMMA HoldsAreInstants ==
    ASSUME HistoryInv, NEW i \in 1..Len(history)
    PROVE  CoverageHolds(i) \subseteq Int
  <1> SUFFICES ASSUME NEW end \in CoverageHolds(i)
               PROVE  end \in Int
    OBVIOUS
  <1>1. history[i].finish \in Nat /\ history[i].retry \subseteq Nat
    BY HistoryShape, ScheduleAssumption DEF Attempt
  <1>2. \A r \in history[i].retry : Min({r, RetryCap}) \in Nat
    BY <1>1, MinOfTwo, PolicyAssumption
  <1>3. AuthBackoffDelay(CoverageStreak(i), FALSE) \subseteq Nat
    BY PolicyAssumption DEF AuthBackoffDelay
  <1>4. PICK d : /\ end = history[i].finish + d
                 /\ \/ d \in {Min({r, RetryCap}) : r \in history[i].retry}
                    \/ d \in AuthBackoffDelay(CoverageStreak(i), FALSE)
    BY DEF CoverageHolds
  <1>5. d \in Nat
    BY <1>2, <1>3, <1>4
  <1> QED BY <1>1, <1>4, <1>5

\* The cadence rule waits for every hold coverage derives from the latest attempt,
\* unless the hold is a rejected credential's and that credential was replaced.
LEMMA CadenceWaitsForHolds ==
    ASSUME HistoryInv, RetryIsLimited, AuthThreshold + 29 <= StreakLimit,
           history # <<>>, NEW ctx,
           ~(Newest(history).outcome = "auth" /\ CredentialChanged(history, ctx)),
           NEW end \in CoverageHolds(Len(history))
    PROVE  /\ EffectiveDueAt(Newest(history), AuthStreak(history),
                             CredentialChanged(history, ctx)) \in Int
           /\ end <= EffectiveDueAt(Newest(history), AuthStreak(history),
                                    CredentialChanged(history, ctx))
  <1> DEFINE e == Newest(history)
             streak == AuthStreak(history)
             changed == CredentialChanged(history, ctx)
             at == EffectiveDueAt(e, streak, changed)
  <1>1. Len(history) \in DOMAIN history /\ e = history[Len(history)] /\ e \in Attempt
    <2>1. Len(history) \in 1..Len(history)
      BY HistoryShape
    <2> QED BY <2>1, HistoryShape DEF Newest
  <1>2. streak \in Nat /\ changed \in BOOLEAN
    BY HistoryShape, AuthStreakIsNat DEF CredentialChanged
  <1>3. /\ at \in Int
        /\ \A x \in RetryPostponement(e) \cup AuthPostponement(e, streak, changed) : x <= at
    BY <1>1, <1>2, EffectiveDueAtKeepsCadence
  <1>4. e.finish \in Nat
    BY <1>1 DEF Attempt
  <1>5. CASE \E r \in e.retry : end = e.finish + Min({r, RetryCap})
    <2>1. e.outcome = "limited"
      BY <1>1, <1>5 DEF RetryIsLimited
    <2>2. end \in RetryPostponement(e)
      BY <1>5, <2>1 DEF RetryPostponement
    <2> QED BY <1>3, <2>2
  <1>6. ASSUME e.outcome = "auth",
               NEW d \in AuthBackoffDelay(CoverageStreak(Len(history)), FALSE),
               end = e.finish + d
        PROVE  end <= at
    <2>0. changed = FALSE
      BY <1>2, <1>6
    <2>1. PICK c \in Nat : /\ streak = Min({StreakLimit, c})
                           /\ CoverageStreak(Len(history)) \in Nat
                           /\ CoverageStreak(Len(history)) <= c
      BY <1>6, CoverageCountsFewer
    <2>2. PICK l \in AuthBackoffDelay(streak, FALSE) : d <= l
      BY <2>1, LongerStreakHoldsLonger
    <2>3. e.finish + l \in AuthPostponement(e, streak, changed)
      BY <1>6, <2>0 DEF AuthPostponement, Terminal, Terminals
    <2>4. d \in Nat /\ l \in Nat
      BY PolicyAssumption DEF AuthBackoffDelay
    <2>5. e.finish + l <= at
      BY <1>3, <2>3
    <2> HIDE DEF e, at, streak
    <2> QED BY <1>3, <1>4, <1>6, <2>2, <2>4, <2>5
  <1>7. \/ \E r \in e.retry : end = e.finish + Min({r, RetryCap})
        \/ /\ e.outcome = "auth"
           /\ \E d \in AuthBackoffDelay(CoverageStreak(Len(history)), FALSE) :
                 end = e.finish + d
    BY <1>1 DEF CoverageHolds
  <1> QED BY <1>3, <1>5, <1>6, <1>7

----------------------------------------------------------------------------
(* Holds of earlier attempts: the decision that followed them waited.      *)

\* An attempt due then, for this reason and with this credential, waited for the
\* hold of attempt i, if everything up to i had been answered by then and the
\* credential was still the rejected one.
Waited(i, due, reason, ctx) ==
    (/\ reason = "OrdinaryCadence"
     /\ \A a \in 1..i : history[a].finish < due
     /\ ~(history[i].outcome = "auth" /\ CredentialChanged(SubSeq(history, 1, i), ctx)))
    => \A end \in CoverageHolds(i) : end <= due

AttemptsWaited ==
    \A i \in 1..(Len(history) - 1) :
        Waited(i, history[i + 1].due, history[i + 1].reason, history[i + 1].context)

DecisionWaited ==
    (sampler.phase = "decided" /\ history # <<>>) =>
        Waited(Len(history), sampler.due, sampler.reason, sampler.context)

CoverageInv == RetryIsLimited /\ AttemptsWaited /\ DecisionWaited

\* What a hold of attempt i is made of, now and in the next state.
SameAnswer(a) ==
    /\ history'[a].finish = history[a].finish
    /\ history'[a].retry = history[a].retry
    /\ history'[a].outcome = "auth" <=> history[a].outcome = "auth"

SameContext(a) == history'[a].context = history[a].context

\* A hold depends on the attempts up to its own alone.
LEMMA HoldIsKept ==
    ASSUME NEW i \in Nat, i # 0, \A a \in 1..i : SameAnswer(a) /\ SameContext(a)
    PROVE  CoverageHolds(i)' = CoverageHolds(i)
  <1>1. ASSUME NEW j \in 1..i
        PROVE  ContextRewritten(j)' = ContextRewritten(j)
    <2> DEFINE before == {k \in 1..(j - 1) : history[k].context # "none"}
    <2>1. \A k \in 1..(j - 1) : k \in 1..i /\ SameContext(k)
      OBVIOUS
    <2>2. before' = before
      BY <2>1 DEF SameContext
    <2>3. CASE before = {}
      BY <2>2, <2>3 DEF ContextRewritten
    <2>4. CASE before # {}
      <3>1. before \in SUBSET Int /\ j \in Int /\ \A x \in before : x <= j
        OBVIOUS
      <3>2. Max(before) \in before
        <4> HIDE DEF before
        <4> QED BY <2>4, <3>1, MaxOfBounded
      <3>3. Max(before) \in 1..(j - 1)
        BY <3>2
      <3>4. /\ SameContext(j) /\ SameContext(Max(before))
        <4> HIDE DEF before
        <4> QED BY <2>1, <3>3
      <3>5. Max(before)' = Max(before)
        BY <2>2
      <3> HIDE DEF before
      <3>6. history'[Max(before)'].context = history[Max(before)].context
        BY <3>4, <3>5 DEF SameContext
      <3>7. history'[j].context = history[j].context
        BY <3>4 DEF SameContext
      <3> QED BY <2>2, <3>6, <3>7 DEF ContextRewritten, before
    <2> QED BY <2>3, <2>4
  <1>2. CoverageStreak(i)' = CoverageStreak(i)
    <2> DEFINE S == {k \in 1..i :
                 /\ \A j \in k..i : history[j].outcome = "auth"
                 /\ \A j \in (k + 1)..i : ~ContextRewritten(j)}
    <2>1. \A k \in 1..i : /\ \A j \in k..i : j \in 1..i
                          /\ \A j \in (k + 1)..i : j \in 1..i
      OBVIOUS
    <2>2. \A j \in 1..i : history'[j].outcome = "auth" <=> history[j].outcome = "auth"
      BY DEF SameAnswer
    <2>3. S' = S
      BY <1>1, <2>1, <2>2
    <2> QED BY <2>3 DEF CoverageStreak
  <1>3. SameAnswer(i)
    OBVIOUS
  <1> QED BY <1>2, <1>3 DEF CoverageHolds, SameAnswer

\* The credential of a prefix is that of its last attempt.
LEMMA PrefixCredential ==
    ASSUME HistoryInv, NEW i \in 1..Len(history), NEW ctx
    PROVE  CredentialChanged(SubSeq(history, 1, i), ctx) <=>
               /\ ctx # "none" /\ history[i].context # "none"
               /\ ctx # history[i].context
  <1>1. /\ Len(SubSeq(history, 1, i)) = i /\ SubSeq(history, 1, i)[i] = history[i]
        /\ SubSeq(history, 1, i) # <<>>
    BY HistoryShape
  <1> QED BY <1>1 DEF CredentialChanged, Newest

\* Retry-Afters come with a limited outcome, which no later step changes.
LEMMA RetryStep ==
    ASSUME ScheduleInv, RetryIsLimited, [Next]_vars
    PROVE  RetryIsLimited'
  <1> DEFINE n == Len(history)
  <1>0. /\ HistoryInv /\ n \in Nat /\ DOMAIN history = 1..n /\ history \in Seq(Attempt)
        /\ \A i \in 1..n : history[i] \in Attempt
    BY HistoryShape DEF ScheduleInv
  <1>1. ASSUME UNCHANGED history
        PROVE  RetryIsLimited'
    BY <1>1 DEF RetryIsLimited
  <1>2. ASSUME NEW S, S \subseteq Spooled, NEW last, Commit(S, last)
        PROVE  RetryIsLimited'
    <2>1. history' = [i \in 1..n |->
                        IF i \in S THEN [history[i] EXCEPT !.outcome = "success"]
                                   ELSE history[i]]
      BY <1>0, <1>2 DEF Commit
    <2>2. \A i \in S : history[i].outcome = "spooled"
      BY <1>2 DEF Spooled
    <2>3. \A i \in 1..n : history'[i].retry = history[i].retry
      BY <1>0, <2>1 DEF Attempt
    <2>4. \A i \in 1..n : history[i].outcome = "limited" => history'[i].outcome = "limited"
      BY <2>1, <2>2
    <2> QED BY <1>0, <2>1, <2>3, <2>4 DEF RetryIsLimited
  <1>3. ASSUME NEW k \in InFlight, NEW outcome, NEW retry, NEW resets,
               Answer(k, outcome, retry, resets), retry # {} => outcome = "limited"
        PROVE  RetryIsLimited'
    <2> DEFINE new == [history[k] EXCEPT !.outcome = outcome, !.finish = clock,
                                         !.retry = retry, !.resets = resets]
    <2>1. k \in 1..n
      BY <1>0 DEF InFlight
    <2>2. history' = [history EXCEPT ![k] = new]
      BY <1>0, <1>3, <2>1 DEF Answer, Attempt
    <2>3. new.outcome = outcome /\ new.retry = retry
      BY <1>0, <2>1 DEF Attempt
    <2> HIDE DEF new
    <2>4. DOMAIN history' = 1..n /\ \A i \in 1..n : history'[i] = IF i = k THEN new ELSE history[i]
      BY <1>0, <2>1, <2>2
    <2> QED BY <1>0, <1>3, <2>3, <2>4 DEF RetryIsLimited
  <1>4. ASSUME NEW k, Lose(k)
        PROVE  RetryIsLimited'
    <2>1. /\ k \in 1..n /\ history[k].outcome = "inflight"
          /\ history' = [history EXCEPT ![k].outcome = "lost"]
      BY <1>0, <1>4 DEF Lose, InFlight
    <2>2. history[k].retry = {}
      BY <1>0, <2>1 DEF RetryIsLimited
    <2>3. DOMAIN history' = 1..n /\ history'[k].retry = history[k].retry
          /\ \A i \in 1..n : i # k => history'[i] = history[i]
      BY <1>0, <2>1 DEF Attempt
    <2> QED BY <1>0, <2>2, <2>3 DEF RetryIsLimited
  <1>5. CASE Start
    <2> DEFINE new == [due |-> sampler.due, reason |-> sampler.reason, start |-> clock,
                       context |-> sampler.context, outcome |-> "inflight", finish |-> 0,
                       retry |-> {}, resets |-> {}]
    <2>1. history' = Append(history, new) /\ new.retry = {}
      BY <1>5 DEF Start, start_meter_attempt
    <2> HIDE DEF new
    <2>2. /\ DOMAIN history' = 1..(n + 1) /\ history'[n + 1] = new
          /\ \A i \in 1..n : history'[i] = history[i]
      BY <1>0, <2>1
    <2>3. \A i \in 1..(n + 1) : i \in 1..n \/ i = n + 1
      BY <1>0
    <2> QED BY <1>0, <2>1, <2>2, <2>3 DEF RetryIsLimited
  <1>6. CASE \E forced \in BOOLEAN : Begin(forced)
    BY <1>1, <1>2, <1>6 DEF Begin, DrainSpool, Database
  <1>7. CASE Settle
    <2>1. PICK k \in DOMAIN history : Measure(k) \/ Fail(k) \/ Lose(k) \/ Drain(k)
      BY <1>7 DEF Settle
    <2>2. CASE Measure(k)
      BY <1>3, <2>2 DEF Measure
    <2>3. CASE Fail(k)
      BY <1>3, <2>3 DEF Fail
    <2>4. CASE Drain(k)
      BY <1>2, <2>4 DEF Drain
    <2> QED BY <1>4, <2>1, <2>2, <2>3, <2>4
  <1>8. CASE \/ Tick \/ RewriteCredential \/ EvaluateUnderLease \/ Skip \/ Abandon
             \/ UNCHANGED vars
    BY <1>1, <1>8 DEF Tick, RewriteCredential, EvaluateUnderLease, Skip, Abandon, vars,
                      Database
  <1> QED BY <1>5, <1>6, <1>7, <1>8 DEF Next

----------------------------------------------------------------------------
(* Every step keeps what the holds rest on.                                *)

\* A step that leaves the history alone leaves every hold.
LEMMA HoldsAreTheHistorys ==
    ASSUME UNCHANGED history, NEW i, NEW due, NEW reason, NEW ctx
    PROVE  Waited(i, due, reason, ctx)' <=> Waited(i, due, reason, ctx)
  <1>1. CoverageHolds(i)' = CoverageHolds(i)
    BY DEF CoverageHolds, CoverageStreak, ContextRewritten
  <1>2. CredentialChanged(SubSeq(history, 1, i), ctx)' <=>
            CredentialChanged(SubSeq(history, 1, i), ctx)
    BY DEF CredentialChanged, Newest
  <1> QED BY <1>1, <1>2 DEF Waited

\* It leaves what the attempts waited for, too.
LEMMA AttemptsStillWaited ==
    ASSUME AttemptsWaited, UNCHANGED history
    PROVE  AttemptsWaited'
  <1> SUFFICES ASSUME NEW i \in 1..(Len(history) - 1)
               PROVE  Waited(i, history[i + 1].due, history[i + 1].reason,
                             history[i + 1].context)'
    BY DEF AttemptsWaited
  <1>1. PICK due, reason, ctx :
           /\ due = history[i + 1].due /\ reason = history[i + 1].reason
           /\ ctx = history[i + 1].context
    OBVIOUS
  <1>2. Waited(i, due, reason, ctx)
    BY <1>1 DEF AttemptsWaited
  <1>3. Waited(i, due, reason, ctx)'
    BY <1>2, HoldsAreTheHistorys
  <1> QED BY <1>1, <1>3 DEF Waited

\* An answer lands now; everything answered before stays as it was.
AnswersLand ==
    /\ DOMAIN history' = DOMAIN history
    /\ clock' = clock
    /\ \A a \in DOMAIN history :
          /\ SameContext(a)
          /\ history'[a].due = history[a].due
          /\ history'[a].reason = history[a].reason
          /\ SameAnswer(a) \/ history'[a].finish = clock

\* A decision or an attempt that waited still has, whatever answers land.
LEMMA AnswersKeepWaiting ==
    ASSUME HistoryInv, AnswersLand, NEW i \in 1..Len(history),
           NEW due \in Int, due <= clock, NEW reason, NEW ctx,
           Waited(i, due, reason, ctx), HistoryInv'
    PROVE  Waited(i, due, reason, ctx)'
  <1> SUFFICES ASSUME reason = "OrdinaryCadence",
                      \A a \in 1..i : history'[a].finish < due,
                      ~(history'[i].outcome = "auth" /\
                            CredentialChanged(SubSeq(history, 1, i), ctx)')
               PROVE  \A end \in CoverageHolds(i)' : end <= due
    BY DEF Waited
  <1>1. /\ Len(history) \in Nat /\ DOMAIN history = 1..Len(history) /\ clock \in Nat
        /\ i \in Nat /\ i # 0
    BY HistoryShape
  <1>2. \A a \in 1..i : a \in DOMAIN history
    BY <1>1
  <1>3. \A a \in 1..i : SameAnswer(a) /\ SameContext(a)
    BY <1>1, <1>2 DEF AnswersLand
  <1>4. CoverageHolds(i)' = CoverageHolds(i)
    BY <1>1, <1>3, HoldIsKept
  <1>5. i \in 1..i
    BY <1>1
  <1>6. /\ \A a \in 1..i : history[a].finish < due
        /\ history'[i].outcome = "auth" <=> history[i].outcome = "auth"
        /\ history'[i].context = history[i].context
    BY <1>3, <1>5 DEF SameAnswer, SameContext
  <1>7. CredentialChanged(SubSeq(history, 1, i), ctx) <=>
            ctx # "none" /\ history[i].context # "none" /\ ctx # history[i].context
    BY PrefixCredential
  <1>8. CredentialChanged(SubSeq(history, 1, i), ctx)' <=>
            ctx # "none" /\ history'[i].context # "none" /\ ctx # history'[i].context
    <2>1. DOMAIN history' = 1..Len(history')  /\ history' \in Seq(Attempt)
      BY DEF HistoryInv, HistoryTypeOK
    <2>2. i \in DOMAIN history'
      BY <1>1 DEF AnswersLand
    <2>3. /\ Len(SubSeq(history', 1, i)) = i /\ SubSeq(history', 1, i)[i] = history'[i]
          /\ SubSeq(history', 1, i) # <<>>
      BY <1>1, <2>1, <2>2
    <2> QED BY <2>3 DEF CredentialChanged, Newest
  <1> QED BY <1>4, <1>6, <1>7, <1>8 DEF Waited

\* Every step but a start only lets answers land, or time pass.
LEMMA SettlingLands ==
    ASSUME HistoryInv, UNCHANGED clock,
           \/ UNCHANGED Database
           \/ DrainSpool
           \/ \E k : Measure(k) \/ Fail(k) \/ Lose(k) \/ Drain(k)
    PROVE  AnswersLand
  <1> DEFINE n == Len(history)
  <1>0. /\ n \in Nat /\ DOMAIN history = 1..n /\ history \in Seq(Attempt)
        /\ \A i \in 1..n : history[i] \in Attempt
    BY HistoryShape
  <1>1. ASSUME UNCHANGED history
        PROVE  AnswersLand
    BY <1>1 DEF AnswersLand, SameAnswer, SameContext
  <1>2. ASSUME NEW S, S \subseteq Spooled, NEW last, Commit(S, last)
        PROVE  AnswersLand
    <2>1. history' = [i \in 1..n |->
                        IF i \in S THEN [history[i] EXCEPT !.outcome = "success"]
                                   ELSE history[i]]
      BY <1>0, <1>2 DEF Commit
    <2>2. \A i \in S : history[i].outcome = "spooled"
      BY <1>2 DEF Spooled
    <2>3. \A i \in 1..n : /\ history'[i].retry = history[i].retry
                          /\ history'[i].finish = history[i].finish
                          /\ history'[i].context = history[i].context
                          /\ history'[i].due = history[i].due
                          /\ history'[i].reason = history[i].reason
                          /\ i \in S => history'[i].outcome = "success"
                          /\ i \notin S => history'[i].outcome = history[i].outcome
      BY <1>0, <2>1 DEF Attempt
    <2>4. DOMAIN history' = 1..n
      BY <2>1
    <2> QED BY <1>0, <2>2, <2>3, <2>4 DEF AnswersLand, SameAnswer, SameContext
  <1>3. ASSUME NEW k \in InFlight, NEW outcome, NEW retry, NEW resets,
               Answer(k, outcome, retry, resets)
        PROVE  AnswersLand
    <2> DEFINE new == [history[k] EXCEPT !.outcome = outcome, !.finish = clock,
                                         !.retry = retry, !.resets = resets]
    <2>1. k \in 1..n
      BY <1>0 DEF InFlight
    <2>2. history' = [history EXCEPT ![k] = new]
      BY <1>0, <1>3, <2>1 DEF Answer, Attempt
    <2>3. /\ new.finish = clock /\ new.context = history[k].context
          /\ new.due = history[k].due /\ new.reason = history[k].reason
      BY <1>0, <2>1 DEF Attempt
    <2> HIDE DEF new
    <2>4. /\ DOMAIN history' = 1..n
          /\ \A i \in 1..n : history'[i] = IF i = k THEN new ELSE history[i]
      BY <1>0, <2>1, <2>2
    <2> QED BY <1>0, <2>3, <2>4 DEF AnswersLand, SameAnswer, SameContext
  <1>4. ASSUME NEW k, Lose(k)
        PROVE  AnswersLand
    <2>1. /\ k \in 1..n /\ history[k].outcome = "inflight"
          /\ history' = [history EXCEPT ![k].outcome = "lost"]
      BY <1>0, <1>4 DEF Lose, InFlight
    <2>2. /\ DOMAIN history' = 1..n
          /\ \A i \in 1..n : i # k => history'[i] = history[i]
          /\ history'[k].retry = history[k].retry
          /\ history'[k].finish = history[k].finish
          /\ history'[k].context = history[k].context
          /\ history'[k].due = history[k].due
          /\ history'[k].reason = history[k].reason
          /\ history'[k].outcome = "lost"
      BY <1>0, <2>1 DEF Attempt
    <2> QED BY <1>0, <2>1, <2>2 DEF AnswersLand, SameAnswer, SameContext
  <1>5. CASE DrainSpool
    BY <1>1, <1>2, <1>5 DEF DrainSpool, Database
  <1>6. ASSUME NEW k, Measure(k) \/ Fail(k) \/ Lose(k) \/ Drain(k)
        PROVE  AnswersLand
    <2>1. CASE Measure(k)
      BY <1>3, <2>1 DEF Measure
    <2>2. CASE Fail(k)
      BY <1>3, <2>2 DEF Fail
    <2>3. CASE Drain(k)
      BY <1>2, <2>3 DEF Drain
    <2> QED BY <1>4, <1>6, <2>1, <2>2, <2>3
  <1>7. CASE UNCHANGED Database
    BY <1>1, <1>7 DEF Database
  <1> QED BY <1>5, <1>6, <1>7

\* Answers that land disturb neither the attempts nor a decision that stands.
LEMMA LandingKeepsCoverage ==
    ASSUME ScheduleInv, ScheduleInv', CoverageInv, RetryIsLimited', AnswersLand,
           \/ UNCHANGED sampler
           \/ sampler'.phase # "decided"
    PROVE  CoverageInv'
  <1> DEFINE n == Len(history)
  <1>0. /\ HistoryInv /\ HistoryInv' /\ n \in Nat /\ DOMAIN history = 1..n
        /\ \A i \in 1..n : history[i].due \in Int /\ history[i].start \in Nat
        /\ clock \in Nat
    BY HistoryShape DEF ScheduleInv
  <1>1. Len(history') = n
    <2>1. history' \in Seq(Attempt)
      BY <1>0 DEF HistoryInv, HistoryTypeOK
    <2>2. 1..Len(history') = 1..n /\ Len(history') \in Nat
      BY <1>0, <2>1 DEF AnswersLand
    <2> QED BY <1>0, <2>2
  <1>2. AttemptsWaited'
    <2> SUFFICES ASSUME NEW i \in 1..(n - 1)
                 PROVE  Waited(i, history[i + 1].due, history[i + 1].reason,
                               history[i + 1].context)'
      BY <1>1 DEF AttemptsWaited
    <2>1. i \in 1..n /\ i + 1 \in 1..n
      BY <1>0
    <2>2. PICK due, reason, ctx :
             /\ due \in Int
             /\ due = history[i + 1].due /\ reason = history[i + 1].reason
             /\ ctx = history[i + 1].context
      BY <1>0, <2>1
    <2>3. due <= clock
      BY <1>0, <2>1, <2>2 DEF HistoryInv, AttemptsAreOrdered
    <2>4. Waited(i, due, reason, ctx)
      BY <2>2 DEF CoverageInv, AttemptsWaited
    <2>5. Waited(i, due, reason, ctx)'
      BY <1>0, <2>1, <2>2, <2>3, <2>4, AnswersKeepWaiting
    <2>6. /\ history'[i + 1].due = due /\ history'[i + 1].reason = reason
          /\ history'[i + 1].context = ctx
      BY <1>0, <2>1, <2>2 DEF AnswersLand, SameContext
    <2> QED BY <2>5, <2>6 DEF Waited
  <1>3. DecisionWaited'
    <2>1. CASE sampler'.phase # "decided"
      BY <2>1 DEF DecisionWaited
    <2>2. CASE UNCHANGED sampler /\ sampler.phase = "decided" /\ history' # <<>>
      <3>1. n \in 1..n /\ history # <<>>
        <4>1. n # 0
          BY <1>0, <1>1, <2>2 DEF HistoryInv, HistoryTypeOK
        <4> QED BY <1>0, <4>1
      <3>2. PICK due, reason, ctx :
               /\ due \in Int
               /\ due = sampler.due /\ reason = sampler.reason /\ ctx = sampler.context
        BY DEF ScheduleInv, ScheduleTypeOK
      <3>3. due <= clock
        BY <2>2, <3>2 DEF ScheduleInv, DecisionIsAhead
      <3>4. Waited(n, due, reason, ctx)
        BY <2>2, <3>1, <3>2 DEF CoverageInv, DecisionWaited
      <3>5. PICK m \in 1..n : m = n
        BY <3>1
      <3>6. Waited(m, due, reason, ctx)'
        BY <1>0, <3>2, <3>3, <3>4, <3>5, AnswersKeepWaiting
      <3> QED BY <1>1, <2>2, <3>2, <3>5, <3>6 DEF DecisionWaited, Waited
    <2> QED BY <2>1, <2>2 DEF DecisionWaited
  <1> QED BY <1>2, <1>3 DEF CoverageInv

\* The decision under the lease has waited for the hold of the latest attempt.
LEMMA EvaluationWaits ==
    ASSUME ScheduleInv, CoverageInv, AuthThreshold + 29 <= StreakLimit,
           EvaluateUnderLease
    PROVE  DecisionWaited'
  <1> DEFINE n == Len(history)
             ctx == sampler.context
             d == Decision(clock, sampler.forced, ctx)
             at == EffectiveDueAt(Newest(history), AuthStreak(history),
                                  CredentialChanged(history, ctx))
  <1>1. /\ d.owed /\ UNCHANGED <<clock, history>>
        /\ sampler' = [sampler EXCEPT !.phase = "decided", !.due = d.at,
                                      !.reason = d.reason]
    BY DEF EvaluateUnderLease, Database
  <1>2. sampler'.due = d.at /\ sampler'.reason = d.reason /\ sampler'.context = ctx
    BY <1>1 DEF ScheduleInv, ScheduleTypeOK
  <1> SUFFICES ASSUME history # <<>>, d.reason = "OrdinaryCadence",
                      ~(history[n].outcome = "auth" /\
                            CredentialChanged(SubSeq(history, 1, n), ctx)),
                      NEW end \in CoverageHolds(n)
               PROVE  end <= d.at
    <2>1. CoverageHolds(n)' = CoverageHolds(n)
      BY <1>1 DEF CoverageHolds, CoverageStreak, ContextRewritten
    <2> QED BY <1>1, <1>2, <2>1 DEF DecisionWaited, Waited
  <1>3. HistoryInv /\ n \in 1..n
    BY HistoryShape DEF ScheduleInv
  <1>4. SubSeq(history, 1, n) = history /\ history[n] = Newest(history)
    BY <1>3, HistoryShape DEF Newest
  <1>5. end <= at
    BY <1>3, <1>4, CadenceWaitsForHolds DEF CoverageInv
  <1>6. d = Due(at, "OrdinaryCadence") \/ d = NotYet(at)
    BY DEF Decision, Evaluate, Due
  <1>7. d.at = at
    BY <1>6 DEF Due, NotYet
  <1> QED BY <1>5, <1>7

\* A start commits what was decided and leaves the earlier attempts alone.
LEMMA StartKeepsCoverage ==
    ASSUME ScheduleInv, ScheduleInv', CoverageInv, RetryIsLimited', Start
    PROVE  CoverageInv'
  <1> DEFINE n == Len(history)
             new == [due |-> sampler.due, reason |-> sampler.reason, start |-> clock,
                     context |-> sampler.context, outcome |-> "inflight", finish |-> 0,
                     retry |-> {}, resets |-> {}]
  <1>0. HistoryInv /\ HistoryInv' /\ n \in Nat /\ DOMAIN history = 1..n
    BY HistoryShape DEF ScheduleInv
  <1>1. /\ history' = Append(history, new) /\ sampler.phase = "decided"
        /\ sampler' = Idle
    BY DEF Start, start_meter_attempt
  <1>2. /\ new.due = sampler.due /\ new.reason = sampler.reason
        /\ new.context = sampler.context
    OBVIOUS
  <1> HIDE DEF new
  <1>3. /\ Len(history') = n + 1 /\ history'[n + 1] = new
        /\ \A i \in 1..n : history'[i] = history[i]
    BY <1>0, <1>1, HistoryShape
  <1>4. ASSUME NEW i \in 1..n, NEW due, NEW reason, NEW ctx, Waited(i, due, reason, ctx)
        PROVE  Waited(i, due, reason, ctx)'
    <2>1. /\ i \in Nat /\ i # 0
          /\ \A a \in 1..i : history'[a] = history[a]
          /\ SubSeq(history', 1, i) = SubSeq(history, 1, i)
      BY <1>0, <1>3, HistoryShape
    <2>2. \A a \in 1..i : SameAnswer(a) /\ SameContext(a)
      BY <2>1 DEF SameAnswer, SameContext
    <2>3. CoverageHolds(i)' = CoverageHolds(i)
      BY <2>1, <2>2, HoldIsKept
    <2>4. history'[i] = history[i]
      BY <1>3
    <2> QED BY <1>4, <2>1, <2>3, <2>4 DEF Waited
  <1>5. AttemptsWaited'
    <2> SUFFICES ASSUME NEW i \in 1..n
                 PROVE  Waited(i, history[i + 1].due, history[i + 1].reason,
                               history[i + 1].context)'
      BY <1>0, <1>3 DEF AttemptsWaited
    <2>1. CASE i = n
      <3>1. PICK due, reason, ctx :
               due = sampler.due /\ reason = sampler.reason /\ ctx = sampler.context
        OBVIOUS
      <3>2. history # <<>>
        BY <1>0, <2>1
      <3>3. Waited(i, due, reason, ctx)
        BY <1>1, <2>1, <3>1, <3>2 DEF CoverageInv, DecisionWaited
      <3>4. Waited(i, due, reason, ctx)'
        BY <1>4, <3>3
      <3> QED BY <1>2, <1>3, <2>1, <3>1, <3>4 DEF Waited
    <2>2. CASE i # n
      <3>1. i \in 1..(n - 1) /\ i + 1 \in 1..n
        <4> HIDE DEF n
        <4> QED BY <1>0, <2>2
      <3>2. PICK due, reason, ctx :
               /\ due = history[i + 1].due /\ reason = history[i + 1].reason
               /\ ctx = history[i + 1].context
        OBVIOUS
      <3>3. Waited(i, due, reason, ctx)
        BY <3>1, <3>2 DEF CoverageInv, AttemptsWaited
      <3>4. Waited(i, due, reason, ctx)'
        BY <1>4, <3>3
      <3> QED BY <1>3, <3>1, <3>2, <3>4 DEF Waited
    <2> QED BY <2>1, <2>2
  <1>6. DecisionWaited'
    BY <1>1 DEF DecisionWaited, Idle
  <1> QED BY <1>5, <1>6 DEF CoverageInv

\* Every step keeps the waiting.
LEMMA CoverageStep ==
    ASSUME ScheduleInv, ScheduleInv', CoverageInv, AuthThreshold + 29 <= StreakLimit,
           [Next]_vars
    PROVE  CoverageInv'
  <1>1. RetryIsLimited'
    BY RetryStep DEF CoverageInv
  <1>2. HistoryInv
    BY DEF ScheduleInv
  <1>3. CASE Tick \/ RewriteCredential
    <2>1. UNCHANGED <<history, sampler>>
      BY <1>3 DEF Tick, RewriteCredential, Database
    <2>2. AttemptsWaited'
      BY <2>1, AttemptsStillWaited DEF CoverageInv
    <2>3. DecisionWaited'
      <3>1. PICK n, due, reason, ctx :
               /\ n = Len(history) /\ due = sampler.due
               /\ reason = sampler.reason /\ ctx = sampler.context
        OBVIOUS
      <3>2. Waited(n, due, reason, ctx)' <=> Waited(n, due, reason, ctx)
        BY <2>1, HoldsAreTheHistorys
      <3> QED BY <2>1, <3>1, <3>2 DEF CoverageInv, DecisionWaited, Waited
    <2> QED BY <1>1, <2>2, <2>3 DEF CoverageInv
  <1>4. CASE Start
    BY <1>1, <1>4, StartKeepsCoverage
  <1>5. CASE EvaluateUnderLease
    <2>1. DecisionWaited'
      BY <1>5, EvaluationWaits
    <2>2. UNCHANGED history
      BY <1>5 DEF EvaluateUnderLease, Database
    <2>3. AttemptsWaited'
      BY <2>2, AttemptsStillWaited DEF CoverageInv
    <2> QED BY <1>1, <2>1, <2>3 DEF CoverageInv
  <1>6. CASE \/ \E forced \in BOOLEAN : Begin(forced)
             \/ Skip \/ Abandon \/ Settle \/ UNCHANGED vars
    <2>1. /\ UNCHANGED clock
          /\ \/ UNCHANGED Database
             \/ DrainSpool
             \/ \E k : Measure(k) \/ Fail(k) \/ Lose(k) \/ Drain(k)
          /\ UNCHANGED sampler \/ sampler'.phase # "decided"
      <3>1. CASE \E forced \in BOOLEAN : Begin(forced)
        BY <3>1 DEF Begin, Idle
      <3>2. CASE Skip \/ Abandon
        BY <3>2 DEF Skip, Abandon, Idle
      <3>3. CASE Settle
        BY <3>3 DEF Settle, Measure, Fail, Lose, Drain
      <3>4. CASE UNCHANGED vars
        BY <3>4 DEF vars, Database
      <3> QED BY <1>6, <3>1, <3>2, <3>3, <3>4
    <2>2. AnswersLand
      BY <1>2, <2>1, SettlingLands
    <2> QED BY <1>1, <2>1, <2>2, LandingKeepsCoverage
  <1> QED BY <1>3, <1>4, <1>5, <1>6 DEF Next

\* What the attempts waited for is all that coverage may excuse by.
LEMMA WaitingIsHonest ==
    ASSUME ScheduleInv, CoverageInv, AuthThreshold + 29 <= StreakLimit
    PROVE  CoverageExcusesOnlyHolds
  <1> SUFFICES ASSUME NEW i \in DOMAIN history, NEW end \in CoverageHolds(i),
                      clock < end, CadenceOwes, ~Superseded(i)
               PROVE  FALSE
    BY DEF CoverageExcusesOnlyHolds, Excusing
  <1> DEFINE n == Len(history)
  <1>0. /\ HistoryInv /\ n \in Nat /\ DOMAIN history = 1..n /\ clock \in Nat
        /\ i \in 1..n /\ history \in Seq(Attempt)
        /\ \A a \in 1..n : /\ history[a].due \in Int /\ history[a].start \in Nat
                           /\ history[a].finish \in Nat
    BY HistoryShape DEF ScheduleInv
  <1>1. end \in Int
    BY <1>0, HoldsAreInstants
  <1>2. CASE i = n
    <2>1. history[i] = Newest(history) /\ history # <<>>
      BY <1>0, <1>2 DEF Newest
    <2>2. ~(Newest(history).outcome = "auth" /\ CredentialChanged(history, context))
      BY <1>2, <2>1 DEF Superseded
    <2> DEFINE at == EffectiveDueAt(Newest(history), AuthStreak(history),
                                    CredentialChanged(history, context))
    <2>3. at \in Int /\ end <= at
      BY <1>0, <1>2, <2>1, <2>2, CadenceWaitsForHolds DEF CoverageInv
    <2>4. clock >= at
      BY DEF CadenceOwes
    <2> HIDE DEF at
    <2> QED BY <1>0, <1>1, <2>3, <2>4
  <1>3. CASE i # n
    <2>1. i \in 1..(n - 1) /\ i + 1 \in 1..n
      BY <1>0, <1>3
    <2>2. /\ history[i + 1].reason = "OrdinaryCadence"
          /\ \A a \in 1..i : ~(history[a].finish >= history[i + 1].due)
          /\ ~(history[i].outcome = "auth" /\
               CredentialChanged(SubSeq(history, 1, i), history[i + 1].context))
      BY <1>3 DEF Superseded
    <2>3. \A a \in 1..i : history[a].finish < history[i + 1].due
      BY <1>0, <2>1, <2>2
    <2>4. end <= history[i + 1].due
      BY <2>1, <2>2, <2>3 DEF CoverageInv, AttemptsWaited, Waited
    <2>5. history[i + 1].due <= history[i + 1].start /\ history[i + 1].start <= clock
      BY <1>0, <2>1 DEF HistoryInv, AttemptsAreOrdered
    <2> QED BY <1>0, <1>1, <2>1, <2>4, <2>5
  <1> QED BY <1>2, <1>3

----------------------------------------------------------------------------
(* Theorems.                                                               *)

\* The invariant holds in every reachable state.
THEOREM ScheduleInvariant == Spec => []ScheduleInv
  BY ScheduleInitInv, ScheduleStep, PTL DEF Spec

\* The database and the deciding invocation keep their shape.
THEOREM ScheduleTypeCorrect == Spec => []ScheduleTypeOK
  <1>1. ScheduleInv => ScheduleTypeOK
    BY DEF ScheduleInv
  <1> QED BY <1>1, ScheduleInvariant, PTL

\* No opportunity is sampled twice, for every policy and reset calendar.
THEOREM SlotsAreSpentOnce == Spec => []SlotIsSpentOnce
  <1>1. ScheduleInv => SlotIsSpentOnce
    BY DEF ScheduleInv, HistoryInv
  <1> QED BY <1>1, ScheduleInvariant, PTL

\* Ordinary attempts never run ahead of the cadence grid, whatever is caught up
\* on after an outage.
THEOREM OrdinaryPaceIsBounded == Spec => []OrdinaryGridKeepsItsPace
  <1>1. ScheduleInv => OrdinaryGridKeepsItsPace
    BY DEF ScheduleInv, HistoryInv
  <1> QED BY <1>1, ScheduleInvariant, PTL

\* Over every history, the postponements of all attempts that coverage subtracts
\* hide no instant at which the cadence rule owes an attempt, unless a forced or a
\* reset's attempt, an overlapping request or a new credential superseded the hold,
\* for every policy whose backoff stops doubling within the rows the store counts.
\* A threshold above 35 is beyond that: coverage counts on.
THEOREM CoverageIsHonest ==
    ASSUME AuthThreshold + 29 <= StreakLimit
    PROVE  Spec => []CoverageExcusesOnlyHolds
  <1>1. Init => CoverageInv
    BY DEF Init, NoHistory, CoverageInv, RetryIsLimited, AttemptsWaited,
           DecisionWaited, Idle
  <1>2. ScheduleInv /\ ScheduleInv' /\ CoverageInv /\ [Next]_vars => CoverageInv'
    BY CoverageStep
  <1>3. ScheduleInv /\ CoverageInv => CoverageExcusesOnlyHolds
    BY WaitingIsHonest
  <1> QED BY <1>1, <1>2, <1>3, ScheduleInvariant, PTL DEF Spec

\* With any number of invocations racing, the lease protocol, the snapshots and
\* the history they leave satisfy the invariant.
THEOREM SamplerInvariant == SamplerSpec => []SamplerInv
  BY SamplerInitInv, SamplerStep, PTL DEF SamplerSpec

\* Database, lease and invocations keep their shape, and no two requests ever
\* answer for the same row.
THEOREM SamplerTypeCorrect == SamplerSpec => []SamplerTypeOK
  <1>1. SamplerInv => SamplerTypeOK
    BY DEF SamplerInv
  <1> QED BY <1>1, SamplerInvariant, PTL

\* Invocations that read the same evidence, race for the lease and decide from a
\* torn snapshot never spend one slot twice.
THEOREM RacesSpendSlotsOnce == SamplerSpec => []SlotIsSpentOnce
  <1>1. SamplerInv => SlotIsSpentOnce
    BY DEF SamplerInv, HistoryInv
  <1> QED BY <1>1, SamplerInvariant, PTL

\* Nor do they sample an account faster than its cadence.
THEOREM RacesKeepThePace == SamplerSpec => []OrdinaryGridKeepsItsPace
  <1>1. SamplerInv => OrdinaryGridKeepsItsPace
    BY DEF SamplerInv, HistoryInv
  <1> QED BY <1>1, SamplerInvariant, PTL

\* The row with the highest id is the attempt that started last, although the
\* instant is read before the transaction that assigns the id.
THEOREM StartsAreOrdered == SamplerSpec => []HistoryIsOrderedByStart
  <1>1. SamplerInv => HistoryIsOrderedByStart
    BY DEF SamplerInv
  <1> QED BY <1>1, SamplerInvariant, PTL

\* For any number of invocations, racing, dying and outliving their TTL, the
\* batch pipeline makes of the lease row only what acquire and release make of
\* it: what holds of SamplingLease holds of the sampler's lease.
THEOREM SamplerUsesTheLease == SamplerSpec => ImplementsLease
  <1>1. SamplerInit => Lease!LeaseInit
    <2> SUFFICES ASSUME SamplerInit
                 PROVE  Lease!LeaseInit
      OBVIOUS
    <2>1. clock = 0 /\ lease = NoRow /\ \A p \in Invocations : proc[p] = NoRun
      BY DEF SamplerInit, NoHistory
    <2>2. Row = [holder |-> NoOne, acquired_at |-> 0, expires_at |-> 0]
      BY <2>1 DEF Row, NoRow
    <2>3. \A p \in Invocations : /\ Call(p) = [account |-> "none", now |-> 0]
                                 /\ OwnGrant(p) = -1
      BY <2>1 DEF Call, OwnGrant, Phase, NoRun, Holding, Eligible
    <2> QED BY <2>1, <2>2, <2>3
            DEF Lease!LeaseInit, Lease!NoRow, Lease!NoCall, Lease!None
  <1> QED BY <1>1, StepsOfTheLease, SamplerInvariant, PTL
          DEF SamplerSpec, ImplementsLease, Lease!LeaseSpec

\* At most one invocation at a time is inside the TTL of a grant it has not given
\* back, from the grant over its request to its release: a request may outlive the
\* lease, and then it is not live any more, whoever took the account over.
THEOREM SamplersExcludeEachOther == SamplerSpec => []Lease!ExclusiveWhileLive
  <1>1. SamplerInit => LiveOwnTheirRows
    BY DEF SamplerInit, LiveOwnTheirRows, LiveOwnsTheRow, Phase, NoRun, Holding, Eligible
  <1>2. SamplerInv /\ LiveOwnTheirRows => Lease!ExclusiveWhileLive
    <2> SUFFICES ASSUME SamplerInv, LiveOwnTheirRows,
                        NEW g \in Invocations, NEW h \in Invocations, NEW a \in {Account},
                        Lease!LiveGrant(g, a), Lease!LiveGrant(h, a)
                 PROVE  g = h
      BY DEF Lease!ExclusiveWhileLive
    <2>1. \A p \in Invocations :
             Lease!LiveGrant(p, a) => Phase(p) \in Holding /\ clock < proc[p].expires_at
      BY RunShape DEF Lease!LiveGrant, Lease!None, OwnGrant
    <2> QED BY <2>1 DEF LiveOwnTheirRows, LiveOwnsTheRow
  <1> QED BY <1>1, <1>2, LiveRowsSurvive, SamplerInvariant, PTL DEF SamplerSpec

=============================================================================
