----------------------------- MODULE AlarmProofs ------------------------------
(***************************************************************************)
(* Proofs about the alarm, for any number of phases, any temperatures,     *)
(* faults, rates and configurations.                                       *)
(*                                                                         *)
(* That the events pair up asks nothing of the candidate: commit_candidate *)
(* alone keeps event_active equal to whether an alarm is shown, and that   *)
(* decides which event is reported. The other properties need the types,   *)
(* and those need that the candidate exists: that there is a hottest       *)
(* phase, a first fault of the highest priority and a first verdict of the *)
(* highest level. FirstMaximum is the common reason.                       *)
(***************************************************************************)
EXTENDS Alarm, FiniteSetTheorems, SequenceTheorems, WellFoundedInduction, TLAPS

(* What RAISED, UPDATED and RECOVERED are decided by                       *)
ActiveIffShown == event_active <=> IsAlarm(shown.level)

PairInv == ActiveIffShown /\ EventsPaired

(* Initially UNKNOWN is shown and nothing was heard.                       *)
LEMMA PairInit == Init => PairInv
  <1> SUFFICES ASSUME Init PROVE PairInv
    OBVIOUS
  <1>1. shown.level = UNKNOWN
    BY DEF Init, Quiet
  <1>2. ~IsAlarm(shown.level)
    BY <1>1 DEF IsAlarm
  <1>3. event_active = FALSE /\ heard = "CLOSED"
    BY DEF Init
  <1> QED BY <1>2, <1>3 DEF PairInv, ActiveIffShown, EventsPaired

(* Whatever the candidate, a commit reports what a listener can follow.    *)
LEMMA ListenerFollows ==
  ASSUME PairInv, NEW v
  PROVE  Listen(EventType(shown, v, event_active))
           = IF IsAlarm(v.level) THEN "OPEN" ELSE "CLOSED"
  <1>1. CASE IsAlarm(v.level) /\ IsAlarm(shown.level)
    <2>1. EventType(shown, v, event_active) = "UPDATED"
      BY <1>1 DEF EventType, PairInv, ActiveIffShown
    <2> QED BY <1>1, <2>1 DEF Listen, PairInv, EventsPaired
  <1>2. CASE IsAlarm(v.level) /\ ~IsAlarm(shown.level)
    <2>1. EventType(shown, v, event_active) = "RAISED"
      BY <1>2 DEF EventType
    <2> QED BY <1>2, <2>1 DEF Listen, PairInv, EventsPaired
  <1>3. CASE ~IsAlarm(v.level) /\ IsAlarm(shown.level)
    <2>1. EventType(shown, v, event_active) = "RECOVERED"
      BY <1>3 DEF EventType, PairInv, ActiveIffShown
    <2> QED BY <1>3, <2>1 DEF Listen, PairInv, EventsPaired
  <1>4. CASE ~IsAlarm(v.level) /\ ~IsAlarm(shown.level)
    <2>1. EventType(shown, v, event_active) = "NONE"
      BY <1>4 DEF EventType
    <2> QED BY <1>4, <2>1 DEF Listen, PairInv, EventsPaired
  <1> QED BY <1>1, <1>2, <1>3, <1>4

(* A snapshot commits its candidate or leaves the alarm as it is.          *)
LEMMA UpdateKeepsPair ==
  ASSUME PairInv, NEW s, NEW acked, NEW counted, NEW was_steady,
         Update(s, acked, counted, was_steady)
  PROVE  PairInv'
  <1>1. \/ \E v : /\ shown' = v /\ event_active' = IsAlarm(v.level)
                  /\ heard' = Listen(EventType(shown, v, event_active))
        \/ UNCHANGED <<shown, event_active, heard>>
    BY DEF Update
  <1>2. ASSUME NEW v, shown' = v, event_active' = IsAlarm(v.level),
               heard' = Listen(EventType(shown, v, event_active))
        PROVE  PairInv'
    BY <1>2, ListenerFollows DEF PairInv, ActiveIffShown, EventsPaired
  <1>3. CASE UNCHANGED <<shown, event_active, heard>>
    BY <1>3 DEF PairInv, ActiveIffShown, EventsPaired
  <1> QED BY <1>1, <1>2, <1>3

LEMMA PairStep == PairInv /\ [Next]_vars => PairInv'
  <1> SUFFICES ASSUME PairInv, [Next]_vars PROVE PairInv'
    OBVIOUS
  <1>1. CASE Round
    <2>1. \/ \E s \in Snapshot : \E acked, counted, was_steady :
               Update(s, acked, counted, was_steady)
          \/ UNCHANGED <<shown, event_active, heard>>
      BY <1>1 DEF Round
    <2>2. CASE UNCHANGED <<shown, event_active, heard>>
      BY <2>2 DEF PairInv, ActiveIffShown, EventsPaired
    <2> QED BY <2>1, <2>2, UpdateKeepsPair
  <1>2. CASE AckCommand
    BY <1>2 DEF AckCommand, PairInv, ActiveIffShown, EventsPaired
  <1>3. CASE ApplyConfig
    BY <1>3 DEF ApplyConfig, ghosts, PairInv, ActiveIffShown, EventsPaired
  <1>4. CASE UNCHANGED vars
    BY <1>4 DEF vars, ghosts, PairInv, ActiveIffShown, EventsPaired
  <1> QED BY <1>1, <1>2, <1>3, <1>4 DEF Next

(* RAISED, UPDATED ... and RECOVERED pair up in every behaviour, and an    *)
(* event is open exactly while an alarm is shown.                          *)
THEOREM EventsPairedCorrect == Spec => []EventsPaired
  <1>1. PairInv => EventsPaired
    BY DEF PairInv
  <1> QED BY PairInit, PairStep, <1>1, PTL DEF Spec
-----------------------------------------------------------------------------
(* A set of natural numbers has a least element.                           *)
LEMMA LeastNatural ==
  ASSUME NEW T \in SUBSET Nat, T # {}
  PROVE  \E x \in T : \A y \in T : x <= y
  <1> DEFINE Below == {ss \in Nat \X Nat : ss[1] < ss[2]}
  <1>1. IsWellFoundedOn(Below, Nat)
    BY NatLessThanWellFounded DEF OpToRel
  <1>2. \A x, y \in T : <<y, x>> \in Below <=> y < x
    OBVIOUS
  <1> HIDE DEF Below
  <1>3. PICK x \in T : \A y \in T : <<y, x>> \notin Below
    BY <1>1, WFMin
  <1>4. ASSUME NEW y \in T PROVE x <= y
    <2>1. x \in Nat /\ y \in Nat
      OBVIOUS
    <2>2. ~(y < x)
      BY <1>2, <1>3
    <2> QED BY <2>1, <2>2
  <1> QED BY <1>4

(* Of finitely many indices one has the highest value, and is the first    *)
(* that has it: the one that fewest others precede.                        *)
LEMMA FirstMaximum ==
  ASSUME NEW S \in SUBSET Nat, IsFiniteSet(S), S # {},
         NEW f, \A i \in S : f[i] \in Int
  PROVE  \E i \in S : \A j \in S : f[j] <= f[i] /\ (j < i => f[j] < f[i])
  <1> DEFINE Ahead(i) == {j \in S : f[j] > f[i] \/ (f[j] = f[i] /\ j < i)}
             Sizes == {Cardinality(Ahead(i)) : i \in S}
  <1>1. \A i \in S : IsFiniteSet(Ahead(i)) /\ Cardinality(Ahead(i)) \in Nat
    BY FS_Subset, FS_CardinalityType
  <1>2. PICK i \in S : \A j \in S : Cardinality(Ahead(i)) <= Cardinality(Ahead(j))
    <2>1. Sizes \in SUBSET Nat /\ Sizes # {}
      BY <1>1
    <2>2. PICK n \in Sizes : \A m \in Sizes : n <= m
      <3> HIDE DEF Sizes
      <3> QED BY <2>1, LeastNatural
    <2>3. PICK i \in S : n = Cardinality(Ahead(i))
      BY <2>2
    <2>4. \A j \in S : Cardinality(Ahead(j)) \in Sizes
      OBVIOUS
    <2> HIDE DEF Ahead, Sizes
    <2> QED BY <2>2, <2>3, <2>4
  <1>3. ASSUME NEW j \in Ahead(i) PROVE FALSE
    <2>1. j \in S /\ j \in Nat /\ i \in Nat /\ f[j] \in Int /\ f[i] \in Int
      BY <1>3
    <2>2. j \notin Ahead(j)
      BY <2>1
    <2>3. ASSUME NEW k \in Ahead(j) PROVE k \in Ahead(i)
      <3>1. k \in S /\ k \in Nat /\ f[k] \in Int
        OBVIOUS
      <3> QED BY <1>3, <2>1, <3>1
    <2>4. Cardinality(Ahead(j)) < Cardinality(Ahead(i))
      <3>1. Ahead(j) \in SUBSET Ahead(i) /\ Ahead(j) # Ahead(i)
        BY <1>3, <2>2, <2>3
      <3>2. /\ Cardinality(Ahead(j)) <= Cardinality(Ahead(i))
            /\ Cardinality(Ahead(j)) # Cardinality(Ahead(i))
        <4> HIDE DEF Ahead
        <4> QED BY <1>1, <3>1, FS_Subset
      <3> QED BY <1>1, <2>1, <3>2
    <2> QED BY <1>1, <1>2, <2>4
  <1>4. \A j \in S : f[j] <= f[i] /\ (j < i => f[j] < f[i])
    BY <1>3
  <1> QED BY <1>4

(* What the assumption on the constants gives, without its nesting         *)
LEMMA Constants ==
  /\ PhaseCount \in Nat /\ PhaseCount >= 2 /\ Phases \in SUBSET Nat
  /\ IsFiniteSet(Phases) /\ Phases # {}
  /\ \A s \in Snapshot : \A p \in Phases :
       /\ s.phase[p].value \in Int
       /\ s.phase[p].quality \in {"OK"} \cup Faults
  /\ \A s \in Snapshot : s.rise.phase \in Phases \cup {0}
  /\ \A q \in Faults : FaultPriority[q] \in Int
  /\ \A c \in Configs : /\ c.assert \in 1 .. MaxSamples
                        /\ c.clear \in 1 .. MaxSamples
  /\ MaxSamples \in Nat
  <1> USE AlarmAssumption
  <1>1. PhaseCount \in Nat /\ PhaseCount >= 2 /\ Phases \in SUBSET Nat /\ Phases # {}
    BY DEF Phases
  <1>2. IsFiniteSet(Phases)
    BY <1>1, FS_Interval DEF Phases
  <1>3. \A s \in Snapshot : \A p \in Phases : s.phase[p] \in Reading
    BY DEF Snapshot
  <1>4. ASSUME NEW r \in Reading PROVE r.value \in Int /\ r.quality \in {"OK"} \cup Faults
    <2>1. CASE r \in [quality : {"OK"}, value : Temperatures]
      BY <2>1
    <2>2. CASE r \in [quality : Faults, value : {0}]
      BY <2>2
    <2> QED BY <2>1, <2>2 DEF Reading
  <1>5. \A s \in Snapshot : s.rise.phase \in Phases \cup {0}
    BY DEF Snapshot
  <1>6. \A q \in Faults : FaultPriority[q] \in Int
    BY DEF FaultPriority
  <1>7. \A c \in Configs : c.assert \in 1 .. MaxSamples /\ c.clear \in 1 .. MaxSamples
    BY DEF Config
  <1> QED BY <1>1, <1>2, <1>3, <1>4, <1>5, <1>6, <1>7

(* The hottest phase is one of the phases.                                 *)
LEMMA HottestPhaseExists ==
  ASSUME NEW s \in Snapshot
  PROVE  HottestPhase(s) \in Phases
  <1> DEFINE f == [p \in Phases |-> s.phase[p].value]
  <1>1. \A p \in Phases : f[p] \in Int /\ f[p] = s.phase[p].value
    BY Constants
  <1>2. PICK i \in Phases : \A j \in Phases : f[j] <= f[i] /\ (j < i => f[j] < f[i])
    <2> HIDE DEF f
    <2> QED BY <1>1, Constants, FirstMaximum
  <1>3. Values(s) = {f[p] : p \in Phases}
    BY <1>1 DEF Values
  <1> HIDE DEF f
  <1>4. Hottest(s) \in Values(s) /\ \A u \in Values(s) : u <= Hottest(s)
    BY <1>2, <1>3 DEF Hottest
  <1>5. Hottest(s) = f[i]
    BY <1>1, <1>2, <1>3, <1>4
  <1>6. \A q \in Phases : s.phase[q].value = Hottest(s) => i <= q
    BY <1>1, <1>2, <1>5, Constants
  <1> QED BY <1>1, <1>5, <1>6 DEF HottestPhase

(* A verdict on a metric, without a fault                                   *)
MetricVerdict ==
  [level : NORMAL .. CRITICAL, reason : Metric, phase : Phases \cup {0}]

(* What is considered is a list of metric verdicts, and not empty.         *)
LEMMA ConsideredTyped ==
  ASSUME NEW s \in Snapshot, NEW c, NEW slack
  PROVE  /\ Considered(s, c, slack) \in Seq(MetricVerdict)
         /\ Len(Considered(s, c, slack)) = PhaseCount + 2
  <1> DEFINE temperatures ==
               [p \in Phases |->
                 [level |-> LevelOf(s.phase[p].value,
                                    c.threshold["PHASE_TEMPERATURE_HIGH"], slack),
                  reason |-> "PHASE_TEMPERATURE_HIGH", phase |-> p]]
             delta ==
               [level |-> LevelOf(Hottest(s) - Coldest(s),
                                  c.threshold["PHASE_DELTA_HIGH"], slack),
                reason |-> "PHASE_DELTA_HIGH", phase |-> HottestPhase(s)]
             rise ==
               [level |-> LevelOf(s.rise.rate, c.threshold["RISE_RATE_HIGH"], slack),
                reason |-> "RISE_RATE_HIGH", phase |-> s.rise.phase]
  <1>1. \A value, thresholds : LevelOf(value, thresholds, slack) \in NORMAL .. CRITICAL
    BY DEF LevelOf, NORMAL, NOTICE, WARNING, CRITICAL
  <1>2. temperatures \in Seq(MetricVerdict) /\ Len(temperatures) = PhaseCount
    <2>1. temperatures \in [1 .. PhaseCount -> MetricVerdict]
      BY <1>1 DEF MetricVerdict, Metric, Phases
    <2> HIDE DEF temperatures
    <2> QED BY <2>1, Constants
  <1>3. delta \in MetricVerdict
    BY <1>1, HottestPhaseExists DEF MetricVerdict, Metric
  <1>4. rise \in MetricVerdict
    BY <1>1, Constants DEF MetricVerdict, Metric
  <1>5. Considered(s, c, slack) = temperatures \o <<delta, rise>>
    BY DEF Considered
  <1> HIDE DEF temperatures, delta, rise
  <1>6. <<delta, rise>> \in Seq(MetricVerdict) /\ Len(<<delta, rise>>) = 2
    BY <1>3, <1>4
  <1>7. /\ temperatures \o <<delta, rise>> \in Seq(MetricVerdict)
        /\ Len(temperatures \o <<delta, rise>>) = Len(temperatures) + Len(<<delta, rise>>)
    BY <1>2, <1>6, ConcatProperties
  <1> QED BY <1>2, <1>5, <1>6, <1>7

(* The highest of them is one of them.                                     *)
LEMMA FirstHighestTyped ==
  ASSUME NEW s \in Snapshot, NEW c, NEW slack
  PROVE  FirstHighest(Considered(s, c, slack)) \in MetricVerdict
  <1> DEFINE list == Considered(s, c, slack)
             f == [i \in DOMAIN list |-> list[i].level]
  <1>1. list \in Seq(MetricVerdict) /\ Len(list) = PhaseCount + 2
    BY ConsideredTyped
  <1> HIDE DEF list
  <1>2. DOMAIN list = 1 .. PhaseCount + 2 /\ list \in [1 .. PhaseCount + 2 -> MetricVerdict]
    BY <1>1, LenProperties
  <1>3. 1 .. PhaseCount + 2 \in SUBSET Nat /\ 1 \in 1 .. PhaseCount + 2
    BY Constants
  <1>4. /\ DOMAIN list \in SUBSET Nat
        /\ \A i \in DOMAIN list : list[i] \in MetricVerdict
        /\ DOMAIN list # {}
    BY <1>2, <1>3
  <1>5. IsFiniteSet(DOMAIN list)
    <2>1. 1 \in Int /\ PhaseCount + 2 \in Int
      BY Constants
    <2>2. IsFiniteSet(1 .. PhaseCount + 2)
      BY <2>1, FS_Interval
    <2> QED BY <1>2, <2>2
  <1>6. \A i \in DOMAIN list : f[i] \in Int /\ f[i] = list[i].level
    BY <1>4 DEF MetricVerdict, NORMAL, CRITICAL
  <1> HIDE DEF f
  <1>7. \E i \in DOMAIN list : \A j \in DOMAIN list : f[j] <= f[i] /\ (j < i => f[j] < f[i])
    BY <1>4, <1>5, <1>6, FirstMaximum
  <1>8. \E i \in DOMAIN list : \A j \in DOMAIN list :
          list[j].level <= list[i].level /\ (j < i => list[j].level < list[i].level)
    BY <1>6, <1>7
  <1>9. FirstHighest(list) \in {list[i] : i \in DOMAIN list}
    BY <1>8 DEF FirstHighest
  <1> QED BY <1>4, <1>9 DEF list

(* A fault is reported of a phase that has it.                             *)
LEMMA FaultVerdictTyped ==
  ASSUME NEW s \in Snapshot, FaultyPhases(s) # {}
  PROVE  FaultVerdict(s) \in [level : {SENSOR_FAULT}, reason : Faults, phase : Phases]
  <1> DEFINE S == FaultyPhases(s)
             f == [p \in S |-> FaultPriority[s.phase[p].quality]]
  <1>1. S \in SUBSET Nat /\ S \subseteq Phases /\ IsFiniteSet(S) /\ S # {}
    BY Constants, FS_Subset DEF FaultyPhases
  <1>2. \A p \in S : s.phase[p].quality \in Faults
    BY Constants DEF FaultyPhases
  <1>3. \A p \in S : f[p] \in Int /\ f[p] = FaultPriority[s.phase[p].quality]
    BY <1>2, Constants
  <1> HIDE DEF S, f
  <1>4. PICK i \in S : \A j \in S : f[j] <= f[i] /\ (j < i => f[j] < f[i])
    BY <1>1, <1>3, FirstMaximum
  <1>5. \A q \in S \ {i} : f[i] > f[q] \/ (f[i] = f[q] /\ i < q)
    <2> SUFFICES ASSUME NEW q \in S, q # i PROVE f[i] > f[q] \/ (f[i] = f[q] /\ i < q)
      OBVIOUS
    <2> QED BY <1>1, <1>3, <1>4
  <1>6. \E p \in S : \A q \in S \ {p} :
          \/ FaultPriority[s.phase[p].quality] > FaultPriority[s.phase[q].quality]
          \/ /\ FaultPriority[s.phase[p].quality] = FaultPriority[s.phase[q].quality]
             /\ p < q
    BY <1>3, <1>5
  <1> DEFINE first == CHOOSE p \in S : \A q \in S \ {p} :
          \/ FaultPriority[s.phase[p].quality] > FaultPriority[s.phase[q].quality]
          \/ /\ FaultPriority[s.phase[p].quality] = FaultPriority[s.phase[q].quality]
             /\ p < q
  <1>7. first \in S
    BY <1>6
  <1>8. FaultVerdict(s) = [level |-> SENSOR_FAULT, reason |-> s.phase[first].quality,
                           phase |-> first]
    BY DEF FaultVerdict, S
  <1> HIDE DEF first
  <1> QED BY <1>1, <1>2, <1>7, <1>8

(* The candidate is a verdict, and never UNKNOWN.                          *)
LEMMA CandidateTyped ==
  ASSUME NEW s \in Snapshot, NEW c
  PROVE  ComputeCandidate(s, c) \in Verdict /\ ComputeCandidate(s, c).level # UNKNOWN
  <1> USE DEF NORMAL, NOTICE, WARNING, CRITICAL, SENSOR_FAULT, UNKNOWN
  <1>1. CASE FaultyPhases(s) # {}
    BY <1>1, FaultVerdictTyped DEF ComputeCandidate, Verdict, Level, Reason
  <1>2. CASE FaultyPhases(s) = {}
    <2>1. FirstHighest(Considered(s, c, 0)) \in MetricVerdict
      BY FirstHighestTyped
    <2> QED BY <1>2, <2>1 DEF ComputeCandidate, Verdict, Level, Reason, MetricVerdict, Quiet
  <1> QED BY <1>1, <1>2

(* The hysteresis keeps the present alarm or takes the candidate.          *)
LEMMA HysteresisTyped ==
  ASSUME NEW s \in Snapshot, NEW c, NEW current \in Verdict, NEW v \in Verdict,
         v.level # UNKNOWN
  PROVE  ApplyHysteresis(current, v, s, c) \in Verdict
         /\ ApplyHysteresis(current, v, s, c).level # UNKNOWN
  BY DEF ApplyHysteresis, IsMetricAlarm, NOTICE, CRITICAL, UNKNOWN

(* A verdict stays pending as long as it is not shown, and its count is    *)
(* what the history counts; a count that reaches both limits is shown.     *)
Counting(now, p, last) ==
  now # last.verdict =>
    last.count <= IF p.verdict = last.verdict THEN p.count ELSE 0

SettleInv ==
  /\ Counting(shown, pending, steady)
  /\ shown # steady.verdict => pending.count < config.assert \/ pending.count < config.clear

(* The ACK that is on its way is about what is shown.                      *)
AckInv == AckCoversAlarm /\ (ack_requested => seen = shown)

AInv == TypeOK /\ AckInv /\ SettleInv

(* Initially nothing is counted and UNKNOWN is shown.                      *)
LEMMA AlarmInit == Init => AInv
  <1> SUFFICES ASSUME Init PROVE AInv
    OBVIOUS
  <1>1. Quiet(UNKNOWN) \in Verdict
    BY DEF Quiet, Verdict, Level, Reason, NORMAL, UNKNOWN
  <1>2. MaxSamples \in Nat /\ \A c \in Configs : c.assert \in 1 .. MaxSamples
    BY Constants
  <1>3. MaxSamples > 0
    BY <1>2 DEF Init
  <1>4. NoPending \in Counted /\ NoPending.count = 0
    BY <1>1, <1>2 DEF NoPending, Counted
  <1>5. TypeOK
    <2>1. wanted \in Configs /\ config \in Configs
      BY DEF Init
    <2>2. pending \in Counted /\ pending.count < MaxSamples /\ steady \in Counted
      BY <1>2, <1>3, <1>4 DEF Init
    <2>3. shown \in Verdict /\ seen \in Verdict
      BY <1>1 DEF Init
    <2>4. event_active = FALSE /\ acknowledged = FALSE /\ ack_requested = FALSE /\ heard = "CLOSED"
      BY DEF Init
    <2>5. over \in 0 .. MaxSamples /\ under \in 0 .. MaxSamples /\ below \in 0 .. under
      BY <1>2 DEF Init
    <2> QED BY <2>1, <2>2, <2>3, <2>4, <2>5 DEF TypeOK
  <1>6. AckInv /\ SettleInv
    BY DEF Init, AckInv, AckCoversAlarm, SettleInv, Counting, NoPending
  <1> QED BY <1>5, <1>6 DEF AInv

(* What a snapshot leaves behind, given the candidate v it leads to        *)
LEMMA UpdateSettles ==
  ASSUME TypeOK, NEW counted \in Counted, NEW last \in Counted,
         Counting(shown, counted, last), counted.count < MaxSamples,
         NEW v \in Verdict,
         NEW now, now = CountCandidate(counted, v),
         NEW commits \in BOOLEAN,
         commits <=> /\ v # shown
                     /\ AtOnce(shown, v) \/ now.count >= Needed(shown, v, wanted),
         shown' = IF commits THEN v ELSE shown,
         pending' = IF v = shown \/ AtOnce(shown, v) THEN [counted EXCEPT !.count = 0]
                    ELSE IF commits THEN [now EXCEPT !.count = 0] ELSE now,
         steady' = [verdict |-> v, count |-> IF last.verdict = v
                                             THEN CappedAt(last.count + 1) ELSE 1],
         config' = wanted
  PROVE  /\ SettleInv'
         /\ pending' \in Counted /\ pending'.count < MaxSamples
         /\ steady' \in Counted
  <1>1. /\ wanted.assert \in 1 .. MaxSamples /\ wanted.clear \in 1 .. MaxSamples
        /\ MaxSamples \in Nat
    BY Constants DEF TypeOK
  <1>2. Needed(shown, v, wanted) \in {wanted.assert, wanted.clear}
    BY DEF Needed
  <1>3. counted.count \in Nat /\ last.count \in 0 .. MaxSamples /\ counted.verdict \in Verdict
        /\ last.verdict \in Verdict
    BY <1>1 DEF Counted
  <1>4. now = [verdict |-> v, count |-> IF counted.verdict = v THEN counted.count + 1 ELSE 1]
    BY DEF CountCandidate
  <1>5. now.verdict = v /\ now.count \in Nat /\ now.count >= 1
    BY <1>3, <1>4
  <1>6. steady' \in Counted
    BY <1>1, <1>3 DEF Counted, CappedAt
  <1>7. CASE v = shown
    <2>1. shown' = v /\ steady'.verdict = v /\ pending' = [counted EXCEPT !.count = 0]
      BY <1>7
    <2>2. pending' \in Counted /\ pending'.count = 0
      BY <1>1, <1>3, <2>1 DEF Counted
    <2> QED BY <1>1, <1>6, <2>1, <2>2 DEF SettleInv, Counting
  <1>8. CASE v # shown /\ commits
    <2>1. shown' = v /\ steady'.verdict = v
      BY <1>8
    <2>2. pending' = [counted EXCEPT !.count = 0] \/ pending' = [now EXCEPT !.count = 0]
      BY <1>8
    <2>3. pending' \in Counted /\ pending'.count = 0
      BY <1>1, <1>3, <1>4, <2>2 DEF Counted
    <2> QED BY <1>1, <1>6, <2>1, <2>3 DEF SettleInv, Counting
  <1>9. CASE v # shown /\ ~commits
    <2>1. shown' = shown /\ pending' = now /\ ~(now.count >= Needed(shown, v, wanted))
      BY <1>9
    <2>2. now.count < wanted.assert \/ now.count < wanted.clear
      BY <1>1, <1>2, <1>5, <2>1
    <2>3. now \in Counted /\ now.count < MaxSamples
      BY <1>1, <1>4, <1>5, <2>2 DEF Counted
    <2>4. steady'.verdict = v /\ steady'.count <= now.count
      BY <1>1, <1>3, <1>4, <1>9 DEF Counting, CappedAt
    <2>5. Counting(shown, pending, steady)'
      BY <1>5, <2>1, <2>4 DEF Counting
    <2> QED BY <1>6, <2>1, <2>2, <2>3, <2>5 DEF SettleInv
  <1> QED BY <1>7, <1>8, <1>9

(* A snapshot keeps the invariant, whatever the ACK and the configuration  *)
(* have left.                                                              *)
LEMMA UpdateKeeps ==
  ASSUME TypeOK, NEW s \in Snapshot, NEW acked \in BOOLEAN,
         NEW counted \in Counted, NEW last \in Counted,
         Counting(shown, counted, last), counted.count < MaxSamples,
         acked => /\ shown.level <= seen.level
                  /\ shown.reason = seen.reason /\ shown.phase = seen.phase,
         Update(s, acked, counted, last),
         config' = wanted, wanted' = wanted, ack_requested' = FALSE,
         seen' = IF acknowledged' THEN seen ELSE Quiet(UNKNOWN)
  PROVE  AInv'
  <1> DEFINE v == ApplyHysteresis(shown, ComputeCandidate(s, wanted), s, wanted)
             now == CountCandidate(counted, v)
             commits == /\ v # shown
                        /\ AtOnce(shown, v) \/ now.count >= Needed(shown, v, wanted)
  <1>1. v \in Verdict /\ ComputeCandidate(s, wanted) \in Verdict
    BY CandidateTyped, HysteresisTyped DEF TypeOK
  <1>2. /\ shown' = IF commits THEN v ELSE shown
        /\ event_active' = IF commits THEN IsAlarm(v.level) ELSE event_active
        /\ acknowledged' = IF commits THEN acked /\ AckStays(shown, v, event_active)
                                      ELSE acked
        /\ heard' = IF commits THEN Listen(EventType(shown, v, event_active)) ELSE heard
        /\ pending' = IF v = shown \/ AtOnce(shown, v) THEN [counted EXCEPT !.count = 0]
                      ELSE IF commits THEN [now EXCEPT !.count = 0] ELSE now
        /\ Observe(s, wanted, ComputeCandidate(s, wanted), v, last)
    BY DEF Update
  <1>3. steady' = [verdict |-> v, count |-> IF last.verdict = v
                                            THEN CappedAt(last.count + 1) ELSE 1]
    BY <1>2 DEF Observe
  <1>4. over' \in 0 .. MaxSamples /\ under' \in 0 .. MaxSamples /\ below' \in 0 .. under'
    BY <1>2, Constants DEF Observe, RunOf, CappedAt, TypeOK
  <1> HIDE DEF v
  <1>5. commits \in BOOLEAN
    OBVIOUS
  <1> HIDE DEF now
  <1>6. now = CountCandidate(counted, v)
    BY DEF now
  <1>7. SettleInv' /\ pending' \in Counted /\ pending'.count < MaxSamples /\ steady' \in Counted
    <2>1. commits <=> /\ v # shown
                      /\ AtOnce(shown, v) \/ now.count >= Needed(shown, v, wanted)
      OBVIOUS
    <2> HIDE DEF commits
    <2> QED BY <1>1, <1>2, <1>3, <1>5, <1>6, <2>1, UpdateSettles
  <1> HIDE DEF commits
  <1>8. acknowledged' => /\ shown'.level <= seen.level
                         /\ shown'.reason = seen.reason /\ shown'.phase = seen.phase
    <2>1. shown.level \in Int /\ v.level \in Int /\ seen.level \in Int
      BY <1>1 DEF TypeOK, Verdict, Level, NORMAL, UNKNOWN
    <2>2. CASE commits
      <3> SUFFICES ASSUME acknowledged'
                   PROVE  /\ shown'.level <= seen.level
                          /\ shown'.reason = seen.reason /\ shown'.phase = seen.phase
        OBVIOUS
      <3>1. shown' = v /\ acked /\ AckStays(shown, v, event_active)
        BY <1>2, <2>2
      <3>2. v.level <= shown.level /\ v.reason = shown.reason /\ v.phase = shown.phase
        BY <3>1 DEF AckStays
      <3> QED BY <2>1, <3>1, <3>2
    <2>3. CASE ~commits
      BY <1>2, <2>3
    <2> QED BY <1>5, <2>2, <2>3
  <1>9. AckInv'
    BY <1>8 DEF AckInv, AckCoversAlarm
  <1>10. shown' \in Verdict /\ event_active' \in BOOLEAN /\ acknowledged' \in BOOLEAN
    BY <1>1, <1>2 DEF TypeOK, IsAlarm, AckStays
  <1>11. heard' \in {"CLOSED", "OPEN", "BROKEN"}
    BY <1>2 DEF TypeOK, Listen, EventType
  <1>12. seen' \in Verdict
    BY DEF TypeOK, Quiet, Verdict, Level, Reason, NORMAL, UNKNOWN
  <1>13. TypeOK'
    BY <1>4, <1>7, <1>10, <1>11, <1>12 DEF TypeOK
  <1> QED BY <1>7, <1>9, <1>13 DEF AInv

(* Rounds, commands and new configurations keep the invariant.             *)
LEMMA AlarmStep == AInv /\ [Next]_vars => AInv'
  <1> SUFFICES ASSUME AInv, [Next]_vars PROVE AInv'
    OBVIOUS
  <1> USE DEF AInv
  <1>1. CASE Round
    <2> DEFINE acked == acknowledged \/ (ack_requested /\ IsAlarm(shown.level))
               counted == IF config = wanted THEN pending ELSE NoPending
               last == IF config = wanted THEN steady ELSE NoPending
    <2>1. /\ config' = wanted /\ wanted' = wanted /\ ack_requested' = FALSE
          /\ seen' = IF acknowledged' THEN seen ELSE Quiet(UNKNOWN)
      BY <1>1 DEF Round
    <2>2. acked \in BOOLEAN
      BY DEF TypeOK
    <2>3. acked => /\ shown.level <= seen.level
                   /\ shown.reason = seen.reason /\ shown.phase = seen.phase
      BY DEF AckInv, AckCoversAlarm, TypeOK, Verdict, Level, NORMAL, UNKNOWN
    <2>4. NoPending \in Counted /\ NoPending.count = 0
      BY Constants DEF NoPending, Counted, Quiet, Verdict, Level, Reason, NORMAL, UNKNOWN
    <2>5. wanted.assert \in 1 .. MaxSamples /\ wanted.clear \in 1 .. MaxSamples
          /\ MaxSamples \in Nat
      BY Constants DEF TypeOK
    <2>6. /\ counted \in Counted /\ last \in Counted /\ counted.count < MaxSamples
          /\ Counting(shown, counted, last)
          /\ shown # last.verdict => counted.count < wanted.assert \/ counted.count < wanted.clear
      <3>1. CASE config = wanted
        BY <3>1 DEF TypeOK, SettleInv
      <3>2. CASE config # wanted
        BY <2>4, <2>5, <3>2 DEF Counting
      <3> QED BY <3>1, <3>2
    <2>7. \/ \E s \in Snapshot : Update(s, acked, counted, last)
          \/ /\ acknowledged' = acked /\ pending' = counted /\ steady' = last
             /\ UNCHANGED <<shown, event_active, over, under, below, heard>>
      BY <1>1 DEF Round
    <2> HIDE DEF acked, counted, last
    <2>8. ASSUME NEW s \in Snapshot, Update(s, acked, counted, last) PROVE AInv'
      <3> HIDE DEF AInv
      <3>1. TypeOK
        BY DEF AInv
      <3> QED BY <2>1, <2>2, <2>3, <2>6, <2>8, <3>1, UpdateKeeps
    <2>9. CASE /\ acknowledged' = acked /\ pending' = counted /\ steady' = last
               /\ UNCHANGED <<shown, event_active, over, under, below, heard>>
      <3>1. SettleInv'
        BY <2>1, <2>6, <2>9 DEF SettleInv, Counting
      <3>2. AckInv'
        BY <2>1, <2>2, <2>3, <2>9 DEF AckInv, AckCoversAlarm
      <3>3. seen' \in Verdict
        BY <2>1 DEF TypeOK, Quiet, Verdict, Level, Reason, NORMAL, UNKNOWN
      <3>4. TypeOK'
        BY <2>1, <2>2, <2>6, <2>9, <3>3 DEF TypeOK
      <3> QED BY <3>1, <3>2, <3>4
    <2> QED BY <2>7, <2>8, <2>9
  <1>2. CASE AckCommand
    <2>1. TypeOK'
      BY <1>2 DEF AckCommand, TypeOK
    <2>2. AckInv'
      BY <1>2 DEF AckCommand, AckInv, AckCoversAlarm, TypeOK, Verdict, Level, NORMAL, UNKNOWN
    <2>3. SettleInv'
      BY <1>2 DEF AckCommand, SettleInv, Counting
    <2> QED BY <2>1, <2>2, <2>3
  <1>3. CASE ApplyConfig
    <2>1. TypeOK'
      BY <1>3 DEF ApplyConfig, ghosts, TypeOK
    <2>2. AckInv' /\ SettleInv'
      BY <1>3 DEF ApplyConfig, ghosts, AckInv, AckCoversAlarm, SettleInv, Counting
    <2> QED BY <2>1, <2>2
  <1>4. CASE UNCHANGED vars
    BY <1>4 DEF vars, ghosts, TypeOK, AckInv, AckCoversAlarm, SettleInv, Counting
  <1> QED BY <1>1, <1>2, <1>3, <1>4 DEF Next

(* The variables keep their types; the candidate is always a verdict.      *)
THEOREM TypeCorrect == Spec => []TypeOK
  <1>1. AInv => TypeOK
    BY DEF AInv
  <1> QED BY AlarmInit, AlarmStep, <1>1, PTL DEF Spec

(* An acknowledged alarm is never worse than, or another than, the one     *)
(* that was shown when the ACK arrived.                                    *)
THEOREM AckCoversCorrect == Spec => []AckCoversAlarm
  <1>1. AInv => AckCoversAlarm
    BY DEF AInv, AckInv
  <1> QED BY AlarmInit, AlarmStep, <1>1, PTL DEF Spec

(* A verdict that stays is shown once its count is complete.               *)
THEOREM SettlesCorrect == Spec => []Settles
  <1>1. AInv => Settles
    <2> SUFFICES ASSUME AInv, steady.count >= config.assert, steady.count >= config.clear,
                        shown # steady.verdict
                 PROVE FALSE
      BY DEF Settles
    <2>1. /\ config.assert \in Nat /\ config.clear \in Nat /\ config.assert > 0
          /\ pending.count \in Nat /\ steady.count \in Nat
      BY Constants DEF AInv, TypeOK, Counted
    <2>2. steady.count <= pending.count \/ steady.count <= 0
      BY DEF AInv, SettleInv, Counting
    <2>3. pending.count < config.assert \/ pending.count < config.clear
      BY DEF AInv, SettleInv
    <2> QED BY <2>1, <2>2, <2>3
  <1> QED BY AlarmInit, AlarmStep, <1>1, PTL DEF Spec

(* Every sample that was counted for an alarm was over a limit, every one  *)
(* counted for NORMAL was under all of them.                               *)
Runs(p) ==
  /\ IsAlarm(p.verdict.level) => p.count <= over
  /\ ~IsAlarm(p.verdict.level) => p.count <= under

(* What ChangesConfirmed says of one step                                  *)
Confirmed ==
  /\ ~IsAlarm(shown.level) /\ IsMetricAlarm(shown'.level) => over' >= config'.assert
  /\ IsAlarm(shown.level) /\ ~IsAlarm(shown'.level) => under' >= config'.clear

(* The hysteresis turns an alarm into an alarm only.                       *)
LEMMA HysteresisKeepsAlarm ==
  ASSUME NEW s \in Snapshot
  PROVE  LET raw == ComputeCandidate(s, wanted)
             v == ApplyHysteresis(shown, raw, s, wanted)
         IN  /\ IsAlarm(v.level) => IsAlarm(raw.level)
             /\ ~IsAlarm(v.level) => raw.level = NORMAL /\ v.level = NORMAL
  <1> DEFINE raw == ComputeCandidate(s, wanted)
             v == ApplyHysteresis(shown, raw, s, wanted)
  <1>1. raw.level \in Level /\ raw.level # UNKNOWN
    BY CandidateTyped DEF Verdict
  <1> HIDE DEF raw
  <1>2. v = raw \/ (v = shown /\ IsMetricAlarm(shown.level) /\ IsMetricAlarm(raw.level))
    BY DEF ApplyHysteresis
  <1> HIDE DEF v
  <1>3. /\ IsAlarm(v.level) => IsAlarm(raw.level)
        /\ ~IsAlarm(v.level) => raw.level = NORMAL /\ v.level = NORMAL
    BY <1>1, <1>2 DEF IsAlarm, IsMetricAlarm, Level, NORMAL, NOTICE, CRITICAL, UNKNOWN
  <1> QED BY <1>3 DEF raw, v

(* A snapshot that changes what is shown has its count of samples behind   *)
(* it.                                                                     *)
LEMMA UpdateConfirms ==
  ASSUME TypeOK, NEW s \in Snapshot, NEW acked,
         NEW counted \in Counted, NEW last,
         Runs(counted), counted.count < MaxSamples,
         Update(s, acked, counted, last), config' = wanted
  PROVE  Runs(pending)' /\ Confirmed
  <1> DEFINE raw == ComputeCandidate(s, wanted)
             v == ApplyHysteresis(shown, raw, s, wanted)
             now == CountCandidate(counted, v)
             commits == /\ v # shown
                        /\ AtOnce(shown, v) \/ now.count >= Needed(shown, v, wanted)
  <1>1. /\ shown' = IF commits THEN v ELSE shown
        /\ pending' = IF v = shown \/ AtOnce(shown, v) THEN [counted EXCEPT !.count = 0]
                      ELSE IF commits THEN [now EXCEPT !.count = 0] ELSE now
        /\ Observe(s, wanted, raw, v, last)
    BY DEF Update
  <1>2. over' = RunOf(over, IsAlarm(raw.level)) /\ under' = RunOf(under, raw.level = NORMAL)
    BY <1>1 DEF Observe
  <1>3. /\ IsAlarm(v.level) => IsAlarm(raw.level)
        /\ ~IsAlarm(v.level) => raw.level = NORMAL /\ v.level = NORMAL
    BY HysteresisKeepsAlarm
  <1>4. v \in Verdict
    BY CandidateTyped, HysteresisTyped DEF TypeOK
  <1> HIDE DEF raw, v
  <1>5. /\ over \in Nat /\ under \in Nat /\ MaxSamples \in Nat /\ MaxSamples >= 1
        /\ counted.count \in Nat /\ counted.verdict \in Verdict
        /\ wanted.assert \in Nat /\ wanted.clear \in Nat
        /\ shown.level \in Level /\ v.level \in Level
    BY <1>4, Constants DEF TypeOK, Counted, Verdict
  <1>6. now = [verdict |-> v, count |-> IF counted.verdict = v THEN counted.count + 1 ELSE 1]
    BY DEF CountCandidate
  <1> HIDE DEF now
  <1>7. now.verdict = v /\ now.count \in Nat
    BY <1>5, <1>6
  <1>8. /\ IsAlarm(v.level) => now.count <= over'
        /\ ~IsAlarm(v.level) => now.count <= under'
    BY <1>2, <1>3, <1>5, <1>6 DEF Runs, RunOf, CappedAt
  <1>9. Runs(pending)'
    <2>1. over' \in Nat /\ under' \in Nat
      BY <1>2, <1>5 DEF RunOf, CappedAt
    <2>2. pending' = now \/ pending'.count = 0
      BY <1>1, <1>5, <1>6 DEF Counted
    <2>3. CASE pending' = now
      BY <1>7, <1>8, <2>3 DEF Runs
    <2>4. CASE pending'.count = 0
      BY <2>1, <2>4 DEF Runs
    <2> QED BY <2>2, <2>3, <2>4
  <1>10. ASSUME ~IsAlarm(shown.level), IsMetricAlarm(shown'.level)
         PROVE  over' >= config'.assert
    <2> USE DEF IsAlarm, IsMetricAlarm, Level, NORMAL, NOTICE, WARNING, CRITICAL,
                SENSOR_FAULT, UNKNOWN
    <2>1. shown' = v /\ commits
      BY <1>1, <1>5, <1>10
    <2>2. ~AtOnce(shown, v) /\ MovingUp(shown, v) /\ IsAlarm(v.level)
      BY <1>5, <1>10, <2>1 DEF AtOnce, MovingUp
    <2>3. now.count >= wanted.assert
      BY <2>1, <2>2 DEF Needed
    <2> QED BY <1>2, <1>5, <1>7, <1>8, <2>2, <2>3 DEF RunOf, CappedAt
  <1>11. ASSUME IsAlarm(shown.level), ~IsAlarm(shown'.level)
         PROVE  under' >= config'.clear
    <2> USE DEF IsAlarm, Level, NORMAL, NOTICE, WARNING, CRITICAL, SENSOR_FAULT, UNKNOWN
    <2>1. shown' = v /\ commits
      BY <1>1, <1>11
    <2>2. ~AtOnce(shown, v) /\ ~MovingUp(shown, v) /\ ~IsAlarm(v.level)
      BY <1>3, <1>5, <1>11, <2>1 DEF AtOnce, MovingUp
    <2>3. now.count >= wanted.clear
      BY <2>1, <2>2 DEF Needed
    <2> QED BY <1>2, <1>5, <1>7, <1>8, <2>2, <2>3 DEF RunOf, CappedAt
  <1> QED BY <1>9, <1>10, <1>11 DEF Confirmed

(* Every step keeps the counts covered, and changes what is shown only     *)
(* with its count.                                                         *)
LEMMA RunsStep == AInv /\ Runs(pending) /\ [Next]_vars => Runs(pending)' /\ [Confirmed]_vars
  <1> SUFFICES ASSUME AInv, Runs(pending), [Next]_vars
               PROVE  Runs(pending)' /\ [Confirmed]_vars
    OBVIOUS
  <1>0. TypeOK
    BY DEF AInv
  <1>1. CASE Round
    <2> DEFINE acked == acknowledged \/ (ack_requested /\ IsAlarm(shown.level))
               counted == IF config = wanted THEN pending ELSE NoPending
               last == IF config = wanted THEN steady ELSE NoPending
    <2>1. NoPending \in Counted /\ NoPending.count = 0 /\ over \in Nat /\ under \in Nat
          /\ \E c \in Configs : c.assert \in 1 .. MaxSamples
      BY <1>0, Constants DEF TypeOK, NoPending, Counted, Quiet, Verdict, Level, Reason,
                             NORMAL, UNKNOWN
    <2>2. counted \in Counted /\ counted.count < MaxSamples /\ Runs(counted)
      BY <1>0, <2>1, Constants DEF TypeOK, Runs
    <2>3. /\ config' = wanted
          /\ \/ \E s \in Snapshot : Update(s, acked, counted, last)
             \/ pending' = counted /\ UNCHANGED <<shown, over, under>>
      BY <1>1 DEF Round
    <2> HIDE DEF acked, counted, last
    <2>4. ASSUME NEW s \in Snapshot, Update(s, acked, counted, last)
          PROVE  Runs(pending)' /\ Confirmed
      BY <1>0, <2>2, <2>3, <2>4, UpdateConfirms
    <2>5. CASE pending' = counted /\ UNCHANGED <<shown, over, under>>
      BY <2>2, <2>5 DEF Runs, Confirmed, IsAlarm, IsMetricAlarm, NORMAL, UNKNOWN, NOTICE, CRITICAL
    <2> QED BY <2>3, <2>4, <2>5
  <1>2. CASE AckCommand
    BY <1>2 DEF AckCommand, Runs, Confirmed, IsAlarm, IsMetricAlarm, NORMAL, UNKNOWN,
                NOTICE, CRITICAL
  <1>3. CASE ApplyConfig
    BY <1>3 DEF ApplyConfig, ghosts, Runs, Confirmed, IsAlarm, IsMetricAlarm, NORMAL, UNKNOWN,
                NOTICE, CRITICAL
  <1>4. CASE UNCHANGED vars
    BY <1>4 DEF vars, ghosts, Runs
  <1> QED BY <1>1, <1>2, <1>3, <1>4 DEF Next

(* An alarm is raised only after assert_samples over a limit, and ended    *)
(* only after clear_samples under all limits.                              *)
THEOREM ChangesConfirmedCorrect == Spec => ChangesConfirmed
  <1>1. Init => Runs(pending)
    BY DEF Init, Runs, NoPending
  <1>2. AInv /\ Runs(pending) /\ [Next]_vars => Runs(pending)' /\ [Confirmed]_vars
    BY RunsStep
  <1> QED BY AlarmInit, AlarmStep, <1>1, <1>2, PTL DEF Spec, ChangesConfirmed, Confirmed
=============================================================================
