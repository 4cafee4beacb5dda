-------------------------------- MODULE Alarm ---------------------------------
(***************************************************************************)
(* The alarm of board_a_alarm.c as the acquisition task drives it: each    *)
(* round handles an ACK that was requested, takes over a changed           *)
(* configuration, and judges the snapshot that may have come in. Commands  *)
(* of the host come between two rounds.                                    *)
(*                                                                         *)
(* A snapshot gives each phase a temperature or the reason of its fault.   *)
(* The largest rate of rise comes with it, as any value of a small set:    *)
(* the history it is computed from has no other use. Every snapshot is new *)
(* (its sample_id differs from the last one's). Once a phase is faulty     *)
(* compute_candidate reports SENSOR_FAULT, so its tests for no phase and   *)
(* for a single one are never reached.                                     *)
(***************************************************************************)
EXTENDS Integers, Sequences

CONSTANTS PhaseCount, (* BOARD_A_ALARM_PHASE_COUNT                         *)
          Temperatures,
          Faults,     (* the fault reasons that occur                      *)
          Rises,      (* records [rate, phase]                             *)
          Configs,    (* valid configurations; see Config                  *)
          MaxSamples  (* largest assert_samples or clear_samples           *)

Phases == 1 .. PhaseCount

NORMAL == 0
NOTICE == 1
WARNING == 2
CRITICAL == 3
SENSOR_FAULT == 4
UNKNOWN == 5

Level == NORMAL .. UNKNOWN
Metric == {"PHASE_TEMPERATURE_HIGH", "PHASE_DELTA_HIGH", "RISE_RATE_HIGH"}

(* reason_priority                                                         *)
FaultPriority == [SENSOR_CRC_ERROR |-> 4, SENSOR_RANGE_ERROR |-> 3,
                  SENSOR_TIMEOUT |-> 2, SENSOR_NOT_PRESENT |-> 1]

Config == [threshold : [Metric -> [{NOTICE, WARNING, CRITICAL} -> Int]],
           hysteresis : Nat,
           assert : 1 .. MaxSamples, clear : 1 .. MaxSamples]

ASSUME AlarmAssumption ==
  /\ PhaseCount \in Nat /\ PhaseCount >= 2
  /\ Temperatures \subseteq Int
  /\ Faults \subseteq DOMAIN FaultPriority
  /\ Rises \subseteq [rate : Nat, phase : Phases \cup {0}]
  /\ Configs \subseteq Config /\ MaxSamples \in Nat

Reading == [quality : {"OK"}, value : Temperatures]
             \cup [quality : Faults, value : {0}]
Snapshot == [phase : [Phases -> Reading], rise : Rises]

VARIABLES
  wanted, config,     (* active_config.alarm_config; the alarm's own copy  *)
  shown,              (* state.level, reason and trigger_phase             *)
  event_active, acknowledged, ack_requested,
  pending,            (* pending_level, _reason, _phase and _count         *)
  steady,             (* history: the last verdict and how often in a row  *)
  over, under, below, (* history: samples in a row over a limit; under all *)
                      (* limits; under all limits less the hysteresis      *)
  heard,              (* history: what the published events tell           *)
  seen                (* history: the alarm shown at the last ACK command  *)

ghosts == <<steady, over, under, below, heard, seen>>
vars == <<wanted, config, shown, event_active, acknowledged, ack_requested,
          pending, ghosts>>

Reason == {"NONE"} \cup Metric \cup Faults
Verdict == [level : Level, reason : Reason, phase : Phases \cup {0}]
Counted == [verdict : Verdict, count : 0 .. MaxSamples]

Quiet(level) == [level |-> level, reason |-> "NONE", phase |-> 0]
IsAlarm(level) == level \notin {NORMAL, UNKNOWN}
IsMetricAlarm(level) == level \in NOTICE .. CRITICAL

TypeOK ==
  /\ wanted \in Configs /\ config \in Configs
  /\ shown \in Verdict
  /\ event_active \in BOOLEAN /\ acknowledged \in BOOLEAN
  /\ ack_requested \in BOOLEAN
  /\ pending \in Counted /\ pending.count < MaxSamples
  /\ steady \in Counted
  /\ over \in 0 .. MaxSamples /\ under \in 0 .. MaxSamples
  /\ below \in 0 .. under
  /\ heard \in {"CLOSED", "OPEN", "BROKEN"}
  /\ seen \in Verdict

NoPending == [verdict |-> Quiet(UNKNOWN), count |-> 0]

Init ==
  /\ wanted \in Configs /\ config = wanted
  /\ shown = Quiet(UNKNOWN)
  /\ event_active = FALSE /\ acknowledged = FALSE /\ ack_requested = FALSE
  /\ pending = NoPending
  /\ steady = NoPending
  /\ over = 0 /\ under = 0 /\ below = 0
  /\ heard = "CLOSED" /\ seen = Quiet(UNKNOWN)
-----------------------------------------------------------------------------
Values(s) == {s.phase[p].value : p \in Phases}
Hottest(s) == CHOOSE t \in Values(s) : \A u \in Values(s) : u <= t
Coldest(s) == CHOOSE t \in Values(s) : \A u \in Values(s) : t <= u
HottestPhase(s) ==
  CHOOSE p \in Phases : /\ s.phase[p].value = Hottest(s)
                        /\ \A q \in Phases : s.phase[q].value = Hottest(s) => p <= q

(* metric_for_reason                                                       *)
Value(s, metric) ==
  CASE metric = "PHASE_TEMPERATURE_HIGH" -> Hottest(s)
    [] metric = "PHASE_DELTA_HIGH" -> Hottest(s) - Coldest(s)
    [] metric = "RISE_RATE_HIGH" -> s.rise.rate

(* threshold_level, with all thresholds lowered by slack                   *)
LevelOf(value, thresholds, slack) ==
  IF value >= thresholds[CRITICAL] - slack THEN CRITICAL
  ELSE IF value >= thresholds[WARNING] - slack THEN WARNING
  ELSE IF value >= thresholds[NOTICE] - slack THEN NOTICE ELSE NORMAL

FaultyPhases(s) == {p \in Phases : s.phase[p].quality # "OK"}

(* The fault of the highest priority, of the first phase that has it       *)
FaultVerdict(s) ==
  LET prio(p) == FaultPriority[s.phase[p].quality]
      first == CHOOSE p \in FaultyPhases(s) :
             \A q \in FaultyPhases(s) \ {p} :
               prio(p) > prio(q) \/ (prio(p) = prio(q) /\ p < q)
  IN  [level |-> SENSOR_FAULT, reason |-> s.phase[first].quality, phase |-> first]

(* What compute_candidate considers, in its order                          *)
Considered(s, c, slack) ==
  LET judge(metric, value, phase) ==
        [level |-> LevelOf(value, c.threshold[metric], slack),
         reason |-> metric, phase |-> phase]
  IN  [p \in Phases |-> judge("PHASE_TEMPERATURE_HIGH", s.phase[p].value, p)] \o
      << judge("PHASE_DELTA_HIGH", Hottest(s) - Coldest(s), HottestPhase(s)),
         judge("RISE_RATE_HIGH", s.rise.rate, s.rise.phase) >>

(* consider_candidate: the first of the highest level                      *)
FirstHighest(list) ==
  list[CHOOSE i \in DOMAIN list :
         \A j \in DOMAIN list :
           list[j].level <= list[i].level /\ (j < i => list[j].level < list[i].level)]

(* compute_candidate                                                       *)
ComputeCandidate(s, c) ==
  IF FaultyPhases(s) # {} THEN FaultVerdict(s)
  ELSE LET best == FirstHighest(Considered(s, c, 0))
       IN  IF best.level = NORMAL THEN Quiet(NORMAL) ELSE best

(* apply_hysteresis: between two metric levels the alarm steps down only   *)
(* when its own metric is below its threshold less the hysteresis.         *)
ApplyHysteresis(current, candidate, s, c) ==
  IF /\ IsMetricAlarm(current.level) /\ IsMetricAlarm(candidate.level)
     /\ current.level > candidate.level
     /\ Value(s, current.reason) >=
          c.threshold[current.reason][current.level] - c.hysteresis
  THEN current ELSE candidate

MovingUp(current, candidate) ==
  \/ current.level = UNKNOWN
  \/ candidate.level > current.level
  \/ candidate.level = current.level

(* Faulty variant: a count goes on when another candidate takes over.      *)
CountAnyCandidate(p, candidate) == [verdict |-> candidate, count |-> p.count + 1]

(* Another candidate than the pending one starts the count again.          *)
CountCandidate(p, candidate) ==
  [verdict |-> candidate,
   count |-> IF p.verdict = candidate THEN p.count + 1 ELSE 1]

(* A fault, and the first good verdict, need no confirmation.              *)
AtOnce(current, candidate) ==
  \/ candidate.level = SENSOR_FAULT
  \/ current.level = UNKNOWN /\ candidate.level = NORMAL

(* Faulty variant: a count must be exceeded, not reached.                  *)
NeededExceeded(current, candidate, c) ==
  1 + (IF MovingUp(current, candidate) THEN c.assert ELSE c.clear)

Needed(current, candidate, c) ==
  IF MovingUp(current, candidate) THEN c.assert ELSE c.clear

(* Faulty variant: every step up is reported as a new event.               *)
EventTypeByLevel(current, candidate, active) ==
  IF IsAlarm(candidate.level)
  THEN IF candidate.level > current.level \/ ~IsAlarm(current.level)
       THEN "RAISED" ELSE "UPDATED"
  ELSE IF active /\ IsAlarm(current.level) THEN "RECOVERED" ELSE "NONE"

(* The event type commit_candidate reports                                 *)
EventType(current, candidate, active) ==
  IF IsAlarm(candidate.level)
  THEN IF ~active \/ ~IsAlarm(current.level) THEN "RAISED" ELSE "UPDATED"
  ELSE IF active /\ IsAlarm(current.level) THEN "RECOVERED" ELSE "NONE"

(* Faulty variant: only a new reason or phase withdraws the ACK.           *)
AckStaysIgnoringLevel(current, candidate, active) ==
  /\ EventType(current, candidate, active) = "UPDATED"
  /\ candidate.reason = current.reason
  /\ candidate.phase = current.phase

(* The ACK survives only a step down of the same alarm.                    *)
AckStays(current, candidate, active) ==
  /\ EventType(current, candidate, active) = "UPDATED"
  /\ candidate.level <= current.level
  /\ candidate.reason = current.reason
  /\ candidate.phase = current.phase

-----------------------------------------------------------------------------
CappedAt(n) == IF n < MaxSamples THEN n ELSE MaxSamples
RunOf(n, holds) == IF holds THEN CappedAt(n + 1) ELSE 0

(* A listener that gets the events and nothing else                        *)
Listen(event) ==
  CASE event = "NONE" -> heard
    [] event = "RAISED" -> IF heard = "CLOSED" THEN "OPEN" ELSE "BROKEN"
    [] event = "UPDATED" -> IF heard = "OPEN" THEN "OPEN" ELSE "BROKEN"
    [] event = "RECOVERED" -> IF heard = "OPEN" THEN "CLOSED" ELSE "BROKEN"

(* The histories over the candidate of snapshot s, raw and with hysteresis *)
Observe(s, c, raw, candidate, was_steady) ==
  LET deep == raw.level = NORMAL /\
                FirstHighest(Considered(s, c, c.hysteresis)).level = NORMAL
  IN  /\ over' = RunOf(over, IsAlarm(raw.level))
      /\ under' = RunOf(under, raw.level = NORMAL)
      /\ below' = RunOf(below, deep)
      /\ steady' = [verdict |-> candidate,
                    count |-> IF was_steady.verdict = candidate
                              THEN CappedAt(was_steady.count + 1) ELSE 1]

(* board_a_alarm_update, where acked and counted are what the ACK and the  *)
(* change of the configuration have left                                   *)
Update(s, acked, counted, was_steady) ==
  LET c == wanted
      raw == ComputeCandidate(s, c)
      candidate == ApplyHysteresis(shown, raw, s, c)
      now == CountCandidate(counted, candidate)
      commits == /\ candidate # shown
                 /\ \/ AtOnce(shown, candidate)
                    \/ now.count >= Needed(shown, candidate, c)
  IN  /\ IF commits
         THEN /\ shown' = candidate
              /\ event_active' = IsAlarm(candidate.level)
              /\ acknowledged' = (acked /\ AckStays(shown, candidate, event_active))
              /\ heard' = Listen(EventType(shown, candidate, event_active))
         ELSE /\ UNCHANGED <<shown, event_active, heard>>
              /\ acknowledged' = acked
      /\ pending' = IF candidate = shown \/ AtOnce(shown, candidate)
                    THEN [counted EXCEPT !.count = 0]
                    ELSE IF commits THEN [now EXCEPT !.count = 0] ELSE now
      /\ Observe(s, c, raw, candidate, was_steady)

(* A round of the acquisition task. A new configuration clears what is     *)
(* pending.                                                                *)
Round ==
  LET acked == acknowledged \/ (ack_requested /\ IsAlarm(shown.level))
      counted == IF config = wanted THEN pending ELSE NoPending
      was_steady == IF config = wanted THEN steady ELSE NoPending
  IN  /\ ack_requested' = FALSE
      /\ config' = wanted
      /\ \/ \E s \in Snapshot : Update(s, acked, counted, was_steady)
         \/ /\ acknowledged' = acked /\ pending' = counted /\ steady' = was_steady
            /\ UNCHANGED <<shown, event_active, over, under, below, heard>>
      /\ seen' = IF acknowledged' THEN seen ELSE Quiet(UNKNOWN)
      /\ UNCHANGED wanted

(* BOARD_A_COMMAND_ACK_ALARM, with a command id that is new                *)
AckCommand ==
  /\ ack_requested' = TRUE
  /\ seen' = shown
  /\ UNCHANGED <<wanted, config, shown, event_active, acknowledged, pending,
                 steady, over, under, below, heard>>

(* BOARD_A_COMMAND_APPLY_CONFIG                                            *)
ApplyConfig ==
  /\ wanted' \in Configs
  /\ UNCHANGED <<config, shown, event_active, acknowledged, ack_requested,
                 pending, ghosts>>

Next == Round \/ AckCommand \/ ApplyConfig

Spec == Init /\ [][Next]_vars
-----------------------------------------------------------------------------
(* The events pair up, whatever levels, faults and configurations come:    *)
(* RAISED, any number of UPDATED, RECOVERED, and an event is open exactly  *)
(* while an alarm is shown. The event buffer relies on it.                 *)
EventsPaired == heard = IF IsAlarm(shown.level) THEN "OPEN" ELSE "CLOSED"

(* README: an upgrade within an event sounds again. So an acknowledged     *)
(* alarm is never worse than, or another than, the one that was shown when *)
(* the host's ACK arrived.                                                 *)
AckCoversAlarm ==
  acknowledged => /\ shown.level <= seen.level
                  /\ shown.reason = seen.reason /\ shown.phase = seen.phase

(* A verdict that stays the same for as many samples as are ever needed is *)
(* the alarm that is shown: no pending count gets stuck.                   *)
Settles ==
  steady.count >= config.assert /\ steady.count >= config.clear
    => shown = steady.verdict

(* README: an alarm is raised after assert_samples over a limit, but a     *)
(* faulty sensor at once, and it recovers after clear_samples under all    *)
(* limits. One sample over a limit never raises it, one good sample        *)
(* between bad ones never ends it.                                         *)
ChangesConfirmed ==
  [][/\ ~IsAlarm(shown.level) /\ IsMetricAlarm(shown'.level) => over' >= config'.assert
     /\ IsAlarm(shown.level) /\ ~IsAlarm(shown'.level) => under' >= config'.clear]_vars

(* README: the limits of the recovery include the hysteresis. The code     *)
(* does otherwise (board_a_alarm.c:387): this fails, and is in no run.     *)
RecoveredBelowHysteresis ==
  [][IsMetricAlarm(shown.level) /\ ~IsAlarm(shown'.level)
       => below' >= config'.clear]_vars
=============================================================================
