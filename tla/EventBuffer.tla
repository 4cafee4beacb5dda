----------------------------- MODULE EventBuffer ------------------------------
(***************************************************************************)
(* The event buffer of the acquisition task: the ring of samples from      *)
(* before an alarm, the phases of an event, its rows in the output queue,  *)
(* and the way of the rows to the record queue. The operators stand for    *)
(* the functions of board_a_event_buffer.c, from buffer to buffer; the     *)
(* actions are the rounds of the acquisition task, the only one to call    *)
(* them.                                                                   *)
(*                                                                         *)
(* Time is counted in ticks of half a second. Of a sample its time is      *)
(* kept, of the event flags the three that are sticky. Every sample is in  *)
(* the ring when its alarm result is noted, as in sensor_scan_if_due.      *)
(* Events are numbered as they open.                                       *)
(***************************************************************************)
EXTENDS Integers, Sequences, FiniteSets

CONSTANTS PreCapacity,      (* BOARD_A_EVENT_BUFFER_PRE_CAPACITY           *)
          OutputCapacity,   (* BOARD_A_EVENT_BUFFER_OUTPUT_CAPACITY        *)
          Period,           (* BOARD_A_EVENT_BUFFER_ACTIVE_PERIOD_MS       *)
          PostDuration,     (* BOARD_A_EVENT_BUFFER_POST_DURATION_MS       *)
          MaxGap,           (* longest time between two rounds             *)
          MaxTime,          (* bound: the clock                            *)
          MaxEvents         (* bound: events opened                        *)

ASSUME BufferAssumption ==
  /\ PreCapacity \in Nat \ {0}
  /\ OutputCapacity \in Nat /\ OutputCapacity > PreCapacity
  /\ Period \in Nat \ {0} /\ PostDuration \in Nat \ {0}
  /\ MaxGap \in Nat \ {0}
  /\ MaxTime \in Nat /\ MaxEvents \in Nat

(* The ring holds the sample of a round and at least the one before it.    *)
ASSUME RingAssumption == PreCapacity >= 2

VARIABLES
  now,
  running, stopping,   (* run_state = RUNNING; event_stop_flush_pending    *)
  alarm,               (* the alarm's level is an active one               *)
  buffer,              (* board_a_event_buffer_t                           *)
  last,                (* the row pulled last, or NoRow                    *)
  delivered            (* history: what each event's pulled rows show      *)

vars == <<now, running, stopping, alarm, buffer, last, delivered>>

Time == 0 .. MaxTime
Events == 1 .. MaxEvents
Flag == {"INCOMPLETE", "FORCED_CLOSE", "POST_RETRIGGER"}
Phase == {"PRE", "TRIGGER", "ACTIVE", "POST", "CLOSE"}
Row == [event : Events, phase : Phase, time : Time, flags : SUBSET Flag]
NoRow == [event |-> 0, phase |-> "CLOSE", time |-> 0, flags |-> {}]

(* lost is history: the events of which a row is missing.                  *)
Buffer == [run_phase : {"IDLE", "ACTIVE", "POST"}, event : 0 .. MaxEvents,
           ring : Seq(Time), output : Seq(Row), flags : SUBSET Flag,
           next : Nat, post_end : Nat, lost : SUBSET Events]

Delivered == [closed : BOOLEAN, incomplete : BOOLEAN, unordered : BOOLEAN]

TypeOK ==
  /\ now \in Time
  /\ running \in BOOLEAN /\ stopping \in BOOLEAN /\ alarm \in BOOLEAN
  /\ buffer \in Buffer
  /\ Len(buffer.ring) <= PreCapacity
  /\ Len(buffer.output) <= OutputCapacity
  /\ last \in Row \cup {NoRow}
  /\ delivered \in [Events -> Delivered]

Init ==
  /\ now = 0 /\ running = FALSE /\ stopping = FALSE /\ alarm = FALSE
  /\ buffer = [run_phase |-> "IDLE", event |-> 0, ring |-> <<>>, output |-> <<>>,
               flags |-> {}, next |-> 0, post_end |-> 0, lost |-> {}]
  /\ last = NoRow
  /\ delivered = [e \in Events |-> [closed |-> FALSE, incomplete |-> FALSE,
                                  unordered |-> FALSE]]
-----------------------------------------------------------------------------
SmallerOf(a, b) == IF a <= b THEN a ELSE b

OutputRoom(b) == OutputCapacity - Len(b.output)
EventOpen(b) == b.run_phase # "IDLE"

Flagged(b, fs) == [b EXCEPT !.flags = @ \cup fs]
Lose(b, e) == [b EXCEPT !.lost = @ \cup {e}]

EventRow(b, phase, t) ==
  [event |-> b.event, phase |-> phase, time |-> t, flags |-> b.flags]

(* The overwriting of board_a_event_buffer_push_snapshot                   *)
PushSnapshot(b, t) ==
  [b EXCEPT !.ring = IF Len(@) < PreCapacity THEN Append(@, t)
                     ELSE Append(Tail(@), t)]

(* queue_record: a full queue takes no row and flags the event.            *)
QueueRecord(b, r) ==
  IF OutputRoom(b) > 0
  THEN [b EXCEPT !.output = Append(@, [r EXCEPT !.flags = @ \cup b.flags])]
  ELSE Flagged(b, {"INCOMPLETE"})

(* queue_record_force: the oldest row makes room.                          *)
QueueRecordForce(b, r) ==
  IF OutputRoom(b) > 0 THEN QueueRecord(b, r)
  ELSE QueueRecord([Flagged(Lose(b, Head(b.output).event), {"INCOMPLETE"})
                      EXCEPT !.output = Tail(@)], r)

(* Faulty variant: the search runs the wrong way round.                    *)
SelectOldest(b, deadline) == b.ring[1]

(* select_sample_for_deadline                                              *)
SelectSample(b, deadline) ==
  LET old == {i \in DOMAIN b.ring : b.ring[i] <= deadline}
  IN  IF old = {} THEN b.ring[Len(b.ring)]
      ELSE b.ring[CHOOSE i \in old : \A j \in old : j <= i]

(* emit_active_or_post: one row for each deadline up to limit; a full      *)
(* queue ends it, and the remaining deadlines stay due.                    *)
EmitActiveOrPost(b, limit) ==
  LET due == {i \in 0 .. MaxTime :
                /\ b.next + i * Period <= limit
                /\ b.run_phase = "POST" => b.next + i * Period < b.post_end}
      n   == SmallerOf(Cardinality(due), OutputRoom(b))
      row(i) == EventRow(b, b.run_phase, SelectSample(b, b.next + (i - 1) * Period))
  IN  [b EXCEPT !.output = @ \o [i \in 1 .. n |-> row(i)],
                !.next = @ + n * Period,
                !.flags = IF n < Cardinality(due) THEN @ \cup {"INCOMPLETE"} ELSE @]

(* Rows of the ring, oldest first, as PRE rows, as many as fit             *)
QueuePre(b) ==
  LET n == SmallerOf(Len(b.ring) - 1, OutputRoom(b))
      filled == [b EXCEPT !.output = @ \o [i \in 1 .. n |-> EventRow(b, "PRE", b.ring[i])]]
  IN  IF n = Len(b.ring) - 1 THEN filled
      ELSE Flagged(Lose(filled, b.event), {"INCOMPLETE"})

(* start_event at the sample of time t, the newest of the ring             *)
StartEvent(b, t) ==
  LET opened == [b EXCEPT !.run_phase = "ACTIVE", !.event = @ + 1, !.flags = {},
                          !.next = t + Period, !.post_end = 0]
      pre    == QueuePre(opened)
  IN  QueueRecordForce(pre, EventRow(pre, "TRIGGER", t))

(* The full queue turned away a tick that was due in the round before.     *)
TurnedAway(b) == b.next <= now

(* enter_post at the recovery sample of time t                             *)
EnterPost(b, t) ==
  LET post == [b EXCEPT !.run_phase = "POST", !.next = t + Period,
                        !.post_end = t + PostDuration]
      counted == IF TurnedAway(b) \/ OutputRoom(b) = 0
                 THEN Lose(post, b.event) ELSE post
  IN  QueueRecord(counted, EventRow(post, "POST", t))

(* update_event: an alarm that returns during POST makes the event ACTIVE. *)
UpdateEvent(b, active, t) ==
  IF b.run_phase = "POST" /\ active
  THEN LET counted == IF TurnedAway(b) THEN Lose(b, b.event) ELSE b
       IN  Flagged([counted EXCEPT !.run_phase = "ACTIVE", !.next = t, !.post_end = 0],
                   {"POST_RETRIGGER"})
  ELSE b

(* Faulty variant: a raised alarm always starts an event, open or not.     *)
NoteAlarmResultReopening(b, was_active, active, t) ==
  IF was_active /\ ~active
  THEN IF EventOpen(b) THEN EnterPost(b, t) ELSE b
  ELSE IF active /\ (~was_active \/ ~EventOpen(b)) THEN StartEvent(b, t)
       ELSE UpdateEvent(b, active, t)

(* board_a_event_buffer_note_alarm_result for the sample of time t         *)
NoteAlarmResult(b, was_active, active, t) ==
  IF was_active /\ ~active
  THEN IF EventOpen(b) THEN EnterPost(b, t) ELSE b
  ELSE IF active /\ ~EventOpen(b) THEN StartEvent(b, t)
       ELSE UpdateEvent(b, active, t)

(* close_event: ticks that are still due have no row any more.             *)
CloseEvent(b, t, forced) ==
  LET flagged == IF forced THEN Flagged(b, {"INCOMPLETE", "FORCED_CLOSE"}) ELSE b
      counted == IF b.next < t THEN Lose(flagged, b.event) ELSE flagged
  IN  [QueueRecordForce(counted, EventRow(flagged, "CLOSE", t)) EXCEPT !.run_phase = "IDLE"]

(* board_a_event_buffer_step                                               *)
Step(b, t) ==
  IF ~EventOpen(b) THEN b
  ELSE IF b.run_phase = "POST" /\ t >= b.post_end
       THEN CloseEvent(EmitActiveOrPost(b, b.post_end), b.post_end, FALSE)
       ELSE EmitActiveOrPost(b, t)

ForceClose(b, t) == IF EventOpen(b) THEN CloseEvent(b, t, TRUE) ELSE b

(* Faulty variant: a pulled row keeps the flags it was queued with.        *)
PulledAsQueued(b, n) == SubSeq(b.output, 1, n)

(* board_a_event_buffer_pull_record, n times                               *)
Pulled(b, n) ==
  [i \in 1 .. n |-> [b.output[i] EXCEPT !.flags = @ \cup b.flags]]

(* board_a_runtime_drain_event_records: n rows fit in the record queue;    *)
(* when rows remain, the event is flagged.                                 *)
Drain(b, n) ==
  LET rest == [b EXCEPT !.output = SubSeq(@, n + 1, Len(@))]
      rows == Pulled(b, n)
      all  == <<last>> \o rows
      older(i) == all[i + 1].event = all[i].event /\ all[i + 1].time < all[i].time
  IN  /\ buffer' = IF n < Len(b.output) THEN Flagged(rest, {"INCOMPLETE"}) ELSE rest
      /\ last' = all[n + 1]
      /\ delivered' =
           [e \in Events |->
              LET d == delivered[e]
                  mine == {i \in 1 .. n : rows[i].event = e}
              IN  [closed |-> d.closed \/ \E i \in mine : rows[i].phase = "CLOSE",
                   incomplete |-> d.incomplete
                                    \/ \E i \in mine : "INCOMPLETE" \in rows[i].flags,
                   unordered |-> d.unordered \/ \E i \in mine : older(i)]]
-----------------------------------------------------------------------------
(* START is refused until the rows of the last run are on their way.       *)
Start ==
  /\ ~running /\ ~stopping
  /\ running' = TRUE
  /\ UNCHANGED <<now, stopping, alarm, buffer, last, delivered>>

(* A STOP, accepted at any time, or a run that reached its last record     *)
Stop ==
  /\ running' = FALSE /\ stopping' = TRUE
  /\ UNCHANGED <<now, alarm, buffer, last, delivered>>

Later(from) == {t \in Time : from <= t /\ t <= now + MaxGap}

(* One round: perhaps a sample and its alarm result, noted during a run;   *)
(* then the step and the drain.                                            *)
Scan ==
  /\ stopping => ~EventOpen(buffer)
  /\ \E t \in Later(now + 1), sampled \in BOOLEAN, active \in BOOLEAN :
       LET pushed == IF sampled THEN PushSnapshot(buffer, t) ELSE buffer
           noted  == IF sampled /\ running
                     THEN NoteAlarmResult(pushed, alarm, active, t) ELSE pushed
           b      == Step(noted, t)
       IN  /\ active # alarm => sampled
           /\ noted.event <= MaxEvents
           /\ now' = t
           /\ alarm' = active
           /\ \E n \in 0 .. Len(b.output) : Drain(b, n)
  /\ UNCHANGED <<running, stopping>>

(* event_finish_stop_flush, at the end of a round or before the next       *)
FinishStopFlush ==
  /\ stopping
  /\ \E t \in Later(now) :
       LET b == ForceClose(buffer, t)
       IN  /\ now' = t
           /\ \E n \in 0 .. Len(b.output) : Drain(b, n)
  /\ stopping' = (buffer'.output # <<>>)
  /\ UNCHANGED <<running, alarm>>

Next == Start \/ Stop \/ Scan \/ FinishStopFlush

Spec == Init /\ [][Next]_vars
-----------------------------------------------------------------------------
Rank(phase) ==
  CASE phase = "PRE" -> 1 [] phase = "TRIGGER" -> 2
    [] phase \in {"ACTIVE", "POST"} -> 3 [] OTHER -> 4

(* Row s may come after row r: the same event goes on, or a later begins.  *)
Follows(r, s) ==
  \/ r.event = s.event /\ r.phase # "CLOSE" /\ Rank(r.phase) <= Rank(s.phase)
     /\ (s.phase = "TRIGGER" => r.phase = "PRE")
  \/ r.event < s.event

(* The header's pull order: the rows of an event come in the order PRE,    *)
(* TRIGGER, ACTIVE and POST, CLOSE, with one TRIGGER, and those of two     *)
(* events do not mix, whatever was dropped on the way. Within the queue    *)
(* (where only the oldest is dropped) an event ends with its CLOSE and the *)
(* next one begins with PRE or TRIGGER.                                    *)
PullOrder ==
  LET rows == buffer.output
      ends(r, s) == r.event < s.event =>
                      r.phase = "CLOSE" /\ s.phase \in {"PRE", "TRIGGER"}
  IN  /\ \A i \in 1 .. Len(rows) - 1 :
           Follows(rows[i], rows[i + 1]) /\ ends(rows[i], rows[i + 1])
      /\ rows # <<>> => Follows(last, rows[1])

(* Black box: an event of which the full queue dropped a row, or refused   *)
(* one for good, never appears complete: with its CLOSE row delivered, one *)
(* of its delivered rows shows INCOMPLETE. The flag may be raised by       *)
(* another event, and the rows that carry it may come after that event has *)
(* begun. (Ticks that a late round skips by a recovery are another matter: *)
(* no queue was full, and nothing marks them.)                             *)
LostRowsShow ==
  \A e \in Events :
    e \in buffer.lost /\ delivered[e].closed => delivered[e].incomplete

(* The rows of an event that was delivered without INCOMPLETE are in the   *)
(* order of time. (A queue that was full for long makes deadlines late, and*)
(* then the newest sample stands in for those that have left the ring.)    *)
TimeOrder ==
  \A e \in Events :
    delivered[e].closed /\ delivered[e].unordered => delivered[e].incomplete
=============================================================================
