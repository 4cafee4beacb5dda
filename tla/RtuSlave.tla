------------------------------- MODULE RtuSlave -------------------------------
(***************************************************************************)
(* Board A on the RS485 line: its receive interrupt, the comm task, the    *)
(* receiver that cuts the stream of bytes into frames by their silences,   *)
(* the recovery after a damaged byte, and the half-duplex transmission of  *)
(* the answer. Serving a request (the register map) is outside: a request  *)
(* for this slave is answered, a broadcast is not.                         *)
(*                                                                         *)
(* Time is counted in characters. Of every stamp the model keeps the age,  *)
(* now minus stamp modulo Clock, which is what the code's differences of   *)
(* 32-bit times come to. An age nothing reads is 0. The interrupt is       *)
(* served within a character: no critical section of the firmware lasts    *)
(* that long. The comm task may be kept from running for MaxLag characters *)
(* by the tasks above it: a scan of the sensors takes the processor for 10 *)
(* ms a probe, so that MaxLag may well be longer than a request. The       *)
(* receive queue (512 bytes) never fills: an answer takes 0.4 s at most,   *)
(* and the driver mutes the receiver meanwhile. The host, and noise on the *)
(* line, are the environment.                                              *)
(***************************************************************************)
EXTENDS Integers, Sequences

CONSTANTS Clock,                    (* 2^32                                *)
          T35,                      (* BOARD_A_T35_US                      *)
          RxWait,                   (* the timeout of xQueueReceive        *)
          FrameLength, MaxAdu,      (* MaxAdu is MODBUS_RTU_MAX_ADU_SIZE   *)
          AnswerLength, Slack,      (* wire time and what is allowed above *)
          MaxLag,                   (* the comm task waits this long       *)
          Requests, Broadcasts,     (* frames of the host                  *)
          None,                     (* no frame                            *)
          Patience,                 (* the host waits for an answer        *)
          Turnaround,               (* and after a broadcast               *)
          Recovery,                 (* faults are forgotten after this     *)
          MaxFaults                 (* bound: noise, broken frames, a      *)
                                    (* transmitter that is stuck           *)

Budget == AnswerLength + Slack      (* budget_us of tx_send                *)

ASSUME RtuAssumption ==
  /\ Clock \in Nat
  /\ {T35, RxWait, FrameLength, MaxAdu, AnswerLength, Slack, Patience,
      Turnaround} \subseteq Nat \ {0}
  /\ {MaxLag, MaxFaults, Recovery} \subseteq Nat
  /\ Requests \cap Broadcasts = {} /\ None \notin Requests \cup Broadcasts
  /\ FrameLength <= MaxAdu /\ T35 < AnswerLength /\ T35 <= RxWait
  /\ T35 <= Turnaround
  /\ Clock > 2 * (T35 + RxWait + Budget + 3 * MaxLag)

(* The host does without a pause of T35 in a frame, and waits as long as   *)
(* the slave may need.                                                     *)
ASSUME HostAssumption ==
  /\ T35 > 2
  /\ Turnaround >= RxWait + 2 * MaxLag
  /\ Patience >= RxWait + 2 * MaxLag + AnswerLength

(* A fault is forgotten when no wait and no recovery of the task begun by   *)
(* it, nor an answer begun on what it left, can go on: what comes after it *)
(* of the frame it hit, the wait, the lag and the budget of an answer in   *)
(* between, and the answer.                                                *)
ASSUME RecoveryAssumption ==
  Recovery > 2 * FrameLength + RxWait + 3 * MaxLag + Budget + AnswerLength

VARIABLES
  queue,             (* g_rx_queue: bytes with flags and stamp             *)
  fault,             (* the epoch differs from the one seen; g_rx_fault_us *)
  rx,                (* modbus_rtu_rx_t                                    *)
  recovery,          (* board_a_rx_recovery_t                              *)
  pc,                (* where the comm task is in its loop                 *)
  waited,            (* time spent in xQueueReceive                        *)
  sample,            (* age of the now_us the poll works with              *)
  tx, pin,           (* board_a_tx_t; GPIOG pin 8 drives the line          *)
  pipe, stuck,       (* characters in the transmitter; it does not shift   *)
  lag,               (* time the comm task has been kept from running      *)
  host,              (* the host: its frame, the bytes sent, waiting for   *)
                     (* the answer since when; clean: no fault so far      *)
  line,              (* history: age of the last character on the line,    *)
                     (* the segment it is in, damage in this segment       *)
  calm,              (* history: time since the last fault lingered       *)
  faults

vars == <<queue, fault, rx, recovery, pc, waited, sample, tx, pin, pipe, stuck,
          lag, host, line, calm, faults>>

Frames == Requests \cup Broadcasts
Age == 0 .. Clock - 1
(* None is noise. segment and torn are for the properties: bytes with a *)
(* silence or a missing byte between them are in different segments, and a *)
(* byte is torn if one before it, with no silence since, was damaged.      *)
Byte == [frame : Frames \cup {None}, part : 0 .. FrameLength,
         segment : {0, 1}, torn : BOOLEAN]
Event == [byte : Byte, bad : BOOLEAN, age : Age]
TxState == {"IDLE", "SENDING", "WAIT_TC", "COMPLETE"}

TypeOK ==
  /\ \A i \in DOMAIN queue : queue[i] \in Event
  /\ fault \in [new : BOOLEAN, age : Age]
  /\ rx.active \in Seq(Byte) /\ Len(rx.active) <= MaxAdu
  /\ rx.ready \in Seq(Byte) /\ Len(rx.ready) <= MaxAdu
  /\ {rx.over, rx.overran} \subseteq BOOLEAN /\ rx.age \in Age
  /\ recovery \in [discarding : BOOLEAN, age : Age, blind : BOOLEAN]
  /\ pc \in {"SERVICE", "RECEIVE", "DRAIN", "POLL", "SEND", "SENDING"}
  /\ waited \in 0 .. RxWait /\ sample \in Age
  /\ tx \in [state : TxState, frame : Frames \cup {None}, next : 0 .. AnswerLength, age : Age]
  /\ pin \in BOOLEAN /\ stuck \in BOOLEAN /\ pipe \in 0 .. 2
  /\ lag \in 0 .. MaxLag /\ faults \in 0 .. MaxFaults
  /\ host \in [frame : Frames, sent : 0 .. FrameLength, waiting : BOOLEAN, since : 0 .. Patience, clean : BOOLEAN]
  /\ line \in [age : 0 .. Turnaround, segment : {0, 1}, cut : BOOLEAN, torn : BOOLEAN]
  /\ calm \in 0 .. Recovery

NoRx == [active |-> <<>>, over |-> FALSE, age |-> 0, ready |-> <<>>,
         overran |-> FALSE]
IdleTx == [state |-> "IDLE", frame |-> None, next |-> 0, age |-> 0]
Trusting == [discarding |-> FALSE, age |-> 0, blind |-> FALSE]
NoFault == [new |-> FALSE, age |-> 0]

Init ==
  /\ queue = <<>> /\ fault = NoFault /\ rx = NoRx /\ recovery = Trusting
  /\ pc = "SERVICE" /\ waited = 0 /\ sample = 0
  /\ tx = IdleTx /\ pin = FALSE /\ pipe = 0 /\ stuck = FALSE /\ lag = 0
  /\ host \in {[frame |-> f, sent |-> FrameLength, waiting |-> FALSE,
                since |-> 0, clean |-> FALSE] : f \in Frames}
  /\ line = [age |-> Turnaround, segment |-> 0, cut |-> TRUE, torn |-> FALSE]
  /\ calm = Recovery /\ faults = 0
-----------------------------------------------------------------------------
(* The receiver: modbus_rtu_rx.c, a function from receiver to receiver. A  *)
(* time is given by its age.                                               *)

(* gap_elapsed and silent_gap_elapsed: (int32_t)(now - last) >= t35        *)
SilentGap(last, age) ==
  LET elapsed == (last - age) % Clock
  IN  elapsed < Clock \div 2 /\ elapsed >= T35

GapElapsed(r, age) == r.active # <<>> /\ SilentGap(r.age, age)

(* Faulty variant: the overlong frame is dropped, the flag stays.          *)
PublishDeaf(r) ==
  [NoRx EXCEPT !.ready = IF r.over THEN r.ready ELSE r.active, !.over = r.over,
               !.overran = r.overran \/ (~r.over /\ r.ready # <<>>)]

(* publish_active: an overlong frame is dropped; a frame that nobody took  *)
(* is overwritten.                                                         *)
Publish(r) ==
  [NoRx EXCEPT !.ready = IF r.over THEN r.ready ELSE r.active,
               !.overran = r.overran \/ (~r.over /\ r.ready # <<>>)]

(* Faulty variant: the frame stays ready.                                  *)
TakeFrameKept(r) == r

(* modbus_rtu_rx_take                                                      *)
TakeFrame(r) == [r EXCEPT !.ready = <<>>]

(* modbus_rtu_rx_discard                                                   *)
Discard(r) == [NoRx EXCEPT !.overran = r.overran]

(* modbus_rtu_rx_poll                                                      *)
PollRx(r, age) == IF GapElapsed(r, age) THEN Publish(r) ELSE r

(* Faulty variants: no bound; no silence                                   *)
PushTooLong(r, byte, age) ==
  LET p == PollRx(r, age) IN [p EXCEPT !.active = Append(@, byte), !.age = age]

PushUncut(r, byte, age) ==
  IF r.over \/ Len(r.active) >= MaxAdu THEN [r EXCEPT !.over = TRUE, !.age = age]
  ELSE [r EXCEPT !.active = Append(@, byte), !.age = age]

(* modbus_rtu_rx_push                                                      *)
Push(r, byte, age) ==
  LET p == PollRx(r, age)
  IN  IF p.over \/ Len(p.active) >= MaxAdu THEN [p EXCEPT !.over = TRUE, !.age = age]
      ELSE [p EXCEPT !.active = Append(@, byte), !.age = age]

(* board_a_rx_recovery_begin                                               *)
Begin(age) == [discarding |-> TRUE, age |-> age, blind |-> FALSE]

(* board_a_rx_recovery_accept and _can_poll: a silence ends the recovery.  *)
Ends(age) == recovery.discarding /\ SilentGap(recovery.age, age)
Accepts(age) == ~recovery.discarding \/ Ends(age)
After(age) ==
  IF ~recovery.discarding THEN recovery
  ELSE IF Ends(age) THEN [Trusting EXCEPT !.blind = recovery.blind]
  ELSE [recovery EXCEPT !.age = age]
-----------------------------------------------------------------------------
(* The comm task.                                                          *)

(* service_rx_fault, on top of what the step did to receiver and recovery  *)
Service(r, c) ==
  /\ rx' = IF fault.new THEN Discard(r) ELSE r
  /\ recovery' = IF fault.new THEN Begin(fault.age) ELSE c
  /\ fault' = NoFault

Wait == pc' = "SERVICE" /\ waited' = 0

(* The top of the loop                                                     *)
ServiceFault ==
  /\ pc = "SERVICE"
  /\ Service(rx, recovery)
  /\ pc' = "RECEIVE"
  /\ UNCHANGED <<queue, waited, sample, tx, pin, pipe, stuck, lag, host, line,
                 calm, faults>>

(* process_rx_event and service_rx_fault. A damaged byte begins a recovery *)
(* but does not renew one: blind says the recovery has since passed one    *)
(* over that is younger than its last_seen.                                *)
TakeEvent ==
  /\ pc \in {"RECEIVE", "DRAIN"} /\ queue # <<>>
  /\ LET e == Head(queue)
     IN  CASE e.bad /\ ~recovery.discarding -> Service(Discard(rx), Begin(e.age))
           [] e.bad /\ recovery.discarding ->
                Service(rx, [recovery EXCEPT !.blind = @ \/ e.age < recovery.age])
           [] ~e.bad /\ Accepts(e.age) -> Service(Push(rx, e.byte, e.age), After(e.age))
           [] OTHER -> Service(rx, After(e.age))
  /\ queue' = Tail(queue) /\ pc' = "DRAIN" /\ waited' = 0
  /\ UNCHANGED <<sample, tx, pin, pipe, stuck, lag, host, line, calm, faults>>

Drained ==
  /\ pc = "DRAIN" /\ queue = <<>>
  /\ Wait
  /\ UNCHANGED <<queue, fault, rx, recovery, sample, tx, pin, pipe, stuck, lag, host,
                 line, calm, faults>>

(* xQueueReceive times out; rx_queue_empty_and_sample. A byte may have come *)
(* since.                                                                  *)
TimeOut ==
  /\ pc = "RECEIVE" /\ waited >= RxWait
  /\ pc' = (IF queue = <<>> THEN "POLL" ELSE "SERVICE") /\ waited' = 0 /\ sample' = 0
  /\ UNCHANGED <<queue, fault, rx, recovery, tx, pin, pipe, stuck, lag, host, line,
                 calm, faults>>

(* modbus_rtu_server_process checks address and CRC: it serves a frame if  *)
(* it is what the host sent, and answers it unless it is a broadcast.      *)
Served(bytes) ==
  IF \E f \in Requests : /\ Len(bytes) = FrameLength
                         /\ \A i \in 1 .. FrameLength : /\ bytes[i].frame = f
                                                        /\ bytes[i].part = i
  THEN bytes[1].frame ELSE None

(* A fault since the sample, or a recovery that has not seen its silence:  *)
(* the loop starts again. Otherwise board_a_slave_poll.                    *)
PollSlave ==
  /\ pc = "POLL" /\ sample' = 0
  /\ IF fault.new \/ ~Accepts(sample)
     THEN Service(rx, recovery) /\ Wait /\ UNCHANGED tx
     ELSE LET p == PollRx(rx, sample)
              f == Served(p.ready)
          IN  /\ rx' = TakeFrame(p)
              /\ recovery' = After(sample)
              /\ tx' = [tx EXCEPT !.frame = f]
              /\ IF f = None THEN Wait ELSE pc' = "SEND" /\ waited' = waited
              /\ UNCHANGED fault
  /\ UNCHANGED <<queue, pin, pipe, stuck, lag, host, line, calm, faults>>

(* The interrupt writes the next byte when the data register is empty, and *)
(* ends the answer when the last character has left (on_txe, on_tc).       *)
OnTxe(t) ==
  [t EXCEPT !.next = @ + 1, !.state = IF t.next + 1 = AnswerLength THEN "WAIT_TC" ELSE @]

OnTc(t) == [IdleTx EXCEPT !.state = "COMPLETE", !.frame = t.frame]

(* Faulty variant: the line is released when the data register is empty.   *)
TransmitterEarly(t, p, driven) ==
  CASE t.state = "SENDING" /\ p < 2 -> tx' = OnTxe(t) /\ pipe' = p + 1 /\ pin' = driven
    [] t.state = "WAIT_TC" /\ p < 2 -> tx' = OnTc(t) /\ pipe' = p /\ pin' = FALSE
    [] OTHER -> tx' = t /\ pipe' = p /\ pin' = driven

Transmitter(t, p, driven) ==
  CASE t.state = "SENDING" /\ p < 2 -> tx' = OnTxe(t) /\ pipe' = p + 1 /\ pin' = driven
    [] t.state = "WAIT_TC" /\ p = 0 -> tx' = OnTc(t) /\ pipe' = 0 /\ pin' = FALSE
    [] OTHER -> tx' = t /\ pipe' = p /\ pin' = driven

(* tx_send: refused while a character waits in the data register, or when  *)
(* the receiver reports an error just now.                                 *)
Start ==
  /\ pc = "SEND" /\ pipe < 2 /\ tx.state = "IDLE"
  /\ Transmitter(OnTxe([tx EXCEPT !.state = "SENDING"]), pipe + 1, TRUE)
  /\ pc' = "SENDING"
  /\ UNCHANGED <<queue, fault, rx, recovery, waited, sample, stuck, lag, host, line,
                 calm, faults>>

Refuse ==
  /\ pc = "SEND" /\ (pipe = 2 \/ tx.state # "IDLE")
  /\ tx' = [tx EXCEPT !.frame = None] /\ Wait
  /\ UNCHANGED <<queue, fault, rx, recovery, sample, pin, pipe, stuck, lag, host, line,
                 calm, faults>>

(* The loop of tx_send: the completion is taken, or the time is over and   *)
(* the answer is aborted.                                                  *)
Complete ==
  /\ pc = "SENDING" /\ tx.state = "COMPLETE"
  /\ tx' = IdleTx /\ Wait
  /\ UNCHANGED <<queue, fault, rx, recovery, sample, pin, pipe, stuck, lag, host, line,
                 calm, faults>>

Abort ==
  /\ pc = "SENDING" /\ tx.state \in {"SENDING", "WAIT_TC"} /\ tx.age >= Budget
  /\ tx' = IdleTx /\ pin' = FALSE /\ Wait
  /\ UNCHANGED <<queue, fault, rx, recovery, sample, pipe, stuck, lag, host, line,
                 calm, faults>>
-----------------------------------------------------------------------------
(* The line and the host.                                                  *)

Older(age) == (age + 1) % Clock
Aged == [i \in DOMAIN queue |-> [queue[i] EXCEPT !.age = Older(@)]]
AgedFault == [fault EXCEPT !.age = IF fault.new THEN Older(@) ELSE 0]
InFrame == host.sent < FrameLength

(* A character reaches the receiver, unless the driver mutes it: rx_isr.   *)
Receive(f, part, bad) ==
  LET gap  == line.age + 1 >= T35
      torn == bad \/ (line.torn /\ ~gap)
      seg  == IF gap \/ line.cut THEN 1 - line.segment ELSE line.segment
  IN  IF pin
      THEN /\ queue' = Aged /\ fault' = AgedFault
           /\ line' = [line EXCEPT !.age = 0, !.cut = TRUE, !.torn = FALSE]
      ELSE /\ queue' = Append(Aged, [byte |-> [frame |-> f, part |-> part,
                                               segment |-> seg, torn |-> torn],
                                     bad |-> bad, age |-> 0])
           /\ fault' = IF bad THEN [new |-> TRUE, age |-> 0]
                       ELSE AgedFault
           /\ line' = [age |-> 0, segment |-> seg, cut |-> bad, torn |-> torn]

Silent ==
  /\ queue' = Aged /\ fault' = AgedFault
  /\ line' = [line EXCEPT !.age = IF @ < Turnaround THEN @ + 1 ELSE @]

Fault == faults < MaxFaults /\ faults' = faults + 1 /\ calm' = 0

(* A fault lingers while the transmitter is stuck. One that is not         *)
(* forgotten yet is as new again when the task has been kept from running  *)
(* for as long as a request takes: it may then answer a request its host   *)
(* has given up while the next one comes in, and go on being one behind.   *)
Lingers == stuck \/ (calm < Recovery /\ lag' >= FrameLength)
NoNewFault == /\ calm' = CASE Lingers -> 0
                           [] ~Lingers /\ calm < Recovery -> calm + 1
                           [] OTHER -> calm
              /\ UNCHANGED faults

(* The host while it waits: the answer arrives, or it gives up.            *)
Waiting ==
  IF ~host.waiting THEN host
  ELSE IF (pin /\ tx'.state = "COMPLETE" /\ tx'.frame = host.frame) \/ host.since = Patience
       THEN [host EXCEPT !.waiting = FALSE, !.since = 0]
       ELSE [host EXCEPT !.since = @ + 1]

Sent(h, bad) ==
  LET last == h.sent + 1 = FrameLength
  IN  [h EXCEPT !.sent = @ + 1, !.waiting = last /\ h.frame \in Requests,
                !.clean = @ /\ ~bad /\ ~pin]

(* A pause in a frame is no longer than a character.                       *)
Pause ==
  /\ InFrame => line.age = 0
  /\ Silent /\ host' = Waiting /\ NoNewFault /\ UNCHANGED stuck

(* The host goes on with its frame, or begins one when nothing is owed to  *)
(* it and the line has been silent long enough.                            *)
HostByte(bad) ==
  /\ ~host.waiting
  /\ IF InFrame THEN host' = Sent(host, bad)
     ELSE /\ line.age >= IF host.frame \in Broadcasts THEN Turnaround ELSE T35
          /\ \E f \in Frames : host' = Sent([host EXCEPT !.frame = f, !.sent = 0,
                                                         !.clean = calm = Recovery], bad)
  /\ Receive(host'.frame, host'.sent, bad)
  /\ IF bad THEN Fault ELSE NoNewFault
  /\ UNCHANGED stuck

(* Noise the receiver takes for a byte, or for a damaged one               *)
Noise(bad) ==
  /\ Receive(None, 0, bad) /\ Fault
  /\ host' = [Waiting EXCEPT !.clean = FALSE]
  /\ UNCHANGED stuck

(* The host stops in the middle of a frame.                                *)
BreakOff ==
  /\ InFrame /\ Silent /\ Fault
  /\ host' = [host EXCEPT !.sent = FrameLength, !.clean = FALSE]
  /\ UNCHANGED stuck

(* The transmitter stops shifting, and starts again.                       *)
Stick ==
  /\ InFrame => line.age = 0
  /\ IF stuck THEN NoNewFault ELSE Fault
  /\ stuck' = ~stuck /\ Silent /\ host' = [Waiting EXCEPT !.clean = FALSE]

(* The comm task has something to do.                                      *)
Runnable ==
  CASE pc = "RECEIVE" -> queue # <<>> \/ waited >= RxWait
    [] pc = "SENDING" -> tx.state = "COMPLETE" \/ tx.age >= Budget
    [] OTHER -> TRUE

(* A character time passes.                                                *)
Tick ==
  /\ Runnable => lag < MaxLag
  /\ lag' = IF Runnable THEN lag + 1 ELSE 0
  /\ Transmitter([tx EXCEPT !.age = IF pc = "SENDING" /\ tx.state # "COMPLETE"
                                    THEN Older(@) ELSE 0],
                 IF stuck \/ pipe = 0 THEN pipe ELSE pipe - 1, pin)
  /\ \/ Pause
     \/ \E bad \in BOOLEAN : HostByte(bad) \/ Noise(bad)
     \/ BreakOff
     \/ Stick
  /\ rx' = [rx EXCEPT !.age = IF rx.active = <<>> THEN 0 ELSE Older(@)]
  /\ recovery' = [recovery EXCEPT !.age = IF recovery.discarding THEN Older(@) ELSE 0]
  /\ waited' = IF pc = "RECEIVE" /\ waited < RxWait THEN waited + 1 ELSE waited
  /\ sample' = IF pc = "POLL" THEN Older(sample) ELSE 0
  /\ UNCHANGED pc

(* A damaged character arrives while tx_send keeps the interrupt out.      *)
RefuseError ==
  /\ pc = "SEND" /\ line.age > 0 /\ ~InFrame /\ pipe < 2
  /\ Fault /\ host' = [host EXCEPT !.clean = FALSE]
  /\ queue' = Append(queue, [byte |-> [frame |-> None, part |-> 0, segment |-> line.segment,
                                       torn |-> TRUE], bad |-> TRUE, age |-> 0])
  /\ fault' = [new |-> TRUE, age |-> 0]
  /\ line' = [line EXCEPT !.age = 0, !.cut = TRUE, !.torn = TRUE]
  /\ tx' = [tx EXCEPT !.frame = None] /\ Wait
  /\ UNCHANGED <<rx, recovery, sample, pin, pipe, stuck, lag>>

Next ==
  \/ ServiceFault \/ TakeEvent \/ Drained \/ TimeOut \/ PollSlave
  \/ Start \/ Refuse \/ RefuseError \/ Complete \/ Abort
  \/ Tick

Spec == Init /\ [][Next]_vars
-----------------------------------------------------------------------------
FrameBytes(s) == {s[i] : i \in DOMAIN s}

(* A frame is made of bytes that came without a silence and without a      *)
(* missing byte between them, and none of them is the tail of a damaged    *)
(* frame: however far the task lags behind the interrupt, what it cuts out *)
(* of the queue is what was on the line. Excepted is the tail after a      *)
(* recovery that was blind: process_rx_event moves last_seen back to a     *)
(* queued byte older than the damaged one, and then passes that one over.  *)
FramesIntact ==
  \A s \in {rx.active, rx.ready} :
    /\ \A a, b \in FrameBytes(s) : a.segment = b.segment
    /\ recovery.blind \/ \A a \in FrameBytes(s) : ~a.torn

(* A request that begins Recovery after the last fault and meets no other  *)
(* is answered in time, however long the task is kept from running within  *)
(* MaxLag: neither a receiver that discards, nor a refused or aborted      *)
(* answer, nor an older frame stands in its way. Recovery counts from the  *)
(* last time the task was kept from running for a whole request before the *)
(* fault was forgotten (Lingers).                                          *)
AnsweredInTime == host.waiting /\ host.clean => host.since < Patience

(* Two masters of one wire: board A drives the line only while the host    *)
(* waits for just this answer, and releases it only when the last          *)
(* character has left. Faults are forgiven for the time of Recovery, which *)
(* a lag of a whole request within it begins again (Lingers).              *)
HalfDuplex ==
  calm = Recovery =>
    /\ pin => host.waiting /\ host.frame = tx.frame
    /\ pipe > 0 => pin

(* The slot for a finished frame is one deep: without faults it is empty   *)
(* when the next frame is finished, so that no broadcast gets lost before  *)
(* the poll that serves it.                                                *)
NotOverwritten == rx.overran => faults > 0
=============================================================================
