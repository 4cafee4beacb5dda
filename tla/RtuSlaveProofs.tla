--------------------------- MODULE RtuSlaveProofs ---------------------------
(***************************************************************************)
(* Proofs about RtuSlave, for every silence, length of frames and answers, *)
(* lag of the comm task, number of faults and width of the clock.          *)
(*                                                                         *)
(* FramesIntact is about what the receiver holds, and follows from what is *)
(* still to come: Trail is a chain from the unfinished frame over the      *)
(* queued bytes to the line. Two neighbours closer than T35 are in one     *)
(* segment, and damage reaches a byte only from the one before it. A byte  *)
(* is judged by differences of ages modulo Clock; Bounds says how old a    *)
(* byte can get while the task lags, sends an answer and lags again,       *)
(* so that no difference is taken for another one (SilentGapMeans).        *)
(*                                                                         *)
(* NotOverwritten is about the dialogue of host and slave. Steady says     *)
(* what it looks like at any moment: what is pending or owed belongs to    *)
(* the frame the host is at, and is as old as the lag of the task and its  *)
(* wait explain. Only a fault leads out of Steady (NextSteady). Here the   *)
(* times of the host count (HostAssumption).                               *)
(*                                                                         *)
(* HalfDuplex and AnsweredInTime hold after faults, once they are          *)
(* forgotten, so that nothing may be assumed of what is held, queued or    *)
(* owed. A byte is judged by whether the last fault can have hit its       *)
(* frame: what is late is not trusted, what is not goes on from byte to    *)
(* byte (Runs). The last byte of a request finds the host waiting (Asking),*)
(* an answer is for it or is owed to a fault that is not forgotten yet     *)
(* (Owing), and leaves the wire in its time unless it was stuck (Flowing). *)
(* Without a fault the frame is complete from the receiver to the line     *)
(* (Attention). The task may be kept from running for longer than a        *)
(* request takes: one that is whole behind an answer (Overtaken) comes     *)
(* after a fault, since no fault is half forgotten then (Delayed).         *)
(***************************************************************************)
EXTENDS RtuSlave, SequenceTheorems, TLAPS

LEMMA Constants ==
  /\ Clock \in Nat /\ T35 \in Nat \ {0} /\ RxWait \in Nat \ {0} /\ FrameLength \in Nat \ {0}
  /\ MaxAdu \in Nat \ {0} /\ AnswerLength \in Nat \ {0} /\ Budget \in Nat
  /\ Patience \in Nat \ {0} /\ Turnaround \in Nat \ {0}
  /\ MaxLag \in Nat /\ MaxFaults \in Nat /\ Recovery \in Nat
  /\ FrameLength <= MaxAdu /\ T35 < AnswerLength /\ AnswerLength < Budget
  /\ T35 <= RxWait /\ T35 <= Turnaround
  /\ Clock > 2 * (T35 + RxWait + Budget + 3 * MaxLag)
<1>1. /\ T35 \in Nat \ {0} /\ RxWait \in Nat \ {0} /\ FrameLength \in Nat \ {0}
      /\ MaxAdu \in Nat \ {0} /\ AnswerLength \in Nat \ {0} /\ Slack \in Nat \ {0}
      /\ Patience \in Nat \ {0} /\ Turnaround \in Nat \ {0}
  BY RtuAssumption, Zenon
<1>2. MaxLag \in Nat /\ MaxFaults \in Nat /\ Recovery \in Nat
  BY RtuAssumption, Zenon
<1>3. /\ FrameLength <= MaxAdu /\ T35 < AnswerLength /\ T35 <= RxWait /\ T35 <= Turnaround
      /\ Clock > 2 * (T35 + RxWait + Budget + 3 * MaxLag) /\ Clock \in Nat
  BY RtuAssumption, Zenon
<1>. QED  BY <1>1, <1>2, <1>3 DEF Budget

(* ------------------------------- types -------------------------------- *)

Receiver == [active : Seq(Byte), over : BOOLEAN, age : Age, ready : Seq(Byte),
             overran : BOOLEAN]
Fits(r) == r \in Receiver /\ Len(r.active) <= MaxAdu /\ Len(r.ready) <= MaxAdu
Distrust == [discarding : BOOLEAN, age : Age, blind : BOOLEAN]
Answer == [state : TxState, frame : Frames \cup {None}, next : 0 .. AnswerLength, age : Age]
Master == [frame : Frames, sent : 0 .. FrameLength, waiting : BOOLEAN,
           since : 0 .. Patience, clean : BOOLEAN]
Wire == [age : 0 .. Turnaround, segment : {0, 1}, cut : BOOLEAN, torn : BOOLEAN]

(* The state of an answer says how far it is, and whether the line is      *)
(* driven for it.                                                          *)
Busy(t) == t.state \in {"SENDING", "WAIT_TC"}
Progress(t) ==
  /\ t \in Answer
  /\ ~Busy(t) => t.next = 0 /\ t.age = 0
  /\ t.state = "SENDING" => t.next < AnswerLength
  /\ t.state = "WAIT_TC" => t.next = AnswerLength

Types ==
  /\ queue \in Seq(Event) /\ fault \in [new : BOOLEAN, age : Age]
  /\ Fits(rx) /\ recovery \in Distrust
  /\ pc \in {"SERVICE", "RECEIVE", "DRAIN", "POLL", "SEND", "SENDING"}
  /\ waited \in 0 .. RxWait /\ sample \in Age
  /\ Progress(tx) /\ (tx.state = "IDLE" <=> pc # "SENDING") /\ pin \in BOOLEAN /\ (pin <=> Busy(tx))
  /\ stuck \in BOOLEAN /\ pipe \in 0 .. 2
  /\ lag \in 0 .. MaxLag /\ faults \in 0 .. MaxFaults
  /\ host \in Master /\ line \in Wire /\ calm \in 0 .. Recovery

LEMMA QueueFacts ==
  ASSUME Types
  PROVE  /\ queue \in Seq(Event) /\ Len(queue) \in Nat
         /\ \A i \in 1 .. Len(queue) : queue[i] \in Event
         /\ queue = <<>> <=> Len(queue) = 0
         /\ queue # <<>> => Head(queue) = queue[1] /\ Head(queue) \in Event
<1>1. queue \in Seq(Event) /\ Len(queue) \in Nat
  BY DEF Types
<1>2. \A i \in 1 .. Len(queue) : queue[i] \in Event
  BY <1>1, ElementOfSeq
<1>3. queue = <<>> <=> Len(queue) = 0
  BY <1>1, EmptySeq
<1>4. ASSUME queue # <<>>  PROVE Head(queue) = queue[1] /\ 1 \in 1 .. Len(queue)
  BY <1>1, <1>3, <1>4
<1>. QED  BY <1>1, <1>2, <1>3, <1>4

LEMMA TypesGiveTypeOK == Types => TypeOK
<1>. SUFFICES ASSUME Types  PROVE TypeOK
  OBVIOUS
<1>1. \A i \in DOMAIN queue : queue[i] \in Event
  BY QueueFacts, LenProperties DEF Types
<1>. QED  BY <1>1 DEF Types, TypeOK, Fits, Receiver, Distrust, Progress, Answer, Master, Wire, Busy

LEMMA IdleProgress == Progress(IdleTx) /\ IdleTx.state = "IDLE" /\ ~Busy(IdleTx)
  BY Constants DEF IdleTx, Progress, Answer, TxState, Busy, Age

LEMMA InitTypes == Init => Types
<1>. SUFFICES ASSUME Init  PROVE Types
  OBVIOUS
<1>1. 0 \in Age /\ <<>> \in Seq(Byte) /\ <<>> \in Seq(Event) /\ Len(<<>>) = 0
  BY Constants DEF Age
<1>2. Fits(rx) /\ recovery \in Distrust /\ fault \in [new : BOOLEAN, age : Age]
  BY <1>1, Constants DEF Init, NoRx, Trusting, NoFault, Fits, Receiver, Distrust
<1>3. Progress(tx) /\ ~Busy(tx) /\ tx.state = "IDLE"
  BY <1>1, IdleProgress DEF Init
<1>4. host \in Master /\ line \in Wire
  <2>1. /\ FrameLength \in 0 .. FrameLength /\ 0 \in 0 .. Patience
        /\ Turnaround \in 0 .. Turnaround /\ 0 \in {0, 1}
    BY Constants
  <2>2. line \in Wire
    BY <2>1, Zenon DEF Init, Wire
  <2>3. PICK f \in Frames : host = [frame |-> f, sent |-> FrameLength, waiting |-> FALSE,
                                   since |-> 0, clean |-> FALSE]
    BY Zenon DEF Init
  <2>. QED  BY <2>1, <2>2, <2>3, Zenon DEF Master
<1>5. pin \in BOOLEAN /\ (pin <=> Busy(tx)) /\ (tx.state = "IDLE" <=> pc # "SENDING")
  BY <1>3, Zenon DEF Init
<1>6. /\ waited \in 0 .. RxWait /\ pipe \in 0 .. 2 /\ lag \in 0 .. MaxLag
      /\ faults \in 0 .. MaxFaults /\ calm \in 0 .. Recovery /\ stuck \in BOOLEAN
      /\ queue = <<>> /\ sample = 0 /\ pc = "SERVICE"
  <2>1. /\ 0 \in 0 .. RxWait /\ 0 \in 0 .. 2 /\ 0 \in 0 .. MaxLag /\ 0 \in 0 .. MaxFaults
        /\ Recovery \in 0 .. Recovery
    BY Constants
  <2>. QED  BY <2>1, Zenon DEF Init
<1>. QED  BY <1>1, <1>2, <1>3, <1>4, <1>5, <1>6 DEF Types

LEMMA OlderAge ==
  ASSUME NEW a \in Age
  PROVE  Older(a) \in Age /\ (a + 1 < Clock => Older(a) = a + 1)
<1>1. CASE a + 1 < Clock
  BY <1>1, Constants DEF Older, Age
<1>2. CASE a + 1 = Clock
  BY <1>2, Constants DEF Older, Age
<1>. QED  BY <1>1, <1>2, Constants DEF Age

(* ----------------------- the pieces of a step ------------------------- *)

LEMMA NoRxFits ==
  /\ NoRx \in Receiver /\ NoRx.active = <<>> /\ NoRx.ready = <<>> /\ NoRx.age = 0
  /\ ~NoRx.over /\ Len(<<>>) = 0
<1>1. 0 \in Age /\ <<>> \in Seq(Byte) /\ Len(<<>>) = 0
  BY Constants DEF Age
<1>. QED  BY <1>1, Zenon DEF NoRx, Receiver

LEMMA PublishFits ==
  ASSUME NEW r, Fits(r)
  PROVE  /\ Fits(Publish(r)) /\ Publish(r).active = <<>> /\ ~Publish(r).over
         /\ Publish(r).ready = (IF r.over THEN r.ready ELSE r.active)
         /\ Publish(r).overran = (r.overran \/ (~r.over /\ r.ready # <<>>))
<1>1. r \in Receiver /\ Len(r.active) <= MaxAdu /\ Len(r.ready) <= MaxAdu
  BY DEF Fits
<1>2. Publish(r) \in Receiver
  BY <1>1, NoRxFits, Zenon DEF Publish, Receiver
<1>3. /\ Publish(r).active = <<>> /\ ~Publish(r).over
      /\ Publish(r).ready = (IF r.over THEN r.ready ELSE r.active)
      /\ Publish(r).overran = (r.overran \/ (~r.over /\ r.ready # <<>>))
  BY <1>1, NoRxFits, Zenon DEF Publish, Receiver
<1>. QED  BY <1>1, <1>2, <1>3, NoRxFits, Constants DEF Fits

LEMMA DiscardFits ==
  ASSUME NEW r, Fits(r)
  PROVE  Fits(Discard(r)) /\ Discard(r).active = <<>> /\ Discard(r).ready = <<>>
<1>1. r \in Receiver
  BY DEF Fits
<1>2. Discard(r) \in Receiver /\ Discard(r).active = <<>> /\ Discard(r).ready = <<>>
  BY <1>1, NoRxFits, Zenon DEF Discard, Receiver
<1>. QED  BY <1>2, NoRxFits, Constants DEF Fits

LEMMA PollRxFits ==
  ASSUME NEW r, Fits(r), NEW age \in Age
  PROVE  /\ Fits(PollRx(r, age))
         /\ GapElapsed(r, age) => PollRx(r, age) = Publish(r)
         /\ ~GapElapsed(r, age) => PollRx(r, age) = r
  BY PublishFits DEF PollRx

LEMMA TakeFrameFits ==
  ASSUME NEW r, Fits(r)
  PROVE  /\ Fits(TakeFrame(r)) /\ TakeFrame(r).active = r.active
         /\ TakeFrame(r).ready = <<>> /\ TakeFrame(r).over = r.over
         /\ TakeFrame(r).age = r.age /\ TakeFrame(r).overran = r.overran
<1>1. r \in Receiver /\ Len(r.active) <= MaxAdu
  BY DEF Fits
<1>2. /\ TakeFrame(r) \in Receiver /\ TakeFrame(r).active = r.active
      /\ TakeFrame(r).ready = <<>> /\ TakeFrame(r).over = r.over
      /\ TakeFrame(r).age = r.age /\ TakeFrame(r).overran = r.overran
  BY <1>1, NoRxFits, Zenon DEF TakeFrame, Receiver, NoRx
<1>. QED  BY <1>1, <1>2, NoRxFits, Constants DEF Fits

(* A byte is put at the end of what the poll left, or the frame is already *)
(* too long and only the time of the byte is kept.                         *)
LEMMA PushFits ==
  ASSUME NEW r, Fits(r), NEW b \in Byte, NEW age \in Age
  PROVE  LET p == PollRx(r, age)
             n == Push(r, b, age)
         IN  /\ Fits(n) /\ n.ready = p.ready /\ n.age = age /\ n.overran = p.overran
             /\ n.over <=> p.over \/ Len(p.active) >= MaxAdu
             /\ n.over => n.active = p.active
             /\ ~n.over => ~p.over /\ n.active = Append(p.active, b)
<1> DEFINE p == PollRx(r, age)
           n == Push(r, b, age)
<1>1. Fits(p)
  BY PollRxFits
<1>2. p \in Receiver /\ Len(p.active) <= MaxAdu /\ Len(p.ready) <= MaxAdu
      /\ p.active \in Seq(Byte) /\ Len(p.active) \in Nat /\ p.over \in BOOLEAN
  BY <1>1 DEF Fits, Receiver
<1>3. n = IF p.over \/ Len(p.active) >= MaxAdu THEN [p EXCEPT !.over = TRUE, !.age = age]
          ELSE [p EXCEPT !.active = Append(@, b), !.age = age]
  BY Zenon DEF Push
<1>. HIDE DEF p, n
<1>4. CASE p.over \/ Len(p.active) >= MaxAdu
  <2>1. /\ n \in Receiver /\ n.active = p.active /\ n.over /\ n.age = age
        /\ n.ready = p.ready /\ n.overran = p.overran
    BY <1>2, <1>3, <1>4, Zenon DEF Receiver
  <2>2. Fits(n) /\ (n.over <=> p.over \/ Len(p.active) >= MaxAdu)
    BY <1>2, <1>4, <2>1 DEF Fits
  <2>. QED  BY <2>1, <2>2 DEF p, n
<1>5. CASE ~(p.over \/ Len(p.active) >= MaxAdu)
  <2>1. Append(p.active, b) \in Seq(Byte) /\ Len(Append(p.active, b)) = Len(p.active) + 1
    BY <1>2, AppendProperties
  <2>2. /\ n \in Receiver /\ n.active = Append(p.active, b) /\ n.over = p.over
        /\ n.age = age /\ n.ready = p.ready /\ n.overran = p.overran
    BY <1>2, <1>3, <1>5, <2>1, Zenon DEF Receiver
  <2>. QED  BY <1>2, <1>5, <2>1, <2>2, Constants DEF Fits, p, n
<1>. QED  BY <1>4, <1>5

(* ------------------------- every step keeps types --------------------- *)

LEMMA RecoveryTypes ==
  ASSUME Types, NEW age \in Age
  PROVE  Begin(age) \in Distrust /\ After(age) \in Distrust
<1>1. recovery \in Distrust /\ 0 \in Age
  BY Constants DEF Types, Age
<1>. QED  BY <1>1, Zenon DEF Begin, After, Trusting, Distrust

LEMMA ServiceTypes ==
  ASSUME Types, NEW r, Fits(r), NEW c \in Distrust, Service(r, c)
  PROVE  /\ Fits(rx') /\ recovery' \in Distrust
         /\ fault' \in [new : BOOLEAN, age : Age] /\ ~fault'.new
<1>1. fault \in [new : BOOLEAN, age : Age] /\ 0 \in Age
  BY Constants DEF Types, Age
<1>2. fault' \in [new : BOOLEAN, age : Age] /\ ~fault'.new
  BY <1>1, Zenon DEF Service, NoFault
<1>3. fault.age \in Age
  BY <1>1
<1>. QED  BY <1>2, <1>3, DiscardFits, RecoveryTypes DEF Service

(* What process_rx_event makes of the oldest event of the queue.           *)
Handled(e, r, c) ==
  \/ e.bad /\ ~recovery.discarding /\ r = Discard(rx) /\ c = Begin(e.age)
  \/ /\ e.bad /\ recovery.discarding /\ r = rx
     /\ c = [recovery EXCEPT !.blind = @ \/ e.age < recovery.age]
  \/ ~e.bad /\ Accepts(e.age) /\ r = Push(rx, e.byte, e.age) /\ c = After(e.age)
  \/ ~e.bad /\ ~Accepts(e.age) /\ r = rx /\ c = After(e.age)

LEMMA TakeEventDoes ==
  ASSUME Types, TakeEvent
  PROVE  /\ queue # <<>> /\ queue[1] \in Event
         /\ \E r, c : /\ Handled(queue[1], r, c) /\ Service(r, c)
                      /\ Fits(r) /\ c \in Distrust
<1> DEFINE e == queue[1]
<1>1. queue # <<>> /\ Head(queue) = e /\ e \in Event
  BY QueueFacts DEF TakeEvent
<1>2. e.byte \in Byte /\ e.age \in Age /\ e.bad \in BOOLEAN
  BY <1>1 DEF Event
<1>3. /\ Fits(rx) /\ recovery \in Distrust /\ Fits(Discard(rx)) /\ Begin(e.age) \in Distrust
      /\ After(e.age) \in Distrust /\ Fits(Push(rx, e.byte, e.age))
  BY <1>2, DiscardFits, RecoveryTypes, PushFits DEF Types
<1>4. [recovery EXCEPT !.blind = @ \/ e.age < recovery.age] \in Distrust
  BY <1>3, Zenon DEF Distrust
<1>. HIDE DEF e
<1>5. \E r, c : Handled(e, r, c) /\ Service(r, c)
  BY <1>1, Zenon DEF TakeEvent, Handled
<1>6. PICK r, c : Handled(e, r, c) /\ Service(r, c)
  BY <1>5
<1>7. Fits(r) /\ c \in Distrust
  BY <1>3, <1>4, <1>6 DEF Handled
<1>8. \E x, y : Handled(e, x, y) /\ Service(x, y) /\ Fits(x) /\ y \in Distrust
  BY <1>6, <1>7
<1>. QED  BY <1>1, <1>8 DEF e

LEMMA TailFacts ==
  ASSUME Types, queue # <<>>, queue' = Tail(queue)
  PROVE  /\ queue' \in Seq(Event) /\ Len(queue') = Len(queue) - 1
         /\ \A i \in 1 .. Len(queue') : queue'[i] = queue[i + 1]
         /\ queue' = <<>> <=> Len(queue) = 1
<1>1. /\ queue' \in Seq(Event) /\ Len(queue') = Len(queue) - 1
      /\ \A i \in 1 .. Len(queue') : queue'[i] = queue[i + 1]
  BY HeadTailProperties DEF Types
<1>. QED  BY <1>1, QueueFacts, EmptySeq

LEMMA SlaveStepTypes ==
  ASSUME Types
  PROVE  /\ ServiceFault => Types'
         /\ TakeEvent => Types'
         /\ Drained => Types'
         /\ TimeOut => Types'
<1>1. 0 \in Age /\ 0 \in 0 .. RxWait /\ Fits(rx) /\ recovery \in Distrust
  BY Constants DEF Types, Age
<1>2. ASSUME ServiceFault  PROVE Types'
  <2>1. /\ Fits(rx') /\ recovery' \in Distrust
        /\ fault' \in [new : BOOLEAN, age : Age]
    BY <1>1, <1>2, ServiceTypes DEF ServiceFault
  <2>. QED  BY <1>2, <2>1 DEF ServiceFault, Types, Busy
<1>3. ASSUME TakeEvent  PROVE Types'
  <2>1. /\ Fits(rx') /\ recovery' \in Distrust
        /\ fault' \in [new : BOOLEAN, age : Age]
    BY <1>3, TakeEventDoes, ServiceTypes
  <2>2. queue' \in Seq(Event)
    BY <1>3, TailFacts DEF TakeEvent
  <2>. QED  BY <1>1, <1>3, <2>1, <2>2 DEF TakeEvent, Types, Busy
<1>4. ASSUME Drained  PROVE Types'
  BY <1>1, <1>4 DEF Drained, Wait, Types, Busy
<1>5. ASSUME TimeOut  PROVE Types'
  BY <1>1, <1>5 DEF TimeOut, Types, Busy
<1>. QED  BY <1>2, <1>3, <1>4, <1>5

LEMMA ServedTypes ==
  ASSUME NEW s \in Seq(Byte)
  PROVE  Served(s) \in Frames \cup {None}
<1>1. CASE \E f \in Requests : /\ Len(s) = FrameLength
                               /\ \A i \in 1 .. FrameLength : /\ s[i].frame = f
                                                              /\ s[i].part = i
  <2>1. s[1] \in Byte
    BY <1>1, Constants, ElementOfSeq
  <2>. QED  BY <1>1, <2>1 DEF Served, Byte
<1>2. CASE ~(\E f \in Requests : /\ Len(s) = FrameLength
                                 /\ \A i \in 1 .. FrameLength : /\ s[i].frame = f
                                                                /\ s[i].part = i)
  BY <1>2 DEF Served
<1>. QED  BY <1>1, <1>2

LEMMA AnswerWith ==
  ASSUME NEW t, Progress(t), NEW f \in Frames \cup {None}
  PROVE  LET n == [t EXCEPT !.frame = f]
         IN  Progress(n) /\ n.state = t.state /\ n.next = t.next /\ n.age = t.age
  BY DEF Progress, Answer, Busy

LEMMA OnTxeDoes ==
  ASSUME NEW t, Progress(t), t.state = "SENDING"
  PROVE  LET n == OnTxe(t)
         IN  /\ Progress(n) /\ Busy(n) /\ n.age = t.age /\ n.next = t.next + 1
             /\ n.frame = t.frame
<1>1. /\ t.next + 1 \in 0 .. AnswerLength /\ t \in Answer
      /\ (IF t.next + 1 = AnswerLength THEN "WAIT_TC" ELSE t.state) \in TxState
  BY Constants DEF Progress, Answer, TxState
<1>2. /\ OnTxe(t) \in Answer /\ OnTxe(t).age = t.age /\ OnTxe(t).next = t.next + 1
      /\ OnTxe(t).frame = t.frame
      /\ OnTxe(t).state = IF t.next + 1 = AnswerLength THEN "WAIT_TC" ELSE t.state
  <2> DEFINE k == t.next + 1
             w == IF k = AnswerLength THEN "WAIT_TC" ELSE t.state
  <2>1. OnTxe(t) = [t EXCEPT !.next = k, !.state = w]
    BY DEF OnTxe, Answer
  <2>2. k \in 0 .. AnswerLength /\ w \in TxState /\ t \in Answer
    BY <1>1
  <2>. HIDE DEF k, w
  <2>3. /\ OnTxe(t) \in Answer /\ OnTxe(t).age = t.age /\ OnTxe(t).next = k
        /\ OnTxe(t).state = w /\ OnTxe(t).frame = t.frame
    BY <2>1, <2>2 DEF Answer
  <2>. QED  BY <2>3 DEF k, w
<1>. QED  BY <1>1, <1>2, Constants DEF Progress, Busy, Answer

(* The interrupt sends a character, or ends the answer when the last one   *)
(* has left, or does nothing.                                              *)
LEMMA TransmitterDoes ==
  ASSUME NEW t, Progress(t), NEW p \in 0 .. 2, NEW d \in BOOLEAN, d <=> Busy(t),
         Transmitter(t, p, d)
  PROVE  /\ Progress(tx') /\ pipe' \in 0 .. 2 /\ pin' \in BOOLEAN /\ (pin' <=> Busy(tx'))
         /\ tx'.state = "IDLE" <=> t.state = "IDLE"
         /\ tx'.frame = t.frame
         /\ \/ tx' = t /\ pipe' = p /\ (Busy(t) => p > 0)
            \/ /\ Busy(t) /\ Busy(tx') /\ tx'.age = t.age
               /\ tx'.next = t.next + 1 /\ pipe' = p + 1
            \/ t.state = "WAIT_TC" /\ p = 0 /\ pipe' = 0 /\ tx'.state = "COMPLETE" /\ ~Busy(tx')
<1>1. CASE t.state = "SENDING" /\ p < 2
  <2>1. tx' = OnTxe(t) /\ pipe' = p + 1 /\ pin' = d
    BY <1>1 DEF Transmitter
  <2>2. Busy(t) /\ d = TRUE
    BY <1>1 DEF Busy
  <2>. QED  BY <1>1, <2>1, <2>2, OnTxeDoes DEF Busy
<1>2. CASE t.state = "WAIT_TC" /\ p = 0
  <2>1. tx' = OnTc(t) /\ pipe' = 0 /\ pin' = FALSE
    BY <1>2 DEF Transmitter
  <2>2. IdleTx \in Answer /\ t.frame \in Frames \cup {None} /\ "COMPLETE" \in TxState
    BY IdleProgress DEF Progress, Answer, TxState
  <2>3. /\ OnTc(t) \in Answer /\ OnTc(t).state = "COMPLETE" /\ OnTc(t).next = 0
        /\ OnTc(t).age = 0 /\ OnTc(t).frame = t.frame
    BY <2>2 DEF OnTc, IdleTx, Answer
  <2>. QED  BY <1>2, <2>1, <2>3 DEF Progress, Busy
<1>3. CASE ~(t.state = "SENDING" /\ p < 2) /\ ~(t.state = "WAIT_TC" /\ p = 0)
  <2>1. tx' = t /\ pipe' = p /\ pin' = d
    BY <1>3 DEF Transmitter
  <2>2. Busy(t) => p > 0
    BY <1>3 DEF Busy
  <2>. QED  BY <2>1, <2>2
<1>. QED  BY <1>1, <1>2, <1>3

LEMMA RefuseErrorTypes ==
  ASSUME Types, RefuseError
  PROVE  /\ \E e \in Event : /\ queue' = Append(queue, e) /\ e.bad /\ e.age = 0
                             /\ e.byte.torn /\ e.byte.segment = line.segment
         /\ fault' = [new |-> TRUE, age |-> 0] /\ Types'
<1>1. 0 \in Age /\ line \in Wire /\ host \in Master /\ 0 \in 0 .. FrameLength
      /\ 0 \in 0 .. Turnaround /\ 0 \in 0 .. RxWait /\ 0 \in 0 .. Recovery
  BY Constants DEF Types, Age
<1> DEFINE b == [frame |-> None, part |-> 0, segment |-> line.segment, torn |-> TRUE]
           e == [byte |-> b, bad |-> TRUE, age |-> 0]
<1>2. b \in Byte /\ b.torn /\ b.segment = line.segment
  BY <1>1, Zenon DEF Byte, Wire
<1>. HIDE DEF b
<1>3. e \in Event /\ e.bad /\ e.age = 0 /\ e.byte = b
  BY <1>1, <1>2, Zenon DEF Event
<1>4. queue' = Append(queue, e) /\ fault' = [new |-> TRUE, age |-> 0]
  BY Zenon DEF RefuseError, b
<1>. HIDE DEF e
<1>5. queue' \in Seq(Event)
  BY <1>3, <1>4, AppendProperties DEF Types
<1>6. fault' \in [new : BOOLEAN, age : Age]
  BY <1>1, <1>4
<1>7. line' \in Wire /\ host' \in Master
  BY <1>1, Zenon DEF RefuseError, Wire, Master
<1>8. Progress(tx') /\ tx'.state = tx.state
  <2>1. tx' = [tx EXCEPT !.frame = None]
    BY Zenon DEF RefuseError
  <2>2. Progress(tx) /\ None \in Frames \cup {None}
    BY DEF Types
  <2>. QED  BY <2>1, <2>2, AnswerWith, Zenon
<1>9. faults' \in 0 .. MaxFaults /\ calm' = 0
  <2>1. faults < MaxFaults /\ faults' = faults + 1 /\ calm' = 0
    BY Zenon DEF RefuseError, Fault
  <2>2. faults \in 0 .. MaxFaults
    BY DEF Types
  <2>. QED  BY <2>1, <2>2, Constants
<1>10. /\ pc' = "SERVICE" /\ waited' = 0 /\ pc = "SEND"
       /\ UNCHANGED <<rx, recovery, sample, pin, pipe, stuck, lag>>
  BY Zenon DEF RefuseError, Wait
<1>11. Types'
  BY <1>1, <1>5, <1>6, <1>7, <1>8, <1>9, <1>10 DEF Types, Busy
<1>. QED  BY <1>2, <1>3, <1>4, <1>11

LEMMA AnswerStepTypes ==
  ASSUME Types
  PROVE  /\ PollSlave => Types'
         /\ Start => Types'
         /\ Refuse => Types'
         /\ Complete => Types'
         /\ Abort => Types'
<1>1. /\ 0 \in Age /\ 0 \in 0 .. RxWait /\ Fits(rx) /\ recovery \in Distrust
      /\ sample \in Age /\ Progress(tx) /\ None \in Frames \cup {None}
  BY Constants DEF Types, Age
<1>2. ASSUME PollSlave  PROVE Types'
  <2>1. /\ sample' = 0 /\ pc = "POLL"
        /\ UNCHANGED <<queue, pin, pipe, stuck, lag, host, line, calm, faults>>
    BY <1>2 DEF PollSlave
  <2>2. CASE fault.new \/ ~Accepts(sample)
    <3>1. Service(rx, recovery) /\ Wait /\ UNCHANGED tx
      BY <1>2, <2>2 DEF PollSlave
    <3>2. /\ Fits(rx') /\ recovery' \in Distrust
          /\ fault' \in [new : BOOLEAN, age : Age]
      BY <1>1, <3>1, ServiceTypes
    <3>. QED  BY <1>1, <2>1, <3>1, <3>2 DEF Types, Busy, Wait
  <2>3. CASE ~(fault.new \/ ~Accepts(sample))
    <3> DEFINE p == PollRx(rx, sample)
               f == Served(p.ready)
    <3>1. /\ rx' = TakeFrame(p) /\ recovery' = After(sample) /\ tx' = [tx EXCEPT !.frame = f]
          /\ (Wait \/ (pc' = "SEND" /\ waited' = waited)) /\ UNCHANGED fault
      BY <1>2, <2>3 DEF PollSlave
    <3>2. Fits(rx') /\ recovery' \in Distrust
      BY <1>1, <3>1, PollRxFits, TakeFrameFits, RecoveryTypes
    <3>3. f \in Frames \cup {None}
      BY <1>1, PollRxFits, ServedTypes DEF Fits, Receiver
    <3>4. Progress(tx') /\ tx'.state = tx.state
      BY <1>1, <3>1, <3>3, AnswerWith
    <3>. QED  BY <1>1, <2>1, <3>1, <3>2, <3>4 DEF Types, Busy, Wait
  <2>. QED  BY <2>2, <2>3
<1>3. ASSUME Start  PROVE Types'
  <2> DEFINE s == [tx EXCEPT !.state = "SENDING"]
             t == OnTxe(s)
  <2>1. tx.state = "IDLE" /\ pc = "SEND" /\ pipe + 1 \in 0 .. 2
    BY <1>3 DEF Start, Types
  <2>2. Progress(s) /\ s.state = "SENDING"
    BY <1>1, <2>1, Constants DEF Progress, Answer, Busy, TxState
  <2>3. Progress(t) /\ Busy(t)
    BY <2>2, OnTxeDoes
  <2>4. Transmitter(t, pipe + 1, TRUE) /\ pc' = "SENDING"
        /\ UNCHANGED <<queue, fault, rx, recovery, waited, sample, stuck, lag, host, line,
                       calm, faults>>
    BY <1>3 DEF Start
  <2>. HIDE DEF t
  <2>5. /\ Progress(tx') /\ pipe' \in 0 .. 2 /\ pin' \in BOOLEAN /\ (pin' <=> Busy(tx'))
        /\ tx'.state = "IDLE" <=> t.state = "IDLE"
    BY <2>1, <2>3, <2>4, TransmitterDoes
  <2>6. tx'.state # "IDLE"
    BY <2>3, <2>5 DEF Busy
  <2>. QED  BY <2>4, <2>5, <2>6 DEF Types
<1>4. ASSUME Refuse  PROVE Types'
  <2>1. Progress(tx') /\ tx'.state = tx.state
    BY <1>1, <1>4, AnswerWith DEF Refuse
  <2>. QED  BY <1>1, <1>4, <2>1 DEF Refuse, Wait, Types, Busy
<1>5. ASSUME Complete  PROVE Types'
  <2>1. Progress(tx') /\ ~Busy(tx') /\ ~Busy(tx) /\ tx'.state = "IDLE"
    BY <1>5, IdleProgress DEF Complete, Busy
  <2>. QED  BY <1>1, <1>5, <2>1 DEF Complete, Wait, Types
<1>6. ASSUME Abort  PROVE Types'
  <2>1. Progress(tx') /\ ~Busy(tx') /\ tx'.state = "IDLE"
    BY <1>6, IdleProgress DEF Abort
  <2>. QED  BY <1>1, <1>6, <2>1 DEF Abort, Wait, Types
<1>. QED  BY <1>2, <1>3, <1>4, <1>5, <1>6

(* ------------------------- a character time --------------------------- *)

LEMMA WaitingTypes ==
  ASSUME Types
  PROVE  Waiting \in Master /\ Waiting.frame \in Frames /\ Waiting.sent = host.sent
<1>1. host \in Master /\ host.since \in 0 .. Patience
  BY DEF Types, Master
<1>2. host.since # Patience => host.since + 1 \in 0 .. Patience
  BY <1>1, Constants
<1>3. 0 \in 0 .. Patience
  BY Constants
<1> DEFINE k == host.since + 1
<1>. HIDE DEF k
<1>4. host.since # Patience => k \in 0 .. Patience
  BY <1>2 DEF k
<1>5. /\ [host EXCEPT !.waiting = FALSE, !.since = 0] \in Master
      /\ [host EXCEPT !.waiting = FALSE, !.since = 0].sent = host.sent
  BY <1>1, <1>3, Zenon DEF Master
<1>6. host.since # Patience => /\ [host EXCEPT !.since = k] \in Master
                               /\ [host EXCEPT !.since = k].sent = host.sent
  BY <1>1, <1>4, Zenon DEF Master
<1>7. \/ Waiting = host \/ Waiting = [host EXCEPT !.waiting = FALSE, !.since = 0]
      \/ host.since # Patience /\ Waiting = [host EXCEPT !.since = k]
  BY DEF Waiting, k
<1>8. Waiting \in Master /\ Waiting.sent = host.sent
  BY <1>1, <1>5, <1>6, <1>7
<1>. QED  BY <1>8 DEF Master

LEMMA SentTypes ==
  ASSUME Types, NEW h \in Master, h.sent < FrameLength, NEW bad \in BOOLEAN
  PROVE  /\ Sent(h, bad) \in Master /\ Sent(h, bad).sent = h.sent + 1
         /\ Sent(h, bad).frame = h.frame
<1> DEFINE k == h.sent + 1
           w == k = FrameLength /\ h.frame \in Requests
           c == h.clean /\ ~bad /\ ~pin
<1>1. k \in 0 .. FrameLength /\ w \in BOOLEAN /\ c \in BOOLEAN
  BY Constants DEF Master
<1>2. Sent(h, bad) = [h EXCEPT !.sent = k, !.waiting = w, !.clean = c]
  BY Zenon DEF Sent, Master
<1>. HIDE DEF k, w, c
<1>3. /\ Sent(h, bad) \in Master /\ Sent(h, bad).sent = k
      /\ Sent(h, bad).frame = h.frame
  BY <1>1, <1>2, Zenon DEF Master
<1>. QED  BY <1>3 DEF k

LEMMA HostByteTypes ==
  ASSUME Types, NEW bad \in BOOLEAN, HostByte(bad)
  PROVE  host' \in Master
<1>1. host \in Master /\ 0 \in 0 .. FrameLength
  BY Constants DEF Types, Master
<1>2. CASE InFrame
  BY <1>1, <1>2, SentTypes DEF HostByte, InFrame
<1>3. CASE ~InFrame
  <2> DEFINE h(f) == [host EXCEPT !.frame = f, !.sent = 0, !.clean = calm = Recovery]
  <2>1. PICK f \in Frames : host' = Sent(h(f), bad)
    BY <1>3 DEF HostByte
  <2>2. h(f) \in Master /\ h(f).sent = 0
    BY <1>1, Zenon DEF Master
  <2>. HIDE DEF h
  <2>. QED  BY <2>1, <2>2, SentTypes, Constants
<1>. QED  BY <1>2, <1>3

LEMMA AgedFacts ==
  ASSUME Types
  PROVE  /\ Aged \in Seq(Event) /\ Len(Aged) = Len(queue)
         /\ \A i \in 1 .. Len(queue) :
              /\ Aged[i].byte = queue[i].byte /\ Aged[i].bad = queue[i].bad
              /\ Aged[i].age = Older(queue[i].age)
         /\ AgedFault \in [new : BOOLEAN, age : Age] /\ AgedFault.new = fault.new
         /\ fault.new => AgedFault.age = Older(fault.age)
<1>1. DOMAIN queue = 1 .. Len(queue) /\ Len(queue) \in Nat
  BY QueueFacts, LenProperties
<1>2. \A i \in 1 .. Len(queue) :
        LET n == [queue[i] EXCEPT !.age = Older(@)]
        IN  /\ n \in Event /\ n.byte = queue[i].byte /\ n.bad = queue[i].bad
            /\ n.age = Older(queue[i].age)
  <2>. TAKE i \in 1 .. Len(queue)
  <2>1. queue[i] \in Event /\ queue[i].age \in Age
    BY QueueFacts DEF Event
  <2>2. Older(queue[i].age) \in Age
    BY <2>1, OlderAge
  <2>. QED  BY <2>1, <2>2, Zenon DEF Event
<1>3. Aged = [i \in 1 .. Len(queue) |-> [queue[i] EXCEPT !.age = Older(@)]]
  BY <1>1 DEF Aged
<1>4. Aged \in Seq(Event) /\ Len(Aged) = Len(queue)
  BY <1>1, <1>2, <1>3
<1>5. fault \in [new : BOOLEAN, age : Age] /\ 0 \in Age /\ Older(fault.age) \in Age
  BY OlderAge, Constants DEF Types, Age
<1>6. /\ AgedFault \in [new : BOOLEAN, age : Age] /\ AgedFault.new = fault.new
      /\ fault.new => AgedFault.age = Older(fault.age)
  BY <1>5, Zenon DEF AgedFault
<1>. QED  BY <1>2, <1>3, <1>4, <1>6

(* The byte that would come next in the segment of the last one, and       *)
(* whether damage in this segment reaches it.                              *)
NextGap == line.age + 1 >= T35
NextTorn == line.torn /\ ~NextGap
NextSegment == IF NextGap \/ line.cut THEN 1 - line.segment ELSE line.segment

Unheard ==
  /\ queue' = Aged /\ fault' = AgedFault
  /\ \/ line' = [line EXCEPT !.age = IF @ < Turnaround THEN @ + 1 ELSE @]
     \/ pin /\ line' = [line EXCEPT !.age = 0, !.cut = TRUE, !.torn = FALSE]

Heard(e) ==
  /\ ~pin /\ queue' = Append(Aged, e) /\ e.age = 0
  /\ e.byte.torn <=> e.bad \/ NextTorn
  /\ e.byte.segment = NextSegment
  /\ fault' = IF e.bad THEN [new |-> TRUE, age |-> 0] ELSE AgedFault
  /\ line' = [age |-> 0, segment |-> e.byte.segment, cut |-> e.bad, torn |-> e.byte.torn]

LEMMA ReceiveDoes ==
  ASSUME Types, NEW f \in Frames \cup {None}, NEW part \in 0 .. FrameLength,
         NEW bad \in BOOLEAN, Receive(f, part, bad)
  PROVE  Unheard \/ \E e \in Event : Heard(e)
<1>1. CASE pin
  BY <1>1 DEF Receive, Unheard
<1>2. CASE ~pin
  <2> DEFINE torn == bad \/ NextTorn
             b == [frame |-> f, part |-> part, segment |-> NextSegment, torn |-> torn]
             e == [byte |-> b, bad |-> bad, age |-> 0]
  <2>1. line \in Wire /\ line.segment \in {0, 1} /\ 0 \in Age
    BY Constants DEF Types, Wire, Age
  <2>2. NextSegment \in {0, 1} /\ torn \in BOOLEAN
    BY <2>1 DEF NextSegment
  <2>3. /\ queue' = Append(Aged, e)
        /\ fault' = IF bad THEN [new |-> TRUE, age |-> 0] ELSE AgedFault
        /\ line' = [age |-> 0, segment |-> NextSegment, cut |-> bad, torn |-> torn]
    BY <1>2, Zenon DEF Receive, NextGap, NextTorn, NextSegment
  <2>. HIDE DEF torn
  <2>4. b \in Byte /\ b.torn = torn /\ b.segment = NextSegment
    BY <2>2, Zenon DEF Byte
  <2>. HIDE DEF b
  <2>5. e \in Event /\ e.bad = bad /\ e.age = 0 /\ e.byte = b
    BY <2>1, <2>4, Zenon DEF Event
  <2>. HIDE DEF e
  <2>6. e.byte.torn = (e.bad \/ NextTorn)
    BY <2>4, <2>5 DEF torn
  <2>7. Heard(e)
    BY <1>2, <2>3, <2>4, <2>5, <2>6, Zenon DEF Heard
  <2>. QED  BY <2>5, <2>7
<1>. QED  BY <1>1, <1>2

(* The line and the host in a character time                               *)
LEMMA WorldDoes ==
  ASSUME Types, Tick
  PROVE  /\ Unheard \/ \E e \in Event : Heard(e)
         /\ host' \in Master /\ stuck' \in BOOLEAN
         /\ faults' \in 0 .. MaxFaults /\ calm' \in 0 .. Recovery
<1>1. faults \in 0 .. MaxFaults /\ calm \in 0 .. Recovery /\ stuck \in BOOLEAN
      /\ host \in Master
  BY DEF Types
<1>2. Fault \/ NoNewFault => faults' \in 0 .. MaxFaults /\ calm' \in 0 .. Recovery
  BY <1>1, Constants DEF Fault, NoNewFault, Lingers
<1>3. Silent => Unheard
  BY DEF Silent, Unheard
<1>4. CASE Pause
  BY <1>1, <1>2, <1>3, <1>4, WaitingTypes DEF Pause
<1>5. ASSUME NEW bad \in BOOLEAN, HostByte(bad)
      PROVE  /\ Unheard \/ \E e \in Event : Heard(e)
             /\ host' \in Master /\ stuck' \in BOOLEAN
             /\ faults' \in 0 .. MaxFaults /\ calm' \in 0 .. Recovery
  <2>1. host' \in Master
    BY <1>5, HostByteTypes
  <2>2. Receive(host'.frame, host'.sent, bad) /\ (Fault \/ NoNewFault) /\ UNCHANGED stuck
    BY <1>5 DEF HostByte
  <2>3. host'.frame \in Frames \cup {None} /\ host'.sent \in 0 .. FrameLength
    BY <2>1 DEF Master
  <2>. QED  BY <1>1, <1>2, <2>1, <2>2, <2>3, ReceiveDoes
<1>6. ASSUME NEW bad \in BOOLEAN, Noise(bad)
      PROVE  /\ Unheard \/ \E e \in Event : Heard(e)
             /\ host' \in Master /\ stuck' \in BOOLEAN
             /\ faults' \in 0 .. MaxFaults /\ calm' \in 0 .. Recovery
  <2>1. host' \in Master
    BY <1>6, WaitingTypes, Zenon DEF Noise, Master
  <2>2. Receive(None, 0, bad) /\ Fault /\ UNCHANGED stuck
    BY <1>6 DEF Noise
  <2>3. None \in Frames \cup {None} /\ 0 \in 0 .. FrameLength
    BY Constants
  <2>. QED  BY <1>1, <1>2, <2>1, <2>2, <2>3, ReceiveDoes
<1>7. CASE BreakOff
  <2>1. FrameLength \in 0 .. FrameLength
    BY Constants
  <2>2. host' \in Master
    BY <1>1, <1>7, <2>1, Zenon DEF BreakOff, Master
  <2>. QED  BY <1>1, <1>2, <1>3, <1>7, <2>2 DEF BreakOff
<1>8. CASE Stick
  <2>1. host' \in Master
    BY <1>8, WaitingTypes, Zenon DEF Stick, Master
  <2>. QED  BY <1>1, <1>2, <1>3, <1>8, <2>1 DEF Stick
<1>. QED  BY <1>4, <1>5, <1>6, <1>7, <1>8, Zenon DEF Tick

Aging(t) == [t EXCEPT !.age = IF pc = "SENDING" /\ t.state # "COMPLETE" THEN Older(@) ELSE 0]
Shifted == IF stuck \/ pipe = 0 THEN pipe ELSE pipe - 1

LEMMA AgingDoes ==
  ASSUME Types
  PROVE  LET n == Aging(tx)
         IN  /\ Progress(n) /\ n.state = tx.state /\ n.next = tx.next /\ n.frame = tx.frame
             /\ n.age = IF Busy(tx) THEN Older(tx.age) ELSE 0
             /\ Shifted \in 0 .. 2 /\ (Shifted = pipe \/ (pipe > 0 /\ Shifted = pipe - 1))
<1>1. tx \in Answer /\ tx.age \in Age /\ 0 \in Age /\ Older(tx.age) \in Age /\ Progress(tx)
  BY OlderAge, Constants DEF Types, Progress, Answer, Age
<1> DEFINE a == IF pc = "SENDING" /\ tx.state # "COMPLETE" THEN Older(tx.age) ELSE 0
<1>2. a \in Age
  BY <1>1
<1>3. a = IF Busy(tx) THEN Older(tx.age) ELSE 0
  BY <1>1 DEF Types, Busy, Answer, TxState
<1>4. Aging(tx) = [tx EXCEPT !.age = a]
  BY <1>1 DEF Aging, Answer
<1>. HIDE DEF a
<1>5. /\ Aging(tx) \in Answer /\ Aging(tx).state = tx.state /\ Aging(tx).next = tx.next
      /\ Aging(tx).age = a /\ Aging(tx).frame = tx.frame
  BY <1>1, <1>2, <1>4 DEF Answer
<1>6. Progress(Aging(tx))
  BY <1>1, <1>3, <1>5 DEF Progress, Busy
<1>7. Shifted \in 0 .. 2 /\ (Shifted = pipe \/ (pipe > 0 /\ Shifted = pipe - 1))
  BY DEF Shifted, Types
<1>. QED  BY <1>3, <1>5, <1>6, <1>7

LEMMA LineTypes ==
  ASSUME Types, Unheard \/ \E e \in Event : Heard(e)
  PROVE  queue' \in Seq(Event) /\ fault' \in [new : BOOLEAN, age : Age] /\ line' \in Wire
<1>1. line \in Wire /\ 0 \in Age /\ 0 \in 0 .. Turnaround
  BY Constants DEF Types, Age
<1>2. CASE Unheard
  <2>1. (IF line.age < Turnaround THEN line.age + 1 ELSE line.age) \in 0 .. Turnaround
    BY <1>1, Constants DEF Wire
  <2> DEFINE a == IF line.age < Turnaround THEN line.age + 1 ELSE line.age
  <2>2. line' = [line EXCEPT !.age = a]
        \/ line' = [line EXCEPT !.age = 0, !.cut = TRUE, !.torn = FALSE]
    BY <1>1, <1>2, Zenon DEF Unheard, Wire
  <2>. HIDE DEF a
  <2>3. line' \in Wire
    BY <1>1, <2>1, <2>2, Zenon DEF Wire, a
  <2>. QED  BY <1>2, <2>3, AgedFacts DEF Unheard
<1>3. CASE \E e \in Event : Heard(e)
  <2>1. PICK e \in Event : Heard(e)
    BY <1>3
  <2>2. e.byte \in Byte /\ e.bad \in BOOLEAN
    BY <2>1 DEF Event
  <2>3. e.byte.segment \in {0, 1} /\ e.byte.torn \in BOOLEAN
    BY <2>2 DEF Byte
  <2>4. line' \in Wire
    BY <1>1, <2>1, <2>2, <2>3, Zenon DEF Heard, Wire
  <2>5. queue' \in Seq(Event)
    BY <2>1, AgedFacts, AppendProperties DEF Heard
  <2>6. fault' \in [new : BOOLEAN, age : Age]
    BY <1>1, <2>1, AgedFacts, Zenon DEF Heard
  <2>. QED  BY <2>4, <2>5, <2>6
<1>. QED  BY <1>2, <1>3

(* What a character time does to the slave                                 *)
LEMMA TickDoes ==
  ASSUME Types, Tick
  PROVE  /\ lag' = (IF Runnable THEN lag + 1 ELSE 0) /\ (Runnable => lag < MaxLag)
         /\ pc' = pc /\ sample' = (IF pc = "POLL" THEN Older(sample) ELSE 0)
         /\ waited' = (IF pc = "RECEIVE" /\ waited < RxWait THEN waited + 1 ELSE waited)
         /\ Fits(rx') /\ rx'.active = rx.active /\ rx'.ready = rx.ready /\ rx'.over = rx.over
         /\ rx'.overran = rx.overran
         /\ rx'.age = (IF rx.active = <<>> THEN 0 ELSE Older(rx.age))
         /\ recovery' \in Distrust /\ recovery'.discarding = recovery.discarding
         /\ recovery'.blind = recovery.blind
         /\ recovery'.age = (IF recovery.discarding THEN Older(recovery.age) ELSE 0)
         /\ Transmitter(Aging(tx), Shifted, pin)
<1>1. 0 \in Age /\ Fits(rx) /\ rx \in Receiver /\ rx.age \in Age /\ recovery \in Distrust
      /\ recovery.age \in Age /\ Older(rx.age) \in Age /\ Older(recovery.age) \in Age
  <2>1. Fits(rx) /\ rx \in Receiver /\ recovery \in Distrust /\ 0 \in Age
    BY Constants DEF Types, Fits, Age
  <2>2. rx.age \in Age /\ recovery.age \in Age
    BY <2>1 DEF Receiver, Distrust
  <2>. QED  BY <2>1, <2>2, OlderAge
<1>2. /\ lag' = (IF Runnable THEN lag + 1 ELSE 0) /\ (Runnable => lag < MaxLag)
      /\ pc' = pc /\ sample' = (IF pc = "POLL" THEN Older(sample) ELSE 0)
      /\ waited' = (IF pc = "RECEIVE" /\ waited < RxWait THEN waited + 1 ELSE waited)
      /\ rx' = [rx EXCEPT !.age = IF rx.active = <<>> THEN 0 ELSE Older(@)]
      /\ recovery' = [recovery EXCEPT !.age = IF recovery.discarding THEN Older(@) ELSE 0]
  BY Zenon DEF Tick
<1>3. Transmitter(Aging(tx), Shifted, pin)
  BY Zenon DEF Tick, Aging, Shifted
<1>4. /\ rx' \in Receiver /\ rx'.active = rx.active /\ rx'.ready = rx.ready
      /\ rx'.over = rx.over /\ rx'.overran = rx.overran
      /\ rx'.age = (IF rx.active = <<>> THEN 0 ELSE Older(rx.age))
  BY <1>1, <1>2, Zenon DEF Receiver
<1>5. /\ recovery' \in Distrust /\ recovery'.discarding = recovery.discarding
      /\ recovery'.blind = recovery.blind
      /\ recovery'.age = (IF recovery.discarding THEN Older(recovery.age) ELSE 0)
  BY <1>1, <1>2, Zenon DEF Distrust
<1>. QED  BY <1>1, <1>2, <1>3, <1>4, <1>5, Zenon DEF Fits

LEMMA TickTypes ==
  ASSUME Types, Tick
  PROVE  Types'
<1>1. /\ host' \in Master /\ stuck' \in BOOLEAN
      /\ faults' \in 0 .. MaxFaults /\ calm' \in 0 .. Recovery
      /\ queue' \in Seq(Event) /\ fault' \in [new : BOOLEAN, age : Age] /\ line' \in Wire
  BY WorldDoes, LineTypes, Zenon
<1>2. /\ Fits(rx') /\ recovery' \in Distrust /\ pc' = pc
      /\ pc \in {"SERVICE", "RECEIVE", "DRAIN", "POLL", "SEND", "SENDING"}
  BY TickDoes DEF Types
<1>3. lag' \in 0 .. MaxLag /\ waited' \in 0 .. RxWait
  <2>1. lag \in 0 .. MaxLag /\ waited \in 0 .. RxWait
    BY DEF Types
  <2>2. /\ lag' = (IF Runnable THEN lag + 1 ELSE 0) /\ (Runnable => lag < MaxLag)
        /\ waited' = (IF pc = "RECEIVE" /\ waited < RxWait THEN waited + 1 ELSE waited)
    BY TickDoes
  <2>. QED  BY <2>1, <2>2, Constants
<1>4. sample' \in Age
  <2>1. sample \in Age /\ 0 \in Age
    BY Constants DEF Types, Age
  <2>. QED  BY <2>1, TickDoes, OlderAge
<1>5. /\ Progress(tx') /\ pipe' \in 0 .. 2 /\ pin' \in BOOLEAN /\ (pin' <=> Busy(tx'))
      /\ (tx'.state = "IDLE" <=> pc' # "SENDING")
  <2>1. /\ Progress(Aging(tx)) /\ Aging(tx).state = tx.state /\ Shifted \in 0 .. 2
    BY AgingDoes
  <2>2. pin \in BOOLEAN /\ (pin <=> Busy(Aging(tx))) /\ (tx.state = "IDLE" <=> pc # "SENDING")
    BY <2>1 DEF Types, Busy
  <2>3. Transmitter(Aging(tx), Shifted, pin) /\ pc' = pc
    BY TickDoes
  <2>4. /\ Progress(tx') /\ pipe' \in 0 .. 2 /\ pin' \in BOOLEAN /\ (pin' <=> Busy(tx'))
        /\ (tx'.state = "IDLE" <=> Aging(tx).state = "IDLE")
    BY <2>1, <2>2, <2>3, TransmitterDoes
  <2>. QED  BY <2>1, <2>2, <2>3, <2>4
<1>. QED  BY <1>1, <1>2, <1>3, <1>4, <1>5 DEF Types

LEMMA NextTypes == Types /\ [Next]_vars => Types'
<1>. SUFFICES ASSUME Types, [Next]_vars  PROVE Types'
  OBVIOUS
<1>1. CASE UNCHANGED vars
  BY <1>1 DEF vars, Types, Busy
<1>2. CASE Next
  BY <1>2, SlaveStepTypes, AnswerStepTypes, RefuseErrorTypes, TickTypes DEF Next
<1>. QED  BY <1>1, <1>2

(* Every variable keeps its type: the state of an answer in the middle of  *)
(* it says how much of it is left, and the driver is on exactly while one  *)
(* is on the way.                                                          *)
THEOREM SlaveTypeCorrect == Spec => []TypeOK
<1>1. Spec => []Types
  BY InitTypes, NextTypes, PTL DEF Spec
<1>. QED  BY <1>1, TypesGiveTypeOK, PTL

(* -------------------------- what ages mean ---------------------------- *)

(* No age that counts gets beyond Horizon, half of what the clock can tell *)
(* apart.                                                                  *)
Horizon == T35 + RxWait + Budget + 3 * MaxLag

LEMMA Remainder ==
  ASSUME NEW a \in Int, NEW q \in Int, NEW r \in 0 .. Clock - 1, a = Clock * q + r
  PROVE  a % Clock = r
  BY Constants

LEMMA SilentGapMeans ==
  ASSUME NEW last \in Age, NEW age \in Age
  PROVE  /\ last >= age /\ last - age < Horizon =>
              (SilentGap(last, age) <=> last - age >= T35)
         /\ last - age < T35 /\ age < Horizon => ~SilentGap(last, age)
<1> DEFINE elapsed == (last - age) % Clock
           half == Clock \div 2
<1>1. /\ half \in Nat /\ Horizon \in Nat /\ half >= Horizon /\ half + Horizon <= Clock
      /\ last \in Nat /\ age \in Nat /\ last < Clock /\ age < Clock
      /\ T35 \in Nat
  BY Constants DEF Horizon, Age
<1>2. SilentGap(last, age) <=> elapsed < half /\ elapsed >= T35
  BY DEF SilentGap
<1>. HIDE DEF half
<1>3. ASSUME last >= age  PROVE elapsed = last - age
  <2>1. last - age \in 0 .. Clock - 1 /\ last - age = Clock * 0 + (last - age)
    BY <1>1, <1>3, Constants
  <2>. QED  BY <2>1, Remainder
<1>4. ASSUME last < age  PROVE elapsed = Clock - (age - last)
  <2> DEFINE q == 0 - 1
             r == Clock - (age - last)
  <2>1. r \in 0 .. Clock - 1 /\ last - age \in Int
    BY <1>1, <1>4, Constants
  <2>2. last - age = Clock * q + r /\ q \in Int
    BY <1>1, Constants
  <2>. HIDE DEF q, r
  <2>3. (last - age) % Clock = r
    BY <2>1, <2>2, Remainder
  <2>. QED  BY <2>3 DEF r
<1>. HIDE DEF elapsed
<1>5. ASSUME last >= age, last - age < Horizon
      PROVE  SilentGap(last, age) <=> last - age >= T35
  BY <1>1, <1>2, <1>3, <1>5
<1>6. ASSUME last - age < T35, age < Horizon
      PROVE  ~SilentGap(last, age)
  <2>1. CASE last >= age
    BY <1>1, <1>2, <1>3, <1>6, <2>1
  <2>2. CASE last < age
    <3>1. elapsed = Clock - (age - last)
      BY <1>4, <2>2
    <3>2. elapsed >= half
      BY <1>1, <1>6, <3>1, Constants
    <3>. QED  BY <1>1, <1>2, <3>1, <3>2, Constants
  <2>. QED  BY <1>1, <2>1, <2>2
<1>. QED  BY <1>5, <1>6

(* The task leaves an event in the queue no longer than it can be kept     *)
(* from running, before it sends an answer, while and after it.            *)
Oldest == MaxLag + Budget
Longest == Oldest + MaxLag

Young(a) ==
  /\ a <= Oldest + lag
  /\ pc \in {"POLL", "SEND"} => a <= lag
  /\ pc = "POLL" => a <= sample
  /\ Busy(tx) => tx.age <= a /\ (tx.age <= Budget => a <= MaxLag + tx.age)

Driving == Busy(tx) => tx.next <= tx.age + pipe /\ tx.age <= Budget + lag
Queued == \A i \in 1 .. Len(queue) : Young(queue[i].age)

(* The bytes of an unfinished frame. While the task waits, their silence   *)
(* is as long as it has waited; when it polls, the frame is finished.      *)
Held == rx.active # <<>>
Bounded ==
  /\ rx.age <= Longest + RxWait + lag
  /\ pc = "DRAIN" \/ (pc = "SERVICE" /\ queue = <<>>) => rx.age <= Oldest + lag
  /\ pc = "RECEIVE" => /\ waited <= rx.age
                       /\ queue = <<>> /\ waited < RxWait => rx.age <= Longest + waited
  /\ pc = "POLL" => rx.age >= sample + RxWait
  /\ pc \notin {"SEND", "SENDING"} /\ ~recovery.discarding

Sampled == (pc = "POLL" => sample <= lag) /\ (pc = "SERVICE" => waited = 0)
Emptied == recovery.discarding => rx.ready = <<>>
Bounds == Driving /\ Queued /\ Sampled /\ Emptied /\ (Held => Bounded)

LEMMA InitBounds == Init => Bounds
  BY Constants, IdleProgress
     DEF Init, Bounds, Driving, Queued, Sampled, Emptied, Held, Trusting, NoRx

LEMMA Bounding ==
  /\ Oldest \in Nat /\ Longest \in Nat /\ Horizon \in Nat /\ 2 * Horizon < Clock
  /\ Oldest + MaxLag < Horizon /\ Longest + RxWait + MaxLag + T35 = Horizon
  /\ MaxLag \in Nat /\ Budget \in Nat /\ RxWait \in Nat /\ T35 \in Nat /\ Clock \in Nat
  /\ T35 <= RxWait /\ 1 <= T35 /\ Oldest = MaxLag + Budget /\ Longest = Oldest + MaxLag
  BY Constants DEF Oldest, Longest, Horizon

LEMMA Numbers ==
  ASSUME Types
  PROVE  /\ lag \in Nat /\ lag <= MaxLag /\ waited \in Nat /\ waited <= RxWait
         /\ pipe \in Nat /\ sample \in Nat /\ sample < Clock
         /\ tx.age \in Nat /\ tx.age < Clock /\ tx.next \in Nat
         /\ rx.age \in Nat /\ rx.age < Clock
         /\ recovery.age \in Nat /\ recovery.age < Clock
         /\ line.age \in Nat
<1>1. lag \in 0 .. MaxLag /\ waited \in 0 .. RxWait /\ pipe \in 0 .. 2 /\ sample \in Age
  BY DEF Types
<1>2. tx.age \in Age /\ tx.next \in 0 .. AnswerLength
  BY DEF Types, Progress, Answer
<1>3. rx.age \in Age /\ recovery.age \in Age
  BY DEF Types, Fits, Receiver, Distrust
<1>4. line.age \in 0 .. Turnaround
  BY DEF Types, Wire
<1>5. \A a \in Age : a \in Nat /\ a < Clock
  BY Constants DEF Age
<1>. QED  BY <1>1, <1>2, <1>3, <1>4, <1>5, Constants

LEMMA EventAges ==
  ASSUME Types
  PROVE  \A i \in 1 .. Len(queue) : queue[i].age \in Nat /\ queue[i].age < Clock
<1>1. \A i \in 1 .. Len(queue) : queue[i].age \in Age
  BY QueueFacts DEF Event
<1>. QED  BY <1>1, Constants DEF Age

LEMMA NotRunnable ==
  ASSUME Types, ~Runnable
  PROVE  \/ pc = "RECEIVE" /\ queue = <<>> /\ waited < RxWait
         \/ pc = "SENDING" /\ Busy(tx) /\ tx.age < Budget
<1>1. pc = "RECEIVE" \/ pc = "SENDING"
  BY DEF Runnable
<1>2. CASE pc = "RECEIVE"
  <2>1. queue = <<>> /\ ~(waited >= RxWait)
    BY <1>2 DEF Runnable
  <2>. QED  BY <1>2, <2>1, Numbers, Constants
<1>3. CASE pc = "SENDING"
  <2>1. tx.state \in TxState /\ tx.state # "IDLE"
    BY <1>3 DEF Types, Progress, Answer
  <2>2. tx.state # "COMPLETE" /\ ~(tx.age >= Budget)
    BY <1>3 DEF Runnable
  <2>3. Busy(tx)
    BY <2>1, <2>2 DEF Busy, TxState
  <2>4. tx.age < Budget
    <3>1. tx.age \in Nat /\ Budget \in Nat
      BY Numbers, Constants
    <3>. QED  BY <2>2, <3>1
  <2>. QED  BY <1>3, <2>3, <2>4
<1>. QED  BY <1>1, <1>2, <1>3

(* An event taken: what it can leave in the receiver.                      *)
LEMMA HandledHolds ==
  ASSUME Types, Bounds, TakeEvent
  PROVE  /\ Held' => rx'.age = queue[1].age /\ ~recovery'.discarding
         /\ recovery'.discarding => rx'.ready = <<>>
<1> DEFINE e == queue[1]
<1>1. PICK r, c : Handled(e, r, c) /\ Service(r, c) /\ Fits(r)
  BY TakeEventDoes
<1>2. queue # <<>> /\ e \in Event /\ e.age \in Age /\ e.byte \in Byte /\ Fits(rx)
  BY TakeEventDoes DEF Event, Types
<1>3. recovery.discarding => rx.active = <<>> /\ rx.ready = <<>>
  BY DEF Bounds, Held, Bounded, Emptied
<1>. HIDE DEF e
<1>4. CASE fault.new
  <2>1. rx' = Discard(r)
    BY <1>1, <1>4 DEF Service
  <2>. QED  BY <1>1, <2>1, DiscardFits DEF Held
<1>5. CASE ~fault.new
  <2>1. rx' = r /\ recovery' = c
    BY <1>1, <1>5 DEF Service
  <2>2. CASE e.bad /\ ~recovery.discarding /\ r = Discard(rx)
    BY <1>2, <2>1, <2>2, DiscardFits DEF Held
  <2>3. CASE /\ recovery.discarding /\ r = rx
    BY <1>3, <2>1, <2>3 DEF Held
  <2>4. CASE Accepts(e.age) /\ r = Push(rx, e.byte, e.age) /\ c = After(e.age)
    <3>1. r.age = e.age
      BY <1>2, <2>4, PushFits
    <3>2. ~c.discarding
      BY <2>4, Zenon DEF After, Accepts, Trusting
    <3>. QED  BY <2>1, <3>1, <3>2 DEF e
  <2>. QED  BY <1>1, <2>2, <2>3, <2>4 DEF Handled, Accepts
<1>. QED  BY <1>4, <1>5

LEMMA PollFinishes ==
  ASSUME Types, Bounds, PollSlave, ~fault.new, Accepts(sample)
  PROVE  /\ rx'.active = <<>> /\ rx'.ready = <<>> /\ ~recovery'.discarding
         /\ recovery' = After(sample) /\ UNCHANGED fault
         /\ Progress(tx') /\ tx'.state = tx.state /\ tx'.age = tx.age /\ tx'.next = tx.next
<1> DEFINE p == PollRx(rx, sample)
<1>1. /\ rx' = TakeFrame(p) /\ recovery' = After(sample) /\ UNCHANGED fault
      /\ tx' = [tx EXCEPT !.frame = Served(p.ready)] /\ pc = "POLL"
  BY DEF PollSlave
<1>2. Fits(rx) /\ sample \in Age /\ Progress(tx) /\ Fits(p)
  BY PollRxFits DEF Types
<1>3. p.active = <<>>
  <2>1. CASE Held
    <3>1. rx.age >= sample + RxWait /\ rx.age <= Longest + RxWait + lag
      <4>1. Bounded
        BY <2>1 DEF Bounds
      <4>2. pc = "POLL"
        BY <1>1
      <4>. QED  BY <4>1, <4>2 DEF Bounded
    <3>2. rx.age >= sample /\ rx.age - sample >= T35 /\ rx.age - sample < Horizon
      BY <3>1, Numbers, Bounding
    <3>3. SilentGap(rx.age, sample)
      BY <1>2, <3>2, SilentGapMeans DEF Fits, Receiver
    <3>. QED  BY <1>2, <2>1, <3>3, PollRxFits, PublishFits DEF GapElapsed, Held
  <2>2. CASE ~Held
    <3>1. ~GapElapsed(rx, sample)
      BY <2>2 DEF Held, GapElapsed
    <3>. QED  BY <1>2, <2>2, <3>1, PollRxFits DEF Held
  <2>. QED  BY <2>1, <2>2
<1>4. Served(p.ready) \in Frames \cup {None}
  BY <1>2, ServedTypes DEF Fits, Receiver
<1>5. Progress(tx') /\ tx'.state = tx.state /\ tx'.age = tx.age /\ tx'.next = tx.next
  BY <1>1, <1>2, <1>4, AnswerWith
<1>6. ~recovery'.discarding
  BY <1>1, Zenon DEF After, Accepts, Trusting
<1>7. rx'.active = <<>> /\ rx'.ready = <<>>
  BY <1>1, <1>2, <1>3, TakeFrameFits
<1>. QED  BY <1>1, <1>5, <1>6, <1>7

(* Ages and bounds do not change in a step that takes no time, while the   *)
(* task stays outside the states that ask for more.                        *)
LEMMA StillYoung ==
  ASSUME Types, NEW a, Young(a), lag' = lag, tx' = tx \/ ~Busy(tx'),
         pc' \in {"SERVICE", "RECEIVE", "DRAIN"} \/ (pc = "POLL" /\ pc' = "SEND")
  PROVE  Young(a)'
<1>1. a <= Oldest + lag'
  BY DEF Young
<1>2. pc' \in {"POLL", "SEND"} => a <= lag'
  BY DEF Young
<1>3. Busy(tx') => tx'.age <= a /\ (tx'.age <= Budget => a <= MaxLag + tx'.age)
  BY DEF Young, Busy
<1>. QED  BY <1>1, <1>2, <1>3 DEF Young

LEMMA ServiceFaultBounds ==
  ASSUME Types, Bounds, ServiceFault
  PROVE  Bounds'
<1>1. /\ Service(rx, recovery) /\ pc = "SERVICE" /\ pc' = "RECEIVE"
      /\ UNCHANGED <<queue, waited, sample, tx, pin, pipe, stuck, lag>>
  BY DEF ServiceFault
<1>2. Driving' /\ Sampled'
  BY <1>1 DEF Bounds, Driving, Sampled, Busy
<1>3. Queued'
  BY <1>1, StillYoung DEF Bounds, Queued
<1>4. \/ rx'.active = <<>> /\ rx'.ready = <<>>
      \/ UNCHANGED <<rx, recovery>>
  BY <1>1, DiscardFits DEF Service, Types
<1>5. Emptied'
  BY <1>4 DEF Bounds, Emptied
<1>6. waited = 0
  BY <1>1 DEF Bounds, Sampled
<1>7. ASSUME Held'  PROVE Bounded'
  <2>1. UNCHANGED <<rx, recovery>> /\ Bounded
    BY <1>4, <1>7 DEF Bounds, Held
  <2>2. ~recovery'.discarding
    BY <2>1 DEF Bounded
  <2>3. UNCHANGED <<rx, lag, queue>> /\ rx.age <= Longest + RxWait + lag
        /\ (queue = <<>> => rx.age <= Oldest + lag)
    BY <1>1, <2>1 DEF Bounded
  <2>4. rx'.age <= Longest + RxWait + lag'
    BY <2>3
  <2>5. queue' = <<>> => rx'.age <= Longest + waited'
    BY <1>1, <1>6, <2>3, Numbers, Bounding
  <2>6. waited' <= rx'.age
    BY <1>1, <1>6, <2>3, Numbers
  <2>. QED  BY <1>1, <2>2, <2>4, <2>5, <2>6 DEF Bounded
<1>. QED  BY <1>2, <1>3, <1>5, <1>7 DEF Bounds

LEMMA TakeEventBounds ==
  ASSUME Types, Bounds, TakeEvent
  PROVE  Bounds'
<1>1. /\ pc \in {"RECEIVE", "DRAIN"} /\ queue # <<>> /\ queue' = Tail(queue) /\ pc' = "DRAIN"
      /\ waited' = 0 /\ UNCHANGED <<sample, tx, pin, pipe, lag>>
  BY DEF TakeEvent
<1>2. Driving' /\ Sampled'
  BY <1>1 DEF Bounds, Driving, Sampled, Busy
<1>3. Queued'
  <2>. SUFFICES ASSUME NEW i \in 1 .. Len(queue')  PROVE Young(queue[i].age)'
    BY DEF Queued
  <2>1. queue'[i] = queue[i + 1] /\ i + 1 \in 1 .. Len(queue)
    BY <1>1, TailFacts, QueueFacts
  <2>2. Young(queue[i + 1].age)
    BY <2>1 DEF Bounds, Queued
  <2>. QED  BY <1>1, <2>1, <2>2, StillYoung
<1>4. Emptied'
  BY HandledHolds DEF Emptied
<1>5. ASSUME Held'  PROVE Bounded'
  <2>1. rx'.age = queue[1].age /\ ~recovery'.discarding
    BY <1>5, HandledHolds
  <2>2. 1 \in 1 .. Len(queue)
    BY <1>1, QueueFacts
  <2>3. rx'.age <= Oldest + lag'
    <3>1. Young(queue[1].age)
      BY <2>2 DEF Bounds, Queued
    <3>2. queue[1].age <= Oldest + lag
      BY <3>1 DEF Young
    <3>. QED  BY <1>1, <2>1, <3>2
  <2>4. rx'.age <= Longest + RxWait + lag'
    <3>1. queue[1].age \in Nat
      BY <2>2, EventAges
    <3>2. rx'.age \in Nat /\ lag' \in Nat
      BY <1>1, <2>1, <3>1, Numbers
    <3>. QED  BY <2>3, <3>2, Bounding
  <2>. QED  BY <1>1, <2>1, <2>3, <2>4 DEF Bounded
<1>. QED  BY <1>2, <1>3, <1>4, <1>5 DEF Bounds

LEMMA DrainedBounds ==
  ASSUME Types, Bounds, Drained
  PROVE  Bounds'
<1>1. /\ pc = "DRAIN" /\ queue = <<>> /\ pc' = "SERVICE" /\ waited' = 0
      /\ UNCHANGED <<queue, rx, recovery, sample, tx, pin, pipe, lag>>
  BY DEF Drained, Wait
<1>2. Driving' /\ Sampled' /\ Emptied'
  BY <1>1 DEF Bounds, Driving, Sampled, Busy, Emptied
<1>3. Queued'
  BY <1>1, StillYoung DEF Bounds, Queued
<1>4. Held' => Bounded'
  BY <1>1 DEF Bounds, Held, Bounded
<1>. QED  BY <1>2, <1>3, <1>4 DEF Bounds

LEMMA TimeOutBounds ==
  ASSUME Types, Bounds, TimeOut
  PROVE  Bounds'
<1>1. /\ pc = "RECEIVE" /\ waited >= RxWait /\ waited' = 0 /\ sample' = 0
      /\ pc' = (IF queue = <<>> THEN "POLL" ELSE "SERVICE")
      /\ UNCHANGED <<queue, rx, recovery, tx, pin, pipe, lag>>
  BY DEF TimeOut
<1>2. Driving' /\ Emptied'
  BY <1>1 DEF Bounds, Driving, Busy, Emptied
<1>3. Sampled'
  BY <1>1, Numbers DEF Sampled
<1>4. Queued'
  BY <1>1, StillYoung, QueueFacts DEF Bounds, Queued
<1>5. ASSUME Held'  PROVE Bounded'
  <2>1. Bounded
    BY <1>1, <1>5 DEF Bounds, Held
  <2>2. rx'.age <= Longest + RxWait + lag' /\ ~recovery'.discarding
    BY <1>1, <2>1 DEF Bounded
  <2>3. rx'.age >= sample' + RxWait
    BY <1>1, <2>1, Numbers, Bounding DEF Bounded
  <2>. QED  BY <1>1, <2>2, <2>3 DEF Bounded
<1>. QED  BY <1>2, <1>3, <1>4, <1>5 DEF Bounds

LEMMA PollSlaveBounds ==
  ASSUME Types, Bounds, PollSlave
  PROVE  Bounds'
<1>1. /\ pc = "POLL" /\ sample' = 0 /\ UNCHANGED <<queue, pin, pipe, lag>>
      /\ ~Busy(tx)
  BY DEF PollSlave, Types, Busy
<1>2. CASE fault.new \/ ~Accepts(sample)
  <2>1. Service(rx, recovery) /\ pc' = "SERVICE" /\ waited' = 0 /\ UNCHANGED tx
    BY <1>2 DEF PollSlave, Wait
  <2>2. Driving' /\ Sampled'
    BY <1>1, <2>1 DEF Driving, Sampled, Busy
  <2>3. Queued'
    BY <1>1, <2>1, StillYoung DEF Bounds, Queued
  <2>4. rx'.active = <<>> /\ rx'.ready = <<>>
    <3>1. CASE fault.new
      BY <2>1, <3>1, DiscardFits DEF Service, Types
    <3>2. CASE ~fault.new
      <4>1. recovery.discarding /\ rx' = rx
        BY <1>2, <2>1, <3>2 DEF Accepts, Service
      <4>. QED  BY <4>1 DEF Bounds, Held, Bounded, Emptied
    <3>. QED  BY <3>1, <3>2
  <2>. QED  BY <2>2, <2>3, <2>4 DEF Bounds, Emptied, Held
<1>3. CASE ~fault.new /\ Accepts(sample)
  <2>1. /\ rx'.active = <<>> /\ rx'.ready = <<>> /\ ~Busy(tx')
    BY <1>1, <1>3, PollFinishes DEF Busy
  <2>2. (pc' = "SERVICE" /\ waited' = 0) \/ pc' = "SEND"
    BY <1>3 DEF PollSlave, Wait
  <2>3. Driving' /\ Sampled'
    BY <2>1, <2>2 DEF Driving, Sampled
  <2>4. Queued'
    BY <1>1, <2>1, <2>2, StillYoung DEF Bounds, Queued
  <2>. QED  BY <2>1, <2>3, <2>4 DEF Bounds, Emptied, Held
<1>. QED  BY <1>2, <1>3

LEMMA StartDoes ==
  ASSUME Types, Start
  PROVE  /\ pc = "SEND" /\ pc' = "SENDING" /\ Busy(tx')
         /\ tx'.age = 0 /\ tx'.next + pipe = pipe' /\ tx'.next > 0 /\ tx'.frame = tx.frame
         /\ tx'.next <= pipe' /\ ~pin /\ pin'
         /\ UNCHANGED <<queue, fault, rx, recovery, waited, sample, lag, line>>
<1> DEFINE s == [tx EXCEPT !.state = "SENDING"]
           t == OnTxe(s)
<1>1. /\ tx.state = "IDLE" /\ pc = "SEND" /\ pipe + 1 \in 0 .. 2 /\ pipe \in Nat /\ Progress(tx)
      /\ ~pin /\ tx.next = 0 /\ tx.age = 0
  BY DEF Start, Types, Progress, Busy
<1>2. Progress(s) /\ s.state = "SENDING" /\ s.next = 0 /\ s.age = 0 /\ s.frame = tx.frame
  <2>1. /\ s \in Answer /\ s.state = "SENDING" /\ s.next = tx.next /\ s.age = tx.age
        /\ s.frame = tx.frame
    BY <1>1 DEF Progress, Answer, TxState
  <2>. HIDE DEF s
  <2>2. 0 < AnswerLength
    BY Constants
  <2>. QED  BY <1>1, <2>1, <2>2 DEF Progress, Busy
<1>. HIDE DEF s
<1>3. Progress(t) /\ Busy(t) /\ t.next = 1 /\ t.age = 0 /\ t.frame = tx.frame
  BY <1>2, OnTxeDoes
<1>4. Transmitter(t, pipe + 1, TRUE) /\ pc' = "SENDING"
      /\ UNCHANGED <<queue, fault, rx, recovery, waited, sample, lag, line>>
  BY DEF Start, s
<1>. HIDE DEF t
<1>5. /\ Progress(tx') /\ (pin' <=> Busy(tx')) /\ tx'.frame = t.frame
      /\ \/ tx' = t /\ pipe' = pipe + 1
         \/ Busy(tx') /\ tx'.age = t.age /\ tx'.next = t.next + 1 /\ pipe' = pipe + 2
  <2> DEFINE p == pipe + 1
  <2>1. p \in 0 .. 2 /\ p # 0 /\ p + 1 = pipe + 2
    BY <1>1
  <2>. HIDE DEF p
  <2>2. Transmitter(t, p, TRUE)
    BY <1>4 DEF p
  <2>3. /\ Progress(tx') /\ (pin' <=> Busy(tx')) /\ tx'.frame = t.frame
        /\ \/ tx' = t /\ pipe' = p
           \/ Busy(tx') /\ tx'.age = t.age /\ tx'.next = t.next + 1 /\ pipe' = p + 1
           \/ p = 0
    BY <1>3, <2>1, <2>2, TransmitterDoes
  <2>. QED  BY <2>1, <2>3 DEF p
<1>6. /\ Busy(tx') /\ tx'.age = 0 /\ tx'.next <= pipe' /\ tx'.next + pipe = pipe'
      /\ tx'.next > 0 /\ tx'.frame = tx.frame
  BY <1>1, <1>3, <1>5
<1>. QED  BY <1>1, <1>4, <1>5, <1>6

LEMMA StartBounds ==
  ASSUME Types, Bounds, Start
  PROVE  Bounds'
<1>1. /\ pc = "SEND" /\ pc' = "SENDING" /\ Busy(tx') /\ tx'.age = 0 /\ tx'.next <= pipe'
      /\ UNCHANGED <<queue, rx, recovery, lag>>
  BY StartDoes
<1>2. pipe' \in Nat /\ tx'.next \in Nat
  BY AnswerStepTypes DEF Types, Progress, Answer
<1>3. Driving'
  BY <1>1, <1>2, Numbers, Bounding DEF Driving
<1>4. Queued'
  <2>. SUFFICES ASSUME NEW i \in 1 .. Len(queue)  PROVE Young(queue[i].age)'
    BY <1>1 DEF Queued
  <2>1. Young(queue[i].age) /\ queue[i].age \in Nat
    BY EventAges DEF Bounds, Queued
  <2>2. queue[i].age <= lag /\ queue[i].age <= Oldest + lag
    BY <1>1, <2>1 DEF Young
  <2>3. \A a \in Nat : a <= lag => 0 <= a /\ a <= MaxLag + 0
    BY Numbers, Bounding
  <2>. QED  BY <1>1, <2>1, <2>2, <2>3 DEF Young
<1>5. ~Held' /\ Emptied' /\ Sampled'
  BY <1>1 DEF Bounds, Held, Bounded, Emptied, Sampled
<1>. QED  BY <1>3, <1>4, <1>5 DEF Bounds

LEMMA StopBounds ==
  ASSUME Types, Bounds, Refuse \/ Complete \/ Abort
  PROVE  Bounds'
<1>1. /\ pc \in {"SEND", "SENDING"} /\ pc' = "SERVICE" /\ waited' = 0
      /\ UNCHANGED <<queue, fault, rx, recovery, lag, line>>
  BY DEF Refuse, Complete, Abort, Wait
<1>2. ~Busy(tx')
  BY AnswerStepTypes, <1>1 DEF Types, Busy
<1>3. Queued'
  BY <1>1, <1>2, StillYoung DEF Bounds, Queued
<1>4. ~Held' /\ Emptied' /\ Sampled' /\ Driving'
  BY <1>1, <1>2 DEF Bounds, Held, Bounded, Emptied, Sampled, Driving
<1>. QED  BY <1>3, <1>4 DEF Bounds

LEMMA RefuseErrorBounds ==
  ASSUME Types, Bounds, RefuseError
  PROVE  Bounds'
<1>1. /\ pc = "SEND" /\ pc' = "SERVICE" /\ waited' = 0 /\ UNCHANGED <<rx, recovery, lag>>
  BY Zenon DEF RefuseError, Wait
<1>2. ~Busy(tx')
  BY RefuseErrorTypes, <1>1 DEF Types, Busy
<1>3. PICK e \in Event : queue' = Append(queue, e) /\ e.age = 0
  BY RefuseErrorTypes
<1>4. Queued'
  <2>1. \A i \in 1 .. Len(queue') : \/ queue'[i].age = 0
                                    \/ i \in 1 .. Len(queue) /\ queue'[i].age = queue[i].age
    BY <1>3, QueueFacts, AppendProperties
  <2>2. \A i \in 1 .. Len(queue) : Young(queue[i].age)
    BY DEF Bounds, Queued
  <2>3. \A a : Young(a) => Young(a)'
    BY <1>1, <1>2, StillYoung
  <2>4. Young(0)'
    BY <1>1, <1>2, Numbers, Bounding DEF Young
  <2>. QED  BY <2>1, <2>2, <2>3, <2>4 DEF Queued
<1>5. ~Held' /\ Emptied' /\ Sampled' /\ Driving'
  BY <1>1, <1>2 DEF Bounds, Held, Bounded, Emptied, Sampled, Driving
<1>. QED  BY <1>4, <1>5 DEF Bounds

(* A character time of the transmitter. The driver is released only when   *)
(* the answer took as many character times as it has characters.           *)
LEMMA TickDrives ==
  ASSUME Types, Bounds, Tick
  PROVE  /\ pin' <=> Busy(tx')
         /\ Busy(tx') => Busy(tx) /\ tx'.age = tx.age + 1 /\ tx'.next <= tx'.age + pipe'
         /\ Busy(tx) /\ ~Busy(tx') => tx.age + 1 >= AnswerLength
<1> DEFINE t == Aging(tx)
           p == Shifted
<1>1. /\ Progress(t) /\ t.state = tx.state /\ t.next = tx.next
      /\ t.age = (IF Busy(tx) THEN Older(tx.age) ELSE 0)
      /\ p \in 0 .. 2 /\ (p = pipe \/ (pipe > 0 /\ p = pipe - 1))
  BY AgingDoes
<1>2. Busy(t) <=> Busy(tx)
  BY <1>1 DEF Busy
<1>3. Transmitter(t, p, pin) /\ pin \in BOOLEAN /\ (pin <=> Busy(t))
  BY <1>2, TickDoes DEF Types
<1>. HIDE DEF t, p
<1>4. /\ (pin' <=> Busy(tx'))
      /\ \/ tx' = t /\ pipe' = p
         \/ /\ Busy(t) /\ Busy(tx') /\ tx'.age = t.age
            /\ tx'.next = t.next + 1 /\ pipe' = p + 1
         \/ t.state = "WAIT_TC" /\ p = 0 /\ ~Busy(tx')
  BY <1>1, <1>3, TransmitterDoes
<1>5. ASSUME Busy(tx)
      PROVE  /\ tx.next <= tx.age + pipe /\ tx.age <= Budget + lag /\ t.age = tx.age + 1
  <2>1. tx.next <= tx.age + pipe /\ tx.age <= Budget + lag
    BY <1>5 DEF Bounds, Driving
  <2>2. tx.age + 1 < Clock /\ tx.age \in Age
    BY <2>1, Numbers, Bounding DEF Types, Progress, Answer
  <2>. QED  BY <1>1, <1>5, <2>1, <2>2, OlderAge
<1>6. ASSUME Busy(tx')
      PROVE  Busy(tx) /\ tx'.age = tx.age + 1 /\ tx'.next <= tx'.age + pipe'
  <2>1. Busy(tx)
    BY <1>2, <1>4, <1>6
  <2>2. tx'.age = t.age /\ (\/ tx'.next = t.next /\ pipe' = p
                            \/ tx'.next = t.next + 1 /\ pipe' = p + 1)
    BY <1>4, <1>6
  <2>3. tx.next <= tx.age + pipe /\ t.age = tx.age + 1
    BY <1>5, <2>1
  <2>. QED  BY <1>1, <2>1, <2>2, <2>3, Numbers
<1>7. ASSUME Busy(tx), ~Busy(tx')
      PROVE  tx.age + 1 >= AnswerLength
  <2>1. t.state = "WAIT_TC" /\ p = 0
    BY <1>2, <1>4, <1>7
  <2>2. tx.next = AnswerLength
    BY <1>1, <2>1 DEF Progress
  <2>. QED  BY <1>1, <1>5, <1>7, <2>1, <2>2, Numbers, Constants
<1>. QED  BY <1>4, <1>6, <1>7

LEMMA Lagging ==
  ASSUME Types, Tick
  PROVE  \/ lag' = lag + 1 /\ lag' <= MaxLag
         \/ lag' = 0 /\ pc = "RECEIVE" /\ queue = <<>> /\ waited < RxWait
         \/ lag' = 0 /\ pc = "SENDING" /\ Busy(tx) /\ tx.age < Budget
<1>1. CASE Runnable
  BY <1>1, TickDoes, Numbers, Bounding
<1>2. CASE ~Runnable
  BY <1>2, TickDoes, NotRunnable
<1>. QED  BY <1>1, <1>2

LEMMA Ageing ==
  ASSUME Types, Bounds
  PROVE  /\ \A i \in 1 .. Len(queue) : Aged[i].age = queue[i].age + 1
         /\ Held => Older(rx.age) = rx.age + 1
         /\ pc = "POLL" => Older(sample) = sample + 1
<1>1. ASSUME NEW i \in 1 .. Len(queue)  PROVE Aged[i].age = queue[i].age + 1
  <2>1. queue[i].age <= Oldest + lag /\ queue[i].age \in Nat
    BY EventAges DEF Bounds, Queued, Young
  <2>2. queue[i].age \in Age
    BY QueueFacts DEF Event
  <2>3. queue[i].age + 1 < Clock
    <3>1. \A a \in Nat : a <= Oldest + lag => a + 1 < Clock
      BY Numbers, Bounding
    <3>. QED  BY <2>1, <3>1
  <2>. QED  BY <2>2, <2>3, OlderAge, AgedFacts
<1>2. ASSUME Held  PROVE Older(rx.age) = rx.age + 1
  <2>1. Bounded
    BY <1>2 DEF Bounds
  <2>2. rx.age <= Longest + RxWait + lag
    BY <2>1 DEF Bounded
  <2>3. rx.age \in Age /\ rx.age + 1 < Clock
    BY <2>2, Numbers, Bounding DEF Age
  <2>. QED  BY <2>3, OlderAge
<1>3. ASSUME pc = "POLL"  PROVE Older(sample) = sample + 1
  <2>1. sample <= lag
    BY <1>3 DEF Bounds, Sampled
  <2>2. sample \in Age /\ sample + 1 < Clock
    BY <2>1, Numbers, Bounding DEF Age
  <2>. QED  BY <2>2, OlderAge
<1>. QED  BY <1>1, <1>2, <1>3

LEMMA OlderYoung ==
  ASSUME Types, Bounds, Tick, NEW a \in Nat, Young(a), queue # <<>>
  PROVE  Young(a + 1)'
<1>1. /\ pc' = pc /\ (pc = "POLL" => sample' = sample + 1)
  BY TickDoes, Ageing
<1>2. a <= Oldest + lag /\ (pc \in {"POLL", "SEND"} => a <= lag) /\ (pc = "POLL" => a <= sample)
      /\ (Busy(tx) => tx.age <= a /\ (tx.age <= Budget => a <= MaxLag + tx.age))
  BY DEF Young
<1>3. \/ lag' = lag + 1
      \/ lag' = 0 /\ pc = "SENDING" /\ Busy(tx) /\ tx.age < Budget
  BY Lagging
<1>4. a + 1 <= Oldest + lag'
  <2>1. CASE lag' = lag + 1
    BY <1>2, <2>1, Numbers, Bounding
  <2>2. CASE lag' = 0 /\ Busy(tx) /\ tx.age < Budget
    <3>1. \A t \in Nat : /\ t < Budget => t <= Budget
                         /\ a <= MaxLag + t /\ t < Budget => a + 1 <= Oldest + 0
      BY Bounding
    <3>. QED  BY <1>2, <2>2, <3>1, Numbers
  <2>. QED  BY <1>3, <2>1, <2>2
<1>5. pc' \in {"POLL", "SEND"} => a + 1 <= lag'
  BY <1>1, <1>2, <1>3, Numbers
<1>6. pc' = "POLL" => a + 1 <= sample'
  BY <1>1, <1>2, Numbers
<1>7. ASSUME Busy(tx')
      PROVE  tx'.age <= a + 1 /\ (tx'.age <= Budget => a + 1 <= MaxLag + tx'.age)
  <2>1. Busy(tx) /\ tx'.age = tx.age + 1
    BY <1>7, TickDrives
  <2>2. tx.age <= a /\ (tx.age <= Budget => a <= MaxLag + tx.age)
    BY <1>2, <2>1
  <2>3. \A t \in Nat : /\ t <= a => t + 1 <= a + 1
                       /\ t + 1 <= Budget => t <= Budget
                       /\ a <= MaxLag + t => a + 1 <= MaxLag + (t + 1)
    BY Bounding
  <2>. QED  BY <2>1, <2>2, <2>3, Numbers
<1>. QED  BY <1>4, <1>5, <1>6, <1>7 DEF Young

LEMMA TickQueued ==
  ASSUME Types, Bounds, Tick
  PROVE  Queued'
<1>1. \A i \in 1 .. Len(queue) : Young(queue[i].age) /\ queue[i].age \in Nat
  BY EventAges DEF Bounds, Queued
<1>2. \A i \in 1 .. Len(queue) : Aged[i].age = queue[i].age + 1
  BY Ageing
<1>3. /\ Aged \in Seq(Event) /\ Len(Aged) = Len(queue) /\ Len(queue) \in Nat
      /\ (queue = <<>> <=> Len(queue) = 0)
  BY AgedFacts, QueueFacts
<1>4. \A a \in Nat : Young(a) /\ queue # <<>> => Young(a + 1)'
  BY OlderYoung
<1>5. CASE Unheard
  <2>1. queue' = Aged
    BY <1>5 DEF Unheard
  <2>. QED  BY <1>1, <1>2, <1>3, <1>4, <2>1 DEF Queued
<1>6. CASE \E e \in Event : Heard(e)
  <2>1. PICK e \in Event : Heard(e)
    BY <1>6
  <2>2. queue' = Append(Aged, e) /\ e.age = 0 /\ ~pin
    BY <2>1 DEF Heard
  <2>3. ~Busy(tx')
    BY <2>2, TickDrives DEF Types
  <2>4. lag' \in Nat /\ sample' \in Nat
    <3>1. lag' \in 0 .. MaxLag /\ sample' \in Age
      BY TickTypes DEF Types
    <3>. QED  BY <3>1, Constants DEF Age
  <2>5. Young(0)'
    <3>1. \A l \in Nat : 0 <= Oldest + l /\ 0 <= l
      BY Bounding
    <3>2. 0 <= Oldest + lag' /\ 0 <= lag' /\ 0 <= sample'
      BY <2>4, <3>1
    <3>. QED  BY <2>3, <3>2 DEF Young
  <2>6. \A i \in 1 .. Len(queue') : \/ queue'[i].age = 0
                                    \/ i \in 1 .. Len(queue) /\ queue'[i].age = queue[i].age + 1
    BY <1>2, <1>3, <2>2, AppendProperties
  <2>. QED  BY <1>1, <1>3, <1>4, <2>5, <2>6 DEF Queued
<1>. QED  BY <1>5, <1>6, WorldDoes

LEMMA TickBounds ==
  ASSUME Types, Bounds, Tick
  PROVE  Bounds'
<1>1. Driving'
  <2>. SUFFICES ASSUME Busy(tx')  PROVE tx'.next <= tx'.age + pipe' /\ tx'.age <= Budget + lag'
    BY DEF Driving
  <2>1. Busy(tx) /\ tx'.age = tx.age + 1 /\ tx'.next <= tx'.age + pipe'
    BY TickDrives
  <2>2. tx.age <= Budget + lag
    BY <2>1 DEF Bounds, Driving
  <2>3. pc = "SENDING"
    BY <2>1 DEF Types, Busy
  <2>4. lag' = lag + 1 \/ (lag' = 0 /\ tx.age < Budget)
    BY <2>3, Lagging
  <2>. QED  BY <2>1, <2>2, <2>4, Numbers, Bounding
<1>2. Sampled'
  <2>1. pc' = "POLL" => sample' <= lag'
    BY TickDoes, Lagging, Ageing, Numbers DEF Bounds, Sampled
  <2>2. pc' = "SERVICE" => waited' = 0
    BY TickDoes DEF Bounds, Sampled
  <2>. QED  BY <2>1, <2>2 DEF Sampled
<1>3. Emptied'
  BY TickDoes DEF Bounds, Emptied
<1>4. ASSUME Held'  PROVE Bounded'
  <2>1. Held /\ Bounded /\ rx'.age = rx.age + 1 /\ rx.age \in Nat
    BY <1>4, TickDoes, Ageing, Numbers DEF Bounds, Held
  <2>2. ~recovery'.discarding /\ pc' = pc /\ pc \notin {"SEND", "SENDING"}
    BY <2>1, TickDoes DEF Bounded
  <2>3. rx.age <= Longest + RxWait + lag
        /\ (pc = "RECEIVE" => waited <= rx.age
                              /\ (queue = <<>> /\ waited < RxWait => rx.age <= Longest + waited))
        /\ (pc = "POLL" => rx.age >= sample + RxWait)
        /\ (pc = "DRAIN" \/ (pc = "SERVICE" /\ queue = <<>>) => rx.age <= Oldest + lag)
    BY <2>1 DEF Bounded
  <2>4. \/ lag' = lag + 1
        \/ lag' = 0 /\ pc = "RECEIVE" /\ queue = <<>> /\ waited < RxWait
    BY <2>2, Lagging
  <2>5. rx'.age <= Longest + RxWait + lag'
    <3>1. \A a \in Nat :
            /\ a <= Longest + RxWait + lag => a + 1 <= Longest + RxWait + (lag + 1)
            /\ a <= Longest + waited /\ waited < RxWait => a + 1 <= Longest + RxWait + 0
      BY Numbers, Bounding
    <3>. QED  BY <2>1, <2>3, <2>4, <3>1
  <2>6. queue' = <<>> => queue = <<>>
    <3>1. /\ Aged \in Seq(Event) /\ Len(Aged) = Len(queue)
      BY AgedFacts
    <3>2. queue' = Aged \/ \E e \in Event : queue' = Append(Aged, e)
      BY WorldDoes DEF Unheard, Heard
    <3>3. Len(queue') # 0 \/ Len(queue) = 0
      BY <3>1, <3>2, AppendProperties, QueueFacts
    <3>. QED  BY <3>3, QueueFacts, EmptySeq
  <2>7. pc' = "DRAIN" \/ (pc' = "SERVICE" /\ queue' = <<>>) => rx'.age <= Oldest + lag'
    <3>1. \A a \in Nat : a <= Oldest + lag => a + 1 <= Oldest + (lag + 1)
      BY Numbers, Bounding
    <3>. QED  BY <2>1, <2>2, <2>3, <2>4, <2>6, <3>1
  <2>8. pc' = "RECEIVE" => waited' <= rx'.age
    BY <2>1, <2>2, <2>3, TickDoes, Numbers
  <2>9. pc' = "RECEIVE" /\ queue' = <<>> /\ waited' < RxWait => rx'.age <= Longest + waited'
    <3>1. /\ waited + 1 < RxWait => waited < RxWait
          /\ \A a \in Nat : a <= Longest + waited => a + 1 <= Longest + (waited + 1)
      BY Numbers, Bounding
    <3>2. waited' = (IF pc = "RECEIVE" /\ waited < RxWait THEN waited + 1 ELSE waited)
      BY TickDoes
    <3>. QED  BY <2>1, <2>2, <2>3, <2>6, <3>1, <3>2
  <2>10. pc' = "POLL" => rx'.age >= sample' + RxWait
    <3>1. pc = "POLL" => sample' = sample + 1
      BY TickDoes, Ageing
    <3>2. \A a \in Nat : a >= sample + RxWait => a + 1 >= (sample + 1) + RxWait
      BY Numbers, Bounding
    <3>. QED  BY <2>1, <2>2, <2>3, <3>1, <3>2
  <2>. QED  BY <2>2, <2>5, <2>7, <2>8, <2>9, <2>10 DEF Bounded
<1>. QED  BY <1>1, <1>2, <1>3, <1>4, TickQueued DEF Bounds

LEMMA NextBounds == Types /\ Bounds /\ [Next]_vars => Bounds'
<1>. SUFFICES ASSUME Types, Bounds, [Next]_vars  PROVE Bounds'
  OBVIOUS
<1>1. CASE UNCHANGED vars
  BY <1>1 DEF vars, Bounds, Driving, Queued, Young, Busy, Sampled, Emptied, Held, Bounded
<1>2. CASE Next
  BY <1>2, ServiceFaultBounds, TakeEventBounds, DrainedBounds, TimeOutBounds,
     PollSlaveBounds, StartBounds, StopBounds, RefuseErrorBounds, TickBounds DEF Next
<1>. QED  BY <1>1, <1>2

(* ------------------- what was on the line is what is cut -------------- *)

(* Two bytes, one after the other: closer than T35 they are in one         *)
(* segment, and damage reaches a byte only from the one before it.         *)
Torn(e) == e.byte.torn /\ ~e.bad
Linked(a, b) ==
  /\ a.age >= b.age
  /\ a.age - b.age < T35 /\ ~a.bad => a.byte.segment = b.byte.segment
  /\ Torn(b) => a.byte.torn /\ a.age - b.age < T35

(* The last byte and the line                                              *)
Newest(a) ==
  /\ line.age <= a.age /\ line.segment = a.byte.segment
  /\ NextTorn => a.byte.torn /\ a.age = line.age
  /\ ~pin /\ ~a.bad /\ a.age + 1 < T35 => ~line.cut

(* The last byte of the unfinished frame: nothing came between it and the  *)
(* head of the queue.                                                      *)
Seen == [byte |-> rx.active[Len(rx.active)], bad |-> FALSE, age |-> rx.age]

Chained == \A i \in 1 .. Len(queue) - 1 : Linked(queue[i], queue[i + 1])
Tailed == queue # <<>> => Newest(queue[Len(queue)])
Joined ==
  Held /\ ~rx.over => IF queue = <<>> THEN Newest(Seen) ELSE Linked(Seen, queue[1])

(* A fault that is not yet seen to is younger than the head of the queue,  *)
(* and a torn byte finds the recovery ready to pass it over.               *)
Noted == fault.new => queue # <<>> /\ fault.age <= queue[1].age
Heeded ==
  queue # <<>> /\ Torn(queue[1]) =>
    \/ recovery.blind \/ fault.new
    \/ recovery.discarding /\ recovery.age - queue[1].age < T35
HeededNext ==
  queue = <<>> /\ NextTorn =>
    recovery.blind \/ (recovery.discarding /\ recovery.age <= line.age)

Trail == Chained /\ Tailed /\ Joined /\ Noted /\ Heeded /\ HeededNext
SlaveInv == Types /\ Bounds /\ Trail /\ FramesIntact

Whole(s) == \A a, b \in FrameBytes(s) : a.segment = b.segment
Untorn(s) == \A a \in FrameBytes(s) : ~a.torn
Intact(s) == Whole(s) /\ (recovery.blind \/ Untorn(s))

LEMMA IntactFrames == FramesIntact <=> Intact(rx.active) /\ Intact(rx.ready)
  BY DEF FramesIntact, Intact, Whole, Untorn

LEMMA InitTrail == Init => Trail /\ FramesIntact
<1>. SUFFICES ASSUME Init  PROVE Trail /\ FramesIntact
  OBVIOUS
<1>1. /\ queue = <<>> /\ ~fault.new /\ rx.active = <<>> /\ rx.ready = <<>> /\ ~line.torn
      /\ Len(queue) = 0
  BY Zenon, NoRxFits DEF Init, NoFault
<1>2. FrameBytes(<<>>) = {}
  BY DEF FrameBytes
<1>3. FramesIntact
  BY <1>1, <1>2 DEF FramesIntact
<1>. QED  BY <1>1, <1>3
          DEF Trail, Chained, Tailed, Joined, Noted, Heeded, HeededNext, Held, NextTorn

(* Steps that leave queue, receiver and line alone. The driver may be      *)
(* released when the line has been silent for the answer.                  *)
LEMMA NothingCame ==
  ASSUME SlaveInv, UNCHANGED <<queue, fault, rx, recovery, line>>,
         \/ pin' = pin \/ pin'
         \/ ~Held /\ \A i \in 1 .. Len(queue) : queue[i].age >= T35
  PROVE  Trail' /\ FramesIntact'
<1>1. \A a : Newest(a) /\ (pin' = pin \/ pin' \/ a.age >= T35) /\ a.age \in Nat => Newest(a)'
  BY Bounding DEF Newest, NextTorn, NextGap
<1>2. Tailed'
  <2>1. queue # <<>> => Len(queue) \in 1 .. Len(queue) /\ queue[Len(queue)].age \in Nat
    BY QueueFacts, EventAges DEF SlaveInv
  <2>. QED  BY <1>1, <2>1 DEF SlaveInv, Trail, Tailed
<1>3. Joined'
  <2>1. Seen.age \in Nat
    BY Numbers DEF Seen, SlaveInv
  <2>2. Seen' = Seen /\ (Held' <=> Held) /\ (\A a, b : Linked(a, b)' <=> Linked(a, b))
    BY DEF Seen, Held, Linked, Torn
  <2>. QED  BY <1>1, <2>1, <2>2 DEF SlaveInv, Trail, Joined
<1>4. Chained' /\ Noted' /\ Heeded' /\ HeededNext'
  BY DEF SlaveInv, Trail, Chained, Linked, Noted, Heeded, HeededNext, Torn, NextTorn, NextGap
<1>5. FramesIntact'
  BY DEF SlaveInv, FramesIntact, FrameBytes
<1>. QED  BY <1>2, <1>3, <1>4, <1>5 DEF Trail

LEMMA QuietStep ==
  ASSUME SlaveInv, Drained \/ TimeOut \/ Start \/ Refuse \/ Complete \/ Abort
  PROVE  Trail' /\ FramesIntact'
<1>1. ASSUME Drained \/ TimeOut \/ Refuse \/ Complete  PROVE Trail' /\ FramesIntact'
  <2>1. UNCHANGED <<queue, fault, rx, recovery, line, pin>>
    BY <1>1, Zenon DEF Drained, TimeOut, Refuse, Complete
  <2>. QED  BY <2>1, NothingCame
<1>2. ASSUME Start  PROVE Trail' /\ FramesIntact'
  BY <1>2, StartDoes, NothingCame DEF SlaveInv
<1>3. ASSUME Abort  PROVE Trail' /\ FramesIntact'
  <2>1. /\ UNCHANGED <<queue, fault, rx, recovery, line>> /\ pc = "SENDING"
        /\ Busy(tx) /\ tx.age >= Budget
    BY <1>3, Zenon DEF Abort, Busy
  <2>2. ~Held
    BY <2>1 DEF SlaveInv, Bounds, Bounded
  <2>3. \A i \in 1 .. Len(queue) : queue[i].age >= T35
    <3>. TAKE i \in 1 .. Len(queue)
    <3>1. tx.age <= queue[i].age /\ queue[i].age \in Nat /\ tx.age \in Nat
      BY <2>1, EventAges, Numbers DEF SlaveInv, Bounds, Queued, Young
    <3>2. \A t, a \in Nat : t >= Budget /\ t <= a => a >= T35
      BY Constants
    <3>. QED  BY <2>1, <3>1, <3>2
  <2>. QED  BY <2>1, <2>2, <2>3, NothingCame
<1>. QED  BY <1>1, <1>2, <1>3

(* Nothing is left of what was received before a fault.                    *)
LEMMA NothingHeld ==
  ASSUME rx'.active = <<>>, rx'.ready = <<>>
  PROVE  Joined' /\ FramesIntact'
<1>1. FrameBytes(<<>>) = {}
  BY DEF FrameBytes
<1>. QED  BY <1>1 DEF Joined, Held, FramesIntact

LEMMA SameQueue ==
  ASSUME SlaveInv, UNCHANGED <<queue, line, pin>>
  PROVE  Chained' /\ Tailed'
BY DEF SlaveInv, Trail, Chained, Tailed, Linked, Torn, Newest, NextTorn, NextGap

(* service_rx_fault with nothing taken from the queue before it            *)
LEMMA ServiceTrail ==
  ASSUME SlaveInv, Service(rx, recovery), UNCHANGED <<queue, line, pin>>
  PROVE  Trail' /\ FramesIntact'
<1>1. CASE fault.new
  <2>1. /\ rx'.active = <<>> /\ rx'.ready = <<>>
        /\ recovery'.discarding /\ recovery'.age = fault.age
        /\ ~fault'.new
    BY <1>1, DiscardFits DEF SlaveInv, Types, Service, Begin, NoFault
  <2>2. queue # <<>> /\ fault.age <= queue[1].age
    BY <1>1 DEF SlaveInv, Trail, Noted
  <2>3. fault.age - queue[1].age < T35
    <3>1. queue[1].age \in Nat /\ fault.age \in Nat
      <4>1. 1 \in 1 .. Len(queue)
        BY <2>2, QueueFacts DEF SlaveInv
      <4>2. fault.age \in Age
        BY DEF SlaveInv, Types
      <4>. QED  BY <4>1, <4>2, EventAges, Constants DEF SlaveInv, Age
    <3>. QED  BY <2>2, <3>1, Bounding
  <2>4. Noted' /\ Heeded' /\ HeededNext'
    BY <2>1, <2>2, <2>3 DEF Noted, Heeded, HeededNext
  <2>. QED  BY <2>1, <2>4, NothingHeld, SameQueue DEF Trail
<1>2. CASE ~fault.new
  <2>1. UNCHANGED <<rx, recovery>> /\ ~fault'.new
    BY <1>2 DEF Service, NoFault
  <2>2. Joined'
    BY <2>1 DEF SlaveInv, Trail, Joined, Held, Seen, Newest, Linked, Torn, NextTorn, NextGap
  <2>3. FramesIntact'
    BY <2>1 DEF SlaveInv, FramesIntact, FrameBytes
  <2>4. Noted' /\ Heeded' /\ HeededNext'
    BY <1>2, <2>1 DEF SlaveInv, Trail, Noted, Heeded, HeededNext, Torn, NextTorn, NextGap
  <2>. QED  BY <2>2, <2>3, <2>4, SameQueue DEF Trail
<1>. QED  BY <1>1, <1>2

LEMMA ServiceFaultTrail ==
  ASSUME SlaveInv, ServiceFault
  PROVE  Trail' /\ FramesIntact'
BY ServiceTrail DEF ServiceFault

(* The poll goes on only with a recovery that is over: its silence is      *)
(* longer than the time to any byte that is still to be passed over.       *)
LEMMA PollSlaveTrail ==
  ASSUME SlaveInv, PollSlave
  PROVE  Trail' /\ FramesIntact'
<1>1. pc = "POLL" /\ UNCHANGED <<queue, line, pin>>
  BY DEF PollSlave
<1>2. CASE fault.new \/ ~Accepts(sample)
  BY <1>1, <1>2, ServiceTrail DEF PollSlave
<1>3. CASE ~fault.new /\ Accepts(sample)
  <2>1. /\ rx'.active = <<>> /\ rx'.ready = <<>> /\ recovery' = After(sample)
        /\ UNCHANGED fault
    BY <1>3, PollFinishes DEF SlaveInv
  <2>2. recovery'.blind = recovery.blind
    BY <1>3, <2>1, Zenon DEF After, Accepts, Trusting
  <2>3. ~(recovery.discarding /\ recovery.age - sample < T35)
    <3>1. recovery.age \in Age /\ sample \in Age
      BY DEF SlaveInv, Types, Distrust
    <3>2. sample < Horizon
      BY <1>1, Numbers, Bounding DEF SlaveInv, Bounds, Sampled
    <3>. QED  BY <1>3, <3>1, <3>2, SilentGapMeans DEF Accepts, Ends
  <2>4. Heeded'
    <3>. SUFFICES ASSUME queue # <<>>, Torn(queue[1]), ~recovery.blind  PROVE FALSE
      BY <1>1, <2>2 DEF Heeded, Torn
    <3>1. recovery.discarding /\ recovery.age - queue[1].age < T35
      BY <1>3 DEF SlaveInv, Trail, Heeded
    <3>2. 1 \in 1 .. Len(queue)
      BY QueueFacts DEF SlaveInv
    <3>3. queue[1].age <= sample /\ queue[1].age \in Nat
      BY <1>1, <3>2, EventAges DEF SlaveInv, Bounds, Queued, Young
    <3>4. \A r, a \in Nat : r - a < T35 /\ a <= sample => r - sample < T35
      BY Numbers, Bounding DEF SlaveInv
    <3>5. recovery.age \in Nat
      BY Numbers DEF SlaveInv
    <3>. QED  BY <2>3, <3>1, <3>3, <3>4, <3>5
  <2>5. HeededNext'
    <3>. SUFFICES ASSUME queue = <<>>, NextTorn, ~recovery.blind  PROVE FALSE
      BY <1>1, <2>2 DEF HeededNext, NextTorn, NextGap
    <3>1. recovery.discarding /\ recovery.age <= line.age
      BY DEF SlaveInv, Trail, HeededNext
    <3>2. line.age + 1 < T35
      BY Numbers, Bounding DEF SlaveInv, NextTorn, NextGap
    <3>3. \A r, l \in Nat : r <= l /\ l + 1 < T35 => r - sample < T35
      BY Numbers, Bounding DEF SlaveInv
    <3>4. recovery.age \in Nat /\ line.age \in Nat
      BY Numbers DEF SlaveInv
    <3>. QED  BY <2>3, <3>1, <3>2, <3>3, <3>4
  <2>6. Noted'
    BY <1>3, <2>1 DEF Noted
  <2>. QED  BY <1>1, <2>1, <2>4, <2>5, <2>6, NothingHeld, SameQueue DEF Trail
<1>. QED  BY <1>2, <1>3

LEMMA AppendChain ==
  ASSUME NEW q \in Seq(Event), NEW e \in Event, queue' = Append(q, e),
         \A i \in 1 .. Len(q) - 1 : Linked(q[i], q[i + 1]),
         q # <<>> => Linked(q[Len(q)], e)
  PROVE  /\ Chained' /\ queue' # <<>> /\ queue'[Len(queue')] = e
         /\ queue'[1] = IF q = <<>> THEN e ELSE q[1]
<1>1. /\ queue' \in Seq(Event) /\ Len(queue') = Len(q) + 1 /\ Len(q) \in Nat
      /\ \A i \in 1 .. Len(q) : queue'[i] = q[i]
      /\ queue'[Len(q) + 1] = e
  BY AppendProperties
<1>2. q = <<>> <=> Len(q) = 0
  BY EmptySeq
<1>3. queue' # <<>> /\ queue'[1] = IF q = <<>> THEN e ELSE q[1]
  BY <1>1, <1>2
<1>4. ASSUME NEW i \in 1 .. Len(queue') - 1  PROVE Linked(queue'[i], queue'[i + 1])
  <2>1. CASE i < Len(q)
    <3>1. i \in 1 .. Len(q) - 1 /\ i \in 1 .. Len(q) /\ i + 1 \in 1 .. Len(q)
      BY <1>1, <2>1
    <3>. QED  BY <1>1, <3>1
  <2>2. CASE i = Len(q)
    <3>1. i \in 1 .. Len(q) /\ q # <<>>
      BY <1>1, <1>2, <2>2
    <3>. QED  BY <1>1, <2>2, <3>1
  <2>. QED  BY <1>1, <2>1, <2>2
<1>. QED  BY <1>1, <1>3, <1>4 DEF Chained

LEMMA RefuseErrorTrail ==
  ASSUME SlaveInv, RefuseError
  PROVE  Trail' /\ FramesIntact'
<1>1. PICK e \in Event : /\ queue' = Append(queue, e) /\ e.bad /\ e.age = 0
                         /\ e.byte.torn /\ e.byte.segment = line.segment
  BY RefuseErrorTypes DEF SlaveInv
<1>2. /\ fault' = [new |-> TRUE, age |-> 0] /\ UNCHANGED <<rx, recovery, pin>> /\ pc = "SEND"
      /\ line' = [line EXCEPT !.age = 0, !.cut = TRUE, !.torn = TRUE]
  BY Zenon DEF RefuseError
<1>3. line'.age = 0 /\ line'.segment = line.segment
  BY <1>2, Zenon DEF SlaveInv, Types, Wire
<1>4. queue # <<>> => queue[Len(queue)].age \in Nat /\ Newest(queue[Len(queue)])
                      /\ queue[1].age \in Nat
  <2>1. queue # <<>> => Len(queue) \in 1 .. Len(queue) /\ 1 \in 1 .. Len(queue)
    BY QueueFacts DEF SlaveInv
  <2>. QED  BY <2>1, EventAges DEF SlaveInv, Trail, Tailed
<1>5. queue # <<>> => Linked(queue[Len(queue)], e)
  BY <1>1, <1>4 DEF Linked, Torn, Newest
<1>6. /\ Chained' /\ queue' # <<>> /\ queue'[Len(queue')] = e
      /\ queue'[1] = IF queue = <<>> THEN e ELSE queue[1]
  BY <1>1, <1>5, AppendChain DEF SlaveInv, Types, Trail, Chained
<1>7. Newest(e)'
  BY <1>1, <1>3 DEF Newest
<1>8. Tailed' /\ HeededNext'
  BY <1>6, <1>7 DEF Tailed, HeededNext
<1>9. Noted' /\ Heeded'
  BY <1>1, <1>2, <1>4, <1>6 DEF Noted, Heeded
<1>10. Joined'
  BY <1>2 DEF SlaveInv, Bounds, Bounded, Held, Joined
<1>11. FramesIntact'
  BY <1>2 DEF SlaveInv, FramesIntact, FrameBytes
<1>. QED  BY <1>6, <1>8, <1>9, <1>10, <1>11 DEF Trail

(* A character time later: what is known of two bytes stays, and what is   *)
(* known of the last one and the line links it to the byte that comes.     *)
Later(a, b) == b.byte = a.byte /\ b.bad = a.bad /\ b.age = a.age + 1

LEMMA LaterLinks ==
  ASSUME NEW a, NEW b, NEW c, NEW d, a.age \in Nat, b.age \in Nat,
         Later(a, c), Later(b, d), Linked(a, b)
  PROVE  Linked(c, d)
BY Bounding DEF Later, Linked, Torn

LEMMA HeardLinks ==
  ASSUME Types, NEW e \in Event, Heard(e), NEW a, NEW c, a.age \in Nat, Later(a, c), Newest(a)
  PROVE  Linked(c, e)
<1>1. line.age \in Nat /\ e.age = 0 /\ ~pin
  BY Numbers DEF Heard
<1>2. c.age >= e.age
  BY <1>1 DEF Later
<1>3. ASSUME c.age - e.age < T35, ~c.bad  PROVE c.byte.segment = e.byte.segment
  <2>1. a.age + 1 < T35 /\ ~a.bad /\ line.age <= a.age
    BY <1>1, <1>3, Bounding DEF Later, Newest
  <2>2. ~NextGap
    BY <1>1, <2>1, Bounding DEF NextGap
  <2>3. ~line.cut
    BY <1>1, <2>1 DEF Newest
  <2>. QED  BY <2>2, <2>3 DEF Later, Newest, Heard, NextSegment
<1>4. ASSUME Torn(e)  PROVE c.byte.torn /\ c.age - e.age < T35
  <2>1. NextTorn
    BY <1>4 DEF Torn, Heard
  <2>2. a.byte.torn /\ a.age = line.age /\ line.age + 1 < T35
    BY <1>1, <2>1, Bounding DEF Newest, NextTorn, NextGap
  <2>. QED  BY <1>1, <2>2, Bounding DEF Later
<1>. QED  BY <1>2, <1>3, <1>4 DEF Linked

LEMMA HeardNewest ==
  ASSUME NEW e \in Event, Heard(e)
  PROVE  Newest(e)'
<1>1. /\ line'.age = 0 /\ line'.segment = e.byte.segment /\ (line'.cut <=> e.bad)
      /\ (line'.torn <=> e.byte.torn) /\ e.age = 0
  BY Zenon DEF Heard
<1>. QED  BY <1>1 DEF Newest, NextTorn

(* The line in a character time in which nothing is received               *)
LEMMA UnheardLine ==
  ASSUME Types, Unheard
  PROVE  /\ line'.segment = line.segment /\ line'.age \in Nat /\ line'.age <= line.age + 1
         /\ ~pin => (line'.cut <=> line.cut)
         /\ NextTorn' => NextTorn /\ line'.age = line.age + 1
<1> DEFINE a == IF line.age < Turnaround THEN line.age + 1 ELSE line.age
<1>1. line \in Wire /\ line.age \in Nat /\ Turnaround \in Nat /\ T35 <= Turnaround
      /\ T35 \in Nat /\ line.age <= Turnaround
  BY Constants DEF Types, Wire
<1>2. a \in Nat /\ a <= line.age + 1 /\ (a + 1 < T35 => a = line.age + 1)
  BY <1>1
<1>3. line' = [line EXCEPT !.age = a]
      \/ (pin /\ line' = [line EXCEPT !.age = 0, !.cut = TRUE, !.torn = FALSE])
  BY <1>1, Zenon DEF Unheard, Wire
<1>. HIDE DEF a
<1>4. CASE line' = [line EXCEPT !.age = a]
  <2>1. /\ line'.segment = line.segment /\ line'.age = a /\ (line'.cut <=> line.cut)
        /\ (line'.torn <=> line.torn)
    BY <1>1, <1>4, Zenon DEF Wire
  <2>2. ASSUME NextTorn'  PROVE NextTorn /\ line'.age = line.age + 1
    <3>1. line.torn /\ a + 1 < T35
      BY <1>1, <1>2, <2>1, <2>2 DEF NextTorn, NextGap
    <3>2. a = line.age + 1 /\ ~(line.age + 1 >= T35)
      BY <1>1, <1>2, <3>1
    <3>. QED  BY <2>1, <3>1, <3>2 DEF NextTorn, NextGap
  <2>. QED  BY <1>2, <2>1, <2>2
<1>5. CASE pin /\ line' = [line EXCEPT !.age = 0, !.cut = TRUE, !.torn = FALSE]
  <2>1. line'.segment = line.segment /\ line'.age = 0 /\ ~line'.torn
    BY <1>1, <1>5, Zenon DEF Wire
  <2>. QED  BY <1>1, <1>5, <2>1 DEF NextTorn
<1>. QED  BY <1>3, <1>4, <1>5

LEMMA UnheardNewest ==
  ASSUME Types, Bounds, Tick, Unheard, NEW a, NEW c, a.age \in Nat, Later(a, c), Newest(a),
         pin => tx.age <= a.age
  PROVE  Newest(c)'
<1>1. line'.age <= c.age /\ line'.segment = c.byte.segment
  BY UnheardLine, Numbers DEF Later, Newest
<1>2. NextTorn' => c.byte.torn /\ c.age = line'.age
  BY UnheardLine DEF Later, Newest
<1>3. ASSUME ~pin', ~c.bad, c.age + 1 < T35  PROVE ~line'.cut
  <2>1. a.age + 1 < T35 /\ ~a.bad
    BY <1>3, Bounding DEF Later
  <2>2. CASE pin
    <3>1. Busy(tx) /\ ~Busy(tx') /\ tx.age <= a.age
      BY <1>3, <2>2, TickDrives DEF Types
    <3>2. tx.age + 1 >= AnswerLength
      BY <3>1, TickDrives
    <3>. QED  BY <2>1, <3>1, <3>2, Numbers, Constants
  <2>3. CASE ~pin
    <3>1. ~line.cut
      BY <2>1, <2>3 DEF Newest
    <3>. QED  BY <2>3, <3>1, UnheardLine
  <2>. QED  BY <2>2, <2>3
<1>. QED  BY <1>1, <1>2, <1>3 DEF Newest

LEMMA OlderBound ==
  ASSUME NEW a \in Age
  PROVE  Older(a) \in Nat /\ Older(a) <= a + 1
<1>1. CASE a + 1 < Clock
  BY <1>1, OlderAge, Constants DEF Age
<1>2. CASE a + 1 = Clock
  BY <1>2, Constants DEF Older, Age
<1>. QED  BY <1>1, <1>2, Constants DEF Age

(* What a character time finds, and makes of the queue                     *)
LEMMA TickLater ==
  ASSUME SlaveInv, Tick
  PROVE  /\ \A i \in 1 .. Len(queue) : Later(queue[i], Aged[i]) /\ queue[i].age \in Nat
         /\ \A i \in 1 .. Len(Aged) - 1 : Linked(Aged[i], Aged[i + 1])
         /\ Aged \in Seq(Event) /\ Len(Aged) = Len(queue) /\ Len(queue) \in Nat
         /\ (Aged = <<>> <=> queue = <<>>) /\ (queue = <<>> <=> Len(queue) = 0)
         /\ Held => Later(Seen, Seen') /\ Seen.age \in Nat
<1>1. /\ Aged \in Seq(Event) /\ Len(Aged) = Len(queue) /\ Len(queue) \in Nat
      /\ (queue = <<>> <=> Len(queue) = 0)
  BY AgedFacts, QueueFacts DEF SlaveInv
<1>2. Aged = <<>> <=> queue = <<>>
  BY <1>1, EmptySeq
<1>3. \A i \in 1 .. Len(queue) : Later(queue[i], Aged[i]) /\ queue[i].age \in Nat
  BY AgedFacts, Ageing, EventAges DEF SlaveInv, Later
<1>4. \A i \in 1 .. Len(Aged) - 1 : Linked(Aged[i], Aged[i + 1])
  <2>. SUFFICES ASSUME NEW i \in 1 .. Len(Aged) - 1  PROVE Linked(Aged[i], Aged[i + 1])
    OBVIOUS
  <2>1. i \in 1 .. Len(queue) /\ i + 1 \in 1 .. Len(queue)
    BY <1>1
  <2>2. Linked(queue[i], queue[i + 1])
    BY <1>1 DEF SlaveInv, Trail, Chained
  <2>. QED  BY <1>3, <2>1, <2>2, LaterLinks
<1>5. ASSUME Held  PROVE Later(Seen, Seen') /\ Seen.age \in Nat
  <2>1. rx'.active = rx.active /\ rx'.age = rx.age + 1 /\ rx.age \in Nat
    BY <1>5, TickDoes, Ageing, Numbers DEF SlaveInv, Held
  <2>. QED  BY <2>1 DEF Later, Seen
<1>. QED  BY <1>1, <1>2, <1>3, <1>4, <1>5

LEMMA TickRecovery ==
  ASSUME SlaveInv, Tick
  PROVE  /\ recovery'.blind = recovery.blind
         /\ recovery'.discarding = recovery.discarding
         /\ recovery.age \in Nat /\ recovery'.age \in Nat
         /\ recovery.discarding => recovery'.age <= recovery.age + 1
<1>1. recovery.age \in Age /\ recovery'.age \in Age
  BY TickDoes DEF SlaveInv, Types, Distrust
<1>2. recovery.age \in Nat /\ recovery'.age \in Nat
  BY <1>1, Constants DEF Age
<1>. QED  BY <1>1, <1>2, TickDoes, OlderBound DEF SlaveInv

LEMMA TickUnheard ==
  ASSUME SlaveInv, Tick, Unheard
  PROVE  Trail'
<1>1. queue' = Aged /\ fault' = AgedFault
  BY DEF Unheard
<1>2. Chained'
  BY <1>1, TickLater DEF Chained
<1>3. ASSUME queue' # <<>>  PROVE Newest(queue[Len(queue)])'
  <2>1. queue # <<>> /\ Len(queue) \in 1 .. Len(queue) /\ Len(queue') = Len(queue)
    BY <1>1, <1>3, TickLater
  <2>2. /\ Later(queue[Len(queue)], queue'[Len(queue')]) /\ queue[Len(queue)].age \in Nat
        /\ Newest(queue[Len(queue)])
    BY <1>1, <2>1, TickLater DEF SlaveInv, Trail, Tailed
  <2>3. pin => tx.age <= queue[Len(queue)].age
    BY <2>1 DEF SlaveInv, Types, Bounds, Queued, Young
  <2>. QED  BY <2>2, <2>3, UnheardNewest DEF SlaveInv
<1>4. Tailed'
  BY <1>3 DEF Tailed
<1>5. ASSUME Held', ~rx'.over
      PROVE  IF queue' = <<>> THEN Newest(Seen)' ELSE Linked(Seen', queue'[1])
  <2>1. Held /\ ~rx.over
    BY <1>5, TickDoes DEF SlaveInv, Held
  <2>2. Later(Seen, Seen') /\ Seen.age \in Nat /\ ~pin
    BY <2>1, TickLater DEF SlaveInv, Types, Bounds, Bounded, Busy
  <2>3. CASE queue = <<>>
    <3>1. Newest(Seen)
      BY <2>1, <2>3 DEF SlaveInv, Trail, Joined
    <3>2. Newest(Seen)'
      BY <2>2, <3>1, UnheardNewest DEF SlaveInv
    <3>. QED  BY <1>1, <2>3, <3>2, TickLater
  <2>4. CASE queue # <<>>
    <3>1. Linked(Seen, queue[1]) /\ 1 \in 1 .. Len(queue)
      BY <2>1, <2>4, TickLater DEF SlaveInv, Trail, Joined
    <3>2. Linked(Seen', Aged[1])
      BY <2>2, <3>1, TickLater, LaterLinks
    <3>. QED  BY <1>1, <2>4, <3>2, TickLater
  <2>. QED  BY <2>3, <2>4
<1>6. Joined'
  BY <1>5 DEF Joined
<1>7. ASSUME queue # <<>>  PROVE Later(queue[1], queue'[1]) /\ queue[1].age \in Nat
  <2>1. 1 \in 1 .. Len(queue)
    BY <1>7, TickLater
  <2>. QED  BY <1>1, <2>1, TickLater
<1>8. Noted'
  <2>. SUFFICES ASSUME fault'.new  PROVE queue' # <<>> /\ fault'.age <= queue'[1].age
    BY DEF Noted
  <2>1. fault.new /\ fault'.age = Older(fault.age) /\ fault.age \in Age
    BY <1>1, AgedFacts DEF SlaveInv, Types
  <2>2. queue # <<>> /\ fault.age <= queue[1].age
    BY <2>1 DEF SlaveInv, Trail, Noted
  <2>3. fault'.age <= fault.age + 1 /\ fault'.age \in Nat /\ fault.age \in Nat
    BY <2>1, OlderBound, Constants DEF Age
  <2>. QED  BY <1>1, <1>7, <2>2, <2>3, TickLater DEF Later
<1>9. Heeded'
  <2>. SUFFICES ASSUME queue' # <<>>, Torn(queue'[1]), ~recovery'.blind, ~fault'.new
                PROVE  recovery'.discarding /\ recovery'.age - queue'[1].age < T35
    BY DEF Heeded, Torn
  <2>1. queue # <<>> /\ Torn(queue[1]) /\ ~fault.new /\ ~recovery.blind
    BY <1>1, <1>7, TickLater, TickRecovery, AgedFacts DEF Later, Torn, SlaveInv
  <2>2. recovery.discarding /\ recovery.age - queue[1].age < T35
    BY <2>1 DEF SlaveInv, Trail, Heeded
  <2>3. /\ recovery.age \in Nat /\ recovery'.age \in Nat
        /\ recovery'.age <= recovery.age + 1 /\ recovery'.discarding
    BY <2>2, TickRecovery
  <2>4. queue'[1].age = queue[1].age + 1 /\ queue[1].age \in Nat
    BY <1>7, <2>1 DEF Later
  <2>5. \A r, s, q \in Nat : r - q < T35 /\ s <= r + 1 => s - (q + 1) < T35
    BY Bounding
  <2>6. recovery'.age - queue'[1].age < T35
    BY <2>2, <2>3, <2>4, <2>5
  <2>. QED  BY <2>3, <2>6
<1>10. HeededNext'
  <2>. SUFFICES ASSUME queue' = <<>>, NextTorn', ~recovery'.blind
                PROVE  recovery'.discarding /\ recovery'.age <= line'.age
    BY DEF HeededNext
  <2>1. queue = <<>> /\ NextTorn /\ line'.age = line.age + 1 /\ ~recovery.blind
    BY <1>1, TickLater, TickRecovery, UnheardLine DEF SlaveInv
  <2>2. recovery.discarding /\ recovery.age <= line.age
    BY <2>1 DEF SlaveInv, Trail, HeededNext
  <2>3. /\ recovery.age \in Nat /\ recovery'.age \in Nat /\ line.age \in Nat
        /\ recovery'.age <= recovery.age + 1 /\ recovery'.discarding
    BY <2>2, TickRecovery, Numbers DEF SlaveInv
  <2>. QED  BY <2>1, <2>2, <2>3
<1>. QED  BY <1>2, <1>4, <1>6, <1>8, <1>9, <1>10 DEF Trail

LEMMA TickHeard ==
  ASSUME SlaveInv, Tick, NEW e \in Event, Heard(e)
  PROVE  Trail'
<1>1. /\ queue' = Append(Aged, e) /\ e.age = 0 /\ ~pin
      /\ fault' = IF e.bad THEN [new |-> TRUE, age |-> 0] ELSE AgedFault
  BY DEF Heard
<1>2. queue # <<>> => Linked(Aged[Len(queue)], e)
  <2>. SUFFICES ASSUME queue # <<>>  PROVE Linked(Aged[Len(queue)], e)
    OBVIOUS
  <2>1. Len(queue) \in 1 .. Len(queue)
    BY TickLater
  <2>2. /\ Later(queue[Len(queue)], Aged[Len(queue)]) /\ queue[Len(queue)].age \in Nat
        /\ Newest(queue[Len(queue)])
    BY <2>1, TickLater DEF SlaveInv, Trail, Tailed
  <2>. QED  BY <2>2, HeardLinks DEF SlaveInv
<1>3. /\ Chained' /\ queue' # <<>> /\ queue'[Len(queue')] = e
      /\ queue'[1] = IF queue = <<>> THEN e ELSE Aged[1]
  BY <1>1, <1>2, TickLater, AppendChain
<1>4. Tailed'
  <2>1. Newest(e)'
    BY HeardNewest
  <2>. QED  BY <1>3, <2>1 DEF Tailed
<1>5. ASSUME queue # <<>>  PROVE Later(queue[1], queue'[1]) /\ queue[1].age \in Nat
  <2>1. 1 \in 1 .. Len(queue)
    BY <1>5, TickLater
  <2>. QED  BY <1>3, <1>5, <2>1, TickLater
<1>6. ASSUME Held', ~rx'.over  PROVE Linked(Seen', queue'[1])
  <2>1. Held /\ ~rx.over
    BY <1>6, TickDoes DEF SlaveInv, Held
  <2>2. Later(Seen, Seen') /\ Seen.age \in Nat
    BY <2>1, TickLater
  <2>3. CASE queue = <<>>
    <3>1. Newest(Seen)
      BY <2>1, <2>3 DEF SlaveInv, Trail, Joined
    <3>. QED  BY <1>3, <2>2, <2>3, <3>1, HeardLinks DEF SlaveInv
  <2>4. CASE queue # <<>>
    <3>1. Linked(Seen, queue[1])
      BY <2>1, <2>4 DEF SlaveInv, Trail, Joined
    <3>. QED  BY <1>5, <2>2, <2>4, <3>1, LaterLinks
  <2>. QED  BY <2>3, <2>4
<1>7. Joined'
  BY <1>3, <1>6 DEF Joined
<1>8. queue'[1].age \in Nat
  BY <1>1, <1>3, <1>5 DEF Later
<1>9. fault'.new => (e.bad /\ fault'.age = 0) \/ (fault.new /\ fault' = AgedFault)
  BY <1>1, AgedFacts DEF SlaveInv
<1>10. Noted'
  <2>1. ASSUME fault'.new  PROVE fault'.age <= queue'[1].age
    <3>1. CASE fault'.age = 0
      BY <1>8, <3>1
    <3>2. CASE fault.new /\ fault' = AgedFault
      <4>1. fault'.age = Older(fault.age) /\ fault.age \in Age
        BY <3>2, AgedFacts DEF SlaveInv, Types
      <4>2. queue # <<>> /\ fault.age <= queue[1].age
        BY <3>2 DEF SlaveInv, Trail, Noted
      <4>3. fault'.age <= fault.age + 1 /\ fault'.age \in Nat /\ fault.age \in Nat
        BY <4>1, OlderBound, Constants DEF Age
      <4>. QED  BY <1>5, <4>2, <4>3 DEF Later
    <3>. QED  BY <1>9, <2>1, <3>1, <3>2
  <2>. QED  BY <1>3, <2>1 DEF Noted
<1>11. ASSUME Torn(queue'[1]), ~recovery.blind, ~fault'.new
       PROVE  recovery.discarding /\ recovery'.age - queue'[1].age < T35
  <2>1. ~fault.new
    BY <1>1, <1>11, AgedFacts DEF SlaveInv
  <2>2. recovery.age \in Nat /\ recovery'.age \in Nat
    BY TickRecovery
  <2>3. CASE queue = <<>>
    <3>1. queue'[1] = e /\ NextTorn
      BY <1>3, <1>11, <2>3 DEF Torn, Heard
    <3>2. recovery.discarding /\ recovery.age <= line.age
      BY <1>11, <2>3, <3>1 DEF SlaveInv, Trail, HeededNext
    <3>3. recovery'.age <= recovery.age + 1
      BY <3>2, TickRecovery
    <3>4. line.age + 1 < T35 /\ line.age \in Nat
      BY <3>1, Numbers, Bounding DEF SlaveInv, NextTorn, NextGap
    <3>5. \A r, s, l \in Nat : r <= l /\ s <= r + 1 /\ l + 1 < T35 => s - 0 < T35
      BY Bounding
    <3>6. recovery'.age - queue'[1].age < T35
      BY <1>1, <2>2, <3>1, <3>2, <3>3, <3>4, <3>5
    <3>. QED  BY <3>2, <3>6
  <2>4. CASE queue # <<>>
    <3>1. Torn(queue[1]) /\ queue'[1].age = queue[1].age + 1 /\ queue[1].age \in Nat
      BY <1>5, <1>11, <2>4 DEF Later, Torn
    <3>2. recovery.discarding /\ recovery.age - queue[1].age < T35
      BY <1>11, <2>1, <2>4, <3>1 DEF SlaveInv, Trail, Heeded
    <3>3. recovery'.age <= recovery.age + 1
      BY <3>2, TickRecovery
    <3>4. \A r, s, q \in Nat : r - q < T35 /\ s <= r + 1 => s - (q + 1) < T35
      BY Bounding
    <3>5. recovery'.age - queue'[1].age < T35
      BY <2>2, <3>1, <3>2, <3>3, <3>4
    <3>. QED  BY <3>2, <3>5
  <2>. QED  BY <2>3, <2>4
<1>12. Heeded' /\ HeededNext'
  BY <1>3, <1>11, TickRecovery DEF Heeded, HeededNext, Torn
<1>. QED  BY <1>3, <1>4, <1>7, <1>10, <1>12 DEF Trail

LEMMA TickTrail ==
  ASSUME SlaveInv, Tick
  PROVE  Trail' /\ FramesIntact'
<1>1. Trail'
  BY WorldDoes, TickUnheard, TickHeard DEF SlaveInv
<1>2. /\ rx'.active = rx.active /\ rx'.ready = rx.ready /\ recovery'.blind = recovery.blind
  BY TickDoes DEF SlaveInv
<1>3. FramesIntact'
  BY <1>2 DEF SlaveInv, FramesIntact
<1>. QED  BY <1>1, <1>3

(* A byte put at the end of a frame                                        *)
LEMMA AppendBytes ==
  ASSUME NEW s \in Seq(Byte), NEW b \in Byte
  PROVE  /\ FrameBytes(Append(s, b)) = FrameBytes(s) \cup {b}
         /\ s # <<>> => s[Len(s)] \in FrameBytes(s)
         /\ s = <<>> => FrameBytes(s) = {}
<1> DEFINE n == Append(s, b)
<1>1. /\ n \in Seq(Byte) /\ Len(n) = Len(s) + 1 /\ Len(s) \in Nat
      /\ \A i \in 1 .. Len(s) : n[i] = s[i]
      /\ n[Len(s) + 1] = b
  BY AppendProperties
<1>2. DOMAIN n = 1 .. Len(n) /\ DOMAIN s = 1 .. Len(s) /\ (s = <<>> <=> Len(s) = 0)
  BY <1>1, LenProperties, EmptySeq
<1>. HIDE DEF n
<1>3. FrameBytes(n) = FrameBytes(s) \cup {b}
  <2>1. FrameBytes(n) = {n[i] : i \in 1 .. Len(s) + 1} /\ FrameBytes(s) = {s[i] : i \in 1 .. Len(s)}
    BY <1>1, <1>2, Zenon DEF FrameBytes
  <2>2. 1 .. Len(s) + 1 = (1 .. Len(s)) \cup {Len(s) + 1}
    BY <1>1
  <2>. QED  BY <1>1, <2>1, <2>2
<1>4. s # <<>> => s[Len(s)] \in FrameBytes(s)
  BY <1>1, <1>2 DEF FrameBytes
<1>5. s = <<>> => FrameBytes(s) = {}
  BY DEF FrameBytes
<1>. QED  BY <1>3, <1>4, <1>5 DEF n

(* What is taken from the queue                                            *)
LEMMA TakenFacts ==
  ASSUME SlaveInv, TakeEvent
  PROVE  /\ queue # <<>> /\ queue[1] \in Event /\ queue[1].age \in Nat /\ 1 \in 1 .. Len(queue)
         /\ queue[1].age < Horizon /\ queue[1].byte \in Byte /\ queue[1].age \in Age
         /\ UNCHANGED <<pin, line>> /\ ~fault'.new
<1>1. queue # <<>> /\ queue[1] \in Event
  BY TakeEventDoes DEF SlaveInv
<1>2. 1 \in 1 .. Len(queue) /\ queue[1].age \in Nat
  BY <1>1, QueueFacts, EventAges DEF SlaveInv
<1>3. queue[1].age <= Oldest + lag
  BY <1>2 DEF SlaveInv, Bounds, Queued, Young
<1>4. queue[1].age < Horizon
  <2>1. \A a \in Nat : a <= Oldest + lag => a < Horizon
    BY Numbers, Bounding DEF SlaveInv
  <2>. QED  BY <1>2, <1>3, <2>1
<1>5. UNCHANGED <<pin, line>>
  BY Zenon DEF TakeEvent
<1>6. ~fault'.new
  BY TakeEventDoes, ServiceTypes DEF SlaveInv
<1>. QED  BY <1>1, <1>2, <1>4, <1>5, <1>6 DEF Event

(* The branch that puts a byte in the receiver, and the others             *)
Accepted(e) ==
  /\ ~fault.new /\ ~e.bad /\ Accepts(e.age) /\ rx' = Push(rx, e.byte, e.age)
  /\ recovery' = After(e.age)

LEMMA TakenBranches ==
  ASSUME SlaveInv, TakeEvent
  PROVE  \/ Accepted(queue[1]) /\ recovery'.blind = recovery.blind
         \/ /\ rx'.active = <<>> /\ rx'.ready = <<>>
            /\ recovery'.blind \/ (recovery'.discarding /\ recovery'.age <= queue[1].age)
<1> DEFINE e == queue[1]
<1>1. PICK r, c : Handled(e, r, c) /\ Service(r, c) /\ Fits(r)
  BY TakeEventDoes DEF SlaveInv
<1>2. e \in Event /\ e.age \in Nat /\ Fits(rx) /\ recovery \in Distrust
  BY TakenFacts DEF SlaveInv, Types
<1>3. recovery.discarding => rx.active = <<>> /\ rx.ready = <<>>
  BY DEF SlaveInv, Bounds, Held, Bounded, Emptied
<1>4. fault.new => fault.age <= e.age
  BY DEF SlaveInv, Trail, Noted
<1>. HIDE DEF e
<1>5. CASE fault.new
  <2>1. rx' = Discard(r) /\ recovery' = Begin(fault.age)
    BY <1>1, <1>5 DEF Service
  <2>2. recovery'.discarding /\ recovery'.age = fault.age
    BY <2>1 DEF Begin
  <2>. QED  BY <1>1, <1>4, <1>5, <2>1, <2>2, DiscardFits DEF e
<1>6. CASE ~fault.new
  <2>1. rx' = r /\ recovery' = c
    BY <1>1, <1>6 DEF Service
  <2>2. CASE r = Discard(rx) /\ c = Begin(e.age)
    <3>1. recovery'.discarding /\ recovery'.age = e.age
      BY <2>1, <2>2 DEF Begin
    <3>. QED  BY <1>2, <2>1, <2>2, <3>1, DiscardFits DEF e
  <2>3. CASE /\ recovery.discarding /\ r = rx
             /\ c = [recovery EXCEPT !.blind = @ \/ e.age < recovery.age]
    <3>1. /\ recovery'.discarding = recovery.discarding /\ recovery'.age = recovery.age
          /\ recovery'.blind = (recovery.blind \/ e.age < recovery.age)
      BY <1>2, <2>1, <2>3, Zenon DEF Distrust
    <3>2. e.age < recovery.age \/ recovery.age <= e.age
      BY <1>2, Numbers DEF SlaveInv
    <3>. QED  BY <1>3, <2>1, <2>3, <3>1, <3>2, Zenon DEF e
  <2>4. CASE ~e.bad /\ Accepts(e.age) /\ r = Push(rx, e.byte, e.age) /\ c = After(e.age)
    <3>1. recovery'.blind = recovery.blind
      BY <2>1, <2>4, Zenon DEF After, Accepts, Trusting
    <3>. QED  BY <1>6, <2>1, <2>4, <3>1 DEF Accepted, e
  <2>5. CASE ~Accepts(e.age) /\ r = rx /\ c = After(e.age)
    <3>1. recovery.discarding /\ recovery' = [recovery EXCEPT !.age = e.age]
      BY <2>1, <2>5, Zenon DEF After, Accepts
    <3>2. recovery'.discarding = recovery.discarding /\ recovery'.age = e.age
      BY <1>2, <3>1, Zenon DEF Distrust
    <3>3. recovery'.discarding /\ recovery'.age <= e.age
      BY <1>2, <3>1, <3>2
    <3>. QED  BY <1>3, <2>1, <2>5, <3>1, <3>3, Zenon DEF e
  <2>. QED  BY <1>1, <2>2, <2>3, <2>4, <2>5 DEF Handled
<1>. QED  BY <1>5, <1>6

(* A torn byte is not accepted: the recovery that should pass it over is   *)
(* still younger than the silence it waits for.                            *)
LEMMA TornNotAccepted ==
  ASSUME SlaveInv, TakeEvent, Accepted(queue[1]), queue[1].byte.torn
  PROVE  recovery.blind
<1> DEFINE e == queue[1]
<1>1. Torn(e) /\ ~fault.new /\ Accepts(e.age)
  BY DEF Torn, Accepted
<1>2. queue # <<>> /\ e.age \in Age /\ e.age < Horizon /\ recovery.age \in Age
  BY TakenFacts DEF SlaveInv, Types, Distrust
<1>3. recovery.blind \/ (recovery.discarding /\ recovery.age - e.age < T35)
  BY <1>1, <1>2 DEF SlaveInv, Trail, Heeded
<1>. HIDE DEF e
<1>4. ~(recovery.discarding /\ recovery.age - e.age < T35)
  BY <1>1, <1>2, SilentGapMeans DEF Accepts, Ends
<1>. QED  BY <1>3, <1>4

LEMMA TakenHeed ==
  ASSUME SlaveInv, TakeEvent, queue[1].byte.torn
  PROVE  recovery'.blind \/ (recovery'.discarding /\ recovery'.age <= queue[1].age)
BY TornNotAccepted, TakenBranches, Zenon

LEMMA AcceptedFrames ==
  ASSUME SlaveInv, TakeEvent, Accepted(queue[1]), recovery'.blind = recovery.blind
  PROVE  FramesIntact' /\ (Held' /\ ~rx'.over => Seen' = [byte |-> queue[1].byte, bad |-> FALSE,
                                                          age |-> queue[1].age])
<1> DEFINE e == queue[1]
           p == PollRx(rx, e.age)
<1>1. /\ queue # <<>> /\ e \in Event /\ e.byte \in Byte /\ e.age \in Age /\ e.age \in Nat
  BY TakenFacts
<1>2. Fits(rx) /\ Fits(p) /\ p.active \in Seq(Byte) /\ rx' = Push(rx, e.byte, e.age)
  BY <1>1, PollRxFits DEF SlaveInv, Types, Accepted, Fits, Receiver
<1>3. /\ rx'.ready = p.ready /\ rx'.age = e.age
      /\ rx'.over => rx'.active = p.active
      /\ ~rx'.over => ~p.over /\ rx'.active = Append(p.active, e.byte)
  BY <1>1, <1>2, PushFits
<1>4. Intact(rx.active) /\ Intact(rx.ready)
  BY IntactFrames DEF SlaveInv
<1>5. \/ p = rx /\ ~GapElapsed(rx, e.age)
      \/ p.active = <<>> /\ p.ready \in {rx.active, rx.ready}
  BY <1>1, <1>2, PollRxFits, PublishFits
<1>6. FrameBytes(<<>>) = {}
  BY DEF FrameBytes
<1>7. Intact(p.active) /\ Intact(p.ready)
  BY <1>4, <1>5, <1>6 DEF Intact, Whole, Untorn
<1>8. e.byte.torn => recovery.blind
  BY TornNotAccepted
<1>9. ASSUME p.active # <<>>, ~p.over
      PROVE  p.active[Len(p.active)].segment = e.byte.segment
  <2>1. p = rx /\ Held /\ ~GapElapsed(rx, e.age)
    BY <1>5, <1>9 DEF Held
  <2>2. Linked(Seen, e)
    BY <1>1, <1>9, <2>1 DEF SlaveInv, Trail, Joined
  <2>3. rx.age >= e.age /\ rx.age \in Age /\ rx.age \in Nat
    BY <1>2, <2>2, Numbers DEF Linked, Seen, SlaveInv, Fits, Receiver
  <2>4. rx.age <= Longest + RxWait + lag
    BY <2>1 DEF SlaveInv, Bounds, Bounded
  <2>5. rx.age - e.age < Horizon
    <3>1. \A x, y \in Nat : x <= Longest + RxWait + lag => x - y < Horizon
      BY Numbers, Bounding DEF SlaveInv
    <3>. QED  BY <1>1, <2>3, <2>4, <3>1
  <2>6. ~SilentGap(rx.age, e.age)
    BY <2>1 DEF GapElapsed, Held
  <2>7. ~(rx.age - e.age >= T35)
    BY <1>1, <2>3, <2>5, <2>6, SilentGapMeans
  <2>8. rx.age - e.age < T35
    BY <1>1, <2>3, <2>7, Bounding
  <2>. QED  BY <2>1, <2>2, <2>8 DEF Linked, Seen
<1>. HIDE DEF e, p
<1>10. Intact(rx'.active)
  <2>1. CASE rx'.over
    BY <1>3, <1>7, <2>1
  <2>2. CASE ~rx'.over
    <3>1. FrameBytes(rx'.active) = FrameBytes(p.active) \cup {e.byte}
      BY <1>1, <1>2, <1>3, <2>2, AppendBytes
    <3>2. Whole(p.active) /\ (recovery.blind \/ Untorn(p.active))
      BY <1>7 DEF Intact
    <3>3. \A b \in FrameBytes(p.active) : b.segment = e.byte.segment
      BY <1>2, <1>3, <1>9, <2>2, <3>2, AppendBytes, <1>1 DEF Whole
    <3>4. Whole(rx'.active)
      BY <3>1, <3>2, <3>3 DEF Whole
    <3>5. recovery.blind \/ Untorn(rx'.active)
      BY <1>8, <3>1, <3>2, Zenon DEF Untorn, e
    <3>. QED  BY <3>4, <3>5 DEF Intact
  <2>. QED  BY <2>1, <2>2
<1>11. FramesIntact'
  BY <1>3, <1>7, <1>10, Zenon DEF FramesIntact, Intact, Whole, Untorn
<1>12. ASSUME ~rx'.over  PROVE rx'.active[Len(rx'.active)] = e.byte /\ rx'.age = e.age
  BY <1>1, <1>2, <1>3, <1>12, AppendProperties
<1>. QED  BY <1>11, <1>12 DEF Seen, e

LEMMA TakeEventTrail ==
  ASSUME SlaveInv, TakeEvent
  PROVE  Trail' /\ FramesIntact'
<1> DEFINE e == queue[1]
<1>1. /\ queue # <<>> /\ e \in Event /\ e.age \in Nat /\ UNCHANGED <<pin, line>> /\ ~fault'.new
  BY TakenFacts
<1>2. /\ queue' \in Seq(Event) /\ Len(queue') = Len(queue) - 1
      /\ \A i \in 1 .. Len(queue') : queue'[i] = queue[i + 1]
      /\ queue' = <<>> <=> Len(queue) = 1
  BY <1>1, TailFacts, Zenon DEF SlaveInv, TakeEvent
<1>3. Len(queue) \in Nat /\ Len(queue) >= 1
  BY <1>1, QueueFacts DEF SlaveInv
<1>4. \/ queue' = <<>> /\ Newest(e)
      \/ queue' # <<>> /\ queue'[1] = queue[2] /\ Linked(e, queue'[1])
  <2>1. CASE queue' = <<>>
    <3>1. Len(queue) = 1
      BY <1>2, <2>1
    <3>. QED  BY <1>1, <2>1, <3>1 DEF SlaveInv, Trail, Tailed
  <2>2. CASE queue' # <<>>
    <3>1. 1 \in 1 .. Len(queue) - 1 /\ 1 \in 1 .. Len(queue')
      BY <1>2, <1>3, <2>2
    <3>. QED  BY <1>2, <2>2, <3>1 DEF SlaveInv, Trail, Chained
  <2>. QED  BY <2>1, <2>2
<1>5. Chained'
  <2>. SUFFICES ASSUME NEW i \in 1 .. Len(queue') - 1  PROVE Linked(queue'[i], queue'[i + 1])
    BY DEF Chained
  <2>1. /\ i \in 1 .. Len(queue') /\ i + 1 \in 1 .. Len(queue') /\ i + 1 \in 1 .. Len(queue) - 1
    BY <1>2, <1>3
  <2>2. queue'[i] = queue[i + 1] /\ queue'[i + 1] = queue[(i + 1) + 1]
    BY <1>2, <2>1
  <2>. QED  BY <2>1, <2>2 DEF SlaveInv, Trail, Chained
<1>6. Tailed'
  <2>. SUFFICES ASSUME queue' # <<>>  PROVE Newest(queue[Len(queue)])'
    BY DEF Tailed
  <2>1. Len(queue') \in 1 .. Len(queue')
    BY <1>2, <1>3
  <2>2. queue'[Len(queue')] = queue[Len(queue)]
    BY <1>2, <1>3, <2>1
  <2>3. Newest(queue[Len(queue)])
    BY <1>1 DEF SlaveInv, Trail, Tailed
  <2>. QED  BY <1>1, <2>2, <2>3 DEF Newest, NextTorn, NextGap
<1>7. e.byte.torn => recovery'.blind \/ (recovery'.discarding /\ recovery'.age <= e.age)
  BY TakenHeed
<1>8. Noted'
  BY <1>1 DEF Noted
<1>9. recovery'.age \in Nat
  <2>1. Types'
    BY SlaveStepTypes DEF SlaveInv
  <2>2. recovery'.age \in Age
    BY <2>1 DEF Types, Distrust
  <2>. QED  BY <2>2, Constants DEF Age
<1>10. Heeded'
  <2>. SUFFICES ASSUME queue' # <<>>, Torn(queue'[1]), ~recovery'.blind
                PROVE  recovery'.discarding /\ recovery'.age - queue'[1].age < T35
    BY DEF Heeded, Torn
  <2>1. e.byte.torn /\ e.age - queue'[1].age < T35
    BY <1>4 DEF Linked
  <2>2. recovery'.discarding /\ recovery'.age <= e.age
    BY <1>7, <2>1
  <2>3. queue'[1].age \in Nat
    <3>1. 1 \in 1 .. Len(queue') /\ 1 + 1 \in 1 .. Len(queue)
      BY <1>2, <1>3
    <3>. QED  BY <1>2, <3>1, EventAges DEF SlaveInv
  <2>4. \A x, y, z \in Nat : x <= y /\ y - z < T35 => x - z < T35
    BY Bounding
  <2>5. recovery'.age - queue'[1].age < T35
    BY <1>1, <1>9, <2>1, <2>2, <2>3, <2>4
  <2>. QED  BY <2>2, <2>5
<1>11. HeededNext'
  <2>. SUFFICES ASSUME queue' = <<>>, NextTorn, ~recovery'.blind
                PROVE  recovery'.discarding /\ recovery'.age <= line.age
    BY <1>1 DEF HeededNext, NextTorn, NextGap
  <2>1. e.byte.torn /\ e.age = line.age
    BY <1>4 DEF Newest
  <2>. QED  BY <1>7, <2>1
<1>12. CASE /\ rx'.active = <<>> /\ rx'.ready = <<>>
  BY <1>5, <1>6, <1>8, <1>10, <1>11, <1>12, NothingHeld DEF Trail
<1>13. CASE Accepted(queue[1]) /\ recovery'.blind = recovery.blind
  <2>1. /\ FramesIntact'
        /\ Held' /\ ~rx'.over => Seen' = [byte |-> e.byte, bad |-> FALSE, age |-> e.age]
    BY <1>13, AcceptedFrames
  <2>2. ASSUME Held', ~rx'.over
        PROVE  IF queue' = <<>> THEN Newest(Seen)' ELSE Linked(Seen', queue'[1])
    <3>1. Seen'.byte = e.byte /\ ~Seen'.bad /\ ~e.bad /\ Seen'.age = e.age
      BY <1>13, <2>1, <2>2 DEF Accepted
    <3>2. CASE queue' = <<>>
      <4>1. Newest(e)
        BY <1>4, <3>2
      <4>. QED  BY <1>1, <3>1, <3>2, <4>1 DEF Newest, NextTorn, NextGap
    <3>3. CASE queue' # <<>>
      <4>1. Linked(e, queue'[1])
        BY <1>4, <3>3
      <4>. QED  BY <3>1, <3>3, <4>1 DEF Linked
    <3>. QED  BY <3>2, <3>3
  <2>3. Joined'
    BY <2>2 DEF Joined
  <2>. QED  BY <1>5, <1>6, <1>8, <1>10, <1>11, <2>1, <2>3 DEF Trail
<1>. QED  BY <1>12, <1>13, TakenBranches

LEMMA NextTrail == SlaveInv /\ [Next]_vars => SlaveInv'
<1>. SUFFICES ASSUME SlaveInv, [Next]_vars  PROVE Trail' /\ FramesIntact'
  BY NextTypes, NextBounds DEF SlaveInv
<1>1. CASE UNCHANGED vars
  BY <1>1, NothingCame DEF vars
<1>2. CASE Next
  BY <1>2, ServiceFaultTrail, TakeEventTrail, PollSlaveTrail, QuietStep, RefuseErrorTrail,
     TickTrail DEF Next
<1>. QED  BY <1>1, <1>2

(* However far the comm task lags behind the interrupt, a frame it cuts    *)
(* out of the queue is made of bytes that came without a silence and       *)
(* without a missing byte between them, and none of them follows damage,   *)
(* unless the recovery was blind.                                          *)
THEOREM SlaveFramesCorrect == Spec => []FramesIntact
<1>1. Init => SlaveInv
  BY InitTypes, InitBounds, InitTrail DEF SlaveInv
<1>2. Spec => []SlaveInv
  BY <1>1, NextTrail, PTL DEF Spec
<1>3. SlaveInv => FramesIntact
  BY DEF SlaveInv
<1>. QED  BY <1>2, <1>3, PTL

(* ------------------- the dialogue while nothing fails ----------------- *)

(* Bytes are on their way to the task, or a request it has served is on    *)
(* its way back: never both.                                               *)
Pending == Held \/ queue # <<>>
Owed == pc = "SEND" \/ Busy(tx)

(* The receiver trusts what it gets, and a finished frame is taken in the  *)
(* step that finishes it.                                                  *)
Clear ==
  /\ ~recovery.discarding /\ ~fault.new /\ ~stuck
  /\ \A i \in 1 .. Len(queue) : ~queue[i].bad
  /\ rx.ready = <<>> /\ ~rx.over /\ ~rx.overran

(* Every character time takes a character of the answer from the line.     *)
Shifting == IF Busy(tx) THEN pipe > 0 /\ tx.next = tx.age + pipe ELSE pipe = 0

(* What is pending or owed belongs to the frame the host is at.            *)
Dialogue ==
  /\ ~host.waiting => host.since = 0
  /\ host.waiting => ~InFrame /\ host.frame \in Requests
  /\ Pending => ~Owed /\ (InFrame \/ host.waiting \/ host.frame \in Broadcasts)
  /\ Owed => host.waiting /\ host.frame = tx.frame
  /\ InFrame => line.age <= 1
  /\ InFrame \/ (host.waiting /\ ~Owed) => Pending

(* Receiver and queue together hold what the host has sent of it, without  *)
(* a silence.                                                              *)
Stream ==
  /\ \A i \in 1 .. Len(rx.active) : rx.active[i].frame = host.frame /\ rx.active[i].part = i
  /\ \A i \in 1 .. Len(queue) : /\ queue[i].byte.frame = host.frame
                                /\ queue[i].byte.part = Len(rx.active) + i
  /\ Pending => Len(rx.active) + Len(queue) = host.sent
  /\ \A i \in 1 .. Len(queue) - 1 : queue[i].age < queue[i + 1].age + T35
  /\ Held /\ queue # <<>> => rx.age < queue[1].age + T35

(* How long after the last byte the frame is still pending, and how long   *)
(* the host has waited when the answer is begun.                           *)
Pace ==
  /\ queue # <<>> => queue[Len(queue)].age = line.age /\ line.age <= lag
  /\ Held => line.age <= RxWait + MaxLag + lag
  /\ Held /\ queue = <<>> =>
       /\ rx.age = line.age
       /\ pc \in {"SERVICE", "DRAIN"} => line.age <= lag
       /\ pc = "RECEIVE" /\ waited < RxWait => line.age <= MaxLag + waited
  /\ Held /\ pc = "POLL" => queue = <<>>
  /\ Pending /\ host.waiting => host.since = line.age
  /\ pc = "SEND" => host.since <= RxWait + MaxLag + lag
  /\ Busy(tx) => host.since <= RxWait + 2 * MaxLag + tx.age

Steady == Clear /\ Shifting /\ Dialogue /\ Stream /\ Pace

LEMMA InitSteady == Init => Steady
<1>. SUFFICES ASSUME Init  PROVE Steady
  OBVIOUS
<1>1. /\ queue = <<>> /\ ~Held /\ ~Busy(tx) /\ pipe = 0 /\ pc = "SERVICE" /\ Len(queue) = 0
      /\ rx.active = <<>> /\ Len(rx.active) = 0
  BY NoRxFits, IdleProgress DEF Init, Held
<1>2. Clear
  <2>1. /\ ~recovery.discarding /\ ~fault.new /\ ~stuck
        /\ rx.ready = <<>> /\ ~rx.over /\ ~rx.overran
    BY Zenon DEF Init, Trusting, NoFault, NoRx
  <2>. QED  BY <1>1, <2>1 DEF Clear
<1>3. ~host.waiting /\ host.since = 0 /\ ~InFrame
  BY Constants DEF Init, InFrame
<1>. QED  BY <1>1, <1>2, <1>3 DEF Steady, Shifting, Dialogue, Stream, Pace, Pending, Owed

(* Steps of the task that move no byte.                                    *)
LEMMA SameDialogue ==
  ASSUME Steady, UNCHANGED <<queue, rx, recovery, stuck, host, line>>, ~fault'.new,
         Owed' <=> Owed, Owed => tx'.frame = tx.frame
  PROVE  Clear' /\ Dialogue' /\ Stream'
<1>1. Pending' <=> Pending
  BY DEF Pending, Held
<1>2. InFrame' <=> InFrame
  BY DEF InFrame
<1>3. Clear' /\ Stream'
  BY <1>1 DEF Steady, Clear, Stream, Held
<1>4. Dialogue'
  BY <1>1, <1>2 DEF Steady, Dialogue
<1>. QED  BY <1>3, <1>4

LEMMA PaceNumbers ==
  ASSUME Types
  PROVE  /\ lag \in Nat /\ lag <= MaxLag /\ MaxLag \in Nat /\ RxWait \in Nat /\ RxWait > 0
         /\ waited \in Nat /\ waited <= RxWait
         /\ line.age \in Nat /\ line.age <= Turnaround /\ Turnaround \in Nat
         /\ host.since \in Nat /\ host.since <= Patience /\ Patience \in Nat
         /\ host.sent \in Nat /\ host.sent <= FrameLength /\ FrameLength \in Nat
         /\ FrameLength > 0 /\ AnswerLength \in Nat /\ AnswerLength > 0 /\ T35 \in Nat
         /\ T35 > 2 /\ T35 <= RxWait
         /\ RxWait + 2 * MaxLag <= Turnaround
         /\ RxWait + 2 * MaxLag + AnswerLength <= Patience
<1>1. host.since \in 0 .. Patience /\ host.sent \in 0 .. FrameLength
      /\ line.age \in 0 .. Turnaround
  BY DEF Types, Master, Wire
<1>. QED  BY <1>1, Numbers, Constants, HostAssumption

LEMMA ServiceFaultSteady ==
  ASSUME Types, Bounds, Steady, ServiceFault
  PROVE  Steady'
<1>1. /\ pc = "SERVICE" /\ pc' = "RECEIVE" /\ ~fault'.new /\ waited = 0
      /\ UNCHANGED <<queue, rx, recovery, waited, tx, pipe, stuck, lag, host, line>>
  BY DEF ServiceFault, Service, Steady, Clear, NoFault, Bounds, Sampled
<1>2. Owed' <=> Owed
  BY <1>1 DEF Owed, Busy
<1>3. Shifting'
  BY <1>1 DEF Steady, Shifting, Busy
<1>4. Pace'
  BY <1>1, PaceNumbers DEF Steady, Pace, Held, Pending, Busy
<1>. QED  BY <1>1, <1>2, <1>3, <1>4, SameDialogue DEF Steady

LEMMA DrainedSteady ==
  ASSUME Types, Bounds, Steady, Drained
  PROVE  Steady'
<1>1. /\ pc = "DRAIN" /\ pc' = "SERVICE" /\ queue = <<>>
      /\ UNCHANGED <<queue, fault, rx, recovery, tx, pipe, stuck, lag, host, line>>
  BY DEF Drained, Wait
<1>2. Owed' <=> Owed
  BY <1>1 DEF Owed, Busy
<1>3. Shifting' /\ ~fault'.new
  BY <1>1 DEF Steady, Shifting, Busy, Clear
<1>4. Pace'
  BY <1>1 DEF Steady, Pace, Held, Pending, Busy
<1>. QED  BY <1>1, <1>2, <1>3, <1>4, SameDialogue DEF Steady

LEMMA TimeOutSteady ==
  ASSUME Types, Bounds, Steady, TimeOut
  PROVE  Steady'
<1>1. /\ pc = "RECEIVE" /\ waited >= RxWait
      /\ pc' = (IF queue = <<>> THEN "POLL" ELSE "SERVICE")
      /\ UNCHANGED <<queue, fault, rx, recovery, tx, pipe, stuck, lag, host, line>>
  BY DEF TimeOut
<1>2. Owed' <=> Owed
  BY <1>1 DEF Owed, Busy
<1>3. Shifting' /\ ~fault'.new
  BY <1>1 DEF Steady, Shifting, Busy, Clear
<1>4. Pace'
  BY <1>1 DEF Steady, Pace, Held, Pending, Busy
<1>. QED  BY <1>1, <1>2, <1>3, <1>4, SameDialogue DEF Steady

(* The answer is begun; the transmitter is empty, so that it is not        *)
(* refused.                                                                *)
LEMMA StartSteady ==
  ASSUME Types, Bounds, Steady, Start
  PROVE  Steady'
<1>1. /\ pc = "SEND" /\ pc' = "SENDING" /\ Busy(tx') /\ tx'.age = 0 /\ tx'.next + pipe = pipe'
      /\ tx'.next > 0 /\ tx'.frame = tx.frame
      /\ UNCHANGED <<queue, fault, rx, recovery, waited, sample, lag, line>>
  BY StartDoes
<1>2. UNCHANGED <<stuck, host>> /\ ~Busy(tx)
  BY <1>1 DEF Start, Types, Busy
<1>3. tx'.next \in Nat
  BY AnswerStepTypes DEF Types, Progress, Answer
<1>4. Owed /\ Owed' /\ ~Pending /\ ~Pending'
  BY <1>1 DEF Owed, Steady, Dialogue, Pending, Held
<1>5. pipe = 0
  BY <1>2 DEF Steady, Shifting
<1>6. Shifting' /\ ~fault'.new
  BY <1>1, <1>3, <1>5 DEF Shifting, Steady, Clear
<1>7. Pace'
  <2>1. host.since <= RxWait + MaxLag + lag
    BY <1>1 DEF Steady, Pace
  <2>2. host.since <= RxWait + 2 * MaxLag + 0
    BY <2>1, PaceNumbers
  <2>. QED  BY <1>1, <1>2, <1>4, <2>2 DEF Pace, Pending
<1>. QED  BY <1>1, <1>2, <1>4, <1>6, <1>7, SameDialogue DEF Steady

LEMMA CompleteSteady ==
  ASSUME Types, Bounds, Steady, Complete
  PROVE  Steady'
<1>1. /\ pc = "SENDING" /\ pc' = "SERVICE" /\ ~Busy(tx) /\ ~Busy(tx')
      /\ UNCHANGED <<queue, fault, rx, recovery, pipe, stuck, lag, host, line>>
  BY IdleProgress DEF Complete, Wait, Busy
<1>2. ~Owed' /\ ~Owed
  BY <1>1 DEF Owed
<1>3. Shifting' /\ ~fault'.new
  BY <1>1 DEF Steady, Shifting, Clear
<1>4. ~Held
  BY <1>1 DEF Bounds, Bounded
<1>5. Pace'
  BY <1>1, <1>4 DEF Steady, Pace, Held, Pending
<1>. QED  BY <1>1, <1>2, <1>3, <1>5, SameDialogue DEF Steady

(* An answer is neither refused nor aborted.                               *)
LEMMA AnswerGoesOn ==
  ASSUME Types, Bounds, Steady
  PROVE  ~Refuse /\ ~Abort /\ (Busy(tx) => tx.age < AnswerLength)
<1>1. ASSUME Busy(tx)  PROVE tx.age < AnswerLength
  <2>1. pipe > 0 /\ tx.next = tx.age + pipe
    BY <1>1 DEF Steady, Shifting
  <2>2. tx.next \in 0 .. AnswerLength
    BY DEF Types, Progress, Answer
  <2>. QED  BY <2>1, <2>2, Numbers, Constants
<1>2. ~Refuse
  BY DEF Refuse, Types, Busy, Steady, Shifting
<1>3. ~Abort
  <2>. SUFFICES ASSUME Abort  PROVE FALSE
    OBVIOUS
  <2>1. Busy(tx) /\ tx.age >= Budget
    BY DEF Abort, Busy
  <2>. QED  BY <1>1, <2>1, Numbers, Constants
<1>. QED  BY <1>1, <1>2, <1>3

(* The head of the queue goes to the end of the unfinished frame: it is    *)
(* too close to the byte before it to finish a frame, and within its       *)
(* length.                                                                 *)
LEMMA TakeEventAppends ==
  ASSUME Types, Bounds, Steady, TakeEvent
  PROVE  /\ rx'.active = Append(rx.active, queue[1].byte) /\ rx'.age = queue[1].age
         /\ rx'.ready = <<>> /\ ~rx'.over /\ ~rx'.overran
         /\ recovery' = recovery /\ ~fault'.new
<1> DEFINE e == queue[1]
<1>1. PICK r, c : Handled(e, r, c) /\ Service(r, c)
  BY TakeEventDoes
<1>2. /\ queue # <<>> /\ e \in Event /\ e.age \in Age /\ e.byte \in Byte /\ Fits(rx)
      /\ 1 \in 1 .. Len(queue) /\ rx.age \in Age
  BY TakeEventDoes, QueueFacts DEF Event, Types, Fits, Receiver
<1>3. ~e.bad /\ ~recovery.discarding /\ ~fault.new
  BY <1>2 DEF Steady, Clear
<1>4. rx' = Push(rx, e.byte, e.age) /\ recovery' = recovery /\ ~fault'.new
  BY <1>1, <1>3 DEF Handled, Accepts, After, Service, NoFault
<1>5. ~GapElapsed(rx, e.age)
  <2>. SUFFICES ASSUME Held  PROVE ~SilentGap(rx.age, e.age)
    BY DEF GapElapsed, Held
  <2>1. rx.age < e.age + T35
    BY <1>2 DEF Steady, Stream
  <2>2. e.age <= Oldest + lag /\ e.age \in Nat
    BY <1>2, EventAges DEF Bounds, Queued, Young
  <2>3. rx.age - e.age < T35 /\ e.age < Horizon
    BY <2>1, <2>2, Numbers, Bounding
  <2>. QED  BY <1>2, <2>3, SilentGapMeans
<1>6. Len(rx.active) < MaxAdu /\ ~rx.over /\ ~rx.overran /\ rx.ready = <<>>
  <2>1. Len(rx.active) + Len(queue) = host.sent /\ Len(queue) \in Nat /\ Len(queue) # 0
    BY <1>2, QueueFacts DEF Steady, Stream, Pending
  <2>2. Len(rx.active) \in Nat
    BY <1>2 DEF Fits, Receiver
  <2>. QED  BY <2>1, <2>2, PaceNumbers, Constants DEF Steady, Clear
<1>7. PollRx(rx, e.age) = rx
  BY <1>2, <1>5, PollRxFits
<1>8. /\ rx'.ready = rx.ready /\ rx'.age = e.age /\ rx'.overran = rx.overran
      /\ (rx'.over <=> rx.over \/ Len(rx.active) >= MaxAdu)
      /\ (~rx'.over => rx'.active = Append(rx.active, e.byte))
  BY <1>2, <1>4, <1>7, PushFits
<1>9. ~rx'.over
  <2>1. ~(Len(rx.active) >= MaxAdu)
    <3>1. Len(rx.active) \in Nat
      BY <1>2 DEF Fits, Receiver
    <3>. QED  BY <1>6, <3>1, Constants
  <2>. QED  BY <1>6, <1>8, <2>1
<1>. QED  BY <1>4, <1>6, <1>8, <1>9

LEMMA TakeEventSteady ==
  ASSUME Types, Bounds, Steady, TakeEvent
  PROVE  Steady'
<1> DEFINE n == Len(rx.active)
           k == Len(queue)
<1>1. /\ pc \in {"RECEIVE", "DRAIN"} /\ pc' = "DRAIN" /\ queue # <<>> /\ queue' = Tail(queue)
      /\ UNCHANGED <<tx, pipe, stuck, lag, host, line>>
  BY DEF TakeEvent
<1>2. /\ rx'.active = Append(rx.active, queue[1].byte) /\ rx'.age = queue[1].age
      /\ rx'.ready = <<>> /\ ~rx'.over /\ ~rx'.overran
      /\ recovery' = recovery /\ ~fault'.new
  BY TakeEventAppends
<1>3. /\ Len(queue') = k - 1 /\ k \in Nat /\ k # 0
      /\ \A i \in 1 .. Len(queue') : queue'[i] = queue[i + 1]
      /\ (queue' = <<>> <=> k = 1)
  BY <1>1, TailFacts, QueueFacts
<1>4. /\ Len(rx'.active) = n + 1 /\ n \in Nat /\ rx'.active # <<>>
      /\ \A i \in 1 .. n : rx'.active[i] = rx.active[i]
      /\ rx'.active[n + 1] = queue[1].byte
  <2>1. rx.active \in Seq(Byte) /\ queue[1].byte \in Byte
    BY TakeEventDoes DEF Types, Fits, Receiver, Event
  <2>. QED  BY <1>2, <2>1, AppendProperties
<1>. HIDE DEF n, k
<1>5. Pending /\ Pending' /\ Held' /\ (InFrame' <=> InFrame) /\ ~Owed /\ ~Owed'
  BY <1>1, <1>4 DEF Pending, Held, InFrame, Owed, Steady, Dialogue, Busy
<1>6. Clear'
  <2>1. \A i \in 1 .. k - 1 : i + 1 \in 1 .. k
    BY <1>3
  <2>2. \A i \in 1 .. Len(queue') : ~queue'[i].bad
    BY <1>3, <2>1 DEF Steady, Clear, k
  <2>. QED  BY <1>1, <1>2, <2>2 DEF Steady, Clear
<1>7. Shifting' /\ Dialogue'
  BY <1>1, <1>5 DEF Steady, Shifting, Busy, Dialogue
<1>8. Stream'
  <2>1. \A i \in 1 .. n : rx.active[i].frame = host.frame /\ rx.active[i].part = i
    BY DEF Steady, Stream, n
  <2>2. \A i \in 1 .. k : /\ queue[i].byte.frame = host.frame
                          /\ queue[i].byte.part = n + i
    BY DEF Steady, Stream, n, k
  <2>3. \A i \in 1 .. n + 1 : rx'.active[i].frame = host.frame /\ rx'.active[i].part = i
    <3>1. 1 \in 1 .. k
      BY <1>3
    <3>2. \A i \in 1 .. n + 1 : i \in 1 .. n \/ i = n + 1
      BY <1>4
    <3>3. ASSUME NEW i \in 1 .. n
          PROVE  rx'.active[i].frame = host.frame /\ rx'.active[i].part = i
      BY <1>4, <2>1
    <3>4. queue[1].byte.frame = host.frame /\ queue[1].byte.part = n + 1
      BY <2>2, <3>1
    <3>5. rx'.active[n + 1].frame = host.frame /\ rx'.active[n + 1].part = n + 1
      BY <1>4, <3>4
    <3>. QED  BY <3>2, <3>3, <3>5
  <2>4. \A i \in 1 .. k - 1 : /\ queue'[i].byte.frame = host.frame
                              /\ queue'[i].byte.part = (n + 1) + i
    <3>1. \A i \in 1 .. k - 1 : i + 1 \in 1 .. k /\ n + (i + 1) = (n + 1) + i
      BY <1>3, <1>4
    <3>. QED  BY <1>3, <2>2, <3>1
  <2>5. (n + 1) + (k - 1) = host.sent
    BY <1>3, <1>4, <1>5 DEF Steady, Stream, n, k
  <2>6. \A i \in 1 .. k - 1 : queue[i].age < queue[i + 1].age + T35
    BY DEF Steady, Stream, k
  <2>7. \A i \in 1 .. (k - 1) - 1 : queue'[i].age < queue'[i + 1].age + T35
    <3>1. \A i \in 1 .. (k - 1) - 1 : i + 1 \in 1 .. k - 1 /\ i \in 1 .. k - 1
      BY <1>3
    <3>. QED  BY <1>3, <2>6, <3>1
  <2>8. queue' # <<>> => rx'.age < queue'[1].age + T35
    <3>1. queue' # <<>> => 1 \in 1 .. k - 1 /\ 1 + 1 = 2
      BY <1>3
    <3>. QED  BY <1>2, <1>3, <2>6, <3>1
  <2>. QED  BY <1>1, <1>3, <1>4, <2>3, <2>4, <2>5, <2>7, <2>8 DEF Stream
<1>9. Pace'
  <2>1. queue[k].age = line.age /\ line.age <= lag
    BY <1>1 DEF Steady, Pace, k
  <2>2. queue' # <<>> => queue'[Len(queue')].age = line.age
    <3>1. queue' # <<>> => k - 1 \in 1 .. k - 1 /\ (k - 1) + 1 = k
      BY <1>3
    <3>. QED  BY <1>3, <2>1, <3>1
  <2>3. queue' = <<>> => rx'.age = line.age
    BY <1>2, <1>3, <2>1
  <2>4. line.age <= RxWait + MaxLag + lag
    BY <2>1, PaceNumbers
  <2>5. host.waiting => host.since = line.age
    BY <1>5 DEF Steady, Pace
  <2>6. ~Busy(tx)'
    BY <1>5 DEF Owed
  <2>. QED  BY <1>1, <2>1, <2>2, <2>3, <2>4, <2>5, <2>6 DEF Pace
<1>. QED  BY <1>6, <1>7, <1>8, <1>9 DEF Steady

(* What is served is what the host has sent.                               *)
LEMMA ServedIs ==
  ASSUME NEW s \in Seq(Byte), NEW f \in Frames, Len(s) = FrameLength,
         \A i \in 1 .. Len(s) : s[i].frame = f /\ s[i].part = i
  PROVE  Served(s) = IF f \in Requests THEN f ELSE None
<1>1. 1 \in 1 .. FrameLength /\ s[1].frame = f
  BY Constants
<1>2. CASE f \in Requests
  <2>1. \E g \in Requests : /\ Len(s) = FrameLength
                            /\ \A i \in 1 .. FrameLength : /\ s[i].frame = g
                                                           /\ s[i].part = i
    BY <1>2
  <2>. QED  BY <1>1, <1>2, <2>1 DEF Served
<1>3. CASE f \notin Requests
  <2>1. ~ \E g \in Requests : /\ Len(s) = FrameLength
                              /\ \A i \in 1 .. FrameLength : /\ s[i].frame = g
                                                             /\ s[i].part = i
    BY <1>1, <1>3
  <2>. QED  BY <1>3, <2>1 DEF Served
<1>. QED  BY <1>2, <1>3

LEMMA ServedNothing == Served(<<>>) = None
<1>1. Len(<<>>) # FrameLength
  BY Constants
<1>. QED  BY <1>1 DEF Served

(* A poll that finds an unfinished frame finds a whole one: in the middle  *)
(* of a frame the line is not silent for as long as the task has waited.   *)
LEMMA PolledFrame ==
  ASSUME Types, Bounds, Steady, Held, pc = "POLL"
  PROVE  /\ queue = <<>> /\ ~InFrame /\ Len(rx.active) = FrameLength
         /\ rx.active \in Seq(Byte) /\ host.frame \in Frames
         /\ \A i \in 1 .. Len(rx.active) : rx.active[i].frame = host.frame
                                           /\ rx.active[i].part = i
         /\ GapElapsed(rx, sample)
<1>1. queue = <<>> /\ Len(queue) = 0 /\ rx.age = line.age
  BY QueueFacts DEF Steady, Pace
<1>2. rx.age >= sample + RxWait /\ rx.age <= Longest + RxWait + lag
  <2>1. Bounded
    BY DEF Bounds
  <2>. QED  BY <2>1 DEF Bounded
<1>3. ~InFrame
  <2>1. rx.age > 1
    BY <1>2, Numbers, PaceNumbers
  <2>. QED  BY <1>1, <2>1, PaceNumbers DEF Steady, Dialogue
<1>4. rx.active \in Seq(Byte) /\ Len(rx.active) \in Nat /\ host.frame \in Frames
      /\ rx.age \in Age /\ sample \in Age
  BY DEF Types, Fits, Receiver, Master
<1>5. Len(rx.active) + 0 = host.sent /\ ~(host.sent < FrameLength)
  BY <1>1, <1>3 DEF Steady, Stream, Pending, InFrame
<1>6. Len(rx.active) = FrameLength
  BY <1>4, <1>5, PaceNumbers, SMTT(60)
<1>7. \A i \in 1 .. Len(rx.active) : rx.active[i].frame = host.frame
                                     /\ rx.active[i].part = i
  BY DEF Steady, Stream
<1>8. GapElapsed(rx, sample)
  <2>1. rx.age >= sample /\ rx.age - sample >= T35 /\ rx.age - sample < Horizon
    BY <1>2, Numbers, Bounding
  <2>. QED  BY <1>4, <2>1, SilentGapMeans DEF GapElapsed, Held
<1>. QED  BY <1>1, <1>3, <1>4, <1>6, <1>7, <1>8

LEMMA PollSlaveSteady ==
  ASSUME Types, Bounds, Steady, PollSlave
  PROVE  Steady'
<1> DEFINE p == PollRx(rx, sample)
           f == Served(p.ready)
<1>1. pc = "POLL" /\ ~fault.new /\ Accepts(sample) /\ ~recovery.discarding
      /\ Fits(rx) /\ sample \in Age
      /\ UNCHANGED <<queue, pin, pipe, stuck, lag, host, line>>
  BY DEF PollSlave, Steady, Clear, Accepts, Types
<1>2. /\ rx' = TakeFrame(p) /\ recovery' = recovery /\ tx' = [tx EXCEPT !.frame = f]
      /\ IF f = None THEN pc' = "SERVICE" ELSE pc' = "SEND"
      /\ UNCHANGED fault
  BY <1>1 DEF PollSlave, After, Wait
<1>3. /\ rx'.active = <<>> /\ rx'.ready = <<>> /\ Progress(tx') /\ tx'.state = tx.state
  BY <1>1, PollFinishes
<1>4. ~Busy(tx) /\ ~Busy(tx') /\ tx'.frame = f /\ ~Held' /\ ~Owed
  <2>1. tx \in Answer
    BY DEF Types, Progress
  <2>. QED  BY <1>1, <1>2, <1>3, <2>1 DEF Types, Busy, Answer, Held, Owed
<1>5. Shifting'
  BY <1>1, <1>4 DEF Steady, Shifting
<1>6. ~rx'.over /\ ~rx'.overran
  <2>1. ~p.over /\ ~p.overran /\ Fits(p)
    <3>1. p = rx \/ p = Publish(rx)
      BY <1>1, PollRxFits
    <3>2. ~rx.over /\ ~rx.overran /\ rx.ready = <<>>
      BY DEF Steady, Clear
    <3>3. Fits(Publish(rx)) /\ ~Publish(rx).over /\ ~Publish(rx).overran
      BY <1>1, <3>2, PublishFits
    <3>. QED  BY <1>1, <3>1, <3>2, <3>3
  <2>. QED  BY <1>2, <2>1, TakeFrameFits
<1>7. Clear'
  BY <1>1, <1>2, <1>3, <1>6 DEF Steady, Clear
<1>. HIDE DEF p, f
<1>8. CASE Held
  <2>1. /\ queue = <<>> /\ ~InFrame /\ Len(rx.active) = FrameLength
        /\ rx.active \in Seq(Byte) /\ host.frame \in Frames
        /\ \A i \in 1 .. Len(rx.active) : rx.active[i].frame = host.frame
                                          /\ rx.active[i].part = i
        /\ GapElapsed(rx, sample)
    BY <1>1, <1>8, PolledFrame
  <2>2. p.ready = rx.active
    BY <1>1, <2>1, PollRxFits, PublishFits DEF p, Steady, Clear
  <2>3. f = IF host.frame \in Requests THEN host.frame ELSE None
    BY <2>1, <2>2, ServedIs DEF f
  <2>4. Pending /\ (host.waiting <=> host.frame \in Requests)
    <3>1. Pending
      BY <1>8 DEF Pending
    <3>. QED  BY <2>1, <3>1, RtuAssumption DEF Steady, Dialogue
  <2>5. ~Pending' /\ (Owed' <=> host.frame \in Requests) /\ Len(queue) = 0
    <3>1. host.frame \in Requests => f # None
      BY <2>3, RtuAssumption
    <3>2. pc' = "SEND" <=> f # None
      BY <1>2
    <3>3. host.frame \notin Requests => f = None
      BY <2>3
    <3>. QED  BY <1>1, <1>4, <2>1, <3>1, <3>2, <3>3, QueueFacts DEF Pending, Owed
  <2>6. Dialogue'
    <3>1. Owed' => host.frame = tx'.frame
      BY <1>4, <2>3, <2>5
    <3>2. ~InFrame'
      BY <1>1, <2>1 DEF InFrame
    <3>. QED  BY <1>1, <2>4, <2>5, <3>1, <3>2 DEF Steady, Dialogue
  <2>7. Stream'
    BY <1>1, <1>3, <1>4, <2>1, <2>5 DEF Stream
  <2>8. Pace'
    <3>1. host.waiting => host.since <= RxWait + MaxLag + lag
      BY <1>8, <2>4 DEF Steady, Pace
    <3>2. pc' = "SEND" => host.waiting
      BY <2>4, <2>5 DEF Owed
    <3>. QED  BY <1>1, <1>4, <2>1, <2>5, <3>1, <3>2 DEF Pace
  <2>. QED  BY <1>5, <1>7, <2>6, <2>7, <2>8 DEF Steady
<1>9. CASE ~Held
  <2>1. p = rx
    <3>1. ~GapElapsed(rx, sample)
      BY <1>9 DEF Held, GapElapsed
    <3>. QED  BY <1>1, <3>1, PollRxFits DEF p
  <2>2. f = None /\ pc' = "SERVICE" /\ ~Owed'
    <3>1. f = None
      BY <2>1, ServedNothing DEF f, Steady, Clear
    <3>. QED  BY <1>2, <1>4, <3>1 DEF Owed
  <2>3. /\ rx.active = <<>> /\ (Pending' <=> Pending) /\ (InFrame' <=> InFrame)
    BY <1>1, <1>4, <1>9 DEF Pending, Held, InFrame
  <2>4. Dialogue'
    BY <1>1, <1>4, <2>2, <2>3 DEF Steady, Dialogue
  <2>5. Stream'
    BY <1>1, <1>3, <1>4, <2>3 DEF Steady, Stream
  <2>6. Pace'
    BY <1>1, <1>4, <2>2, <2>3 DEF Steady, Pace
  <2>. QED  BY <1>5, <1>7, <2>4, <2>5, <2>6 DEF Steady
<1>. QED  BY <1>8, <1>9

(* A character time in which nothing fails: the host pauses or sends.      *)
LEMMA CalmTick ==
  ASSUME Types, Steady, Tick, faults' = faults
  PROVE  /\ UNCHANGED stuck
         /\ \/ /\ InFrame => line.age = 0
               /\ Silent /\ host' = Waiting
            \/ HostByte(FALSE)
<1>1. faults \in Nat /\ ~stuck
  BY Constants DEF Types, Steady, Clear
<1>2. ~Fault
  BY <1>1 DEF Fault
<1>3. ~HostByte(TRUE) /\ ~BreakOff /\ ~Stick
  BY <1>1, <1>2 DEF HostByte, BreakOff, Stick
<1>4. \A bad \in BOOLEAN : ~Noise(bad)
  BY <1>2 DEF Noise
<1>5. Pause \/ HostByte(FALSE)
  <2>1. Pause \/ BreakOff \/ Stick \/ \E bad \in BOOLEAN : HostByte(bad) \/ Noise(bad)
    BY Zenon DEF Tick
  <2>. QED  BY <1>3, <1>4, <2>1
<1>6. HostByte(FALSE) => UNCHANGED stuck
  BY DEF HostByte
<1>. QED  BY <1>5, <1>6 DEF Pause

(* One character of the answer is over; the answer ends with the last one. *)
LEMMA TickShifts ==
  ASSUME Types, Bounds, Steady, Tick
  PROVE  /\ Shifting' /\ tx'.frame = tx.frame
         /\ Busy(tx') => Busy(tx) /\ tx'.age = tx.age + 1
         /\ Busy(tx) /\ ~Busy(tx') => tx'.state = "COMPLETE"
<1> DEFINE t == Aging(tx)
           p == Shifted
<1>1. /\ Progress(t) /\ t.state = tx.state /\ t.next = tx.next /\ t.frame = tx.frame
      /\ t.age = (IF Busy(tx) THEN Older(tx.age) ELSE 0) /\ p \in 0 .. 2
  BY AgingDoes
<1>2. Busy(t) <=> Busy(tx)
  BY <1>1 DEF Busy
<1>3. Transmitter(t, p, pin) /\ pin \in BOOLEAN /\ (pin <=> Busy(t))
  BY <1>2, TickDoes DEF Types
<1>4. p = IF pipe = 0 THEN 0 ELSE pipe - 1
  BY DEF Shifted, Steady, Clear
<1>. HIDE DEF t, p
<1>5. /\ tx'.frame = t.frame
      /\ \/ tx' = t /\ pipe' = p /\ (Busy(t) => p > 0)
         \/ /\ Busy(t) /\ Busy(tx') /\ tx'.age = t.age
            /\ tx'.next = t.next + 1 /\ pipe' = p + 1
         \/ t.state = "WAIT_TC" /\ p = 0 /\ pipe' = 0 /\ tx'.state = "COMPLETE" /\ ~Busy(tx')
  BY <1>1, <1>3, TransmitterDoes
<1>6. Busy(tx') => Busy(tx) /\ tx'.age = tx.age + 1
  BY TickDrives
<1>7. Busy(tx) /\ ~Busy(tx') => tx'.state = "COMPLETE"
  BY <1>2, <1>5
<1>8. Shifting'
  <2>1. CASE Busy(tx')
    <3>1. /\ pipe > 0 /\ tx.next = tx.age + pipe /\ tx'.age = tx.age + 1
      BY <1>6, <2>1 DEF Steady, Shifting
    <3>2. \/ tx'.next = tx.next /\ pipe' = pipe - 1 /\ pipe - 1 > 0
          \/ tx'.next = tx.next + 1 /\ pipe' = (pipe - 1) + 1
      BY <1>1, <1>2, <1>4, <1>5, <1>6, <2>1, <3>1, Numbers
    <3>. QED  BY <2>1, <3>1, <3>2, Numbers DEF Shifting
  <2>2. CASE ~Busy(tx')
    <3>1. pipe' = 0
      <4>1. CASE Busy(tx)
        BY <1>2, <1>5, <2>2, <4>1
      <4>2. CASE ~Busy(tx)
        <5>1. p = 0
          BY <1>4, <4>2 DEF Steady, Shifting
        <5>. QED  BY <1>2, <1>5, <2>2, <4>2, <5>1
      <4>. QED  BY <4>1, <4>2
    <3>. QED  BY <2>2, <3>1 DEF Shifting
  <2>. QED  BY <2>1, <2>2
<1>. QED  BY <1>1, <1>5, <1>6, <1>7, <1>8

(* The task is behind by what it was kept from running; a frame is not     *)
(* pending for as long as the host waits before the next one.              *)
LEMMA TickPace ==
  ASSUME Types, Bounds, Steady, Tick
  PROVE  /\ Pending => line.age < RxWait + 2 * MaxLag
         /\ \/ lag' = lag + 1 /\ lag' <= MaxLag
            \/ lag' = 0 /\ pc = "RECEIVE" /\ queue = <<>> /\ waited < RxWait
            \/ lag' = 0 /\ pc = "SENDING" /\ Busy(tx) /\ ~Pending
         /\ host.waiting => host.since < Patience
<1>1. \/ lag' = lag + 1 /\ lag' <= MaxLag
      \/ lag' = 0 /\ pc = "RECEIVE" /\ queue = <<>> /\ waited < RxWait
      \/ lag' = 0 /\ pc = "SENDING" /\ Busy(tx)
  BY Lagging
<1>2. Busy(tx) => ~Pending
  BY DEF Steady, Dialogue, Owed
<1>3. ASSUME Pending  PROVE line.age < RxWait + 2 * MaxLag
  <2>1. CASE lag' = lag + 1 /\ lag' <= MaxLag
    <3>1. line.age <= lag \/ line.age <= RxWait + MaxLag + lag
      BY <1>3 DEF Steady, Pace, Pending
    <3>. QED  BY <2>1, <3>1, PaceNumbers
  <2>2. CASE pc = "RECEIVE" /\ queue = <<>> /\ waited < RxWait
    <3>1. line.age <= MaxLag + waited
      BY <1>3, <2>2 DEF Steady, Pace, Pending
    <3>. QED  BY <2>2, <3>1, PaceNumbers, SMTT(60)
  <2>. QED  BY <1>1, <1>2, <1>3, <2>1, <2>2
<1>4. ASSUME host.waiting  PROVE host.since < Patience
  <2>1. CASE Pending
    <3>1. host.since = line.age
      BY <1>4, <2>1 DEF Steady, Pace
    <3>. QED  BY <1>3, <2>1, <3>1, PaceNumbers
  <2>2. CASE pc = "SEND"
    <3>1. host.since <= RxWait + MaxLag + lag
      BY <2>2 DEF Steady, Pace
    <3>. QED  BY <3>1, PaceNumbers
  <2>3. CASE Busy(tx)
    <3>1. host.since <= RxWait + 2 * MaxLag + tx.age /\ tx.age < AnswerLength
      BY <2>3, AnswerGoesOn DEF Steady, Pace
    <3>. QED  BY <3>1, Numbers, PaceNumbers
  <2>. QED  BY <1>4, <2>1, <2>2, <2>3 DEF Steady, Dialogue, Owed
<1>. QED  BY <1>1, <1>2, <1>3, <1>4

(* What a character time does to the bytes that are there                  *)
LEMMA TickAges ==
  ASSUME Types, Bounds, Steady, Tick
  PROVE  /\ Len(Aged) = Len(queue) /\ Len(queue) \in Nat /\ Aged \in Seq(Event)
         /\ \A i \in 1 .. Len(queue) :
              /\ Aged[i].byte = queue[i].byte /\ Aged[i].bad = queue[i].bad
              /\ Aged[i].age = queue[i].age + 1 /\ queue[i].age \in Nat
         /\ AgedFault \in [new : BOOLEAN, age : Age] /\ ~AgedFault.new
         /\ rx'.active = rx.active /\ rx'.ready = <<>> /\ ~rx'.over /\ ~rx'.overran
         /\ Len(rx.active) \in Nat /\ (Held' <=> Held)
         /\ Held => rx'.age = rx.age + 1 /\ rx.age \in Nat
         /\ ~recovery'.discarding
<1>1. /\ Aged \in Seq(Event) /\ Len(Aged) = Len(queue)
      /\ \A i \in 1 .. Len(queue) : Aged[i].byte = queue[i].byte /\ Aged[i].bad = queue[i].bad
      /\ AgedFault \in [new : BOOLEAN, age : Age] /\ AgedFault.new = fault.new
  BY AgedFacts
<1>2. \A i \in 1 .. Len(queue) : Aged[i].age = queue[i].age + 1 /\ queue[i].age \in Nat
  BY Ageing, EventAges
<1>3. /\ rx'.active = rx.active /\ rx'.ready = rx.ready /\ (rx'.over <=> rx.over)
      /\ (rx'.overran <=> rx.overran)
      /\ rx'.age = (IF rx.active = <<>> THEN 0 ELSE Older(rx.age))
      /\ (recovery'.discarding <=> recovery.discarding)
  BY TickDoes
<1>4. Held => rx'.age = rx.age + 1 /\ rx.age \in Nat
  BY <1>3, Ageing, Numbers DEF Held
<1>5. Len(rx.active) \in Nat
  BY DEF Types, Fits, Receiver
<1>. QED  BY <1>1, <1>2, <1>3, <1>4, <1>5, QueueFacts DEF Steady, Clear, Held

(* The line is silent, and the host waits.                                 *)
LEMMA PauseSteady ==
  ASSUME Types, Bounds, Steady, Tick, UNCHANGED stuck,
         InFrame => line.age = 0, Silent, host' = Waiting
  PROVE  Steady'
<1>1. /\ Shifting' /\ tx'.frame = tx.frame
      /\ Busy(tx') => Busy(tx) /\ tx'.age = tx.age + 1
      /\ Busy(tx) /\ ~Busy(tx') => tx'.state = "COMPLETE"
  BY TickShifts
<1>2. /\ queue' = Aged /\ fault' = AgedFault
      /\ line'.age = IF line.age < Turnaround THEN line.age + 1 ELSE line.age
  BY DEF Silent, Types, Wire
<1>3. /\ Pending => line.age < RxWait + 2 * MaxLag
      /\ \/ lag' = lag + 1 /\ lag' <= MaxLag
         \/ lag' = 0 /\ pc = "RECEIVE" /\ queue = <<>> /\ waited < RxWait
         \/ lag' = 0 /\ pc = "SENDING" /\ Busy(tx) /\ ~Pending
      /\ host.waiting => host.since < Patience
  BY TickPace
<1>4. /\ Len(queue') = Len(queue) /\ Len(queue) \in Nat
      /\ (queue' = <<>> <=> queue = <<>>)
      /\ \A i \in 1 .. Len(queue) :
           /\ queue'[i].byte = queue[i].byte /\ queue'[i].bad = queue[i].bad
           /\ queue'[i].age = queue[i].age + 1 /\ queue[i].age \in Nat
      /\ ~fault'.new /\ rx'.active = rx.active /\ rx'.ready = <<>> /\ ~rx'.over /\ ~rx'.overran
      /\ Len(rx.active) \in Nat /\ (Held' <=> Held) /\ ~recovery'.discarding
      /\ (Held => rx'.age = rx.age + 1 /\ rx.age \in Nat)
  <2>1. queue' = <<>> <=> queue = <<>>
    BY <1>2, TickAges, QueueFacts, EmptySeq
  <2>. QED  BY <1>2, <2>1, TickAges
<1>5. /\ pc' = pc /\ (Pending' <=> Pending) /\ (Owed' => Owed)
      /\ waited' = (IF pc = "RECEIVE" /\ waited < RxWait THEN waited + 1 ELSE waited)
  BY <1>1, <1>4, TickDoes DEF Pending, Owed
<1>6. /\ host'.frame = host.frame /\ host'.sent = host.sent
      /\ host'.waiting => host.waiting /\ host'.since = host.since + 1
      /\ ~host.waiting => ~host'.waiting /\ host'.since = host.since
      /\ host.waiting /\ ~host'.waiting => /\ host'.since = 0 /\ pin /\ tx'.state = "COMPLETE"
                                           /\ tx'.frame = host.frame
      /\ host.waiting /\ host'.waiting =>
           ~(pin /\ tx'.state = "COMPLETE" /\ tx'.frame = host.frame)
  <2>1. host \in Master
    BY DEF Types
  <2>2. CASE ~host.waiting
    BY <2>2 DEF Waiting
  <2>3. CASE host.waiting
    <3>1. host.since # Patience
      BY <1>3, <2>3, PaceNumbers
    <3>2. CASE pin /\ tx'.state = "COMPLETE" /\ tx'.frame = host.frame
      <4>1. host' = [host EXCEPT !.waiting = FALSE, !.since = 0]
        BY <2>3, <3>2 DEF Waiting
      <4>. QED  BY <2>1, <2>3, <3>2, <4>1 DEF Master
    <3>3. CASE ~(pin /\ tx'.state = "COMPLETE" /\ tx'.frame = host.frame)
      <4>1. host' = [host EXCEPT !.since = host.since + 1]
        BY <2>1, <2>3, <3>1, <3>3 DEF Waiting, Master
      <4>. QED  BY <2>1, <2>3, <3>3, <4>1 DEF Master
    <3>. QED  BY <3>2, <3>3
  <2>. QED  BY <2>2, <2>3
<1>7. (InFrame' <=> InFrame) /\ (pin => Busy(tx)) /\ (Busy(tx) => pin /\ pc = "SENDING")
      /\ (tx'.state = "COMPLETE" => ~Busy(tx'))
  BY <1>6 DEF InFrame, Types, Busy
<1>8. Clear'
  BY <1>4 DEF Steady, Clear
<1>9. Dialogue'
  <2>1. ~host'.waiting => host'.since = 0
    BY <1>6 DEF Steady, Dialogue
  <2>2. host'.waiting => ~InFrame' /\ host'.frame \in Requests
    BY <1>6, <1>7 DEF Steady, Dialogue
  <2>3. Pending' => ~Owed' /\ (InFrame' \/ host'.waiting \/ host'.frame \in Broadcasts)
    <3>1. Pending => ~Busy(tx)
      BY DEF Steady, Dialogue, Owed
    <3>. QED  BY <1>5, <1>6, <1>7, <3>1 DEF Steady, Dialogue
  <2>4. Owed' => host'.waiting /\ host'.frame = tx'.frame
    <3>1. pc = "SEND" => ~Busy(tx)
      BY <1>7
    <3>. QED  BY <1>1, <1>5, <1>6, <1>7, <3>1 DEF Steady, Dialogue, Owed
  <2>5. InFrame' => line'.age <= 1
    BY <1>2, <1>7, PaceNumbers
  <2>6. InFrame' \/ (host'.waiting /\ ~Owed') => Pending'
    <3>1. ASSUME host'.waiting, ~Owed'  PROVE ~Owed
      <4>1. Owed => tx.frame = host.frame /\ (pc = "SEND" \/ Busy(tx))
        BY DEF Steady, Dialogue, Owed
      <4>2. pc # "SEND" /\ ~Busy(tx')
        BY <1>5, <3>1 DEF Owed
      <4>. QED  BY <1>1, <1>6, <1>7, <3>1, <4>1, <4>2
    <3>. QED  BY <1>5, <1>6, <1>7, <3>1 DEF Steady, Dialogue
  <2>. QED  BY <2>1, <2>2, <2>3, <2>4, <2>5, <2>6 DEF Dialogue
<1>10. Stream'
  <2>1. \A i \in 1 .. Len(queue) - 1 : queue'[i].age < queue'[i + 1].age + T35
    <3>1. \A i \in 1 .. Len(queue) - 1 : i \in 1 .. Len(queue) /\ i + 1 \in 1 .. Len(queue)
      BY <1>4
    <3>2. \A i \in 1 .. Len(queue) - 1 : queue[i].age < queue[i + 1].age + T35
      BY DEF Steady, Stream
    <3>3. \A i \in 1 .. Len(queue) :
            queue'[i].age = queue[i].age + 1 /\ queue[i].age \in Nat
      BY <1>4
    <3>4. \A a, b \in Nat : a < b + T35 => a + 1 < (b + 1) + T35
      BY Constants
    <3>. QED  BY <3>1, <3>2, <3>3, <3>4
  <2>2. ASSUME Held, queue # <<>>  PROVE rx'.age < queue'[1].age + T35
    <3>1. 1 \in 1 .. Len(queue)
      BY <2>2, QueueFacts
    <3>2. rx.age < queue[1].age + T35
      BY <2>2 DEF Steady, Stream
    <3>3. rx'.age = rx.age + 1 /\ rx.age \in Nat
      BY <1>4, <2>2
    <3>4. queue'[1].age = queue[1].age + 1 /\ queue[1].age \in Nat
      BY <1>4, <3>1
    <3>5. T35 \in Nat
      BY Constants
    <3>. QED  BY <3>2, <3>3, <3>4, <3>5
  <2>3. \A i \in 1 .. Len(queue) : /\ queue'[i].byte.frame = host'.frame
                                   /\ queue'[i].byte.part = Len(rx'.active) + i
    BY <1>4, <1>6 DEF Steady, Stream
  <2>4. \A i \in 1 .. Len(rx'.active) : /\ rx'.active[i].frame = host'.frame
                                        /\ rx'.active[i].part = i
    BY <1>4, <1>6 DEF Steady, Stream
  <2>5. Pending' => Len(rx'.active) + Len(queue') = host'.sent
    <3>1. Pending => Len(rx.active) + Len(queue) = host.sent
      BY DEF Steady, Stream
    <3>2. rx'.active = rx.active /\ Len(queue') = Len(queue)
      BY <1>4
    <3>. QED  BY <1>5, <1>6, <3>1, <3>2
  <2>6. Len(queue') = Len(queue) /\ (queue' # <<>> => queue # <<>>) /\ (Held' => Held)
    BY <1>4
  <2>7. \A i \in 1 .. Len(queue') : /\ queue'[i].byte.frame = host'.frame
                                    /\ queue'[i].byte.part = Len(rx'.active) + i
    BY <2>3, <2>6
  <2>8. \A i \in 1 .. Len(queue') - 1 : queue'[i].age < queue'[i + 1].age + T35
    BY <2>1, <2>6
  <2>9. Held' /\ queue' # <<>> => rx'.age < queue'[1].age + T35
    BY <2>2, <2>6
  <2>. QED  BY <2>4, <2>5, <2>7, <2>8, <2>9 DEF Stream
<1>11. Pace'
  <2>1. Pending => line'.age = line.age + 1
    BY <1>2, <1>3, PaceNumbers, SMTT(60)
  <2>2. queue # <<>> => Len(queue) \in 1 .. Len(queue) /\ Pending
    BY QueueFacts DEF Pending
  <2>3. queue' # <<>> => queue'[Len(queue')].age = line'.age /\ line'.age <= lag'
    <3>. SUFFICES ASSUME queue # <<>>
                  PROVE  queue'[Len(queue')].age = line'.age /\ line'.age <= lag'
      BY <1>4
    <3>1. queue[Len(queue)].age = line.age /\ line.age <= lag
      BY DEF Steady, Pace
    <3>2. line'.age = line.age + 1 /\ lag' = lag + 1
      BY <1>3, <2>1, <2>2
    <3>3. queue'[Len(queue')].age = line.age + 1
      BY <1>4, <2>2, <3>1
    <3>. QED  BY <3>1, <3>2, <3>3, Numbers
  <2>4. ASSUME Held'
        PROVE  /\ line'.age <= RxWait + MaxLag + lag'
               /\ queue' = <<>> => rx'.age = line'.age
               /\ queue' = <<>> /\ pc' \in {"SERVICE", "DRAIN"} => line'.age <= lag'
               /\ queue' = <<>> /\ pc' = "RECEIVE" /\ waited' < RxWait => line'.age <= MaxLag + waited'
               /\ pc' = "POLL" => queue' = <<>>
    <3>1. Held /\ Pending /\ line'.age = line.age + 1 /\ line.age <= RxWait + MaxLag + lag
      BY <1>4, <2>1, <2>4 DEF Pending, Steady, Pace
    <3>2. queue = <<>> =>
            /\ rx.age = line.age
            /\ pc \in {"SERVICE", "DRAIN"} => line.age <= lag
            /\ pc = "RECEIVE" /\ waited < RxWait => line.age <= MaxLag + waited
      BY <3>1 DEF Steady, Pace
    <3>3. \/ lag' = lag + 1
          \/ lag' = 0 /\ pc = "RECEIVE" /\ queue = <<>> /\ waited < RxWait
      BY <1>3, <3>1
    <3>4. line'.age <= RxWait + MaxLag + lag'
      <4>1. \A a \in Nat :
              /\ a <= RxWait + MaxLag + lag => a + 1 <= RxWait + MaxLag + (lag + 1)
              /\ a <= MaxLag + waited /\ waited < RxWait => a + 1 <= RxWait + MaxLag + 0
        BY Numbers, Bounding
      <4>. QED  BY <3>1, <3>2, <3>3, <4>1, Numbers
    <3>5. queue' = <<>> => rx'.age = line'.age
      BY <1>4, <3>1, <3>2
    <3>6. queue' = <<>> /\ pc' \in {"SERVICE", "DRAIN"} => line'.age <= lag'
      <4>1. \A a \in Nat : a <= lag => a + 1 <= lag + 1
        BY Numbers
      <4>. QED  BY <1>4, <1>5, <3>1, <3>2, <3>3, <4>1, Numbers
    <3>7. queue' = <<>> /\ pc' = "RECEIVE" /\ waited' < RxWait => line'.age <= MaxLag + waited'
      <4>1. \A a \in Nat : a <= MaxLag + waited => a + 1 <= MaxLag + (waited + 1)
        BY Numbers, Bounding
      <4>2. waited + 1 < RxWait => waited < RxWait
        BY Numbers, Bounding
      <4>. QED  BY <1>4, <1>5, <3>1, <3>2, <4>1, <4>2, Numbers
    <3>8. pc' = "POLL" => queue' = <<>>
      BY <1>4, <1>5, <3>1 DEF Steady, Pace
    <3>. QED  BY <3>4, <3>5, <3>6, <3>7, <3>8
  <2>5. Pending' /\ host'.waiting => host'.since = line'.age
    BY <1>5, <1>6, <2>1, PaceNumbers DEF Steady, Pace
  <2>6. pc' = "SEND" => host'.since <= RxWait + MaxLag + lag'
    <3>1. pc = "SEND" => host.since <= RxWait + MaxLag + lag /\ lag' = lag + 1
      BY <1>3 DEF Steady, Pace
    <3>2. host'.since <= host.since + 1
      BY <1>6, PaceNumbers
    <3>3. host'.since \in Nat
      BY <1>6, PaceNumbers
    <3>. QED  BY <1>5, <3>1, <3>2, <3>3, PaceNumbers
  <2>7. Busy(tx') => host'.since <= RxWait + 2 * MaxLag + tx'.age
    <3>1. Busy(tx) => host.since <= RxWait + 2 * MaxLag + tx.age
      BY DEF Steady, Pace
    <3>2. host'.since <= host.since + 1 /\ host'.since \in Nat
      BY <1>6, PaceNumbers
    <3>. QED  BY <1>1, <3>1, <3>2, PaceNumbers, Numbers
  <2>. QED  BY <1>4, <2>3, <2>4, <2>5, <2>6, <2>7 DEF Pace
<1>. QED  BY <1>1, <1>8, <1>9, <1>10, <1>11 DEF Steady

(* The host sends the next byte of its frame, or the first byte of a new   *)
(* one; by then nothing of the frame before it is left with the slave.     *)
LEMMA HostByteDoes ==
  ASSUME Types, Bounds, Steady, Tick, HostByte(FALSE)
  PROVE  /\ ~host.waiting /\ ~Owed /\ ~pin
         /\ host'.since = 0 /\ host'.sent = Len(rx.active) + Len(queue) + 1
         /\ host'.waiting <=> host'.sent = FrameLength /\ host'.frame \in Requests
         /\ host' \in Master
         /\ Pending => InFrame /\ host'.frame = host.frame
         /\ line.age <= 1 \/ ~Pending
<1>1. ~host.waiting /\ host.since = 0 /\ host \in Master
  BY DEF HostByte, Steady, Dialogue, Types
<1>2. ~Owed /\ ~pin
  BY <1>1 DEF Steady, Dialogue, Owed, Types
<1>3. host' \in Master
  BY HostByteTypes
<1>4. CASE InFrame
  <2>1. host' = Sent(host, FALSE)
    BY <1>4 DEF HostByte
  <2>2. /\ host'.sent = host.sent + 1 /\ host'.frame = host.frame /\ host'.since = host.since
        /\ host'.waiting <=> host.sent + 1 = FrameLength /\ host.frame \in Requests
    BY <1>1, <2>1 DEF Sent, Master
  <2>3. Pending /\ Len(rx.active) + Len(queue) = host.sent /\ line.age <= 1
    BY <1>4 DEF Steady, Dialogue, Stream
  <2>. QED  BY <1>1, <1>2, <1>3, <1>4, <2>2, <2>3
<1>5. CASE ~InFrame
  <2>1. PICK f \in Frames :
          host' = Sent([host EXCEPT !.frame = f, !.sent = 0, !.clean = calm = Recovery], FALSE)
    BY <1>5 DEF HostByte
  <2>2. /\ host'.sent = 0 + 1 /\ host'.frame = f /\ host'.since = host.since
        /\ host'.waiting <=> 0 + 1 = FrameLength /\ f \in Requests
    <3> DEFINE c == calm = Recovery
               h == [host EXCEPT !.frame = f, !.sent = 0, !.clean = c]
    <3>1. h.sent = 0 /\ h.frame = f /\ h.since = host.since /\ h \in Master
      <4>1. 0 \in 0 .. FrameLength /\ c \in BOOLEAN
        BY Constants
      <4>. HIDE DEF c
      <4>. QED  BY <1>1, <4>1, Zenon DEF Master
    <3>2. host' = Sent(h, FALSE)
      BY <2>1
    <3>. HIDE DEF h
    <3>. QED  BY <3>1, <3>2 DEF Sent, Master
  <2>3. ~Pending
    <3>. SUFFICES ASSUME Pending  PROVE FALSE
      OBVIOUS
    <3>1. host.frame \in Broadcasts
      BY <1>1, <1>5 DEF Steady, Dialogue
    <3>2. line.age >= Turnaround
      BY <1>5, <3>1 DEF HostByte
    <3>3. line.age < RxWait + 2 * MaxLag
      BY TickPace
    <3>. QED  BY <3>2, <3>3, PaceNumbers
  <2>4. Len(rx.active) = 0 /\ Len(queue) = 0
    BY <2>3, QueueFacts DEF Pending, Held
  <2>. QED  BY <1>1, <1>2, <1>3, <2>2, <2>3, <2>4
<1>. QED  BY <1>4, <1>5

LEMMA HostByteHeard ==
  ASSUME Types, Bounds, Steady, Tick, HostByte(FALSE)
  PROVE  /\ line'.age = 0 /\ ~fault'.new
         /\ \E e \in Event : /\ queue' = Append(Aged, e) /\ ~e.bad /\ e.age = 0
                             /\ e.byte.frame = host'.frame /\ e.byte.part = host'.sent
<1> DEFINE seg == NextSegment
           torn == FALSE \/ NextTorn
           b == [frame |-> host'.frame, part |-> host'.sent, segment |-> seg, torn |-> torn]
           e == [byte |-> b, bad |-> FALSE, age |-> 0]
<1>1. ~pin /\ Receive(host'.frame, host'.sent, FALSE) /\ host' \in Master
  BY HostByteDoes DEF HostByte
<1>2. /\ queue' = Append(Aged, e) /\ fault' = AgedFault
      /\ line' = [age |-> 0, segment |-> seg, cut |-> FALSE, torn |-> torn]
  BY <1>1, Zenon DEF Receive, NextGap, NextTorn, NextSegment
<1>3. seg \in {0, 1} /\ torn \in BOOLEAN /\ 0 \in Age
  BY Constants DEF NextSegment, NextTorn, Types, Wire, Age
<1>. HIDE DEF seg, torn
<1>4. host'.frame \in Frames \cup {None} /\ host'.sent \in 0 .. FrameLength
  BY <1>1 DEF Master
<1>5. b \in Byte /\ b.frame = host'.frame /\ b.part = host'.sent
  BY <1>3, <1>4, Zenon DEF Byte
<1>. HIDE DEF b
<1>6. e \in Event /\ ~e.bad /\ e.age = 0 /\ e.byte = b
  BY <1>3, <1>5, Zenon DEF Event
<1>. HIDE DEF e
<1>7. ~fault'.new /\ line'.age = 0
  BY <1>2, TickAges
<1>. QED  BY <1>2, <1>5, <1>6, <1>7

LEMMA HostByteSteady ==
  ASSUME Types, Bounds, Steady, Tick, UNCHANGED stuck, HostByte(FALSE)
  PROVE  Steady'
<1> DEFINE n == Len(rx.active)
           k == Len(queue)
<1>1. /\ ~host.waiting /\ ~Owed /\ ~pin
      /\ host'.since = 0 /\ host'.sent = n + k + 1
      /\ host'.waiting <=> host'.sent = FrameLength /\ host'.frame \in Requests
      /\ host' \in Master
      /\ Pending => InFrame /\ host'.frame = host.frame
      /\ line.age <= 1 \/ ~Pending
  BY HostByteDoes
<1>2. PICK e \in Event : /\ queue' = Append(Aged, e) /\ ~e.bad /\ e.age = 0
                         /\ e.byte.frame = host'.frame /\ e.byte.part = host'.sent
  BY HostByteHeard
<1>3. line'.age = 0 /\ ~fault'.new
  BY HostByteHeard
<1>4. /\ Len(queue') = k + 1 /\ k \in Nat /\ queue' # <<>>
      /\ \A i \in 1 .. k :
           /\ queue'[i].byte = queue[i].byte /\ queue'[i].bad = queue[i].bad
           /\ queue'[i].age = queue[i].age + 1 /\ queue[i].age \in Nat
      /\ queue'[k + 1] = e
  <2>1. Len(Aged) = k /\ k \in Nat /\ Aged \in Seq(Event)
    BY TickAges
  <2>2. /\ queue' \in Seq(Event) /\ Len(queue') = k + 1 /\ queue'[k + 1] = e
        /\ \A i \in 1 .. k : queue'[i] = Aged[i]
    BY <1>2, <2>1, AppendProperties
  <2>. QED  BY <2>1, <2>2, EmptySeq, TickAges
<1>5. /\ rx'.active = rx.active /\ rx'.ready = <<>> /\ ~rx'.over /\ ~rx'.overran
      /\ n \in Nat /\ (Held' <=> Held) /\ ~recovery'.discarding
      /\ (Held => rx'.age = rx.age + 1 /\ rx.age \in Nat)
  BY TickAges
<1>6. /\ Shifting' /\ (Busy(tx') => Busy(tx)) /\ pc' = pc
  BY TickShifts, TickDoes
<1>7. Pending' /\ ~Owed' /\ ~Busy(tx') /\ pc' # "SEND"
  BY <1>1, <1>4, <1>6 DEF Pending, Owed
<1>8. k = 0 <=> queue = <<>>
  BY QueueFacts
<1>. HIDE DEF n, k
<1>9. Clear'
  <2>1. \A i \in 1 .. k + 1 : i \in 1 .. k \/ i = k + 1
    BY <1>4
  <2>2. \A i \in 1 .. k : ~queue[i].bad
    BY DEF Steady, Clear, k
  <2>. QED  BY <1>2, <1>3, <1>4, <1>5, <2>1, <2>2 DEF Clear, Steady
<1>10. Dialogue'
  <2>1. host'.sent \in 0 .. FrameLength /\ host'.frame \in Frames
    BY <1>1 DEF Master
  <2>2. InFrame' <=> host'.sent # FrameLength
    BY <2>1, Constants DEF InFrame
  <2>. QED  BY <1>1, <1>3, <1>7, <2>1, <2>2 DEF Dialogue, Frames
<1>11. Stream'
  <2>1. \A i \in 1 .. n : rx'.active[i].frame = host'.frame /\ rx'.active[i].part = i
    <3>1. \A i \in 1 .. n : rx.active[i].frame = host.frame /\ rx.active[i].part = i
      BY DEF Steady, Stream, n
    <3>2. ~Held => n = 0
      BY DEF Held, n
    <3>. QED  BY <1>1, <1>5, <3>1, <3>2 DEF Pending
  <2>2. \A i \in 1 .. k + 1 : /\ queue'[i].byte.frame = host'.frame
                              /\ queue'[i].byte.part = n + i
    <3>1. \A i \in 1 .. k : queue[i].byte.frame = host.frame /\ queue[i].byte.part = n + i
      BY DEF Steady, Stream, n, k
    <3>2. \A i \in 1 .. k : queue'[i].byte.frame = host'.frame /\ queue'[i].byte.part = n + i
      BY <1>1, <1>4, <1>8, <3>1 DEF Pending
    <3>3. \A i \in 1 .. k + 1 : i \in 1 .. k \/ i = k + 1
      BY <1>4
    <3>4. n + k + 1 = n + (k + 1)
      BY <1>4, <1>5
    <3>. QED  BY <1>1, <1>2, <1>4, <3>2, <3>3, <3>4
  <2>3. n + (k + 1) = host'.sent
    BY <1>1, <1>4, <1>5
  <2>4. k # 0 => queue'[k].age <= 2
    <3>. SUFFICES ASSUME k # 0  PROVE queue'[k].age <= 2
      OBVIOUS
    <3>1. queue[k].age = line.age /\ line.age <= 1 /\ k \in 1 .. k
      BY <1>1, <1>4, <1>8 DEF Steady, Pace, Pending, k
    <3>. QED  BY <1>4, <3>1
  <2>5. \A i \in 1 .. (k + 1) - 1 : queue'[i].age < queue'[i + 1].age + T35
    <3>1. ASSUME NEW i \in 1 .. (k + 1) - 1, i < k
          PROVE  queue'[i].age < queue'[i + 1].age + T35
      <4>1. i \in 1 .. k /\ i + 1 \in 1 .. k /\ i \in 1 .. k - 1
        BY <1>4, <3>1
      <4>2. queue[i].age < queue[i + 1].age + T35
        BY <4>1 DEF Steady, Stream, k
      <4>3. \A a, b \in Nat : a < b + T35 => a + 1 < (b + 1) + T35
        BY Constants
      <4>. QED  BY <1>4, <4>1, <4>2, <4>3
    <3>2. ASSUME NEW i \in 1 .. (k + 1) - 1, i = k
          PROVE  queue'[i].age < queue'[i + 1].age + T35
      <4>1. k # 0 /\ queue'[i + 1].age = 0 /\ queue'[i].age \in Nat
        <5>1. k # 0 /\ i \in 1 .. k
          BY <1>4, <3>2
        <5>. QED  BY <1>2, <1>4, <3>2, <5>1
      <4>. QED  BY <2>4, <3>2, <4>1, HostAssumption, Constants
    <3>3. \A i \in 1 .. (k + 1) - 1 : i < k \/ i = k
      BY <1>4
    <3>. QED  BY <3>1, <3>2, <3>3
  <2>6. Held' => rx'.age < queue'[1].age + T35
    <3>. SUFFICES ASSUME Held  PROVE rx'.age < queue'[1].age + T35
      BY <1>5
    <3>1. CASE k = 0
      <4>1. rx.age = line.age /\ line.age <= 1
        BY <1>1, <1>8, <3>1 DEF Steady, Pace, Pending
      <4>2. queue'[1].age = 0
        BY <1>2, <1>4, <3>1
      <4>. QED  BY <1>5, <4>1, <4>2, HostAssumption, Constants
    <3>2. CASE k # 0
      <4>1. rx.age < queue[1].age + T35
        BY <1>8, <3>2 DEF Steady, Stream
      <4>2. 1 \in 1 .. k
        BY <1>4, <3>2
      <4>3. \A a, b \in Nat : a < b + T35 => a + 1 < (b + 1) + T35
        BY Constants
      <4>. QED  BY <1>4, <1>5, <4>1, <4>2, <4>3
    <3>. QED  BY <3>1, <3>2
  <2>. QED  BY <1>4, <1>5, <2>1, <2>2, <2>3, <2>5, <2>6 DEF Stream, n
<1>12. Pace'
  <2>1. lag' \in Nat /\ MaxLag \in Nat /\ RxWait \in Nat
    BY TickTypes, Constants DEF Types
  <2>2. queue'[Len(queue')].age = line'.age /\ line'.age <= lag'
    <3>1. queue'[k + 1].age = 0 /\ Len(queue') = k + 1
      BY <1>2, <1>4
    <3>2. queue'[Len(queue')].age = 0
      BY <3>1, Zenon
    <3>. QED  BY <1>3, <2>1, <3>2
  <2>3. line'.age <= RxWait + MaxLag + lag'
    <3>1. \A a \in Nat : 0 <= RxWait + MaxLag + a
      BY <2>1
    <3>. QED  BY <1>3, <2>1, <3>1
  <2>4. ~(Held' /\ pc' = "POLL")
    <3>. SUFFICES ASSUME Held, pc = "POLL"  PROVE FALSE
      BY <1>5, <1>6
    <3>1. ~InFrame
      BY PolledFrame
    <3>. QED  BY <1>1, <3>1 DEF Pending
  <2>. QED  BY <1>1, <1>3, <1>4, <1>7, <2>2, <2>3, <2>4 DEF Pace
<1>. QED  BY <1>6, <1>9, <1>10, <1>11, <1>12 DEF Steady

(* Without a new fault the dialogue goes on as it should, whatever came    *)
(* before: only a fault ends it.                                           *)
LEMMA NextSteady ==
  ASSUME Types, Bounds, Steady, [Next]_vars, faults' = faults
  PROVE  Steady'
<1>1. CASE UNCHANGED vars
  BY <1>1 DEF vars, Steady, Clear, Shifting, Dialogue, Stream, Pace, Pending, Owed, Held, Busy,
              InFrame
<1>2. CASE Tick
  BY <1>2, CalmTick, PauseSteady, HostByteSteady
<1>3. ~RefuseError
  <2>1. faults \in Nat
    BY Constants DEF Types
  <2>. QED  BY <2>1 DEF RefuseError, Fault
<1>. QED  BY <1>1, <1>2, <1>3, AnswerGoesOn, ServiceFaultSteady, TakeEventSteady, DrainedSteady,
            TimeOutSteady, PollSlaveSteady, StartSteady, CompleteSteady DEF Next

LEMMA FaultsStay ==
  ASSUME Types, [Next]_vars
  PROVE  faults' = faults \/ faults' > 0
<1>1. faults \in Nat
  BY Constants DEF Types
<1>2. Fault \/ NoNewFault => faults' = faults \/ faults' > 0
  BY <1>1 DEF Fault, NoNewFault
<1>3. Tick => Fault \/ NoNewFault
  BY Zenon DEF Tick, Pause, HostByte, Noise, BreakOff, Stick
<1>4. CASE Tick \/ RefuseError
  BY <1>2, <1>3, <1>4 DEF RefuseError
<1>5. CASE ~(Tick \/ RefuseError)
  BY <1>5 DEF Next, vars, ServiceFault, TakeEvent, Drained, TimeOut, PollSlave, Start, Refuse,
              Complete, Abort
<1>. QED  BY <1>4, <1>5

DialogueInv == Types /\ Bounds /\ (faults = 0 => Steady)

LEMMA DialogueHolds == Spec => []DialogueInv
<1>1. Init => DialogueInv
  BY InitTypes, InitBounds, InitSteady DEF DialogueInv
<1>2. DialogueInv /\ [Next]_vars => DialogueInv'
  <2>. SUFFICES ASSUME DialogueInv, [Next]_vars  PROVE DialogueInv'
    OBVIOUS
  <2>1. Types' /\ Bounds'
    BY NextTypes, NextBounds DEF DialogueInv
  <2>2. faults' = 0 => Steady'
    BY FaultsStay, NextSteady DEF DialogueInv
  <2>. QED  BY <2>1, <2>2 DEF DialogueInv
<1>. QED  BY <1>1, <1>2, PTL DEF Spec

(* Every finished frame is taken before the next one is finished, so that  *)
(* no broadcast gets lost: what is overwritten was overwritten after a     *)
(* fault.                                                                  *)
THEOREM SlaveNotOverwrittenCorrect == Spec => []NotOverwritten
<1>1. DialogueInv => NotOverwritten
  <2>. SUFFICES ASSUME DialogueInv, rx.overran  PROVE faults > 0
    BY DEF NotOverwritten
  <2>1. faults # 0
    BY DEF DialogueInv, Steady, Clear
  <2>2. faults \in Nat
    BY Constants DEF DialogueInv, Types
  <2>. QED  BY <2>1, <2>2
<1>. QED  BY <1>1, DialogueHolds, PTL

(* Without faults, on a wire with two masters: the driver is on only for   *)
(* the answer the host waits for, nothing is on its way out while it is    *)
(* off, and every request is answered before the host gives up. This is    *)
(* HalfDuplex and AnsweredInTime where there is nothing to be forgiven.    *)
Undisturbed ==
  faults = 0 =>
    /\ pin => host.waiting /\ host.frame = tx.frame
    /\ pipe > 0 => pin
    /\ host.waiting => host.since < Patience

THEOREM SlaveUndisturbedCorrect == Spec => []Undisturbed
<1>1. DialogueInv => Undisturbed
  <2>. SUFFICES ASSUME DialogueInv, faults = 0
                PROVE  /\ pin => host.waiting /\ host.frame = tx.frame
                       /\ pipe > 0 => pin
                       /\ host.waiting => host.since < Patience
    BY DEF Undisturbed
  <2>1. Types /\ Bounds /\ Steady
    BY DEF DialogueInv
  <2>2. (pin <=> Busy(tx)) /\ pipe \in Nat
    BY <2>1 DEF Types
  <2>3. pin => host.waiting /\ host.frame = tx.frame
    BY <2>1, <2>2 DEF Steady, Dialogue, Owed
  <2>4. pipe > 0 => pin
    BY <2>1, <2>2 DEF Steady, Shifting
  <2>5. ASSUME host.waiting  PROVE host.since < Patience
    <3>1. CASE Pending
      <4>1. host.since = line.age
        BY <2>1, <2>5, <3>1 DEF Steady, Pace
      <4>2. line.age <= lag \/ line.age <= RxWait + MaxLag + lag
        BY <2>1, <3>1 DEF Steady, Pace, Pending
      <4>. QED  BY <2>1, <4>1, <4>2, PaceNumbers
    <3>2. CASE pc = "SEND"
      <4>1. host.since <= RxWait + MaxLag + lag
        BY <2>1, <3>2 DEF Steady, Pace
      <4>. QED  BY <2>1, <4>1, PaceNumbers
    <3>3. CASE Busy(tx)
      <4>1. host.since <= RxWait + 2 * MaxLag + tx.age /\ tx.age < AnswerLength
        BY <2>1, <3>3, AnswerGoesOn DEF Steady, Pace
      <4>. QED  BY <2>1, <4>1, Numbers, PaceNumbers
    <3>. QED  BY <2>1, <2>5, <3>1, <3>2, <3>3 DEF Steady, Dialogue, Owed
  <2>. QED  BY <2>3, <2>4, <2>5
<1>. QED  BY <1>1, DialogueHolds, PTL

(* ---------------- a character time, and what it brings ----------------- *)

(* Without a fault the transmitter shifts, and the host waits or sends.    *)
LEMMA TickCalm ==
  ASSUME Types, Tick
  PROVE  \/ calm' = 0
         \/ /\ ~stuck /\ ~stuck' /\ faults' = faults /\ (Pause \/ HostByte(FALSE))
            /\ calm' = IF calm < Recovery THEN calm + 1 ELSE calm
            /\ lag' >= FrameLength => ~(calm < Recovery)
<1>1. \/ Pause
      \/ \E bad \in BOOLEAN : HostByte(bad) \/ Noise(bad)
      \/ BreakOff
      \/ Stick
  BY Zenon DEF Tick
<1>2. Fault => calm' = 0
  BY DEF Fault
<1>3. NoNewFault => \/ calm' = 0
                    \/ /\ ~stuck /\ faults' = faults
                       /\ calm' = IF calm < Recovery THEN calm + 1 ELSE calm
                       /\ lag' >= FrameLength => ~(calm < Recovery)
  <2>. SUFFICES ASSUME NoNewFault, calm' # 0
                PROVE  /\ ~stuck /\ faults' = faults
                       /\ calm' = IF calm < Recovery THEN calm + 1 ELSE calm
                       /\ lag' >= FrameLength => ~(calm < Recovery)
    OBVIOUS
  <2>1. ~Lingers
    BY DEF NoNewFault
  <2>. QED  BY <2>1 DEF NoNewFault, Lingers
<1>4. CASE Pause
  BY <1>3, <1>4 DEF Pause
<1>5. CASE HostByte(TRUE) \/ BreakOff \/ \E bad \in BOOLEAN : Noise(bad)
  BY <1>2, <1>5 DEF HostByte, BreakOff, Noise
<1>6. CASE HostByte(FALSE)
  BY <1>3, <1>6 DEF HostByte
<1>7. CASE Stick
  <2>1. stuck \in BOOLEAN
    BY DEF Types
  <2>2. Fault \/ (stuck /\ NoNewFault)
    BY <1>7 DEF Stick
  <2>. QED  BY <1>2, <1>3, <2>1, <2>2
<1>. QED  BY <1>1, <1>4, <1>5, <1>6, <1>7

(* What the receiver hears                                                 *)
LEMMA ReceiveHears ==
  ASSUME Types, NEW f \in Frames \cup {None}, NEW part \in 0 .. FrameLength,
         NEW bad \in BOOLEAN, Receive(f, part, bad)
  PROVE  \/ pin /\ Unheard /\ line'.age = 0
         \/ \E e \in Event : Heard(e) /\ e.byte.frame = f /\ e.byte.part = part /\ e.bad = bad
<1>1. CASE pin
  BY <1>1, Zenon DEF Receive, Unheard, Types, Wire
<1>2. CASE ~pin
  <2> DEFINE torn == bad \/ NextTorn
             b == [frame |-> f, part |-> part, segment |-> NextSegment, torn |-> torn]
             e == [byte |-> b, bad |-> bad, age |-> 0]
  <2>1. line \in Wire /\ line.segment \in {0, 1} /\ 0 \in Age
    BY Constants DEF Types, Wire, Age
  <2>2. NextSegment \in {0, 1} /\ torn \in BOOLEAN
    BY <2>1 DEF NextSegment
  <2>3. /\ queue' = Append(Aged, e)
        /\ fault' = IF bad THEN [new |-> TRUE, age |-> 0] ELSE AgedFault
        /\ line' = [age |-> 0, segment |-> NextSegment, cut |-> bad, torn |-> torn]
    BY <1>2, Zenon DEF Receive, NextGap, NextTorn, NextSegment
  <2>. HIDE DEF torn
  <2>4. b \in Byte /\ b.torn = torn /\ b.segment = NextSegment /\ b.frame = f /\ b.part = part
    BY <2>2, Zenon DEF Byte
  <2>. HIDE DEF b
  <2>5. e \in Event /\ e.bad = bad /\ e.age = 0 /\ e.byte = b
    BY <2>1, <2>4, Zenon DEF Event
  <2>. HIDE DEF e
  <2>6. e.byte.torn = (e.bad \/ NextTorn)
    BY <2>4, <2>5 DEF torn
  <2>7. Heard(e)
    BY <1>2, <2>3, <2>4, <2>5, <2>6, Zenon DEF Heard
  <2>. QED  BY <2>4, <2>5, <2>7
<1>. QED  BY <1>1, <1>2 DEF Types

(* What a character time makes of the host                                 *)
LEMMA WaitingDoes ==
  ASSUME Types
  PROVE  /\ Waiting.frame = host.frame /\ Waiting.sent = host.sent /\ Waiting.clean = host.clean
         /\ ~host.waiting => Waiting = host
         /\ host.waiting =>
              \/ /\ ~Waiting.waiting /\ Waiting.since = 0
                 /\ \/ host.since = Patience
                    \/ pin /\ tx'.state = "COMPLETE" /\ tx'.frame = host.frame
              \/ /\ Waiting.waiting /\ Waiting.since = host.since + 1 /\ host.since < Patience
                 /\ ~(pin /\ tx'.state = "COMPLETE" /\ tx'.frame = host.frame)
<1>1. host \in Master /\ host.since \in 0 .. Patience
  BY DEF Types, Master
<1>2. host.since = Patience \/ host.since < Patience
  BY <1>1, Constants
<1> DEFINE k == host.since + 1
           done == pin /\ tx'.state = "COMPLETE" /\ tx'.frame = host.frame
           h == [host EXCEPT !.waiting = FALSE, !.since = 0]
           n == [host EXCEPT !.since = k]
<1>3. \/ ~host.waiting /\ Waiting = host
      \/ host.waiting /\ (done \/ host.since = Patience) /\ Waiting = h
      \/ host.waiting /\ ~done /\ host.since # Patience /\ Waiting = n
  BY Zenon DEF Waiting
<1>. HIDE DEF k, done
<1>4. h.frame = host.frame /\ h.sent = host.sent /\ h.clean = host.clean /\ ~h.waiting /\ h.since = 0
  BY <1>1, Zenon DEF Master
<1>5. n.frame = host.frame /\ n.sent = host.sent /\ n.clean = host.clean
      /\ n.waiting = host.waiting /\ n.since = k
  BY <1>1, Zenon DEF Master
<1>. HIDE DEF h, n
<1>. QED  BY <1>2, <1>3, <1>4, <1>5 DEF k, done

LEMMA SentDoes ==
  ASSUME Types, NEW h \in Master, h.sent < FrameLength, NEW bad \in BOOLEAN
  PROVE  LET n == Sent(h, bad)
         IN  /\ n.sent = h.sent + 1 /\ n.frame = h.frame /\ n.since = h.since
             /\ n.waiting <=> n.sent = FrameLength /\ n.frame \in Requests
             /\ n.clean <=> h.clean /\ ~bad /\ ~pin
<1> DEFINE k == h.sent + 1
           w == k = FrameLength /\ h.frame \in Requests
           c == h.clean /\ ~bad /\ ~pin
           n == [h EXCEPT !.sent = k, !.waiting = w, !.clean = c]
<1>1. Sent(h, bad) = n
  BY Zenon DEF Sent, Master
<1>. HIDE DEF k, w, c
<1>2. n.sent = k /\ n.waiting = w /\ n.clean = c /\ n.frame = h.frame /\ n.since = h.since
  BY Zenon DEF Master
<1>. HIDE DEF n
<1>. QED  BY <1>1, <1>2 DEF k, w, c

LEMMA HostSends ==
  ASSUME Types, NEW bad \in BOOLEAN, HostByte(bad)
  PROVE  /\ ~host.waiting /\ host' \in Master /\ host'.since = host.since
         /\ host'.sent = IF InFrame THEN host.sent + 1 ELSE 1
         /\ InFrame => host'.frame = host.frame
         /\ ~InFrame => line.age >= T35
         /\ host'.waiting <=> host'.sent = FrameLength /\ host'.frame \in Requests
         /\ host'.clean <=> (IF InFrame THEN host.clean ELSE calm = Recovery) /\ ~bad /\ ~pin
         /\ Receive(host'.frame, host'.sent, bad) /\ (bad => calm' = 0) /\ UNCHANGED stuck
<1>1. host \in Master /\ 0 \in 0 .. FrameLength
  BY Constants DEF Types, Master
<1>2. /\ ~host.waiting /\ Receive(host'.frame, host'.sent, bad) /\ (bad => calm' = 0)
      /\ UNCHANGED stuck /\ host' \in Master
  BY HostByteTypes DEF HostByte, Fault
<1>3. CASE InFrame
  BY <1>1, <1>2, <1>3, SentDoes DEF HostByte, InFrame
<1>4. CASE ~InFrame
  <2> DEFINE h(f) == [host EXCEPT !.frame = f, !.sent = 0, !.clean = calm = Recovery]
  <2>1. PICK f \in Frames : host' = Sent(h(f), bad)
    BY <1>4 DEF HostByte
  <2>2. /\ h(f) \in Master /\ h(f).sent = 0 /\ h(f).since = host.since
        /\ (h(f).clean <=> calm = Recovery)
    BY <1>1, Zenon DEF Master
  <2>3. line.age >= T35
    <3>1. line.age >= IF host.frame \in Broadcasts THEN Turnaround ELSE T35
      BY <1>4 DEF HostByte
    <3>. QED  BY <3>1, PaceNumbers, Constants
  <2>. HIDE DEF h
  <2>4. 0 < FrameLength /\ 0 + 1 = 1
    BY Constants
  <2>. QED  BY <1>2, <1>4, <2>1, <2>2, <2>3, <2>4, SentDoes
<1>. QED  BY <1>3, <1>4

(* Whose turn it is: a host that waits has sent its request, the pauses in *)
(* its frames are short, a task that has nothing to take has waited no     *)
(* longer than the line is silent, and what is ready is what was finished  *)
(* before the frame that is held.                                          *)
Turns ==
  /\ host.waiting => ~InFrame /\ host.frame \in Requests
  /\ ~host.waiting => host.since = 0
  /\ InFrame => host.sent > 0 /\ line.age <= 1
  /\ pc = "RECEIVE" /\ queue = <<>> => line.age >= waited
  /\ rx.ready # <<>> => Held

(* The host does not send in this character time.                          *)
Rests ==
  /\ host'.frame = host.frame /\ host'.waiting = Waiting.waiting /\ host'.since = Waiting.since
  /\ \/ host'.sent = host.sent /\ (InFrame => line.age = 0 \/ line'.age = 0)
     \/ host'.sent = FrameLength /\ calm' = 0 /\ InFrame
  /\ calm' = 0 \/ Pause
  /\ host'.clean => host.clean /\ Pause

(* The byte of the host is heard, or the driver mutes it.                  *)
Sends(bad) ==
  /\ HostByte(bad)
  /\ \/ pin /\ Unheard /\ line'.age = 0
     \/ \E e \in Event : /\ Heard(e) /\ e.byte.frame = host'.frame /\ e.byte.part = host'.sent
                         /\ e.bad = bad

LEMMA TickMoves ==
  ASSUME Types, Turns, Tick
  PROVE  \/ Rests /\ Unheard
         \/ \E bad \in BOOLEAN : Sends(bad)
         \/ /\ Rests /\ calm' = 0 /\ ~host'.clean
            /\ \E e \in Event : Heard(e) /\ e.byte.frame = None /\ e.byte.part = 0
<1>1. \/ Pause
      \/ \E bad \in BOOLEAN : HostByte(bad) \/ Noise(bad)
      \/ BreakOff
      \/ Stick
  BY Zenon DEF Tick
<1>2. /\ Waiting \in Master /\ Waiting.frame = host.frame /\ Waiting.sent = host.sent
      /\ Waiting.clean = host.clean /\ (~host.waiting => Waiting = host) /\ host \in Master
  BY WaitingDoes, WaitingTypes DEF Types
<1>3. Silent => Unheard
  BY DEF Silent, Unheard
<1>4. CASE Pause
  <2>1. host' = Waiting /\ (InFrame => line.age = 0) /\ Silent
    BY <1>4 DEF Pause
  <2>. QED  BY <1>2, <1>3, <1>4, <2>1 DEF Rests
<1>5. ASSUME host' = [Waiting EXCEPT !.clean = FALSE]
      PROVE  /\ host'.frame = host.frame /\ host'.sent = host.sent /\ ~host'.clean
             /\ host'.waiting = Waiting.waiting /\ host'.since = Waiting.since
  BY <1>2, <1>5, Zenon DEF Master
<1>6. CASE Stick
  <2>1. (InFrame => line.age = 0) /\ Silent /\ host' = [Waiting EXCEPT !.clean = FALSE]
    BY <1>6 DEF Stick
  <2>2. calm' = 0
    <3>1. stuck \in BOOLEAN
      BY DEF Types
    <3>. QED  BY <1>6, <3>1 DEF Stick, Fault, NoNewFault, Lingers
  <2>. QED  BY <1>3, <1>5, <2>1, <2>2 DEF Rests
<1>7. CASE BreakOff
  <2>1. InFrame /\ Silent /\ calm' = 0 /\ host' = [host EXCEPT !.sent = FrameLength, !.clean = FALSE]
    BY <1>7 DEF BreakOff, Fault
  <2>2. /\ host'.frame = host.frame /\ host'.sent = FrameLength /\ ~host'.clean
        /\ host'.waiting = host.waiting /\ host'.since = host.since
    BY <1>2, <2>1, Zenon DEF Master
  <2>3. ~host.waiting
    BY <2>1 DEF Turns
  <2>. QED  BY <1>2, <1>3, <2>1, <2>2, <2>3 DEF Rests
<1>8. ASSUME NEW bad \in BOOLEAN, Noise(bad)
      PROVE  \/ Rests /\ Unheard
             \/ /\ Rests /\ calm' = 0 /\ ~host'.clean
                /\ \E e \in Event : Heard(e) /\ e.byte.frame = None /\ e.byte.part = 0
  <2>1. Receive(None, 0, bad) /\ calm' = 0 /\ host' = [Waiting EXCEPT !.clean = FALSE]
    BY <1>8 DEF Noise, Fault
  <2>2. 0 \in 0 .. FrameLength
    BY Constants
  <2>3. \/ pin /\ Unheard /\ line'.age = 0
        \/ \E e \in Event : Heard(e) /\ e.byte.frame = None /\ e.byte.part = 0
    BY <2>1, <2>2, ReceiveHears
  <2>4. line'.age = 0
    BY <2>3 DEF Heard
  <2>5. Rests /\ ~host'.clean
    BY <1>5, <2>1, <2>4 DEF Rests
  <2>. QED  BY <2>1, <2>3, <2>5
<1>9. ASSUME NEW bad \in BOOLEAN, HostByte(bad)  PROVE Sends(bad)
  <2>1. Receive(host'.frame, host'.sent, bad) /\ host' \in Master
    BY <1>9, HostSends
  <2>2. host'.frame \in Frames \cup {None} /\ host'.sent \in 0 .. FrameLength
    BY <2>1 DEF Master
  <2>. QED  BY <1>9, <2>1, <2>2, ReceiveHears DEF Sends
<1>. QED  BY <1>1, <1>4, <1>6, <1>7, <1>8, <1>9

(* What a character time makes of the bytes that wait                      *)
LEMMA TickQueue ==
  ASSUME SlaveInv, Tick
  PROVE  /\ Len(queue) \in Nat /\ queue \in Seq(Event)
         /\ \A i \in 1 .. Len(queue) :
              /\ queue'[i].byte = queue[i].byte /\ queue'[i].bad = queue[i].bad
              /\ queue'[i].age = queue[i].age + 1 /\ queue[i].age \in Nat
         /\ Unheard => Len(queue') = Len(queue)
         /\ \A e \in Event : Heard(e) => /\ Len(queue') = Len(queue) + 1
                                         /\ queue'[Len(queue) + 1] = e /\ queue' # <<>>
         /\ queue' \in Seq(Event) /\ (Len(queue') = Len(queue) \/ Len(queue') = Len(queue) + 1)
         /\ queue = <<>> <=> Len(queue) = 0
         /\ queue' = <<>> <=> Len(queue') = 0
<1>1. /\ \A i \in 1 .. Len(queue) : Later(queue[i], Aged[i]) /\ queue[i].age \in Nat
      /\ Aged \in Seq(Event) /\ Len(Aged) = Len(queue) /\ Len(queue) \in Nat
      /\ (Aged = <<>> <=> queue = <<>>) /\ (queue = <<>> <=> Len(queue) = 0)
      /\ queue \in Seq(Event)
  BY TickLater DEF SlaveInv, Types
<1>2. CASE Unheard
  <2>1. queue' = Aged /\ \A e \in Event : ~Heard(e) \/ queue' = Append(Aged, e)
    BY <1>2 DEF Unheard, Heard
  <2>2. \A e \in Event : ~Heard(e)
    <3>1. \A e \in Event : Len(Append(Aged, e)) = Len(Aged) + 1
      BY <1>1
    <3>. QED  BY <1>1, <2>1, <3>1
  <2>. QED  BY <1>1, <2>1, <2>2 DEF Later
<1>3. ASSUME NEW e \in Event, Heard(e)
      PROVE  /\ Len(queue') = Len(queue) + 1 /\ queue'[Len(queue) + 1] = e /\ queue' # <<>>
             /\ queue' \in Seq(Event) /\ ~Unheard
             /\ \A i \in 1 .. Len(queue) :
                  /\ queue'[i].byte = queue[i].byte /\ queue'[i].bad = queue[i].bad
                  /\ queue'[i].age = queue[i].age + 1
  <2>1. queue' = Append(Aged, e)
    BY <1>3 DEF Heard
  <2>2. /\ Len(queue') = Len(queue) + 1 /\ queue'[Len(queue) + 1] = e /\ queue' \in Seq(Event)
        /\ \A i \in 1 .. Len(queue) : queue'[i] = Aged[i]
    BY <1>1, <2>1, AppendProperties
  <2>3. queue' # <<>>
    BY <1>1, <2>2, EmptySeq
  <2>4. ~Unheard
    BY <1>1, <2>2 DEF Unheard
  <2>. QED  BY <1>1, <2>2, <2>3, <2>4 DEF Later
<1>4. Unheard \/ \E e \in Event : Heard(e)
  BY WorldDoes DEF SlaveInv
<1>5. queue' = <<>> <=> Len(queue') = 0
  BY <1>1, <1>2, <1>3, <1>4, EmptySeq
<1>. QED  BY <1>1, <1>2, <1>3, <1>4, <1>5

LEMMA InitTurns == Init => Turns
<1>. SUFFICES ASSUME Init  PROVE Turns
  OBVIOUS
<1>1. rx.ready = <<>> /\ pc = "SERVICE"
  BY Zenon, NoRxFits DEF Init
<1>2. ~host.waiting /\ host.since = 0 /\ host.sent = FrameLength
  BY DEF Init
<1>. QED  BY <1>1, <1>2, Constants DEF Turns, InFrame

(* Steps of the task leave the host and the line alone.                    *)
LEMMA StepTurns ==
  ASSUME SlaveInv, Turns, UNCHANGED <<host, line>>,
         pc' = "RECEIVE" => waited' = 0, rx'.ready # <<>> => Held'
  PROVE  Turns'
  BY Numbers DEF SlaveInv, Turns, InFrame

LEMMA TaskTurns ==
  ASSUME SlaveInv, Turns,
         ServiceFault \/ TakeEvent \/ Drained \/ TimeOut \/ PollSlave
  PROVE  Turns'
<1>1. Types /\ Bounds
  BY DEF SlaveInv
<1>2. CASE ServiceFault
  <2>1. rx'.ready # <<>> => Held'
    BY <1>1, <1>2, DiscardFits DEF ServiceFault, Service, Types, Turns, Held
  <2>. QED  BY <1>2, <2>1, StepTurns DEF ServiceFault, SlaveInv, Bounds, Sampled
<1>3. CASE TakeEvent
  <2>1. rx'.ready # <<>> => Held'
    <3>1. PICK r, c : Handled(queue[1], r, c) /\ Service(r, c) /\ Fits(r) /\ queue[1] \in Event
      BY <1>1, <1>3, TakeEventDoes
    <3>2. CASE fault.new
      BY <3>1, <3>2, DiscardFits DEF Service
    <3>3. CASE ~fault.new
      <4>1. rx' = r
        BY <3>1, <3>3 DEF Service
      <4>2. CASE r = Discard(rx)
        BY <1>1, <4>1, <4>2, DiscardFits DEF Types
      <4>3. CASE r = rx
        BY <4>1, <4>3 DEF Turns, Held
      <4>4. CASE r = Push(rx, queue[1].byte, queue[1].age)
        <5> DEFINE p == PollRx(rx, queue[1].age)
        <5>1. Fits(rx) /\ queue[1].byte \in Byte /\ queue[1].age \in Age
          BY <1>1, <3>1 DEF Types, Event
        <5>2. /\ r.ready = p.ready /\ Fits(p)
              /\ (r.over <=> p.over \/ Len(p.active) >= MaxAdu)
              /\ (r.over => r.active = p.active)
              /\ (~r.over => r.active = Append(p.active, queue[1].byte))
          BY <4>4, <5>1, PushFits, PollRxFits
        <5>3. p = rx \/ (p.active = <<>> /\ ~p.over)
          BY <5>1, PollRxFits, PublishFits
        <5>. HIDE DEF p
        <5>4. p.active \in Seq(Byte)
          BY <5>2 DEF Fits, Receiver
        <5>5. ~r.over => r.active # <<>>
          BY <5>1, <5>2, <5>4
        <5>6. r.over => p = rx
          <6>1. ~(Len(<<>>) >= MaxAdu)
            BY Constants
          <6>. QED  BY <5>2, <5>3, <6>1
        <5>7. r.over => r.active = rx.active /\ r.ready = rx.ready
          BY <5>2, <5>6
        <5>. QED  BY <4>1, <5>5, <5>7 DEF Turns, Held
      <4>. QED  BY <3>1, <4>2, <4>3, <4>4 DEF Handled
    <3>. QED  BY <3>2, <3>3
  <2>. QED  BY <1>3, <2>1, StepTurns DEF TakeEvent
<1>4. CASE Drained \/ TimeOut
  <2>1. UNCHANGED <<rx, host, line>> /\ pc' # "RECEIVE"
    BY <1>4 DEF Drained, TimeOut, Wait
  <2>. QED  BY <2>1, StepTurns DEF Turns, Held
<1>5. CASE PollSlave
  <2>1. rx'.ready # <<>> => Held'
    <3>1. CASE ~fault.new /\ Accepts(sample)
      BY <1>1, <1>5, <3>1, PollFinishes
    <3>2. CASE fault.new \/ ~Accepts(sample)
      BY <1>1, <1>5, <3>2, DiscardFits DEF PollSlave, Service, Types, Turns, Held
    <3>. QED  BY <3>1, <3>2
  <2>2. pc' # "RECEIVE" /\ UNCHANGED <<host, line>>
    BY <1>5, Zenon DEF PollSlave, Wait
  <2>. QED  BY <2>1, <2>2, StepTurns
<1>. QED  BY <1>2, <1>3, <1>4, <1>5

LEMMA AnswerTurns ==
  ASSUME SlaveInv, Turns, Start \/ Refuse \/ RefuseError \/ Complete \/ Abort
  PROVE  Turns'
<1>1. CASE RefuseError
  <2>1. /\ UNCHANGED rx /\ pc' # "RECEIVE" /\ ~InFrame
        /\ host' = [host EXCEPT !.clean = FALSE]
    BY <1>1 DEF RefuseError, Wait
  <2>2. host \in Master
    BY DEF SlaveInv, Types
  <2>3. /\ host'.waiting = host.waiting /\ host'.frame = host.frame /\ host'.sent = host.sent
        /\ host'.since = host.since
    BY <2>1, <2>2, Zenon DEF Master
  <2>. QED  BY <2>1, <2>3 DEF Turns, InFrame, Held
<1>2. CASE Start
  <2>1. UNCHANGED <<rx, host, line>> /\ pc' # "RECEIVE"
    BY <1>2 DEF Start
  <2>. QED  BY <2>1, StepTurns DEF Turns, Held
<1>3. CASE Refuse \/ Complete \/ Abort
  <2>1. UNCHANGED <<rx, host, line>> /\ pc' # "RECEIVE"
    BY <1>3 DEF Refuse, Complete, Abort, Wait
  <2>. QED  BY <2>1, StepTurns DEF Turns, Held
<1>. QED  BY <1>1, <1>2, <1>3

(* In a character time the line gets no older than a character more.       *)
LEMMA TickLine ==
  ASSUME SlaveInv, Tick
  PROVE  /\ line'.age \in Nat /\ line'.age <= line.age + 1 /\ line.age \in Nat
         /\ ~pin /\ Unheard => line'.age = IF line.age < Turnaround THEN line.age + 1 ELSE line.age
         /\ \A e \in Event : Heard(e) => line'.age = 0
<1>1. line \in Wire /\ line.age \in Nat /\ Turnaround \in Nat /\ line.age <= Turnaround
  BY Constants DEF SlaveInv, Types, Wire
<1>2. CASE Unheard
  <2>1. line'.age \in Nat /\ line'.age <= line.age + 1
    BY <1>2, UnheardLine DEF SlaveInv
  <2>2. ~pin => line' = [line EXCEPT !.age = IF @ < Turnaround THEN @ + 1 ELSE @]
    BY <1>2 DEF Unheard
  <2>3. ~pin => line'.age = IF line.age < Turnaround THEN line.age + 1 ELSE line.age
    BY <1>1, <2>2 DEF Wire
  <2>4. \A e \in Event : ~Heard(e)
    BY <1>2, TickQueue
  <2>. QED  BY <1>1, <2>1, <2>3, <2>4
<1>3. ASSUME NEW e \in Event, Heard(e)  PROVE line'.age = 0 /\ ~Unheard
  <2>1. line'.age = 0
    BY <1>3 DEF Heard
  <2>2. ~Unheard
    BY <1>3, TickQueue
  <2>. QED  BY <2>1, <2>2
<1>4. Unheard \/ \E e \in Event : Heard(e)
  BY WorldDoes DEF SlaveInv
<1>. QED  BY <1>1, <1>2, <1>3, <1>4

LEMMA TickTurns ==
  ASSUME SlaveInv, Turns, Tick
  PROVE  Turns'
<1>1. Types /\ Bounds /\ Types'
  BY TickTypes DEF SlaveInv
<1>2. /\ host \in Master /\ host' \in Master /\ host.sent \in Nat /\ host.sent <= FrameLength
      /\ host'.sent \in Nat /\ host'.sent <= FrameLength /\ FrameLength \in Nat /\ FrameLength > 0
  BY <1>1, Constants DEF Types, Master
<1>3. ASSUME Rests
      PROVE  /\ host'.waiting => ~InFrame' /\ host'.frame \in Requests
             /\ ~host'.waiting => host'.since = 0
             /\ InFrame' => host'.sent > 0 /\ line'.age <= 1
  <2>1. /\ ~host.waiting => Waiting = host
        /\ host.waiting => \/ ~Waiting.waiting /\ Waiting.since = 0
                           \/ Waiting.waiting
    BY <1>1, WaitingDoes
  <2>2. host'.waiting => host.waiting /\ host.sent = FrameLength
    <3>1. host'.waiting => host.waiting
      BY <1>3, <2>1 DEF Rests
    <3>2. host.waiting => ~(host.sent < FrameLength)
      BY DEF Turns, InFrame
    <3>. QED  BY <1>2, <3>1, <3>2
  <2>3. ~host'.waiting => host'.since = 0
    BY <1>3, <2>1 DEF Rests, Turns
  <2>4. host'.sent = host.sent \/ host'.sent = FrameLength
    BY <1>3 DEF Rests
  <2>5. ASSUME InFrame'  PROVE host'.sent > 0 /\ line'.age <= 1
    <3>1. host'.sent = host.sent /\ InFrame
      BY <1>2, <2>4, <2>5 DEF InFrame
    <3>2. (line.age = 0 \/ line'.age = 0) /\ host.sent > 0
      BY <1>2, <1>3, <2>5, <3>1 DEF Rests, Turns, InFrame
    <3>. QED  BY <3>1, <3>2, TickLine
  <2>6. host'.waiting => ~InFrame' /\ host'.frame \in Requests
    BY <1>2, <1>3, <2>2, <2>4 DEF Rests, Turns, InFrame
  <2>. QED  BY <2>3, <2>5, <2>6
<1>4. ASSUME NEW bad \in BOOLEAN, Sends(bad)
      PROVE  /\ host'.waiting => ~InFrame' /\ host'.frame \in Requests
             /\ ~host'.waiting => host'.since = 0
             /\ InFrame' => host'.sent > 0 /\ line'.age <= 1
  <2>1. /\ ~host.waiting /\ host'.since = host.since
        /\ host'.sent = (IF InFrame THEN host.sent + 1 ELSE 1)
        /\ (host'.waiting <=> host'.sent = FrameLength /\ host'.frame \in Requests)
    BY <1>1, <1>4, HostSends DEF Sends
  <2>2. line'.age = 0
    <3>1. \/ line'.age = 0
          \/ \E e \in Event : Heard(e)
      BY <1>4 DEF Sends
    <3>. QED  BY <3>1, TickLine
  <2>. QED  BY <1>2, <2>1, <2>2 DEF Turns, InFrame
<1>5. pc' = "RECEIVE" /\ queue' = <<>> => line'.age >= waited'
  <2>. SUFFICES ASSUME pc' = "RECEIVE", queue' = <<>>  PROVE line'.age >= waited'
    OBVIOUS
  <2>1. pc = "RECEIVE" /\ waited' = (IF waited < RxWait THEN waited + 1 ELSE waited)
    BY <1>1, TickDoes
  <2>2. ~pin
    BY <1>1, <2>1 DEF Types, Busy
  <2>3. Unheard /\ queue = <<>>
    BY WorldDoes, TickQueue DEF SlaveInv
  <2>4. line.age >= waited
    BY <2>1, <2>3 DEF Turns
  <2>5. line'.age = (IF line.age < Turnaround THEN line.age + 1 ELSE line.age) /\ line.age \in Nat
    BY <2>2, <2>3, TickLine
  <2>6. waited \in Nat /\ waited <= RxWait /\ RxWait \in Nat /\ Turnaround \in Nat /\ RxWait <= Turnaround
    BY <1>1, PaceNumbers
  <2>. QED  BY <2>1, <2>4, <2>5, <2>6
<1>6. rx'.ready # <<>> => Held'
  BY <1>1, TickDoes DEF Turns, Held
<1>. QED  BY <1>1, <1>3, <1>4, <1>5, <1>6, TickMoves DEF Turns

(* What came later is younger, and the line is as young as what came last. *)
(* A fault is as old as its damaged byte at most.                          *)
Elder ==
  /\ \A i, j \in 1 .. Len(queue) : i <= j => queue[i].age >= queue[j].age
  /\ \A i \in 1 .. Len(queue) : /\ queue[i].age >= line.age
                                /\ queue[i].bad => queue[i].age >= calm
  /\ Held => /\ rx.age >= line.age
             /\ \A i \in 1 .. Len(queue) : rx.age >= queue[i].age
  /\ recovery.discarding => recovery.age >= line.age
  /\ fault.new =>
       /\ fault.age >= line.age /\ fault.age >= calm
       /\ \A i \in 1 .. Len(queue) : queue[i].bad => fault.age <= queue[i].age

(* How long the receiver goes on discarding: as an unfinished frame, a     *)
(* recovery is over when the task has waited for its silence.              *)
Doubting ==
  /\ recovery.age <= Longest + RxWait + lag
  /\ pc = "DRAIN" \/ (pc = "SERVICE" /\ queue = <<>>) => recovery.age <= Oldest + lag
  /\ pc = "RECEIVE" => /\ waited <= recovery.age
                       /\ queue = <<>> /\ waited < RxWait => recovery.age <= Longest + waited
  /\ pc = "POLL" => recovery.age >= sample + RxWait
  /\ pc \notin {"SEND", "SENDING"}
  /\ ~fault.new /\ (\E i \in 1 .. Len(queue) : queue[i].bad) => recovery.age <= Oldest + lag

Doubt == recovery.discarding => Doubting

Settled == SlaveInv /\ Turns /\ Elder /\ Doubt

LEMMA InitSettled == Init => Turns /\ Elder /\ Doubt
<1>. SUFFICES ASSUME Init  PROVE Turns /\ Elder /\ Doubt
  OBVIOUS
<1>1. queue = <<>> /\ Len(queue) = 0 /\ ~fault.new /\ rx.active = <<>> /\ ~recovery.discarding
  BY Zenon, NoRxFits DEF Init, NoFault, Trusting
<1>. QED  BY <1>1, InitTurns DEF Elder, Doubt, Held

LEMMA AgeNumbers ==
  ASSUME Types
  PROVE  /\ line.age \in Nat /\ calm \in Nat /\ recovery.age \in Nat /\ fault.age \in Nat
         /\ rx.age \in Nat /\ lag \in Nat /\ Recovery \in Nat /\ calm <= Recovery
         /\ \A i \in 1 .. Len(queue) : queue[i].age \in Nat
         /\ waited \in Nat /\ sample \in Nat
<1>1. fault.age \in Age /\ calm \in 0 .. Recovery
  BY DEF Types
<1>. QED  BY <1>1, Numbers, EventAges, Constants, SMTT(60) DEF Age

(* The head of the queue, while a fault waits to be seen to                *)
LEMMA HeadAges ==
  ASSUME SlaveInv
  PROVE  /\ fault.new => queue # <<>> /\ fault.age <= queue[1].age /\ fault.age <= Oldest + lag
         /\ \A i \in 1 .. Len(queue) : queue[i].age <= Oldest + lag
         /\ queue # <<>> => 1 \in 1 .. Len(queue)
<1>1. \A i \in 1 .. Len(queue) : queue[i].age <= Oldest + lag
  BY DEF SlaveInv, Bounds, Queued, Young
<1>2. queue # <<>> => 1 \in 1 .. Len(queue)
  BY QueueFacts DEF SlaveInv
<1>3. fault.new => queue # <<>> /\ fault.age <= queue[1].age
  BY DEF SlaveInv, Trail, Noted
<1>4. fault.new => fault.age <= Oldest + lag
  <2>. SUFFICES ASSUME fault.new  PROVE fault.age <= Oldest + lag
    OBVIOUS
  <2>1. queue[1].age <= Oldest + lag /\ fault.age <= queue[1].age
    BY <1>1, <1>2, <1>3
  <2>2. queue[1].age \in Nat /\ fault.age \in Nat /\ lag \in Nat /\ Oldest \in Nat
    BY <1>2, <1>3, AgeNumbers, Bounding DEF SlaveInv
  <2>. QED  BY <2>1, <2>2
<1>. QED  BY <1>1, <1>2, <1>3, <1>4

(* What service_rx_fault leaves of a recovery                              *)
LEMMA ServedRecovery ==
  ASSUME NEW r, NEW c, Service(r, c)
  PROVE  /\ fault.new => recovery'.discarding /\ recovery'.age = fault.age /\ rx' = Discard(r)
         /\ ~fault.new => recovery' = c /\ rx' = r
         /\ ~fault'.new
  BY DEF Service, Begin, NoFault

LEMMA TakenRecovery ==
  ASSUME Types, Bounds, TakeEvent, recovery'.discarding
  PROVE  \/ fault.new /\ recovery'.age = fault.age
         \/ ~fault.new /\ recovery'.age = queue[1].age
         \/ ~fault.new /\ recovery.discarding /\ queue[1].bad /\ recovery'.age = recovery.age
<1>1. PICK r, c : Handled(queue[1], r, c) /\ Service(r, c)
  BY TakeEventDoes
<1>2. recovery \in Distrust
  BY DEF Types
<1>3. CASE fault.new
  BY <1>1, <1>3, ServedRecovery
<1>4. CASE ~fault.new
  <2>1. recovery' = c
    BY <1>1, <1>4, ServedRecovery
  <2>2. CASE queue[1].bad /\ ~recovery.discarding /\ c = Begin(queue[1].age)
    BY <1>4, <2>1, <2>2 DEF Begin
  <2>3. CASE queue[1].bad /\ recovery.discarding
             /\ c = [recovery EXCEPT !.blind = @ \/ queue[1].age < recovery.age]
    BY <1>2, <1>4, <2>1, <2>3, Zenon DEF Distrust
  <2>4. CASE c = After(queue[1].age)
    <3>1. \/ ~recovery.discarding /\ c = recovery
          \/ c = [Trusting EXCEPT !.blind = recovery.blind]
          \/ c = [recovery EXCEPT !.age = queue[1].age]
      BY <2>4, Zenon DEF After
    <3>2. [Trusting EXCEPT !.blind = recovery.blind].discarding = FALSE
      BY Zenon DEF Trusting
    <3>3. [recovery EXCEPT !.age = queue[1].age].age = queue[1].age
      BY <1>2, Zenon DEF Distrust
    <3>. QED  BY <1>4, <2>1, <3>1, <3>2, <3>3
  <2>. QED  BY <1>1, <2>2, <2>3, <2>4 DEF Handled
<1>. QED  BY <1>3, <1>4

LEMMA TakeEventElder ==
  ASSUME Settled, TakeEvent
  PROVE  Elder' /\ Doubt'
<1>1. /\ Types /\ Bounds /\ queue # <<>> /\ queue' = Tail(queue) /\ pc' = "DRAIN"
      /\ UNCHANGED <<line, calm, lag>>
  BY DEF TakeEvent, Settled, SlaveInv
<1>2. /\ Len(queue') = Len(queue) - 1 /\ Len(queue) \in Nat
      /\ \A i \in 1 .. Len(queue') : queue'[i] = queue[i + 1]
  BY <1>1, TailFacts, QueueFacts
<1>3. 1 \in 1 .. Len(queue) /\ ~fault'.new /\ SlaveInv
  <2>1. SlaveInv
    BY DEF Settled
  <2>. QED  BY <1>1, <2>1, HeadAges, TakenFacts
<1>4. \A i \in 1 .. Len(queue') : i + 1 \in 1 .. Len(queue)
  BY <1>2
<1>5. \A i \in 1 .. Len(queue') : queue'[i].age <= queue[1].age
  BY <1>2, <1>3, <1>4 DEF Settled, Elder
<1>6. Held' => rx'.age = queue[1].age
  BY <1>1, HandledHolds
<1>7. queue[1].age >= line.age /\ queue[1].age <= Oldest + lag
  BY <1>3, HeadAges DEF Settled, Elder
<1>8. ASSUME recovery'.discarding
      PROVE  recovery'.age >= line.age /\ recovery'.age <= Oldest + lag
  <2>1. CASE fault.new /\ recovery'.age = fault.age
    BY <2>1, HeadAges DEF Settled, Elder
  <2>2. CASE recovery'.age = queue[1].age
    BY <1>7, <2>2
  <2>3. CASE ~fault.new /\ recovery.discarding /\ queue[1].bad /\ recovery'.age = recovery.age
    BY <1>3, <2>3 DEF Settled, Elder, Doubt, Doubting
  <2>. QED  BY <1>1, <1>8, <2>1, <2>2, <2>3, TakenRecovery
<1>9. Elder'
  <2>1. \A i, j \in 1 .. Len(queue') : i <= j => queue'[i].age >= queue'[j].age
    BY <1>2, <1>4 DEF Settled, Elder
  <2>2. \A i \in 1 .. Len(queue') : /\ queue'[i].age >= line.age
                                    /\ queue'[i].bad => queue'[i].age >= calm
    BY <1>2, <1>4 DEF Settled, Elder
  <2>. QED  BY <1>1, <1>3, <1>5, <1>6, <1>7, <1>8, <2>1, <2>2 DEF Elder
<1>10. ASSUME recovery'.discarding  PROVE Doubting'
  <2>1. recovery'.age <= Oldest + lag
    BY <1>8, <1>10
  <2>2. recovery'.age <= Longest + RxWait + lag
    <3>1. recovery'.age \in Nat /\ lag \in Nat
      <4>1. Types'
        BY <1>1, SlaveStepTypes
      <4>2. recovery'.age \in Age
        BY <4>1 DEF Types, Distrust
      <4>. QED  BY <1>1, <4>2, AgeNumbers, Constants DEF Age
    <3>. QED  BY <2>1, <3>1, Bounding
  <2>. QED  BY <1>1, <2>1, <2>2 DEF Doubting
<1>. QED  BY <1>9, <1>10 DEF Doubt

(* service_rx_fault at the top of the loop, and before a poll              *)
LEMMA ServiceElder ==
  ASSUME Settled, Service(rx, recovery), UNCHANGED <<queue, line, calm, lag>>
  PROVE  /\ Elder'
         /\ recovery'.discarding =>
              \/ fault.new /\ queue # <<>> /\ recovery'.age <= Oldest + lag /\ recovery'.age \in Nat
              \/ ~fault.new /\ recovery' = recovery
<1>1. Types /\ SlaveInv
  BY DEF Settled, SlaveInv
<1>2. \/ fault.new /\ recovery'.age = fault.age /\ rx' = Discard(rx)
      \/ ~fault.new /\ rx' = rx /\ recovery' = recovery
  BY ServedRecovery
<1>3. ~fault'.new
  BY ServedRecovery
<1>4. fault.new => ~Held'
  BY <1>1, <1>2, DiscardFits DEF Held, Types
<1>5. recovery'.discarding => recovery'.age >= line.age
  BY <1>2 DEF Settled, Elder
<1>6. Elder'
  BY <1>2, <1>3, <1>4, <1>5 DEF Settled, Elder, Held
<1>7. fault.new => queue # <<>> /\ fault.age <= Oldest + lag /\ fault.age \in Nat
  BY <1>1, HeadAges, AgeNumbers
<1>. QED  BY <1>2, <1>6, <1>7

LEMMA ServiceFaultElder ==
  ASSUME Settled, ServiceFault
  PROVE  Elder' /\ Doubt'
<1>1. /\ Types /\ Bounds /\ pc = "SERVICE" /\ pc' = "RECEIVE" /\ Service(rx, recovery)
      /\ UNCHANGED <<queue, line, calm, lag, waited>>
  BY DEF ServiceFault, Settled, SlaveInv
<1>2. waited = 0
  BY <1>1 DEF Bounds, Sampled
<1>3. ASSUME recovery'.discarding  PROVE Doubting'
  <2>1. CASE fault.new
    <3>1. queue # <<>> /\ recovery'.age <= Oldest + lag /\ recovery'.age \in Nat
      BY <1>1, <1>3, <2>1, ServiceElder
    <3>2. recovery'.age <= Longest + RxWait + lag
      <4>1. lag \in Nat
        BY <1>1, Numbers
      <4>. QED  BY <3>1, <4>1, Bounding
    <3>. QED  BY <1>1, <1>2, <3>1, <3>2 DEF Doubting
  <2>2. CASE ~fault.new
    <3>1. recovery' = recovery /\ Doubting
      BY <1>1, <1>3, <2>2, ServiceElder DEF Settled, Doubt
    <3>2. recovery.age \in Nat /\ lag \in Nat
      BY <1>1, AgeNumbers
    <3>3. queue = <<>> => recovery.age <= Longest + 0
      BY <1>1, <3>1, <3>2, Numbers, Bounding DEF Doubting
    <3>4. recovery.age <= Longest + RxWait + lag
          /\ ((\E i \in 1 .. Len(queue) : queue[i].bad) => recovery.age <= Oldest + lag)
      BY <2>2, <3>1 DEF Doubting
    <3>. QED  BY <1>1, <1>2, <3>1, <3>2, <3>3, <3>4 DEF Doubting
  <2>. QED  BY <2>1, <2>2
<1>. QED  BY <1>1, <1>3, ServiceElder DEF Doubt

LEMMA DrainedElder ==
  ASSUME Settled, Drained \/ TimeOut
  PROVE  Elder' /\ Doubt'
<1>1. /\ Types /\ Bounds
      /\ UNCHANGED <<queue, line, calm, lag, rx, recovery, fault>>
  BY DEF Drained, TimeOut, Settled, SlaveInv
<1>2. Elder'
  BY <1>1 DEF Settled, Elder, Held
<1>3. ASSUME recovery.discarding  PROVE Doubting'
  <2>1. Doubting
    BY <1>3 DEF Settled, Doubt
  <2>2. CASE Drained
    <3>1. pc = "DRAIN" /\ pc' = "SERVICE"
      BY <2>2 DEF Drained, Wait
    <3>. QED  BY <1>1, <2>1, <3>1 DEF Doubting
  <2>3. CASE TimeOut
    <3>1. /\ pc = "RECEIVE" /\ waited >= RxWait /\ sample' = 0
          /\ pc' = (IF queue = <<>> THEN "POLL" ELSE "SERVICE")
      BY <2>3 DEF TimeOut
    <3>2. recovery.age >= 0 + RxWait
      BY <1>1, <2>1, <3>1, AgeNumbers, Numbers, Bounding DEF Doubting
    <3>. QED  BY <1>1, <2>1, <3>1, <3>2 DEF Doubting
  <2>. QED  BY <2>2, <2>3
<1>. QED  BY <1>1, <1>2, <1>3 DEF Doubt

(* A poll without a new fault finds the recovery over.                     *)
LEMMA PollAccepts ==
  ASSUME Settled, pc = "POLL"
  PROVE  Accepts(sample)
<1>1. Types /\ Bounds /\ sample \in Age /\ recovery.age \in Age
  BY DEF Settled, SlaveInv, Types, Distrust
<1>2. CASE recovery.discarding
  <2>1. recovery.age <= Longest + RxWait + lag /\ recovery.age >= sample + RxWait
    BY <1>2 DEF Settled, Doubt, Doubting
  <2>2. recovery.age >= sample /\ recovery.age - sample < Horizon /\ recovery.age - sample >= T35
    BY <1>1, <2>1, Numbers, Bounding
  <2>3. SilentGap(recovery.age, sample)
    BY <1>1, <2>2, SilentGapMeans
  <2>. QED  BY <1>2, <2>3 DEF Accepts, Ends
<1>. QED  BY <1>2 DEF Accepts

LEMMA PollSlaveElder ==
  ASSUME Settled, PollSlave
  PROVE  Elder' /\ Doubt'
<1>1. /\ Types /\ Bounds /\ pc = "POLL" /\ Accepts(sample)
      /\ UNCHANGED <<queue, line, calm, lag>>
  BY PollAccepts DEF PollSlave, Settled, SlaveInv
<1>2. CASE fault.new
  <2>1. Service(rx, recovery) /\ pc' = "SERVICE" /\ waited' = 0
    BY <1>2 DEF PollSlave, Wait
  <2>2. ASSUME recovery'.discarding  PROVE Doubting'
    <3>1. queue # <<>> /\ recovery'.age <= Oldest + lag /\ recovery'.age \in Nat
      BY <1>1, <1>2, <2>1, <2>2, ServiceElder
    <3>2. recovery'.age <= Longest + RxWait + lag
      BY <1>1, <3>1, Numbers, Bounding, SMTT(60)
    <3>. QED  BY <1>1, <2>1, <3>1, <3>2 DEF Doubting
  <2>. QED  BY <1>1, <2>1, <2>2, ServiceElder DEF Doubt
<1>3. CASE ~fault.new
  <2>1. rx'.active = <<>> /\ ~recovery'.discarding /\ UNCHANGED fault
    BY <1>1, <1>3, PollFinishes
  <2>. QED  BY <1>1, <1>3, <2>1 DEF Settled, Elder, Held, Doubt
<1>. QED  BY <1>2, <1>3

(* While an answer is owed nothing is held and nothing discarded.          *)
LEMMA AnswerElder ==
  ASSUME Settled, Start \/ Refuse \/ RefuseError \/ Complete \/ Abort
  PROVE  Elder' /\ Doubt'
<1>1. Types /\ Bounds /\ pc \in {"SEND", "SENDING"} /\ UNCHANGED <<rx, recovery>>
  BY DEF Start, Refuse, RefuseError, Complete, Abort, Settled, SlaveInv
<1>2. ~recovery.discarding /\ ~Held
  BY <1>1 DEF Settled, Doubt, Doubting, Bounds, Bounded
<1>3. CASE Start \/ Refuse \/ Complete \/ Abort
  <2>1. UNCHANGED <<queue, fault, line, calm>>
    BY <1>3 DEF Start, Refuse, Complete, Abort
  <2>. QED  BY <1>1, <1>2, <2>1 DEF Settled, Elder, Doubt, Held
<1>4. CASE RefuseError
  <2>1. calm' = 0 /\ fault' = [new |-> TRUE, age |-> 0]
        /\ line' = [line EXCEPT !.age = 0, !.cut = TRUE, !.torn = TRUE]
    BY <1>4 DEF RefuseError, Fault
  <2>2. line'.age = 0 /\ fault'.age = 0
    BY <1>1, <2>1 DEF Types, Wire
  <2>3. PICK e \in Event : queue' = Append(queue, e) /\ e.age = 0
    BY <1>1, <1>4, RefuseErrorTypes
  <2>4. /\ queue \in Seq(Event) /\ Len(queue) \in Nat
        /\ \A i \in 1 .. Len(queue) : queue[i].age \in Nat
    BY <1>1, QueueFacts, EventAges
  <2>5. /\ Len(queue') = Len(queue) + 1 /\ queue'[Len(queue) + 1] = e
        /\ \A i \in 1 .. Len(queue) : queue'[i] = queue[i]
    BY <2>3, <2>4, AppendProperties
  <2>6. \A i \in 1 .. Len(queue') : queue'[i].age \in Nat /\ queue'[i].age >= 0
    BY <2>3, <2>4, <2>5
  <2>7. \A i, j \in 1 .. Len(queue') : i <= j => queue'[i].age >= queue'[j].age
    BY <2>3, <2>4, <2>5, <2>6 DEF Settled, Elder
  <2>. QED  BY <1>1, <1>2, <2>1, <2>2, <2>6, <2>7 DEF Elder, Held, Doubt
<1>. QED  BY <1>3, <1>4

(* No age that is kept reaches the width of the clock in a character time. *)
LEMMA TickAgesOn ==
  ASSUME Settled, Tick
  PROVE  /\ Held' <=> Held
         /\ Held => rx'.age = rx.age + 1
         /\ recovery'.discarding <=> recovery.discarding
         /\ recovery.discarding => recovery'.age = recovery.age + 1
         /\ fault.new => AgedFault.age = fault.age + 1
         /\ calm' <= calm + 1 /\ calm' \in Nat
         /\ pc = "POLL" => sample' = sample + 1
<1>1. Types /\ Bounds /\ SlaveInv
  BY DEF Settled, SlaveInv
<1>2. (Held' <=> Held) /\ (Held => rx'.age = rx.age + 1)
  BY <1>1, TickDoes, Ageing DEF Held
<1>3. recovery'.discarding = recovery.discarding
  BY <1>1, TickDoes
<1>4. ASSUME recovery.discarding  PROVE recovery'.age = recovery.age + 1
  <2>1. recovery.age <= Longest + RxWait + lag /\ recovery.age \in Age
    BY <1>1, <1>4 DEF Settled, Doubt, Doubting, Types, Distrust
  <2>2. recovery.age + 1 < Clock
    BY <1>1, <2>1, Numbers, Bounding DEF Age
  <2>. QED  BY <1>1, <1>4, <2>1, <2>2, TickDoes, OlderAge
<1>5. ASSUME fault.new  PROVE AgedFault.age = fault.age + 1
  <2>1. fault.age <= Oldest + lag /\ fault.age \in Age
    BY <1>1, <1>5, HeadAges DEF Types
  <2>2. fault.age + 1 < Clock
    BY <1>1, <2>1, Numbers, Bounding DEF Age
  <2>. QED  BY <1>1, <1>5, <2>1, <2>2, AgedFacts, OlderAge
<1>6. calm' <= calm + 1 /\ calm' \in Nat
  <2>1. calm' = 0 \/ calm' = IF calm < Recovery THEN calm + 1 ELSE calm
    BY <1>1, TickCalm
  <2>2. calm \in Nat /\ Recovery \in Nat
    BY <1>1, AgeNumbers
  <2>. QED  BY <2>1, <2>2
<1>7. pc = "POLL" => sample' = sample + 1
  BY <1>1, TickDoes, Ageing
<1>. QED  BY <1>2, <1>3, <1>4, <1>5, <1>6, <1>7

LEMMA HeardFault ==
  ASSUME NEW e \in Event, Heard(e)
  PROVE  /\ e.age = 0 /\ ~pin /\ line'.age = 0
         /\ e.bad => fault'.new /\ fault'.age = 0
         /\ ~e.bad => fault' = AgedFault
  BY DEF Heard

LEMMA HeardBad ==
  ASSUME Settled, Tick, NEW e \in Event, Heard(e), e.bad
  PROVE  calm' = 0
<1>1. Types /\ Turns /\ SlaveInv
  BY DEF Settled, SlaveInv
<1>2. ~Unheard
  BY <1>1, TickQueue
<1>3. \A d \in Event : Heard(d) => d = e
  BY <1>1, TickQueue
<1>4. \/ \E bad \in BOOLEAN : Sends(bad)
      \/ calm' = 0
  BY <1>1, <1>2, TickMoves
<1>5. ASSUME NEW bad \in BOOLEAN, Sends(bad)  PROVE calm' = 0
  <2>1. bad = e.bad /\ HostByte(bad)
    BY <1>2, <1>3, <1>5 DEF Sends
  <2>. QED  BY <1>1, <2>1, HostSends
<1>. QED  BY <1>4, <1>5

LEMMA TickElder ==
  ASSUME Settled, Tick
  PROVE  Elder'
<1>1. Types /\ Bounds /\ SlaveInv
  BY DEF Settled, SlaveInv
<1>2. /\ Len(queue) \in Nat
      /\ \A i \in 1 .. Len(queue) :
           /\ queue'[i].byte = queue[i].byte /\ queue'[i].bad = queue[i].bad
           /\ queue'[i].age = queue[i].age + 1 /\ queue[i].age \in Nat
  BY <1>1, TickQueue
<1>3. /\ line.age \in Nat /\ calm \in Nat /\ recovery.age \in Nat /\ fault.age \in Nat
      /\ rx.age \in Nat /\ line'.age \in Nat /\ line'.age <= line.age + 1
      /\ calm' \in Nat /\ calm' <= calm + 1
  BY <1>1, AgeNumbers, TickLine, TickAgesOn
<1>4. /\ Held' => Held /\ rx'.age = rx.age + 1
      /\ recovery'.discarding => recovery.discarding /\ recovery'.age = recovery.age + 1
      /\ fault.new => AgedFault.age = fault.age + 1
      /\ AgedFault.new = fault.new
  BY <1>1, TickAgesOn, AgedFacts
<1>5. recovery'.discarding => recovery'.age >= line'.age
  BY <1>3, <1>4 DEF Settled, Elder
<1>8. /\ \A i \in 1 .. Len(queue) :
           /\ queue[i].age + 1 >= line'.age
           /\ queue[i].bad => queue[i].age + 1 >= calm'
      /\ Held' => /\ rx'.age >= line'.age /\ rx'.age \in Nat
                  /\ \A i \in 1 .. Len(queue) : rx'.age >= queue[i].age + 1
      /\ AgedFault.new =>
           /\ AgedFault.age >= line'.age /\ AgedFault.age >= calm'
           /\ \A i \in 1 .. Len(queue) : queue[i].bad => AgedFault.age <= queue[i].age + 1
  <2>1. ASSUME NEW i \in 1 .. Len(queue)
        PROVE  /\ queue[i].age + 1 >= line'.age
               /\ queue[i].bad => queue[i].age + 1 >= calm'
    <3>1. queue[i].age >= line.age /\ (queue[i].bad => queue[i].age >= calm)
      BY DEF Settled, Elder
    <3>. QED  BY <1>2, <1>3, <3>1
  <2>2. ASSUME Held'
        PROVE  /\ rx'.age >= line'.age /\ rx'.age \in Nat
               /\ \A i \in 1 .. Len(queue) : rx'.age >= queue[i].age + 1
    <3>1. /\ rx.age >= line.age /\ rx'.age = rx.age + 1
          /\ \A i \in 1 .. Len(queue) : rx.age >= queue[i].age
      BY <1>4, <2>2 DEF Settled, Elder
    <3>2. ASSUME NEW i \in 1 .. Len(queue)  PROVE rx'.age >= queue[i].age + 1
      <4>1. queue[i].age \in Nat /\ rx.age \in Nat /\ rx.age >= queue[i].age
        BY <1>2, <1>3, <3>1
      <4>. QED  BY <3>1, <4>1
    <3>3. rx'.age >= line'.age /\ rx'.age \in Nat
      BY <1>3, <3>1
    <3>. QED  BY <3>2, <3>3
  <2>3. ASSUME AgedFault.new
        PROVE  /\ AgedFault.age >= line'.age /\ AgedFault.age >= calm'
               /\ \A i \in 1 .. Len(queue) : queue[i].bad => AgedFault.age <= queue[i].age + 1
    <3>1. /\ AgedFault.age = fault.age + 1 /\ fault.age >= line.age /\ fault.age >= calm
          /\ \A i \in 1 .. Len(queue) : queue[i].bad => fault.age <= queue[i].age
      BY <1>4, <2>3 DEF Settled, Elder
    <3>. QED  BY <1>2, <1>3, <3>1, SMTT(60)
  <2>. QED  BY <2>1, <2>2, <2>3
<1>6. CASE Unheard
  <2>1. Len(queue') = Len(queue) /\ fault' = AgedFault
    BY <1>1, <1>6, TickQueue DEF Unheard
  <2>2. ASSUME NEW i \in 1 .. Len(queue'), NEW j \in 1 .. Len(queue'), i <= j
        PROVE  queue'[i].age >= queue'[j].age
    <3>1. queue[i].age >= queue[j].age
      BY <2>1, <2>2 DEF Settled, Elder
    <3>2. /\ queue'[i].age = queue[i].age + 1 /\ queue[i].age \in Nat
          /\ queue'[j].age = queue[j].age + 1 /\ queue[j].age \in Nat
      BY <1>2, <2>1
    <3>. QED  BY <3>1, <3>2
  <2>3. \A i \in 1 .. Len(queue') : /\ queue'[i].age >= line'.age
                                    /\ queue'[i].bad => queue'[i].age >= calm'
    BY <1>2, <1>8, <2>1
  <2>4. Held' => /\ rx'.age >= line'.age
                 /\ \A i \in 1 .. Len(queue') : rx'.age >= queue'[i].age
    BY <1>2, <1>8, <2>1
  <2>5. fault'.new =>
          /\ fault'.age >= line'.age /\ fault'.age >= calm'
          /\ \A i \in 1 .. Len(queue') : queue'[i].bad => fault'.age <= queue'[i].age
    BY <1>2, <1>8, <2>1
  <2>. QED  BY <1>5, <2>2, <2>3, <2>4, <2>5 DEF Elder
<1>7. ASSUME NEW e \in Event, Heard(e)  PROVE Elder'
  <2>1. /\ Len(queue') = Len(queue) + 1 /\ queue'[Len(queue) + 1] = e /\ e.age = 0
        /\ line'.age = 0
        /\ e.bad => fault'.new /\ fault'.age = 0
        /\ ~e.bad => fault' = AgedFault
    BY <1>1, <1>7, TickQueue, HeardFault
  <2>2. e.bad => calm' = 0
    BY <1>7, HeardBad
  <2>3. \A i, j \in 1 .. Len(queue') : i <= j => queue'[i].age >= queue'[j].age
    <3>1. \A i \in 1 .. Len(queue') : queue'[i].age >= 0
      BY <1>2, <2>1
    <3>. QED  BY <1>2, <2>1, <3>1 DEF Settled, Elder
  <2>4. \A i \in 1 .. Len(queue') : /\ queue'[i].age >= line'.age
                                    /\ queue'[i].bad => queue'[i].age >= calm'
    BY <1>2, <1>8, <2>1, <2>2
  <2>5. Held' => /\ rx'.age >= line'.age
                 /\ \A i \in 1 .. Len(queue') : rx'.age >= queue'[i].age
    BY <1>2, <1>8, <2>1
  <2>6. fault'.new =>
          /\ fault'.age >= line'.age /\ fault'.age >= calm'
          /\ \A i \in 1 .. Len(queue') : queue'[i].bad => fault'.age <= queue'[i].age
    <3>1. CASE e.bad
      <4>1. \A i \in 1 .. Len(queue') : queue'[i].age \in Nat
        BY <1>2, <2>1
      <4>. QED  BY <2>1, <2>2, <3>1, <4>1
    <3>2. CASE ~e.bad
      BY <1>2, <1>8, <2>1, <3>2, SMTT(60)
    <3>. QED  BY <3>1, <3>2
  <2>. QED  BY <1>5, <2>3, <2>4, <2>5, <2>6 DEF Elder
<1>. QED  BY <1>1, <1>6, <1>7, WorldDoes

LEMMA TickDoubt ==
  ASSUME Settled, Tick
  PROVE  Doubt'
<1>. SUFFICES ASSUME recovery'.discarding  PROVE Doubting'
  BY DEF Doubt
<1>1. Types /\ Bounds /\ SlaveInv /\ recovery.discarding /\ Doubting
  BY TickAgesOn DEF Settled, SlaveInv, Doubt
<1>2. recovery'.age = recovery.age + 1 /\ recovery.age \in Nat /\ pc' = pc
  BY <1>1, TickAgesOn, AgeNumbers, TickDoes
<1>3. /\ recovery.age <= Longest + RxWait + lag
      /\ pc = "DRAIN" \/ (pc = "SERVICE" /\ queue = <<>>) => recovery.age <= Oldest + lag
      /\ pc = "RECEIVE" => /\ waited <= recovery.age
                           /\ queue = <<>> /\ waited < RxWait => recovery.age <= Longest + waited
      /\ pc = "POLL" => recovery.age >= sample + RxWait
      /\ pc \notin {"SEND", "SENDING"}
      /\ ~fault.new /\ (\E i \in 1 .. Len(queue) : queue[i].bad) => recovery.age <= Oldest + lag
  BY <1>1 DEF Doubting
<1>4. \/ lag' = lag + 1
      \/ lag' = 0 /\ pc = "RECEIVE" /\ queue = <<>> /\ waited < RxWait
  BY <1>1, <1>3, Lagging
<1>5. recovery'.age <= Longest + RxWait + lag'
  <2>1. \A a \in Nat :
          /\ a <= Longest + RxWait + lag => a + 1 <= Longest + RxWait + (lag + 1)
          /\ a <= Longest + waited /\ waited < RxWait => a + 1 <= Longest + RxWait + 0
    BY <1>1, Numbers, Bounding
  <2>. QED  BY <1>2, <1>3, <1>4, <2>1
<1>6. /\ queue' = <<>> => queue = <<>>
      /\ ~fault'.new /\ (\E i \in 1 .. Len(queue') : queue'[i].bad) =>
           ~fault.new /\ (\E i \in 1 .. Len(queue) : queue[i].bad)
  <2>1. /\ Len(queue) \in Nat /\ (queue = <<>> <=> Len(queue) = 0)
        /\ (queue' = <<>> <=> Len(queue') = 0)
        /\ \A i \in 1 .. Len(queue) : queue'[i].bad = queue[i].bad
        /\ AgedFault.new = fault.new
        /\ (Len(queue') = Len(queue) \/ Len(queue') = Len(queue) + 1)
    BY <1>1, TickQueue, AgedFacts
  <2>2. CASE Unheard
    <3>1. Len(queue') = Len(queue) /\ fault' = AgedFault
      BY <1>1, <2>2, TickQueue DEF Unheard
    <3>. QED  BY <2>1, <3>1
  <2>3. ASSUME NEW e \in Event, Heard(e)
        PROVE  /\ queue' = <<>> => queue = <<>>
               /\ ~fault'.new /\ (\E i \in 1 .. Len(queue') : queue'[i].bad) =>
                    ~fault.new /\ (\E i \in 1 .. Len(queue) : queue[i].bad)
    <3>1. /\ Len(queue') = Len(queue) + 1 /\ queue'[Len(queue) + 1] = e
          /\ (e.bad => fault'.new) /\ (~e.bad => fault' = AgedFault)
      BY <1>1, <2>3, TickQueue, HeardFault
    <3>. QED  BY <2>1, <3>1
  <2>. QED  BY <1>1, <2>2, <2>3, WorldDoes
<1>7. \A a \in Nat : a <= Oldest + lag => a + 1 <= Oldest + (lag + 1)
  BY <1>1, Numbers, Bounding
<1>8. pc' = "DRAIN" \/ (pc' = "SERVICE" /\ queue' = <<>>) => recovery'.age <= Oldest + lag'
  BY <1>2, <1>3, <1>4, <1>6, <1>7
<1>9. ~fault'.new /\ (\E i \in 1 .. Len(queue') : queue'[i].bad) => recovery'.age <= Oldest + lag'
  <2>1. queue = <<>> => Len(queue) = 0
    BY <1>1, QueueFacts
  <2>. QED  BY <1>2, <1>3, <1>4, <1>6, <1>7, <2>1
<1>10. pc' = "RECEIVE" => waited' <= recovery'.age
  BY <1>1, <1>2, <1>3, TickDoes, Numbers
<1>11. pc' = "RECEIVE" /\ queue' = <<>> /\ waited' < RxWait => recovery'.age <= Longest + waited'
  <2>1. /\ waited + 1 < RxWait => waited < RxWait
        /\ \A a \in Nat : a <= Longest + waited => a + 1 <= Longest + (waited + 1)
    BY <1>1, Numbers, Bounding
  <2>2. waited' = (IF pc = "RECEIVE" /\ waited < RxWait THEN waited + 1 ELSE waited)
    BY <1>1, TickDoes
  <2>. QED  BY <1>2, <1>3, <1>6, <2>1, <2>2
<1>12. pc' = "POLL" => recovery'.age >= sample' + RxWait
  <2>1. \A a \in Nat : a >= sample + RxWait => a + 1 >= (sample + 1) + RxWait
    BY <1>1, Numbers, Bounding
  <2>. QED  BY <1>1, <1>2, <1>3, <2>1, TickAgesOn
<1>. QED  BY <1>2, <1>3, <1>5, <1>8, <1>9, <1>10, <1>11, <1>12 DEF Doubting

LEMMA NextSettled == Settled /\ [Next]_vars => Settled'
<1>. SUFFICES ASSUME Settled, [Next]_vars  PROVE Settled'
  OBVIOUS
<1>1. SlaveInv /\ SlaveInv'
  BY NextTrail DEF Settled
<1>2. CASE UNCHANGED vars
  <2>1. UNCHANGED <<queue, fault, rx, recovery, pc, waited, sample, lag, host, line, calm>>
    BY <1>2 DEF vars
  <2>. QED  BY <1>1, <2>1 DEF Settled, Turns, InFrame, Held, Elder, Doubt, Doubting
<1>3. CASE Next
  <2>1. Turns'
    BY <1>1, <1>3, TaskTurns, AnswerTurns, TickTurns DEF Next, Settled
  <2>2. Elder' /\ Doubt'
    BY <1>3, ServiceFaultElder, TakeEventElder, DrainedElder, PollSlaveElder, AnswerElder,
       TickElder, TickDoubt DEF Next
  <2>. QED  BY <1>1, <2>1, <2>2 DEF Settled
<1>. QED  BY <1>2, <1>3

(* ---------------- the answer on its way, and bytes behind it ----------- *)

(* An answer takes a character time per character, and one more when the   *)
(* last one of an aborted answer is still leaving, unless it was stuck on  *)
(* its way. What leaves after the driver is off is of an aborted answer.   *)
Flowing ==
  /\ Busy(tx) =>
       /\ pipe > 0 /\ pipe <= tx.next + 1
       /\ tx.age <= tx.next - pipe + 1 \/ calm <= tx.next - pipe + 1
       /\ tx.age <= tx.next - pipe \/ calm <= tx.next - pipe + AnswerLength + 3
  /\ pipe > 0 /\ ~Busy(tx) => calm + pipe <= AnswerLength + 2

(* What comes in between the sample of a poll and the end of the answer    *)
(* is less than the lag, and begins with the first byte of its frame.      *)
Behind ==
  /\ pc \in {"POLL", "SEND"} => Len(queue) <= lag /\ (InFrame => host.sent <= Len(queue))
  /\ Busy(tx) => Len(queue) <= MaxLag
  /\ pc \in {"POLL", "SEND"} \/ Busy(tx) => \A i \in 1 .. Len(queue) : queue[i].byte.part <= i

LEMMA InitFlowing == Init => Flowing /\ Behind
<1>. SUFFICES ASSUME Init  PROVE Flowing /\ Behind
  OBVIOUS
<1>1. tx = IdleTx /\ pipe = 0 /\ pc = "SERVICE"
  BY Zenon DEF Init
<1>2. ~Busy(tx)
  BY <1>1, IdleProgress
<1>. QED  BY <1>1, <1>2 DEF Flowing, Behind

LEMMA FlowNumbers ==
  ASSUME Types
  PROVE  /\ pipe \in Nat /\ pipe <= 2 /\ tx.next \in Nat /\ tx.next <= AnswerLength
         /\ tx.age \in Nat /\ calm \in Nat /\ AnswerLength \in Nat /\ AnswerLength > 3
         /\ Budget \in Nat /\ Budget > AnswerLength /\ Recovery \in Nat
<1>1. tx.next \in 0 .. AnswerLength
  BY DEF Types, Progress, Answer
<1>2. pipe \in 0 .. 2
  BY DEF Types
<1>3. T35 \in Nat /\ T35 > 2 /\ T35 < AnswerLength
  BY Constants, PaceNumbers
<1>. QED  BY <1>1, <1>2, <1>3, Constants, AgeNumbers, Numbers

(* A character time of the transmitter                                     *)
LEMMA TickFlow ==
  ASSUME Types, Bounds, Tick
  PROVE  /\ tx'.frame = tx.frame /\ pipe' \in Nat /\ Shifted \in Nat /\ tx'.next \in Nat
         /\ Busy(tx') => /\ Busy(tx) /\ tx'.age = tx.age + 1 /\ pipe' > 0
                         /\ \/ tx'.next = tx.next /\ pipe' = Shifted
                            \/ tx'.next = tx.next + 1 /\ pipe' = Shifted + 1
         /\ ~Busy(tx') => IF Busy(tx) THEN pipe' = 0 /\ Shifted = 0 /\ tx'.state = "COMPLETE"
                          ELSE pipe' = Shifted /\ tx'.state = tx.state
<1> DEFINE t == Aging(tx)
<1>1. /\ Progress(t) /\ t.state = tx.state /\ t.next = tx.next /\ t.frame = tx.frame
      /\ Shifted \in 0 .. 2
  BY AgingDoes
<1>2. Busy(t) <=> Busy(tx)
  BY <1>1 DEF Busy
<1>3. Transmitter(t, Shifted, pin) /\ pin \in BOOLEAN /\ (pin <=> Busy(t))
  BY <1>2, TickDoes DEF Types
<1>. HIDE DEF t
<1>4. /\ Progress(tx') /\ pipe' \in 0 .. 2 /\ tx'.frame = t.frame
      /\ \/ tx' = t /\ pipe' = Shifted /\ (Busy(t) => Shifted > 0)
         \/ /\ Busy(t) /\ Busy(tx') /\ tx'.age = t.age
            /\ tx'.next = t.next + 1 /\ pipe' = Shifted + 1
         \/ t.state = "WAIT_TC" /\ Shifted = 0 /\ pipe' = 0 /\ tx'.state = "COMPLETE" /\ ~Busy(tx')
  BY <1>1, <1>3, TransmitterDoes
<1>5. Busy(tx') => Busy(tx) /\ tx'.age = tx.age + 1
  BY TickDrives
<1>6. tx'.next \in Nat
  <2>1. tx'.next \in 0 .. AnswerLength
    BY <1>4 DEF Progress, Answer
  <2>. QED  BY <2>1, Constants
<1>7. t.state = "WAIT_TC" => Busy(t)
  BY DEF Busy
<1>. QED  BY <1>1, <1>2, <1>4, <1>5, <1>6, <1>7

LEMMA TaskFlows ==
  ASSUME SlaveInv, Flowing, ServiceFault \/ TakeEvent \/ Drained \/ TimeOut \/ PollSlave
  PROVE  Flowing'
<1>1. CASE ServiceFault \/ TakeEvent \/ Drained \/ TimeOut
  <2>1. UNCHANGED <<tx, pipe, calm>>
    BY <1>1 DEF ServiceFault, TakeEvent, Drained, TimeOut
  <2>. QED  BY <2>1 DEF Flowing, Busy
<1>2. CASE PollSlave
  <2>1. UNCHANGED <<pipe, calm>> /\ ~Busy(tx)
    BY <1>2 DEF PollSlave, SlaveInv, Types, Busy
  <2>2. ~Busy(tx')
    <3>1. CASE fault.new \/ ~Accepts(sample)
      BY <1>2, <2>1, <3>1 DEF PollSlave
    <3>2. CASE ~fault.new /\ Accepts(sample)
      BY <1>2, <2>1, <3>2, PollFinishes DEF SlaveInv, Busy
    <3>. QED  BY <3>1, <3>2
  <2>. QED  BY <2>1, <2>2 DEF Flowing
<1>. QED  BY <1>1, <1>2

LEMMA AnswerFlows ==
  ASSUME SlaveInv, Flowing, Start \/ Refuse \/ RefuseError \/ Complete \/ Abort
  PROVE  Flowing'
<1>1. Types
  BY DEF SlaveInv
<1>2. CASE Start
  <2>1. /\ Busy(tx') /\ tx'.age = 0 /\ tx'.next + pipe = pipe' /\ tx'.next > 0
        /\ UNCHANGED calm /\ pipe < 2 /\ ~pin
    BY <1>1, <1>2, StartDoes DEF Start
  <2>2. ~Busy(tx)
    BY <1>1, <2>1 DEF Types
  <2>3. tx'.next \in Nat
    <3>1. Progress(tx')
      BY <1>1, <1>2, AnswerStepTypes DEF Types
    <3>2. tx'.next \in 0 .. AnswerLength
      BY <3>1 DEF Progress, Answer
    <3>. QED  BY <3>2, Constants
  <2>4. pipe > 0 => calm + pipe <= AnswerLength + 2
    BY <2>2 DEF Flowing
  <2>. QED  BY <1>1, <2>1, <2>3, <2>4, FlowNumbers DEF Flowing
<1>3. CASE Refuse \/ RefuseError
  <2>1. UNCHANGED pipe /\ tx' = [tx EXCEPT !.frame = None] /\ (UNCHANGED calm \/ calm' = 0)
        /\ pc = "SEND"
    BY <1>3 DEF Refuse, RefuseError, Fault
  <2>2. ~Busy(tx) /\ tx'.state = tx.state
    BY <1>1, <2>1, AnswerWith DEF Types, Busy
  <2>3. ~Busy(tx')
    BY <2>2 DEF Busy
  <2>. QED  BY <1>1, <2>1, <2>2, <2>3, FlowNumbers DEF Flowing
<1>4. CASE Complete
  <2>1. UNCHANGED <<pipe, calm>> /\ tx' = IdleTx /\ ~Busy(tx)
    BY <1>4 DEF Complete, Busy
  <2>. QED  BY <2>1, IdleProgress DEF Flowing
<1>5. CASE Abort
  <2>1. UNCHANGED <<pipe, calm>> /\ tx' = IdleTx /\ Busy(tx) /\ tx.age >= Budget
    BY <1>5 DEF Abort, Busy
  <2>2. tx.age <= tx.next - pipe + 1 \/ calm <= tx.next - pipe + 1
    BY <2>1 DEF Flowing
  <2>3. calm + pipe <= AnswerLength + 2
    BY <1>1, <2>1, <2>2, FlowNumbers DEF Flowing
  <2>. QED  BY <2>1, <2>3, IdleProgress DEF Flowing
<1>. QED  BY <1>2, <1>3, <1>4, <1>5

LEMMA TickFlowing ==
  ASSUME SlaveInv, Flowing, Tick
  PROVE  Flowing'
<1>1. Types /\ Bounds
  BY DEF SlaveInv
<1>2. Shifted = (IF stuck \/ pipe = 0 THEN pipe ELSE pipe - 1)
  BY DEF Shifted
<1>3. calm' = 0 \/ (~stuck /\ calm' <= calm + 1 /\ calm' \in Nat)
  <2>1. calm' = 0 \/ (~stuck /\ calm' = IF calm < Recovery THEN calm + 1 ELSE calm)
    BY <1>1, TickCalm
  <2>. QED  BY <1>1, <2>1, FlowNumbers
<1>4. CASE Busy(tx')
  <2>1. /\ Busy(tx) /\ tx'.age = tx.age + 1 /\ pipe' > 0 /\ pipe' \in Nat /\ tx'.next \in Nat
        /\ \/ tx'.next = tx.next /\ pipe' = Shifted
           \/ tx'.next = tx.next + 1 /\ pipe' = Shifted + 1
    BY <1>1, <1>4, TickFlow
  <2>2. /\ pipe > 0 /\ pipe <= tx.next + 1
        /\ tx.age <= tx.next - pipe + 1 \/ calm <= tx.next - pipe + 1
        /\ tx.age <= tx.next - pipe \/ calm <= tx.next - pipe + AnswerLength + 3
    BY <2>1 DEF Flowing
  <2>3. pipe' <= tx'.next + 1 /\ tx'.next - pipe' = tx.next - Shifted
    BY <1>1, <1>2, <2>1, <2>2, FlowNumbers
  <2>4. CASE calm' = 0
    BY <1>1, <1>4, <2>1, <2>3, <2>4, FlowNumbers DEF Flowing
  <2>5. CASE ~stuck /\ calm' <= calm + 1 /\ calm' \in Nat
    <3>1. Shifted = pipe - 1
      BY <1>1, <1>2, <2>2, <2>5, FlowNumbers
    <3>. QED  BY <1>1, <1>4, <2>1, <2>2, <2>3, <2>5, <3>1, FlowNumbers DEF Flowing
  <2>. QED  BY <1>3, <2>4, <2>5
<1>5. CASE ~Busy(tx')
  <2>. SUFFICES ASSUME pipe' > 0  PROVE calm' + pipe' <= AnswerLength + 2
    BY <1>5 DEF Flowing
  <2>1. pipe' = Shifted /\ ~Busy(tx) /\ pipe > 0
    BY <1>1, <1>2, <1>5, TickFlow, FlowNumbers
  <2>2. calm + pipe <= AnswerLength + 2
    BY <2>1 DEF Flowing
  <2>3. calm' = 0 \/ Shifted = pipe - 1
    BY <1>1, <1>2, <1>3, <2>1, FlowNumbers
  <2>4. Shifted <= pipe /\ Shifted \in Nat
    BY <1>1, <1>2, FlowNumbers
  <2>5. calm' = 0 \/ (calm' \in Nat /\ calm' <= calm + 1 /\ Shifted = pipe - 1)
    BY <1>3, <2>3
  <2>. QED  BY <1>1, <2>1, <2>2, <2>4, <2>5, FlowNumbers
<1>. QED  BY <1>4, <1>5

LEMMA NextFlowing ==
  ASSUME SlaveInv, Flowing, [Next]_vars
  PROVE  Flowing'
<1>1. CASE UNCHANGED vars
  BY <1>1 DEF vars, Flowing, Busy
<1>. QED  BY <1>1, TaskFlows, AnswerFlows, TickFlowing DEF Next

(* --------------------------- bytes behind ------------------------------ *)

LEMMA StepBehind ==
  ASSUME Settled, Behind, ServiceFault \/ TakeEvent \/ Drained \/ TimeOut \/ PollSlave
  PROVE  Behind'
<1>1. Types /\ Bounds /\ SlaveInv
  BY DEF Settled, SlaveInv
<1>2. CASE ServiceFault \/ TakeEvent \/ Drained
  <2>1. pc' \notin {"POLL", "SEND", "SENDING"}
    BY <1>2 DEF ServiceFault, TakeEvent, Drained, Wait
  <2>2. ~Busy(tx')
    BY <1>1, <1>2, <2>1, SlaveStepTypes DEF Types, Busy
  <2>. QED  BY <2>1, <2>2 DEF Behind
<1>3. CASE TimeOut
  <2>1. /\ pc = "RECEIVE" /\ waited >= RxWait /\ UNCHANGED <<queue, tx, host>>
        /\ pc' = (IF queue = <<>> THEN "POLL" ELSE "SERVICE")
    BY <1>3 DEF TimeOut
  <2>2. ~Busy(tx')
    BY <1>1, <2>1 DEF Types, Busy
  <2>3. queue = <<>> => ~InFrame /\ Len(queue) = 0
    <3>1. queue = <<>> => line.age >= waited
      BY <2>1 DEF Settled, Turns
    <3>2. InFrame => line.age <= 1
      BY DEF Settled, Turns
    <3>. QED  BY <1>1, <2>1, <3>1, <3>2, PaceNumbers, QueueFacts, SMTT(60)
  <2>4. UNCHANGED lag /\ lag \in Nat
    BY <1>1, <1>3, Numbers DEF TimeOut
  <2>5. pc' \in {"POLL", "SEND"} => queue' = <<>> /\ Len(queue') = 0 /\ ~InFrame'
    BY <2>1, <2>3 DEF InFrame
  <2>6. pc' \in {"POLL", "SEND"} => Len(queue') <= lag' /\ \A i \in 1 .. Len(queue') : FALSE
    BY <2>4, <2>5
  <2>. QED  BY <2>2, <2>5, <2>6 DEF Behind
<1>4. CASE PollSlave
  <2>1. UNCHANGED <<queue, host, lag>> /\ pc = "POLL" /\ ~Busy(tx)
    BY <1>1, <1>4 DEF PollSlave, Types, Busy
  <2>2. ~Busy(tx')
    <3>1. Types'
      BY <1>1, <1>4, AnswerStepTypes
    <3>2. pc' # "SENDING"
      BY <1>4, Zenon DEF PollSlave, Wait
    <3>. QED  BY <3>1, <3>2 DEF Types, Busy
  <2>. QED  BY <2>1, <2>2 DEF Behind, InFrame
<1>. QED  BY <1>2, <1>3, <1>4

LEMMA AnswerBehind ==
  ASSUME Settled, Behind, Start \/ Refuse \/ RefuseError \/ Complete \/ Abort
  PROVE  Behind'
<1>1. Types /\ SlaveInv
  BY DEF Settled, SlaveInv
<1>2. CASE Start
  <2>1. pc = "SEND" /\ pc' = "SENDING" /\ UNCHANGED <<queue, lag>>
    BY <1>1, <1>2, StartDoes
  <2>2. lag \in Nat /\ lag <= MaxLag /\ MaxLag \in Nat /\ Len(queue) \in Nat
    BY <1>1, PaceNumbers, QueueFacts
  <2>. QED  BY <2>1, <2>2 DEF Behind
<1>3. CASE Refuse \/ RefuseError \/ Complete \/ Abort
  <2>1. pc' = "SERVICE"
    BY <1>3 DEF Refuse, RefuseError, Complete, Abort, Wait
  <2>2. Types'
    BY <1>1, <1>3, AnswerStepTypes, RefuseErrorTypes
  <2>3. ~Busy(tx')
    BY <2>1, <2>2 DEF Types, Busy
  <2>. QED  BY <2>1, <2>3 DEF Behind
<1>. QED  BY <1>2, <1>3

LEMMA TickBehind ==
  ASSUME Settled, Behind, Tick
  PROVE  Behind'
<1>1. Types /\ Bounds /\ SlaveInv /\ Turns /\ Types'
  BY TickTypes DEF Settled, SlaveInv
<1>2. /\ Len(queue) \in Nat /\ pc' = pc
      /\ \A i \in 1 .. Len(queue) : queue'[i].byte = queue[i].byte
      /\ (Len(queue') = Len(queue) \/ Len(queue') = Len(queue) + 1)
      /\ (Unheard => Len(queue') = Len(queue))
  BY <1>1, TickQueue, TickDoes
<1>3. pc \in {"POLL", "SEND"} => ~pin /\ ~Busy(tx)
  BY <1>1 DEF Types, Busy
<1>4. pc \in {"POLL", "SEND"} => lag' = lag + 1
  BY <1>1, Lagging
<1>5. pin => Unheard
  <2>1. \A e \in Event : Heard(e) => ~pin
    BY HeardFault
  <2>. QED  BY <1>1, <2>1, WorldDoes
<1>6. CASE Busy(tx')
  <2>1. Busy(tx) /\ pin /\ Unheard
    BY <1>1, <1>5, <1>6, TickFlow DEF Types
  <2>2. pc \notin {"POLL", "SEND"}
    BY <1>3, <2>1
  <2>. QED  BY <1>2, <2>1, <2>2 DEF Behind
<1>7. CASE ~Busy(tx') /\ pc \in {"POLL", "SEND"}
  <2>1. /\ lag' = lag + 1 /\ Len(queue) <= lag /\ (InFrame => host.sent <= Len(queue))
        /\ \A i \in 1 .. Len(queue) : queue[i].byte.part <= i
        /\ ~pin /\ lag \in Nat
    BY <1>1, <1>3, <1>4, <1>7, Numbers DEF Behind
  <2>2. Len(queue') <= lag'
    BY <1>2, <2>1
  <2>3. host.sent \in Nat /\ host'.sent \in Nat /\ FrameLength \in Nat /\ FrameLength > 0
    BY <1>1, Constants DEF Types, Master
  <2>4. CASE Rests /\ Unheard
    <3>1. InFrame' => host'.sent <= Len(queue')
      <4>1. host'.sent = host.sent \/ host'.sent = FrameLength
        BY <2>4 DEF Rests
      <4>. QED  BY <1>2, <2>1, <2>3, <2>4, <4>1 DEF InFrame
    <3>. QED  BY <1>2, <1>7, <2>1, <2>2, <2>4, <3>1 DEF Behind
  <2>5. ASSUME NEW bad \in BOOLEAN, Sends(bad)  PROVE Behind'
    <3>1. PICK e \in Event : Heard(e) /\ e.byte.part = host'.sent
      BY <2>1, <2>5 DEF Sends
    <3>2. Len(queue') = Len(queue) + 1 /\ queue'[Len(queue) + 1] = e
      BY <1>1, <3>1, TickQueue
    <3>3. host'.sent = (IF InFrame THEN host.sent + 1 ELSE 1)
      BY <1>1, <2>5, HostSends DEF Sends
    <3>4. host'.sent <= Len(queue')
      BY <1>2, <2>1, <2>3, <3>2, <3>3
    <3>5. \A i \in 1 .. Len(queue') : queue'[i].byte.part <= i
      BY <1>2, <2>1, <2>3, <3>1, <3>2, <3>4
    <3>. QED  BY <1>7, <2>2, <3>4, <3>5 DEF Behind
  <2>6. ASSUME Rests, NEW e \in Event, Heard(e), e.byte.part = 0  PROVE Behind'
    <3>1. Len(queue') = Len(queue) + 1 /\ queue'[Len(queue) + 1] = e
      BY <1>1, <2>6, TickQueue
    <3>2. InFrame' => host'.sent <= Len(queue')
      <4>1. host'.sent = host.sent \/ host'.sent = FrameLength
        BY <2>6 DEF Rests
      <4>. QED  BY <1>2, <2>1, <2>3, <3>1, <4>1 DEF InFrame
    <3>3. \A i \in 1 .. Len(queue') : queue'[i].byte.part <= i
      BY <1>2, <2>1, <2>6, <3>1
    <3>. QED  BY <1>7, <2>2, <3>2, <3>3 DEF Behind
  <2>. QED  BY <1>1, <2>4, <2>5, <2>6, TickMoves
<1>8. CASE ~Busy(tx') /\ pc \notin {"POLL", "SEND"}
  BY <1>2, <1>8 DEF Behind
<1>. QED  BY <1>6, <1>7, <1>8

LEMMA NextBehind ==
  ASSUME Settled, Behind, [Next]_vars
  PROVE  Behind'
<1>1. CASE UNCHANGED vars
  BY <1>1 DEF vars, Behind, Busy, InFrame
<1>. QED  BY <1>1, StepBehind, AnswerBehind, TickBehind DEF Next

(* ------------------------- what a fault reaches ------------------------ *)

LastByte == rx.active[Len(rx.active)]

(* The byte that was taken last is the last one of what is held.           *)
LEMMA TakenLast ==
  ASSUME SlaveInv, TakeEvent, Held', ~rx'.over
  PROVE  LastByte' = queue[1].byte /\ rx'.age = queue[1].age
<1>1. CASE Accepted(queue[1]) /\ recovery'.blind = recovery.blind
  <2>1. Seen' = [byte |-> queue[1].byte, bad |-> FALSE, age |-> queue[1].age]
    BY <1>1, AcceptedFrames
  <2>2. Seen'.byte = queue[1].byte /\ Seen'.age = queue[1].age
    BY <2>1
  <2>. QED  BY <2>2 DEF Seen, LastByte
<1>2. CASE rx'.active = <<>>
  BY <1>2 DEF Held
<1>. QED  BY <1>1, <1>2, TakenBranches

(* A byte of this age comes so soon after the last fault that the fault    *)
(* may have hit the frame it is of: in a frame a byte follows the one      *)
(* before it in two characters.                                            *)
Late(b, a) == calm <= a + 2 * b.part
LateThen(b, a) == calm' <= a + 2 * b.part

(* A byte that comes without a silence after another one is the next one   *)
(* of the same frame, or late. tainted: the one before it is late, or in a *)
(* frame that is too long.                                                 *)
Follows(x, y) == y.frame = x.frame /\ y.part = x.part + 1
Continues(x, ax, tainted, y, ay) ==
  ax - ay < T35 => Late(y, ay) \/ (~tainted /\ Follows(x, y))
Leads(x, ax, tainted) ==
  ~pin /\ InFrame /\ ax + 1 < T35 =>
    calm <= line.age + 2 * host.sent \/ (~tainted /\ x.frame = host.frame /\ x.part = host.sent)

LateAt(i) == Late(queue[i].byte, queue[i].age)
Tainted == rx.over \/ Late(LastByte, rx.age)

(* From the unfinished frame over the queue to the line                    *)
Begun == \A i \in 1 .. Len(queue) : queue[i].byte.part >= 1 \/ LateAt(i)
Continued ==
  \A i \in 1 .. Len(queue) - 1 :
    Continues(queue[i].byte, queue[i].age, LateAt(i), queue[i + 1].byte, queue[i + 1].age)
Full == rx.over => Held
Measured ==
  Held => IF rx.over THEN calm <= rx.age + 2 * FrameLength
          ELSE Len(rx.active) <= LastByte.part \/ Late(LastByte, rx.age)
Resumed ==
  Held /\ queue # <<>> => Continues(LastByte, rx.age, Tainted, queue[1].byte, queue[1].age)
Led ==
  IF queue # <<>>
  THEN Leads(queue[Len(queue)].byte, queue[Len(queue)].age, LateAt(Len(queue)))
  ELSE Held => Leads(LastByte, rx.age, Tainted)

Runs == Full /\ Begun /\ Continued /\ Measured /\ Resumed /\ Led

LEMMA InitRuns == Init => Runs
<1>. SUFFICES ASSUME Init  PROVE Runs
  OBVIOUS
<1>1. queue = <<>> /\ Len(queue) = 0 /\ rx.active = <<>>
  BY Zenon, NoRxFits DEF Init
<1>2. ~Held /\ ~rx.over
  BY <1>1, NoRxFits DEF Held, Init
<1>. QED  BY <1>1, <1>2 DEF Runs, Full, Begun, Continued, Measured, Resumed, Led

LEMMA RunBytes ==
  ASSUME Types
  PROVE  /\ \A i \in 1 .. Len(queue) : /\ queue[i].byte.part \in Nat
                                       /\ queue[i].byte.part <= FrameLength
                                       /\ queue[i].age \in Nat
         /\ Held => /\ LastByte.part \in Nat /\ LastByte.part <= FrameLength
                    /\ Len(rx.active) \in Nat /\ Len(rx.active) > 0
         /\ rx.age \in Nat /\ calm \in Nat /\ FrameLength \in Nat /\ T35 \in Nat /\ line.age \in Nat
         /\ host.sent \in Nat /\ host.sent <= FrameLength /\ MaxAdu \in Nat /\ FrameLength <= MaxAdu
<1>1. ASSUME NEW i \in 1 .. Len(queue)
      PROVE  queue[i].byte.part \in 0 .. FrameLength
  BY QueueFacts DEF Event, Byte
<1>2. ASSUME Held
      PROVE  LastByte.part \in 0 .. FrameLength /\ Len(rx.active) \in Nat /\ Len(rx.active) > 0
  <2>1. rx.active \in Seq(Byte) /\ rx.active # <<>>
    BY <1>2 DEF Types, Fits, Receiver, Held
  <2>2. Len(rx.active) \in Nat /\ Len(rx.active) > 0 /\ LastByte \in Byte
    BY <2>1 DEF LastByte
  <2>. QED  BY <2>2 DEF Byte
<1>3. ASSUME NEW i \in 1 .. Len(queue)
      PROVE  /\ queue[i].byte.part \in Nat /\ queue[i].byte.part <= FrameLength
             /\ queue[i].age \in Nat
  <2>1. queue[i].age \in Nat
    BY AgeNumbers
  <2>. QED  BY <1>1, <2>1, Constants
<1>4. ASSUME Held
      PROVE  /\ LastByte.part \in Nat /\ LastByte.part <= FrameLength
             /\ Len(rx.active) \in Nat /\ Len(rx.active) > 0
  BY <1>2, <1>4, Constants
<1>5. rx.age \in Nat /\ calm \in Nat /\ line.age \in Nat
  BY AgeNumbers
<1>6. /\ host.sent \in Nat /\ host.sent <= FrameLength /\ FrameLength \in Nat
      /\ T35 \in Nat /\ MaxAdu \in Nat /\ FrameLength <= MaxAdu
  BY PaceNumbers, Constants
<1>. QED  BY <1>3, <1>4, <1>5, <1>6, Zenon

LEMMA RecoveryNumbers ==
  /\ Recovery \in Nat /\ FrameLength \in Nat /\ Longest \in Nat /\ RxWait \in Nat /\ MaxLag \in Nat
  /\ AnswerLength \in Nat /\ AnswerLength > 3
  /\ Recovery > 2 * FrameLength + Longest + RxWait + MaxLag + AnswerLength
<1>1. Recovery > 2 * FrameLength + RxWait + 3 * MaxLag + Budget + AnswerLength
  BY RecoveryAssumption
<1>2. T35 > 2
  BY HostAssumption
<1>. QED  BY <1>1, <1>2, Constants, Bounding

(* ------------------------ a byte is taken ------------------------------ *)

(* What the receiver does with the head of the queue when it takes it      *)
LEMMA TakenPush ==
  ASSUME Settled, Full, TakeEvent, Accepted(queue[1])
  PROVE  LET y == queue[1].byte
             soon == Held /\ rx.age - queue[1].age < T35
         IN  /\ rx'.age = queue[1].age
             /\ rx'.over <=> soon /\ (rx.over \/ Len(rx.active) >= MaxAdu)
             /\ rx'.over => rx'.active = rx.active
             /\ ~rx'.over => rx'.active = IF soon THEN Append(rx.active, y) ELSE <<y>>
             /\ rx'.ready = IF soon \/ ~Held THEN rx.ready ELSE Publish(rx).ready
<1> DEFINE e == queue[1]
           p == PollRx(rx, e.age)
           soon == Held /\ rx.age - e.age < T35
<1>1. /\ SlaveInv /\ Types /\ Bounds /\ Fits(rx) /\ rx' = Push(rx, e.byte, e.age)
      /\ e \in Event /\ e.age \in Age /\ e.byte \in Byte /\ e.age \in Nat /\ 1 \in 1 .. Len(queue)
      /\ e.age < Horizon
  <2>1. SlaveInv
    BY DEF Settled
  <2>2. Types /\ Bounds /\ Fits(rx)
    BY <2>1 DEF SlaveInv, Types
  <2>. QED  BY <2>1, <2>2, TakenFacts DEF Accepted
<1>2. /\ Fits(p) /\ rx'.age = e.age /\ rx'.ready = p.ready
      /\ (rx'.over <=> p.over \/ Len(p.active) >= MaxAdu)
      /\ (rx'.over => rx'.active = p.active)
      /\ (~rx'.over => rx'.active = Append(p.active, e.byte))
  BY <1>1, PushFits, PollRxFits
<1>3. GapElapsed(rx, e.age) <=> Held /\ ~soon
  <2>1. CASE ~Held
    BY <2>1 DEF GapElapsed, Held
  <2>2. CASE Held
    <3>1. rx.age >= e.age
      BY <1>1, <2>2 DEF Settled, Elder
    <3>2. rx.age \in Age /\ rx.age \in Nat /\ rx.age < Horizon
      <4>1. rx.age <= Longest + RxWait + lag
        BY <1>1, <2>2 DEF Bounds, Bounded
      <4>. QED  BY <1>1, <4>1, Numbers, Bounding DEF Fits, Receiver
    <3>3. rx.age - e.age < Horizon
      BY <1>1, <3>2, Bounding
    <3>4. SilentGap(rx.age, e.age) <=> rx.age - e.age >= T35
      BY <1>1, <3>1, <3>2, <3>3, SilentGapMeans
    <3>5. rx.age - e.age >= T35 <=> ~(rx.age - e.age < T35)
      <4>1. rx.age \in Nat /\ e.age \in Nat /\ T35 \in Nat
        BY <1>1, <3>2, Constants
      <4>. HIDE DEF e
      <4>. QED  BY <4>1
    <3>. QED  BY <2>2, <3>4, <3>5 DEF GapElapsed, Held
  <2>. QED  BY <2>1, <2>2
<1>. HIDE DEF e
<1>4. CASE Held /\ ~soon
  <2>1. p = Publish(rx) /\ p.active = <<>> /\ ~p.over
    BY <1>1, <1>3, <1>4, PollRxFits, PublishFits
  <2>2. Len(<<>>) = 0 /\ ~(0 >= MaxAdu) /\ Append(<<>>, e.byte) = <<e.byte>>
    BY Constants
  <2>. QED  BY <1>2, <1>4, <2>1, <2>2 DEF e
<1>5. CASE soon
  <2>1. p = rx
    BY <1>1, <1>3, <1>5, PollRxFits
  <2>. QED  BY <1>2, <1>5, <2>1 DEF e
<1>6. CASE ~Held
  <2>1. p = rx /\ rx.active = <<>> /\ ~rx.over
    BY <1>1, <1>3, <1>6, PollRxFits DEF Held, Full
  <2>2. Len(<<>>) = 0 /\ ~(0 >= MaxAdu) /\ Append(<<>>, e.byte) = <<e.byte>>
    BY Constants
  <2>. QED  BY <1>2, <1>6, <2>1, <2>2 DEF e
<1>. QED  BY <1>4, <1>5, <1>6

LEMMA TakenFull ==
  ASSUME Types, Bounds, Full, TakeEvent
  PROVE  Full'
<1>1. PICK r, c : /\ Handled(queue[1], r, c) /\ Service(r, c) /\ Fits(r)
  BY TakeEventDoes
<1>2. Fits(rx) /\ queue[1].byte \in Byte /\ queue[1].age \in Age
  BY TakeEventDoes DEF Types, Event
<1>3. \A s : Fits(s) => ~Discard(s).over
  BY Zenon DEF Discard, NoRx
<1>4. CASE rx' = Discard(r)
  BY <1>1, <1>3, <1>4 DEF Full
<1>5. CASE ~fault.new
  <2>1. rx' = r
    BY <1>1, <1>5, ServedRecovery
  <2>2. CASE r = Discard(rx)
    BY <1>2, <1>3, <2>1, <2>2 DEF Full
  <2>3. CASE r = rx
    BY <2>1, <2>3 DEF Full, Held
  <2>4. CASE r = Push(rx, queue[1].byte, queue[1].age)
    <3> DEFINE p == PollRx(rx, queue[1].age)
    <3>1. (r.over <=> p.over \/ Len(p.active) >= MaxAdu) /\ (r.over => r.active = p.active)
      BY <1>2, <2>4, PushFits
    <3>2. p = rx \/ (p.active = <<>> /\ ~p.over)
      BY <1>2, PollRxFits, PublishFits
    <3>. HIDE DEF p
    <3>3. ~(Len(<<>>) >= MaxAdu)
      BY Constants
    <3>4. r.over => p.active # <<>>
      BY <3>1, <3>2, <3>3 DEF Full, Held
    <3>. QED  BY <2>1, <3>1, <3>4 DEF Full, Held
  <2>. QED  BY <1>1, <2>2, <2>3, <2>4 DEF Handled
<1>6. fault.new => rx' = Discard(r)
  BY <1>1, ServedRecovery
<1>. QED  BY <1>4, <1>5, <1>6

(* The byte that is taken goes on with the frame, or is late; so is one    *)
(* that makes a frame too long.                                            *)
LEMMA AcceptedRuns ==
  ASSUME Settled, Runs, TakeEvent, Accepted(queue[1])
  PROVE  LET y == queue[1].byte
             a == queue[1].age
         IN  /\ rx'.age = a /\ (rx'.over => Late(y, a))
             /\ ~rx'.over => Len(rx'.active) <= y.part \/ Late(y, a)
<1> DEFINE y == queue[1].byte
           a == queue[1].age
           soon == Held /\ rx.age - a < T35
<1>1. Types /\ queue # <<>> /\ 1 \in 1 .. Len(queue)
  <2>1. SlaveInv /\ Types
    BY DEF Settled, SlaveInv
  <2>. QED  BY <2>1, TakenFacts
<1>2. /\ rx'.age = a
      /\ rx'.over <=> soon /\ (rx.over \/ Len(rx.active) >= MaxAdu)
      /\ ~rx'.over => rx'.active = IF soon THEN Append(rx.active, y) ELSE <<y>>
  BY TakenPush DEF Runs
<1>3. y.part \in Nat /\ y.part <= FrameLength /\ a \in Nat
  BY <1>1, RunBytes
<1>4. /\ soon => Late(y, a) \/ (~Tainted /\ Follows(LastByte, y))
      /\ y.part >= 1 \/ Late(y, a)
      /\ Held /\ ~Tainted => Len(rx.active) <= LastByte.part
  BY <1>1 DEF Runs, Resumed, Continues, Begun, LateAt, Measured, Tainted
<1>5. ASSUME soon, ~Late(y, a)
      PROVE  ~rx.over /\ Len(rx.active) + 1 <= y.part /\ y.part <= FrameLength
  <2>1. ~Tainted /\ y.part = LastByte.part + 1 /\ Len(rx.active) <= LastByte.part
    BY <1>4, <1>5 DEF Follows
  <2>2. LastByte.part \in Nat /\ Len(rx.active) \in Nat
    BY <1>1, <1>5, RunBytes
  <2>. QED  BY <1>3, <2>1, <2>2 DEF Tainted
<1>6. rx'.over => Late(y, a)
  <2>. SUFFICES ASSUME rx'.over, ~Late(y, a)  PROVE FALSE
    OBVIOUS
  <2>1. soon /\ Len(rx.active) >= MaxAdu
    BY <1>2, <1>5
  <2>2. Len(rx.active) \in Nat /\ FrameLength \in Nat /\ MaxAdu \in Nat /\ FrameLength <= MaxAdu
    BY <1>1, <2>1, RunBytes
  <2>3. Len(rx.active) + 1 <= y.part /\ y.part <= FrameLength
    BY <1>5, <2>1
  <2>. QED  BY <1>3, <2>1, <2>2, <2>3
<1>7. ~rx'.over => Len(rx'.active) <= y.part \/ Late(y, a)
  <2>. SUFFICES ASSUME ~rx'.over, ~Late(y, a)  PROVE Len(rx'.active) <= y.part
    OBVIOUS
  <2>1. CASE soon
    <3>1. Len(rx.active) + 1 <= y.part
      BY <1>5, <2>1
    <3>2. rx'.active = Append(rx.active, y) /\ rx.active \in Seq(Byte)
      BY <1>1, <1>2, <2>1 DEF Types, Fits, Receiver
    <3>3. Len(rx'.active) = Len(rx.active) + 1
      BY <3>2
    <3>. QED  BY <3>1, <3>3
  <2>2. CASE ~soon
    <3>1. rx'.active = <<y>> /\ y.part >= 1
      BY <1>2, <1>4, <2>2
    <3>. QED  BY <3>1
  <2>. QED  BY <2>1, <2>2
<1>. QED  BY <1>2, <1>6, <1>7

LEMMA TakeEventRuns ==
  ASSUME Settled, Runs, TakeEvent
  PROVE  Runs'
<1>1. /\ Types /\ Bounds /\ SlaveInv
      /\ queue # <<>> /\ queue' = Tail(queue) /\ UNCHANGED <<line, calm, pin, host>>
  BY DEF TakeEvent, Settled, SlaveInv
<1>2. /\ Len(queue') = Len(queue) - 1 /\ Len(queue) \in Nat /\ 1 \in 1 .. Len(queue)
      /\ \A i \in 1 .. Len(queue') : queue'[i] = queue[i + 1]
      /\ queue' = <<>> <=> Len(queue) = 1
  BY <1>1, TailFacts, QueueFacts, HeadAges
<1>3. \A i \in 1 .. Len(queue') : i + 1 \in 1 .. Len(queue)
  BY <1>2
<1>4. Begun'
  <2>. SUFFICES ASSUME NEW i \in 1 .. Len(queue')
                PROVE  queue'[i].byte.part >= 1 \/ calm' <= queue'[i].age + 2 * queue'[i].byte.part
    BY DEF Begun, LateAt, Late
  <2>. QED  BY <1>1, <1>2, <1>3 DEF Runs, Begun, LateAt, Late
<1>5. Continued'
  <2>. SUFFICES ASSUME NEW i \in 1 .. Len(queue') - 1
                PROVE  Continues(queue[i].byte, queue[i].age, LateAt(i), queue[i + 1].byte,
                                 queue[i + 1].age)'
    BY DEF Continued
  <2>1. /\ i + 1 \in 1 .. Len(queue) - 1 /\ queue'[i] = queue[i + 1]
        /\ queue'[i + 1] = queue[(i + 1) + 1]
    BY <1>2
  <2>2. Continues(queue[i + 1].byte, queue[i + 1].age, LateAt(i + 1), queue[(i + 1) + 1].byte,
                  queue[(i + 1) + 1].age)
    BY <2>1 DEF Runs, Continued
  <2>. QED  BY <1>1, <2>1, <2>2 DEF Continues, LateAt, Late, Follows
<1>6. Full'
  BY <1>1, TakenFull DEF Runs
<1>7. queue' # <<>> =>
        Leads(queue[Len(queue)].byte, queue[Len(queue)].age, LateAt(Len(queue)))'
  <2>. SUFFICES ASSUME queue' # <<>>
                PROVE  Leads(queue[Len(queue)].byte, queue[Len(queue)].age, LateAt(Len(queue)))'
    OBVIOUS
  <2>1. queue'[Len(queue')] = queue[Len(queue)]
    <3>1. Len(queue') \in 1 .. Len(queue') /\ Len(queue') + 1 = Len(queue)
      BY <1>2
    <3>. QED  BY <1>2, <3>1
  <2>. QED  BY <1>1, <2>1 DEF Runs, Led, Leads, LateAt, Late, InFrame
<1>8. CASE rx'.active = <<>>
  <2>1. ~Held'
    BY <1>8 DEF Held
  <2>. QED  BY <1>4, <1>5, <1>6, <1>7, <2>1 DEF Runs, Measured, Resumed, Led
<1>9. CASE Accepted(queue[1])
  <2> DEFINE y == queue[1].byte
             a == queue[1].age
  <2>1. /\ rx'.age = a /\ (rx'.over => Late(y, a))
        /\ ~rx'.over => Len(rx'.active) <= y.part \/ Late(y, a)
    BY <1>9, AcceptedRuns
  <2>2. Held' /\ ~rx'.over => LastByte' = y
    BY <1>1, TakenLast
  <2>3. y.part \in Nat /\ y.part <= FrameLength /\ a \in Nat /\ calm \in Nat /\ FrameLength \in Nat
    BY <1>1, <1>2, RunBytes
  <2>. HIDE DEF y, a
  <2>4. Held' => (Tainted' <=> Late(y, a)) /\ (Tainted' \/ LastByte' = y)
    BY <1>1, <2>1, <2>2 DEF Tainted, Late
  <2>5. Measured'
    <3>1. Late(y, a) => calm <= a + 2 * FrameLength
      BY <2>3 DEF Late
    <3>. QED  BY <1>1, <2>1, <2>2, <3>1 DEF Measured, Late
  <2>6. Resumed'
    <3>. SUFFICES ASSUME Held', queue' # <<>>
                  PROVE  Continues(LastByte, rx.age, Tainted, queue[1].byte, queue[1].age)'
      BY DEF Resumed
    <3>1. 1 \in 1 .. Len(queue) - 1 /\ queue'[1] = queue[2] /\ 1 + 1 = 2
      BY <1>2
    <3>2. Continues(y, a, Late(y, a), queue[2].byte, queue[2].age)
      BY <3>1 DEF Runs, Continued, LateAt, y, a
    <3>. QED  BY <1>1, <2>1, <2>4, <3>1, <3>2 DEF Continues, Late, Follows
  <2>7. Led'
    <3>1. CASE queue' # <<>>
      BY <1>7, <3>1 DEF Led
    <3>2. CASE queue' = <<>>
      <4>. SUFFICES ASSUME Held'  PROVE Leads(LastByte, rx.age, Tainted)'
        BY <3>2 DEF Led
      <4>1. Leads(y, a, Late(y, a))
        BY <1>1, <1>2, <3>2 DEF Runs, Led, LateAt, y, a
      <4>. QED  BY <1>1, <2>1, <2>4, <4>1 DEF Leads, InFrame
    <3>. QED  BY <3>1, <3>2
  <2>. QED  BY <1>4, <1>5, <1>6, <2>5, <2>6, <2>7 DEF Runs
<1>. QED  BY <1>1, <1>8, <1>9, TakenBranches

(* Just after a fault every byte is late.                                  *)
LEMMA Forgiven == Types /\ calm = 0 /\ Full => Runs
<1>. SUFFICES ASSUME Types, calm = 0, Full  PROVE Runs
  OBVIOUS
<1>1. /\ \A i \in 1 .. Len(queue) : queue[i].byte.part \in Nat /\ queue[i].age \in Nat
      /\ Held => LastByte.part \in Nat
      /\ rx.age \in Nat /\ FrameLength \in Nat /\ line.age \in Nat /\ host.sent \in Nat
      /\ Len(queue) \in Nat /\ (queue = <<>> <=> Len(queue) = 0)
  BY RunBytes, QueueFacts
<1>2. \A b, a : b.part \in Nat /\ a \in Nat => Late(b, a)
  BY DEF Late
<1>3. Begun /\ Continued
  <2>1. \A i \in 1 .. Len(queue) : LateAt(i)
    BY <1>1, <1>2 DEF LateAt
  <2>2. \A i \in 1 .. Len(queue) - 1 : i + 1 \in 1 .. Len(queue)
    BY <1>1
  <2>. QED  BY <1>1, <1>2, <2>1, <2>2 DEF Begun, Continued, Continues
<1>4. Measured
  BY <1>1, <1>2 DEF Measured
<1>5. Resumed
  <2>1. queue # <<>> => 1 \in 1 .. Len(queue)
    BY <1>1
  <2>. QED  BY <1>1, <1>2, <2>1 DEF Resumed, Continues
<1>6. Led
  <2>1. calm <= line.age + 2 * host.sent
    BY <1>1
  <2>. QED  BY <2>1 DEF Led, Leads
<1>. QED  BY <1>3, <1>4, <1>5, <1>6 DEF Runs

LEMMA ForgivenNext ==
  ASSUME Types', calm' = 0, Full'
  PROVE  Runs'
<1>1. Types' /\ (calm = 0)' /\ Full' => Runs'
  BY Forgiven, PTL
<1>. QED  BY <1>1

(* Steps that take no byte                                                 *)
LEMMA SameRuns ==
  ASSUME Runs, UNCHANGED <<queue, line, calm, host>>,
         rx' = rx \/ (rx'.active = <<>> /\ ~rx'.over),
         pin' \/ UNCHANGED pin
  PROVE  Runs'
<1>1. Begun' /\ Continued'
  BY DEF Runs, Begun, Continued, LateAt, Continues, Late, Follows
<1>2. CASE rx' = rx
  <2>1. Full' /\ Measured' /\ Resumed'
    BY <1>2 DEF Runs, Full, Held, Measured, Resumed, Late, LastByte, Tainted, Continues, Follows
  <2>2. Led'
    BY <1>2 DEF Runs, Led, Leads, Held, LastByte, Tainted, LateAt, Late, InFrame
  <2>. QED  BY <1>1, <2>1, <2>2 DEF Runs
<1>3. CASE rx'.active = <<>> /\ ~rx'.over
  <2>1. Full' /\ Measured' /\ Resumed'
    BY <1>3 DEF Runs, Full, Held, Measured, Resumed
  <2>2. Led'
    BY <1>3 DEF Runs, Led, Leads, Held, LateAt, Late, InFrame
  <2>. QED  BY <1>1, <2>1, <2>2 DEF Runs
<1>. QED  BY <1>2, <1>3

LEMMA ServiceRuns ==
  ASSUME Types, Service(rx, recovery)
  PROVE  rx' = rx \/ (rx'.active = <<>> /\ ~rx'.over)
<1>1. Discard(rx).active = <<>> /\ ~Discard(rx).over
  BY Zenon DEF Discard, NoRx
<1>. QED  BY <1>1, ServedRecovery

LEMMA PolledHolds ==
  ASSUME Settled, PollSlave
  PROVE  rx'.active = <<>> /\ (Full => ~rx'.over)
<1>1. Types /\ Bounds /\ SlaveInv /\ Accepts(sample) /\ Fits(rx) /\ sample \in Age
  BY PollAccepts DEF PollSlave, Settled, SlaveInv, Types
<1>2. CASE fault.new
  <2>1. rx' = Discard(rx)
    BY <1>2 DEF PollSlave, Service
  <2>2. Discard(rx).active = <<>> /\ ~Discard(rx).over
    BY Zenon DEF Discard, NoRx
  <2>. QED  BY <2>1, <2>2
<1>3. CASE ~fault.new
  <2>1. rx'.active = <<>>
    BY <1>1, <1>3, PollFinishes
  <2>2. rx' = TakeFrame(PollRx(rx, sample))
    BY <1>1, <1>3 DEF PollSlave
  <2>3. rx'.over = PollRx(rx, sample).over /\ rx'.active = PollRx(rx, sample).active
    BY <1>1, <2>2, PollRxFits, TakeFrameFits
  <2>4. PollRx(rx, sample) = rx \/ ~PollRx(rx, sample).over
    BY <1>1, PollRxFits, PublishFits
  <2>5. Full => ~rx'.over
    BY <2>1, <2>3, <2>4 DEF Full, Held
  <2>. QED  BY <2>1, <2>5
<1>. QED  BY <1>2, <1>3

LEMMA TaskRuns ==
  ASSUME Settled, Runs, ServiceFault \/ TakeEvent \/ Drained \/ TimeOut \/ PollSlave
  PROVE  Runs'
<1>1. Types
  BY DEF Settled, SlaveInv
<1>2. CASE ServiceFault
  <2>1. UNCHANGED <<queue, line, calm, host, pin>> /\ Service(rx, recovery)
    BY <1>2 DEF ServiceFault
  <2>. QED  BY <1>1, <2>1, ServiceRuns, SameRuns
<1>3. CASE Drained \/ TimeOut
  <2>1. UNCHANGED <<queue, line, calm, host, pin, rx>>
    BY <1>3 DEF Drained, TimeOut
  <2>. QED  BY <2>1, SameRuns
<1>4. CASE PollSlave
  <2>1. UNCHANGED <<queue, line, calm, host, pin>>
    BY <1>4 DEF PollSlave
  <2>2. rx'.active = <<>> /\ ~rx'.over
    BY <1>4, PolledHolds DEF Runs
  <2>. QED  BY <2>1, <2>2, SameRuns
<1>. QED  BY <1>2, <1>3, <1>4, TakeEventRuns

(* When the driver is released no byte is young enough for another one to  *)
(* follow it without a silence.                                            *)
LEMMA AnswerRuns ==
  ASSUME Settled, Runs, Start \/ Refuse \/ RefuseError \/ Complete \/ Abort
  PROVE  Runs'
<1>1. Types /\ Bounds /\ SlaveInv
  BY DEF Settled, SlaveInv
<1>2. CASE Start
  <2>1. pin' /\ UNCHANGED <<queue, line, calm, host, rx>>
    BY <1>1, <1>2, StartDoes DEF Start
  <2>. QED  BY <2>1, SameRuns
<1>3. CASE Refuse \/ Complete
  <2>1. UNCHANGED <<queue, line, calm, host, rx, pin>>
    BY <1>3 DEF Refuse, Complete
  <2>. QED  BY <2>1, SameRuns
<1>4. CASE RefuseError
  <2>1. Types' /\ calm' = 0 /\ rx' = rx
    BY <1>1, <1>4, RefuseErrorTypes DEF RefuseError, Fault
  <2>2. Full'
    BY <2>1 DEF Runs, Full, Held
  <2>. QED  BY <2>1, <2>2, ForgivenNext
<1>5. CASE Abort
  <2>1. /\ UNCHANGED <<queue, line, calm, host, rx>> /\ Busy(tx) /\ tx.age >= Budget
        /\ pc = "SENDING"
    BY <1>5 DEF Abort, Busy
  <2>2. ~Held
    BY <1>1, <2>1 DEF Bounds, Bounded
  <2>3. \A i \in 1 .. Len(queue) : ~(queue[i].age + 1 < T35)
    <3>1. \A i \in 1 .. Len(queue) : tx.age <= queue[i].age /\ queue[i].age \in Nat
      BY <1>1, <2>1, EventAges DEF Bounds, Queued, Young
    <3>2. tx.age \in Nat /\ T35 \in Nat /\ tx.age >= T35
      BY <1>1, <2>1, FlowNumbers, Constants
    <3>3. SUFFICES ASSUME NEW i \in 1 .. Len(queue)  PROVE ~(queue[i].age + 1 < T35)
      OBVIOUS
    <3>4. tx.age <= queue[i].age /\ queue[i].age \in Nat
      BY <3>1
    <3>. QED  BY <3>2, <3>4
  <2>4. queue # <<>> => Len(queue) \in 1 .. Len(queue)
    BY <1>1, QueueFacts
  <2>5. Begun' /\ Continued' /\ Full' /\ Measured' /\ Resumed'
    BY <2>1, <2>2 DEF Runs, Begun, Continued, LateAt, Continues, Late, Follows, Full, Held,
       Measured, Resumed
  <2>6. Led'
    BY <2>1, <2>2, <2>3, <2>4 DEF Led, Leads, Held
  <2>. QED  BY <2>5, <2>6 DEF Runs
<1>. QED  BY <1>2, <1>3, <1>4, <1>5

(* A character time takes a byte and the fault it may be late for the same *)
(* way, and no byte is left when the fault is forgotten.                   *)
LEMMA LateStays ==
  ASSUME Settled, Tick, calm' # 0, NEW b, b.part \in Nat, b.part <= FrameLength,
         NEW a \in Nat, a + 1 <= Longest + RxWait + MaxLag
  PROVE  LateThen(b, a + 1) <=> Late(b, a)
<1>1. calm' = (IF calm < Recovery THEN calm + 1 ELSE calm)
  BY TickCalm DEF Settled, SlaveInv
<1>2. calm \in Nat /\ calm <= Recovery
  BY AgeNumbers DEF Settled, SlaveInv
<1>. QED  BY <1>1, <1>2, RecoveryNumbers DEF Late, LateThen

LEMMA TickSpans ==
  ASSUME Settled, Tick
  PROVE  /\ \A i \in 1 .. Len(queue) : queue[i].age + 1 <= Longest + RxWait + MaxLag
         /\ Held => rx.age + 1 <= Longest + RxWait + MaxLag
<1>1. SlaveInv /\ Types /\ Bounds /\ Types' /\ Bounds'
  BY TickTypes, TickBounds DEF Settled, SlaveInv
<1>2. lag' \in Nat /\ lag' <= MaxLag /\ MaxLag \in Nat
  BY <1>1, Constants DEF Types
<1>3. ASSUME NEW i \in 1 .. Len(queue)
      PROVE  queue[i].age + 1 <= Longest + RxWait + MaxLag
  <2>1. queue'[i].age = queue[i].age + 1 /\ i \in 1 .. Len(queue') /\ queue[i].age \in Nat
    BY <1>1, TickQueue
  <2>2. queue'[i].age <= Oldest + lag'
    BY <1>1, <2>1 DEF Bounds, Queued, Young
  <2>. QED  BY <1>2, <2>1, <2>2, Bounding
<1>4. ASSUME Held  PROVE rx.age + 1 <= Longest + RxWait + MaxLag
  <2>1. rx'.age = rx.age + 1 /\ Held' /\ rx.age \in Nat
    BY <1>1, <1>4, TickAgesOn, Numbers
  <2>2. rx'.age <= Longest + RxWait + lag'
    BY <1>1, <2>1 DEF Bounds, Bounded
  <2>. QED  BY <1>2, <2>1, <2>2, Bounding
<1>. QED  BY <1>3, <1>4

(* What a character time leaves of the bytes that are there.               *)
LEMMA TickOldRuns ==
  ASSUME Settled, Runs, Tick, calm' # 0
  PROVE  /\ \A i \in 1 .. Len(queue) :
              (LateAt(i)' <=> LateAt(i)) /\ (queue'[i].byte.part >= 1 \/ LateAt(i)')
         /\ \A i \in 1 .. Len(queue) - 1 :
              Continues(queue[i].byte, queue[i].age, LateAt(i), queue[i + 1].byte,
                        queue[i + 1].age)'
         /\ Full' /\ Measured'
         /\ Held => (Tainted' <=> Tainted) /\ LastByte' = LastByte
         /\ Held /\ queue # <<>> =>
              Continues(LastByte, rx.age, Tainted, queue[1].byte, queue[1].age)'
<1>1. Types /\ SlaveInv
  BY DEF Settled, SlaveInv
<1>2. ASSUME NEW i \in 1 .. Len(queue)
      PROVE  /\ queue'[i].byte = queue[i].byte /\ queue'[i].age = queue[i].age + 1
             /\ (LateAt(i)' <=> LateAt(i)) /\ queue[i].age \in Nat
  <2>1. /\ queue'[i].byte = queue[i].byte /\ queue'[i].age = queue[i].age + 1
        /\ queue[i].byte.part \in Nat /\ queue[i].byte.part <= FrameLength /\ queue[i].age \in Nat
    BY <1>1, TickQueue, RunBytes
  <2>2. LateThen(queue[i].byte, queue[i].age + 1) <=> Late(queue[i].byte, queue[i].age)
    BY <2>1, TickSpans, LateStays
  <2>. QED  BY <2>1, <2>2 DEF LateAt, Late, LateThen
<1>3. \A i \in 1 .. Len(queue) : queue'[i].byte.part >= 1 \/ LateAt(i)'
  BY <1>2 DEF Runs, Begun
<1>4. ASSUME NEW i \in 1 .. Len(queue) - 1
      PROVE  Continues(queue[i].byte, queue[i].age, LateAt(i), queue[i + 1].byte,
                       queue[i + 1].age)'
  <2>1. i \in 1 .. Len(queue) /\ i + 1 \in 1 .. Len(queue)
    BY <1>1, QueueFacts
  <2>2. Continues(queue[i].byte, queue[i].age, LateAt(i), queue[i + 1].byte, queue[i + 1].age)
    BY DEF Runs, Continued
  <2>3. /\ (LateAt(i)' <=> LateAt(i)) /\ (LateAt(i + 1)' <=> LateAt(i + 1))
        /\ queue'[i].age - queue'[i + 1].age = queue[i].age - queue[i + 1].age
        /\ queue'[i].byte = queue[i].byte /\ queue'[i + 1].byte = queue[i + 1].byte
    <3>1. /\ LateAt(i)' <=> LateAt(i)
          /\ queue'[i].byte = queue[i].byte /\ queue'[i].age = queue[i].age + 1
          /\ queue[i].age \in Nat
      BY <1>2, <2>1
    <3>2. /\ LateAt(i + 1)' <=> LateAt(i + 1)
          /\ queue'[i + 1].byte = queue[i + 1].byte
          /\ queue'[i + 1].age = queue[i + 1].age + 1 /\ queue[i + 1].age \in Nat
      BY <1>2, <2>1
    <3>3. queue'[i].age - queue'[i + 1].age = queue[i].age - queue[i + 1].age
      BY <3>1, <3>2, SMTT(60)
    <3>. QED  BY <3>1, <3>2, <3>3, Zenon
  <2>. QED  BY <2>2, <2>3 DEF Continues, LateAt, Late, Follows
<1>5. /\ rx'.active = rx.active /\ rx'.over = rx.over /\ (Held' <=> Held) /\ LastByte' = LastByte
  BY <1>1, TickDoes, TickAgesOn DEF LastByte
<1>6. ASSUME Held
      PROVE  /\ (Tainted' <=> Tainted) /\ rx'.age = rx.age + 1 /\ rx.age \in Nat
             /\ LateThen(LastByte, rx.age + 1) <=> Late(LastByte, rx.age)
  <2>1. /\ LastByte.part \in Nat /\ LastByte.part <= FrameLength /\ rx.age \in Nat
        /\ rx'.age = rx.age + 1
    BY <1>1, <1>6, RunBytes, TickAgesOn
  <2>2. LateThen(LastByte, rx.age + 1) <=> Late(LastByte, rx.age)
    BY <1>6, <2>1, TickSpans, LateStays
  <2>. QED  BY <1>5, <2>1, <2>2 DEF Tainted, Late, LateThen
<1>7. Full'
  BY <1>5 DEF Runs, Full
<1>8. Measured'
  <2>. SUFFICES ASSUME Held'
                PROVE  IF rx'.over THEN calm' <= rx'.age + 2 * FrameLength
                       ELSE Len(rx'.active) <= LastByte'.part \/ Late(LastByte, rx.age)'
    BY DEF Measured
  <2>1. Held /\ rx'.age = rx.age + 1 /\ rx.age \in Nat
    BY <1>5, <1>6
  <2>2. calm' <= calm + 1 /\ calm' \in Nat /\ calm \in Nat /\ FrameLength \in Nat
    BY <1>1, TickAgesOn, AgeNumbers, RecoveryNumbers
  <2>3. rx.over => calm' <= rx'.age + 2 * FrameLength
    <3>1. rx.over => calm <= rx.age + 2 * FrameLength
      BY <2>1 DEF Runs, Measured
    <3>. QED  BY <2>1, <2>2, <3>1
  <2>4. ~rx.over => Len(rx.active) <= LastByte.part \/ Late(LastByte, rx.age)
    BY <2>1 DEF Runs, Measured
  <2>5. Late(LastByte, rx.age)' <=> Late(LastByte, rx.age)
    BY <1>5, <1>6, <2>1 DEF Late, LateThen
  <2>. QED  BY <1>5, <2>3, <2>4, <2>5
<1>9. ASSUME Held, queue # <<>>
      PROVE  Continues(LastByte, rx.age, Tainted, queue[1].byte, queue[1].age)'
  <2>1. 1 \in 1 .. Len(queue)
    BY <1>1, <1>9, QueueFacts
  <2>2. Continues(LastByte, rx.age, Tainted, queue[1].byte, queue[1].age)
    BY <1>9 DEF Runs, Resumed
  <2>3. /\ (Tainted' <=> Tainted) /\ (LateAt(1)' <=> LateAt(1))
        /\ rx'.age - queue'[1].age = rx.age - queue[1].age
        /\ LastByte' = LastByte /\ queue'[1].byte = queue[1].byte
    BY <1>2, <1>5, <1>6, <1>9, <2>1 DEF LateAt, Late
  <2>. QED  BY <2>2, <2>3 DEF Continues, LateAt, Late, Follows
<1>. QED  BY <1>2, <1>3, <1>4, <1>5, <1>6, <1>7, <1>8, <1>9

(* The byte the host sends goes on with its frame, after a silence or not. *)
LEMMA SentRuns ==
  ASSUME Settled, Tick, NEW e \in Event, Heard(e), Sends(FALSE), e.byte.frame = host'.frame,
         e.byte.part = host'.sent, NEW x, NEW ax \in Nat, NEW tainted, Leads(x, ax, tainted),
         ax >= line.age
  PROVE  ax + 1 < T35 => LateThen(e.byte, 0) \/ (~tainted /\ Follows(x, e.byte))
<1>. SUFFICES ASSUME ax + 1 < T35
              PROVE  LateThen(e.byte, 0) \/ (~tainted /\ Follows(x, e.byte))
  OBVIOUS
<1>1. Types /\ Turns
  BY DEF Settled, SlaveInv
<1>2. /\ host'.sent = IF InFrame THEN host.sent + 1 ELSE 1
      /\ InFrame => host'.frame = host.frame
      /\ ~InFrame => line.age >= T35
  BY <1>1, HostSends DEF Sends
<1>3. /\ line.age \in Nat /\ T35 \in Nat /\ host.sent \in Nat /\ calm \in Nat /\ calm' \in Nat
      /\ calm' <= calm + 1
  BY <1>1, RunBytes, TickAgesOn
<1>4. InFrame /\ line.age <= 1
  BY <1>1, <1>2, <1>3 DEF Turns
<1>5. calm <= line.age + 2 * host.sent \/ (~tainted /\ x.frame = host.frame /\ x.part = host.sent)
  BY <1>4 DEF Leads, Heard
<1>6. calm <= line.age + 2 * host.sent => calm' <= 2 * (host.sent + 1)
  BY <1>3, <1>4
<1>. QED  BY <1>2, <1>3, <1>4, <1>5, <1>6 DEF LateThen, Follows

(* A pause in a frame is short, and the answer is longer than a silence.   *)
LEMMA PausedRuns ==
  ASSUME Settled, Tick, calm' # 0, Unheard, NEW x, NEW ax \in Nat, NEW tainted,
         Leads(x, ax, tainted), pin => tx.age <= ax, ~pin', InFrame', ax + 2 < T35
  PROVE  \/ calm' <= line'.age + 2 * host'.sent
         \/ ~tainted /\ x.frame = host'.frame /\ x.part = host'.sent
<1>1. Types /\ Turns /\ Bounds /\ SlaveInv
  BY DEF Settled, SlaveInv
<1>2. /\ line.age \in Nat /\ T35 \in Nat /\ host.sent \in Nat /\ calm \in Nat /\ calm' \in Nat
      /\ calm' <= calm + 1 /\ host.sent <= FrameLength /\ FrameLength \in Nat
  BY <1>1, RunBytes, TickAgesOn
<1>3. ~pin
  <2>. SUFFICES ASSUME pin  PROVE FALSE
    OBVIOUS
  <2>1. Busy(tx) /\ ~Busy(tx') /\ tx.age + 1 >= AnswerLength
    BY <1>1, TickDrives DEF Types
  <2>. QED  BY <1>1, <2>1, FlowNumbers, Constants
<1>4. \A e \in Event : ~Heard(e)
  BY <1>1, TickQueue
<1>5. \A bad \in BOOLEAN : ~Sends(bad)
  BY <1>3, <1>4 DEF Sends
<1>6. Rests
  BY <1>1, <1>4, <1>5, TickMoves
<1>7. InFrame /\ host'.sent = host.sent /\ host'.frame = host.frame /\ Pause
  BY <1>2, <1>6 DEF Rests, InFrame
<1>8. line.age = 0 /\ line'.age = 1
  <2>1. line.age = 0
    BY <1>7 DEF Pause
  <2>. QED  BY <1>1, <1>3, <2>1, TickLine, PaceNumbers
<1>9. calm <= line.age + 2 * host.sent \/ (~tainted /\ x.frame = host.frame /\ x.part = host.sent)
  BY <1>2, <1>3, <1>7 DEF Leads
<1>. QED  BY <1>2, <1>7, <1>8, <1>9

LEMMA TickRuns ==
  ASSUME Settled, Runs, Tick
  PROVE  Runs'
<1>1. Types /\ Turns /\ Bounds /\ SlaveInv /\ Types' /\ Elder
  BY TickTypes DEF Settled, SlaveInv
<1>2. CASE calm' = 0
  <2>1. Full'
    BY <1>1, TickDoes DEF Runs, Full, Held
  <2>. QED  BY <1>1, <1>2, <2>1, ForgivenNext
<1>3. CASE calm' # 0
  <2>1. /\ \A i \in 1 .. Len(queue) :
             (calm' <= queue'[i].age + 2 * queue'[i].byte.part <=> LateAt(i))
             /\ (queue'[i].byte.part >= 1 \/ LateAt(i)')
        /\ Full' /\ Measured'
        /\ Held => (Tainted' <=> Tainted) /\ LastByte' = LastByte
    BY <1>3, TickOldRuns DEF LateAt, Late
  <2>2. /\ Len(queue) \in Nat
        /\ \A i \in 1 .. Len(queue) :
             /\ queue'[i].byte = queue[i].byte /\ queue'[i].age = queue[i].age + 1
             /\ queue[i].age \in Nat /\ queue[i].age >= line.age
        /\ (queue = <<>> <=> Len(queue) = 0) /\ (queue' = <<>> <=> Len(queue') = 0)
    BY <1>1, TickQueue DEF Elder
  <2>3. /\ Held' <=> Held
        /\ Held => rx'.age = rx.age + 1 /\ rx.age \in Nat /\ rx.age >= line.age /\ ~pin
    <3>1. Held => rx.age \in Nat /\ rx.age >= line.age
      BY <1>1, Numbers DEF Elder
    <3>2. Held => ~pin
      BY <1>1 DEF Bounds, Bounded, Types, Busy
    <3>. QED  BY <3>1, <3>2, TickAgesOn
  <2>4. /\ queue # <<>> => Leads(queue[Len(queue)].byte, queue[Len(queue)].age, LateAt(Len(queue)))
        /\ queue = <<>> /\ Held => Leads(LastByte, rx.age, Tainted)
    BY DEF Runs, Led
  <2>5. queue # <<>> => Len(queue) \in 1 .. Len(queue)
    BY <2>2
  <2>6. CASE Unheard
    <3>1. Len(queue') = Len(queue)
      BY <1>1, <2>6, TickQueue
    <3>2. Begun' /\ Continued' /\ Resumed'
      BY <1>3, <2>1, <2>2, <2>3, <3>1, TickOldRuns DEF Begun, Continued, Resumed
    <3>3. ASSUME queue' # <<>>
          PROVE  Leads(queue[Len(queue)].byte, queue[Len(queue)].age, LateAt(Len(queue)))'
      <4> DEFINE n == Len(queue)
      <4>1. queue # <<>> /\ n \in 1 .. Len(queue)
        BY <2>2, <2>5, <3>1, <3>3
      <4>2. pin => tx.age <= queue[n].age
        BY <1>1, <4>1 DEF Bounds, Queued, Young, Types
      <4>3. Leads(queue[n].byte, queue[n].age, LateAt(n)) /\ queue[n].age \in Nat
        BY <2>2, <2>4, <4>1
      <4>4. ~pin' /\ InFrame' /\ queue[n].age + 2 < T35 =>
               \/ calm' <= line'.age + 2 * host'.sent
               \/ ~LateAt(n) /\ queue[n].byte.frame = host'.frame /\ queue[n].byte.part = host'.sent
        BY <1>3, <2>6, <4>2, <4>3, PausedRuns
      <4>5. /\ queue'[n].byte = queue[n].byte /\ queue'[n].age = queue[n].age + 1
            /\ queue[n].age \in Nat /\ (calm' <= queue'[n].age + 2 * queue'[n].byte.part <=> LateAt(n))
        BY <2>1, <2>2, <4>1
      <4>6. queue'[n].age + 1 < T35 => queue[n].age + 2 < T35
        BY <4>5, Constants
      <4>. QED  BY <3>1, <4>4, <4>5, <4>6 DEF Leads, LateAt, Late
    <3>4. ASSUME queue' = <<>>, Held'  PROVE Leads(LastByte, rx.age, Tainted)'
      <4>1. queue = <<>> /\ Held
        BY <2>2, <2>3, <3>1, <3>4
      <4>2. ~pin' /\ InFrame' /\ rx.age + 2 < T35 =>
               \/ calm' <= line'.age + 2 * host'.sent
               \/ ~Tainted /\ LastByte.frame = host'.frame /\ LastByte.part = host'.sent
        BY <1>3, <2>3, <2>4, <2>6, <4>1, PausedRuns
      <4>3. rx'.age + 1 < T35 => rx.age + 2 < T35
        BY <2>3, <4>1, Constants
      <4>. QED  BY <2>1, <4>1, <4>2, <4>3 DEF Leads
    <3>5. Led'
      BY <3>3, <3>4 DEF Led
    <3>. QED  BY <2>1, <3>2, <3>5 DEF Runs
  <2>7. CASE ~Unheard
    <3>1. Sends(FALSE)
      <4>1. PICK bad \in BOOLEAN : Sends(bad)
        BY <1>1, <1>3, <2>7, TickMoves
      <4>2. bad => calm' = 0
        BY <1>1, <4>1, HostSends DEF Sends
      <4>3. bad = FALSE
        BY <1>3, <4>1, <4>2
      <4>. QED  BY <4>1, <4>3
    <3>2. PICK e \in Event : Heard(e) /\ e.byte.frame = host'.frame /\ e.byte.part = host'.sent
      BY <2>7, <3>1 DEF Sends
    <3>3. /\ Len(queue') = Len(queue) + 1 /\ queue'[Len(queue) + 1] = e /\ queue' # <<>>
          /\ e.age = 0 /\ line'.age = 0
      BY <1>1, <3>2, TickQueue, HeardFault
    <3>0. PICK n \in Nat : n = Len(queue)
      BY <2>2
    <3>4. ASSUME queue # <<>>
          PROVE  Continues(queue[n].byte, queue[n].age, LateAt(n), queue[n + 1].byte,
                           queue[n + 1].age)'
      <4>1. n \in 1 .. Len(queue) /\ n = Len(queue)
        BY <2>5, <3>0, <3>4
      <4>2. Leads(queue[n].byte, queue[n].age, LateAt(n)) /\ queue[n].age \in Nat
            /\ queue[n].age >= line.age
        BY <2>2, <2>4, <3>0, <3>4, <4>1
      <4>3. queue[n].age + 1 < T35 =>
              LateThen(e.byte, 0) \/ (~LateAt(n) /\ Follows(queue[n].byte, e.byte))
        BY <3>1, <3>2, <4>2, SentRuns
      <4>4. queue'[n].age - 0 < T35 => queue[n].age + 1 < T35
        BY <2>2, <4>1, Constants
      <4>5. /\ (calm' <= queue'[n].age + 2 * queue'[n].byte.part <=> LateAt(n))
            /\ queue'[n].byte = queue[n].byte
        BY <2>1, <2>2, <4>1
      <4>6. ASSUME queue'[n].age - 0 < T35
            PROVE  \/ calm' <= 0 + 2 * e.byte.part
                   \/ ~(calm' <= queue'[n].age + 2 * queue'[n].byte.part) /\ Follows(queue'[n].byte, e.byte)
        BY <4>3, <4>4, <4>5, <4>6 DEF LateThen
      <4>. QED  BY <3>3, <4>1, <4>6 DEF Continues, LateAt, Late, Follows
    <3>5. ASSUME Held, queue = <<>>
          PROVE  Continues(LastByte, rx.age, Tainted, queue[1].byte, queue[1].age)'
      <4>1. rx.age + 1 < T35 => LateThen(e.byte, 0) \/ (~Tainted /\ Follows(LastByte, e.byte))
        BY <2>3, <2>4, <3>1, <3>2, <3>5, SentRuns
      <4>2. queue'[1] = e
        BY <2>2, <3>3, <3>5
      <4>3. rx'.age - 0 < T35 => rx.age + 1 < T35
        BY <2>3, <3>5, Constants
      <4>. QED  BY <2>1, <3>3, <3>5, <4>1, <4>2, <4>3 DEF Continues, Late, LateThen, Follows
    <3>6. Resumed'
      <4>1. CASE queue = <<>>
        BY <2>3, <3>5, <4>1 DEF Resumed
      <4>2. CASE queue # <<>>
        BY <1>3, <2>3, <4>2, TickOldRuns DEF Resumed
      <4>. QED  BY <4>1, <4>2
    <3>7. Continued'
      <4>. SUFFICES ASSUME NEW i \in 1 .. Len(queue') - 1
                    PROVE  Continues(queue[i].byte, queue[i].age, LateAt(i), queue[i + 1].byte,
                                     queue[i + 1].age)'
        BY DEF Continued
      <4>1. CASE i \in 1 .. Len(queue) - 1
        BY <1>3, <4>1, TickOldRuns DEF Continues, LateAt, Late, Follows
      <4>2. CASE ~(i \in 1 .. Len(queue) - 1)
        <5>1. i = n /\ queue # <<>>
          BY <2>2, <3>0, <3>3, <4>2
        <5>. QED  BY <3>4, <5>1 DEF Continues, LateAt, Late, Follows
      <4>. QED  BY <4>1, <4>2
    <3>8. Begun'
      <4>. SUFFICES ASSUME NEW i \in 1 .. Len(queue')
                    PROVE  queue'[i].byte.part >= 1 \/ calm' <= queue'[i].age + 2 * queue'[i].byte.part
        BY DEF Begun, LateAt, Late
      <4>1. CASE i \in 1 .. Len(queue)
        BY <2>1, <4>1 DEF LateAt, Late
      <4>2. CASE ~(i \in 1 .. Len(queue))
        <5>1. i = Len(queue) + 1
          BY <2>2, <3>3, <4>2
        <5>2. host'.sent = (IF InFrame THEN host.sent + 1 ELSE 1) /\ host.sent \in Nat
          BY <1>1, <3>1, HostSends, RunBytes DEF Sends
        <5>. QED  BY <3>2, <3>3, <5>1, <5>2
      <4>. QED  BY <4>1, <4>2
    <3>9. Led'
      <4>1. queue'[Len(queue')] = e
        BY <3>3
      <4>2. ~LateThen(e.byte, 0) \/ calm' <= line'.age + 2 * host'.sent
        BY <3>2, <3>3 DEF LateThen
      <4>3. Leads(queue[Len(queue)].byte, queue[Len(queue)].age, LateAt(Len(queue)))'
        BY <3>2, <3>3, <4>1, <4>2 DEF Leads, LateAt, Late, LateThen
      <4>. QED  BY <3>3, <4>3 DEF Led
    <3>. QED  BY <2>1, <3>6, <3>7, <3>8, <3>9 DEF Runs
  <2>. QED  BY <2>6, <2>7
<1>. QED  BY <1>2, <1>3

LEMMA NextRuns ==
  ASSUME Settled, Runs, [Next]_vars
  PROVE  Runs'
<1>1. CASE UNCHANGED vars
  BY <1>1, SameRuns DEF vars
<1>. QED  BY <1>1, TaskRuns, AnswerRuns, TickRuns DEF Next

(* Just after a fault every byte is late.                                  *)
AllLate == (\A i \in 1 .. Len(queue) : LateAt(i)) /\ (Held => Late(LastByte, rx.age))

LEMMA FreshLate == Types /\ calm = 0 => AllLate
<1>. SUFFICES ASSUME Types, calm = 0  PROVE AllLate
  OBVIOUS
<1>1. /\ \A i \in 1 .. Len(queue) : queue[i].byte.part \in Nat /\ queue[i].age \in Nat
      /\ Held => LastByte.part \in Nat
      /\ rx.age \in Nat
  BY RunBytes
<1>. QED  BY <1>1 DEF AllLate, LateAt, Late

LEMMA LateAll ==
  ASSUME Types', calm' = 0
  PROVE  /\ \A i \in 1 .. Len(queue') : LateAt(i)'
         /\ Held' => Late(LastByte, rx.age)'
<1>1. Types' /\ (calm = 0)' => AllLate'
  BY FreshLate, PTL
<1>. QED  BY <1>1 DEF AllLate

(* Once the faults are forgotten, no byte is late.                         *)
LEMMA NoneLate ==
  ASSUME Settled, calm = Recovery
  PROVE  /\ \A i \in 1 .. Len(queue) : ~LateAt(i)
         /\ Held => ~Late(LastByte, rx.age) /\ ~(calm <= rx.age + 2 * FrameLength)
<1>1. Types /\ Bounds /\ SlaveInv
  BY DEF Settled, SlaveInv
<1>2. lag \in Nat /\ lag <= MaxLag
  BY <1>1, Numbers
<1>3. ASSUME NEW i \in 1 .. Len(queue)  PROVE ~LateAt(i)
  <2>1. /\ queue[i].byte.part \in Nat /\ queue[i].byte.part <= FrameLength
        /\ queue[i].age \in Nat /\ queue[i].age <= Oldest + lag
    BY <1>1, RunBytes, HeadAges
  <2>2. ~(calm <= queue[i].age + 2 * queue[i].byte.part)
    BY <1>2, <2>1, RecoveryNumbers, Bounding, SMTT(60)
  <2>. QED  BY <2>2 DEF LateAt, Late
<1>4. ASSUME Held
      PROVE  ~Late(LastByte, rx.age) /\ ~(calm <= rx.age + 2 * FrameLength)
  <2>1. /\ LastByte.part \in Nat /\ LastByte.part <= FrameLength
        /\ rx.age \in Nat /\ rx.age <= Longest + RxWait + lag
    BY <1>1, <1>4, RunBytes DEF Bounds, Bounded
  <2>2. /\ ~(calm <= rx.age + 2 * LastByte.part)
        /\ ~(calm <= rx.age + 2 * FrameLength)
    BY <1>2, <2>1, RecoveryNumbers, Bounding
  <2>. QED  BY <2>2 DEF Late
<1>. QED  BY <1>3, <1>4

(* ------------------- a request is what the host waits for -------------- *)

(* The last byte of a request, of this age: while the host can still be    *)
(* waiting, it waits for just this answer, and for as long.                *)
Ending(b) == b.part = FrameLength /\ b.frame \in Requests
Asked(b, a) == a <= Patience => host.waiting /\ host.frame = b.frame /\ host.since = a
AskedThen(b, a) == a <= Patience => host'.waiting /\ host'.frame = b.frame /\ host'.since = a

(* The request that is held has waited as long as the task may lag.        *)
Soon ==
  /\ rx.age <= RxWait + MaxLag + lag
  /\ pc = "DRAIN" \/ (pc = "SERVICE" /\ queue = <<>>) => rx.age <= lag
  /\ pc = "RECEIVE" /\ queue = <<>> /\ waited < RxWait => rx.age <= MaxLag + waited

(* A whole request, queued or held, that no fault has reached is the one   *)
(* the host waits for.                                                     *)
Asking ==
  /\ \A i \in 1 .. Len(queue) : Ending(queue[i].byte) =>
       LateAt(i) \/ (Asked(queue[i].byte, queue[i].age) /\ queue[i].age <= lag)
  /\ Held /\ ~rx.over /\ Ending(LastByte) =>
       Late(LastByte, rx.age) \/ (Asked(LastByte, rx.age) /\ Soon)

(* A whole request that is behind an answer comes after a fault.           *)
Overtaken ==
  pc = "SEND" \/ Busy(tx) => \A i \in 1 .. Len(queue) : Ending(queue[i].byte) => LateAt(i)

LEMMA InitAsking == Init => Asking /\ Overtaken
<1>. SUFFICES ASSUME Init  PROVE Asking /\ Overtaken
  OBVIOUS
<1>1. queue = <<>> /\ Len(queue) = 0 /\ rx.active = <<>>
  BY Zenon, NoRxFits DEF Init
<1>. QED  BY <1>1 DEF Asking, Held, Overtaken

LEMMA TaskAsking ==
  ASSUME Settled, Asking, ServiceFault \/ TakeEvent \/ Drained \/ TimeOut \/ PollSlave
  PROVE  Asking'
<1>1. Types /\ Bounds /\ SlaveInv
  BY DEF Settled, SlaveInv
<1>2. UNCHANGED <<host, calm>>
  BY DEF ServiceFault, TakeEvent, Drained, TimeOut, PollSlave
<1>3. lag' = lag /\ lag \in Nat /\ lag <= MaxLag /\ MaxLag \in Nat /\ RxWait \in Nat
      /\ rx.age \in Nat
  <2>1. lag' = lag
    BY DEF ServiceFault, TakeEvent, Drained, TimeOut, PollSlave
  <2>. QED  BY <1>1, <2>1, PaceNumbers, Numbers
<1>4. CASE TakeEvent
  <2>1. /\ pc' = "DRAIN" /\ queue' = Tail(queue) /\ queue # <<>> /\ Len(queue) \in Nat
        /\ 1 \in 1 .. Len(queue)
    BY <1>1, <1>4, QueueFacts, HeadAges DEF TakeEvent
  <2>2. Len(queue') = Len(queue) - 1 /\ \A i \in 1 .. Len(queue') : queue'[i] = queue[i + 1]
    BY <1>1, <2>1, TailFacts
  <2>3. \A i \in 1 .. Len(queue') : i + 1 \in 1 .. Len(queue)
    BY <2>1, <2>2
  <2>4. \A i \in 1 .. Len(queue') : Ending(queue'[i].byte) =>
          LateAt(i)' \/ (Asked(queue[i].byte, queue[i].age)' /\ queue'[i].age <= lag')
    BY <1>2, <1>3, <2>2, <2>3, SMTT(60) DEF Asking, Asked, LateAt, Late
  <2>5. ASSUME Held', ~rx'.over, Ending(LastByte)'
        PROVE  Late(LastByte, rx.age)' \/ (Asked(LastByte, rx.age)' /\ Soon')
    <3>1. LastByte' = queue[1].byte /\ rx'.age = queue[1].age
      BY <1>1, <1>4, <2>5, TakenLast
    <3>2. Ending(queue[1].byte)
      BY <2>5, <3>1 DEF Ending
    <3>3. CASE LateAt(1)
      BY <1>2, <3>1, <3>3 DEF LateAt, Late
    <3>4. CASE Asked(queue[1].byte, queue[1].age) /\ queue[1].age <= lag
      <4>1. queue[1].age \in Nat
        BY <1>1, <2>1, EventAges
      <4>2. Soon'
        BY <1>3, <2>1, <3>1, <3>4, <4>1 DEF Soon
      <4>. QED  BY <1>2, <3>1, <3>4, <4>2 DEF Asked
    <3>. QED  BY <2>1, <3>2, <3>3, <3>4 DEF Asking
  <2>6. Ending(LastByte)' <=> Ending(LastByte')
    BY DEF Ending
  <2>. QED  BY <2>4, <2>5 DEF Asking, Ending
<1>5. CASE UNCHANGED queue /\ ~Held'
  BY <1>2, <1>3, <1>5 DEF Asking, Asked, LateAt, Late, Ending
<1>6. CASE UNCHANGED <<queue, rx>> /\ (Soon => Soon')
  BY <1>2, <1>3, <1>6 DEF Asking, Asked, LateAt, Late, Ending, Held, LastByte
<1>7. CASE ServiceFault
  <2>1. /\ pc = "SERVICE" /\ pc' = "RECEIVE" /\ UNCHANGED <<queue, waited>>
        /\ Service(rx, recovery)
    BY <1>7 DEF ServiceFault
  <2>2. waited = 0
    BY <1>1, <2>1 DEF Bounds, Sampled
  <2>3. rx' = rx \/ ~Held'
    BY <1>1, <2>1, ServedRecovery, DiscardFits DEF Types, Held
  <2>4. rx' = rx => (Soon => Soon')
    <3>1. rx.age <= lag => rx.age <= MaxLag + 0
      BY <1>3
    <3>. QED  BY <1>3, <2>1, <2>2, <3>1 DEF Soon
  <2>. QED  BY <1>5, <1>6, <2>1, <2>3, <2>4
<1>8. CASE Drained
  <2>1. pc = "DRAIN" /\ pc' = "SERVICE" /\ UNCHANGED <<queue, rx>>
    BY <1>8 DEF Drained, Wait
  <2>. QED  BY <1>3, <1>6, <2>1 DEF Soon
<1>9. CASE TimeOut
  <2>1. /\ pc = "RECEIVE" /\ UNCHANGED <<queue, rx>>
        /\ pc' = (IF queue = <<>> THEN "POLL" ELSE "SERVICE")
    BY <1>9 DEF TimeOut
  <2>. QED  BY <1>3, <1>6, <2>1 DEF Soon
<1>10. CASE PollSlave
  <2>1. UNCHANGED queue /\ ~Held'
    <3>1. Accepts(sample)
      BY <1>10, PollAccepts DEF PollSlave
    <3>2. CASE ~fault.new
      BY <1>1, <1>10, <3>1, <3>2, PollFinishes DEF Held, PollSlave
    <3>3. CASE fault.new
      BY <1>1, <1>10, <3>3, DiscardFits DEF PollSlave, Service, Types, Held
    <3>. QED  BY <1>10, <3>2, <3>3 DEF PollSlave
  <2>. QED  BY <1>5, <2>1
<1>. QED  BY <1>4, <1>7, <1>8, <1>9, <1>10

LEMMA AnswerAsking ==
  ASSUME Settled, Asking, Start \/ Refuse \/ RefuseError \/ Complete \/ Abort
  PROVE  Asking'
<1>1. Types /\ Bounds /\ SlaveInv /\ Types'
  BY AnswerStepTypes, RefuseErrorTypes DEF Settled, SlaveInv
<1>2. pc \in {"SEND", "SENDING"} /\ UNCHANGED <<rx, lag>>
  BY DEF Start, Refuse, RefuseError, Complete, Abort
<1>3. ~Held'
  BY <1>1, <1>2 DEF Bounds, Bounded, Held
<1>4. CASE RefuseError
  <2>1. calm' = 0
    BY <1>4 DEF RefuseError, Fault
  <2>2. \A i \in 1 .. Len(queue') : LateAt(i)'
    BY <1>1, <2>1, LateAll
  <2>. QED  BY <1>3, <2>2 DEF Asking
<1>5. CASE Start \/ Refuse \/ Complete \/ Abort
  <2>1. UNCHANGED <<queue, calm, host>>
    BY <1>5 DEF Start, Refuse, Complete, Abort
  <2>. QED  BY <1>2, <1>3, <2>1 DEF Asking, Asked, LateAt, Late
<1>. QED  BY <1>4, <1>5

(* While no answer is sent, the host goes on waiting for what it asked.    *)
LEMMA AskedOn ==
  ASSUME Settled, Tick, ~Busy(tx), NEW b, NEW a \in Nat, Asked(b, a)
  PROVE  AskedThen(b, a + 1)
<1>1. Types /\ Bounds /\ SlaveInv /\ Turns
  BY DEF Settled, SlaveInv
<1>. SUFFICES ASSUME a + 1 <= Patience
              PROVE  host'.waiting /\ host'.frame = b.frame /\ host'.since = a + 1
  BY DEF AskedThen
<1>2. host.waiting /\ host.frame = b.frame /\ host.since = a /\ host.since < Patience
  BY <1>1, PaceNumbers DEF Asked
<1>3. Waiting.waiting /\ Waiting.since = a + 1
  <2>1. ~pin
    BY <1>1 DEF Types
  <2>. QED  BY <1>1, <1>2, <2>1, WaitingDoes, PaceNumbers
<1>4. ~(\E bad \in BOOLEAN : Sends(bad))
  BY <1>1, <1>2, HostSends DEF Sends
<1>5. Rests
  BY <1>1, <1>4, TickMoves
<1>. QED  BY <1>2, <1>3, <1>5 DEF Rests

LEMMA TickAsking ==
  ASSUME Settled, Runs, Asking, Overtaken, Tick
  PROVE  Asking'
<1>1. Types /\ Bounds /\ SlaveInv /\ Turns /\ Types'
  BY TickTypes DEF Settled, SlaveInv
<1>. SUFFICES ASSUME calm' # 0  PROVE Asking'
  <2>1. calm' = 0 => /\ \A i \in 1 .. Len(queue') : LateAt(i)'
                     /\ Held' => Late(LastByte, rx.age)'
    BY <1>1, LateAll
  <2>. QED  BY <2>1 DEF Asking
<1>2. /\ Len(queue) \in Nat /\ pc' = pc /\ (queue = <<>> <=> Len(queue) = 0)
      /\ \A i \in 1 .. Len(queue) : /\ queue'[i].byte = queue[i].byte
                                    /\ queue'[i].age = queue[i].age + 1 /\ queue[i].age \in Nat
                                    /\ LateAt(i)' <=> LateAt(i)
      /\ (Len(queue') = Len(queue) \/ Len(queue') = Len(queue) + 1)
      /\ (Unheard => Len(queue') = Len(queue))
      /\ (queue' = <<>> => queue = <<>>)
  BY <1>1, TickQueue, TickDoes, TickOldRuns
<1>3. lag' = lag + 1 \/ (lag' = 0 /\ (queue = <<>> \/ Busy(tx)))
  BY <1>1, Lagging
<1>4. ASSUME NEW i \in 1 .. Len(queue), Ending(queue[i].byte), ~LateAt(i)
      PROVE  AskedThen(queue[i].byte, queue[i].age + 1) /\ queue[i].age + 1 <= lag'
  <2>1. ~Busy(tx)
    BY <1>4 DEF Overtaken
  <2>2. queue # <<>>
    BY <1>2
  <2>3. Asked(queue[i].byte, queue[i].age) /\ queue[i].age <= lag /\ queue[i].age \in Nat
    BY <1>2, <1>4 DEF Asking
  <2>4. AskedThen(queue[i].byte, queue[i].age + 1)
    BY <2>1, <2>3, AskedOn
  <2>. QED  BY <1>1, <1>3, <2>1, <2>2, <2>3, <2>4, Numbers
<1>5. ASSUME NEW i \in 1 .. Len(queue'), Ending(queue'[i].byte), ~LateAt(i)'
      PROVE  AskedThen(queue'[i].byte, queue'[i].age) /\ queue'[i].age <= lag'
  <2>1. CASE i \in 1 .. Len(queue)
    <3>1. Ending(queue[i].byte) /\ ~LateAt(i)
      BY <1>2, <1>5, <2>1
    <3>2. queue'[i].byte = queue[i].byte /\ queue'[i].age = queue[i].age + 1
      BY <1>2, <2>1
    <3>. QED  BY <1>4, <2>1, <3>1, <3>2
  <2>2. CASE i = Len(queue) + 1 /\ Len(queue') = Len(queue) + 1
    <3>1. ASSUME NEW bad \in BOOLEAN, Sends(bad)
          PROVE  AskedThen(queue'[i].byte, queue'[i].age) /\ queue'[i].age <= lag'
      <4>1. ~Unheard
        BY <1>2, <2>2
      <4>2. PICK e \in Event : Heard(e) /\ e.byte.frame = host'.frame /\ e.byte.part = host'.sent
        BY <3>1, <4>1 DEF Sends
      <4>3. queue'[i] = e /\ e.age = 0
        BY <1>1, <2>2, <4>2, TickQueue, HeardFault
      <4>4. host'.since = 0 /\ (host'.waiting <=> host'.sent = FrameLength /\ host'.frame \in Requests)
        BY <1>1, <3>1, HostSends DEF Sends, Turns
      <4>5. host'.waiting
        BY <1>5, <4>2, <4>3, <4>4 DEF Ending
      <4>6. lag' \in Nat
        BY <1>1, <1>3, Numbers
      <4>. QED  BY <4>2, <4>3, <4>4, <4>5, <4>6 DEF AskedThen
    <3>2. ASSUME NEW e \in Event, Heard(e), e.byte.part = 0  PROVE FALSE
      <4>1. queue'[i] = e
        BY <1>1, <2>2, <3>2, TickQueue
      <4>. QED  BY <1>5, <3>2, <4>1, Constants DEF Ending
    <3>3. ~Unheard
      BY <1>2, <2>2
    <3>. QED  BY <1>1, <3>1, <3>2, <3>3, TickMoves
  <2>. QED  BY <1>2, <2>1, <2>2
<1>6. ASSUME Held', ~rx'.over, Ending(LastByte)', ~Late(LastByte, rx.age)'
      PROVE  AskedThen(LastByte', rx'.age) /\ Soon'
  <2>1. /\ Held /\ rx'.age = rx.age + 1 /\ rx.age \in Nat /\ rx'.active = rx.active
        /\ rx'.over = rx.over /\ LastByte' = LastByte
    BY <1>1, <1>6, TickAgesOn, Numbers, TickDoes DEF LastByte
  <2>2. pc \notin {"SEND", "SENDING"} /\ ~Busy(tx)
    BY <1>1, <2>1 DEF Bounds, Bounded, Types, Busy
  <2>3. Ending(LastByte)
    BY <1>6, <2>1 DEF Ending
  <2>4. Asked(LastByte, rx.age) /\ Soon
    <3>1. Tainted' <=> Tainted
      BY <2>1, TickOldRuns
    <3>2. ~Late(LastByte, rx.age)
      BY <1>6, <2>1, <3>1 DEF Tainted
    <3>. QED  BY <1>6, <2>1, <2>3, <3>2 DEF Asking
  <2>5. AskedThen(LastByte', rx'.age)
    <3>1. AskedThen(LastByte, rx.age + 1)
      BY <2>1, <2>2, <2>4, AskedOn
    <3>. QED  BY <2>1, <3>1
  <2>6. \/ lag' = lag + 1
        \/ lag' = 0 /\ pc = "RECEIVE" /\ queue = <<>> /\ waited < RxWait
    BY <1>1, <2>2, Lagging
  <2>7. /\ lag \in Nat /\ waited \in Nat /\ RxWait \in Nat /\ MaxLag \in Nat
        /\ waited' = (IF pc = "RECEIVE" /\ waited < RxWait THEN waited + 1 ELSE waited)
    BY <1>1, PaceNumbers, TickDoes
  <2>8. rx'.age <= RxWait + MaxLag + lag'
    BY <2>1, <2>4, <2>6, <2>7 DEF Soon
  <2>9. pc' = "DRAIN" \/ (pc' = "SERVICE" /\ queue' = <<>>) => rx'.age <= lag'
    BY <1>2, <2>1, <2>4, <2>6, <2>7 DEF Soon
  <2>10. pc' = "RECEIVE" /\ queue' = <<>> /\ waited' < RxWait => rx'.age <= MaxLag + waited'
    BY <1>2, <2>1, <2>4, <2>7 DEF Soon
  <2>. QED  BY <2>5, <2>8, <2>9, <2>10 DEF Soon
<1>. QED  BY <1>5, <1>6 DEF Asking, Asked, AskedThen

LEMMA NextAsking ==
  ASSUME Settled, Runs, Asking, Overtaken, [Next]_vars
  PROVE  Asking'
<1>1. CASE UNCHANGED vars
  BY <1>1 DEF vars, Asking, Asked, Soon, LateAt, Late, Held, LastByte, Ending
<1>. QED  BY <1>1, TaskAsking, AnswerAsking, TickAsking DEF Next

(* ----------------------------- what is owed ---------------------------- *)

(* An answer is what the host waits for, and not for longer than this, or  *)
(* it answers what a fault has left with the receiver.                     *)
DueIn(n) == host.waiting /\ host.frame = tx.frame /\ host.since <= n
Owing ==
  /\ pc = "SEND" =>
       \/ DueIn(RxWait + MaxLag + lag)
       \/ calm <= 2 * FrameLength + Longest + RxWait + lag
  /\ Busy(tx) =>
       \/ DueIn(RxWait + 2 * MaxLag + tx.age)
       \/ calm <= 2 * FrameLength + Longest + RxWait + MaxLag + tx.age

LEMMA InitOwing == Init => Owing
<1>. SUFFICES ASSUME Init  PROVE Owing
  OBVIOUS
<1>1. tx = IdleTx /\ pc = "SERVICE"
  BY Zenon DEF Init
<1>. QED  BY <1>1, IdleProgress DEF Owing

(* The poll finishes what is held, and serves what it has finished.        *)
LEMMA PollPublishes ==
  ASSUME SlaveInv, Turns, pc = "POLL"
  PROVE  IF Held THEN GapElapsed(rx, sample) /\ PollRx(rx, sample) = Publish(rx)
         ELSE Served(PollRx(rx, sample).ready) = None
<1>1. Types /\ Bounds /\ Fits(rx) /\ sample \in Age /\ rx.age \in Age
  BY DEF SlaveInv, Types, Fits, Receiver
<1>2. CASE Held
  <2>1. rx.age >= sample + RxWait /\ rx.age <= Longest + RxWait + lag
    BY <1>1, <1>2 DEF Bounds, Bounded
  <2>2. rx.age >= sample /\ rx.age - sample >= T35 /\ rx.age - sample < Horizon
    BY <1>1, <2>1, Numbers, Bounding
  <2>3. GapElapsed(rx, sample)
    BY <1>1, <1>2, <2>2, SilentGapMeans DEF GapElapsed, Held
  <2>. QED  BY <1>1, <1>2, <2>3, PollRxFits
<1>3. CASE ~Held
  <2>1. ~GapElapsed(rx, sample) /\ rx.ready = <<>>
    BY <1>3 DEF Held, GapElapsed, Turns
  <2>2. PollRx(rx, sample) = rx
    BY <1>1, <2>1, PollRxFits
  <2>. QED  BY <1>3, <2>1, <2>2, ServedNothing
<1>. QED  BY <1>2, <1>3

(* What is served ends with the last byte of the request.                  *)
LEMMA ServedEnds ==
  ASSUME NEW s \in Seq(Byte), Served(s) # None
  PROVE  /\ Len(s) = FrameLength /\ s # <<>>
         /\ Ending(s[Len(s)]) /\ s[Len(s)].frame = Served(s)
         /\ \A i \in 1 .. Len(s) : s[i].frame = Served(s) /\ s[i].part = i
         /\ Served(s) \in Requests
<1>1. PICK f \in Requests : /\ Len(s) = FrameLength
                            /\ \A i \in 1 .. FrameLength : s[i].frame = f /\ s[i].part = i
  BY DEF Served
<1>2. Served(s) = s[1].frame /\ 1 \in 1 .. FrameLength /\ FrameLength \in 1 .. FrameLength
  BY <1>1, Constants DEF Served
<1>3. Served(s) = f
  BY <1>1, <1>2
<1>4. s # <<>>
  BY <1>1, Constants
<1>. QED  BY <1>1, <1>2, <1>3, <1>4 DEF Ending

LEMMA PollIdle ==
  ASSUME Types, Bounds, PollSlave
  PROVE  ~Busy(tx')
<1>1. ~Busy(tx)
  BY DEF PollSlave, Types, Busy
<1>2. CASE fault.new \/ ~Accepts(sample)
  BY <1>1, <1>2 DEF PollSlave
<1>3. CASE ~fault.new /\ Accepts(sample)
  BY <1>1, <1>3, PollFinishes DEF Busy
<1>. QED  BY <1>2, <1>3

(* What is served is what is held, a whole request, or too long a frame is *)
(* held, and a fault is not forgotten.                                     *)
LEMMA PollServes ==
  ASSUME Settled, Runs, PollSlave, pc' = "SEND"
  PROVE  /\ Held
         /\ \/ calm <= rx.age + 2 * FrameLength
            \/ ~rx.over /\ Ending(LastByte) /\ LastByte.frame = tx'.frame
<1>1. Types /\ Bounds /\ SlaveInv /\ Turns /\ pc = "POLL"
  BY DEF Settled, SlaveInv, PollSlave
<1>2. /\ tx'.frame = Served(PollRx(rx, sample).ready)
      /\ Served(PollRx(rx, sample).ready) # None
  <2>1. ~fault.new /\ Accepts(sample)
    BY DEF PollSlave, Wait
  <2> DEFINE f == Served(PollRx(rx, sample).ready)
  <2>2. tx' = [tx EXCEPT !.frame = f] /\ f # None
    BY <2>1 DEF PollSlave, Wait
  <2>3. Progress(tx) /\ tx \in Answer
    BY <1>1 DEF Types, Progress
  <2>. QED  BY <2>2, <2>3, Zenon DEF Answer
<1>3. Held /\ PollRx(rx, sample) = Publish(rx)
  BY <1>1, <1>2, PollPublishes
<1>4. Publish(rx).ready = (IF rx.over THEN rx.ready ELSE rx.active)
  BY <1>1, PublishFits DEF Types
<1>5. CASE rx.over
  BY <1>3, <1>5 DEF Runs, Measured
<1>6. CASE ~rx.over
  <2>1. rx.active \in Seq(Byte)
    BY <1>1 DEF Types, Fits, Receiver
  <2>2. Ending(LastByte) /\ LastByte.frame = tx'.frame
    BY <1>2, <1>3, <1>4, <1>6, <2>1, ServedEnds DEF LastByte
  <2>. QED  BY <1>3, <1>6, <2>2
<1>. QED  BY <1>3, <1>5, <1>6

LEMMA PollOwes ==
  ASSUME Settled, Runs, Asking, PollSlave
  PROVE  Owing'
<1>1. Types /\ Bounds /\ SlaveInv /\ Turns /\ pc = "POLL" /\ UNCHANGED <<lag, host, calm>>
  BY DEF Settled, SlaveInv, PollSlave
<1>2. ~Busy(tx')
  BY <1>1, PollIdle
<1>3. ASSUME pc' = "SEND"
      PROVE  \/ /\ host.waiting /\ host.frame = tx'.frame
                /\ host.since <= RxWait + MaxLag + lag
             \/ calm <= 2 * FrameLength + Longest + RxWait + lag
  <2>1. /\ Held
        /\ \/ calm <= rx.age + 2 * FrameLength
           \/ ~rx.over /\ Ending(LastByte) /\ LastByte.frame = tx'.frame
    BY <1>3, PollServes
  <2>2. CASE calm <= rx.age + 2 * FrameLength
    <3>1. rx.age <= Longest + RxWait + lag
      BY <1>1, <2>1 DEF Bounds, Bounded
    <3>2. rx.age \in Nat /\ calm \in Nat /\ lag \in Nat /\ FrameLength \in Nat
      BY <1>1, AgeNumbers, Constants
    <3>3. calm <= 2 * FrameLength + Longest + RxWait + lag
      BY <2>2, <3>1, <3>2, Bounding
    <3>. QED  BY <3>3
  <2>3. CASE ~rx.over /\ Ending(LastByte) /\ LastByte.frame = tx'.frame
    <3>1. CASE Late(LastByte, rx.age)
      <4>1. calm <= rx.age + 2 * FrameLength
        BY <2>3, <3>1 DEF Late, Ending
      <4>. QED  BY <2>2, <4>1
    <3>2. CASE Asked(LastByte, rx.age) /\ Soon
      <4>1. rx.age <= RxWait + MaxLag + lag
        BY <3>2 DEF Soon
      <4>2. rx.age <= Patience
        BY <1>1, <4>1, PaceNumbers, Numbers
      <4>. QED  BY <2>3, <3>2, <4>1, <4>2 DEF Asked
    <3>. QED  BY <2>1, <2>3, <3>1, <3>2 DEF Asking
  <2>. QED  BY <2>1, <2>2, <2>3
<1>. QED  BY <1>1, <1>2, <1>3 DEF Owing, DueIn

LEMMA TaskOwing ==
  ASSUME Settled, Runs, Asking, Owing,
         ServiceFault \/ TakeEvent \/ Drained \/ TimeOut \/ PollSlave
  PROVE  Owing'
<1>1. CASE ServiceFault \/ TakeEvent \/ Drained \/ TimeOut
  <2>1. pc' # "SEND" /\ ~Busy(tx')
    <3>1. pc # "SENDING" /\ UNCHANGED tx /\ pc' # "SEND"
      BY <1>1 DEF ServiceFault, TakeEvent, Drained, TimeOut, Wait
    <3>. QED  BY <3>1 DEF Settled, SlaveInv, Types, Busy
  <2>. QED  BY <2>1 DEF Owing
<1>. QED  BY <1>1, PollOwes

LEMMA AnswerOwing ==
  ASSUME Settled, Owing, Start \/ Refuse \/ RefuseError \/ Complete \/ Abort
  PROVE  Owing'
<1>1. Types /\ Bounds
  BY DEF Settled, SlaveInv
<1>2. CASE Start
  <2>1. /\ pc = "SEND" /\ pc' # "SEND" /\ tx'.age = 0 /\ tx'.frame = tx.frame
        /\ UNCHANGED <<lag, host, calm>>
    BY <1>1, <1>2, StartDoes DEF Start
  <2>2. /\ lag \in Nat /\ lag <= MaxLag /\ MaxLag \in Nat /\ RxWait \in Nat /\ calm \in Nat
        /\ host.since \in Nat /\ Longest \in Nat /\ FrameLength \in Nat
    BY <1>1, PaceNumbers, RunBytes, Bounding
  <2>3. DueIn(RxWait + MaxLag + lag) => DueIn(RxWait + 2 * MaxLag + 0)
    BY <2>2 DEF DueIn
  <2>4. calm <= 2 * FrameLength + Longest + RxWait + lag =>
          calm <= 2 * FrameLength + Longest + RxWait + MaxLag + 0
    BY <2>2
  <2>. QED  BY <2>1, <2>3, <2>4 DEF Owing, DueIn
<1>3. CASE Refuse \/ RefuseError \/ Complete \/ Abort
  <2>1. pc' # "SEND" /\ ~Busy(tx')
    <3>1. CASE Refuse \/ RefuseError
      <4>1. pc = "SEND" /\ pc' # "SEND" /\ tx' = [tx EXCEPT !.frame = None]
        BY <3>1 DEF Refuse, RefuseError, Wait
      <4>2. tx'.state = tx.state /\ tx.state = "IDLE"
        BY <1>1, <4>1, AnswerWith DEF Types
      <4>. QED  BY <4>1, <4>2 DEF Busy
    <3>2. CASE Complete \/ Abort
      BY <3>2, IdleProgress DEF Complete, Abort, Wait
    <3>. QED  BY <1>3, <3>1, <3>2
  <2>. QED  BY <2>1 DEF Owing
<1>. QED  BY <1>2, <1>3

(* A host that is owed its answer waits on.                                *)
LEMMA WaitsOn ==
  ASSUME Types, Turns, Tick, host.waiting, host.since < Patience,
         ~(pin /\ tx'.state = "COMPLETE" /\ tx'.frame = host.frame)
  PROVE  host'.waiting /\ host'.frame = host.frame /\ host'.since = host.since + 1
<1>1. Rests
  <2>1. \A bad \in BOOLEAN : ~Sends(bad)
    BY HostSends DEF Sends
  <2>. QED  BY <2>1, TickMoves
<1>2. Waiting.waiting /\ Waiting.since = host.since + 1
  BY WaitingDoes, PaceNumbers
<1>. QED  BY <1>1, <1>2 DEF Rests

LEMMA TickOwing ==
  ASSUME Settled, Flowing, Flowing', Owing, Tick
  PROVE  Owing'
<1>1. Types /\ Bounds /\ SlaveInv /\ Turns /\ Types'
  BY TickTypes DEF Settled, SlaveInv
<1>2. /\ lag \in Nat /\ lag <= MaxLag /\ MaxLag \in Nat /\ RxWait \in Nat /\ calm \in Nat
      /\ host.since \in Nat /\ Longest \in Nat /\ FrameLength \in Nat
      /\ calm' \in Nat /\ calm' <= calm + 1 /\ tx.age \in Nat /\ Patience \in Nat
      /\ RxWait + 2 * MaxLag + AnswerLength <= Patience /\ AnswerLength \in Nat /\ AnswerLength > 3
  BY <1>1, PaceNumbers, RunBytes, Bounding, TickAgesOn, FlowNumbers
<1>3. tx'.frame = tx.frame /\ (Busy(tx') => Busy(tx) /\ tx'.age = tx.age + 1)
  BY <1>1, TickFlow
<1>4. ASSUME pc' = "SEND"
      PROVE  \/ DueIn(RxWait + MaxLag + lag)'
             \/ calm' <= 2 * FrameLength + Longest + RxWait + lag'
  <2>1. pc = "SEND" /\ ~pin /\ lag' = lag + 1 /\ lag < MaxLag
    <3>1. pc = "SEND"
      BY <1>1, <1>4, TickDoes
    <3>2. Runnable
      BY <3>1 DEF Runnable
    <3>3. ~pin
      BY <1>1, <3>1 DEF Types, Busy
    <3>. QED  BY <1>1, <3>1, <3>2, <3>3, TickDoes
  <2>2. CASE DueIn(RxWait + MaxLag + lag)
    <3>1. host.waiting /\ host.frame = tx.frame /\ host.since <= RxWait + MaxLag + lag
      BY <2>2 DEF DueIn
    <3>2. host.since < Patience
      BY <1>2, <2>1, <3>1
    <3>3. host'.waiting /\ host'.frame = host.frame /\ host'.since = host.since + 1
      BY <1>1, <2>1, <3>1, <3>2, WaitsOn
    <3>4. host'.since <= RxWait + MaxLag + lag'
      BY <1>2, <2>1, <3>1, <3>3
    <3>. QED  BY <1>3, <3>1, <3>3, <3>4 DEF DueIn
  <2>3. CASE calm <= 2 * FrameLength + Longest + RxWait + lag
    BY <1>2, <2>1, <2>3
  <2>. QED  BY <2>1, <2>2, <2>3 DEF Owing
<1>5. ASSUME Busy(tx')
      PROVE  \/ DueIn(RxWait + 2 * MaxLag + tx.age)'
             \/ calm' <= 2 * FrameLength + Longest + RxWait + MaxLag + tx'.age
  <2>1. Busy(tx) /\ tx'.age = tx.age + 1 /\ tx'.state # "COMPLETE"
    BY <1>3, <1>5 DEF Busy
  <2>2. tx'.age <= AnswerLength \/ calm' <= AnswerLength
    <3>1. pipe' > 0 /\ (tx'.age <= tx'.next - pipe' + 1 \/ calm' <= tx'.next - pipe' + 1)
      BY <1>5 DEF Flowing
    <3>2. pipe' \in Nat /\ tx'.next \in Nat /\ tx'.next <= AnswerLength /\ tx'.age \in Nat
      <4>1. tx'.next \in 0 .. AnswerLength /\ pipe' \in 0 .. 2
        BY <1>1 DEF Types, Progress, Answer
      <4>. QED  BY <1>2, <2>1, <4>1
    <3>. QED  BY <1>2, <3>1, <3>2
  <2>3. CASE DueIn(RxWait + 2 * MaxLag + tx.age)
    <3>1. host.waiting /\ host.frame = tx.frame /\ host.since <= RxWait + 2 * MaxLag + tx.age
      BY <2>3 DEF DueIn
    <3>2. CASE tx'.age <= AnswerLength
      <4>1. host.since < Patience
        BY <1>2, <2>1, <3>1, <3>2
      <4>2. host'.waiting /\ host'.frame = host.frame /\ host'.since = host.since + 1
        BY <1>1, <2>1, <3>1, <4>1, WaitsOn
      <4>3. host'.since <= RxWait + 2 * MaxLag + tx'.age
        BY <1>2, <2>1, <3>1, <4>2
      <4>. QED  BY <1>3, <3>1, <4>2, <4>3 DEF DueIn
    <3>3. CASE calm' <= AnswerLength /\ ~(tx'.age <= AnswerLength)
      BY <1>2, <2>1, <3>3
    <3>. QED  BY <2>2, <3>2, <3>3
  <2>4. CASE calm <= 2 * FrameLength + Longest + RxWait + MaxLag + tx.age
    BY <1>2, <2>1, <2>4
  <2>. QED  BY <2>1, <2>3, <2>4 DEF Owing
<1>. QED  BY <1>4, <1>5 DEF Owing

LEMMA NextOwing ==
  ASSUME Settled, Runs, Asking, Flowing, Owing, [Next]_vars
  PROVE  Owing'
<1>1. CASE UNCHANGED vars
  BY <1>1 DEF vars, Owing, DueIn, Busy
<1>2. CASE Tick
  <2>1. Flowing'
    BY NextFlowing DEF Settled
  <2>. QED  BY <1>2, <2>1, TickOwing
<1>. QED  BY <1>1, <1>2, TaskOwing, AnswerOwing DEF Next

(* ------------------- a request behind an answer ------------------------ *)

(* A lag of a whole request leaves no fault half forgotten.                *)
Delayed == lag >= FrameLength => calm \in {0, Recovery}

LEMMA InitDelayed == Init => Delayed
  BY DEF Init, Delayed

LEMMA NextDelayed ==
  ASSUME Settled, Delayed, [Next]_vars
  PROVE  Delayed'
<1>1. CASE UNCHANGED vars
  BY <1>1 DEF vars, Delayed
<1>2. CASE ServiceFault \/ TakeEvent \/ Drained \/ TimeOut \/ PollSlave
  BY <1>2 DEF ServiceFault, TakeEvent, Drained, TimeOut, PollSlave, Delayed
<1>3. CASE Start \/ Refuse \/ Complete \/ Abort
  BY <1>3 DEF Start, Refuse, Complete, Abort, Delayed
<1>4. CASE RefuseError
  BY <1>4 DEF RefuseError, Fault, Delayed
<1>5. CASE Tick
  <2>1. \/ calm' = 0
        \/ /\ calm' = IF calm < Recovery THEN calm + 1 ELSE calm
           /\ lag' >= FrameLength => ~(calm < Recovery)
    BY <1>5, TickCalm DEF Settled, SlaveInv
  <2>2. calm \in Nat /\ calm <= Recovery /\ Recovery \in Nat
    BY AgeNumbers DEF Settled, SlaveInv
  <2>. QED  BY <2>1, <2>2 DEF Delayed
<1>. QED  BY <1>1, <1>2, <1>3, <1>4, <1>5 DEF Next

(* What comes in whole between the sample of a poll and the answer, while  *)
(* the host waits for no answer, comes after a fault.                      *)
LEMMA PollOvertaken ==
  ASSUME Settled, Behind, Runs, Asking, Delayed, PollSlave
  PROVE  Overtaken'
<1>1. Types /\ Bounds /\ pc = "POLL" /\ UNCHANGED <<queue, host, calm, lag>>
  BY DEF Settled, SlaveInv, PollSlave
<1>2. ~Busy(tx')
  BY <1>1, PollIdle
<1>. SUFFICES ASSUME pc' = "SEND", NEW i \in 1 .. Len(queue), Ending(queue[i].byte), ~LateAt(i)
              PROVE  FALSE
  BY <1>1, <1>2 DEF Overtaken, LateAt, Late, Ending
<1>3. Asked(queue[i].byte, queue[i].age) /\ queue[i].age <= lag
  BY DEF Asking
<1>4. /\ queue[i].age \in Nat /\ queue[i].byte.part \in Nat /\ Len(queue) \in Nat
      /\ queue[i].byte.part = FrameLength
  BY <1>1, RunBytes, QueueFacts DEF Ending
<1>5. calm = Recovery
  <2>1. queue[i].byte.part <= i /\ Len(queue) <= lag
    BY <1>1 DEF Behind
  <2>2. lag >= FrameLength
    BY <1>1, <1>4, <2>1, Numbers
  <2>3. calm # 0
    BY <1>4 DEF LateAt, Late
  <2>. QED  BY <2>2, <2>3 DEF Delayed
<1>6. Held /\ Ending(LastByte) /\ ~rx.over /\ ~Late(LastByte, rx.age)
  <2>1. /\ Held
        /\ \/ calm <= rx.age + 2 * FrameLength
           \/ ~rx.over /\ Ending(LastByte) /\ LastByte.frame = tx'.frame
    BY PollServes
  <2>. QED  BY <1>5, <2>1, NoneLate
<1>7. Asked(LastByte, rx.age) /\ rx.age <= RxWait + MaxLag + lag
  BY <1>6 DEF Asking, Soon
<1>8. queue[i].age < rx.age
  <2>1. queue[i].age <= sample /\ rx.age >= sample + RxWait
    BY <1>1, <1>6 DEF Bounds, Queued, Young, Bounded
  <2>2. /\ sample \in Nat /\ RxWait \in Nat /\ RxWait > 0 /\ rx.age \in Nat
    BY <1>1, Numbers, PaceNumbers
  <2>. QED  BY <1>4, <2>1, <2>2
<1>9. rx.age <= Patience /\ rx.age \in Nat /\ Patience \in Nat
  <2>1. /\ lag \in Nat /\ lag <= MaxLag /\ MaxLag \in Nat /\ RxWait \in Nat /\ Patience \in Nat
        /\ RxWait + 2 * MaxLag + AnswerLength <= Patience /\ AnswerLength \in Nat
    BY <1>1, PaceNumbers
  <2>2. rx.age \in Nat /\ rx.age <= RxWait + MaxLag + lag
    BY <1>1, <1>7, Numbers
  <2>. QED  BY ONLY <2>1, <2>2
<1>10. queue[i].age <= Patience
  BY <1>4, <1>8, <1>9
<1>11. host.since = rx.age /\ host.since = queue[i].age
  BY <1>3, <1>7, <1>9, <1>10 DEF Asked
<1>. QED  BY <1>4, <1>8, <1>9, <1>11

LEMMA TickOvertaken ==
  ASSUME Settled, Behind', Runs, Owing, Overtaken, Delayed', Tick
  PROVE  Overtaken'
<1>1. Types /\ Bounds /\ SlaveInv /\ Turns /\ Types'
  BY TickTypes DEF Settled, SlaveInv
<1>. SUFFICES ASSUME calm' # 0, pc' = "SEND" \/ Busy(tx'),
                     NEW i \in 1 .. Len(queue'), Ending(queue'[i].byte)
              PROVE  LateAt(i)'
  BY <1>1, LateAll DEF Overtaken, Ending
<1>2. /\ Len(queue) \in Nat /\ pc' = pc
      /\ \A k \in 1 .. Len(queue) : queue'[k].byte = queue[k].byte /\ (LateAt(k)' <=> LateAt(k))
      /\ (Len(queue') = Len(queue) \/ Len(queue') = Len(queue) + 1)
      /\ (Unheard => Len(queue') = Len(queue))
  BY <1>1, TickQueue, TickDoes, TickOldRuns
<1>3. Busy(tx') => Busy(tx) /\ Unheard
  <2>1. Busy(tx') => Busy(tx) /\ pin
    BY <1>1, TickFlow DEF Types
  <2>2. pin => Unheard
    BY <1>1, HeardFault, WorldDoes
  <2>. QED  BY <2>1, <2>2
<1>4. CASE i \in 1 .. Len(queue)
  <2>1. Ending(queue[i].byte)
    BY <1>2, <1>4
  <2>2. pc = "SEND" \/ Busy(tx)
    BY <1>2, <1>3
  <2>. QED  BY <1>2, <1>4, <2>1, <2>2 DEF Overtaken
<1>5. CASE i = Len(queue) + 1 /\ Len(queue') = Len(queue) + 1
  <2>1. ~Unheard /\ pc = "SEND"
    BY <1>2, <1>3, <1>5
  <2>2. lag' >= FrameLength
    <3>1. queue'[i].byte.part <= i /\ Len(queue') <= lag'
      BY <1>2, <2>1 DEF Behind
    <3>2. lag' \in Nat /\ FrameLength \in Nat
      BY <1>1, Constants DEF Types
    <3>3. queue'[i].byte.part = FrameLength
      BY DEF Ending
    <3>. QED  BY <1>2, <1>5, <3>1, <3>2, <3>3
  <2>3. calm' = Recovery
    BY <2>2 DEF Delayed
  <2>4. ~(calm <= 2 * FrameLength + Longest + RxWait + lag)
    <3>1. calm' <= calm + 1 /\ calm \in Nat /\ lag \in Nat /\ lag <= MaxLag
      BY <1>1, TickAgesOn, AgeNumbers, Numbers
    <3>. QED  BY <2>3, <3>1, RecoveryNumbers
  <2>5. host.waiting
    BY <2>1, <2>4 DEF Owing, DueIn
  <2>6. \A bad \in BOOLEAN : ~Sends(bad)
    BY <1>1, <2>5, HostSends DEF Sends
  <2>7. PICK e \in Event : Heard(e) /\ e.byte.part = 0
    BY <1>1, <2>1, <2>6, TickMoves
  <2>8. queue'[i] = e
    BY <1>1, <1>5, <2>7, TickQueue
  <2>. QED  BY <2>7, <2>8, Constants DEF Ending
<1>. QED  BY <1>2, <1>4, <1>5

LEMMA NextOvertaken ==
  ASSUME Settled, Behind, Behind', Runs, Asking, Owing, Overtaken, Delayed, Delayed', [Next]_vars
  PROVE  Overtaken'
<1>1. Types
  BY DEF Settled, SlaveInv
<1>2. CASE UNCHANGED vars
  BY <1>2 DEF vars, Overtaken, Busy, LateAt, Late
<1>3. CASE ServiceFault \/ TakeEvent \/ Drained \/ TimeOut
  <2>1. pc # "SENDING" /\ UNCHANGED tx /\ pc' # "SEND"
    BY <1>3 DEF ServiceFault, TakeEvent, Drained, TimeOut, Wait
  <2>. QED  BY <1>1, <2>1 DEF Overtaken, Types, Busy
<1>4. CASE Start
  <2>1. pc = "SEND" /\ UNCHANGED <<queue, calm>>
    BY <1>4 DEF Start
  <2>. QED  BY <2>1 DEF Overtaken, LateAt, Late
<1>5. CASE Refuse \/ RefuseError \/ Complete \/ Abort
  <2>1. pc' = "SERVICE"
    BY <1>5 DEF Refuse, RefuseError, Complete, Abort, Wait
  <2>2. Types'
    BY <1>1, <1>5, AnswerStepTypes, RefuseErrorTypes
  <2>. QED  BY <2>1, <2>2 DEF Overtaken, Types, Busy
<1>. QED  BY <1>2, <1>3, <1>4, <1>5, PollOvertaken, TickOvertaken DEF Next

(* ------------------------------ the wire ------------------------------- *)

ServedInv ==
  /\ Settled /\ Flowing /\ Behind /\ Runs /\ Asking /\ Owing
  /\ Delayed /\ Overtaken

LEMMA ServedGivesHalfDuplex == ServedInv => HalfDuplex
<1>. SUFFICES ASSUME ServedInv, calm = Recovery
              PROVE  (pin => host.waiting /\ host.frame = tx.frame) /\ (pipe > 0 => pin)
  BY DEF HalfDuplex
<1>1. Types /\ Flowing /\ Owing
  BY DEF ServedInv, Settled, SlaveInv
<1>2. /\ pipe \in Nat /\ tx.next \in Nat /\ tx.next <= AnswerLength /\ tx.age \in Nat
      /\ AnswerLength \in Nat
  BY <1>1, FlowNumbers
<1>3. pipe > 0 => pin
  <2>1. pipe > 0 /\ ~Busy(tx) => calm + pipe <= AnswerLength + 2
    BY <1>1 DEF Flowing
  <2>. QED  BY <1>1, <1>2, <2>1, RecoveryNumbers, PaceNumbers DEF Types
<1>4. ASSUME pin  PROVE host.waiting /\ host.frame = tx.frame
  <2>1. Busy(tx)
    BY <1>1, <1>4 DEF Types
  <2>2. tx.age <= AnswerLength
    <3>1. pipe > 0 /\ (tx.age <= tx.next - pipe + 1 \/ calm <= tx.next - pipe + 1)
      BY <1>1, <2>1 DEF Flowing
    <3>. QED  BY <1>2, <3>1, RecoveryNumbers
  <2>3. ~(calm <= 2 * FrameLength + Longest + RxWait + MaxLag + tx.age)
    BY <1>2, <2>2, RecoveryNumbers
  <2>. QED  BY <1>1, <2>1, <2>3 DEF Owing, DueIn
<1>. QED  BY <1>3, <1>4

LEMMA InitServed == Init => ServedInv
  BY InitTypes, InitBounds, InitTrail, InitSettled, InitFlowing, InitAsking, InitRuns, InitOwing,
     InitDelayed DEF ServedInv, Settled, SlaveInv

LEMMA NextServed ==
  ASSUME ServedInv, [Next]_vars
  PROVE  ServedInv'
<1>1. Settled' /\ Behind' /\ Delayed'
  BY NextSettled, NextBehind, NextDelayed DEF ServedInv
<1>2. Flowing' /\ Runs' /\ Asking' /\ Owing'
  BY NextFlowing, NextRuns, NextAsking, NextOwing DEF ServedInv, Settled
<1>3. Overtaken'
  BY <1>1, NextOvertaken DEF ServedInv
<1>. QED  BY <1>1, <1>2, <1>3 DEF ServedInv

(* Board A drives the wire only for the answer the host waits for, and     *)
(* nothing is on its way out while the driver is off, however many faults  *)
(* there were before the last Recovery, and however long the task is kept  *)
(* from running. A lag of a whole request begins Recovery again, but only  *)
(* if it comes while a fault is not forgotten.                             *)
THEOREM SlaveHalfDuplexCorrect == Spec => []HalfDuplex
<1>1. ServedInv /\ [Next]_vars => ServedInv'
  BY NextServed
<1>. QED  BY <1>1, InitServed, ServedGivesHalfDuplex, PTL DEF Spec

(* ------------------------- a request in time --------------------------- *)

(* What was there before the first byte of the frame the host is at; less  *)
(* than nothing, if the receiver has taken it already.                     *)
Before == Len(queue) - host.sent

(* The frame, byte by byte, from the receiver over the queue to the line   *)
OwnBytes ==
  \A j \in 1 .. Len(queue) : j > Before =>
    ~queue[j].bad /\ queue[j].byte.frame = host.frame /\ queue[j].byte.part = j - Before
OwnPace ==
  \A j \in 1 .. Len(queue) - 1 : j > Before => queue[j].age < queue[j + 1].age + T35
Latest ==
  InFrame => IF queue # <<>> THEN queue[Len(queue)].age <= line.age ELSE rx.age <= line.age

(* A silence is between the frame and what came before it, or the receiver *)
(* holds the beginning of the frame and nothing else.                      *)
Apart ==
  Before >= 0 =>
    /\ \A i \in 1 .. Before : queue[i].age >= queue[Before + 1].age + T35
    /\ Held => rx.age >= queue[Before + 1].age + T35
    /\ recovery.discarding => recovery.age >= queue[Before + 1].age + T35
Gathered ==
  Before < 0 =>
    /\ Held /\ ~rx.over /\ ~recovery.discarding
    /\ Len(rx.active) + Before = 0
    /\ \A j \in 1 .. Len(rx.active) : rx.active[j].frame = host.frame /\ rx.active[j].part = j
    /\ queue # <<>> => rx.age < queue[1].age + T35
Attended == OwnBytes /\ OwnPace /\ Latest /\ Apart /\ Gathered

(* A frame that no fault has touched is on its way to the task, all of it, *)
(* until the answer is owed.                                               *)
Clean == host.clean /\ (InFrame \/ host.waiting)
Attention == (stuck => calm = 0) /\ (Clean => calm = Recovery /\ (Owed \/ Attended))

LEMMA InitAttention == Init => Attention
<1>. SUFFICES ASSUME Init  PROVE Attention
  OBVIOUS
<1>1. ~host.clean /\ ~stuck
  BY DEF Init
<1>. QED  BY <1>1 DEF Attention, Clean

(* Once the faults are forgotten, an answer is owed to a host that waits   *)
(* for it, and is there in time.                                           *)
LEMMA Forgotten ==
  ASSUME ServedInv, calm = Recovery
  PROVE  /\ ~fault.new
         /\ Owed => /\ host.waiting /\ ~InFrame /\ host.frame = tx.frame
                    /\ host.since < Patience
         /\ Busy(tx) => tx.age < AnswerLength
         /\ ~Busy(tx) => pipe = 0
<1>1. Types /\ SlaveInv /\ Turns /\ Elder /\ Flowing /\ Owing
  BY DEF ServedInv, Settled, SlaveInv
<1>2. /\ pipe \in Nat /\ tx.next \in Nat /\ tx.next <= AnswerLength /\ tx.age \in Nat
      /\ lag \in Nat /\ lag <= MaxLag /\ host.since \in Nat /\ Patience \in Nat
      /\ RxWait + 2 * MaxLag + AnswerLength <= Patience
      /\ FrameLength > 0 /\ FrameLength \in Nat /\ RxWait > 2
  BY <1>1, FlowNumbers, PaceNumbers
<1>3. Recovery > 2 * AnswerLength + 2
  <2>1. Longest > AnswerLength
    BY <1>1, FlowNumbers, Bounding
  <2>. QED  BY <1>2, <2>1, RecoveryNumbers
<1>4. ~fault.new
  <2>. SUFFICES ASSUME fault.new  PROVE FALSE
    OBVIOUS
  <2>1. fault.age >= calm /\ fault.age <= Oldest + lag
    BY <1>1, HeadAges DEF Elder
  <2>2. Oldest + lag < Recovery
    BY <1>2, RecoveryNumbers, Bounding
  <2>3. fault.age \in Nat /\ Oldest \in Nat /\ Recovery \in Nat
    BY <1>1, AgeNumbers, Bounding
  <2>. QED  BY <1>2, <2>1, <2>2, <2>3
<1>5. Busy(tx) => tx.age < AnswerLength
  <2>. SUFFICES ASSUME Busy(tx)  PROVE tx.age < AnswerLength
    OBVIOUS
  <2>1. pipe > 0 /\ (tx.age <= tx.next - pipe \/ calm <= tx.next - pipe + AnswerLength + 3)
    BY <1>1 DEF Flowing
  <2>. QED  BY <1>2, <1>3, <2>1, RecoveryNumbers
<1>6. ~Busy(tx) => pipe = 0
  <2>1. pipe > 0 /\ ~Busy(tx) => calm + pipe <= AnswerLength + 2
    BY <1>1 DEF Flowing
  <2>. QED  BY <1>2, <1>3, <2>1, RecoveryNumbers
<1>7. ASSUME Owed
      PROVE  host.waiting /\ host.frame = tx.frame /\ host.since < Patience
  <2>1. CASE pc = "SEND"
    <3>1. ~(calm <= 2 * FrameLength + Longest + RxWait + lag)
      BY <1>2, RecoveryNumbers
    <3>2. DueIn(RxWait + MaxLag + lag)
      BY <1>1, <2>1, <3>1 DEF Owing
    <3>. QED  BY <1>2, <3>2, RecoveryNumbers DEF DueIn
  <2>2. CASE Busy(tx)
    <3>1. ~(calm <= 2 * FrameLength + Longest + RxWait + MaxLag + tx.age)
      BY <1>2, <1>5, <2>2, RecoveryNumbers
    <3>2. DueIn(RxWait + 2 * MaxLag + tx.age)
      BY <1>1, <2>2, <3>1 DEF Owing
    <3>. QED  BY <1>2, <1>5, <2>2, <3>2, RecoveryNumbers DEF DueIn
  <2>. QED  BY <1>7, <2>1, <2>2 DEF Owed
<1>8. host.waiting => ~InFrame
  BY <1>1 DEF Turns
<1>. QED  BY <1>4, <1>5, <1>6, <1>7, <1>8

LEMMA CleanFacts ==
  ASSUME ServedInv, Attention, Clean, ~Owed
  PROVE  /\ Types /\ Bounds /\ SlaveInv /\ Settled /\ Turns /\ Elder
         /\ calm = Recovery /\ Attended /\ ~fault.new /\ ~stuck /\ ~pin
         /\ host.sent \in Nat /\ host.sent > 0 /\ host.sent <= FrameLength /\ FrameLength \in Nat
         /\ Len(queue) \in Nat /\ Before \in Int /\ Before < Len(queue)
<1>1. Types /\ Bounds /\ SlaveInv /\ Settled /\ Turns /\ Elder
  BY DEF ServedInv, Settled, SlaveInv
<1>2. calm = Recovery /\ Attended
  BY DEF Attention
<1>3. ~fault.new
  BY <1>2, Forgotten
<1>4. ~stuck
  BY <1>2, RecoveryNumbers DEF Attention
<1>5. ~pin
  BY <1>1 DEF Types, Owed
<1>6. host.sent \in Nat /\ host.sent <= FrameLength /\ FrameLength \in Nat /\ FrameLength > 0
  BY <1>1, PaceNumbers
<1>7. host.sent > 0
  BY <1>1, <1>6 DEF Turns, InFrame, Clean
<1>8. Len(queue) \in Nat
  BY <1>1, QueueFacts
<1>. QED  BY <1>1, <1>2, <1>3, <1>4, <1>5, <1>6, <1>7, <1>8 DEF Before

LEMMA SameAttended ==
  ASSUME Attended, UNCHANGED <<queue, host, line, rx, recovery>>
  PROVE  Attended'
  BY DEF Attended, OwnBytes, OwnPace, Latest, Apart, Gathered, Before, InFrame, Held

(* The first byte of the frame ends what was before it; the others go on   *)
(* with it.                                                                *)
LEMMA TakenOwn ==
  ASSUME ServedInv, Attention, Clean, ~Owed, TakeEvent, Before <= 0
  PROVE  /\ rx'.age = queue[1].age /\ ~rx'.over /\ ~recovery'.discarding
         /\ Before = 0 => rx'.active = <<queue[1].byte>>
         /\ Before < 0 => rx'.active = Append(rx.active, queue[1].byte)
<1> DEFINE y == queue[1].byte
           soon == Held /\ rx.age - queue[1].age < T35
<1>1. /\ Types /\ Bounds /\ SlaveInv /\ Settled /\ Attended /\ ~fault.new /\ Before \in Int
      /\ host.sent \in Nat /\ host.sent <= FrameLength /\ Len(queue) \in Nat
  BY CleanFacts
<1>2. queue # <<>> /\ 1 \in 1 .. Len(queue) /\ queue[1].age \in Nat /\ queue[1].age \in Age
  BY <1>1, TakenFacts
<1>3. ~queue[1].bad
  BY <1>1, <1>2 DEF Attended, OwnBytes
<1>4. Accepts(queue[1].age)
  <2>. SUFFICES ASSUME recovery.discarding  PROVE Ends(queue[1].age)
    BY DEF Accepts
  <2>1. recovery.age >= queue[1].age + T35
    <3>1. Before = 0
      BY <1>1 DEF Attended, Gathered
    <3>. QED  BY <1>1, <3>1 DEF Attended, Apart
  <2>2. recovery.age <= Longest + RxWait + lag /\ recovery.age \in Age
    BY <1>1 DEF Settled, Doubt, Doubting, Types, Distrust
  <2>3. recovery.age >= queue[1].age /\ recovery.age - queue[1].age < Horizon
        /\ recovery.age - queue[1].age >= T35
    <3>1. /\ recovery.age \in Nat /\ recovery.age < Horizon /\ T35 \in Nat /\ Horizon \in Nat
      BY <1>1, <2>2, Numbers, Bounding
    <3>. QED  BY <1>2, <2>1, <3>1
  <2>4. SilentGap(recovery.age, queue[1].age)
    BY <1>2, <2>2, <2>3, SilentGapMeans
  <2>. QED  BY <2>4 DEF Ends
<1>5. Accepted(queue[1])
  <2>1. PICK r, c : Handled(queue[1], r, c) /\ Service(r, c)
    BY <1>1, TakeEventDoes
  <2>2. r = Push(rx, queue[1].byte, queue[1].age) /\ c = After(queue[1].age)
    BY <1>3, <1>4, <2>1 DEF Handled
  <2>3. rx' = r /\ recovery' = c
    BY <1>1, <2>1, ServedRecovery
  <2>. QED  BY <1>1, <1>3, <1>4, <2>2, <2>3 DEF Accepted
<1>6. /\ rx'.age = queue[1].age
      /\ rx'.over <=> soon /\ (rx.over \/ Len(rx.active) >= MaxAdu)
      /\ ~rx'.over => rx'.active = IF soon THEN Append(rx.active, y) ELSE <<y>>
  BY <1>1, <1>5, TakenPush DEF ServedInv, Runs
<1>7. ~recovery'.discarding
  BY <1>4, <1>5, Zenon DEF Accepted, After, Accepts, Trusting
<1>8. CASE Before = 0
  <2>1. Held => rx.age >= queue[1].age + T35
    BY <1>1, <1>8 DEF Attended, Apart
  <2>2. ~soon
    BY <1>1, <1>2, <2>1, RunBytes
  <2>. QED  BY <1>6, <1>7, <1>8, <2>2
<1>9. CASE Before < 0
  <2>1. Held /\ ~rx.over /\ Len(rx.active) + Before = 0 /\ rx.age < queue[1].age + T35
    BY <1>1, <1>2, <1>9 DEF Attended, Gathered
  <2>2. soon
    BY <1>1, <1>2, <2>1, RunBytes
  <2>3. ~(Len(rx.active) >= MaxAdu)
    <3>1. Len(rx.active) \in Nat /\ MaxAdu \in Nat /\ FrameLength \in Nat /\ FrameLength <= MaxAdu
      BY <1>1, <2>1, RunBytes
    <3>2. Len(queue) > 0
      BY <1>1, <1>2
    <3>. QED  BY <1>1, <2>1, <3>1, <3>2 DEF Before
  <2>. QED  BY <1>6, <1>7, <1>9, <2>1, <2>2, <2>3
<1>. QED  BY <1>1, <1>8, <1>9

LEMMA TakeAttended ==
  ASSUME ServedInv, Attention, Clean, ~Owed, TakeEvent
  PROVE  Attended'
<1>1. /\ Types /\ Bounds /\ SlaveInv /\ Attended /\ ~fault.new
      /\ Len(queue) \in Nat /\ Before \in Int /\ Before < Len(queue) /\ T35 \in Nat
  BY CleanFacts, Constants
<1>2. /\ queue # <<>> /\ queue' = Tail(queue) /\ UNCHANGED <<line, host>>
      /\ 1 \in 1 .. Len(queue) /\ queue[1].age \in Nat
  BY <1>1, TakenFacts DEF TakeEvent
<1>3. /\ Len(queue') = Len(queue) - 1 /\ (queue' = <<>> <=> Len(queue) = 1)
      /\ \A i \in 1 .. Len(queue') : queue'[i] = queue[i + 1] /\ i + 1 \in 1 .. Len(queue)
  BY <1>1, <1>2, TailFacts
<1>4. Before' = Before - 1
  <2>1. host.sent \in Nat /\ host' = host
    BY <1>1, <1>2, PaceNumbers
  <2>. QED  BY <1>1, <1>3, <2>1 DEF Before
<1>5. OwnBytes'
  <2>. SUFFICES ASSUME NEW j \in 1 .. Len(queue'), j > Before'
                PROVE  /\ ~queue'[j].bad /\ queue'[j].byte.frame = host'.frame
                       /\ queue'[j].byte.part = j - Before'
    BY DEF OwnBytes
  <2>1. queue'[j] = queue[j + 1] /\ j + 1 \in 1 .. Len(queue) /\ j + 1 > Before
    BY <1>1, <1>3, <1>4
  <2>2. ~queue[j + 1].bad /\ queue[j + 1].byte.frame = host.frame
        /\ queue[j + 1].byte.part = (j + 1) - Before
    BY <1>1, <2>1 DEF Attended, OwnBytes
  <2>. QED  BY <1>1, <1>2, <1>4, <2>1, <2>2
<1>6. OwnPace'
  <2>. SUFFICES ASSUME NEW j \in 1 .. Len(queue') - 1, j > Before'
                PROVE  queue'[j].age < queue'[j + 1].age + T35
    BY DEF OwnPace
  <2>1. /\ queue'[j] = queue[j + 1] /\ queue'[j + 1] = queue[(j + 1) + 1]
        /\ j + 1 \in 1 .. Len(queue) - 1 /\ j + 1 > Before
    BY <1>1, <1>3, <1>4
  <2>2. queue[j + 1].age < queue[(j + 1) + 1].age + T35
    BY <1>1, <2>1 DEF Attended, OwnPace
  <2>. QED  BY <2>1, <2>2
<1>7. Latest'
  <2>. SUFFICES ASSUME InFrame
                PROVE  IF queue' # <<>> THEN queue'[Len(queue')].age <= line.age
                       ELSE rx'.age <= line.age
    BY <1>2 DEF Latest, InFrame
  <2>1. queue[Len(queue)].age <= line.age
    BY <1>1, <1>2 DEF Attended, Latest
  <2>2. CASE queue' # <<>>
    <3>1. Len(queue') \in 1 .. Len(queue') /\ Len(queue') + 1 = Len(queue)
      BY <1>1, <1>3, <2>2
    <3>. QED  BY <1>3, <2>1, <2>2, <3>1
  <2>3. CASE queue' = <<>>
    <3>1. Len(queue) = 1
      BY <1>3, <2>3
    <3>2. Before <= 0
      BY <1>1, <3>1
    <3>. QED  BY <2>1, <2>3, <3>1, <3>2, TakenOwn
  <2>. QED  BY <2>2, <2>3
<1>8. Apart'
  <2>. SUFFICES ASSUME Before' >= 0
                PROVE  /\ \A i \in 1 .. Before' : queue'[i].age >= queue'[Before' + 1].age + T35
                       /\ Held' => rx'.age >= queue'[Before' + 1].age + T35
                       /\ recovery'.discarding => recovery'.age >= queue'[Before' + 1].age + T35
    BY DEF Apart
  <2>1. Before >= 1 /\ Before' + 1 = Before /\ Before' + 1 \in 1 .. Len(queue')
    BY <1>1, <1>3, <1>4
  <2>2. queue'[Before' + 1] = queue[Before + 1]
    BY <1>3, <2>1
  <2>3. /\ \A i \in 1 .. Before : queue[i].age >= queue[Before + 1].age + T35
        /\ recovery.discarding => recovery.age >= queue[Before + 1].age + T35
    BY <1>1, <2>1 DEF Attended, Apart
  <2>4. \A i \in 1 .. Before' : i + 1 \in 1 .. Before /\ i \in 1 .. Len(queue')
    BY <1>1, <1>3, <1>4
  <2>5. 1 \in 1 .. Before
    BY <1>1, <2>1
  <2>6. Held' => rx'.age = queue[1].age
    BY <1>1, HandledHolds
  <2>7. recovery'.discarding =>
          \/ recovery'.age = queue[1].age
          \/ recovery.discarding /\ recovery'.age = recovery.age
    <3>. SUFFICES ASSUME recovery'.discarding
                  PROVE  \/ recovery'.age = queue[1].age
                         \/ recovery.discarding /\ recovery'.age = recovery.age
      OBVIOUS
    <3>. QED  BY <1>1, TakenRecovery
  <2>. QED  BY <1>3, <2>2, <2>3, <2>4, <2>5, <2>6, <2>7
<1>9. Gathered'
  <2>. SUFFICES ASSUME Before' < 0
                PROVE  /\ Held' /\ ~rx'.over /\ ~recovery'.discarding
                       /\ Len(rx'.active) + Before' = 0
                       /\ \A j \in 1 .. Len(rx'.active) :
                            rx'.active[j].frame = host'.frame /\ rx'.active[j].part = j
                       /\ queue' # <<>> => rx'.age < queue'[1].age + T35
    BY DEF Gathered
  <2>1. Before <= 0
    BY <1>1, <1>4
  <2>2. /\ rx'.age = queue[1].age /\ ~rx'.over /\ ~recovery'.discarding
        /\ Before = 0 => rx'.active = <<queue[1].byte>>
        /\ Before < 0 => rx'.active = Append(rx.active, queue[1].byte)
    BY <2>1, TakenOwn
  <2>3. queue[1].byte.frame = host.frame /\ queue[1].byte.part = 1 - Before
    BY <1>1, <1>2, <2>1 DEF Attended, OwnBytes
  <2>4. queue' # <<>> => queue[1].age < queue'[1].age + T35
    <3>. SUFFICES ASSUME queue' # <<>>  PROVE queue[1].age < queue'[1].age + T35
      OBVIOUS
    <3>1. 1 \in 1 .. Len(queue) - 1 /\ 1 > Before /\ queue'[1] = queue[1 + 1]
      BY <1>1, <1>2, <1>3, <2>1
    <3>. QED  BY <1>1, <3>1 DEF Attended, OwnPace
  <2>5. CASE Before = 0
    <3>1. rx'.active = <<queue[1].byte>> /\ Len(rx'.active) = 1 /\ rx'.active # <<>>
          /\ rx'.active[1] = queue[1].byte
      <4>1. \A b : Len(<<b>>) = 1 /\ <<b>> # <<>> /\ <<b>>[1] = b
        OBVIOUS
      <4>2. rx'.active = <<queue[1].byte>>
        BY <2>2, <2>5
      <4>. QED  BY <4>1, <4>2
    <3>. QED  BY <1>2, <1>4, <2>2, <2>3, <2>4, <2>5, <3>1 DEF Held
  <2>6. CASE Before < 0
    <3>1. /\ rx.active \in Seq(Byte) /\ queue[1].byte \in Byte /\ Len(rx.active) \in Nat
          /\ Len(rx.active) + Before = 0
          /\ \A j \in 1 .. Len(rx.active) : rx.active[j].frame = host.frame /\ rx.active[j].part = j
      <4>1. rx.active \in Seq(Byte) /\ queue[1].byte \in Byte
        BY <1>1, TakenFacts DEF Types, Fits, Receiver
      <4>. QED  BY <1>1, <2>6, <4>1 DEF Attended, Gathered
    <3>2. /\ Len(rx'.active) = Len(rx.active) + 1
          /\ \A j \in 1 .. Len(rx.active) : rx'.active[j] = rx.active[j]
          /\ rx'.active[Len(rx.active) + 1] = queue[1].byte
      BY <2>2, <2>6, <3>1
    <3>3. rx'.active # <<>>
      BY <3>1, <3>2
    <3>4. \A j \in 1 .. Len(rx'.active) : j \in 1 .. Len(rx.active) \/ j = Len(rx.active) + 1
      BY <3>1, <3>2
    <3>5. Len(rx.active) + 1 = 1 - Before
      BY <1>1, <3>1
    <3>6. \A j \in 1 .. Len(rx'.active) :
            rx'.active[j].frame = host.frame /\ rx'.active[j].part = j
      BY <2>3, <3>1, <3>2, <3>4, <3>5
    <3>7. Len(rx'.active) + Before' = 0
      BY <1>1, <1>4, <3>1, <3>2
    <3>. QED  BY <1>2, <2>2, <2>4, <3>3, <3>6, <3>7 DEF Held
  <2>. QED  BY <1>1, <2>1, <2>5, <2>6
<1>. QED  BY <1>5, <1>6, <1>7, <1>8, <1>9 DEF Attended

(* The poll serves the frame, if it has come to its end; if not, it finds  *)
(* nothing of it in the receiver.                                          *)
LEMMA PollAttended ==
  ASSUME ServedInv, Attention, Clean, ~Owed, PollSlave
  PROVE  pc' = "SEND" \/ Attended'
<1>1. /\ Types /\ Bounds /\ SlaveInv /\ Settled /\ Turns /\ Attended /\ ~fault.new /\ pc = "POLL"
      /\ Len(queue) \in Nat /\ Before \in Int /\ Before < Len(queue)
      /\ host.sent \in Nat /\ host.sent <= FrameLength /\ FrameLength \in Nat
      /\ UNCHANGED <<queue, host, line>>
  BY CleanFacts DEF PollSlave
<1>2. Accepts(sample)
  BY <1>1, PollAccepts
<1>3. rx'.active = <<>> /\ ~recovery'.discarding
  BY <1>1, <1>2, PollFinishes
<1>4. CASE Before >= 0
  <2>1. queue # <<>>
    BY <1>1, <1>4, QueueFacts
  <2>2. UNCHANGED Before
    BY <1>1 DEF Before
  <2>3. OwnBytes' /\ OwnPace' /\ Latest'
    BY <1>1, <2>1, <2>2 DEF Attended, OwnBytes, OwnPace, Latest, InFrame
  <2>4. Apart' /\ Gathered'
    BY <1>1, <1>3, <1>4, <2>2 DEF Attended, Apart, Gathered, Held
  <2>. QED  BY <2>3, <2>4 DEF Attended
<1>5. CASE Before < 0
  <2>1. ~InFrame
    <3>1. InFrame => host.sent <= Len(queue)
      BY <1>1 DEF ServedInv, Behind
    <3>. QED  BY <1>1, <1>5, <3>1 DEF Before
  <2>2. host.waiting /\ host.frame \in Requests /\ host.sent = FrameLength
    BY <1>1, <2>1 DEF Clean, Turns, InFrame
  <2>3. queue = <<>> /\ Len(queue) = 0
    <3>. SUFFICES ASSUME Len(queue) # 0  PROVE FALSE
      BY <1>1, QueueFacts
    <3> DEFINE n == Len(queue)
    <3>1. n \in 1 .. Len(queue) /\ n > Before
      BY <1>1, <1>5
    <3>2. queue[n].byte.part = n - Before
      BY <1>1, <3>1 DEF Attended, OwnBytes
    <3>3. queue[n].byte.part <= n
      BY <1>1, <3>1 DEF ServedInv, Behind
    <3>. QED  BY <1>1, <1>5, <3>2, <3>3
  <2>4. /\ Held /\ ~rx.over /\ Len(rx.active) + Before = 0 /\ rx.active \in Seq(Byte)
        /\ Len(rx.active) \in Nat
        /\ \A j \in 1 .. Len(rx.active) : rx.active[j].frame = host.frame /\ rx.active[j].part = j
    <3>1. rx.active \in Seq(Byte)
      BY <1>1 DEF Types, Fits, Receiver
    <3>. QED  BY <1>1, <1>5, <3>1 DEF Attended, Gathered
  <2>5. Len(rx.active) = FrameLength
    BY <1>1, <2>2, <2>3, <2>4 DEF Before
  <2>6. Served(rx.active) = host.frame /\ host.frame # None
    <3>1. host.frame \in Frames
      BY <2>2 DEF Frames
    <3>. QED  BY <2>2, <2>4, <2>5, <3>1, ServedIs, RtuAssumption
  <2>7. PollRx(rx, sample) = Publish(rx) /\ Publish(rx).ready = rx.active
    <3>1. Fits(rx)
      BY <1>1 DEF Types
    <3>. QED  BY <1>1, <2>4, <3>1, PollPublishes, PublishFits
  <2>. QED  BY <1>1, <1>2, <2>6, <2>7 DEF PollSlave
<1>. QED  BY <1>1, <1>4, <1>5

LEMMA TaskAttention ==
  ASSUME ServedInv, Attention,
         ServiceFault \/ TakeEvent \/ Drained \/ TimeOut \/ PollSlave
  PROVE  Attention'
<1>1. Types
  BY DEF ServedInv, Settled, SlaveInv
<1>2. UNCHANGED <<host, line, stuck, calm>> /\ pc \notin {"SEND", "SENDING"}
  BY DEF ServiceFault, TakeEvent, Drained, TimeOut, PollSlave
<1>3. ~Owed
  BY <1>1, <1>2 DEF Owed, Types, Busy
<1>4. ASSUME Clean  PROVE Owed' \/ Attended'
  <2>1. Attended /\ ~fault.new
    BY <1>3, <1>4, CleanFacts
  <2>2. CASE ServiceFault
    <3>1. Service(rx, recovery) /\ UNCHANGED <<queue, host, line>>
      BY <2>2 DEF ServiceFault
    <3>. QED  BY <2>1, <3>1, ServedRecovery, SameAttended
  <2>3. CASE Drained \/ TimeOut
    <3>1. UNCHANGED <<queue, host, line, rx, recovery>>
      BY <2>3 DEF Drained, TimeOut
    <3>. QED  BY <2>1, <3>1, SameAttended
  <2>4. CASE TakeEvent
    BY <1>3, <1>4, <2>4, TakeAttended
  <2>5. CASE PollSlave
    BY <1>3, <1>4, <2>5, PollAttended DEF Owed
  <2>. QED  BY <2>2, <2>3, <2>4, <2>5
<1>. QED  BY <1>2, <1>4 DEF Attention, Clean, InFrame

(* An answer that is owed to a frame without a fault is neither refused    *)
(* nor aborted.                                                            *)
LEMMA AnswerAttention ==
  ASSUME ServedInv, Attention, Start \/ Refuse \/ RefuseError \/ Complete \/ Abort
  PROVE  Attention'
<1>1. Types
  BY DEF ServedInv, Settled, SlaveInv
<1>2. CASE RefuseError
  <2>1. calm' = 0 /\ ~host'.clean
    <3>1. host' = [host EXCEPT !.clean = FALSE] /\ host \in Master
      BY <1>1, <1>2 DEF RefuseError, Types
    <3>. QED  BY <1>2, <3>1 DEF RefuseError, Fault, Master
  <2>. QED  BY <2>1 DEF Attention, Clean
<1>3. CASE Start
  <2>1. UNCHANGED <<host, stuck, calm>> /\ Busy(tx')
    BY <1>1, <1>3, StartDoes DEF Start
  <2>. QED  BY <2>1 DEF Attention, Clean, InFrame, Owed
<1>4. CASE Refuse \/ Abort
  <2>1. UNCHANGED <<host, stuck, calm>>
    BY <1>4 DEF Refuse, Abort
  <2>2. ~Clean
    <3>. SUFFICES ASSUME calm = Recovery  PROVE FALSE
      BY DEF Attention
    <3>1. CASE Refuse
      <4>1. tx.state = "IDLE" /\ ~Busy(tx)
        BY <1>1, <3>1 DEF Refuse, Types, Busy
      <4>2. pipe = 0
        BY <4>1, Forgotten
      <4>. QED  BY <3>1, <4>1, <4>2 DEF Refuse
    <3>2. CASE Abort
      <4>1. Busy(tx) /\ tx.age >= Budget
        BY <3>2 DEF Abort, Busy
      <4>. QED  BY <1>1, <4>1, Forgotten, FlowNumbers
    <3>. QED  BY <1>4, <3>1, <3>2
  <2>. QED  BY <2>1, <2>2 DEF Attention, Clean, InFrame
<1>5. CASE Complete
  <2>1. UNCHANGED <<queue, host, line, rx, recovery, stuck, calm>> /\ ~Owed
    BY <1>5 DEF Complete, Owed, Busy
  <2>2. Clean => Attended'
    BY <2>1, CleanFacts, SameAttended
  <2>. QED  BY <2>1, <2>2 DEF Attention, Clean, InFrame
<1>. QED  BY <1>2, <1>3, <1>4, <1>5

(* What is there of the frame stays together for a character time.         *)
LEMMA TickKeeps ==
  ASSUME ServedInv, Attention, Clean, ~Owed, Tick, host'.frame = host.frame, Before' = Before
  PROVE  /\ \A j \in 1 .. Len(queue) : j > Before =>
              /\ ~queue'[j].bad /\ queue'[j].byte.frame = host'.frame
              /\ queue'[j].byte.part = j - Before'
         /\ \A j \in 1 .. Len(queue) - 1 : j > Before =>
              queue'[j].age < queue'[j + 1].age + T35
         /\ Apart'
         /\ Before < 0 =>
              /\ Held' /\ ~rx'.over /\ ~recovery'.discarding /\ Len(rx'.active) + Before' = 0
              /\ \A j \in 1 .. Len(rx'.active) :
                   rx'.active[j].frame = host'.frame /\ rx'.active[j].part = j
              /\ queue # <<>> => rx'.age < queue'[1].age + T35
<1>1. /\ Types /\ SlaveInv /\ Settled /\ Attended /\ T35 \in Nat
      /\ Len(queue) \in Nat /\ Before \in Int /\ Before < Len(queue)
  BY CleanFacts, Constants
<1>2. /\ \A i \in 1 .. Len(queue) :
           /\ queue'[i].byte = queue[i].byte /\ queue'[i].bad = queue[i].bad
           /\ queue'[i].age = queue[i].age + 1 /\ queue[i].age \in Nat
      /\ (queue = <<>> <=> Len(queue) = 0)
  BY <1>1, TickQueue
<1>3. /\ (Held' <=> Held) /\ (Held => rx'.age = rx.age + 1) /\ rx.age \in Nat
      /\ recovery.age \in Nat /\ (recovery'.discarding <=> recovery.discarding)
      /\ recovery.discarding => recovery'.age = recovery.age + 1
      /\ rx'.active = rx.active /\ rx'.over = rx.over
  BY <1>1, TickAgesOn, TickDoes, Numbers
<1>4. \A j \in 1 .. Len(queue) : j > Before =>
        /\ ~queue'[j].bad /\ queue'[j].byte.frame = host'.frame
        /\ queue'[j].byte.part = j - Before'
  BY <1>1, <1>2 DEF Attended, OwnBytes
<1>5. ASSUME NEW j \in 1 .. Len(queue) - 1, j > Before
      PROVE  queue'[j].age < queue'[j + 1].age + T35
  <2>1. j \in 1 .. Len(queue) /\ j + 1 \in 1 .. Len(queue)
    BY <1>1
  <2>2. queue[j].age < queue[j + 1].age + T35
    BY <1>1, <1>5 DEF Attended, OwnPace
  <2>3. /\ queue'[j].age = queue[j].age + 1 /\ queue'[j + 1].age = queue[j + 1].age + 1
        /\ queue[j].age \in Nat /\ queue[j + 1].age \in Nat /\ T35 \in Nat
    BY <1>1, <1>2, <2>1
  <2>. QED  BY <2>2, <2>3, SMTT(60)
<1>6. Apart'
  <2>. SUFFICES ASSUME Before >= 0
                PROVE  /\ \A i \in 1 .. Before : queue'[i].age >= queue'[Before + 1].age + T35
                       /\ Held' => rx'.age >= queue'[Before + 1].age + T35
                       /\ recovery'.discarding => recovery'.age >= queue'[Before + 1].age + T35
    BY DEF Apart
  <2>1. Before + 1 \in 1 .. Len(queue) /\ \A i \in 1 .. Before : i \in 1 .. Len(queue)
    BY <1>1
  <2>2. /\ \A i \in 1 .. Before : queue[i].age >= queue[Before + 1].age + T35
        /\ Held => rx.age >= queue[Before + 1].age + T35
        /\ recovery.discarding => recovery.age >= queue[Before + 1].age + T35
    BY <1>1 DEF Attended, Apart
  <2>3. /\ queue'[Before + 1].age = queue[Before + 1].age + 1 /\ queue[Before + 1].age \in Nat
        /\ \A i \in 1 .. Before : queue'[i].age = queue[i].age + 1 /\ queue[i].age \in Nat
    BY <1>2, <2>1
  <2>. DEFINE a == queue[Before + 1].age
  <2>4. a \in Nat /\ T35 \in Nat /\ queue'[Before + 1].age = a + 1
    BY <1>1, <2>3
  <2>5. /\ \A i \in 1 .. Before : queue[i].age >= a + T35
        /\ Held => rx.age >= a + T35
        /\ recovery.discarding => recovery.age >= a + T35
    BY <2>2
  <2>. HIDE DEF a
  <2>6. \A i \in 1 .. Before : queue'[i].age >= (a + 1) + T35
    BY <2>3, <2>4, <2>5
  <2>7. Held' => rx'.age >= (a + 1) + T35
    BY <1>3, <2>4, <2>5
  <2>8. recovery'.discarding => recovery'.age >= (a + 1) + T35
    BY <1>3, <2>4, <2>5
  <2>. QED  BY <2>4, <2>6, <2>7, <2>8
<1>7. ASSUME Before < 0
      PROVE  /\ Held' /\ ~rx'.over /\ ~recovery'.discarding /\ Len(rx'.active) + Before' = 0
             /\ \A j \in 1 .. Len(rx'.active) :
                  rx'.active[j].frame = host'.frame /\ rx'.active[j].part = j
             /\ queue # <<>> => rx'.age < queue'[1].age + T35
  <2>1. /\ Held /\ ~rx.over /\ ~recovery.discarding
        /\ Len(rx.active) + Before = 0
        /\ \A j \in 1 .. Len(rx.active) : rx.active[j].frame = host.frame /\ rx.active[j].part = j
        /\ queue # <<>> => rx.age < queue[1].age + T35
    BY <1>1, <1>7 DEF Attended, Gathered
  <2>2. /\ Held' /\ ~rx'.over /\ ~recovery'.discarding
        /\ rx'.active = rx.active /\ rx'.age = rx.age + 1 /\ rx.age \in Nat
    BY <1>3, <2>1, Zenon
  <2>3. ASSUME queue # <<>>  PROVE rx'.age < queue'[1].age + T35
    <3>1. queue'[1].age = queue[1].age + 1 /\ queue[1].age \in Nat
      BY <1>1, <1>2, <2>3
    <3>. QED  BY <1>1, <2>1, <2>2, <2>3, <3>1
  <2>. QED  BY <2>1, <2>2, <2>3
<1>. QED  BY <1>4, <1>5, <1>6, <1>7

LEMMA StaysCalm ==
  ASSUME ~stuck, calm = Recovery, NoNewFault
  PROVE  calm' = Recovery /\ calm' # 0
<1>1. ~(calm < Recovery) /\ Recovery # 0
  BY RecoveryNumbers, Constants
<1>. QED  BY <1>1 DEF NoNewFault, Lingers

(* The host does not send, and goes on with its frame or its wait.         *)
LEMMA RestsAttention ==
  ASSUME ServedInv, Attention, Tick, Rests, Unheard, Clean'
  PROVE  calm' = Recovery /\ (Owed' \/ Attended')
<1>1. Types /\ SlaveInv /\ Settled /\ Turns
  BY DEF ServedInv, Settled, SlaveInv
<1>2. host.clean /\ Pause /\ host'.clean
  BY DEF Rests, Clean
<1>3. Clean
  <2>1. InFrame' => InFrame
    <3>1. host'.sent = host.sent \/ host'.sent = FrameLength
      BY DEF Rests
    <3>. QED  BY <1>1, <3>1, PaceNumbers DEF InFrame
  <2>2. host'.waiting => host.waiting
    BY <1>1, WaitingDoes DEF Rests
  <2>. QED  BY <1>2, <2>1, <2>2 DEF Clean
<1>4. calm = Recovery /\ ~stuck
  BY <1>3, RecoveryNumbers DEF Attention
<1>5. calm' = Recovery /\ calm' # 0
  BY <1>2, <1>4, StaysCalm DEF Pause
<1>6. host'.sent = host.sent /\ host'.frame = host.frame /\ (InFrame' <=> InFrame)
  BY <1>5 DEF Rests, InFrame
<1>7. CASE Owed
  <2>1. host.waiting /\ ~InFrame /\ host.frame = tx.frame
    BY <1>4, <1>7, Forgotten
  <2>2. CASE pc = "SEND"
    BY <1>1, <1>5, <2>2, TickDoes DEF Owed
  <2>3. CASE Busy(tx) /\ ~Busy(tx')
    <3>1. pin /\ tx'.state = "COMPLETE" /\ tx'.frame = host.frame
      BY <1>1, <2>1, <2>3, TickFlow DEF Types, SlaveInv
    <3>2. ~Waiting.waiting
      BY <1>1, <2>1, <3>1, WaitingDoes
    <3>. QED  BY <1>6, <2>1, <3>2 DEF Rests, Clean
  <2>. QED  BY <1>5, <1>7, <2>2, <2>3 DEF Owed
<1>8. CASE ~Owed
  <2>1. /\ Attended /\ ~pin /\ Len(queue) \in Nat /\ Before \in Int /\ Before < Len(queue)
    BY <1>3, <1>8, CleanFacts
  <2>2. /\ Len(queue') = Len(queue) /\ (queue' = <<>> <=> queue = <<>>)
        /\ \A i \in 1 .. Len(queue) : queue'[i].age = queue[i].age + 1 /\ queue[i].age \in Nat
        /\ (queue = <<>> <=> Len(queue) = 0)
    BY <1>1, TickQueue
  <2>3. Before' = Before
    BY <1>6, <2>2 DEF Before
  <2>4. OwnBytes' /\ OwnPace' /\ Apart' /\ Gathered'
    BY <1>3, <1>6, <1>8, <2>2, <2>3, TickKeeps DEF OwnBytes, OwnPace, Gathered
  <2>5. Latest'
    <3>. SUFFICES ASSUME InFrame
                  PROVE  IF queue' # <<>> THEN queue'[Len(queue')].age <= line'.age
                         ELSE rx'.age <= line'.age
      BY <1>6 DEF Latest
    <3>1. line'.age = line.age + 1 /\ line.age \in Nat
      <4>1. line.age = 0
        BY <1>2 DEF Pause
      <4>. QED  BY <1>1, <2>1, <4>1, TickLine, PaceNumbers, SMTT(60)
    <3>2. IF queue # <<>> THEN queue[Len(queue)].age <= line.age ELSE rx.age <= line.age
      BY <2>1 DEF Attended, Latest
    <3>3. CASE queue # <<>>
      <4>1. Len(queue) \in 1 .. Len(queue)
        BY <2>1, <2>2, <3>3
      <4>2. queue'[Len(queue)].age = queue[Len(queue)].age + 1 /\ queue[Len(queue)].age \in Nat
        BY <2>2, <4>1
      <4>. QED  BY <2>2, <3>1, <3>2, <3>3, <4>2
    <3>4. CASE queue = <<>>
      <4>1. Held
        BY <2>1, <2>2, <3>4 DEF Attended, Gathered
      <4>2. rx'.age = rx.age + 1 /\ rx.age \in Nat
        BY <1>1, <4>1, TickAgesOn, Numbers
      <4>. QED  BY <2>2, <3>1, <3>2, <3>4, <4>2
    <3>. QED  BY <3>3, <3>4
  <2>. QED  BY <1>5, <2>4, <2>5 DEF Attended
<1>. QED  BY <1>7, <1>8

(* The next byte of the frame comes within its pace.                       *)
LEMMA SendsOn ==
  ASSUME ServedInv, Attention, Tick, NEW e \in Event, Heard(e), ~e.bad,
         e.byte.frame = host'.frame, e.byte.part = host'.sent,
         InFrame, Clean, ~Owed, host'.frame = host.frame, host'.sent = host.sent + 1
  PROVE  Attended'
<1>1. /\ SlaveInv /\ Settled /\ Types /\ Turns /\ Attended /\ T35 \in Nat /\ T35 > 2
      /\ Len(queue) \in Nat /\ Before \in Int /\ Before < Len(queue) /\ host.sent \in Nat
  BY CleanFacts, PaceNumbers
<1>2. /\ Len(queue') = Len(queue) + 1 /\ queue'[Len(queue) + 1] = e /\ queue' # <<>>
      /\ \A i \in 1 .. Len(queue) : queue'[i].age = queue[i].age + 1 /\ queue[i].age \in Nat
      /\ (queue = <<>> <=> Len(queue) = 0) /\ e.age = 0 /\ line'.age = 0
  BY <1>1, TickQueue, HeardFault
<1>3. Before' = Before
  BY <1>1, <1>2 DEF Before
<1>4. line.age \in Nat /\ line.age <= 1
  BY <1>1, RunBytes DEF Turns
<1>5. OwnBytes'
  <2>. SUFFICES ASSUME NEW j \in 1 .. Len(queue'), j > Before'
                PROVE  /\ ~queue'[j].bad /\ queue'[j].byte.frame = host'.frame
                       /\ queue'[j].byte.part = j - Before'
    BY DEF OwnBytes
  <2>1. CASE j \in 1 .. Len(queue)
    BY <1>3, <2>1, TickKeeps
  <2>2. CASE j = Len(queue) + 1
    <3>1. host'.sent = (Len(queue) + 1) - Before'
      BY <1>1, <1>3 DEF Before
    <3>. QED  BY <1>2, <2>2, <3>1
  <2>. QED  BY <1>1, <1>2, <2>1, <2>2
<1>6. OwnPace'
  <2>. SUFFICES ASSUME NEW j \in 1 .. Len(queue') - 1, j > Before'
                PROVE  queue'[j].age < queue'[j + 1].age + T35
    BY DEF OwnPace
  <2>1. CASE j \in 1 .. Len(queue) - 1
    BY <1>3, <2>1, TickKeeps
  <2>2. CASE j = Len(queue)
    <3>1. queue # <<>> /\ Len(queue) \in 1 .. Len(queue)
      BY <1>1, <1>2, <2>2
    <3>2. queue[Len(queue)].age <= line.age
      BY <1>1, <3>1 DEF Attended, Latest
    <3>3. queue'[Len(queue)].age = queue[Len(queue)].age + 1 /\ queue[Len(queue)].age \in Nat
      BY <1>2, <3>1
    <3>. QED  BY <1>1, <1>2, <1>4, <2>2, <3>2, <3>3
  <2>. QED  BY <1>1, <1>2, <2>1, <2>2
<1>7. Latest'
  BY <1>2 DEF Latest
<1>8. Apart'
  BY <1>3, TickKeeps
<1>9. Gathered'
  <2>. SUFFICES ASSUME Before < 0  PROVE rx'.age < queue'[1].age + T35
    BY <1>3, TickKeeps DEF Gathered
  <2>1. CASE queue # <<>>
    BY <1>3, <2>1, TickKeeps
  <2>2. CASE queue = <<>>
    <3>1. Held /\ rx.age <= line.age
      BY <1>1, <2>2 DEF Attended, Latest, Gathered
    <3>2. rx'.age = rx.age + 1 /\ rx.age \in Nat
      BY <1>1, <3>1, TickAgesOn, Numbers
    <3>3. queue'[1] = e
      BY <1>2, <2>2
    <3>. QED  BY <1>1, <1>2, <1>4, <3>1, <3>2, <3>3
  <2>. QED  BY <2>1, <2>2
<1>. QED  BY <1>5, <1>6, <1>7, <1>8, <1>9 DEF Attended

(* A new frame begins after a silence.                                     *)
LEMMA SendsFirst ==
  ASSUME ServedInv, Tick, NEW e \in Event, Heard(e), ~e.bad,
         e.byte.frame = host'.frame, e.byte.part = host'.sent,
         line.age >= T35, host'.sent = 1
  PROVE  Attended'
<1>1. SlaveInv /\ Settled /\ Types /\ Elder /\ T35 \in Nat /\ line.age \in Nat
  BY RunBytes DEF ServedInv, Settled, SlaveInv
<1>2. /\ Len(queue') = Len(queue) + 1 /\ queue'[Len(queue) + 1] = e /\ queue' # <<>>
      /\ \A i \in 1 .. Len(queue) : queue'[i].age = queue[i].age + 1 /\ queue[i].age \in Nat
      /\ e.age = 0 /\ line'.age = 0 /\ Len(queue) \in Nat
  BY <1>1, TickQueue, HeardFault
<1>3. Before' = Len(queue)
  BY <1>2 DEF Before
<1>4. OwnBytes'
  <2>. SUFFICES ASSUME NEW j \in 1 .. Len(queue'), j > Before'
                PROVE  /\ ~queue'[j].bad /\ queue'[j].byte.frame = host'.frame
                       /\ queue'[j].byte.part = j - Before'
    BY DEF OwnBytes
  <2>1. j = Len(queue) + 1 /\ j - Before' = 1
    BY <1>2, <1>3
  <2>. QED  BY <1>2, <2>1
<1>5. OwnPace'
  <2>1. \A j \in 1 .. Len(queue') - 1 : ~(j > Before')
    BY <1>2, <1>3
  <2>. QED  BY <2>1 DEF OwnPace
<1>6. Latest'
  BY <1>2 DEF Latest
<1>7. Apart'
  <2>1. queue'[Before' + 1].age = 0
    BY <1>2, <1>3
  <2>2. \A i \in 1 .. Before' : queue'[i].age >= 0 + T35
    <3>. SUFFICES ASSUME NEW i \in 1 .. Len(queue)  PROVE queue'[i].age >= 0 + T35
      BY <1>3
    <3>1. queue'[i].age = queue[i].age + 1 /\ queue[i].age \in Nat /\ queue[i].age >= line.age
      BY <1>1, <1>2 DEF Elder
    <3>. QED  BY <1>1, <3>1
  <2>3. Held' => rx'.age >= 0 + T35
    <3>. SUFFICES ASSUME Held  PROVE rx'.age >= 0 + T35
      BY <1>1, TickAgesOn
    <3>1. rx'.age = rx.age + 1 /\ rx.age \in Nat /\ rx.age >= line.age
      BY <1>1, TickAgesOn, Numbers DEF Elder
    <3>. QED  BY <1>1, <3>1
  <2>4. recovery'.discarding => recovery'.age >= 0 + T35
    <3>. SUFFICES ASSUME recovery.discarding  PROVE recovery'.age >= 0 + T35
      BY <1>1, TickAgesOn
    <3>1. /\ recovery'.age = recovery.age + 1 /\ recovery.age \in Nat
          /\ recovery.age >= line.age
      BY <1>1, TickAgesOn, Numbers DEF Elder
    <3>. QED  BY <1>1, <3>1
  <2>. QED  BY <2>1, <2>2, <2>3, <2>4 DEF Apart
<1>8. Gathered'
  BY <1>2, <1>3 DEF Gathered
<1>. QED  BY <1>4, <1>5, <1>6, <1>7, <1>8 DEF Attended

LEMMA TickAttention ==
  ASSUME ServedInv, Attention, Tick
  PROVE  Attention'
<1>1. Types /\ SlaveInv /\ Settled /\ Turns
  BY DEF ServedInv, Settled, SlaveInv
<1>2. stuck' => calm' = 0
  BY <1>1, TickCalm
<1>3. ASSUME NEW bad \in BOOLEAN, Sends(bad), Clean'
      PROVE  calm' = Recovery /\ (Owed' \/ Attended')
  <2>1. /\ ~host.waiting /\ HostByte(bad)
        /\ host'.sent = IF InFrame THEN host.sent + 1 ELSE 1
        /\ InFrame => host'.frame = host.frame
        /\ ~InFrame => line.age >= T35
        /\ (IF InFrame THEN host.clean ELSE calm = Recovery) /\ ~bad /\ ~pin
    <3>1. host'.clean
      BY <1>3 DEF Clean
    <3>. QED  BY <1>1, <1>3, <3>1, HostSends DEF Sends
  <2>2. calm = Recovery /\ ~stuck
    <3>1. InFrame => Clean
      BY <2>1 DEF Clean
    <3>. QED  BY <2>1, <3>1, RecoveryNumbers DEF Attention
  <2>3. ~Owed
    BY <2>1, <2>2, Forgotten
  <2>4. calm' = Recovery
    <3>1. NoNewFault
      BY <2>1 DEF HostByte
    <3>. QED  BY <2>2, <3>1, StaysCalm
  <2>5. PICK e \in Event : /\ Heard(e) /\ e.byte.frame = host'.frame /\ e.byte.part = host'.sent
                           /\ e.bad = bad
    BY <1>3, <2>1 DEF Sends
  <2>6. CASE InFrame
    BY <2>1, <2>3, <2>4, <2>5, <2>6, SendsOn DEF Clean
  <2>7. CASE ~InFrame
    BY <2>1, <2>4, <2>5, <2>7, SendsFirst
  <2>. QED  BY <2>6, <2>7
<1>4. ASSUME Clean'  PROVE calm' = Recovery /\ (Owed' \/ Attended')
  BY <1>1, <1>3, <1>4, TickMoves, RestsAttention DEF Clean
<1>. QED  BY <1>2, <1>4 DEF Attention

LEMMA NextAttention ==
  ASSUME ServedInv, Attention, [Next]_vars
  PROVE  Attention'
<1>1. CASE UNCHANGED vars
  <2>1. Attended => Attended'
    BY <1>1, SameAttended DEF vars
  <2>. QED  BY <1>1, <2>1 DEF vars, Attention, Clean, InFrame, Owed, Busy
<1>. QED  BY <1>1, TaskAttention, AnswerAttention, TickAttention DEF Next

LEMMA AttentionGivesTime ==
  ASSUME ServedInv, Attention
  PROVE  AnsweredInTime
<1>. SUFFICES ASSUME host.waiting, host.clean  PROVE host.since < Patience
  BY DEF AnsweredInTime
<1>1. Clean /\ calm = Recovery
  BY DEF Clean, Attention
<1>2. CASE Owed
  BY <1>1, <1>2, Forgotten
<1>3. CASE ~Owed
  <2>1. /\ Types /\ SlaveInv /\ Turns /\ Attended /\ Len(queue) \in Nat /\ Before \in Int
        /\ Before < Len(queue) /\ host.sent \in Nat /\ host.sent <= FrameLength
        /\ FrameLength \in Nat
    BY <1>1, <1>3, CleanFacts
  <2>2. host.sent = FrameLength /\ host.frame \in Requests
    BY <2>1 DEF Turns, InFrame
  <2>3. /\ lag \in Nat /\ lag <= MaxLag /\ MaxLag \in Nat /\ RxWait \in Nat /\ RxWait > 0
        /\ Patience \in Nat /\ RxWait + 2 * MaxLag + AnswerLength <= Patience
        /\ AnswerLength \in Nat /\ AnswerLength > 0 /\ rx.age \in Nat
    BY <2>1, PaceNumbers, Numbers
  <2>4. CASE queue # <<>>
    <3> DEFINE n == Len(queue)
    <3>1. n \in 1 .. Len(queue) /\ queue[n].age \in Nat
      BY <2>1, <2>4, QueueFacts, RunBytes
    <3>2. queue[n].byte.frame = host.frame /\ queue[n].byte.part = n - Before
      BY <2>1, <3>1 DEF Attended, OwnBytes
    <3>3. Ending(queue[n].byte)
      BY <2>1, <2>2, <3>2 DEF Before, Ending
    <3>4. Asked(queue[n].byte, queue[n].age) /\ queue[n].age <= lag
      BY <1>1, <3>1, <3>3, NoneLate DEF ServedInv, Asking
    <3>5. queue[n].age <= Patience /\ queue[n].age < Patience
      BY <2>3, <3>1, <3>4
    <3>. QED  BY <3>4, <3>5 DEF Asked
  <2>5. CASE queue = <<>>
    <3>1. Len(queue) = 0
      BY <2>1, <2>5, QueueFacts
    <3>2. Before < 0
      BY <2>1, <3>1
    <3>3. /\ Held /\ ~rx.over /\ Len(rx.active) + Before = 0
          /\ \A j \in 1 .. Len(rx.active) : rx.active[j].frame = host.frame /\ rx.active[j].part = j
      BY <2>1, <3>2 DEF Attended, Gathered
    <3>4. Len(rx.active) = FrameLength /\ Len(rx.active) \in 1 .. Len(rx.active)
      <4>1. Len(rx.active) \in Nat /\ Len(rx.active) > 0
        BY <2>1, <3>3, RunBytes
      <4>2. Len(rx.active) + (0 - FrameLength) = 0 /\ FrameLength \in Nat
        BY <2>1, <2>2, <3>1, <3>3 DEF Before
      <4>3. \A k \in Nat : k + (0 - FrameLength) = 0 => k = FrameLength
        BY <4>2
      <4>5. Len(rx.active) = FrameLength
        BY <4>1, <4>2, <4>3
      <4>6. Len(rx.active) \in 1 .. Len(rx.active)
        BY <4>1
      <4>. QED  BY <4>5, <4>6
    <3>5. Ending(LastByte)
      BY <2>2, <3>3, <3>4 DEF Ending, LastByte
    <3>6. Asked(LastByte, rx.age) /\ rx.age <= RxWait + MaxLag + lag
      BY <1>1, <3>3, <3>5, NoneLate DEF ServedInv, Asking, Soon
    <3>7. rx.age < Patience /\ rx.age <= Patience
      BY <2>3, <3>6
    <3>. QED  BY <3>6, <3>7 DEF Asked
  <2>. QED  BY <2>4, <2>5
<1>. QED  BY <1>2, <1>3

(* A request that begins when the faults are forgotten, and meets none, is *)
(* answered before the host gives up: neither what a fault has left in the *)
(* receiver, nor an answer that is owed to nobody, nor a task that is kept *)
(* from running for longer than a request takes, is in its way.            *)
THEOREM SlaveAnsweredInTimeCorrect == Spec => []AnsweredInTime
<1> DEFINE Inv == ServedInv /\ Attention
<1>1. Init => Inv
  BY InitServed, InitAttention
<1>2. Inv /\ [Next]_vars => Inv'
  BY NextServed, NextAttention
<1>3. Inv => AnsweredInTime
  BY AttentionGivesTime
<1>. QED  BY <1>1, <1>2, <1>3, PTL DEF Spec

=============================================================================
