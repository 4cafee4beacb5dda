--------------------------- MODULE LoggingProofs ----------------------------
(***************************************************************************)
(* For every queue capacity, every size of the event buffer and any number *)
(* of records, stops and dates: a run never overlaps a pending stop, the   *)
(* storage task never leaks the record it holds, and a drain reported DONE *)
(* left nothing behind; the rows on the card are there once, in order, in  *)
(* the file of their date, and as the ledger says.                         *)
(***************************************************************************)
EXTENDS Logging, FiniteSetTheorems, TLAPS

(* The run-control part of the state does not depend on the records at     *)
(* all; ExclusiveRun is inductive once run_state has two values.           *)
ControlInv == ExclusiveRun /\ run_state \in {"STOPPED", "RUNNING"}

LEMMA ControlInit == Init => ControlInv
  BY DEF Init, ControlInv, ExclusiveRun

LEMMA ControlNext == ControlInv /\ [Next]_vars => ControlInv'
  <1> SUFFICES ASSUME ControlInv, [Next]_vars PROVE ControlInv'
    OBVIOUS
  <1> USE DEF ControlInv, ExclusiveRun, control, vars
  <1>1. CASE CommNext
    <2>1. CASE Start
      <3>1. ~flush_pending /\ drain_state # "PENDING" /\ ~schedule_armed' /\ run_state' = "RUNNING"
            /\ UNCHANGED <<flush_pending, drain_state, date>>
        BY <2>1 DEF Start, Busy
      <3> QED BY <3>1
    <2>2. CASE Stop
      BY <2>2 DEF Stop
    <2>3. CASE Single
      BY <2>3 DEF Single
    <2>4. CASE ArmStart
      BY <2>4 DEF ArmStart, Busy
    <2>5. CASE DateChanges
      <3>1. date' # 0 /\ UNCHANGED <<run_state, start_pending, schedule_armed,
                                     flush_pending, drain_state>>
        BY <2>5 DEF DateChanges
      <3> QED BY <3>1
    <2> QED BY <1>1, <2>1, <2>2, <2>3, <2>4, <2>5 DEF CommNext
  <1>2. CASE Tick
    <2>1. PICK due \in BOOLEAN :
                 /\ due => schedule_armed
                 /\ due \/ run_state = "RUNNING"
                 /\ schedule_armed' = (schedule_armed /\ ~due)
      BY <1>2 DEF Tick
    <2>2. ~flush_pending /\ drain_state # "PENDING" /\ ~schedule_armed'
      BY <2>1
    <2>3. /\ ~start_pending' /\ UNCHANGED <<drain_state, date>>
          /\ \/ run_state' = "RUNNING" /\ UNCHANGED flush_pending
             \/ run_state' = "STOPPED"
      BY <1>2 DEF Tick
    <2> QED BY <2>2, <2>3
  <1>3. CASE EventStep \/ EventDrain
    BY <1>3 DEF EventStep, EventDrain
  <1>4. CASE FinishStopFlush
    BY <1>4 DEF FinishStopFlush
  <1>5. CASE DrainEnd
    BY <1>5 DEF DrainEnd
  <1>6. CASE UNCHANGED control
    BY <1>6
  <1>7. StorageNext => DrainEnd \/ UNCHANGED control
    BY DEF StorageNext, StorageDrain, StorageProbe, StorageProcessOne, StorageSettle,
           StorageSingle, DrainAbort, DrainClose, DrainTimeout, DrainRecord, DrainSettle
  <1>8. RetryExpires \/ CardFails \/ CardRestored => UNCHANGED control
    BY DEF RetryExpires, CardFails, CardRestored
  <1> QED
    BY <1>1, <1>2, <1>3, <1>4, <1>5, <1>6, <1>7, <1>8 DEF Next, AcquisitionNext

(* START, SINGLE and ARM_START being refused while a stop is flushed or    *)
(* drained, and every way a run ends asking for a flush, is enough: no run *)
(* and no armed start ever coexists with an unfinished stop.               *)
THEOREM ExclusiveRunCorrect == Spec => []ExclusiveRun
  <1>1. ControlInv => ExclusiveRun
    BY DEF ControlInv
  <1> QED BY ControlInit, ControlNext, <1>1, PTL DEF Spec
-----------------------------------------------------------------------------
(* A function on 1 .. n with values in S is a sequence over S of length n. *)
LEMMA FunctionIsSeq ==
  ASSUME NEW S, NEW n \in Nat, NEW q \in [1 .. n -> S]
  PROVE  q \in Seq(S) /\ Len(q) = n
  OBVIOUS

(* The queue operations keep the queue and its counters in their ranges.   *)
LEMMA WrapPositive == Wrap \in Nat /\ MaxRecords < Wrap /\ 0 < Wrap
  BY LoggingAssumption DEF Wrap

LEMMA BumpType ==
  ASSUME NEW n \in Ledger!Counter
  PROVE  Ledger!Bump(n) \in Ledger!Counter
  BY WrapPositive DEF Ledger!Counter, Ledger!Bump

LEMMA PushType ==
  ASSUME Ledger!LedgerTypeOK, NEW r \in Record, Ledger!Push(r)
  PROVE  Ledger!LedgerTypeOK'
  <1> USE BumpType, LoggingAssumption DEF Ledger!LedgerTypeOK
  <1>1. CASE Ledger!Accept(r)
    BY <1>1 DEF Ledger!Accept, Ledger!Full
  <1>2. CASE Ledger!Refuse
    BY <1>2 DEF Ledger!Refuse
  <1> QED BY <1>1, <1>2 DEF Ledger!Push

LEMMA SettleType ==
  ASSUME Ledger!LedgerTypeOK,
         \/ Ledger!Take \/ Ledger!GiveBack
         \/ Ledger!SettleSynced \/ Ledger!SettleUncertain
  PROVE  Ledger!LedgerTypeOK'
  <1> USE BumpType, LoggingAssumption DEF Ledger!LedgerTypeOK
  <1>1. CASE Ledger!Take
    <2>1. Head(pending) \in Record /\ Tail(pending) \in Seq(Record)
          /\ Len(Tail(pending)) <= Capacity
      BY <1>1 DEF Ledger!Take
    <2> QED BY <1>1, <2>1 DEF Ledger!Take
  <1>2. CASE Ledger!GiveBack
    <2>1. PICK r \in Record : held = <<r>>
      BY <1>2 DEF Ledger!GiveBack
    <2>2. CASE pending' = held \o pending /\ ~Ledger!Full /\ UNCHANGED dropped
      BY <1>2, <2>1, <2>2 DEF Ledger!GiveBack, Ledger!Full
    <2>3. CASE /\ pending' = held \o SubSeq(pending, 1, Capacity - 1)
               /\ Ledger!Full /\ dropped' = Ledger!Bump(dropped)
      <3>1. /\ SubSeq(pending, 1, Capacity - 1) \in Seq(Record)
            /\ Len(SubSeq(pending, 1, Capacity - 1)) = Capacity - 1
        BY <2>3 DEF Ledger!Full
      <3>2. pending' \in Seq(Record) /\ Len(pending') <= Capacity
        BY <2>1, <2>3, <3>1
      <3> QED BY <1>2, <2>3, <3>2 DEF Ledger!GiveBack
    <2> QED BY <1>2, <2>2, <2>3 DEF Ledger!GiveBack
  <1>3. CASE Ledger!SettleSynced
    BY <1>3 DEF Ledger!SettleSynced
  <1>4. CASE Ledger!SettleUncertain
    BY <1>4 DEF Ledger!SettleUncertain
  <1> QED BY <1>1, <1>2, <1>3, <1>4

LEMMA AccountType ==
  ASSUME Ledger!LedgerTypeOK, Account
  PROVE  Ledger!LedgerTypeOK'
  BY SettleType DEF Account

(* Event rows that move fill the queue at most to its capacity and stay    *)
(* within the record bound.                                                *)
LEMMA MoveRowsType ==
  ASSUME TypeOK, NEW w \in Nat, generated + w <= MaxRecords, MoveRows(w)
  PROVE  /\ Ledger!LedgerTypeOK'
         /\ waiting' \in 0 .. w
         /\ generated' + waiting' = generated + w
  <1> DEFINE n == SmallerOf(w, Capacity - Len(pending))
  <1>0. /\ n \in 0 .. w /\ Len(pending) \in Nat /\ n + Len(pending) <= Capacity
        /\ generated \in Nat /\ pending \in Seq(Record) /\ MaxRecords < Wrap
        /\ Capacity \in Nat /\ MaxRecords \in Nat
    BY WrapPositive, LoggingAssumption
       DEF TypeOK, SmallerOf, Ledger!LedgerTypeOK, Ledger!Counter
  <1>1. PICK d \in [1 .. n -> {0} \cup (IF date = 0 THEN {} ELSE 1 .. MaxDate)] :
          pending' = pending \o [i \in 1 .. n |-> Row(generated + i, "OTHER", d[i])]
    BY DEF MoveRows
  <1>2. /\ generated' = generated + n /\ waiting' = w - n
        /\ UNCHANGED <<held, synced, dropped, uncertain>>
    BY DEF MoveRows
  <1> HIDE DEF n
  <1>3. ASSUME NEW i \in 1 .. n
        PROVE  Row(generated + i, "OTHER", d[i]) \in Record
    <2>1. d[i] \in Date
      BY <1>1, LoggingAssumption DEF Date
    <2>2. generated + i \in 1 .. MaxRecords
      BY <1>0
    <2> QED BY <2>1, <2>2 DEF Row, Record, Trigger
  <1>4. [i \in 1 .. n |-> Row(generated + i, "OTHER", d[i])] \in [1 .. n -> Record]
    BY <1>3
  <1>5. /\ [i \in 1 .. n |-> Row(generated + i, "OTHER", d[i])] \in Seq(Record)
        /\ Len([i \in 1 .. n |-> Row(generated + i, "OTHER", d[i])]) = n
    BY <1>0, <1>4, FunctionIsSeq
  <1>6. pending' \in Seq(Record) /\ Len(pending') = Len(pending) + n
    BY <1>0, <1>1, <1>5
  <1>7. generated' \in Ledger!Counter
    BY <1>0, <1>2, WrapPositive DEF Ledger!Counter
  <1>8. Ledger!LedgerTypeOK'
    BY <1>0, <1>2, <1>6, <1>7 DEF TypeOK, Ledger!LedgerTypeOK
  <1> QED BY <1>0, <1>2, <1>8
-----------------------------------------------------------------------------
(* TypeOK in the parts the tasks own.                                      *)
ControlType ==
  /\ run_state \in {"STOPPED", "RUNNING"}
  /\ start_pending \in BOOLEAN
  /\ schedule_armed \in BOOLEAN
  /\ flush_pending \in BOOLEAN
  /\ drain_state \in {"NONE", "PENDING", "DONE", "FAILED"}
  /\ drain_generation \in Nat
  /\ date \in Date

EventsType == waiting \in 0 .. MaxWaiting /\ event_open \in BOOLEAN

TaskType ==
  /\ storage_state \in {"INITIALIZING", "READY", "DRAINING", "CLOSED"} \cup Faults
  /\ retry_due \in BOOLEAN
  /\ pc \in {"loop", "settle", "single", "drain", "drain_settle", "drain_end"}
  /\ drain_gen \in Nat
  /\ outcome \in {"NONE", "SYNCED", "UNCERTAIN", "UNWRITTEN", "CLOSED", "FAILED"}
  /\ fault \in Faults \cup {"NONE"}

EngineType ==
  /\ file \in {"none", "open", "stale"}
  /\ file_date \in Date
  /\ close_failed \in BOOLEAN
  /\ mount \in {"none", "live", "dead"}
  /\ files \in Seq(Seq(CardRow))

LEMMA TypeParts ==
  TypeOK <=> /\ ControlType /\ EventsType /\ Ledger!LedgerTypeOK
             /\ TaskType /\ EngineType /\ card_good \in BOOLEAN
  BY DEF TypeOK, ControlType, EventsType, TaskType, EngineType

(* The record bound with the rows that are still to come.                  *)
Budget == Room(0)

(* A failure on its way to the storage state names a fault.                *)
FaultKnown ==
  /\ pc \in {"settle", "drain_settle"} /\ outcome # "SYNCED" => fault \in Faults
  /\ pc = "drain_end" => \/ outcome = "CLOSED"
                         \/ outcome = "FAILED" /\ fault \in Faults

TInv == TypeOK /\ Budget /\ FaultKnown

(* A row added to the last file, or to a new one, leaves well-formed files.*)
LEMMA FilesType ==
  ASSUME files \in Seq(Seq(CardRow)), NEW r \in Record
  PROVE  /\ Extended(r) \in Seq(Seq(CardRow))
         /\ Append(files, <<Encoded(r)>>) \in Seq(Seq(CardRow))
  <1>1. Encoded(r) \in CardRow /\ <<Encoded(r)>> \in Seq(CardRow)
    BY DEF Encoded, Record, CardRow
  <1>2. \A f \in Seq(CardRow) : Append(f, Encoded(r)) \in Seq(CardRow)
    BY <1>1
  <1>3. /\ files \in [1 .. Len(files) -> Seq(CardRow)]
        /\ Len(files) \in Nat
    OBVIOUS
  <1>4. Extended(r) \in [1 .. Len(files) -> Seq(CardRow)]
    BY <1>2, <1>3 DEF Extended
  <1>5. Extended(r) \in Seq(Seq(CardRow))
    BY <1>3, <1>4, FunctionIsSeq
  <1> QED BY <1>1, <1>5

LEMMA EngineTypeNext ==
  ASSUME EngineType, date \in Date, card_good \in BOOLEAN,
         \/ ProbeOK \/ ProbeFail \/ EngineDrainOK \/ EngineDrainFail
         \/ \E r \in Record : ProcessSynced(r) \/ ProcessUnwritten(r) \/ ProcessUncertain(r)
  PROVE  EngineType'
  <1>0. 0 \in Date
    BY LoggingAssumption DEF Date
  <1>1. CASE ProbeOK
    BY <1>1 DEF EngineType, ProbeOK
  <1>2. CASE ProbeFail
    BY <1>2 DEF EngineType, ProbeFail
  <1>3. CASE EngineDrainOK
    BY <1>0, <1>3 DEF EngineType, EngineDrainOK
  <1>4. CASE EngineDrainFail
    BY <1>0, <1>4 DEF EngineType, EngineDrainFail
  <1>5. ASSUME NEW r \in Record, ProcessSynced(r) PROVE EngineType'
    <2>1. r.date \in Date
      BY DEF Record
    <2>2. files' \in {Extended(r), Append(files, <<Encoded(r)>>)}
      BY <1>5 DEF ProcessSynced
    <2>3. files' \in Seq(Seq(CardRow))
      BY <2>2, FilesType DEF EngineType
    <2>4. close_failed' \in BOOLEAN
      BY <1>5 DEF ProcessSynced, EngineType
    <2> QED BY <1>5, <2>1, <2>3, <2>4 DEF EngineType, ProcessSynced
  <1>6. ASSUME NEW r \in Record, ProcessUnwritten(r) PROVE EngineType'
    <2>1. close_failed' \in BOOLEAN
      BY <1>6 DEF ProcessUnwritten, EngineType
    <2>2. mount' \in {"none", "live", "dead"}
      BY <1>6 DEF ProcessUnwritten, EngineType
    <2> QED BY <1>0, <1>6, <2>1, <2>2 DEF EngineType, ProcessUnwritten
  <1>7. ASSUME NEW r \in Record, ProcessUncertain(r) PROVE EngineType'
    <2>1. close_failed' \in BOOLEAN
      BY <1>7 DEF ProcessUncertain, EngineType
    <2>2. files' \in {files, Extended(r), Append(files, <<Encoded(r)>>)}
      BY <1>7 DEF ProcessUncertain
    <2>3. files' \in Seq(Seq(CardRow))
      BY <2>2, FilesType DEF EngineType
    <2> QED BY <1>0, <1>7, <2>1, <2>3 DEF EngineType, ProcessUncertain
  <1> QED BY <1>1, <1>2, <1>3, <1>4, <1>5, <1>6, <1>7

LEMMA TInvInit == Init => TInv
  <1> SUFFICES ASSUME Init PROVE TInv
    OBVIOUS
  <1> USE LoggingAssumption
  <1>1. 0 \in Date /\ 0 \in Ledger!Counter /\ 1 \in Ledger!Counter
    BY WrapPositive DEF Date, Ledger!Counter
  <1>2. pending \in Seq(Record) /\ Len(pending) <= Capacity /\ Len(pending) \in {0, 1}
    <2>1. [id |-> 1, trigger |-> "OTHER", date |-> 0] \in Record
      BY <1>1 DEF Record, Trigger
    <2>2. CASE pending = <<>>
      BY <2>2
    <2>3. CASE pending = <<[id |-> 1, trigger |-> "OTHER", date |-> 0]>>
      BY <2>1, <2>3
    <2> QED BY <2>2, <2>3 DEF Init
  <1>3. TypeOK
    <2>1. Ledger!LedgerTypeOK
      BY <1>1, <1>2 DEF Init, Ledger!LedgerTypeOK
    <2>2. ControlType
      <3>1. drain_generation \in Nat
        BY DEF Init
      <3> QED BY <1>1, <3>1, Zenon DEF Init, ControlType
    <2>3. EventsType
      <3>1. waiting \in 0 .. MaxWaiting
        BY DEF Init
      <3> QED BY <3>1, Zenon DEF Init, EventsType
    <2>4. TaskType
      <3>1. drain_gen \in Nat
        BY DEF Init
      <3> QED BY <3>1, Zenon DEF Init, TaskType, Faults
    <2>5. EngineType /\ card_good \in BOOLEAN
      <3>1. files \in Seq(Seq(CardRow))
        BY DEF Init
      <3> QED BY <1>1, <3>1, Zenon DEF Init, EngineType
    <2> QED BY <2>1, <2>2, <2>3, <2>4, <2>5, TypeParts
  <1>4. Budget
    BY <1>2 DEF Init, Budget, Room
  <1>5. FaultKnown
    BY DEF Init, FaultKnown
  <1> QED BY <1>3, <1>4, <1>5 DEF TInv

LEMMA TInvNext == TInv /\ [Next]_vars => TInv'
  <1> SUFFICES ASSUME TInv, [Next]_vars PROVE TInv'
    OBVIOUS
  <1>0. /\ TypeOK /\ Budget /\ ControlType /\ EventsType /\ Ledger!LedgerTypeOK
        /\ TaskType /\ EngineType /\ card_good \in BOOLEAN /\ FaultKnown
    BY TypeParts DEF TInv
  <1>n. /\ generated \in Nat /\ waiting \in 0 .. MaxWaiting /\ MaxWaiting \in Nat
        /\ drain_generation \in Nat /\ date \in Date /\ event_open \in BOOLEAN
        /\ MaxRecords \in Nat /\ pending \in Seq(Record)
    BY <1>0, WrapPositive, LoggingAssumption
       DEF ControlType, EventsType, Ledger!LedgerTypeOK, Ledger!Counter
  <1>u. /\ UNCHANGED control => ControlType'
        /\ UNCHANGED events => EventsType'
        /\ UNCHANGED ledger => Ledger!LedgerTypeOK'
        /\ UNCHANGED task => TaskType' /\ FaultKnown'
        /\ UNCHANGED engine => EngineType'
        /\ UNCHANGED <<generated, events>> => Budget'
    <2>1. UNCHANGED control => ControlType'
      BY <1>0 DEF control, ControlType
    <2>2. UNCHANGED events => EventsType'
      BY <1>0 DEF events, EventsType
    <2>3. UNCHANGED ledger => Ledger!LedgerTypeOK'
      BY <1>0 DEF ledger, Ledger!LedgerTypeOK
    <2>4. UNCHANGED task => TaskType' /\ FaultKnown'
      BY <1>0 DEF task, TaskType, FaultKnown
    <2>5. UNCHANGED engine => EngineType'
      BY <1>0 DEF engine, EngineType
    <2>6. UNCHANGED <<generated, events>> => Budget'
      BY <1>0 DEF events, Budget, Room
    <2> QED BY <2>1, <2>2, <2>3, <2>4, <2>5, <2>6
  <1>p. SUFFICES /\ ControlType' /\ EventsType' /\ Ledger!LedgerTypeOK'
                 /\ TaskType' /\ EngineType' /\ card_good' \in BOOLEAN
                 /\ Budget' /\ FaultKnown'
    BY DEF TInv, TypeOK, ControlType, EventsType, TaskType, EngineType
  <1>1. CASE Start \/ Stop \/ ArmStart \/ DateChanges
    <2>1. UNCHANGED <<events, ledger, task, engine, card_good, generated>>
      BY <1>1 DEF Start, Stop, ArmStart, DateChanges, ledger
    <2>2. ControlType'
      BY <1>0, <1>1 DEF ControlType, Start, Stop, ArmStart, DateChanges
    <2> QED BY <1>0, <1>u, <2>1, <2>2
  <1>2. ASSUME NEW t \in Trigger, GenerateRecord(t)
        PROVE  Ledger!LedgerTypeOK' /\ (UNCHANGED events => Budget')
    <2>1. generated + 1 <= MaxRecords
      BY <1>2, <1>n DEF GenerateRecord, Room
    <2>2. Row(generated + 1, t, date) \in Record
      BY <1>n, <2>1 DEF Row, Record
    <2>3. generated' = generated + 1
      BY <1>2, <1>n, <2>1, WrapPositive
         DEF GenerateRecord, Ledger!Push, Ledger!Accept, Ledger!Refuse, Ledger!Bump
    <2>4. UNCHANGED events => Budget'
      BY <1>2, <1>n, <2>3 DEF GenerateRecord, Budget, Room, events
    <2> QED BY <1>0, <1>2, <2>2, <2>4, PushType DEF GenerateRecord
  <1>3. CASE Single
    BY <1>0, <1>u, <1>2, <1>3 DEF Single, Trigger
  <1>4. CASE Tick
    <2>1. UNCHANGED <<events, task, engine, card_good>>
      BY <1>4 DEF Tick
    <2>2. Ledger!LedgerTypeOK' /\ Budget'
      BY <1>4, <1>u, <1>2, <2>1 DEF Tick, Trigger, ledger
    <2>3. ControlType'
      <3>1. schedule_armed' \in BOOLEAN
        BY <1>4 DEF Tick
      <3> QED BY <1>0, <1>4, <3>1 DEF Tick, ControlType
    <2> QED BY <1>0, <1>u, <2>1, <2>2, <2>3
  <1>5. ASSUME NEW w \in Nat, MoveRows(w), event_open' \in BOOLEAN, w <= MaxWaiting,
               generated + w + (IF event_open' THEN 1 ELSE 0) <= MaxRecords
        PROVE  EventsType' /\ Ledger!LedgerTypeOK' /\ Budget'
    <2>1. generated + w <= MaxRecords
      BY <1>5, <1>n
    <2>2. /\ Ledger!LedgerTypeOK' /\ waiting' \in 0 .. w
          /\ generated' + waiting' = generated + w
      BY <1>0, <1>5, <2>1, MoveRowsType
    <2> QED BY <1>5, <1>n, <2>2 DEF EventsType, Budget, Room
  <1>6. SmallerOf(waiting + 1, MaxWaiting) \in Nat /\ SmallerOf(waiting + 1, MaxWaiting) <= MaxWaiting
        /\ SmallerOf(waiting + 1, MaxWaiting) <= waiting + 1
    BY <1>n DEF SmallerOf
  <1>7. CASE EventStep
    <2>1. event_open' \in BOOLEAN /\ MoveRows(SmallerOf(waiting + 1, MaxWaiting))
      BY <1>n, <1>7 DEF EventStep
    <2>2. generated + waiting + 1 + (IF event_open' THEN 1 ELSE 0) <= MaxRecords
      BY <1>n, <1>0, <1>7 DEF EventStep, Budget, Room
    <2>3. generated + SmallerOf(waiting + 1, MaxWaiting) + (IF event_open' THEN 1 ELSE 0) <= MaxRecords
      BY <1>n, <1>6, <2>1, <2>2
    <2> QED BY <1>0, <1>u, <1>5, <1>6, <1>7, <2>1, <2>3 DEF EventStep
  <1>8. CASE EventDrain
    <2>1. event_open' \in BOOLEAN /\ MoveRows(waiting) /\ waiting \in Nat /\ waiting <= MaxWaiting
          /\ generated + waiting + (IF event_open' THEN 1 ELSE 0) <= MaxRecords
      BY <1>n, <1>0, <1>8 DEF EventDrain, Budget, Room
    <2> QED BY <1>0, <1>u, <1>5, <1>8, <2>1 DEF EventDrain
  <1>9. CASE FinishStopFlush
    <2>1. ControlType'
      <3>1. drain_generation' \in Nat
        <4>1. drain_generation' \in {drain_generation, drain_generation + 1}
          BY <1>9 DEF FinishStopFlush
        <4> QED BY <1>n, <4>1
      <3>2. flush_pending' \in BOOLEAN /\ drain_state' \in {"NONE", "PENDING", "DONE", "FAILED"}
        BY <1>0, <1>9, Zenon DEF FinishStopFlush, ControlType
      <3> QED BY <1>0, <1>9, <3>1, <3>2 DEF FinishStopFlush, ControlType
    <2>2. EventsType' /\ Ledger!LedgerTypeOK' /\ Budget'
      <3> DEFINE w == IF event_open THEN SmallerOf(waiting + 1, MaxWaiting) ELSE waiting
      <3>1. w \in Nat /\ w <= MaxWaiting /\ generated + w <= MaxRecords
        BY <1>n, <1>0, <1>6 DEF Budget, Room
      <3>2. MoveRows(w) /\ event_open' = FALSE
        BY <1>9 DEF FinishStopFlush
      <3> HIDE DEF w
      <3>3. generated + w + (IF event_open' THEN 1 ELSE 0) <= MaxRecords
        BY <1>n, <3>1, <3>2
      <3> QED BY <1>5, <3>1, <3>2, <3>3
    <2> QED BY <1>0, <1>u, <1>9, <2>1, <2>2 DEF FinishStopFlush
  <1>10. CASE RetryExpires \/ CardFails \/ CardRestored
    <2>1. CASE RetryExpires
      BY <1>0, <1>u, <2>1 DEF RetryExpires, TaskType, FaultKnown, ledger
    <2>2. CASE CardFails
      BY <1>0, <1>u, <2>2 DEF CardFails, ledger
    <2>3. CASE CardRestored
      BY <1>0, <1>u, <2>3 DEF CardRestored, EngineType, ledger
    <2> QED BY <1>10, <2>1, <2>2, <2>3
  <1>11. ASSUME StorageNext, generated' = generated
         PROVE  ControlType' /\ EventsType' /\ card_good' \in BOOLEAN /\ Budget'
    <2>1. UNCHANGED <<events, card_good>>
      BY <1>11 DEF StorageNext, StorageDrain, StorageProbe, StorageProcessOne,
         StorageSettle, StorageSingle, DrainAbort, DrainClose, DrainTimeout,
         DrainRecord, DrainSettle, DrainEnd
    <2>2. UNCHANGED control \/ DrainEnd
      BY <1>11 DEF StorageNext, StorageDrain, StorageProbe, StorageProcessOne,
         StorageSettle, StorageSingle, DrainAbort, DrainClose, DrainTimeout,
         DrainRecord, DrainSettle
    <2>3. CASE DrainEnd
      BY <1>0, <1>u, <1>11, <2>1, <2>3 DEF DrainEnd, ControlType
    <2> QED BY <1>0, <1>u, <1>11, <2>1, <2>2, <2>3
  <1>12. ASSUME PopAndProcess
         PROVE  /\ Ledger!LedgerTypeOK' /\ EngineType' /\ generated' = generated
                /\ outcome' \in {"SYNCED", "UNCERTAIN", "UNWRITTEN"}
                /\ fault' \in Faults \cup {"NONE"}
                /\ outcome' # "SYNCED" => fault' \in Faults
    <2>1. Ledger!Take
      BY <1>12 DEF PopAndProcess
    <2>2. Head(pending) \in Record
      BY <1>n, <2>1 DEF Ledger!Take
    <2>3. EngineType'
      BY <1>12, <1>0, <1>n, <2>2, EngineTypeNext DEF PopAndProcess
    <2>4. Ledger!LedgerTypeOK' /\ generated' = generated
      BY <1>0, <2>1, SettleType DEF Ledger!Take
    <2>5. /\ outcome' \in {"SYNCED", "UNCERTAIN", "UNWRITTEN"}
          /\ fault' \in Faults \cup {"NONE"}
          /\ outcome' # "SYNCED" => fault' \in Faults
      BY <1>12, <1>0 DEF PopAndProcess, TaskType, FaultsNow
    <2> QED BY <2>3, <2>4, <2>5
  <1>13. ASSUME Account PROVE Ledger!LedgerTypeOK' /\ generated' = generated
    BY <1>0, <1>13, AccountType
       DEF Account, Ledger!SettleSynced, Ledger!SettleUncertain, Ledger!GiveBack
  <1>14. /\ NextTurn => /\ pc' = "loop" /\ drain_gen' \in Nat
                        /\ outcome' = "NONE" /\ fault' = "NONE"
         /\ FaultsNow \subseteq Faults
         /\ fault \in Faults \cup {"NONE"}
    BY <1>0 DEF NextTurn, FaultsNow, TaskType
  <1>15. CASE StorageDrain
    <2>1. TaskType' /\ FaultKnown'
      BY <1>0, <1>n, <1>15 DEF StorageDrain, TaskType, FaultKnown
    <2> QED BY <1>0, <1>u, <1>11, <1>15, <2>1 DEF StorageDrain, StorageNext, ledger
  <1>16. CASE StorageProbe
    <2>1. TaskType' /\ FaultKnown'
      BY <1>0, <1>14, <1>16 DEF StorageProbe, TaskType, FaultKnown
    <2>2. EngineType'
      BY <1>0, <1>n, <1>16, EngineTypeNext DEF StorageProbe
    <2> QED BY <1>0, <1>u, <1>11, <1>16, <2>1, <2>2 DEF StorageProbe, StorageNext, ledger
  <1>17. CASE StorageProcessOne
    <2>1. TaskType' /\ FaultKnown'
      BY <1>0, <1>12, <1>17 DEF StorageProcessOne, TaskType, FaultKnown
    <2> QED BY <1>0, <1>11, <1>12, <1>17, <2>1 DEF StorageProcessOne, StorageNext
  <1>18. CASE StorageSettle
    <2>1. TaskType' /\ FaultKnown'
      BY <1>0, <1>14, <1>18 DEF StorageSettle, TaskType, FaultKnown, Account
    <2> QED BY <1>0, <1>u, <1>11, <1>13, <1>18, <2>1 DEF StorageSettle, StorageNext
  <1>19. CASE StorageSingle
    <2>1. TaskType' /\ FaultKnown'
      BY <1>0, <1>14, <1>19 DEF StorageSingle, TaskType, FaultKnown, Faults
    <2>2. EngineType'
      BY <1>0, <1>n, <1>u, <1>19, EngineTypeNext DEF StorageSingle
    <2> QED BY <1>0, <1>u, <1>11, <1>19, <2>1, <2>2 DEF StorageSingle, StorageNext, ledger
  <1>20. CASE DrainAbort
    <2>1. TaskType' /\ FaultKnown'
      BY <1>0, <1>14, <1>20 DEF DrainAbort, TaskType, FaultKnown
    <2> QED BY <1>0, <1>u, <1>11, <1>20, <2>1 DEF DrainAbort, StorageNext, ledger
  <1>21. CASE DrainClose
    <2>1. TaskType' /\ FaultKnown'
      BY <1>0, <1>21 DEF DrainClose, TaskType, FaultKnown, Faults
    <2>2. EngineType'
      BY <1>0, <1>n, <1>21, EngineTypeNext DEF DrainClose
    <2> QED BY <1>0, <1>u, <1>11, <1>21, <2>1, <2>2 DEF DrainClose, StorageNext, ledger
  <1>22. CASE DrainTimeout
    <2>1. TaskType' /\ FaultKnown'
      BY <1>0, <1>22 DEF DrainTimeout, TaskType, FaultKnown, Faults
    <2> QED BY <1>0, <1>u, <1>11, <1>22, <2>1 DEF DrainTimeout, StorageNext, ledger
  <1>23. CASE DrainRecord
    <2>1. TaskType' /\ FaultKnown'
      BY <1>0, <1>12, <1>23 DEF DrainRecord, TaskType, FaultKnown
    <2> QED BY <1>0, <1>11, <1>12, <1>23, <2>1 DEF DrainRecord, StorageNext
  <1>24. CASE DrainSettle
    <2>1. TaskType' /\ FaultKnown'
      BY <1>0, <1>24 DEF DrainSettle, TaskType, FaultKnown, Account
    <2> QED BY <1>0, <1>u, <1>11, <1>13, <1>24, <2>1 DEF DrainSettle, StorageNext
  <1>25. CASE DrainEnd
    <2>1. TaskType' /\ FaultKnown'
      BY <1>0, <1>14, <1>25 DEF DrainEnd, TaskType, FaultKnown
    <2> QED BY <1>0, <1>u, <1>11, <1>25, <2>1 DEF DrainEnd, StorageNext, ledger
  <1>26. CASE UNCHANGED vars
    BY <1>0, <1>u, <1>26 DEF vars, ledger
  <1> QED
    BY <1>1, <1>3, <1>4, <1>7, <1>8, <1>9, <1>10, <1>15, <1>16, <1>17, <1>18, <1>19,
       <1>20, <1>21, <1>22, <1>23, <1>24, <1>25, <1>26
       DEF Next, CommNext, AcquisitionNext, StorageNext

(* Every queue, counter, flag and file of the recording path stays in its  *)
(* range; in particular the queue never exceeds its capacity, however the  *)
(* three tasks interleave.                                                 *)
THEOREM TypeCorrect == Spec => []TypeOK
  <1>1. TInv => TypeOK
    BY DEF TInv
  <1> QED BY TInvInit, TInvNext, <1>1, PTL DEF Spec
-----------------------------------------------------------------------------
(* What the storage task holds: a record is out exactly between the pop    *)
(* and the verdict, because each of the three verdicts takes it back.      *)
LEMMA HeldNext == HeldOnlyWhileProcessed /\ [Next]_vars => HeldOnlyWhileProcessed'
  <1> SUFFICES ASSUME HeldOnlyWhileProcessed, [Next]_vars
               PROVE  HeldOnlyWhileProcessed'
    OBVIOUS
  <1> USE DEF HeldOnlyWhileProcessed
  <1>1. ASSUME Ledger!Take PROVE held' # <<>>
    BY <1>1 DEF Ledger!Take
  <1>2. ASSUME Account PROVE held' = <<>>
    BY <1>2 DEF Account, Ledger!SettleSynced, Ledger!SettleUncertain, Ledger!GiveBack
  <1>3. ASSUME NEW t, GenerateRecord(t) PROVE held' = held
    BY <1>3 DEF GenerateRecord, Ledger!Push, Ledger!Accept, Ledger!Refuse
  <1>4. CASE CommNext
    BY <1>3, <1>4 DEF CommNext, Start, Stop, Single, ArmStart, DateChanges, ledger, task
  <1>5. CASE AcquisitionNext
    <2>1. UNCHANGED task /\ held' = held
      BY <1>3, <1>5 DEF AcquisitionNext, Tick, EventStep, EventDrain, FinishStopFlush,
         MoveRows, ledger
    <2> QED BY <2>1 DEF task
  <1>6. CASE StorageProcessOne \/ DrainRecord
    BY <1>1, <1>6 DEF StorageProcessOne, DrainRecord, PopAndProcess
  <1>7. CASE StorageSettle \/ DrainSettle
    BY <1>2, <1>7 DEF StorageSettle, DrainSettle, NextTurn
  <1>8. CASE \/ StorageDrain \/ StorageProbe \/ StorageSingle \/ DrainAbort
             \/ DrainClose \/ DrainTimeout \/ DrainEnd
    BY <1>8 DEF StorageDrain, StorageProbe, StorageSingle, DrainAbort, DrainClose,
       DrainTimeout, DrainEnd, NextTurn, ledger
  <1>9. CASE RetryExpires \/ CardFails \/ CardRestored \/ UNCHANGED vars
    BY <1>9 DEF RetryExpires, CardFails, CardRestored, vars, ledger, task
  <1> QED BY <1>4, <1>5, <1>6, <1>7, <1>8, <1>9 DEF Next, StorageNext

(* No path through the storage task, in or out of a drain, after success   *)
(* or failure, leaves the in-flight flag set: the queue cannot jam.        *)
THEOREM HeldCorrect == Spec => []HeldOnlyWhileProcessed
  <1>1. Init => HeldOnlyWhileProcessed
    BY DEF Init, HeldOnlyWhileProcessed
  <1> QED BY <1>1, HeldNext, PTL DEF Spec

(* Why DONE can be trusted. While a drain is pending nothing waits in the  *)
(* event buffer; and once the attempt has found the queue empty and closed *)
(* the file, only a newer request (a newer generation) can matter.         *)
DrainInv ==
  /\ drain_gen <= drain_generation
  /\ drain_state = "PENDING" => waiting = 0 /\ ~event_open
  /\ pc = "drain_end" /\ outcome = "CLOSED" =>
       /\ file = "none" /\ ~close_failed
       /\ OwnDrain => pending = <<>>

LEMMA DrainInvNext ==
  TInv /\ ControlInv /\ HeldOnlyWhileProcessed /\ DrainInv /\ [Next]_vars => DrainInv'
  <1> SUFFICES ASSUME TInv, ControlInv, HeldOnlyWhileProcessed, DrainInv, [Next]_vars
               PROVE  DrainInv'
    OBVIOUS
  <1>0. /\ drain_gen \in Nat /\ drain_generation \in Nat /\ waiting \in 0 .. MaxWaiting
        /\ MaxWaiting \in Nat /\ Len(pending) \in 0 .. Capacity /\ Capacity \in Nat
        /\ pending \in Seq(Record) /\ event_open \in BOOLEAN /\ close_failed \in BOOLEAN
    BY LoggingAssumption DEF TInv, TypeOK, Ledger!LedgerTypeOK
  <1>1. ASSUME UNCHANGED <<drain_state, drain_generation, task, engine>>,
               drain_state = "PENDING" => UNCHANGED <<events, pending>>
        PROVE  DrainInv'
    <2>1. UNCHANGED <<drain_gen, pc, outcome, file, close_failed>>
      BY <1>1 DEF task, engine
    <2> QED BY <1>1, <2>1 DEF DrainInv, OwnDrain, events
  <1>2. CASE CommNext
    <2>1. CASE Single
      BY <1>1, <2>1 DEF Single, Busy, control
    <2>2. CASE Start \/ Stop \/ ArmStart \/ DateChanges
      BY <1>1, <2>2 DEF Start, Stop, ArmStart, DateChanges, ledger
    <2> QED BY <1>2, <2>1, <2>2 DEF CommNext
  <1>3. CASE Tick
    <2>1. drain_state # "PENDING"
      BY <1>3 DEF Tick, ControlInv, ExclusiveRun
    <2> QED BY <1>1, <1>3, <2>1 DEF Tick
  <1>4. ASSUME MoveRows(0) PROVE pending' = pending /\ waiting' = 0
    <2> DEFINE n == SmallerOf(0, Capacity - Len(pending))
    <2>1. n = 0
      BY <1>0 DEF SmallerOf
    <2>2. PICK d : pending' = pending \o [i \in 1 .. n |-> Row(generated + i, "OTHER", d[i])]
      BY <1>4 DEF MoveRows
    <2>3. waiting' = 0 - n
      BY <1>4 DEF MoveRows
    <2> HIDE DEF n
    <2>4. [i \in 1 .. n |-> Row(generated + i, "OTHER", d[i])] = <<>>
      BY <2>1
    <2> QED BY <1>0, <2>1, <2>2, <2>3, <2>4
  <1>5. CASE EventStep
    <2>1. drain_state # "PENDING"
      BY <1>5 DEF EventStep, ControlInv, ExclusiveRun, DrainInv
    <2> QED BY <1>1, <1>5, <2>1 DEF EventStep, control
  <1>6. CASE EventDrain
    <2>1. drain_state = "PENDING" => MoveRows(0)
      BY <1>6 DEF EventDrain, DrainInv
    <2>2. drain_state = "PENDING" => UNCHANGED <<events, pending>>
      BY <1>4, <1>6, <2>1 DEF EventDrain, DrainInv, events
    <2> QED BY <1>1, <1>6, <2>2 DEF EventDrain, control
  <1>7. CASE FinishStopFlush
    <2>1. CASE drain_generation' = drain_generation + 1 /\ waiting' = 0
      <3>1. ~OwnDrain' /\ drain_gen' = drain_gen /\ drain_gen' <= drain_generation'
        BY <1>0, <1>7, <2>1 DEF FinishStopFlush, DrainInv, OwnDrain, task
      <3>2. ~event_open' /\ UNCHANGED <<pc, outcome, file, close_failed>>
        BY <1>7 DEF FinishStopFlush, task, engine
      <3> QED BY <2>1, <3>1, <3>2 DEF DrainInv
    <2>2. CASE waiting' > 0 /\ UNCHANGED <<drain_state, drain_generation>>
      <3>1. drain_state # "PENDING"
        <4>1. SUFFICES ASSUME drain_state = "PENDING" PROVE FALSE
          OBVIOUS
        <4>2. waiting = 0 /\ ~event_open
          BY <4>1 DEF DrainInv
        <4>3. MoveRows(0)
          BY <1>7, <4>2 DEF FinishStopFlush
        <4> QED BY <1>4, <2>2, <4>3
      <3> QED BY <1>1, <1>7, <2>2, <3>1 DEF FinishStopFlush
    <2> QED BY <1>7, <2>1, <2>2 DEF FinishStopFlush
  <1>8. CASE DrainClose
    <2>1. CASE EngineDrainOK
      <3>1. file' = "none" /\ ~close_failed'
        BY <2>1 DEF EngineDrainOK
      <3>2. pending' = <<>> /\ UNCHANGED <<control, events, drain_gen>>
        BY <1>8 DEF DrainClose, ledger
      <3> QED BY <3>1, <3>2 DEF DrainInv, control, events
    <2>2. CASE outcome' = "FAILED"
      BY <1>8, <2>2 DEF DrainClose, DrainInv, control, events
    <2> QED BY <1>8, <2>1, <2>2 DEF DrainClose
  <1>9. CASE DrainEnd
    <2>1. pc' = "loop" /\ drain_gen' = 0 /\ UNCHANGED <<drain_generation, events>>
      BY <1>9 DEF DrainEnd, NextTurn
    <2>2. drain_state' = "PENDING" => drain_state = "PENDING"
      BY <1>9 DEF DrainEnd
    <2> QED BY <1>0, <2>1, <2>2 DEF DrainInv, events
  <1>10. ASSUME UNCHANGED <<control, events>>, pc' # "drain_end",
                drain_gen' \in {0, drain_gen, drain_generation}
         PROVE  DrainInv'
    BY <1>0, <1>10 DEF DrainInv, control, events
  <1>11. CASE \/ StorageDrain \/ StorageProbe \/ StorageProcessOne \/ StorageSettle
              \/ StorageSingle \/ DrainAbort \/ DrainRecord
    BY <1>10, <1>11 DEF StorageDrain, StorageProbe, StorageProcessOne, StorageSettle,
       StorageSingle, DrainAbort, DrainRecord, NextTurn
  <1>12. CASE DrainTimeout \/ DrainSettle
    <2>1. /\ UNCHANGED <<control, events, drain_gen>>
          /\ pc' = "drain_end" => outcome' = "FAILED"
      BY <1>12 DEF DrainTimeout, DrainSettle
    <2> QED BY <2>1 DEF DrainInv, control, events
  <1>13. CASE RetryExpires \/ CardFails \/ CardRestored \/ UNCHANGED vars
    <2>1. /\ UNCHANGED <<control, events, pending, drain_gen, pc, outcome, file, close_failed>>
      BY <1>13 DEF RetryExpires, CardFails, CardRestored, vars, ledger, task, engine
    <2> QED BY <2>1 DEF DrainInv, OwnDrain, control, events
  <1> QED
    BY <1>2, <1>3, <1>5, <1>6, <1>7, <1>8, <1>9, <1>11, <1>12, <1>13
       DEF Next, AcquisitionNext, StorageNext

LEMMA DrainDoneStep ==
  HeldOnlyWhileProcessed /\ DrainInv /\ [Next]_vars =>
    [drain_state' = "DONE" /\ drain_state # "DONE" =>
       /\ waiting = 0 /\ ~event_open
       /\ pending = <<>> /\ held = <<>>
       /\ file = "none" /\ ~close_failed]_vars
  <1> SUFFICES ASSUME HeldOnlyWhileProcessed, DrainInv, Next,
                      drain_state' = "DONE", drain_state # "DONE"
               PROVE  /\ waiting = 0 /\ ~event_open
                      /\ pending = <<>> /\ held = <<>>
                      /\ file = "none" /\ ~close_failed
    OBVIOUS
  <1>1. CommNext => drain_state' = drain_state
    BY DEF CommNext, Start, Stop, Single, ArmStart, DateChanges, control
  <1>2. AcquisitionNext => drain_state' \in {drain_state, "PENDING"}
    BY DEF AcquisitionNext, Tick, EventStep, EventDrain, FinishStopFlush, control
  <1>3. StorageNext => DrainEnd \/ drain_state' = drain_state
    BY DEF StorageNext, StorageDrain, StorageProbe, StorageProcessOne, StorageSettle,
       StorageSingle, DrainAbort, DrainClose, DrainTimeout, DrainRecord, DrainSettle, control
  <1>4. RetryExpires \/ CardFails \/ CardRestored => drain_state' = drain_state
    BY DEF RetryExpires, CardFails, CardRestored, control
  <1>5. DrainEnd
    BY <1>1, <1>2, <1>3, <1>4 DEF Next
  <1>6. OwnDrain /\ pc = "drain_end" /\ outcome = "CLOSED"
    BY <1>5 DEF DrainEnd
  <1>7. drain_state = "PENDING"
    BY <1>6 DEF OwnDrain
  <1> QED BY <1>6, <1>7 DEF DrainInv, HeldOnlyWhileProcessed

(* A drain is reported DONE only when nothing waits in the event buffer or *)
(* the queue, nothing is out, and the file is closed without an earlier    *)
(* close having failed, whatever STOPs came during the attempt.            *)
THEOREM DrainDoneCorrect == Spec => DrainDoneMeansFlushed
  <1>1. Init => TInv /\ ControlInv /\ HeldOnlyWhileProcessed /\ DrainInv
    <2>1. Init => HeldOnlyWhileProcessed
      BY DEF Init, HeldOnlyWhileProcessed
    <2>2. Init => DrainInv
      BY DEF Init, DrainInv
    <2> QED BY <2>1, <2>2, TInvInit, ControlInit
  <1> QED
    BY <1>1, TInvNext, ControlNext, HeldNext, DrainInvNext, DrainDoneStep, PTL
       DEF Spec, DrainDoneMeansFlushed
-----------------------------------------------------------------------------
(***************************************************************************)
(* The card: rows stay in the order they were generated, a file holds one  *)
(* date, and the ledger tells the truth about both.                        *)
(***************************************************************************)
(* The places of the rows on the card, and the row at a place.             *)
Cells(f) == {p \in (1 .. Len(f)) \X Nat : p[2] \in 1 .. Len(f[p[1]])}
At(f, p) == f[p[1]][p[2]]

(* The place a row takes when it is added to the last file, or to a new    *)
(* one.                                                                    *)
NewCell(f) == <<Len(f), Len(f[Len(f)])>>

LEMMA CellTyped ==
  ASSUME NEW f \in Seq(Seq(CardRow)), NEW p \in Cells(f)
  PROVE  /\ p = <<p[1], p[2]>> /\ p[1] \in 1 .. Len(f) /\ p[2] \in 1 .. Len(f[p[1]])
         /\ p[1] \in Nat /\ p[2] \in Nat
         /\ At(f, p) \in CardRow /\ At(f, p).id \in Nat
  <1>1. p[1] \in 1 .. Len(f) /\ p[2] \in 1 .. Len(f[p[1]]) /\ p = <<p[1], p[2]>>
    BY DEF Cells
  <1>2. f[p[1]] \in Seq(CardRow)
    BY <1>1
  <1>3. At(f, p) \in CardRow
    BY <1>1, <1>2 DEF At
  <1>4. At(f, p).id \in Nat
    BY <1>3, LoggingAssumption DEF CardRow
  <1> QED BY <1>1, <1>2, <1>3, <1>4

(* A row added to the last file: one place more, after all the others, and *)
(* the others keep their rows.                                             *)
LEMMA RowExtends ==
  ASSUME files \in Seq(Seq(CardRow)), NEW r \in Record, files # <<>>,
         NEW f, f = Extended(r)
  PROVE  /\ Cells(f) = Cells(files) \cup {NewCell(f)}
         /\ \A p \in Cells(files) : At(f, p) = At(files, p) /\ Before(p, NewCell(f))
         /\ At(f, NewCell(f)) = Encoded(r)
         /\ NewCell(f) = <<Len(files), Len(files[Len(files)]) + 1>>
         /\ Len(f) = Len(files)
  <1> DEFINE n == Len(files)
             last == files[n]
  <1>1. n \in Nat \ {0} /\ last \in Seq(CardRow) /\ Len(last) \in Nat
        /\ Encoded(r) \in CardRow
    BY DEF Encoded, Record, CardRow
  <1>2. /\ Len(f) = n
        /\ f[n] = Append(last, Encoded(r))
        /\ \A i \in 1 .. n : i # n => f[i] = files[i]
    BY <1>1, FilesType DEF Extended
  <1>3. /\ Len(f[n]) = Len(last) + 1
        /\ f[n][Len(last) + 1] = Encoded(r)
        /\ \A j \in 1 .. Len(last) : f[n][j] = last[j]
    BY <1>1, <1>2
  <1>4. NewCell(f) = <<n, Len(last) + 1>>
    BY <1>2, <1>3 DEF NewCell
  <1>5. ASSUME NEW p \in Cells(files)
        PROVE  p \in Cells(f) /\ At(f, p) = At(files, p) /\ Before(p, NewCell(f))
    <2>1. p = <<p[1], p[2]>> /\ p[1] \in 1 .. n /\ p[2] \in 1 .. Len(files[p[1]]) /\ p[2] \in Nat
      BY CellTyped
    <2>2. CASE p[1] = n
      BY <1>1, <1>2, <1>3, <1>4, <2>1, <2>2 DEF Cells, At, Before
    <2>3. CASE p[1] # n
      <3>1. p[1] < n
        BY <1>1, <2>1, <2>3
      <3> QED BY <1>1, <1>2, <1>4, <2>1, <2>3, <3>1 DEF Cells, At, Before
    <2> QED BY <2>2, <2>3
  <1>6. NewCell(f) \in Cells(f)
    BY <1>1, <1>2, <1>3, <1>4 DEF Cells
  <1>7. ASSUME NEW p \in Cells(f), p # NewCell(f) PROVE p \in Cells(files)
    <2>1. p = <<p[1], p[2]>> /\ p[1] \in 1 .. n /\ p[2] \in 1 .. Len(f[p[1]]) /\ p[2] \in Nat
      BY <1>2 DEF Cells
    <2>2. CASE p[1] = n
      <3>1. p[2] # Len(last) + 1
        BY <1>4, <1>7, <2>1, <2>2
      <3>2. p[2] \in 1 .. Len(last)
        BY <1>1, <1>3, <2>1, <2>2, <3>1
      <3> QED BY <2>1, <2>2, <3>2 DEF Cells
    <2>3. CASE p[1] # n
      BY <1>2, <2>1, <2>3 DEF Cells
    <2> QED BY <2>2, <2>3
  <1>8. Cells(f) = Cells(files) \cup {NewCell(f)}
    BY <1>5, <1>6, <1>7
  <1>9. At(f, NewCell(f)) = Encoded(r)
    BY <1>2, <1>3, <1>4 DEF At
  <1> QED BY <1>2, <1>4, <1>5, <1>8, <1>9

(* The same for the first row of a new file.                               *)
LEMMA RowStarts ==
  ASSUME files \in Seq(Seq(CardRow)), NEW r \in Record,
         NEW f, f = Append(files, <<Encoded(r)>>)
  PROVE  /\ Cells(f) = Cells(files) \cup {NewCell(f)}
         /\ \A p \in Cells(files) : At(f, p) = At(files, p) /\ Before(p, NewCell(f))
         /\ At(f, NewCell(f)) = Encoded(r)
         /\ NewCell(f) = <<Len(files) + 1, 1>>
         /\ Len(f) = Len(files) + 1
  <1> DEFINE n == Len(files)
  <1>1. n \in Nat
    OBVIOUS
  <1>2. /\ Len(f) = n + 1
        /\ f[n + 1] = <<Encoded(r)>>
        /\ \A i \in 1 .. n : f[i] = files[i]
    OBVIOUS
  <1>3. NewCell(f) = <<n + 1, 1>>
    BY <1>2 DEF NewCell
  <1>4. ASSUME NEW p \in Cells(files)
        PROVE  p \in Cells(f) /\ At(f, p) = At(files, p) /\ Before(p, NewCell(f))
    <2>1. p = <<p[1], p[2]>> /\ p[1] \in 1 .. n /\ p[2] \in 1 .. Len(files[p[1]]) /\ p[2] \in Nat
      BY CellTyped
    <2> QED BY <1>1, <1>2, <1>3, <2>1 DEF Cells, At, Before
  <1>5. NewCell(f) \in Cells(f)
    BY <1>1, <1>2, <1>3 DEF Cells
  <1>6. ASSUME NEW p \in Cells(f), p # NewCell(f) PROVE p \in Cells(files)
    <2>1. p = <<p[1], p[2]>> /\ p[1] \in 1 .. n + 1 /\ p[2] \in 1 .. Len(f[p[1]]) /\ p[2] \in Nat
      BY <1>2 DEF Cells
    <2>2. p[1] # n + 1
      <3>1. SUFFICES ASSUME p[1] = n + 1 PROVE FALSE
        OBVIOUS
      <3>2. p[2] = 1
        BY <1>2, <2>1, <3>1
      <3> QED BY <1>3, <1>6, <2>1, <3>1, <3>2
    <2> QED BY <1>1, <1>2, <2>1, <2>2 DEF Cells
  <1>7. Cells(f) = Cells(files) \cup {NewCell(f)}
    BY <1>4, <1>5, <1>6
  <1>8. At(f, NewCell(f)) = Encoded(r)
    BY <1>2, <1>3 DEF At
  <1> QED BY <1>2, <1>3, <1>4, <1>7, <1>8
-----------------------------------------------------------------------------
(* A file has a row from the moment it exists, all its rows have the date  *)
(* of the first, and the engine knows the date of the file it has open.    *)
DateInv ==
  /\ \A i \in 1 .. Len(files) : <<i, 1>> \in Cells(files)
  /\ \A p, q \in Cells(files) : p[1] = q[1] => At(files, p).date = At(files, q).date
  /\ file = "open" => /\ files # <<>>
                      /\ file_date = At(files, <<Len(files), 1>>).date

(* What handing record r to the engine does to the card: nothing, and then *)
(* no file is left open; or r takes a new place.                           *)
NotWritten ==
  files' = files /\ file' # "open" /\ outcome' \in {"UNWRITTEN", "UNCERTAIN"}

Written(r) ==
  /\ outcome' \in {"SYNCED", "UNCERTAIN"}
  /\ Cells(files') = Cells(files) \cup {NewCell(files')}
  /\ \A p \in Cells(files) : At(files', p) = At(files, p) /\ Before(p, NewCell(files'))
  /\ At(files', NewCell(files')) = Encoded(r)
  /\ \/ /\ file = "open" /\ files # <<>> /\ file_date = r.date
        /\ Len(files') = Len(files)
        /\ NewCell(files') = <<Len(files), Len(files[Len(files)]) + 1>>
     \/ /\ Len(files') = Len(files) + 1
        /\ NewCell(files') = <<Len(files) + 1, 1>>
  /\ file' = "open" => file_date' = r.date

LEMMA PopWrites ==
  ASSUME TypeOK, DateInv, PopAndProcess
  PROVE  /\ pending # <<>> /\ Head(pending) \in Record
         /\ Ledger!Take
         /\ NotWritten \/ Written(Head(pending))
         /\ outcome' # "UNWRITTEN" \/ NotWritten
  <1> DEFINE r == Head(pending)
  <1>1. Ledger!Take /\ pending # <<>> /\ r \in Record
    BY DEF PopAndProcess, Ledger!Take, TypeOK, Ledger!LedgerTypeOK
  <1>2. files \in Seq(Seq(CardRow))
    BY DEF TypeOK
  <1> HIDE DEF r
  <1>3. ASSUME files # <<>>, files' = Extended(r), outcome' \in {"SYNCED", "UNCERTAIN"},
               file = "open", file_date = r.date, file' = "open" => file_date' = r.date
        PROVE  Written(r)
    BY <1>1, <1>2, <1>3, RowExtends DEF Written
  <1>4. ASSUME files' = Append(files, <<Encoded(r)>>), outcome' \in {"SYNCED", "UNCERTAIN"},
               file' = "open" => file_date' = r.date
        PROVE  Written(r)
    BY <1>1, <1>2, <1>4, RowStarts DEF Written
  <1>5. ~NeedFile(r) /\ HandleWorks => file = "open" /\ file_date = r.date /\ files # <<>>
    BY DEF NeedFile, Rollover, HandleWorks, DateInv
  <1>6. CASE outcome' = "SYNCED" /\ ProcessSynced(r)
    BY <1>1, <1>3, <1>4, <1>5, <1>6 DEF ProcessSynced, r
  <1>7. CASE outcome' = "UNWRITTEN" /\ ProcessUnwritten(r)
    BY <1>1, <1>7 DEF ProcessUnwritten, NotWritten, r
  <1>8. CASE outcome' = "UNCERTAIN" /\ ProcessUncertain(r)
    <2>1. file' = "none"
      BY <1>8 DEF ProcessUncertain
    <2>2. CASE files' = files
      BY <1>1, <1>8, <2>1, <2>2 DEF NotWritten, r
    <2>3. CASE ~NeedFile(r) /\ HandleWorks /\ files' = Extended(r)
      BY <1>1, <1>3, <1>5, <1>8, <2>1, <2>3 DEF r
    <2>4. CASE files' = Append(files, <<Encoded(r)>>)
      BY <1>1, <1>4, <1>8, <2>1, <2>4 DEF r
    <2> QED BY <1>8, <2>2, <2>3, <2>4 DEF ProcessUncertain
  <1> QED BY <1>1, <1>6, <1>7, <1>8 DEF PopAndProcess, r

(* Every other step leaves the card alone and opens no file.               *)
CardKept == files' = files /\ (file' = "open" => file = "open" /\ file_date' = file_date)

LEMMA OtherSteps ==
  ASSUME [Next]_vars
  PROVE  CardKept \/ (PopAndProcess /\ (StorageProcessOne \/ DrainRecord))
  <1>1. UNCHANGED engine => CardKept
    BY DEF engine, CardKept
  <1>2. ProbeOK \/ ProbeFail \/ EngineDrainOK \/ EngineDrainFail => CardKept
    BY DEF ProbeOK, ProbeFail, EngineDrainOK, EngineDrainFail, CardKept
  <1>3. CASE CommNext
    BY <1>1, <1>3 DEF CommNext, Start, Stop, Single, ArmStart, DateChanges
  <1>4. CASE AcquisitionNext
    BY <1>1, <1>4 DEF AcquisitionNext, Tick, EventStep, EventDrain, FinishStopFlush
  <1>5. CASE StorageProbe \/ StorageSingle \/ DrainClose
    BY <1>1, <1>2, <1>5 DEF StorageProbe, StorageSingle, DrainClose
  <1>6. CASE StorageProcessOne \/ DrainRecord
    BY <1>6 DEF StorageProcessOne, DrainRecord
  <1>7. CASE \/ StorageDrain \/ StorageSettle \/ DrainAbort \/ DrainTimeout
             \/ DrainSettle \/ DrainEnd
    BY <1>1, <1>7 DEF StorageDrain, StorageSettle, DrainAbort, DrainTimeout, DrainSettle, DrainEnd
  <1>8. CASE RetryExpires \/ CardFails \/ CardRestored \/ UNCHANGED vars
    BY <1>1, <1>8 DEF RetryExpires, CardFails, CardRestored, vars, CardKept
  <1> QED BY <1>3, <1>4, <1>5, <1>6, <1>7, <1>8 DEF Next, StorageNext

LEMMA DateNext == TypeOK /\ DateInv /\ [Next]_vars => DateInv'
  <1> SUFFICES ASSUME TypeOK, DateInv, [Next]_vars PROVE DateInv'
    OBVIOUS
  <1>0. files \in Seq(Seq(CardRow)) /\ Len(files) \in Nat
    BY DEF TypeOK
  <1>1. CASE CardKept
    BY <1>1 DEF CardKept, DateInv
  <1>2. CASE NotWritten
    BY <1>2 DEF NotWritten, DateInv
  <1>3. ASSUME NEW r \in Record, Written(r) PROVE DateInv'
    <2> DEFINE c == NewCell(files')
    <2>1. /\ Cells(files') = Cells(files) \cup {c} /\ c \in Cells(files')
          /\ \A p \in Cells(files) : At(files', p) = At(files, p)
          /\ At(files', c).date = r.date
      BY <1>3 DEF Written, Encoded
    <2>2. \A p \in Cells(files) : p[1] \in 1 .. Len(files)
      BY <1>0, CellTyped
    <2>3. CASE /\ file = "open" /\ files # <<>> /\ file_date = r.date
               /\ Len(files') = Len(files)
               /\ c = <<Len(files), Len(files[Len(files)]) + 1>>
      <3>1. c[1] = Len(files) /\ Len(files) \in 1 .. Len(files)
        BY <1>0, <2>3
      <3>2. <<Len(files), 1>> \in Cells(files) /\ At(files, <<Len(files), 1>>).date = r.date
        BY <2>3, <3>1 DEF DateInv
      <3>3. \A p \in Cells(files) : p[1] = c[1] => At(files, p).date = r.date
        BY <3>1, <3>2 DEF DateInv
      <3>4. \A p, q \in Cells(files') : p[1] = q[1] => At(files', p).date = At(files', q).date
        <4> HIDE DEF c
        <4> QED BY <2>1, <3>3 DEF DateInv
      <3>5. \A i \in 1 .. Len(files') : <<i, 1>> \in Cells(files')
        BY <2>1, <2>3 DEF DateInv
      <3>6. file' = "open" => file_date' = At(files', <<Len(files'), 1>>).date
        BY <1>3, <2>1, <2>3, <3>2 DEF Written
      <3>7. files' # <<>>
        BY <1>0, <2>3, <3>1
      <3> QED BY <3>4, <3>5, <3>6, <3>7 DEF DateInv
    <2>4. CASE Len(files') = Len(files) + 1 /\ c = <<Len(files) + 1, 1>>
      <3>1. c[1] = Len(files) + 1 /\ \A p \in Cells(files) : p[1] # c[1]
        BY <1>0, <2>2, <2>4
      <3>2. \A p, q \in Cells(files') : p[1] = q[1] => At(files', p).date = At(files', q).date
        <4> HIDE DEF c
        <4> QED BY <2>1, <3>1 DEF DateInv
      <3>3. ASSUME NEW i \in 1 .. Len(files') PROVE <<i, 1>> \in Cells(files')
        <4>1. i \in 1 .. Len(files) \/ i = Len(files) + 1
          BY <1>0, <2>4
        <4> QED BY <2>1, <2>4, <4>1 DEF DateInv
      <3>4. file' = "open" => file_date' = At(files', <<Len(files'), 1>>).date
        BY <1>3, <2>1, <2>4 DEF Written
      <3>5. files' # <<>>
        BY <1>0, <2>4
      <3> QED BY <3>2, <3>3, <3>4, <3>5 DEF DateInv
    <2> QED BY <1>3, <2>3, <2>4 DEF Written
  <1> QED BY <1>1, <1>2, <1>3, OtherSteps, PopWrites

LEMMA DateInit == Init => DateInv
  <1> SUFFICES ASSUME Init PROVE DateInv
    OBVIOUS
  <1>1. files = <<>> /\ file = "none" /\ Cells(files) = {}
    BY DEF Init, Cells
  <1> QED BY <1>1 DEF DateInv

LEMMA PositionIsCell == TypeOK => Positions \subseteq Cells(files)
  BY LoggingAssumption DEF TypeOK, Positions, Cells

LEMMA TypeImplied == TInv => TypeOK
  BY DEF TInv

LEMMA DateInvImplies == TypeOK /\ DateInv => FileHoldsOneDate
  BY PositionIsCell DEF DateInv, FileHoldsOneDate, RowAt, At

(* A file never holds rows of two dates, and the open file is the one of   *)
(* the date the engine believes, over rollovers, failed closes, retries    *)
(* and cards that come and go (its name is taken from that date).          *)
THEOREM FileDateCorrect == Spec => []FileHoldsOneDate
  <1> QED
    BY TypeImplied, TInvInit, TInvNext, DateInit, DateNext, DateInvImplies, PTL DEF Spec
-----------------------------------------------------------------------------
(* Ids grow along the files, then (unless the record that is out may have  *)
(* reached the card) through the record that is out, then along the queue. *)
(* The j-th row of a file has an id of at least j, which bounds its length.*)
OnCardBefore(n) == \A p \in Cells(files) : At(files, p).id < n
QueuedAfter(n) == \A i \in 1 .. Len(pending) : n < pending[i].id

CardOrder ==
  /\ \A p, q \in Cells(files) : Before(p, q) => At(files, p).id < At(files, q).id
  /\ \A p \in Cells(files) : p[2] <= At(files, p).id /\ At(files, p).id <= generated

QueueOrder ==
  /\ \A i \in 1 .. Len(pending) : pending[i].id <= generated
  /\ \A i \in 1 .. Len(pending) : OnCardBefore(pending[i].id)
  /\ \A i, j \in 1 .. Len(pending) : i < j => pending[i].id < pending[j].id

HeldOrder ==
  \A r \in Record : held = <<r>> =>
    /\ r.id <= generated
    /\ QueuedAfter(r.id)
    /\ outcome = "UNWRITTEN" => OnCardBefore(r.id)

OrderInv == CardOrder /\ QueueOrder /\ HeldOrder

LEMMA QueuedTyped ==
  ASSUME NEW q \in Seq(Record), NEW i \in 1 .. Len(q)
  PROVE  q[i] \in Record /\ q[i].id \in Nat /\ q[i].id \in 1 .. MaxRecords
  <1>1. q[i] \in Record
    OBVIOUS
  <1> QED BY <1>1, LoggingAssumption DEF Record

(* New records follow everything that is queued, out or on the card.       *)
LEMMA EnqueueOrder ==
  ASSUME TypeOK, OrderInv,
         NEW n \in Nat, NEW q \in Seq(Record), Len(q) <= n,
         \A i \in 1 .. Len(q) : q[i].id = generated + i,
         pending' = pending \o q, generated' = generated + n,
         UNCHANGED <<held, files, outcome>>
  PROVE  OrderInv'
  <1>0. /\ pending \in Seq(Record) /\ generated \in Nat /\ files \in Seq(Seq(CardRow))
        /\ Len(pending) \in Nat /\ Len(q) \in Nat
    BY WrapPositive DEF TypeOK, Ledger!LedgerTypeOK, Ledger!Counter
  <1>1. /\ Len(pending') = Len(pending) + Len(q)
        /\ \A i \in 1 .. Len(pending) : pending'[i] = pending[i]
        /\ \A i \in Len(pending) + 1 .. Len(pending) + Len(q) :
             pending'[i] = q[i - Len(pending)]
    BY <1>0
  <1>2. \A i \in 1 .. Len(pending) : pending[i].id \in Nat
    BY <1>0, QueuedTyped
  <1>3. ASSUME NEW i \in 1 .. Len(pending')
        PROVE  \/ i \in 1 .. Len(pending) /\ pending'[i] = pending[i]
               \/ /\ i \in Nat /\ i > Len(pending) /\ i <= Len(pending) + Len(q)
                  /\ pending'[i].id = generated + (i - Len(pending))
    <2>1. CASE i <= Len(pending)
      BY <1>0, <1>1, <2>1
    <2>2. CASE i > Len(pending)
      <3>1. i \in Len(pending) + 1 .. Len(pending) + Len(q) /\ i - Len(pending) \in 1 .. Len(q)
        BY <1>0, <1>1, <2>2
      <3>2. pending'[i] = q[i - Len(pending)]
        BY <1>1, <3>1
      <3>3. q[i - Len(pending)].id = generated + (i - Len(pending))
        BY <1>0, <3>1
      <3> QED BY <1>0, <1>1, <2>2, <3>2, <3>3
    <2> QED BY <1>0, <1>1, <2>1, <2>2
  <1>4. \A p \in Cells(files) : At(files, p).id \in Nat /\ At(files, p).id <= generated
    BY <1>0, CellTyped DEF OrderInv, CardOrder
  <1>5. CardOrder'
    <2>1. \A p \in Cells(files) : p[2] <= At(files, p).id /\ At(files, p).id <= generated + n
      BY <1>0, <1>4 DEF OrderInv, CardOrder
    <2> QED BY <2>1 DEF OrderInv, CardOrder
  <1>6. \A i \in 1 .. Len(pending') : pending'[i].id <= generated'
    BY <1>0, <1>2, <1>3 DEF OrderInv, QueueOrder
  <1>7. ASSUME NEW i \in 1 .. Len(pending'), NEW p \in Cells(files)
        PROVE  At(files, p).id < pending'[i].id
    BY <1>0, <1>3, <1>4 DEF OrderInv, QueueOrder, OnCardBefore
  <1>8. ASSUME NEW i \in 1 .. Len(pending'), NEW j \in 1 .. Len(pending'), i < j
        PROVE  pending'[i].id < pending'[j].id
    <2>1. CASE j \in 1 .. Len(pending)
      <3>1. i \in 1 .. Len(pending)
        BY <1>0, <1>8, <2>1
      <3> QED BY <1>1, <1>8, <2>1, <3>1 DEF OrderInv, QueueOrder
    <2>2. CASE j > Len(pending) /\ pending'[j].id = generated + (j - Len(pending))
      BY <1>0, <1>2, <1>3, <1>8, <2>2 DEF OrderInv, QueueOrder
    <2> QED BY <1>0, <1>3, <2>1, <2>2
  <1>9. QueueOrder'
    BY <1>6, <1>7, <1>8 DEF QueueOrder, OnCardBefore
  <1>10. ASSUME NEW r \in Record, held = <<r>>
         PROVE  r.id <= generated' /\ QueuedAfter(r.id)' /\ (outcome = "UNWRITTEN" => OnCardBefore(r.id))
    <2>1. r.id <= generated /\ QueuedAfter(r.id) /\ r.id \in Nat
          /\ (outcome = "UNWRITTEN" => OnCardBefore(r.id))
      BY <1>10, LoggingAssumption DEF OrderInv, HeldOrder, Record
    <2>2. \A i \in 1 .. Len(pending') : r.id < pending'[i].id
      BY <1>0, <1>3, <2>1 DEF QueuedAfter
    <2>3. QueuedAfter(r.id)'
      BY <2>2 DEF QueuedAfter
    <2>4. r.id <= generated'
      BY <1>0, <2>1
    <2> QED BY <2>1, <2>3, <2>4
  <1>11. HeldOrder'
    BY <1>10 DEF HeldOrder, OnCardBefore
  <1> QED BY <1>5, <1>9, <1>11 DEF OrderInv

LEMMA GenerateOrder ==
  ASSUME TInv, OrderInv, NEW t \in Trigger, GenerateRecord(t), UNCHANGED <<files, outcome>>
  PROVE  OrderInv'
  <1> DEFINE r == Row(generated + 1, t, date)
  <1>1. TypeOK /\ generated \in Nat /\ generated + 1 <= MaxRecords
        /\ pending \in Seq(Record) /\ date \in Date /\ MaxRecords \in Nat
    BY WrapPositive, LoggingAssumption
       DEF TInv, TypeOK, Ledger!LedgerTypeOK, Ledger!Counter, GenerateRecord, Room
  <1>2. r \in Record /\ r.id = generated + 1
    BY <1>1, LoggingAssumption DEF Row, Record
  <1>3. Ledger!Push(r)
    BY DEF GenerateRecord
  <1>4. generated' = generated + 1 /\ held' = held
    BY <1>1, <1>3, WrapPositive DEF Ledger!Push, Ledger!Accept, Ledger!Refuse, Ledger!Bump
  <1> HIDE DEF r
  <1>5. CASE Ledger!Accept(r)
    <2>1. /\ pending' = pending \o <<r>>
          /\ <<r>> \in Seq(Record) /\ Len(<<r>>) = 1 /\ <<r>>[1] = r
      BY <1>1, <1>2, <1>5 DEF Ledger!Accept
    <2>2. \A i \in 1 .. Len(<<r>>) : <<r>>[i].id = generated + i
      BY <1>2, <2>1
    <2>3. 1 \in Nat /\ Len(<<r>>) <= 1 /\ UNCHANGED <<held, files, outcome>>
      BY <1>4, <2>1
    <2> QED BY ONLY OrderInv, <1>1, <1>4, <2>1, <2>2, <2>3, EnqueueOrder
  <1>6. CASE Ledger!Refuse
    <2>1. /\ pending' = pending \o <<>>
          /\ <<>> \in Seq(Record) /\ Len(<<>>) = 0
      BY <1>1, <1>6 DEF Ledger!Refuse
    <2>2. \A i \in 1 .. Len(<<>>) : <<>>[i].id = generated + i
      BY <2>1
    <2>3. 1 \in Nat /\ Len(<<>>) <= 1 /\ UNCHANGED <<held, files, outcome>>
      BY <1>4, <2>1
    <2> QED BY ONLY OrderInv, <1>1, <1>4, <2>1, <2>2, <2>3, EnqueueOrder
  <1> QED BY <1>3, <1>5, <1>6 DEF Ledger!Push

LEMMA MoveRowsAppends ==
  ASSUME TypeOK, NEW w \in Nat, generated + w <= MaxRecords, MoveRows(w)
  PROVE  \E q \in Seq(Record) :
           /\ Len(q) \in Nat
           /\ \A i \in 1 .. Len(q) : q[i].id = generated + i
           /\ pending' = pending \o q
           /\ generated' = generated + Len(q)
  <1> DEFINE n == SmallerOf(w, Capacity - Len(pending))
  <1>0. /\ n \in 0 .. w /\ generated \in Nat /\ pending \in Seq(Record)
        /\ MaxRecords \in Nat /\ n \in Nat
    BY WrapPositive, LoggingAssumption
       DEF TypeOK, SmallerOf, Ledger!LedgerTypeOK, Ledger!Counter
  <1>1. PICK d \in [1 .. n -> {0} \cup (IF date = 0 THEN {} ELSE 1 .. MaxDate)] :
          pending' = pending \o [i \in 1 .. n |-> Row(generated + i, "OTHER", d[i])]
    BY DEF MoveRows
  <1>2. generated' = generated + n
    BY DEF MoveRows
  <1> DEFINE q == [i \in 1 .. n |-> Row(generated + i, "OTHER", d[i])]
  <1> HIDE DEF n
  <1>3. ASSUME NEW i \in 1 .. n
        PROVE  q[i] \in Record /\ q[i].id = generated + i
    <2>1. d[i] \in Date
      BY <1>1, LoggingAssumption DEF Date
    <2>2. generated + i \in 1 .. MaxRecords
      BY <1>0
    <2> QED BY <2>1, <2>2 DEF Row, Record, Trigger
  <1>4. q \in [1 .. n -> Record]
    BY <1>3
  <1>5. q \in Seq(Record) /\ Len(q) = n
    BY <1>0, <1>4, FunctionIsSeq
  <1>6. pending' = pending \o q
    BY <1>1
  <1> HIDE DEF q
  <1> QED BY <1>0, <1>2, <1>3, <1>5, <1>6

LEMMA MoveOrder ==
  ASSUME TypeOK, OrderInv, NEW w \in Nat, generated + w <= MaxRecords, MoveRows(w),
         UNCHANGED <<files, outcome>>
  PROVE  OrderInv'
  <1>1. PICK q \in Seq(Record) :
          /\ Len(q) \in Nat
          /\ \A i \in 1 .. Len(q) : q[i].id = generated + i
          /\ pending' = pending \o q
          /\ generated' = generated + Len(q)
    BY MoveRowsAppends
  <1>2. Len(q) <= Len(q) /\ UNCHANGED <<held, files, outcome>>
    BY <1>1 DEF MoveRows
  <1> QED BY ONLY TypeOK, OrderInv, <1>1, <1>2, EnqueueOrder

(* The oldest record goes out and may take a place on the card.            *)
LEMMA PopOrder ==
  ASSUME TypeOK, DateInv, OrderInv, PopAndProcess
  PROVE  OrderInv'
  <1> DEFINE r == Head(pending)
  <1>0. /\ pending \in Seq(Record) /\ generated \in Nat /\ files \in Seq(Seq(CardRow))
        /\ Len(pending) \in Nat \ {0} /\ r \in Record /\ r.id \in Nat \ {0} /\ r = pending[1]
    BY PopWrites, WrapPositive, LoggingAssumption
       DEF TypeOK, Ledger!LedgerTypeOK, Ledger!Counter, Record
  <1>1. /\ held' = <<r>> /\ generated' = generated
        /\ pending' = Tail(pending)
        /\ NotWritten \/ Written(r)
        /\ outcome' = "UNWRITTEN" => NotWritten
    BY PopWrites DEF Ledger!Take
  <1>2. /\ Len(pending') = Len(pending) - 1
        /\ \A i \in 1 .. Len(pending') : i + 1 \in 1 .. Len(pending) /\ pending'[i] = pending[i + 1]
    BY <1>0, <1>1
  <1>3. /\ r.id <= generated /\ OnCardBefore(r.id)
        /\ \A i \in 1 .. Len(pending') : r.id < pending'[i].id /\ pending'[i].id \in Nat
    <2>1. 1 \in 1 .. Len(pending)
      BY <1>0
    <2>2. ASSUME NEW i \in 1 .. Len(pending') PROVE r.id < pending'[i].id
      <3>1. i + 1 \in 1 .. Len(pending) /\ 1 < i + 1 /\ pending'[i] = pending[i + 1]
        BY <1>0, <1>2
      <3> QED BY <1>0, <2>1, <3>1 DEF OrderInv, QueueOrder
    <2>3. \A i \in 1 .. Len(pending') : pending'[i].id \in Nat
      BY <1>0, <1>2, QueuedTyped
    <2> QED BY <1>0, <2>1, <2>2, <2>3 DEF OrderInv, QueueOrder
  <1> HIDE DEF r
  <1>4. ASSUME NEW p \in Cells(files')
        PROVE  \/ p \in Cells(files) /\ At(files', p) = At(files, p)
               \/ Written(r) /\ p = NewCell(files') /\ At(files', p).id = r.id
    BY <1>1 DEF NotWritten, Written, Encoded
  <1>5. \A p \in Cells(files) : At(files, p).id < r.id /\ At(files, p).id \in Nat
    BY <1>0, <1>3, CellTyped DEF OnCardBefore
  <1>6. \A p \in Cells(files') : At(files', p).id <= r.id
    BY <1>0, <1>4, <1>5
  <1>7. CardOrder'
    <2>1. ASSUME NEW p \in Cells(files'), NEW q \in Cells(files'), Before(p, q)
          PROVE  At(files', p).id < At(files', q).id
      <3>1. CASE p \in Cells(files) /\ q \in Cells(files)
        <4>1. At(files', p) = At(files, p) /\ At(files', q) = At(files, q)
          BY <1>1, <3>1 DEF NotWritten, Written
        <4> QED BY <2>1, <3>1, <4>1 DEF OrderInv, CardOrder
      <3>2. CASE p \in Cells(files) /\ q \notin Cells(files)
        <4>1. At(files', q).id = r.id /\ At(files', p) = At(files, p)
          BY <1>1, <1>4, <3>2 DEF NotWritten, Written
        <4> QED BY <1>5, <3>2, <4>1
      <3>3. CASE p \notin Cells(files)
        <4>1. Written(r) /\ p = NewCell(files') /\ p[1] \in Nat /\ p[2] \in Nat
          <5>1. Written(r) /\ p = NewCell(files')
            BY <1>4, <3>3
          <5>2. CASE file = "open" /\ files # <<>> /\ p = <<Len(files), Len(files[Len(files)]) + 1>>
            <6>1. Len(files) \in 1 .. Len(files) /\ files[Len(files)] \in Seq(CardRow)
              BY <1>0, <5>2
            <6> QED BY <5>1, <5>2, <6>1
          <5>3. CASE p = <<Len(files) + 1, 1>>
            BY <1>0, <5>1, <5>3
          <5> QED BY <5>1, <5>2, <5>3 DEF Written
        <4>2. q = p \/ (q \in Cells(files) /\ Before(q, p))
          BY <1>4, <4>1 DEF Written
        <4>3. q[1] \in Nat /\ q[2] \in Nat
          BY <1>0, <4>1, <4>2, CellTyped
        <4>4. ~Before(p, q)
          BY <4>1, <4>2, <4>3 DEF Before
        <4> QED BY <2>1, <4>4
      <3> QED BY <3>1, <3>2, <3>3
    <2>2. ASSUME NEW p \in Cells(files')
          PROVE  p[2] <= At(files', p).id /\ At(files', p).id <= generated
      <3>1. CASE p \in Cells(files) /\ At(files', p) = At(files, p)
        BY <3>1 DEF OrderInv, CardOrder
      <3>2. CASE Written(r) /\ p = NewCell(files') /\ At(files', p).id = r.id
        <4>1. CASE file = "open" /\ files # <<>> /\ p = <<Len(files), Len(files[Len(files)]) + 1>>
          <5> DEFINE n == Len(files)
                     m == Len(files[Len(files)])
          <5>1. n \in 1 .. n /\ files[n] \in Seq(CardRow) /\ n \in Nat /\ m \in Nat
            BY <1>0, <4>1
          <5>2. <<n, 1>> \in Cells(files)
            BY <5>1 DEF DateInv
          <5>3. m \in 1 .. m
            BY <1>0, <5>1, <5>2, CellTyped
          <5>4. <<n, m>> \in Cells(files)
            BY <5>1, <5>3 DEF Cells
          <5>5. m <= At(files, <<n, m>>).id
            BY <5>4 DEF OrderInv, CardOrder
          <5>6. At(files, <<n, m>>).id < r.id /\ At(files, <<n, m>>).id \in Nat
            BY <1>5, <5>4
          <5>7. m + 1 <= r.id
            BY <1>0, <5>1, <5>5, <5>6
          <5> QED BY <1>3, <3>2, <4>1, <5>7
        <4>2. CASE p = <<Len(files) + 1, 1>>
          BY <1>0, <1>3, <3>2, <4>2
        <4> QED BY <3>2, <4>1, <4>2 DEF Written
      <3> QED BY <1>4, <3>1, <3>2
    <2> QED BY <1>1, <2>1, <2>2 DEF CardOrder
  <1>8. QueueOrder'
    <2>1. \A i \in 1 .. Len(pending') : pending'[i].id <= generated
      BY <1>2 DEF OrderInv, QueueOrder
    <2>2. ASSUME NEW i \in 1 .. Len(pending'), NEW p \in Cells(files')
          PROVE  At(files', p).id < pending'[i].id
      <3>1. At(files', p).id \in Nat
        BY <1>0, <1>4, <1>5
      <3> QED BY <1>0, <1>3, <1>6, <3>1
    <2>3. ASSUME NEW i \in 1 .. Len(pending'), NEW j \in 1 .. Len(pending'), i < j
          PROVE  pending'[i].id < pending'[j].id
      <3>1. /\ i + 1 \in 1 .. Len(pending) /\ j + 1 \in 1 .. Len(pending) /\ i + 1 < j + 1
            /\ pending'[i] = pending[i + 1] /\ pending'[j] = pending[j + 1]
        BY <1>0, <1>2, <2>3
      <3> QED BY <3>1 DEF OrderInv, QueueOrder
    <2> QED BY <1>1, <2>1, <2>2, <2>3 DEF QueueOrder, OnCardBefore
  <1>9. HeldOrder'
    <2> SUFFICES ASSUME NEW s \in Record, held' = <<s>>
                 PROVE  /\ s.id <= generated'
                        /\ \A i \in 1 .. Len(pending') : s.id < pending'[i].id
                        /\ outcome' = "UNWRITTEN" => \A p \in Cells(files') : At(files', p).id < s.id
      BY DEF HeldOrder, QueuedAfter, OnCardBefore
    <2>1. s = r
      BY <1>1
    <2> QED BY <1>1, <1>3, <2>1 DEF NotWritten, OnCardBefore
  <1> QED BY <1>7, <1>8, <1>9 DEF OrderInv

(* The verdict: the record leaves, or, not being on the card, goes back to *)
(* the head of the queue.                                                  *)
LEMMA AccountOrder ==
  ASSUME TypeOK, OrderInv, Account, files' = files
  PROVE  OrderInv'
  <1>0. /\ pending \in Seq(Record) /\ Len(pending) \in Nat /\ Len(pending) <= Capacity
        /\ Capacity \in Nat \ {0}
    BY LoggingAssumption DEF TypeOK, Ledger!LedgerTypeOK
  <1>1. generated' = generated /\ held' = <<>>
    BY DEF Account, Ledger!SettleSynced, Ledger!SettleUncertain, Ledger!GiveBack
  <1>2. CardOrder' /\ HeldOrder'
    <2>1. \A r \in Record : held' # <<r>>
      BY <1>1
    <2> QED BY <1>1, <2>1 DEF OrderInv, CardOrder, HeldOrder
  <1>4. CASE outcome = "UNWRITTEN" /\ Ledger!GiveBack
    <2>1. PICK r \in Record : held = <<r>>
      BY <1>4 DEF Ledger!GiveBack, TypeOK, Ledger!LedgerTypeOK
    <2>2. r.id <= generated /\ QueuedAfter(r.id) /\ OnCardBefore(r.id) /\ r.id \in Nat
      BY <1>4, <2>1, LoggingAssumption DEF OrderInv, HeldOrder, Record
    <2>3. PICK q \in Seq(Record) : /\ pending' = <<r>> \o q
                                   /\ Len(q) <= Len(pending)
                                   /\ \A i \in 1 .. Len(q) : q[i] = pending[i]
      <3>1. CASE pending' = held \o pending
        BY <1>0, <2>1, <3>1
      <3>2. CASE pending' = held \o SubSeq(pending, 1, Capacity - 1) /\ Len(pending) = Capacity
        <4> DEFINE q == SubSeq(pending, 1, Capacity - 1)
        <4>1. q \in Seq(Record) /\ Len(q) = Capacity - 1
              /\ \A i \in 1 .. Len(q) : q[i] = pending[i]
          BY <1>0, <3>2
        <4> HIDE DEF q
        <4>2. Len(q) <= Len(pending) /\ pending' = <<r>> \o q
          BY <1>0, <2>1, <3>2, <4>1 DEF q
        <4> QED BY <4>1, <4>2
      <3> QED BY <1>4, <3>1, <3>2 DEF Ledger!GiveBack, Ledger!Full
    <2>4. /\ Len(pending') = Len(q) + 1 /\ Len(q) \in Nat
          /\ pending'[1] = r
          /\ \A i \in 2 .. Len(q) + 1 : pending'[i] = q[i - 1]
      BY <2>1, <2>3
    <2>5. ASSUME NEW i \in 1 .. Len(pending'), i # 1
          PROVE  i \in Nat /\ i - 1 \in 1 .. Len(pending) /\ pending'[i] = pending[i - 1]
      <3>1. i \in 2 .. Len(q) + 1 /\ i - 1 \in 1 .. Len(q) /\ i - 1 \in 1 .. Len(pending)
        BY <1>0, <2>3, <2>4, <2>5
      <3> QED BY <2>3, <2>4, <3>1
    <2>6. ASSUME NEW i \in 1 .. Len(pending')
          PROVE  pending'[i].id <= generated /\ \A p \in Cells(files) : At(files, p).id < pending'[i].id
      <3>1. CASE i = 1
        BY <2>2, <2>4, <3>1 DEF OnCardBefore
      <3>2. CASE i # 1
        BY <2>5, <3>2 DEF OrderInv, QueueOrder, OnCardBefore
      <3> QED BY <3>1, <3>2
    <2>7. ASSUME NEW i \in 1 .. Len(pending'), NEW j \in 1 .. Len(pending'), i < j
          PROVE  pending'[i].id < pending'[j].id
      <3>1. j # 1 /\ j - 1 \in 1 .. Len(pending) /\ pending'[j] = pending[j - 1] /\ j \in Nat
        BY <2>4, <2>5, <2>7
      <3>2. CASE i = 1
        BY <2>2, <2>4, <3>1, <3>2 DEF QueuedAfter
      <3>3. CASE i # 1
        <4>1. i - 1 \in 1 .. Len(pending) /\ pending'[i] = pending[i - 1] /\ i \in Nat /\ i - 1 < j - 1
          BY <2>5, <2>7, <3>1, <3>3
        <4> QED BY <3>1, <4>1 DEF OrderInv, QueueOrder
      <3> QED BY <3>2, <3>3
    <2>8. QueueOrder'
      BY <1>1, <2>6, <2>7 DEF QueueOrder, OnCardBefore
    <2> QED BY <1>2, <2>8 DEF OrderInv
  <1>5. QueueOrder' => OrderInv'
    BY <1>2 DEF OrderInv
  <1>6. pending' = pending => QueueOrder'
    BY <1>1 DEF OrderInv, QueueOrder, OnCardBefore
  <1> QED BY <1>4, <1>5, <1>6 DEF Account, Ledger!SettleSynced, Ledger!SettleUncertain

(* The steps by what they do to the records: one is generated, rows move   *)
(* in, the oldest goes out, the verdict falls, or nothing moves.           *)
Deciding == pc \in {"settle", "drain_settle"}

Quiet == /\ UNCHANGED ledger /\ files' = files
         /\ outcome' = "UNWRITTEN" => outcome = "UNWRITTEN"
         /\ UNCHANGED <<pc, outcome>> \/ (~Deciding /\ ~Deciding')

LEMMA RecordSteps ==
  ASSUME TInv, [Next]_vars
  PROVE  \/ /\ UNCHANGED <<task, files>>
            /\ \E t \in Trigger : GenerateRecord(t)
         \/ /\ UNCHANGED <<task, files>>
            /\ \E w \in Nat : generated + w <= MaxRecords /\ MoveRows(w)
         \/ PopAndProcess /\ (StorageProcessOne \/ DrainRecord)
         \/ Account /\ files' = files /\ (StorageSettle \/ DrainSettle)
         \/ Quiet
  <1>0. /\ generated \in Nat /\ waiting \in 0 .. MaxWaiting /\ MaxWaiting \in Nat
        /\ event_open \in BOOLEAN /\ MaxRecords \in Nat /\ Budget
        /\ waiting \in Nat
    BY WrapPositive, LoggingAssumption
       DEF TInv, TypeOK, Ledger!LedgerTypeOK, Ledger!Counter
  <1>1. UNCHANGED <<ledger, task, files>> => Quiet
    BY DEF Quiet, task
  <1>2. UNCHANGED engine => files' = files
    BY DEF engine
  <1>3. CASE Start \/ Stop \/ ArmStart \/ DateChanges
    BY <1>1, <1>2, <1>3 DEF Start, Stop, ArmStart, DateChanges
  <1>4. CASE Single
    BY <1>2, <1>4 DEF Single, Trigger
  <1>5. CASE Tick
    BY <1>1, <1>2, <1>5 DEF Tick, Trigger
  <1>6. /\ SmallerOf(waiting + 1, MaxWaiting) \in Nat
        /\ SmallerOf(waiting + 1, MaxWaiting) <= waiting + 1
    BY <1>0 DEF SmallerOf
  <1>7. CASE EventStep
    <2>1. MoveRows(SmallerOf(waiting + 1, MaxWaiting)) /\ UNCHANGED <<task, files>>
      BY <1>2, <1>7 DEF EventStep
    <2>2. generated + waiting + 1 <= MaxRecords
      BY <1>0, <1>7 DEF EventStep, Budget, Room
    <2>3. generated + SmallerOf(waiting + 1, MaxWaiting) <= MaxRecords
      BY <1>0, <1>6, <2>2
    <2> QED BY <1>6, <2>1, <2>3
  <1>8. CASE EventDrain
    <2>1. generated + waiting <= MaxRecords
      BY <1>0 DEF Budget, Room
    <2> QED BY <1>0, <1>2, <1>8, <2>1 DEF EventDrain
  <1>9. CASE FinishStopFlush
    <2> DEFINE w == IF event_open THEN SmallerOf(waiting + 1, MaxWaiting) ELSE waiting
    <2>1. w \in Nat /\ generated + w <= MaxRecords
      BY <1>0, <1>6 DEF Budget, Room
    <2>2. MoveRows(w) /\ UNCHANGED <<task, files>>
      BY <1>2, <1>9 DEF FinishStopFlush
    <2> HIDE DEF w
    <2> QED BY <2>1, <2>2
  <1>10. CASE StorageProcessOne \/ DrainRecord
    BY <1>10 DEF StorageProcessOne, DrainRecord
  <1>11. CASE StorageSettle \/ DrainSettle
    BY <1>2, <1>11 DEF StorageSettle, DrainSettle
  <1>12. CASE StorageDrain \/ StorageProbe \/ StorageSingle
    BY <1>2, <1>12 DEF StorageDrain, StorageProbe, StorageSingle, NextTurn, Quiet, Deciding,
       ProbeOK, ProbeFail, EngineDrainOK, EngineDrainFail
  <1>13. CASE DrainAbort \/ DrainTimeout \/ DrainEnd
    BY <1>2, <1>13 DEF DrainAbort, DrainTimeout, DrainEnd, NextTurn, Quiet, Deciding
  <1>14. CASE DrainClose
    BY <1>14 DEF DrainClose, Quiet, Deciding, EngineDrainOK, EngineDrainFail
  <1>15. CASE RetryExpires \/ CardFails \/ CardRestored \/ UNCHANGED vars
    BY <1>1, <1>2, <1>15 DEF RetryExpires, CardFails, CardRestored, vars, Quiet, task
  <1> QED
    BY <1>3, <1>4, <1>5, <1>7, <1>8, <1>9, <1>10, <1>11, <1>12, <1>13, <1>14, <1>15
       DEF Next, CommNext, AcquisitionNext, StorageNext

LEMMA OrderNext == TInv /\ DateInv /\ OrderInv /\ [Next]_vars => OrderInv'
  <1> SUFFICES ASSUME TInv, DateInv, OrderInv, [Next]_vars PROVE OrderInv'
    OBVIOUS
  <1>0. TypeOK
    BY DEF TInv
  <1>1. UNCHANGED <<task, files>> => UNCHANGED <<files, outcome>>
    BY DEF task
  <1>2. ASSUME NEW t \in Trigger, GenerateRecord(t), UNCHANGED <<task, files>>
        PROVE  OrderInv'
    BY <1>1, <1>2, GenerateOrder
  <1>3. ASSUME NEW w \in Nat, generated + w <= MaxRecords, MoveRows(w), UNCHANGED <<task, files>>
        PROVE  OrderInv'
    BY <1>0, <1>1, <1>3, MoveOrder
  <1>4. CASE PopAndProcess
    BY <1>0, <1>4, PopOrder
  <1>5. CASE Account /\ files' = files
    BY <1>0, <1>5, AccountOrder
  <1>6. CASE Quiet
    BY <1>6 DEF Quiet, ledger, OrderInv, CardOrder, QueueOrder, HeldOrder, QueuedAfter, OnCardBefore
  <1> QED BY <1>2, <1>3, <1>4, <1>5, <1>6, RecordSteps

LEMMA OrderInit == Init => OrderInv
  <1> SUFFICES ASSUME Init PROVE OrderInv
    OBVIOUS
  <1>1. Cells(files) = {} /\ held = <<>>
    BY DEF Init, Cells
  <1>2. \A r \in Record : held # <<r>>
    BY <1>1
  <1>3. QueueOrder
    <2>1. CASE pending = <<>>
      BY <2>1 DEF QueueOrder
    <2>2. CASE pending = <<[id |-> 1, trigger |-> "OTHER", date |-> 0]>> /\ generated = 1
      <3>1. Len(pending) = 1 /\ pending[1].id = 1 /\ \A i \in 1 .. Len(pending) : i = 1
        BY <2>2
      <3> QED BY <1>1, <2>2, <3>1 DEF QueueOrder, OnCardBefore
    <2> QED BY <2>1, <2>2 DEF Init
  <1> QED BY <1>1, <1>2, <1>3 DEF OrderInv, CardOrder, HeldOrder

LEMMA OrderInvImplies == TypeOK /\ OrderInv => RowsInOrder
  BY PositionIsCell DEF OrderInv, CardOrder, RowsInOrder, RowAt, At

(* Rows reach the card once each and in the order they were generated: a   *)
(* record goes back to the queue only when nothing of it was written, so   *)
(* no retry, drain, rollover or exchange of the card repeats a row or lets *)
(* a newer one overtake it.                                                *)
THEOREM RowsInOrderCorrect == Spec => []RowsInOrder
  <1> QED
    BY TypeImplied, TInvInit, TInvNext, DateInit, DateNext, OrderInit, OrderNext, OrderInvImplies, PTL
       DEF Spec
-----------------------------------------------------------------------------
(* The bound on records keeps every counter below its wrap, so the ledger  *)
(* adds up without a modulus; and each row on the card belongs to a record *)
(* whose verdict is, or is about to be, synced or uncertain.               *)
Verdict(o) == IF Deciding /\ outcome = o THEN 1 ELSE 0
RowCount == Cardinality(Cells(files))

LedgerInv ==
  /\ generated = synced + dropped + uncertain + Len(pending) + Len(held)
  /\ IsFiniteSet(Cells(files))
  /\ synced + Verdict("SYNCED") <= RowCount
  /\ RowCount <= synced + Verdict("SYNCED") + uncertain + Verdict("UNCERTAIN")

LEMMA SmallMod ==
  ASSUME NEW a \in Nat, NEW m \in Nat, a < m
  PROVE  a % m = a
  OBVIOUS

LEMMA LedgerStep == TInv /\ DateInv /\ OrderInv /\ LedgerInv /\ [Next]_vars => LedgerInv'
  <1> SUFFICES ASSUME TInv, DateInv, OrderInv, LedgerInv, [Next]_vars PROVE LedgerInv'
    OBVIOUS
  <1>0. /\ TypeOK /\ Ledger!LedgerTypeOK
        /\ generated \in Nat /\ synced \in Nat /\ dropped \in Nat /\ uncertain \in Nat
        /\ pending \in Seq(Record) /\ Len(pending) \in Nat /\ files \in Seq(Seq(CardRow))
        /\ Len(pending) <= Capacity /\ Capacity \in Nat \ {0}
        /\ MaxRecords \in Nat /\ Wrap \in Nat /\ MaxRecords < Wrap
        /\ waiting \in Nat /\ generated <= MaxRecords
    <2>1. /\ TypeOK /\ Ledger!LedgerTypeOK /\ waiting \in 0 .. MaxWaiting /\ event_open \in BOOLEAN
          /\ MaxWaiting \in Nat /\ Budget
      BY LoggingAssumption DEF TInv, TypeOK
    <2>2. generated \in Nat /\ synced \in Nat /\ dropped \in Nat /\ uncertain \in Nat
          /\ MaxRecords \in Nat /\ Wrap \in Nat /\ MaxRecords < Wrap
      BY <2>1, WrapPositive, LoggingAssumption DEF Ledger!LedgerTypeOK, Ledger!Counter
    <2>3. generated <= MaxRecords
      BY <2>1, <2>2 DEF Budget, Room
    <2> QED BY <2>1, <2>2, <2>3, LoggingAssumption DEF TypeOK, Ledger!LedgerTypeOK
  <1>1. Len(held) \in {0, 1} /\ (held # <<>> => Len(held) = 1) /\ Len(<<>>) = 0
    <2>1. CASE held = <<>>
      BY <2>1
    <2>2. ASSUME NEW r \in Record, held = <<r>> PROVE Len(held) = 1
      BY <2>2
    <2> QED BY <1>0, <2>1, <2>2 DEF Ledger!LedgerTypeOK
  <1>2. RowCount \in Nat
    BY FS_CardinalityType DEF LedgerInv, RowCount
  <1>3. ASSUME NEW n \in Nat, n + 1 <= MaxRecords
        PROVE  Ledger!Bump(n) = n + 1
    <2>1. n + 1 \in Nat /\ n + 1 < Wrap /\ Wrap \in Nat
      BY <1>3, WrapPositive, LoggingAssumption
    <2> QED BY <2>1, SmallMod DEF Ledger!Bump
  <1>4. UNCHANGED task => /\ Verdict("SYNCED")' = Verdict("SYNCED")
                          /\ Verdict("UNCERTAIN")' = Verdict("UNCERTAIN")
    BY DEF task, Verdict, Deciding
  <1>5. ASSUME NEW t \in Trigger, GenerateRecord(t), UNCHANGED <<task, files>>
        PROVE  LedgerInv'
    <2> DEFINE r == Row(generated + 1, t, date)
    <2>1. generated + 1 <= MaxRecords /\ Ledger!Push(r)
      <3>1. Room(1) /\ Ledger!Push(r)
        BY <1>5 DEF GenerateRecord
      <3>2. event_open \in BOOLEAN
        BY <1>0 DEF TypeOK
      <3> QED BY <1>0, <3>1, <3>2 DEF Room
    <2> HIDE DEF r
    <2>2. Ledger!Bump(generated) = generated + 1
      BY <1>0, <1>3, <2>1
    <2>3. CASE Ledger!Accept(r)
      <3>1. Len(pending') = Len(pending) + 1
        BY <1>0, <2>3 DEF Ledger!Accept
      <3>2. generated' = generated + 1 /\ UNCHANGED <<held, synced, dropped, uncertain>>
        BY <2>2, <2>3 DEF Ledger!Accept
      <3> QED BY <1>0, <1>1, <1>4, <1>5, <3>1, <3>2 DEF LedgerInv, RowCount
    <2>4. CASE Ledger!Refuse
      <3>1. dropped + 1 <= MaxRecords
        BY <1>0, <1>1, <2>1 DEF LedgerInv
      <3>2. /\ generated' = generated + 1 /\ dropped' = dropped + 1
            /\ UNCHANGED <<pending, held, synced, uncertain>>
        BY <1>0, <1>3, <2>2, <2>4, <3>1 DEF Ledger!Refuse
      <3> QED BY <1>0, <1>1, <1>4, <1>5, <3>2 DEF LedgerInv, RowCount
    <2> QED BY <2>1, <2>3, <2>4 DEF Ledger!Push
  <1>6. ASSUME NEW w \in Nat, generated + w <= MaxRecords, MoveRows(w), UNCHANGED <<task, files>>
        PROVE  LedgerInv'
    <2>1. \E n \in Nat : Len(pending') = Len(pending) + n /\ generated' = generated + n
      <3>1. PICK q \in Seq(Record) : /\ Len(q) \in Nat /\ pending' = pending \o q
                                     /\ generated' = generated + Len(q)
        BY <1>0, <1>6, MoveRowsAppends
      <3>2. Len(pending') = Len(pending) + Len(q)
        BY <1>0, <3>1
      <3> QED BY <3>1, <3>2
    <2>2. UNCHANGED <<held, synced, dropped, uncertain>>
      BY <1>6 DEF MoveRows
    <2> QED BY <1>0, <1>1, <1>4, <1>6, <2>1, <2>2 DEF LedgerInv, RowCount
  <1>7. CASE PopAndProcess /\ (StorageProcessOne \/ DrainRecord)
    <2> DEFINE r == Head(pending)
    <2>1. ~Deciding /\ Deciding'
      BY <1>7 DEF StorageProcessOne, DrainRecord, Deciding
    <2>2. /\ pending # <<>> /\ held = <<>> /\ held' = <<r>> /\ pending' = Tail(pending)
          /\ UNCHANGED <<generated, synced, dropped, uncertain>>
          /\ NotWritten \/ Written(r)
      BY <1>0, <1>7, PopWrites DEF Ledger!Take
    <2>3. Len(pending') = Len(pending) - 1 /\ Len(held) = 0 /\ Len(held') = 1
      BY <1>0, <2>2
    <2>4. generated' = synced' + dropped' + uncertain' + Len(pending') + Len(held')
      BY <1>0, <2>2, <2>3 DEF LedgerInv
    <2>5. Verdict("SYNCED") = 0 /\ Verdict("UNCERTAIN") = 0
      BY <2>1 DEF Verdict
    <2>6. CASE NotWritten
      <3>1. Verdict("SYNCED")' = 0 /\ Verdict("UNCERTAIN")' \in {0, 1}
        BY <2>6 DEF Verdict, NotWritten
      <3> QED BY <1>0, <1>2, <2>2, <2>4, <2>5, <2>6, <3>1 DEF LedgerInv, RowCount, NotWritten
    <2>7. CASE Written(r)
      <3>1. /\ Cells(files') = Cells(files) \cup {NewCell(files')}
            /\ \A p \in Cells(files) : Before(p, NewCell(files'))
            /\ outcome' \in {"SYNCED", "UNCERTAIN"}
        BY <2>7 DEF Written
      <3>2. NewCell(files') \notin Cells(files)
        <4>1. SUFFICES ASSUME NewCell(files') \in Cells(files) PROVE FALSE
          OBVIOUS
        <4>2. NewCell(files')[1] \in Nat /\ NewCell(files')[2] \in Nat
          BY <1>0, <4>1, CellTyped
        <4> QED BY <3>1, <4>1, <4>2 DEF Before
      <3>3. IsFiniteSet(Cells(files')) /\ RowCount' = RowCount + 1
        BY <3>1, <3>2, FS_AddElement DEF LedgerInv, RowCount
      <3>4. \/ Verdict("SYNCED")' = 1 /\ Verdict("UNCERTAIN")' = 0
            \/ Verdict("SYNCED")' = 0 /\ Verdict("UNCERTAIN")' = 1
        BY <2>1, <3>1 DEF Verdict
      <3> QED BY <1>0, <1>2, <2>2, <2>4, <2>5, <3>3, <3>4 DEF LedgerInv
    <2> QED BY <2>2, <2>6, <2>7
  <1>8. CASE Account /\ files' = files /\ (StorageSettle \/ DrainSettle)
    <2>1. Deciding /\ ~Deciding'
      BY <1>8 DEF StorageSettle, DrainSettle, Deciding, NextTurn
    <2>2. Verdict("SYNCED")' = 0 /\ Verdict("UNCERTAIN")' = 0
      BY <2>1 DEF Verdict
    <2>3. held # <<>> /\ held' = <<>> /\ generated' = generated
      BY <1>8 DEF Account, Ledger!SettleSynced, Ledger!SettleUncertain, Ledger!GiveBack
    <2>4. Len(held) = 1 /\ Len(held') = 0
      BY <1>1, <2>3
    <2>5. synced + 1 <= MaxRecords /\ uncertain + 1 <= MaxRecords /\ dropped + 1 <= MaxRecords
      BY <1>0, <2>4 DEF LedgerInv
    <2>6. CASE outcome = "SYNCED" /\ Ledger!SettleSynced
      <3>1. synced' = synced + 1 /\ UNCHANGED <<pending, dropped, uncertain>>
        BY <1>0, <1>3, <2>5, <2>6 DEF Ledger!SettleSynced
      <3>2. Verdict("SYNCED") = 1 /\ Verdict("UNCERTAIN") = 0
        BY <2>1, <2>6 DEF Verdict
      <3> QED BY <1>0, <1>2, <1>8, <2>2, <2>3, <2>4, <3>1, <3>2 DEF LedgerInv, RowCount
    <2>7. CASE outcome = "UNCERTAIN" /\ Ledger!SettleUncertain
      <3>1. uncertain' = uncertain + 1 /\ UNCHANGED <<pending, dropped, synced>>
        BY <1>0, <1>3, <2>5, <2>7 DEF Ledger!SettleUncertain
      <3>2. Verdict("SYNCED") = 0 /\ Verdict("UNCERTAIN") = 1
        BY <2>1, <2>7 DEF Verdict
      <3> QED BY <1>0, <1>2, <1>8, <2>2, <2>3, <2>4, <3>1, <3>2 DEF LedgerInv, RowCount
    <2>8. CASE outcome = "UNWRITTEN" /\ Ledger!GiveBack
      <3>1. Verdict("SYNCED") = 0 /\ Verdict("UNCERTAIN") = 0 /\ UNCHANGED <<synced, uncertain>>
        BY <2>8 DEF Verdict, Ledger!GiveBack
      <3>2. PICK r \in Record : held = <<r>>
        BY <1>0, <2>3 DEF Ledger!LedgerTypeOK
      <3>p. \A t \in Seq(Record) : Len(held \o t) = Len(t) + 1
        <4>1. \A t \in Seq(Record) : Len(<<r>> \o t) = Len(t) + 1
          OBVIOUS
        <4> QED BY <3>2, <4>1
      <3>3. dropped' + Len(pending') = dropped + Len(pending) + 1
        <4>1. CASE pending' = held \o pending /\ UNCHANGED dropped
          <5>1. Len(pending') = Len(pending) + 1
            BY <1>0, <3>p, <4>1
          <5> QED BY <1>0, <4>1, <5>1
        <4>2. CASE /\ pending' = held \o SubSeq(pending, 1, Capacity - 1)
                   /\ Len(pending) = Capacity /\ dropped' = Ledger!Bump(dropped)
          <5>1. dropped' = dropped + 1
            BY <1>0, <1>3, <2>5, <4>2
          <5>2. /\ SubSeq(pending, 1, Capacity - 1) \in Seq(Record)
                /\ Len(SubSeq(pending, 1, Capacity - 1)) = Capacity - 1
            BY <1>0, <4>2
          <5>3. Len(pending') = Capacity
            BY <1>0, <3>p, <4>2, <5>2
          <5>4. Len(pending) = Capacity /\ Capacity \in Nat /\ dropped \in Nat
            BY <1>0, <4>2
          <5> QED BY <5>1, <5>3, <5>4
        <4> QED BY <2>8, <4>1, <4>2 DEF Ledger!GiveBack, Ledger!Full
      <3>4. Len(pending') \in Nat /\ dropped' \in Nat
        <4>1. Ledger!LedgerTypeOK'
          BY <1>0, <1>8, AccountType
        <4> QED BY <4>1, WrapPositive DEF Ledger!LedgerTypeOK, Ledger!Counter
      <3>5. /\ generated \in Nat /\ synced \in Nat /\ uncertain \in Nat /\ dropped \in Nat
            /\ Len(pending) \in Nat
            /\ generated = synced + dropped + uncertain + Len(pending) + Len(held)
        BY <1>0 DEF LedgerInv
      <3>6. generated' = synced' + dropped' + uncertain' + Len(pending') + Len(held')
        <4>1. synced' = synced /\ uncertain' = uncertain /\ generated' = generated
          BY <2>3, <3>1
        <4>2. generated = synced + uncertain + (dropped + Len(pending) + 1)
          BY <2>4, <3>5
        <4>3. synced' + dropped' + uncertain' + Len(pending') + Len(held')
                = synced + uncertain + (dropped' + Len(pending'))
          BY <2>4, <3>4, <3>5, <4>1
        <4> QED BY <3>3, <4>1, <4>2, <4>3
      <3>7. RowCount' = RowCount /\ Cells(files') = Cells(files)
        BY <1>8 DEF RowCount
      <3>8. /\ synced' + Verdict("SYNCED")' <= RowCount'
            /\ RowCount' <= synced' + Verdict("SYNCED")' + uncertain' + Verdict("UNCERTAIN")'
        <4>1. synced <= RowCount /\ RowCount <= synced + uncertain
          BY <1>2, <3>1, <3>5 DEF LedgerInv
        <4>2. synced' = synced /\ uncertain' = uncertain /\ RowCount' = RowCount
          BY <3>1, <3>7
        <4> QED BY <1>2, <2>2, <3>5, <4>1, <4>2
      <3>9. IsFiniteSet(Cells(files'))
        BY <3>7 DEF LedgerInv
      <3> QED BY <3>6, <3>8, <3>9 DEF LedgerInv
    <2> QED BY <1>8, <2>6, <2>7, <2>8 DEF Account
  <1>9. CASE Quiet
    <2>1. Verdict("SYNCED")' = Verdict("SYNCED") /\ Verdict("UNCERTAIN")' = Verdict("UNCERTAIN")
      BY <1>9 DEF Quiet, Verdict, Deciding
    <2> QED BY <1>9, <2>1 DEF Quiet, ledger, LedgerInv, RowCount
  <1> QED BY <1>5, <1>6, <1>7, <1>8, <1>9, RecordSteps

LEMMA LedgerStart == Init => LedgerInv
  <1> SUFFICES ASSUME Init PROVE LedgerInv
    OBVIOUS
  <1>1. Cells(files) = {}
    BY DEF Init, Cells
  <1>2. RowCount = 0 /\ IsFiniteSet(Cells(files))
    BY <1>1, FS_EmptySet DEF RowCount
  <1>3. Verdict("SYNCED") = 0 /\ Verdict("UNCERTAIN") = 0
    BY DEF Init, Verdict, Deciding
  <1>4. Len(held) = 0 /\ Len(pending) \in Nat
    <2>1. Len(<<>>) = 0 /\ Len(<<[id |-> 1, trigger |-> "OTHER", date |-> 0]>>) = 1
      OBVIOUS
    <2> QED BY <2>1 DEF Init
  <1>5. synced = 0 /\ dropped = 0 /\ uncertain = 0 /\ generated = Len(pending)
    BY DEF Init
  <1> QED BY <1>2, <1>3, <1>4, <1>5 DEF LedgerInv

LEMMA LedgerInvImplies == TInv /\ OrderInv /\ LedgerInv => LedgerMatchesCard
  <1> SUFFICES ASSUME TInv, OrderInv, LedgerInv PROVE LedgerMatchesCard
    OBVIOUS
  <1>0. /\ TypeOK /\ generated \in Nat /\ MaxRecords \in Nat /\ generated <= MaxRecords
        /\ files \in Seq(Seq(CardRow))
    <2>1. /\ TypeOK /\ waiting \in 0 .. MaxWaiting /\ event_open \in BOOLEAN /\ generated \in Nat
          /\ MaxWaiting \in Nat /\ MaxRecords \in Nat /\ Budget
      BY LoggingAssumption, WrapPositive DEF TInv, TypeOK, Ledger!LedgerTypeOK, Ledger!Counter
    <2>2. generated <= MaxRecords
      BY <2>1 DEF Budget, Room
    <2> QED BY <2>1, <2>2 DEF TypeOK
  <1>1. ASSUME NEW p \in Cells(files) PROVE p \in Positions
    <2>1. /\ p = <<p[1], p[2]>> /\ p[1] \in 1 .. Len(files) /\ p[2] \in 1 .. Len(files[p[1]])
          /\ p[2] \in Nat /\ At(files, p).id \in Nat
      BY <1>0, CellTyped
    <2>2. p[2] <= At(files, p).id /\ At(files, p).id <= generated
      BY DEF OrderInv, CardOrder
    <2>3. p[2] \in 1 .. MaxRecords /\ p[2] <= Len(files[p[1]])
      BY <1>0, <2>1, <2>2
    <2> QED BY <2>1, <2>3 DEF Positions
  <1>2. Positions = Cells(files)
    BY <1>0, <1>1, PositionIsCell
  <1> QED BY <1>2 DEF LedgerInv, LedgerMatchesCard, RowCount, Verdict, Deciding

(* The counters the host reads are true of the card: each record counted   *)
(* synced has its row, and a row without such a record is counted          *)
(* uncertain, at every step of every retry, drain and card failure.        *)
THEOREM LedgerCorrect == Spec => []LedgerMatchesCard
  <1> QED
    BY TInvInit, TInvNext, DateInit, DateNext, OrderInit, OrderNext, LedgerStart, LedgerStep,
       LedgerInvImplies, TypeImplied, PTL DEF Spec
=============================================================================
