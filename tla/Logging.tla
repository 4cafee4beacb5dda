------------------------------- MODULE Logging ------------------------------
(***************************************************************************)
(* Recording on board A, end to end: the run-control commands (comm task), *)
(* the scheduler tick, the black-box rows and the stop flush (acquisition  *)
(* task), the record queue, and the storage task with its file engine,     *)
(* mount state and drain handshake. RecordLedger stands for the queue.     *)
(*                                                                         *)
(* Every call under the model mutex is one step. The storage task has the  *)
(* lowest priority, so any command or acquisition step can come between    *)
(* two of its steps; `pc` says where it is. Its file I/O touches nothing   *)
(* the other tasks see and is one step with the step that starts it.       *)
(*                                                                         *)
(* Time is abstracted: a sample, a deadline or a retry may be due whenever *)
(* the code could find it due. While card_good holds, the card is present, *)
(* has room and answers in time; otherwise each I/O call may fail or work. *)
(***************************************************************************)
EXTENDS Integers, Sequences, FiniteSets

CONSTANTS Capacity,    (* BOARD_A_RECORD_QUEUE_CAPACITY                    *)
          MaxWaiting,  (* BOARD_A_EVENT_OUTPUT_CAPACITY                    *)
          MaxRecords,  (* bound: records generated in a behaviour          *)
          MaxStops,    (* bound: drains requested in a behaviour           *)
          MaxDate      (* bound: dates 1 .. MaxDate, 0 is "time not set"   *)

ASSUME LoggingAssumption ==
  /\ Capacity \in Nat \ {0}
  /\ MaxWaiting \in Nat \ {0}
  /\ MaxRecords \in Nat \ {0}
  /\ MaxStops \in Nat
  /\ MaxDate \in Nat

VARIABLES
  run_state, start_pending, schedule_armed,
  flush_pending,                    (* event_stop_flush_pending            *)
  drain_state, drain_generation,
  date,                             (* the day shown by the clock          *)
  waiting, event_open,              (* event buffer: output rows, phase    *)
  pending, held, generated, synced, dropped, uncertain,  (* RecordLedger  *)
  storage_state, retry_due,         (* retry_due: retry_after has expired  *)
  pc, drain_gen,                    (* drain_gen: status->drain_generation *)
  outcome, fault,                   (* engine result, state_for_error of it*)
  file, file_date, close_failed,    (* board_a_storage_engine_t            *)
  mount,                            (* g_storage_mounted and the volume    *)
  card_good, files                  (* the card and the files on it        *)

control == <<run_state, start_pending, schedule_armed, flush_pending,
             drain_state, drain_generation, date>>
events  == <<waiting, event_open>>
ledger  == <<pending, held, generated, synced, dropped, uncertain>>
task    == <<storage_state, retry_due, pc, drain_gen, outcome, fault>>
engine  == <<file, file_date, close_failed, mount, files>>
vars    == <<control, events, ledger, task, engine, card_good>>

Date == 0 .. MaxDate
Trigger == {"SINGLE", "OTHER"}   (* PERIODIC and EVENT are written alike   *)
Record == [id : 1 .. MaxRecords, trigger : Trigger, date : Date]
CardRow == [id : 1 .. MaxRecords, date : Date]
Wrap == MaxRecords + Capacity + 2     (* no counter wraps in this model  *)
Faults == {"UNAVAILABLE", "FULL", "IO_ERROR"}

Ledger == INSTANCE RecordLedger

SmallerOf(a, b) == IF a <= b THEN a ELSE b

TypeOK ==
  /\ run_state \in {"STOPPED", "RUNNING"}
  /\ start_pending \in BOOLEAN
  /\ schedule_armed \in BOOLEAN
  /\ flush_pending \in BOOLEAN
  /\ drain_state \in {"NONE", "PENDING", "DONE", "FAILED"}
  /\ drain_generation \in Nat
  /\ date \in Date
  /\ waiting \in 0 .. MaxWaiting
  /\ event_open \in BOOLEAN
  /\ Ledger!LedgerTypeOK
  /\ storage_state \in {"INITIALIZING", "READY", "DRAINING", "CLOSED"} \cup Faults
  /\ retry_due \in BOOLEAN
  /\ pc \in {"loop", "settle", "single", "drain", "drain_settle", "drain_end"}
  /\ drain_gen \in Nat
  /\ outcome \in {"NONE", "SYNCED", "UNCERTAIN", "UNWRITTEN", "CLOSED", "FAILED"}
  /\ fault \in Faults \cup {"NONE"}
  /\ file \in {"none", "open", "stale"}
  /\ file_date \in Date
  /\ close_failed \in BOOLEAN
  /\ mount \in {"none", "live", "dead"}
  /\ card_good \in BOOLEAN
  /\ files \in Seq(Seq(CardRow))

(* Startup may have queued the CLOSE row of an event cut off by a reset.   *)
Init ==
  /\ run_state = "STOPPED" /\ start_pending = FALSE /\ schedule_armed = FALSE
  /\ flush_pending = FALSE
  /\ drain_state = "NONE" /\ drain_generation = 0
  /\ date = 0
  /\ waiting = 0 /\ event_open = FALSE
  /\ pending \in {<<>>, <<[id |-> 1, trigger |-> "OTHER", date |-> 0]>>}
  /\ held = <<>>
  /\ generated = Len(pending)
  /\ synced = 0 /\ dropped = 0 /\ uncertain = 0
  /\ storage_state = "INITIALIZING" /\ retry_due = TRUE
  /\ pc = "loop" /\ drain_gen = 0 /\ outcome = "NONE" /\ fault = "NONE"
  /\ file = "none" /\ file_date = 0 /\ close_failed = FALSE
  /\ mount = "none"
  /\ card_good \in BOOLEAN
  /\ files = <<>>
-----------------------------------------------------------------------------
(* Bounds: room for n more records, keeping room for the rows that wait    *)
(* and for the CLOSE row of an open event; and for one more drain.         *)
Room(n) == generated + waiting + (IF event_open THEN 1 ELSE 0) + n <= MaxRecords
StopsLeft == flush_pending \/ drain_generation < MaxStops

Row(id, trigger, d) == [id |-> id, trigger |-> trigger, date |-> d]

(* generate_record                                                         *)
GenerateRecord(trigger) ==
  /\ Room(1)
  /\ Ledger!Push(Row(generated + 1, trigger, date))

(* Faulty variant: the drain is looked at, the stop flush is not.          *)
BusyDrainOnly == drain_state = "PENDING"

(* START, SINGLE and ARM_START are refused while a stop is being worked on *)
Busy == drain_state = "PENDING" \/ flush_pending

Start ==
  /\ ~Busy
  /\ schedule_armed' = FALSE
  /\ run_state' = "RUNNING"
  /\ start_pending' = (start_pending \/ run_state # "RUNNING")
  /\ UNCHANGED <<flush_pending, drain_state, drain_generation, date>>
  /\ UNCHANGED <<events, ledger, task, engine, card_good>>

Stop ==
  /\ StopsLeft
  /\ schedule_armed' = FALSE
  /\ run_state' = "STOPPED"
  /\ start_pending' = FALSE
  /\ flush_pending' = TRUE
  /\ UNCHANGED <<drain_state, drain_generation, date>>
  /\ UNCHANGED <<events, ledger, task, engine, card_good>>

Single ==
  /\ ~Busy
  /\ GenerateRecord("SINGLE")
  /\ UNCHANGED <<control, events, task, engine, card_good>>

ArmStart ==
  /\ ~Busy
  /\ date # 0
  /\ run_state # "RUNNING"
  /\ schedule_armed' = TRUE
  /\ UNCHANGED <<run_state, start_pending, flush_pending, drain_state,
                 drain_generation, date>>
  /\ UNCHANGED <<events, ledger, task, engine, card_good>>

(* SET_TIME (refused while a schedule is armed), or midnight passes.       *)
DateChanges ==
  /\ schedule_armed => date # 0
  /\ \E d \in Date \ {0, date} : date' = d
  /\ UNCHANGED <<run_state, start_pending, schedule_armed, flush_pending,
                 drain_state, drain_generation>>
  /\ UNCHANGED <<events, ledger, task, engine, card_good>>
-----------------------------------------------------------------------------
(* board_a_model_tick: an armed start that is due begins a run; a run      *)
(* records its first sample at once and later ones when they are due; a    *)
(* run that reached record_count stops and asks for the flush.             *)
Tick ==
  /\ \E due \in BOOLEAN :
       /\ due => schedule_armed
       /\ due \/ run_state = "RUNNING"
       /\ schedule_armed' = (schedule_armed /\ ~due)
       /\ \/ GenerateRecord("OTHER")
          \/ ~due /\ ~start_pending /\ UNCHANGED ledger
  /\ start_pending' = FALSE
  /\ \/ run_state' = "RUNNING" /\ UNCHANGED flush_pending
     \/ StopsLeft /\ run_state' = "STOPPED" /\ flush_pending' = TRUE
  /\ UNCHANGED <<drain_state, drain_generation, date>>
  /\ UNCHANGED <<events, task, engine, card_good>>

(* board_a_runtime_drain_event_records with w rows in the output queue: as *)
(* many rows as fit move to the record queue, the rest wait. A row older   *)
(* than the last SET_TIME has no date.                                     *)
MoveRows(w) ==
  LET n == SmallerOf(w, Capacity - Len(pending))
  IN  /\ \E d \in [1 .. n -> {0} \cup (IF date = 0 THEN {} ELSE 1 .. MaxDate)] :
           pending' = pending \o [i \in 1 .. n |-> Row(generated + i, "OTHER", d[i])]
      /\ generated' = generated + n
      /\ waiting' = w - n
      /\ UNCHANGED <<held, synced, dropped, uncertain>>

(* One sensor scan of the acquisition task: an alarm opens an event only   *)
(* during a run; an open event adds rows and may close; then rows move on. *)
EventStep ==
  /\ \/ /\ run_state = "RUNNING" /\ ~event_open /\ Room(2)
        /\ event_open' = TRUE
        /\ MoveRows(SmallerOf(waiting + 1, MaxWaiting))
     \/ /\ event_open /\ Room(1)
        /\ UNCHANGED event_open
        /\ MoveRows(SmallerOf(waiting + 1, MaxWaiting))
     \/ /\ event_open
        /\ event_open' = FALSE
        /\ MoveRows(SmallerOf(waiting + 1, MaxWaiting))
  /\ UNCHANGED <<control, task, engine, card_good>>

(* An iteration without a new row still moves the rows that wait.          *)
EventDrain ==
  /\ MoveRows(waiting)
  /\ UNCHANGED event_open
  /\ UNCHANGED <<control, task, engine, card_good>>

(* event_finish_stop_flush: close the event, move its rows, and once they  *)
(* are all in the record queue ask the storage task to drain it.           *)
FinishStopFlush ==
  /\ flush_pending
  /\ event_open' = FALSE
  /\ MoveRows(IF event_open THEN SmallerOf(waiting + 1, MaxWaiting) ELSE waiting)
  /\ \/ /\ waiting' = 0
        /\ flush_pending' = FALSE
        /\ drain_state' = "PENDING"
        /\ drain_generation' = drain_generation + 1
     \/ /\ waiting' > 0
        /\ UNCHANGED <<flush_pending, drain_state, drain_generation>>
  /\ UNCHANGED <<run_state, start_pending, schedule_armed, date>>
  /\ UNCHANGED <<task, engine, card_good>>
-----------------------------------------------------------------------------
(* File I/O. An open handle works while its volume is mounted and alive; a *)
(* volume is dead when its card was pulled and put back, until a remount.  *)
HandleWorks == file = "open" /\ mount = "live"
HandleFails == ~HandleWorks \/ ~card_good
MountWorks  == mount # "dead"
MountFails  == mount = "dead" \/ ~card_good

CloseOK   == HandleWorks
CloseFail == HandleFails

(* board_a_storage_engine_probe over storage_port_probe. A remount leaves  *)
(* a handle of the old mount behind.                                       *)
ProbeOK ==
  /\ MountWorks
  /\ mount' = "live"
  /\ file' = IF file = "open" /\ mount = "none" THEN "stale" ELSE file
  /\ close_failed' = FALSE
  /\ UNCHANGED <<file_date, files>>

ProbeFail ==
  /\ MountFails
  /\ mount' = "none"
  /\ UNCHANGED <<file, file_date, close_failed, files>>

(* Faulty variant: an earlier failed close is forgotten.                   *)
EngineDrainForgiving ==
  /\ \/ file = "none" /\ UNCHANGED <<mount, close_failed>>
     \/ file # "none" /\ CloseOK /\ close_failed' = FALSE /\ UNCHANGED mount
  /\ file' = "none"
  /\ file_date' = 0
  /\ UNCHANGED files

(* board_a_storage_engine_drain: success and failure.                      *)
EngineDrainOK ==
  /\ \/ file = "none" /\ ~close_failed /\ UNCHANGED <<mount, close_failed>>
     \/ file # "none" /\ CloseOK /\ close_failed' = FALSE /\ UNCHANGED mount
  /\ file' = "none"
  /\ file_date' = 0
  /\ UNCHANGED files

EngineDrainFail ==
  /\ \/ file = "none" /\ close_failed /\ UNCHANGED <<mount, close_failed>>
     \/ file # "none" /\ CloseFail /\ close_failed' = TRUE /\ mount' = "none"
  /\ file' = "none"
  /\ file_date' = 0
  /\ UNCHANGED files

(* Faulty variant: the file of another date is not closed.                 *)
RolloverForgotten(r) == FALSE

(* board_a_storage_engine_process for record r. Rollover(r): the open file *)
(* is of another date and is closed first; NeedFile(r): a file is opened.  *)
Rollover(r) == file # "none" /\ file_date # r.date
NeedFile(r) == file = "none" \/ Rollover(r)

Encoded(r) == [id |-> r.id, date |-> r.date]
Extended(r) == [files EXCEPT ![Len(files)] = Append(@, Encoded(r))]

ProcessSynced(r) ==
  /\ \/ /\ ~NeedFile(r) /\ HandleWorks
        /\ files' = Extended(r)
        /\ UNCHANGED <<file_date, close_failed, mount>>
     \/ /\ NeedFile(r)
        /\ IF Rollover(r) THEN CloseOK ELSE MountWorks
        /\ files' = Append(files, <<Encoded(r)>>)
        /\ file_date' = r.date
        /\ mount' = "live"
        /\ close_failed' = (close_failed /\ ~Rollover(r))
  /\ file' = "open"

(* The close, the open or the header failed: nothing of r was written.     *)
ProcessUnwritten(r) ==
  /\ NeedFile(r)
  /\ \/ Rollover(r) /\ CloseFail /\ mount' = "none" /\ close_failed' = TRUE
     \/ /\ IF Rollover(r) THEN CloseOK /\ ~card_good ELSE MountFails
        /\ mount' \in {mount, "none"} \cup (IF MountWorks THEN {"live"} ELSE {})
        /\ close_failed' \in {close_failed /\ ~Rollover(r), TRUE}
  /\ file' = "none"
  /\ file_date' = 0
  /\ UNCHANGED files

(* The row's write or sync failed: r may be on the card, or not.           *)
ProcessUncertain(r) ==
  /\ \/ /\ ~NeedFile(r) /\ HandleFails
        /\ files' \in {files} \cup (IF HandleWorks THEN {Extended(r)} ELSE {})
     \/ /\ NeedFile(r) /\ ~card_good
        /\ IF Rollover(r) THEN CloseOK ELSE MountWorks
        /\ files' \in {files, Append(files, <<Encoded(r)>>)}
  /\ close_failed' \in {close_failed /\ ~Rollover(r), TRUE}
  /\ file' = "none"
  /\ file_date' = 0
  /\ mount' = "none"

(* What state_for_error makes of a failure; only a full card reports FULL. *)
FaultsNow == IF card_good THEN Faults \ {"FULL"} ELSE Faults

(* Pop the oldest record and hand it to the engine.                        *)
PopAndProcess ==
  /\ Ledger!Take
  /\ \/ outcome' = "SYNCED" /\ ProcessSynced(Head(pending)) /\ UNCHANGED fault
     \/ outcome' = "UNWRITTEN" /\ ProcessUnwritten(Head(pending)) /\ fault' \in FaultsNow
     \/ outcome' = "UNCERTAIN" /\ ProcessUncertain(Head(pending)) /\ fault' \in FaultsNow
-----------------------------------------------------------------------------
(* board_a_storage_task, the top of its loop: a drain comes first, then a  *)
(* probe of a card not ready, then one record. ProbeOnlyAtBoot and         *)
(* StorageDrainWhenReady are faulty variants.                              *)
ProbeOnlyAtBoot == storage_state = "INITIALIZING"

NeedsProbe == storage_state \in {"INITIALIZING", "UNAVAILABLE", "IO_ERROR"}

(* Back to the top of the loop: the locals of this turn go out of scope.    *)
NextTurn == pc' = "loop" /\ drain_gen' = 0 /\ outcome' = "NONE" /\ fault' = "NONE"

StorageDrainWhenReady ==
  /\ pc = "loop" /\ drain_state = "PENDING" /\ ~NeedsProbe
  /\ pc' = "drain"
  /\ drain_gen' = drain_generation
  /\ storage_state' = "DRAINING"
  /\ UNCHANGED <<retry_due, outcome, fault>>
  /\ UNCHANGED <<control, events, ledger, engine, card_good>>

StorageDrain ==
  /\ pc = "loop" /\ drain_state = "PENDING"
  /\ pc' = "drain"
  /\ drain_gen' = drain_generation
  /\ storage_state' = "DRAINING"
  /\ UNCHANGED <<retry_due, outcome, fault>>
  /\ UNCHANGED <<control, events, ledger, engine, card_good>>

StorageProbe ==
  /\ pc = "loop" /\ drain_state # "PENDING"
  /\ NeedsProbe /\ (storage_state = "INITIALIZING" \/ retry_due)
  /\ \/ ProbeOK /\ storage_state' = "READY" /\ UNCHANGED retry_due
     \/ ProbeFail /\ storage_state' \in FaultsNow /\ retry_due' = FALSE
  /\ UNCHANGED <<pc, drain_gen, outcome, fault>>
  /\ UNCHANGED <<control, events, ledger, card_good>>

StorageProcessOne ==
  /\ pc = "loop" /\ drain_state # "PENDING" /\ ~NeedsProbe
  /\ retry_due
  /\ PopAndProcess
  /\ pc' = "settle"
  /\ UNCHANGED <<storage_state, retry_due, drain_gen>>
  /\ UNCHANGED <<control, events, card_good>>

(* Faulty variants: a record whose fate is unknown is queued again, or is  *)
(* taken for synced.                                                       *)
AccountRetryingUncertain ==
  \/ outcome = "SYNCED" /\ Ledger!SettleSynced
  \/ outcome = "UNCERTAIN" /\ Ledger!GiveBack
  \/ outcome = "UNWRITTEN" /\ Ledger!GiveBack

AccountUncertainAsSynced ==
  \/ outcome \in {"SYNCED", "UNCERTAIN"} /\ Ledger!SettleSynced
  \/ outcome = "UNWRITTEN" /\ Ledger!GiveBack

(* complete_record or requeue_record, by the engine's result.              *)
Account ==
  \/ outcome = "SYNCED" /\ Ledger!SettleSynced
  \/ outcome = "UNCERTAIN" /\ Ledger!SettleUncertain
  \/ outcome = "UNWRITTEN" /\ Ledger!GiveBack

StorageSettle ==
  /\ pc = "settle"
  /\ Account
  /\ \/ /\ outcome = "SYNCED" /\ held[1].trigger = "SINGLE"
        /\ pc' = "single"
        /\ UNCHANGED <<storage_state, retry_due, drain_gen, outcome, fault>>
     \/ /\ outcome = "SYNCED" /\ held[1].trigger # "SINGLE"
        /\ storage_state' = "READY"
        /\ NextTurn
        /\ UNCHANGED retry_due
     \/ /\ outcome # "SYNCED"
        /\ storage_state' = fault
        /\ retry_due' = FALSE
        /\ NextTurn
  /\ UNCHANGED <<control, events, engine, card_good>>

(* A single sample taken outside a run: its file is closed at once.        *)
StorageSingle ==
  /\ pc = "single"
  /\ \/ /\ run_state = "STOPPED" /\ EngineDrainOK
        /\ storage_state' = "CLOSED"
        /\ UNCHANGED retry_due
     \/ /\ run_state = "STOPPED" /\ EngineDrainFail
        /\ storage_state' = "IO_ERROR"
        /\ retry_due' = FALSE
     \/ /\ run_state # "STOPPED"
        /\ storage_state' = "READY"
        /\ UNCHANGED <<retry_due, engine>>
  /\ NextTurn
  /\ UNCHANGED <<control, events, ledger, card_good>>
-----------------------------------------------------------------------------
(* storage_run_drain, one turn of its loop. A newer STOP's generation ends *)
(* the attempt.                                                            *)
OwnDrain == drain_state = "PENDING" /\ drain_generation = drain_gen

DrainAbort ==
  /\ pc = "drain" /\ ~OwnDrain
  /\ NextTurn
  /\ UNCHANGED <<storage_state, retry_due>>
  /\ UNCHANGED <<control, events, ledger, engine, card_good>>

DrainClose ==
  /\ pc = "drain" /\ OwnDrain
  /\ pending = <<>> /\ held = <<>>
  /\ \/ EngineDrainOK /\ outcome' = "CLOSED" /\ UNCHANGED fault
     \/ EngineDrainFail /\ outcome' = "FAILED" /\ fault' = "IO_ERROR"
  /\ pc' = "drain_end"
  /\ UNCHANGED <<storage_state, retry_due, drain_gen>>
  /\ UNCHANGED <<control, events, ledger, card_good>>

(* The five seconds of the drain ran out on a slow card.                   *)
DrainTimeout ==
  /\ pc = "drain" /\ OwnDrain
  /\ pending # <<>> /\ ~card_good
  /\ outcome' = "FAILED" /\ fault' = "IO_ERROR"
  /\ pc' = "drain_end"
  /\ UNCHANGED <<storage_state, retry_due, drain_gen>>
  /\ UNCHANGED <<control, events, ledger, engine, card_good>>

DrainRecord ==
  /\ pc = "drain" /\ OwnDrain
  /\ PopAndProcess
  /\ pc' = "drain_settle"
  /\ UNCHANGED <<storage_state, retry_due, drain_gen>>
  /\ UNCHANGED <<control, events, card_good>>

DrainSettle ==
  /\ pc = "drain_settle"
  /\ Account
  /\ \/ outcome = "SYNCED" /\ pc' = "drain" /\ outcome' = "NONE"
     \/ outcome # "SYNCED" /\ pc' = "drain_end" /\ outcome' = "FAILED"
  /\ UNCHANGED <<storage_state, retry_due, drain_gen, fault>>
  /\ UNCHANGED <<control, events, engine, card_good>>

(* Faulty variant: a failed drain is never completed.                      *)
DrainEndSuccessOnly ==
  /\ pc = "drain_end"
  /\ NextTurn
  /\ drain_state' = IF OwnDrain /\ outcome = "CLOSED" THEN "DONE" ELSE drain_state
  /\ storage_state' = IF outcome = "CLOSED" THEN "CLOSED" ELSE fault
  /\ UNCHANGED <<run_state, start_pending, schedule_armed, flush_pending,
                 drain_generation, date>>
  /\ UNCHANGED retry_due
  /\ UNCHANGED <<events, ledger, engine, card_good>>

(* complete_drain with the generation of this attempt, then the state.     *)
DrainEnd ==
  /\ pc = "drain_end"
  /\ NextTurn
  /\ \/ OwnDrain /\ drain_state' = IF outcome = "CLOSED" THEN "DONE" ELSE "FAILED"
     \/ ~OwnDrain /\ UNCHANGED drain_state
  /\ storage_state' = IF outcome = "CLOSED" THEN "CLOSED" ELSE fault
  /\ UNCHANGED <<run_state, start_pending, schedule_armed, flush_pending,
                 drain_generation, date>>
  /\ UNCHANGED retry_due
  /\ UNCHANGED <<events, ledger, engine, card_good>>

RetryExpires ==
  /\ ~retry_due
  /\ retry_due' = TRUE
  /\ UNCHANGED <<storage_state, pc, drain_gen, outcome, fault>>
  /\ UNCHANGED <<control, events, ledger, engine, card_good>>

(* The card: pulled, full or slow; good again, or put back after a pull.   *)
CardFails ==
  /\ card_good
  /\ card_good' = FALSE
  /\ UNCHANGED <<control, events, ledger, task, engine>>

CardRestored ==
  /\ ~card_good
  /\ card_good' = TRUE
  /\ mount' \in {mount} \cup (IF mount = "live" THEN {"dead"} ELSE {})
  /\ UNCHANGED <<file, file_date, close_failed, files>>
  /\ UNCHANGED <<control, events, ledger, task>>
-----------------------------------------------------------------------------
CommNext == Start \/ Stop \/ Single \/ ArmStart \/ DateChanges

AcquisitionNext == Tick \/ EventStep \/ EventDrain \/ FinishStopFlush

StorageNext ==
  \/ StorageDrain \/ StorageProbe \/ StorageProcessOne \/ StorageSettle
  \/ StorageSingle \/ DrainAbort \/ DrainClose \/ DrainTimeout
  \/ DrainRecord \/ DrainSettle \/ DrainEnd

Next ==
  \/ CommNext
  \/ AcquisitionNext
  \/ StorageNext
  \/ RetryExpires
  \/ CardFails
  \/ CardRestored

Spec == Init /\ [][Next]_vars

(* The acquisition task wakes at least every second; each time it moves    *)
(* the event rows and works on a pending flush. The storage task is woken  *)
(* by it and by its own retry timer. Commands, samples and the card owe    *)
(* nothing.                                                                *)
FairSpec ==
  /\ Spec
  /\ WF_vars(EventDrain)
  /\ WF_vars(FinishStopFlush)
  /\ WF_vars(StorageNext)
  /\ WF_vars(RetryExpires)
-----------------------------------------------------------------------------
(* No run and no armed start coexists with a stop that is still being      *)
(* flushed or drained: whatever interleaving of commands, ticks and drain  *)
(* results, a new run cannot mix its rows with the old run's.              *)
ExclusiveRun ==
  /\ run_state = "RUNNING" \/ schedule_armed => ~flush_pending /\ drain_state # "PENDING"
  /\ schedule_armed => run_state = "STOPPED" /\ date # 0
  /\ start_pending => run_state = "RUNNING"

(* The storage task never forgets the record it was handed: between its    *)
(* pop and its verdict the record is out, at every other point it is not   *)
(* (a leaked in_flight flag would block the queue for good).               *)
HeldOnlyWhileProcessed ==
  (held # <<>>) <=> (pc \in {"settle", "drain_settle"})

Positions == {p \in (1 .. Len(files)) \X (1 .. MaxRecords) : p[2] <= Len(files[p[1]])}
RowAt(p) == files[p[1]][p[2]]
Before(p, q) == p[1] < q[1] \/ (p[1] = q[1] /\ p[2] < q[2])

(* Rows reach the card in the order they were generated and no row twice,  *)
(* over retries, drains, rollovers and a card that comes and goes.         *)
RowsInOrder ==
  \A p, q \in Positions : Before(p, q) => RowAt(p).id < RowAt(q).id

(* A file holds the rows of one date (its name and directory carry it).    *)
FileHoldsOneDate ==
  /\ \A p, q \in Positions : p[1] = q[1] => RowAt(p).date = RowAt(q).date
  /\ file = "open" => files # <<>> /\ file_date = files[Len(files)][1].date

(* The ledger agrees with the card, count for count: there are at least as *)
(* many rows on it as are counted synced, and at most as many as synced    *)
(* and uncertain together. (That no row is there twice is RowsInOrder.)    *)
LedgerMatchesCard ==
  LET verdict(o) == IF pc \in {"settle", "drain_settle"} /\ outcome = o THEN 1 ELSE 0
      certain    == synced + verdict("SYNCED")
      rows       == Cardinality(Positions)
  IN  certain <= rows /\ rows <= certain + uncertain + verdict("UNCERTAIN")

(* A drain is reported DONE only when the stop is really complete: no row  *)
(* waits anywhere, none is out, and the file is closed.                    *)
DrainDoneMeansFlushed ==
  [][drain_state' = "DONE" /\ drain_state # "DONE" =>
       /\ waiting = 0 /\ ~event_open
       /\ pending = <<>> /\ held = <<>>
       /\ file = "none" /\ ~close_failed]_vars

(* A drain request is answered, card or no card.                           *)
DrainAnswered ==
  drain_state = "PENDING" ~> drain_state # "PENDING"

(* Once the card stays good, every stop completes, and the device accepts  *)
(* a START again.                                                          *)
StopCompletes == <>[]card_good => []<>~Busy

(* README: after the card is put back, recording recovers and catches up:  *)
(* every waiting or queued record reaches its verdict.                     *)
CatchesUp == <>[]card_good => []<>(waiting = 0 /\ pending = <<>> /\ held = <<>>)
=============================================================================
