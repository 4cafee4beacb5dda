---------------------------- MODULE RecordQueue -----------------------------
(***************************************************************************)
(* The record queue of board_a_persistence.c: a ring of Capacity slots     *)
(* indexed by head and count, an in_flight flag, and the accounting        *)
(* counters. One action is one call, made under the model mutex.           *)
(*                                                                         *)
(* `record` is the storage task's own copy of the record it popped: the    *)
(* queue keeps only a flag, and trusts the task to give back or to settle  *)
(* the record it was handed. The diagnostics nothing reads back            *)
(* (high_water, last_synced_*, storage_errors, event_dropped) are left out.*)
(***************************************************************************)
EXTENDS Integers, Sequences

CONSTANTS Record, NoRecord, Capacity, Wrap

ASSUME QueueAssumption ==
  /\ Capacity \in Nat \ {0}
  /\ Wrap \in Nat
  /\ Capacity + 1 < Wrap
  /\ NoRecord \notin Record

VARIABLES records,    (* the ring                                          *)
          head,       (* slot of the oldest queued record                  *)
          count,      (* number of queued records                          *)
          in_flight,  (* 1 while a record is out                           *)
          record,     (* the storage task's copy of that record            *)
          generated, synced, dropped, uncertain

vars == <<records, head, count, in_flight, record,
          generated, synced, dropped, uncertain>>

Slot == 0 .. Capacity - 1
Counter == 0 .. Wrap - 1

Bump(n) == (n + 1) % Wrap

TypeOK ==
  /\ records \in [Slot -> Record \cup {NoRecord}]
  /\ head \in Slot
  /\ count \in 0 .. Capacity
  /\ in_flight \in {0, 1}
  /\ record \in Record \cup {NoRecord}
  /\ generated \in Counter
  /\ synced \in Counter
  /\ dropped \in Counter
  /\ uncertain \in Counter

Init ==
  /\ records = [s \in Slot |-> NoRecord]
  /\ head = 0
  /\ count = 0
  /\ in_flight = 0
  /\ record = NoRecord
  /\ generated = 0
  /\ synced = 0
  /\ dropped = 0
  /\ uncertain = 0
-----------------------------------------------------------------------------
(* The slot k places after slot h, and the slot k places after the head.   *)
SlotFrom(h, k) == (h + k) % Capacity
SlotAt(k) == SlotFrom(head, k)

(* queue_push with room: write the slot after the last queued record.      *)
PushAccepted(r) ==
  /\ count < Capacity
  /\ generated' = Bump(generated)
  /\ records' = [records EXCEPT ![SlotAt(count)] = r]
  /\ count' = count + 1
  /\ UNCHANGED <<head, in_flight, record, synced, dropped, uncertain>>

(* queue_push with no room: drop the new record.                           *)
PushDropped ==
  /\ count >= Capacity
  /\ generated' = Bump(generated)
  /\ dropped' = Bump(dropped)
  /\ UNCHANGED <<records, head, count, in_flight, record, synced, uncertain>>

Push(r) == PushAccepted(r) \/ PushDropped

(* queue_push_event: with no room nothing happens, not even the counting.  *)
PushEvent(r) == count < Capacity /\ Push(r)

Pop ==
  /\ count # 0
  /\ in_flight = 0
  /\ record' = records[head]
  /\ head' = SlotAt(1)
  /\ count' = count - 1
  /\ in_flight' = 1
  /\ UNCHANGED <<records, generated, synced, dropped, uncertain>>

(* The slot before the head.                                               *)
SlotBefore == SlotFrom(head, Capacity - 1)

(* Faulty variant: the record goes behind the others.                      *)
RequeueAtTail ==
  /\ in_flight # 0
  /\ in_flight' = 0
  /\ record' = NoRecord
  /\ \/ /\ count < Capacity
        /\ records' = [records EXCEPT ![SlotAt(count)] = record]
        /\ count' = count + 1
        /\ UNCHANGED dropped
     \/ /\ count >= Capacity
        /\ dropped' = Bump(dropped)
        /\ UNCHANGED <<records, count>>
  /\ UNCHANGED <<head, generated, synced, uncertain>>

Requeue ==
  /\ in_flight # 0
  /\ head' = SlotBefore
  /\ records' = [records EXCEPT ![SlotBefore] = record]
  /\ \/ /\ count < Capacity
        /\ count' = count + 1
        /\ UNCHANGED dropped
     \/ /\ count >= Capacity      (* the newest queued record makes room  *)
        /\ dropped' = Bump(dropped)
        /\ UNCHANGED count
  /\ in_flight' = 0
  /\ record' = NoRecord
  /\ UNCHANGED <<generated, synced, uncertain>>

CompleteSynced ==
  /\ in_flight # 0
  /\ in_flight' = 0
  /\ synced' = Bump(synced)
  /\ record' = NoRecord
  /\ UNCHANGED <<records, head, count, generated, dropped, uncertain>>

CompleteUncertain ==
  /\ in_flight # 0
  /\ in_flight' = 0
  /\ uncertain' = Bump(uncertain)
  /\ record' = NoRecord
  /\ UNCHANGED <<records, head, count, generated, synced, dropped>>

Next ==
  \/ \E r \in Record : Push(r) \/ PushEvent(r)
  \/ Pop
  \/ Requeue
  \/ CompleteSynced
  \/ CompleteUncertain

Spec == Init /\ [][Next]_vars
-----------------------------------------------------------------------------
(* The queued records in order, and the record that is out.                *)
Queued == [i \in 1 .. count |-> records[SlotAt(i - 1)]]
Held == IF in_flight = 0 THEN <<>> ELSE <<record>>

Ledger == INSTANCE RecordLedger WITH pending <- Queued, held <- Held

(* The accounting equation the firmware asserts in its host tests          *)
(* (board_a_persistence_invariant_holds): it survives drops, requeues into *)
(* a queue that filled meanwhile, and the wrap of every 32-bit counter.    *)
AccountingHolds ==
  (synced + dropped + uncertain + count + in_flight) % Wrap = generated

(* The storage task's copy and the in_flight flag agree, and every queued  *)
(* slot holds a record: nothing handed out or queued is a stale slot.      *)
NoStaleSlot ==
  /\ (in_flight = 1) <=> (record # NoRecord)
  /\ \A k \in 0 .. count - 1 : records[SlotAt(k)] \in Record

(* The ring implements the bounded FIFO ledger: records leave in the order *)
(* they were accepted, an in-flight record that comes back is the next one *)
(* out, and only a full queue loses a record (the newest).                 *)
ImplementsLedger == Ledger!LedgerSpec
=============================================================================
