---------------------------- MODULE RecordLedger ----------------------------
(***************************************************************************)
(* What the record queue of board A promises to its users: a bounded FIFO  *)
(* of records with at most one record handed out, and a ledger in which    *)
(* every record that was ever generated is accounted for exactly once.     *)
(*                                                                         *)
(* The counters are uint32_t in the code and are kept modulo Wrap here.    *)
(* RecordQueue implements this module with a ring; Logging uses it as the  *)
(* queue between the producers and the storage task.                       *)
(***************************************************************************)
EXTENDS Integers, Sequences

CONSTANTS Record,    (* the records that can be queued                     *)
          Capacity,  (* BOARD_A_RECORD_QUEUE_CAPACITY (32 in the firmware)  *)
          Wrap       (* the modulus of a counter (2^32 in the firmware)     *)

VARIABLES pending,    (* the queued records, oldest first                  *)
          held,       (* <<>>, or <<r>> with r the record handed out       *)
          generated, synced, dropped, uncertain   (* the ledger            *)

ledgerVars == <<pending, held, generated, synced, dropped, uncertain>>

Counter == 0 .. Wrap - 1

Bump(n) == (n + 1) % Wrap

LedgerTypeOK ==
  /\ pending \in Seq(Record)
  /\ Len(pending) <= Capacity
  /\ held \in {<<>>} \cup {<<r>> : r \in Record}
  /\ generated \in Counter
  /\ synced \in Counter
  /\ dropped \in Counter
  /\ uncertain \in Counter

LedgerInit ==
  /\ pending = <<>>
  /\ held = <<>>
  /\ generated = 0
  /\ synced = 0
  /\ dropped = 0
  /\ uncertain = 0
-----------------------------------------------------------------------------
Full == Len(pending) = Capacity

(* A generated record enters at the tail.                                  *)
Accept(r) ==
  /\ ~Full
  /\ pending' = Append(pending, r)
  /\ generated' = Bump(generated)
  /\ UNCHANGED <<held, synced, dropped, uncertain>>

(* A record generated while the queue is full is counted and dropped.      *)
Refuse ==
  /\ Full
  /\ generated' = Bump(generated)
  /\ dropped' = Bump(dropped)
  /\ UNCHANGED <<pending, held, synced, uncertain>>

Push(r) == Accept(r) \/ Refuse

(* An event row is generated only once it fits: a full queue changes       *)
(* nothing and the caller keeps the row.                                   *)
PushEvent(r) == Accept(r)

(* The oldest record is handed out; only one is out at a time.             *)
Take ==
  /\ pending # <<>>
  /\ held = <<>>
  /\ held' = <<Head(pending)>>
  /\ pending' = Tail(pending)
  /\ UNCHANGED <<generated, synced, dropped, uncertain>>

(* The record that is out goes back to the head. When the queue filled     *)
(* meanwhile, the newest queued record makes room and is dropped.          *)
GiveBack ==
  /\ held # <<>>
  /\ held' = <<>>
  /\ \/ /\ ~Full
        /\ pending' = held \o pending
        /\ UNCHANGED dropped
     \/ /\ Full
        /\ pending' = held \o SubSeq(pending, 1, Capacity - 1)
        /\ dropped' = Bump(dropped)
  /\ UNCHANGED <<generated, synced, uncertain>>

SettleSynced ==
  /\ held # <<>>
  /\ held' = <<>>
  /\ synced' = Bump(synced)
  /\ UNCHANGED <<pending, generated, dropped, uncertain>>

SettleUncertain ==
  /\ held # <<>>
  /\ held' = <<>>
  /\ uncertain' = Bump(uncertain)
  /\ UNCHANGED <<pending, generated, synced, dropped>>

LedgerNext ==
  \/ \E r \in Record : Push(r)
  \/ Take
  \/ GiveBack
  \/ SettleSynced
  \/ SettleUncertain

LedgerSpec == LedgerInit /\ [][LedgerNext]_ledgerVars
=============================================================================
