-------------------------- MODULE PersistenceProofs --------------------------
(***************************************************************************)
(* What stands between a record, or an event, and its row on the card: the *)
(* record queue, the retry clock of the task that empties it, and the      *)
(* marker of the open event with the mailbox of the saves. The three share *)
(* no variable; their theorems are separate.                               *)
(*                                                                         *)
(* For every capacity, every set of records and every counter width the    *)
(* ring is type correct, its accounting balances across counter wraps, and *)
(* it implements the FIFO ledger. For every period and every width of the  *)
(* clock the card is tried every period while the deadline is recent. For  *)
(* any number of events a clean marker is stored unless it raced, and no   *)
(* event loses its CLOSE row outside the two windows that are named: both  *)
(* need to know the request in the mailbox too (RequestIsCurrent).         *)
(***************************************************************************)
EXTENDS RecordQueue, StorageRetry, EventMarker, TLAPS

(* Advancing a slot index stays inside the ring and wraps at most once.    *)
LEMMA SlotArithmetic ==
  ASSUME NEW h \in Slot, NEW k \in 0 .. Capacity
  PROVE  /\ SlotFrom(h, k) = IF h + k < Capacity THEN h + k ELSE h + k - Capacity
         /\ SlotFrom(h, k) \in Slot
  BY QueueAssumption DEF SlotFrom, Slot

(* A counter step either adds one or wraps to zero.                        *)
LEMMA BumpArithmetic ==
  ASSUME NEW n \in Counter
  PROVE  /\ Bump(n) = IF n + 1 < Wrap THEN n + 1 ELSE 0
         /\ Bump(n) \in Counter
  BY QueueAssumption DEF Bump, Counter

(* TypeOK and the state of the slots that hold records: what the index     *)
(* arithmetic of the queue preserves.                                      *)
QInv == TypeOK /\ NoStaleSlot

LEMMA QInvInit == Init => QInv
  BY QueueAssumption DEF Init, QInv, TypeOK, NoStaleSlot, Slot, Counter

LEMMA QInvNext == QInv /\ [Next]_vars => QInv'
  <1> SUFFICES ASSUME QInv, [Next]_vars PROVE QInv'
    OBVIOUS
  <1> USE QueueAssumption DEF QInv, TypeOK, NoStaleSlot
  <1>s. \A k \in 0 .. Capacity :
          /\ SlotAt(k) = IF head + k < Capacity THEN head + k ELSE head + k - Capacity
          /\ SlotAt(k) \in Slot
    BY SlotArithmetic DEF SlotAt
  <1>1. ASSUME NEW r \in Record, PushAccepted(r) PROVE QInv'
    <2>1. TypeOK'
      BY <1>1, <1>s, BumpArithmetic DEF PushAccepted
    <2>2. ASSUME NEW k \in 0 .. count PROVE records'[SlotAt(k)] \in Record
      <3>1. CASE k = count
        BY <1>1, <3>1, <1>s DEF PushAccepted
      <3>2. CASE k < count
        <4>0. k \in 0 .. Capacity /\ count \in 0 .. Capacity /\ count < Capacity
          BY <1>1, <3>2 DEF PushAccepted
        <4>1. SlotAt(k) # SlotAt(count) /\ SlotAt(k) \in Slot
          <5>1. head \in 0 .. Capacity - 1
            BY DEF Slot
          <5>2. /\ SlotAt(k) = IF head + k < Capacity THEN head + k ELSE head + k - Capacity
                /\ SlotAt(k) \in Slot
                /\ SlotAt(count) = IF head + count < Capacity THEN head + count
                                   ELSE head + count - Capacity
            BY <4>0, <1>s
          <5> HIDE DEF QInv, TypeOK, NoStaleSlot
          <5> QED BY <3>2, <4>0, <5>1, <5>2
        <4>2. records[SlotAt(k)] \in Record
          BY <3>2
        <4> QED BY <1>1, <4>1, <4>2 DEF PushAccepted
      <3> QED BY <3>1, <3>2
    <2> QED BY <1>1, <2>1, <2>2 DEF PushAccepted, SlotAt
  <1>2. CASE PushDropped
    BY <1>2, BumpArithmetic DEF PushDropped, SlotAt
  <1>3. CASE Pop
    <2>1. SlotAt(0) = head /\ 0 \in 0 .. count - 1 /\ head' = SlotAt(1) /\ head' \in Slot
      BY <1>3, <1>s DEF Pop, Slot
    <2>2. record' \in Record
      BY <1>3, <2>1 DEF Pop
    <2>3. TypeOK'
      BY <1>3, <2>1, <2>2 DEF Pop
    <2>4. ASSUME NEW k \in 0 .. count' - 1 PROVE records'[SlotFrom(head', k)] \in Record
      <3>1. k \in 0 .. Capacity /\ k + 1 \in 0 .. Capacity /\ k + 1 \in 0 .. count - 1
        BY <1>3 DEF Pop
      <3>2. SlotFrom(head', k) = SlotAt(k + 1)
        <4>1. /\ SlotFrom(head', k) = IF head' + k < Capacity THEN head' + k
                                      ELSE head' + k - Capacity
              /\ SlotAt(k + 1) = IF head + (k + 1) < Capacity THEN head + (k + 1)
                                 ELSE head + (k + 1) - Capacity
              /\ head' = IF head + 1 < Capacity THEN head + 1 ELSE head + 1 - Capacity
          BY <2>1, <3>1, <1>s, SlotArithmetic
        <4>2. head \in 0 .. Capacity - 1 /\ head' \in 0 .. Capacity - 1
          BY <2>1 DEF Slot
        <4> HIDE DEF QInv, TypeOK, NoStaleSlot
        <4> QED BY <3>1, <4>1, <4>2
      <3> QED BY <1>3, <3>1, <3>2 DEF Pop
    <2> QED BY <1>3, <2>2, <2>3, <2>4 DEF Pop, SlotAt
  <1>4. CASE Requeue
    <2>0. head' = SlotBefore /\ head \in 0 .. Capacity - 1 /\ Capacity - 1 \in 0 .. Capacity
      BY <1>4 DEF Requeue, Slot
    <2>1. /\ head' = IF head = 0 THEN Capacity - 1 ELSE head - 1
          /\ head' \in Slot
          /\ head' \in 0 .. Capacity - 1
          /\ SlotFrom(head', 0) = head'
      <3>1. /\ head' = IF head + (Capacity - 1) < Capacity THEN head + (Capacity - 1)
                       ELSE head + (Capacity - 1) - Capacity
            /\ head' \in Slot
        BY <2>0, SlotArithmetic DEF SlotBefore
      <3>2. SlotFrom(head', 0) = IF head' + 0 < Capacity THEN head' + 0
                                 ELSE head' + 0 - Capacity
        BY <3>1, SlotArithmetic
      <3>3. head' \in 0 .. Capacity - 1
        BY <3>1 DEF Slot
      <3> HIDE DEF QInv, TypeOK, NoStaleSlot
      <3> QED BY <2>0, <3>1, <3>2, <3>3
    <2>2. TypeOK'
      BY <1>4, <2>1, BumpArithmetic DEF Requeue
    <2>3. ASSUME NEW k \in 0 .. count' - 1 PROVE records'[SlotFrom(head', k)] \in Record
      <3>1. CASE k = 0
        BY <1>4, <2>1, <3>1 DEF Requeue
      <3>2. CASE k > 0
        <4>1. k \in 0 .. Capacity /\ k - 1 \in 0 .. Capacity /\ k - 1 \in 0 .. count - 1
              /\ k < Capacity
          BY <1>4, <3>2 DEF Requeue
        <4>2. SlotFrom(head', k) = SlotAt(k - 1) /\ SlotAt(k - 1) # head' /\ SlotAt(k - 1) \in Slot
          <5>1. /\ SlotFrom(head', k) = IF head' + k < Capacity THEN head' + k
                                        ELSE head' + k - Capacity
                /\ SlotAt(k - 1) = IF head + (k - 1) < Capacity THEN head + (k - 1)
                                   ELSE head + (k - 1) - Capacity
                /\ SlotAt(k - 1) \in Slot
            BY <2>1, <4>1, <1>s, SlotArithmetic
          <5> HIDE DEF QInv, TypeOK, NoStaleSlot
          <5> QED BY <2>0, <2>1, <3>2, <4>1, <5>1
        <4>3. records[SlotAt(k - 1)] \in Record
          BY <4>1
        <4> QED BY <1>4, <2>1, <4>2, <4>3 DEF Requeue
      <3> QED BY <3>1, <3>2
    <2> QED BY <1>4, <2>2, <2>3 DEF Requeue, SlotAt
  <1>5. CASE CompleteSynced
    BY <1>5, BumpArithmetic DEF CompleteSynced, SlotAt
  <1>6. CASE CompleteUncertain
    BY <1>6, BumpArithmetic DEF CompleteUncertain, SlotAt
  <1>7. CASE UNCHANGED vars
    BY <1>7 DEF vars, SlotAt, Counter
  <1> QED
    BY <1>1, <1>2, <1>3, <1>4, <1>5, <1>6, <1>7 DEF Next, Push, PushEvent

(* The ring indices, counters and flags of the record queue stay in their  *)
(* ranges.                                                                 *)
THEOREM TypeCorrect == Spec => []TypeOK
  <1>1. QInv => TypeOK
    BY DEF QInv
  <1> QED BY QInvInit, QInvNext, <1>1, PTL DEF Spec

(* Whatever the storage task holds and whatever is queued is a record that *)
(* was pushed, never a stale ring slot.                                    *)
THEOREM NoStaleSlotCorrect == Spec => []NoStaleSlot
  <1>1. QInv => NoStaleSlot
    BY DEF QInv
  <1> QED BY QInvInit, QInvNext, <1>1, PTL DEF Spec
-----------------------------------------------------------------------------
(* The accounting without the modulus: the three settled counters may have *)
(* wrapped, so the sum exceeds generated by at most three wraps.           *)
LedgerSum == synced + dropped + uncertain + count + in_flight

WrapsBehind == LedgerSum \in {generated, generated + Wrap,
                              generated + Wrap + Wrap,
                              generated + Wrap + Wrap + Wrap}

AInv == TypeOK /\ WrapsBehind

LEMMA AInvNext == QInv /\ AInv /\ [Next]_vars => AInv'
  <1> SUFFICES ASSUME QInv, AInv, [Next]_vars PROVE AInv'
    OBVIOUS
  <1>0. TypeOK'
    BY QInvNext DEF QInv
  <1> USE QueueAssumption, BumpArithmetic
      DEF AInv, TypeOK, WrapsBehind, LedgerSum, Counter
  <1>1. ASSUME NEW r \in Record, PushAccepted(r) PROVE WrapsBehind'
    BY <1>1, <1>0 DEF PushAccepted
  <1>2. CASE PushDropped
    BY <1>2, <1>0 DEF PushDropped
  <1>3. CASE Pop
    BY <1>3, <1>0 DEF Pop
  <1>4. CASE Requeue
    <2>1. in_flight = 1 /\ in_flight' = 0 /\ UNCHANGED <<generated, synced, uncertain>>
      BY <1>4 DEF Requeue
    <2>2. CASE count < Capacity
      <3>1. count' = count + 1 /\ dropped' = dropped
        BY <1>4, <2>2 DEF Requeue
      <3> QED BY <1>0, <2>1, <3>1
    <2>3. CASE count = Capacity
      <3>1. count' = count /\ dropped' = Bump(dropped)
        BY <1>4, <2>3 DEF Requeue
      <3>2. dropped' = IF dropped + 1 < Wrap THEN dropped + 1 ELSE 0
        BY <3>1
      <3> QED BY <1>0, <2>1, <2>3, <3>1, <3>2
    <2> QED BY <2>2, <2>3
  <1>5. CASE CompleteSynced
    BY <1>5, <1>0 DEF CompleteSynced
  <1>6. CASE CompleteUncertain
    BY <1>6, <1>0 DEF CompleteUncertain
  <1>7. CASE UNCHANGED vars
    BY <1>7 DEF vars
  <1> HIDE QueueAssumption, BumpArithmetic DEF TypeOK, WrapsBehind, LedgerSum, Counter
  <1> QED
    BY <1>0, <1>1, <1>2, <1>3, <1>4, <1>5, <1>6, <1>7 DEF Next, Push, PushEvent

(* The accounting equation of board_a_persistence_invariant_holds, in the  *)
(* width the code computes it, in every reachable state.                   *)
THEOREM AccountingCorrect == Spec => []AccountingHolds
  <1>1. Init => AInv
    BY QueueAssumption DEF Init, AInv, TypeOK, WrapsBehind, LedgerSum, Counter, Slot
  <1>2. AInv => AccountingHolds
    BY QueueAssumption DEF AInv, TypeOK, WrapsBehind, LedgerSum, Counter, AccountingHolds
  <1> QED BY QInvInit, QInvNext, <1>1, AInvNext, <1>2, PTL DEF Spec
-----------------------------------------------------------------------------
(* A function on 1 .. n with values in S is a sequence over S of length n. *)
LEMMA FunctionIsSeq ==
  ASSUME NEW S, NEW n \in Nat, NEW q \in [1 .. n -> S]
  PROVE  q \in Seq(S) /\ Len(q) = n
  OBVIOUS

(* Sequence positions count from 1, ring offsets from 0.                   *)
LEMMA IndexBefore ==
  ASSUME NEW n \in Nat, NEW i, i \in 1 .. n
  PROVE  i - 1 \in 0 .. n - 1
  OBVIOUS

LEMMA InitRefines == Init => Ledger!LedgerInit
  BY DEF Init, Ledger!LedgerInit, Queued, Held

LEMMA NextRefines ==
  QInv /\ QInv' /\ [Next]_vars => [Ledger!LedgerNext]_(Ledger!ledgerVars)
  <1> SUFFICES ASSUME QInv, QInv', [Next]_vars
               PROVE  Ledger!LedgerNext \/ UNCHANGED Ledger!ledgerVars
    OBVIOUS
  <1> USE QueueAssumption
  <1>t. /\ count \in 0 .. Capacity /\ head \in 0 .. Capacity - 1 /\ in_flight \in {0, 1}
        /\ count' \in 0 .. Capacity /\ head' \in 0 .. Capacity - 1
        /\ records \in [Slot -> Record \cup {NoRecord}]
        /\ head \in Slot /\ head' \in Slot
    BY DEF QInv, TypeOK, Slot
  <1>q. /\ Queued \in Seq(Record) /\ Len(Queued) = count
        /\ \A i \in 1 .. count : Queued[i] = records[SlotFrom(head, i - 1)]
    <2>1. Queued = [i \in 1 .. count |-> records[SlotFrom(head, i - 1)]]
      BY DEF Queued, SlotAt
    <2>2. ASSUME NEW i \in 1 .. count PROVE records[SlotFrom(head, i - 1)] \in Record
      <3>1. i - 1 \in 0 .. count - 1
        BY <1>t
      <3> QED BY <3>1 DEF QInv, NoStaleSlot, SlotAt
    <2>3. count \in Nat /\ Queued \in [1 .. count -> Record]
      BY <1>t, <2>1, <2>2
    <2>4. Queued \in Seq(Record) /\ Len(Queued) = count
      BY <2>3, FunctionIsSeq
    <2> QED BY <2>1, <2>4
  <1>r. /\ Queued' \in Seq(Record) /\ Len(Queued') = count'
        /\ \A i \in 1 .. count' : Queued'[i] = records'[SlotFrom(head', i - 1)]
    <2>1. Queued' = [i \in 1 .. count' |-> records'[SlotFrom(head', i - 1)]]
      BY DEF Queued, SlotAt
    <2>2. ASSUME NEW i, i \in 1 .. count' PROVE records'[SlotFrom(head', i - 1)] \in Record
      <3>1. i - 1 \in 0 .. count' - 1
        <4>1. count' \in Nat
          BY <1>t
        <4> QED BY <2>2, <4>1, IndexBefore
      <3>2. \A k \in 0 .. count' - 1 : records'[SlotFrom(head', k)] \in Record
        BY DEF QInv, NoStaleSlot, SlotAt
      <3> QED BY <3>1, <3>2
    <2>3. \A i \in 1 .. count' : records'[SlotFrom(head', i - 1)] \in Record
      BY <2>2
    <2>4. Queued' \in [1 .. count' -> Record]
      BY <2>1, <2>3
    <2>5. count' \in Nat
      BY <1>t
    <2>6. Queued' \in Seq(Record) /\ Len(Queued') = count'
      BY <2>4, <2>5, FunctionIsSeq
    <2> QED BY <2>1, <2>6
  <1>1. ASSUME NEW r \in Record, PushAccepted(r) PROVE Ledger!Accept(r)
    <2>1. ASSUME NEW i \in 1 .. count PROVE Queued'[i] = Queued[i]
      <3>1. i - 1 \in 0 .. Capacity /\ i \in 1 .. count' /\ count < Capacity
        BY <1>1, <1>t DEF PushAccepted
      <3>2. SlotFrom(head, i - 1) # SlotFrom(head, count) /\ SlotFrom(head, i - 1) \in Slot
        <4>1. /\ SlotFrom(head, i - 1) = IF head + (i - 1) < Capacity THEN head + (i - 1)
                                         ELSE head + (i - 1) - Capacity
              /\ SlotFrom(head, count) = IF head + count < Capacity THEN head + count
                                         ELSE head + count - Capacity
              /\ SlotFrom(head, i - 1) \in Slot
          BY <1>t, <3>1, SlotArithmetic
        <4> QED BY <1>t, <3>1, <4>1
      <3> QED BY <1>1, <1>t, <1>q, <1>r, <3>1, <3>2 DEF PushAccepted, SlotAt
    <2>2. Queued'[count + 1] = r
      <3>1. SlotFrom(head, count) \in Slot /\ count + 1 \in 1 .. count' /\ (count + 1) - 1 = count
        BY <1>1, <1>t, SlotArithmetic DEF PushAccepted
      <3> QED BY <1>1, <1>t, <1>r, <3>1 DEF PushAccepted, SlotAt
    <2>3. Queued' = Append(Queued, r)
      BY <1>1, <1>t, <1>q, <1>r, <2>1, <2>2 DEF PushAccepted
    <2> QED
      BY <1>1, <1>t, <1>q, <2>3 DEF PushAccepted, Ledger!Accept, Ledger!Full, Held,
           Bump, Ledger!Bump
  <1>2. ASSUME PushDropped PROVE Ledger!Refuse
    BY <1>2, <1>t, <1>q DEF PushDropped, Ledger!Refuse, Ledger!Full, Held, Queued,
       Bump, Ledger!Bump, SlotAt
  <1>3. ASSUME Pop PROVE Ledger!Take
    <2>1. SlotFrom(head, 0) = head
      BY <1>t, SlotArithmetic
    <2>2. record' = Head(Queued) /\ Queued # <<>>
      BY <1>3, <1>t, <1>q, <2>1 DEF Pop
    <2>3. ASSUME NEW i \in 1 .. count' PROVE Queued'[i] = Queued[i + 1]
      <3>1. /\ i - 1 \in 0 .. Capacity /\ i \in 0 .. Capacity /\ 1 \in 0 .. Capacity
            /\ i + 1 \in 1 .. count /\ (i + 1) - 1 = i /\ head' = SlotFrom(head, 1)
        BY <1>3, <1>t DEF Pop, SlotAt
      <3>2. SlotFrom(head', i - 1) = SlotFrom(head, i)
        <4>1. /\ SlotFrom(head', i - 1) = IF head' + (i - 1) < Capacity THEN head' + (i - 1)
                                          ELSE head' + (i - 1) - Capacity
              /\ SlotFrom(head, i) = IF head + i < Capacity THEN head + i
                                     ELSE head + i - Capacity
              /\ head' = IF head + 1 < Capacity THEN head + 1 ELSE head + 1 - Capacity
          BY <1>t, <3>1, SlotArithmetic
        <4> QED BY <1>t, <3>1, <4>1
      <3> QED BY <1>3, <1>q, <1>r, <3>1, <3>2 DEF Pop
    <2>4. Queued' = Tail(Queued)
      BY <1>3, <1>t, <1>q, <1>r, <2>2, <2>3 DEF Pop
    <2> QED
      BY <1>3, <1>t, <2>2, <2>4 DEF Pop, Ledger!Take, Held
  <1>4. ASSUME Requeue PROVE Ledger!GiveBack
    <2>1. /\ in_flight = 1 /\ in_flight' = 0 /\ record \in Record
          /\ head' = SlotFrom(head, Capacity - 1)
          /\ records' = [records EXCEPT ![head'] = record]
          /\ Held = <<record>> /\ Held' = <<>>
          /\ UNCHANGED <<generated, synced, uncertain>>
      BY <1>4, <1>t DEF Requeue, SlotBefore, QInv, TypeOK, NoStaleSlot, Held
    <2>2. Queued'[1] = record /\ count' >= 1
      <3>1. SlotFrom(head', 0) = head' /\ count' >= 1
        BY <1>4, <1>t, SlotArithmetic DEF Requeue
      <3> QED BY <1>t, <1>r, <2>1, <3>1
    <2>3. ASSUME NEW i \in 2 .. count' PROVE Queued'[i] = Queued[i - 1]
      <3>1. /\ i - 1 \in 0 .. Capacity /\ (i - 1) - 1 \in 0 .. Capacity /\ i - 1 \in 1 .. count
            /\ Capacity - 1 \in 0 .. Capacity /\ i \in 1 .. count' /\ i - 1 < Capacity
        BY <1>4, <1>t DEF Requeue
      <3>2. /\ SlotFrom(head', i - 1) = SlotFrom(head, (i - 1) - 1)
            /\ SlotFrom(head', i - 1) # head'
            /\ SlotFrom(head', i - 1) \in Slot
        <4>1. /\ SlotFrom(head', i - 1) = IF head' + (i - 1) < Capacity THEN head' + (i - 1)
                                          ELSE head' + (i - 1) - Capacity
              /\ SlotFrom(head, (i - 1) - 1) =
                   IF head + ((i - 1) - 1) < Capacity THEN head + ((i - 1) - 1)
                   ELSE head + ((i - 1) - 1) - Capacity
              /\ head' = IF head + (Capacity - 1) < Capacity THEN head + (Capacity - 1)
                         ELSE head + (Capacity - 1) - Capacity
              /\ SlotFrom(head', i - 1) \in Slot
          BY <1>t, <2>1, <3>1, SlotArithmetic
        <4> QED BY <1>t, <3>1, <4>1
      <3> QED BY <1>t, <1>q, <1>r, <2>1, <3>1, <3>2
    <2>4. CASE count < Capacity
      <3>1. count' = count + 1 /\ UNCHANGED dropped
        BY <1>4, <1>t, <2>4 DEF Requeue
      <3>2. Queued' = <<record>> \o Queued
        BY <1>t, <1>q, <1>r, <2>1, <2>2, <2>3, <3>1
      <3> QED BY <1>t, <1>q, <2>1, <2>4, <3>1, <3>2 DEF Ledger!GiveBack, Ledger!Full
    <2>5. CASE count = Capacity
      <3>1. count' = count /\ dropped' = Ledger!Bump(dropped)
        BY <1>4, <1>t, <2>5 DEF Requeue, Bump, Ledger!Bump
      <3>2. Queued' = <<record>> \o SubSeq(Queued, 1, Capacity - 1)
        BY <1>t, <1>q, <1>r, <2>1, <2>2, <2>3, <2>5, <3>1
      <3> QED BY <1>t, <1>q, <2>1, <2>5, <3>1, <3>2 DEF Ledger!GiveBack, Ledger!Full
    <2> QED BY <1>t, <2>4, <2>5
  <1>5. ASSUME CompleteSynced PROVE Ledger!SettleSynced
    BY <1>5, <1>t DEF CompleteSynced, Ledger!SettleSynced, Held, Queued, SlotAt,
       Bump, Ledger!Bump
  <1>6. ASSUME CompleteUncertain PROVE Ledger!SettleUncertain
    BY <1>6, <1>t DEF CompleteUncertain, Ledger!SettleUncertain, Held, Queued, SlotAt,
       Bump, Ledger!Bump
  <1>7. CASE UNCHANGED vars
    BY <1>7 DEF vars, Ledger!ledgerVars, Held, Queued, SlotAt
  <1> QED
    BY <1>1, <1>2, <1>3, <1>4, <1>5, <1>6, <1>7
       DEF Next, Push, PushEvent, Ledger!LedgerNext, Ledger!Push

(* The ring of board_a_persistence.c, for every capacity, is the bounded   *)
(* FIFO ledger: first in first out, one record out at a time, an unwritten *)
(* record back at the front, and only the newest lost to a full queue.     *)
THEOREM QueueImplementsLedger == Spec => ImplementsLedger
  <1> QED
    BY QInvInit, QInvNext, InitRefines, NextRefines, PTL
       DEF Spec, ImplementsLedger, Ledger!LedgerSpec
-----------------------------------------------------------------------------
(***************************************************************************)
(* What the retry clock does keep, for every period, every width of the    *)
(* clock and every capacity of the queue. TriedEveryPeriod itself is false *)
(* (run storage_retry), so the theorem is about TriedWhileRecent.          *)
(***************************************************************************)

(* Where the deadline lies, as long as it is recent: base is how far ahead *)
(* it was when it was set, at startup or after a failure.                  *)
DeadlineAt(base) ==
  left = IF quiet <= base THEN base - quiet ELSE Clock - (quiet - base)

(* A task with records to write sleeps only up to the deadline.            *)
WakesInTime == queued = 0 \/ sleep = 0 \/ (~Expired /\ sleep <= left)

(* Until the deadline the waiting is no longer than the period allows.     *)
WaitsInPeriod == waited <= Period /\ (~Expired => waited + left <= Period)

RetryInv ==
  /\ RetryTypeOK
  /\ quiet < Half => /\ DeadlineAt(0) \/ DeadlineAt(Period)
                     /\ WakesInTime /\ WaitsInPeriod

LEMMA RetryInvInit == ASSUME Sensible, RetryInit PROVE RetryInv
<1>1. drain \in BOOLEAN
  BY DEF RetryInit
<1> QED
  BY <1>1 DEF Sensible, RetryInit, RetryInv, RetryTypeOK, State, Broken, Clock, DeadlineAt,
              WakesInTime, WaitsInPeriod, Expired

(* The steps of the storage task keep the invariant: a failure starts the  *)
(* count again, and whoever falls asleep looks at the deadline.            *)
LEMMA RetryTaskKeeps == ASSUME Sensible, RetryInv, StorageTask PROVE RetryInv'
<1> USE DEF Sensible, RetryInv, RetryTypeOK, State, Broken, Clock, WakesInTime
<1>1. CASE RunDrain
  <2>1. drain' \in BOOLEAN
    BY <1>1 DEF RunDrain
  <2>2. sleep' = 0 /\ UNCHANGED <<left, quiet>> /\ waited' = 0
    BY <1>1 DEF RunDrain, Tried
  <2>3. queued' \in 0 .. MaxQueued /\ state' \in State
    BY <1>1 DEF RunDrain
  <2> QED BY <2>1, <2>2, <2>3 DEF DeadlineAt, WaitsInPeriod, Expired
<1>2. CASE Probe
  BY <1>2 DEF Probe, Tried, Postpone, DeadlineAt, WaitsInPeriod, Expired
<1>3. CASE ProcessOne
  BY <1>3 DEF ProcessOne, Tried, Postpone, DeadlineAt, WaitsInPeriod, Expired
<1>4. CASE FallAsleep
  BY <1>4 DEF FallAsleep, DeadlineAt, WaitsInPeriod, Expired
<1> QED BY <1>1, <1>2, <1>3, <1>4 DEF StorageTask

(* Time passes: a deadline that has expired does not look in the future    *)
(* again while it is recent, and one that has not comes nearer.            *)
LEMMA RetryTickKeeps == ASSUME Sensible, RetryInv, Tick PROVE RetryInv'
<1> USE DEF Sensible, RetryInv, RetryTypeOK, Clock, Tick
<1>1. RetryTypeOK'
  OBVIOUS
<1> SUFFICES ASSUME quiet' < Half
             PROVE  /\ (DeadlineAt(0) \/ DeadlineAt(Period))'
                    /\ WakesInTime' /\ WaitsInPeriod'
  BY <1>1
<1>2. quiet < Half /\ quiet' = quiet + 1
  OBVIOUS
<1>3. (DeadlineAt(0) \/ DeadlineAt(Period))'
  <2>1. CASE DeadlineAt(0)
    BY <1>2, <2>1 DEF DeadlineAt
  <2>2. CASE DeadlineAt(Period)
    BY <1>2, <2>2 DEF DeadlineAt
  <2> QED BY <1>2, <2>1, <2>2
<1>4. CASE queued = 0
  <2>2. Expired => Expired'
    BY <1>2 DEF DeadlineAt, Expired
  <2> QED BY <1>2, <1>3, <1>4, <2>2 DEF WakesInTime, WaitsInPeriod, Expired
<1>5. CASE queued # 0
  <2>1. ~Expired /\ sleep <= left /\ left # 0
    BY <1>2, <1>5 DEF WakesInTime, Expired
  <2>2. left' = left - 1 /\ waited' <= waited + 1
    BY <1>5, <2>1
  <2> QED BY <1>2, <1>3, <1>5, <2>1, <2>2 DEF WakesInTime, WaitsInPeriod, Expired
<1> QED BY <1>4, <1>5

LEMMA RetryInvNext == ASSUME Sensible, RetryInv, [RetryNext]_retryVars PROVE RetryInv'
<1>1. CASE StorageTask
  BY <1>1, RetryTaskKeeps
<1>2. CASE Tick
  BY <1>2, RetryTickKeeps
<1>3. CASE Produce
  BY <1>3 DEF Sensible, RetryInv, RetryTypeOK, Produce, DeadlineAt, WakesInTime,
              WaitsInPeriod, Expired, Clock
<1>4. CASE RequestDrain
  BY <1>4 DEF Sensible, RetryInv, RetryTypeOK, RequestDrain, DeadlineAt, WakesInTime,
              WaitsInPeriod, Expired, Clock
<1>5. CASE UNCHANGED retryVars
  BY <1>5 DEF retryVars, RetryInv, RetryTypeOK, DeadlineAt, WakesInTime, WaitsInPeriod, Expired
<1> QED BY <1>1, <1>2, <1>3, <1>4, <1>5 DEF RetryNext

(* Less than half the range of the clock after the deadline was last set,  *)
(* a record never waits longer than the retry period for the storage task  *)
(* to try the card: board_a_storage_task as long as its clock has not      *)
(* turned half round.                                                      *)
THEOREM TriedCorrect == ASSUME Sensible PROVE RetrySpec => []TriedWhileRecent
<1>1. RetryInit => RetryInv
  BY RetryInvInit
<1>2. RetryInv /\ [RetryNext]_retryVars => RetryInv'
  BY RetryInvNext
<1>3. RetryInv => TriedWhileRecent
  BY DEF RetryInv, TriedWhileRecent, TriedEveryPeriod, WaitsInPeriod
<1> QED BY <1>1, <1>2, <1>3, PTL DEF RetrySpec

(* ------------------------------ EventMarker ---------------------------- *)

(* A pending request carries today's marker unless the marker has raced    *)
(* past it: with it MarkerStoredUnlessRaced becomes inductive.             *)
RequestIsCurrent == save.state = "PENDING" /\ ~raced => save.request = marker

MarkerInv ==
  /\ MarkerTypeOK
  /\ AnswerIsAboutRequest
  /\ MarkerStoredUnlessRaced
  /\ RequestIsCurrent
  /\ CloseRowKept

LEMMA InitMarkerInv == MarkerInit => MarkerInv
<1> SUFFICES ASSUME MarkerInit PROVE MarkerInv
  OBVIOUS
<1> USE MarkerAssumption
<1>1. /\ save.state = "IDLE" /\ save.claimed = FALSE /\ save.request = 0
      /\ save \in Mailbox
  BY DEF MarkerInit, EmptyMailbox, Mailbox, Event
<1>2. candidates = {0} /\ marker = 0 /\ loaded = 0 /\ writing = NoCopy
  BY DEF MarkerInit, Cell!CellInit
<1>3. /\ dirty \in BOOLEAN /\ raced \in BOOLEAN
      /\ running \in BOOLEAN /\ flush \in BOOLEAN
  BY DEF MarkerInit
<1>4. event = 0 /\ events = 0 /\ events \in Event
  BY DEF MarkerInit, Event
<1>4a. rows = {} /\ closed = {} /\ lost = {} /\ excused = {}
  BY DEF MarkerInit
<1>5. MarkerTypeOK
  BY <1>1, <1>2, <1>3, <1>4, <1>4a DEF MarkerTypeOK
<1>6. AnswerIsAboutRequest
  BY <1>1, <1>2 DEF AnswerIsAboutRequest
<1>7. MarkerStoredUnlessRaced /\ RequestIsCurrent
  BY <1>1, <1>2 DEF MarkerStoredUnlessRaced, RequestIsCurrent
<1>8. CloseRowKept
  BY <1>4 DEF CloseRowKept
<1> QED BY <1>5, <1>6, <1>7, <1>8 DEF MarkerInv

(* What the mailbox holds after a request: the pending one, or this one.   *)
LEMMA AcceptKeepsPending ==
  ASSUME NEW box \in Mailbox, NEW m \in Event
  PROVE  /\ AcceptSave(box, m) \in Mailbox
         /\ AcceptSave(box, m).state = "PENDING"
         /\ box.state = "PENDING" => AcceptSave(box, m) = box
         /\ box.state # "PENDING" => /\ AcceptSave(box, m).request = m
                                     /\ ~AcceptSave(box, m).claimed
  BY DEF AcceptSave, Mailbox

LEMMA NextMarkerInv == MarkerInv /\ [MarkerNext]_markerVars => MarkerInv'
<1> SUFFICES ASSUME MarkerInv, [MarkerNext]_markerVars PROVE MarkerInv'
  OBVIOUS
<1> USE MarkerAssumption DEF MarkerInv
<1>a. ASSUME UNCHANGED <<event, events, closeRows>>
      PROVE  /\ CloseRowKept'
             /\ rows' \subseteq 1 .. events' /\ closed' \subseteq 1 .. events'
             /\ lost' \subseteq 1 .. events' /\ excused' \subseteq 1 .. events'
  BY <1>a DEF closeRows, CloseRowKept, MarkerTypeOK
<1>1. CASE AcquisitionRound
  <2> PICK e \in AfterScan(IF flush THEN 0 ELSE event),
           probe_bound \in BOOLEAN, ends \in BOOLEAN, fits \in BOOLEAN :
        LET box     == IF probe_bound THEN AcceptSave(save, marker) ELSE save
            changes == (e = 0) # (marker = 0)
        IN  /\ ends => running
            /\ running' = (running /\ ~ends)
            /\ flush' = ((flush \/ ends) /\ ~fits)
            /\ event' = IF ends THEN 0 ELSE e
            /\ events' = IF e > events THEN e ELSE events
            /\ marker' = IF changes THEN e ELSE marker
            /\ dirty' = (dirty \/ changes)
            /\ save' = IF dirty' THEN AcceptSave(box, marker') ELSE box
            /\ raced' = (raced \/ (changes /\ box.state = "PENDING"))
            /\ rows' = rows \cup ({event, e} \ {0, event'})
            /\ UNCHANGED <<writing, candidates, loaded, closed, lost, excused>>
    BY <1>1 DEF AcquisitionRound
  <2> DEFINE box == IF probe_bound THEN AcceptSave(save, marker) ELSE save
             changes == (e = 0) # (marker = 0)
  <2>1. e \in Event /\ events' \in Event /\ e \in 0 .. events'
        /\ events <= events' /\ marker \in Event /\ marker' \in Event
        /\ marker' \in 0 .. events'
    BY DEF AfterScan, MarkerTypeOK, Event
  <2>2. /\ box \in Mailbox
        /\ save.state = "PENDING" => box = save
        /\ box # save => box.state = "PENDING" /\ ~box.claimed /\ box.request = marker
        /\ box.request \in 0 .. events
    BY <2>1, AcceptKeepsPending DEF MarkerTypeOK
  <2>3. /\ save' \in Mailbox
        /\ box.state = "PENDING" => save' = box
        /\ save' # box => save'.state = "PENDING" /\ ~save'.claimed /\ save'.request = marker'
    BY <2>1, <2>2, AcceptKeepsPending
  <2> HIDE DEF box
  <2>4a. running' \in BOOLEAN /\ flush' \in BOOLEAN /\ dirty' \in BOOLEAN /\ raced' \in BOOLEAN
    OBVIOUS
  <2>4b. event' \in 0 .. events'
    <3>1. event' \in {0, e}
      OBVIOUS
    <3>2. 0 \in 0 .. events'
      BY <2>1 DEF Event
    <3> QED BY <3>1, <3>2, <2>1
  <2>4c. /\ rows' \subseteq 1 .. events' /\ closed' \subseteq 1 .. events'
         /\ lost' \subseteq 1 .. events' /\ excused' \subseteq 1 .. events'
    BY <2>1 DEF MarkerTypeOK, Event
  <2>4. MarkerTypeOK'
    BY <2>1, <2>2, <2>3, <2>4a, <2>4b, <2>4c DEF MarkerTypeOK, Event
  <2>5. AnswerIsAboutRequest'
    BY <2>2, <2>3 DEF AnswerIsAboutRequest, MarkerTypeOK, Mailbox
  <2>6. MarkerStoredUnlessRaced'
    BY <2>1, <2>2, <2>3 DEF MarkerStoredUnlessRaced, MarkerTypeOK, box
  <2>7. RequestIsCurrent'
    BY <2>1, <2>2, <2>3 DEF RequestIsCurrent, MarkerTypeOK, box
  <2>8. CloseRowKept'
    <3>1. 1 .. events' \subseteq (1 .. events) \cup ({e} \ {0})
      BY DEF AfterScan, MarkerTypeOK, Event
    <3>2. {event, e} \ {0} \subseteq {event'} \cup rows'
      OBVIOUS
    <3>3. \A x \in 1 .. events : x # 0
      BY DEF MarkerTypeOK, Event
    <3> QED BY <3>1, <3>2, <3>3 DEF CloseRowKept
  <2> QED BY <2>4, <2>5, <2>6, <2>7, <2>8
<1>2. CASE SaveConfig
  <2>1. /\ save' \in Mailbox
        /\ save.state = "PENDING" => save' = save
        /\ save.state # "PENDING" =>
             save'.state = "PENDING" /\ ~save'.claimed /\ save'.request = marker
    BY <1>2, AcceptKeepsPending DEF SaveConfig, control, MarkerTypeOK, Event
  <2>2. UNCHANGED <<event, events, closeRows>>
    BY <1>2 DEF SaveConfig
  <2> QED
    BY <1>2, <1>a, <2>1, <2>2
    DEF SaveConfig, control, MarkerTypeOK, AnswerIsAboutRequest, MarkerStoredUnlessRaced, RequestIsCurrent
<1>3. CASE ClaimSave
  <2>0. UNCHANGED <<event, events, closeRows>>
    BY <1>3 DEF ClaimSave
  <2>1. MarkerTypeOK'
    BY <1>3, <1>a, <2>0 DEF ClaimSave, control, Cell!Offer, MarkerTypeOK, Mailbox, Event, RequestIsCurrent
  <2>2. AnswerIsAboutRequest' /\ RequestIsCurrent'
    BY <1>3
    DEF ClaimSave, control, Cell!Offer, MarkerTypeOK, Mailbox, Event, NoCopy, AnswerIsAboutRequest,
        RequestIsCurrent
  <2>3. MarkerStoredUnlessRaced'
    BY <1>3 DEF ClaimSave, control, Cell!Offer, MarkerStoredUnlessRaced, RequestIsCurrent
  <2> QED BY <1>a, <2>0, <2>1, <2>2, <2>3
<1>4. CASE SaveFails
  <2>1. UNCHANGED <<event, events, closeRows>>
    BY <1>4 DEF SaveFails
  <2> QED BY <1>4, <1>a, <2>1
  DEF SaveFails, control, Answer, MarkerTypeOK, Mailbox, Event, NoCopy, AnswerIsAboutRequest,
      MarkerStoredUnlessRaced, RequestIsCurrent
<1>5. CASE SaveSucceeds
  <2>1. candidates' = {writing} /\ writing = save.request /\ save'.request = save.request
    BY <1>5 DEF SaveSucceeds, control, Answer, Cell!Acknowledge, AnswerIsAboutRequest, MarkerTypeOK, Mailbox
  <2>1a. UNCHANGED <<event, events, closeRows>>
    BY <1>5 DEF SaveSucceeds
  <2>2. MarkerTypeOK'
    BY <1>5, <1>a, <2>1, <2>1a DEF SaveSucceeds, control, Answer, Cell!Acknowledge, MarkerTypeOK, Mailbox, Event, NoCopy
  <2>3. AnswerIsAboutRequest' /\ RequestIsCurrent'
    BY <1>5, <2>1
    DEF SaveSucceeds, control, Answer, MarkerTypeOK, Mailbox, AnswerIsAboutRequest, RequestIsCurrent
  <2>4. MarkerStoredUnlessRaced'
    BY <1>5, <2>1
    DEF SaveSucceeds, control, Answer, AnswerIsAboutRequest, MarkerStoredUnlessRaced, RequestIsCurrent
  <2> QED BY <1>a, <2>1a, <2>2, <2>3, <2>4
<1>6. CASE Reset
  <2> PICK found \in candidates :
        /\ candidates' = {found} /\ loaded' = found
        /\ Recover(found)
    BY <1>6 DEF Reset
  <2>0. /\ rows' = {found} \ {0} /\ closed' = closed /\ lost' = lost
        /\ excused' = excused \cup NotMarked \cup NotNamed
    BY <1>6 DEF Reset, Recover
  <2>1. EmptyMailbox \in Mailbox /\ 0 \in Event
    BY DEF EmptyMailbox, Mailbox, Event
  <2>2. /\ save' \in Mailbox /\ ~save'.claimed /\ save'.request = 0
        /\ save'.state \in {"IDLE", "PENDING"}
    BY <2>1, AcceptKeepsPending DEF Recover, EmptyMailbox, AcceptSave
  <2>3. /\ event' = 0 /\ events' = events /\ marker' = 0 /\ writing' = NoCopy
        /\ candidates' = {found} /\ loaded' = found /\ found \in 0 .. events
    BY <1>6 DEF Reset, Recover, MarkerTypeOK
  <2>4. dirty' \in BOOLEAN /\ raced' \in BOOLEAN /\ running' \in BOOLEAN /\ flush' \in BOOLEAN
    BY <1>6 DEF Reset, Recover
  <2>4a. /\ rows' \subseteq 1 .. events' /\ closed' \subseteq 1 .. events'
         /\ lost' \subseteq 1 .. events' /\ excused' \subseteq 1 .. events'
    <3>1. event \in Nat /\ events \in Nat /\ event <= events
      BY DEF MarkerTypeOK, Event
    <3>2. NotMarked \subseteq 1 .. events
      BY <3>1 DEF NotMarked
    <3>3. NotNamed \subseteq 1 .. events
      BY DEF NotNamed, MarkerTypeOK
    <3>4. rows' \subseteq 1 .. events
      BY <2>0, <2>3, <3>1
    <3> QED BY <2>0, <2>3, <3>2, <3>3, <3>4 DEF MarkerTypeOK
  <2>5. MarkerTypeOK'
    BY <2>2, <2>3, <2>4, <2>4a DEF MarkerTypeOK, Event
  <2>6. AnswerIsAboutRequest'
    BY <2>2, <2>3 DEF AnswerIsAboutRequest
  <2>7. ~dirty' => found = 0
    BY DEF Recover
  <2>8. MarkerStoredUnlessRaced' /\ RequestIsCurrent'
    BY <2>2, <2>3, <2>7 DEF MarkerStoredUnlessRaced, RequestIsCurrent
  <2>9. CloseRowKept'
    <3>1. event # 0 => event \in rows' \cup NotMarked
      BY <2>0 DEF NotMarked, MarkerStoredUnlessRaced
    <3>2. rows \subseteq rows' \cup NotNamed
      <4> SUFFICES ASSUME NEW e \in rows, e \notin NotNamed PROVE e \in rows'
        OBVIOUS
      <4>1. candidates = {e} /\ e # 0
        BY DEF NotNamed, MarkerTypeOK, Event
      <4> QED BY <4>1, <2>0
    <3>3. \A x \in 1 .. events : x # 0
      BY DEF MarkerTypeOK, Event
    <3> QED BY <2>0, <2>3, <3>1, <3>2, <3>3 DEF CloseRowKept
  <2> QED BY <2>5, <2>6, <2>8, <2>9
<1>7. CASE UNCHANGED markerVars
  <2>1. UNCHANGED <<event, events, closeRows>>
    BY <1>7 DEF markerVars
  <2> QED BY <1>7, <1>a, <2>1
  DEF markerVars, control, MarkerTypeOK, AnswerIsAboutRequest, MarkerStoredUnlessRaced, RequestIsCurrent
<1>8. CASE Start \/ Stop
  <2>1. UNCHANGED <<event, events, closeRows>>
    BY <1>8 DEF Start, Stop
  <2> QED BY <1>8, <1>a, <2>1
  DEF Start, Stop, MarkerTypeOK, AnswerIsAboutRequest, MarkerStoredUnlessRaced, RequestIsCurrent
<1>9. CASE RowWritten \/ RowUncertain \/ RowDropped
  <2>1. PICK e \in rows :
          /\ rows' = rows \ {e} /\ e \in closed' \cup lost'
          /\ closed \subseteq closed' /\ closed' \subseteq closed \cup {e}
          /\ lost \subseteq lost' /\ lost' \subseteq lost \cup {e}
    BY <1>9 DEF RowWritten, RowUncertain, RowDropped
  <2>2. RowsOnly
    BY <1>9 DEF RowWritten, RowUncertain, RowDropped
  <2>3. CloseRowKept'
    BY <2>1, <2>2 DEF RowsOnly, CloseRowKept
  <2> QED BY <2>1, <2>2, <2>3
  DEF RowsOnly, control, MarkerTypeOK, AnswerIsAboutRequest, MarkerStoredUnlessRaced, RequestIsCurrent
<1> QED
  BY <1>1, <1>2, <1>3, <1>4, <1>5, <1>6, <1>7, <1>8, <1>9 DEF MarkerNext, ConfigTask

LEMMA MarkerInductive == MarkerSpec => []MarkerInv
<1>1. MarkerInit => MarkerInv
  BY InitMarkerInv
<1>2. MarkerInv /\ [MarkerNext]_markerVars => MarkerInv'
  BY NextMarkerInv
<1> QED BY <1>1, <1>2, PTL DEF MarkerSpec

(* Every variable keeps its type.                                          *)
THEOREM MarkerTypeCorrect == MarkerSpec => []MarkerTypeOK
<1>1. MarkerInv => MarkerTypeOK
  BY DEF MarkerInv
<1> QED BY <1>1, MarkerInductive, PTL

(* The answer of the config task is about the request in the mailbox, and  *)
(* a success about what the EEPROM holds, for any number of events.        *)
THEOREM AnswerCorrect == MarkerSpec => []AnswerIsAboutRequest
<1>1. MarkerInv => AnswerIsAboutRequest
  BY DEF MarkerInv
<1> QED BY <1>1, MarkerInductive, PTL

(* No event is left without a CLOSE row, however many events and resets    *)
(* there are, except those whose row was counted as uncertain or dropped   *)
(* and those a reset met in one of the two windows named in EventMarker:   *)
(* recover_incomplete_event finds all the others.                          *)
THEOREM CloseRowCorrect == MarkerSpec => []CloseRowKept
<1>1. MarkerInv => CloseRowKept
  BY DEF MarkerInv
<1> QED BY <1>1, MarkerInductive, PTL

(* The marker is stored when it is clean, except after the one race named  *)
(* in EventMarker: there is no other way to lose it.                       *)
THEOREM MarkerCorrect == MarkerSpec => []MarkerStoredUnlessRaced
<1>1. MarkerInv => MarkerStoredUnlessRaced
  BY DEF MarkerInv
<1> QED BY <1>1, MarkerInductive, PTL
=============================================================================
