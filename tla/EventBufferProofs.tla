-------------------------- MODULE EventBufferProofs --------------------------
(***************************************************************************)
(* For every size of the ring and of the output queue, every period and    *)
(* every timing of the rounds: the buffer keeps its bounds, the rows of an *)
(* event leave it in the order the header promises, an event of which the  *)
(* full queue lost a row is delivered as incomplete, and the rows of one   *)
(* that is not are in the order of time.                                   *)
(***************************************************************************)
EXTENDS EventBuffer, FiniteSetTheorems, SequenceTheorems, WellFoundedInduction, TLAPS

(* An open event has a number and a sample; the queues keep their bounds.  *)
Typed(b) ==
  /\ b \in Buffer
  /\ Len(b.ring) <= PreCapacity
  /\ Len(b.output) <= OutputCapacity
  /\ EventOpen(b) => b.event \in Events /\ b.ring # <<>>

(* The last row of an open event is never a PRE row or its CLOSE; between  *)
(* events the last row is a CLOSE.                                         *)
EndOf(rows, l) == IF rows = <<>> THEN l ELSE rows[Len(rows)]
Newest(b, l) == EndOf(b.output, l)

NewestFits(b, l) ==
  \/ EventOpen(b) /\ l.event = b.event /\ l.phase \in {"TRIGGER", "ACTIVE", "POST"}
  \/ ~EventOpen(b) /\ l.event <= b.event /\ l.phase = "CLOSE"

(* s may stand behind r in the queue.                                      *)
Linked(r, s) ==
  /\ Follows(r, s)
  /\ r.event < s.event => r.phase = "CLOSE" /\ s.phase \in {"PRE", "TRIGGER"}

Chain(rows, l) ==
  /\ \A i \in 1 .. Len(rows) - 1 : Linked(rows[i], rows[i + 1])
  /\ rows # <<>> => Follows(l, rows[1])

Ordered(b, l) == Chain(b.output, l) /\ NewestFits(b, Newest(b, l))

AnyRow == Row \cup {NoRow}

LEMMA RowFields ==
  /\ \A r \in AnyRow : r.event \in Nat /\ r.phase \in Phase
  /\ \A r \in Row : r.event \in Events /\ r.flags \in SUBSET Flag /\ r.time \in Time
  BY BufferAssumption DEF AnyRow, Row, NoRow, Events, Phase

LEMMA BufferFields ==
  ASSUME NEW b \in Buffer
  PROVE  /\ b.run_phase \in {"IDLE", "ACTIVE", "POST"} /\ b.event \in 0 .. MaxEvents
         /\ b.ring \in Seq(Time) /\ b.output \in Seq(Row) /\ b.flags \in SUBSET Flag
         /\ b.next \in Nat /\ b.post_end \in Nat /\ b.lost \in SUBSET Events
         /\ Len(b.output) \in Nat /\ Len(b.ring) \in Nat
  BY DEF Buffer

LEMMA FollowsTransitive ==
  ASSUME NEW r \in AnyRow, NEW s \in AnyRow, NEW u \in AnyRow, Follows(r, s), Follows(s, u)
  PROVE  Follows(r, u)
  BY RowFields DEF Follows, Rank, Phase

(* One more row at the end of a chain.                                     *)
LEMMA ChainAppends ==
  ASSUME NEW rows \in Seq(Row), NEW l \in AnyRow, NEW r \in Row, Chain(rows, l),
         Linked(EndOf(rows, l), r)
  PROVE  Chain(Append(rows, r), l)
  <1> DEFINE q == Append(rows, r)
  <1>1. /\ Len(rows) \in Nat /\ Len(q) = Len(rows) + 1 /\ q[Len(rows) + 1] = r
        /\ \A i \in 1 .. Len(rows) : q[i] = rows[i]
    OBVIOUS
  <1>2. ASSUME NEW i \in 1 .. Len(q) - 1 PROVE Linked(q[i], q[i + 1])
    <2>1. CASE i + 1 \in 1 .. Len(rows)
      BY <1>1, <2>1 DEF Chain
    <2>2. CASE i = Len(rows)
      <3>1. rows # <<>> /\ q[i] = rows[Len(rows)] /\ q[i + 1] = r
        BY <1>1, <2>2
      <3> QED BY <3>1 DEF EndOf
    <2> QED BY <1>1, <2>1, <2>2
  <1>3. Follows(l, q[1])
    <2>1. CASE rows = <<>>
      BY <1>1, <2>1 DEF Linked, EndOf
    <2>2. CASE rows # <<>>
      BY <1>1, <2>2 DEF Chain
    <2> QED BY <2>1, <2>2
  <1> HIDE DEF q
  <1> QED BY <1>2, <1>3 DEF Chain, q

(* The oldest row may go: what came before it still comes before the rest. *)
LEMMA ChainDrops ==
  ASSUME NEW rows \in Seq(Row), NEW l \in AnyRow, Chain(rows, l), Len(rows) >= 2
  PROVE  Chain(Tail(rows), l) /\ Tail(rows) \in Seq(Row) /\ Tail(rows) # <<>>
         /\ Tail(rows)[Len(Tail(rows))] = rows[Len(rows)] /\ Len(Tail(rows)) = Len(rows) - 1
  <1> DEFINE q == Tail(rows)
  <1>1. /\ Len(rows) \in Nat /\ q \in Seq(Row) /\ Len(q) = Len(rows) - 1 /\ q # <<>>
        /\ \A i \in 1 .. Len(q) : q[i] = rows[i + 1]
    OBVIOUS
  <1>2. \A i \in 1 .. Len(q) - 1 : Linked(q[i], q[i + 1])
    BY <1>1 DEF Chain
  <1>3. rows[1] \in Row /\ rows[2] \in Row /\ q[1] = rows[2] /\ rows # <<>>
    BY <1>1
  <1>4. Follows(l, rows[1]) /\ Follows(rows[1], rows[2])
    BY <1>1, <1>3 DEF Chain, Linked
  <1>5. Follows(l, q[1])
    BY <1>3, <1>4, FollowsTransitive DEF AnyRow
  <1>6. q[Len(q)] = rows[Len(rows)]
    BY <1>1
  <1> HIDE DEF q
  <1> QED BY <1>1, <1>2, <1>5, <1>6 DEF Chain, q

(* Rows of one event and one phase (neither TRIGGER nor CLOSE) in a row.   *)
Extended(rows, more, n, l) ==
  /\ rows \o more \in Seq(Row) /\ Len(rows \o more) = Len(rows) + n
  /\ Chain(rows \o more, l)
  /\ n = 0 => rows \o more = rows
  /\ n > 0 => (rows \o more)[Len(rows) + n] = more[n]

LEMMA ChainExtends ==
  ASSUME NEW rows \in Seq(Row), NEW l \in AnyRow, Chain(rows, l),
         NEW n \in Nat, NEW more \in [1 .. n -> Row],
         \A i, j \in 1 .. n : more[i].event = more[j].event /\ more[i].phase = more[j].phase,
         \A i \in 1 .. n : more[i].phase \in {"PRE", "ACTIVE", "POST"},
         \A i \in 1 .. n : Linked(EndOf(rows, l), more[i])
  PROVE  Extended(rows, more, n, l)
  <1>0. more \in Seq(Row) /\ Len(more) = n
    OBVIOUS
  <1> DEFINE q == rows \o more
  <1>1. /\ Len(rows) \in Nat /\ q \in Seq(Row) /\ Len(q) = Len(rows) + n
        /\ \A i \in 1 .. Len(rows) : q[i] = rows[i]
        /\ \A i \in Len(rows) + 1 .. Len(rows) + n : q[i] = more[i - Len(rows)]
    BY <1>0
  <1>2. ASSUME NEW i \in 1 .. Len(q) - 1 PROVE Linked(q[i], q[i + 1])
    <2>1. CASE i + 1 <= Len(rows)
      BY <1>1, <2>1 DEF Chain
    <2>2. CASE i = Len(rows)
      <3>1. rows # <<>> /\ q[i] = rows[Len(rows)] /\ q[i + 1] = more[1] /\ 1 \in 1 .. n
        BY <1>1, <2>2
      <3> QED BY <3>1 DEF EndOf
    <2>3. CASE i > Len(rows)
      <3>1. /\ i - Len(rows) \in 1 .. n /\ i + 1 - Len(rows) \in 1 .. n
            /\ q[i] = more[i - Len(rows)] /\ q[i + 1] = more[i + 1 - Len(rows)]
        BY <1>1, <2>3
      <3>2. /\ q[i].event = q[i + 1].event /\ q[i].phase = q[i + 1].phase
            /\ q[i].phase \in {"PRE", "ACTIVE", "POST"} /\ q[i].event \in Nat
        BY <3>1, RowFields DEF AnyRow
      <3> QED BY <3>2 DEF Linked, Follows, Rank
    <2> QED BY <1>1, <2>1, <2>2, <2>3
  <1>3. ASSUME q # <<>> PROVE Follows(l, q[1])
    <2>1. CASE rows = <<>>
      <3>1. 1 \in 1 .. n /\ q[1] = more[1]
        BY <1>0, <1>1, <1>3, <2>1
      <3> QED BY <2>1, <3>1 DEF Linked, EndOf
    <2>2. CASE rows # <<>>
      BY <1>1, <2>2 DEF Chain
    <2> QED BY <2>1, <2>2
  <1>4. n = 0 => q = rows
    BY <1>0
  <1>5. n > 0 => q[Len(rows) + n] = more[n]
    BY <1>1
  <1> HIDE DEF q
  <1> QED BY <1>1, <1>2, <1>3, <1>4, <1>5 DEF Chain, Extended, q
-----------------------------------------------------------------------------
(* The functions of the buffer, one by one. Kept: what none of the calls   *)
(* that only queue or flag may touch.                                      *)
Kept(b, c) ==
  /\ c \in Buffer
  /\ c.run_phase = b.run_phase /\ c.event = b.event /\ c.ring = b.ring
  /\ c.next = b.next /\ c.post_end = b.post_end

LEMMA FlaggedKept ==
  ASSUME NEW b \in Buffer, NEW fs \in SUBSET Flag
  PROVE  Kept(b, Flagged(b, fs)) /\ Flagged(b, fs).output = b.output
         /\ Flagged(b, fs).flags = b.flags \cup fs
  BY DEF Kept, Flagged, Buffer

LEMMA LoseKept ==
  ASSUME NEW b \in Buffer, NEW e \in Events
  PROVE  Kept(b, Lose(b, e)) /\ Lose(b, e).output = b.output /\ Lose(b, e).flags = b.flags
  BY DEF Kept, Lose, Buffer

LEMMA EventRowTyped ==
  ASSUME NEW b \in Buffer, b.event \in Events, NEW p \in Phase, NEW t \in Time
  PROVE  /\ EventRow(b, p, t) \in Row
         /\ EventRow(b, p, t).event = b.event /\ EventRow(b, p, t).phase = p
  BY BufferFields DEF EventRow, Row

LEMMA RoomLeft ==
  ASSUME NEW b \in Buffer, Len(b.output) <= OutputCapacity
  PROVE  /\ OutputRoom(b) \in Nat /\ OutputRoom(b) + Len(b.output) = OutputCapacity
         /\ OutputCapacity \in Nat /\ OutputCapacity >= 2
  BY BufferFields, BufferAssumption DEF OutputRoom

(* A row is queued with the flags of its event, or flags the event.        *)
LEMMA QueueRecordEffect ==
  ASSUME NEW b \in Buffer, NEW l \in AnyRow, NEW r \in Row,
         Len(b.output) <= OutputCapacity, Chain(b.output, l), Linked(Newest(b, l), r)
  PROVE  LET c == QueueRecord(b, r)
         IN  /\ Kept(b, c) /\ Len(c.output) <= OutputCapacity /\ Chain(c.output, l)
             /\ OutputRoom(b) > 0 =>
                  /\ c.output # <<>>
                  /\ Newest(c, l).event = r.event /\ Newest(c, l).phase = r.phase
             /\ OutputRoom(b) = 0 => c.output = b.output
  <1> DEFINE c == QueueRecord(b, r)
             f == [r EXCEPT !.flags = @ \cup b.flags]
  <1>1. f \in Row /\ f.event = r.event /\ f.phase = r.phase
    BY BufferFields DEF Row
  <1>2. OutputRoom(b) \in Nat /\ OutputRoom(b) + Len(b.output) = OutputCapacity
    BY RoomLeft
  <1>3. CASE OutputRoom(b) > 0
    <2> HIDE DEF f
    <2>1. c = [b EXCEPT !.output = Append(@, f)]
      BY <1>3 DEF QueueRecord, f
    <2>2. Append(b.output, f) \in Seq(Row) /\ Len(Append(b.output, f)) = Len(b.output) + 1
          /\ Append(b.output, f)[Len(b.output) + 1] = f
      BY <1>1, BufferFields
    <2>3. Kept(b, c) /\ c.output = Append(b.output, f)
      BY <2>1, <2>2 DEF Kept, Buffer
    <2>4. Linked(Newest(b, l), f)
      BY <1>1 DEF Linked, Follows
    <2>5. Chain(c.output, l)
      BY <1>1, <2>3, <2>4, ChainAppends, BufferFields DEF Newest
    <2>6. c.output # <<>> /\ Newest(c, l) = f /\ Len(c.output) <= OutputCapacity
      <3>1. Len(c.output) = Len(b.output) + 1 /\ c.output[Len(c.output)] = f /\ Len(b.output) \in Nat
        BY <2>2, <2>3, BufferFields
      <3>2. c.output # <<>> /\ Newest(c, l) = f
        BY <3>1 DEF Newest, EndOf
      <3>3. Len(c.output) <= OutputCapacity
        BY <1>2, <1>3, <3>1
      <3> QED BY <3>2, <3>3
    <2> QED BY <1>1, <1>3, <2>3, <2>5, <2>6
  <1>4. CASE OutputRoom(b) = 0
    <2>1. c = Flagged(b, {"INCOMPLETE"})
      BY <1>4 DEF QueueRecord
    <2> QED BY <1>4, <2>1, FlaggedKept DEF Flag
  <1> QED BY <1>2, <1>3, <1>4

(* The oldest row makes room, so the row itself is always queued.          *)
LEMMA QueueRecordForceEffect ==
  ASSUME NEW b \in Buffer, NEW l \in AnyRow, NEW r \in Row,
         Len(b.output) <= OutputCapacity, Chain(b.output, l), Linked(Newest(b, l), r)
  PROVE  LET c == QueueRecordForce(b, r)
         IN  /\ Kept(b, c) /\ Len(c.output) <= OutputCapacity /\ Chain(c.output, l)
             /\ c.output # <<>>
             /\ Newest(c, l).event = r.event /\ Newest(c, l).phase = r.phase
  <1>1. OutputRoom(b) \in Nat /\ OutputRoom(b) + Len(b.output) = OutputCapacity
        /\ OutputCapacity >= 2 /\ OutputCapacity \in Nat
    BY RoomLeft
  <1>2. CASE OutputRoom(b) > 0
    BY <1>2, QueueRecordEffect DEF QueueRecordForce
  <1>3. CASE OutputRoom(b) = 0
    <2> DEFINE m == Flagged(Lose(b, Head(b.output).event), {"INCOMPLETE"})
               d == [m EXCEPT !.output = Tail(@)]
    <2>1. Len(b.output) >= 2 /\ b.output \in Seq(Row) /\ Head(b.output) \in Row
      BY <1>1, <1>3, BufferFields
    <2>2. Kept(b, m) /\ m.output = b.output
      <3>1. Head(b.output).event \in Events
        BY <2>1, RowFields
      <3> QED BY <3>1, LoseKept, FlaggedKept DEF Kept, Flag
    <2>3. /\ Chain(Tail(b.output), l) /\ Tail(b.output) \in Seq(Row) /\ Tail(b.output) # <<>>
          /\ Tail(b.output)[Len(Tail(b.output))] = b.output[Len(b.output)]
          /\ Len(Tail(b.output)) = Len(b.output) - 1
      BY <2>1, ChainDrops
    <2> HIDE DEF m
    <2>4. Kept(b, d) /\ d.output = Tail(b.output)
      BY <2>2, <2>3 DEF Kept, Buffer
    <2>5. Newest(d, l) = Newest(b, l) /\ Len(d.output) <= OutputCapacity /\ OutputRoom(d) > 0
      <3>1. d.output # <<>> /\ b.output # <<>> /\ Len(d.output) = Len(b.output) - 1
        <4>1. b.output # <<>>
          BY <2>1
        <4> QED BY <2>3, <2>4, <4>1
      <3>2. Newest(d, l) = Newest(b, l)
        BY <2>3, <2>4, <3>1 DEF Newest, EndOf
      <3>3. Len(b.output) = OutputCapacity
        BY <1>1, <1>3, <2>1
      <3>4. Len(d.output) <= OutputCapacity /\ OutputRoom(d) > 0
        BY <1>1, <3>1, <3>3 DEF OutputRoom
      <3> QED BY <3>2, <3>4
    <2>6. QueueRecordForce(b, r) = QueueRecord(d, r)
      BY <1>1, <1>3 DEF QueueRecordForce, m
    <2> HIDE DEF d
    <2>7. d \in Buffer /\ Chain(d.output, l) /\ Linked(Newest(d, l), r)
      BY <2>3, <2>4, <2>5 DEF Kept
    <2> DEFINE c == QueueRecord(d, r)
    <2>8. /\ Kept(d, c) /\ Len(c.output) <= OutputCapacity /\ Chain(c.output, l)
          /\ c.output # <<>> /\ Newest(c, l).event = r.event /\ Newest(c, l).phase = r.phase
      BY <2>5, <2>7, QueueRecordEffect
    <2> HIDE DEF c
    <2> QED BY <2>4, <2>6, <2>8 DEF Kept, c
  <1> QED BY <1>1, <1>2, <1>3

(* The sample chosen for a deadline is one of the ring's.                  *)
LEMMA NewestIndex ==
  ASSUME NEW n \in Nat, NEW S \in SUBSET (0 .. n), S # {}
  PROVE  \E i \in S : \A j \in S : j <= i
  <1> DEFINE T == {n - i : i \in S}
             Below == {ss \in Nat \X Nat : ss[1] < ss[2]}
  <1>1. IsWellFoundedOn(Below, Nat)
    BY NatLessThanWellFounded DEF OpToRel
  <1>2. \A x, y \in Nat : <<y, x>> \in Below <=> y < x
    OBVIOUS
  <1>3. T \in SUBSET Nat /\ T # {}
    <2>1. ASSUME NEW i \in S PROVE n - i \in Nat
      <3>1. i \in 0 .. n
        OBVIOUS
      <3> QED BY <3>1
    <2> QED BY <2>1
  <1> HIDE DEF Below
  <1>4. PICK x \in T : \A y \in T : <<y, x>> \notin Below
    <2> HIDE DEF T
    <2> QED BY <1>1, <1>3, WFMin
  <1>5. PICK i \in S : x = n - i
    BY <1>4
  <1>6. ASSUME NEW j \in S PROVE j <= i
    <2>1. n - j \in T /\ n - j \in Nat /\ x \in Nat
      BY <1>3
    <2>2. ~(n - j < x)
      BY <1>2, <1>4, <2>1
    <2> QED BY <1>5, <2>2
  <1> QED BY <1>5, <1>6

LEMMA SelectSampleTyped ==
  ASSUME NEW b \in Buffer, b.ring # <<>>, NEW deadline \in Int
  PROVE  SelectSample(b, deadline) \in Time
  <1> DEFINE old == {i \in DOMAIN b.ring : b.ring[i] <= deadline}
  <1>1. b.ring \in Seq(Time) /\ Len(b.ring) \in Nat \ {0} /\ DOMAIN b.ring = 1 .. Len(b.ring)
    BY BufferFields
  <1>2. CASE old = {}
    <2>1. b.ring[Len(b.ring)] \in Time
      BY <1>1
    <2> QED BY <1>2, <2>1 DEF SelectSample
  <1>3. CASE old # {}
    <2>1. \E i \in old : \A j \in old : j <= i
      <3>1. old \in SUBSET (0 .. Len(b.ring))
        BY <1>1
      <3> HIDE DEF old
      <3> QED BY <1>1, <1>3, <3>1, NewestIndex
    <2>2. (CHOOSE i \in old : \A j \in old : j <= i) \in 1 .. Len(b.ring)
      BY <1>1, <2>1
    <2> DEFINE k == CHOOSE i \in old : \A j \in old : j <= i
    <2>3. SelectSample(b, deadline) = b.ring[k]
      BY <1>3 DEF SelectSample
    <2>4. k \in 1 .. Len(b.ring)
      BY <2>2
    <2> HIDE DEF k
    <2> QED BY <1>1, <2>3, <2>4
  <1> QED BY <1>2, <1>3
-----------------------------------------------------------------------------
(* A buffer in order stays in order when only marks, times or the ring     *)
(* change.                                                                 *)
LEMMA OrderedKept ==
  ASSUME NEW b \in Buffer, NEW l \in AnyRow, NEW c \in Buffer,
         c.run_phase = b.run_phase, c.event = b.event, c.output = b.output, Ordered(b, l)
  PROVE  Ordered(c, l)
  BY DEF Ordered, Newest, NewestFits, EventOpen

(* What emitting leaves: a buffer in order, with the same event open.      *)
SameEvent(b, c, l) ==
  /\ Typed(c) /\ Ordered(c, l)
  /\ c.run_phase = b.run_phase /\ c.event = b.event /\ c.post_end = b.post_end
  /\ c.ring = b.ring

(* Rows of the open event, in its phase, as many as fit.                   *)
LEMMA RowsAppended ==
  ASSUME NEW b, NEW l \in AnyRow, Typed(b), Ordered(b, l), EventOpen(b),
         NEW n \in Nat, n + Len(b.output) <= OutputCapacity,
         NEW more \in [1 .. n -> Row],
         \A i \in 1 .. n : more[i].event = b.event /\ more[i].phase = b.run_phase,
         NEW nx \in Nat, NEW marks \in SUBSET Flag
  PROVE  SameEvent(b, [b EXCEPT !.output = b.output \o more, !.next = nx, !.flags = marks], l)
  <1> DEFINE out == b.output \o more
             c == [b EXCEPT !.output = out, !.next = nx, !.flags = marks]
  <1>1. /\ b \in Buffer /\ b.event \in Events /\ b.event \in Nat /\ b.ring # <<>>
        /\ b.run_phase \in {"ACTIVE", "POST"} /\ Len(b.output) \in Nat
        /\ Len(b.output) <= OutputCapacity
    BY BufferFields DEF Typed, EventOpen, Events
  <1>2. /\ b.output \in Seq(Row) /\ Chain(b.output, l)
        /\ EndOf(b.output, l).event = b.event
        /\ EndOf(b.output, l).phase \in {"TRIGGER", "ACTIVE", "POST"}
    BY <1>1, BufferFields DEF Ordered, Newest, NewestFits
  <1>3. \A i \in 1 .. n : Linked(EndOf(b.output, l), more[i])
    BY <1>1, <1>2 DEF Linked, Follows, Rank
  <1>4. /\ \A i, j \in 1 .. n : more[i].event = more[j].event /\ more[i].phase = more[j].phase
        /\ \A i \in 1 .. n : more[i].phase \in {"PRE", "ACTIVE", "POST"}
    BY <1>1
  <1>5. /\ out \in Seq(Row) /\ Len(out) = Len(b.output) + n /\ Chain(out, l)
        /\ n = 0 => out = b.output
        /\ n > 0 => out[Len(b.output) + n] = more[n]
    <2>1. Extended(b.output, more, n, l)
      BY <1>2, <1>3, <1>4, ChainExtends
    <2> QED BY <2>1 DEF Extended
  <1> HIDE DEF out
  <1>7. /\ c \in Buffer /\ c.output = out /\ c.run_phase = b.run_phase
        /\ c.event = b.event /\ c.post_end = b.post_end /\ c.ring = b.ring
    BY <1>1, <1>5 DEF Buffer
  <1> HIDE DEF c
  <1>8. Typed(c)
    <2>1. Len(b.ring) <= PreCapacity
      BY DEF Typed
    <2>2. Len(c.output) <= OutputCapacity
      BY <1>1, <1>5, <1>7
    <2> QED BY <1>1, <1>7, <2>1, <2>2 DEF Typed, EventOpen
  <1>9. NewestFits(c, Newest(c, l))
    <2>1. CASE n = 0
      BY <1>2, <1>5, <1>7, <2>1 DEF Ordered, Newest, NewestFits, EventOpen
    <2>2. CASE n > 0
      <3>1. c.output # <<>> /\ c.output[Len(c.output)] = more[n] /\ n \in 1 .. n
        BY <1>1, <1>5, <1>7, <2>2
      <3>2. Newest(c, l).event = b.event /\ Newest(c, l).phase = b.run_phase
        BY <3>1 DEF Newest, EndOf
      <3> QED BY <1>1, <1>7, <3>2 DEF NewestFits, EventOpen
    <2> QED BY <2>1, <2>2
  <1> QED BY <1>5, <1>7, <1>8, <1>9 DEF SameEvent, Ordered, c, out

(* One row for each deadline that is due and fits.                         *)
LEMMA EmitEffect ==
  ASSUME NEW b, NEW l \in AnyRow, Typed(b), Ordered(b, l), EventOpen(b), NEW limit \in Nat
  PROVE  SameEvent(b, EmitActiveOrPost(b, limit), l)
  <1> DEFINE due == {i \in 0 .. MaxTime :
                      /\ b.next + i * Period <= limit
                      /\ b.run_phase = "POST" => b.next + i * Period < b.post_end}
             n == SmallerOf(Cardinality(due), OutputRoom(b))
             row(i) == EventRow(b, b.run_phase, SelectSample(b, b.next + (i - 1) * Period))
             more == [i \in 1 .. n |-> row(i)]
             marks == IF n < Cardinality(due) THEN b.flags \cup {"INCOMPLETE"} ELSE b.flags
             nx == b.next + n * Period
             c == EmitActiveOrPost(b, limit)
  <1>1. c = [b EXCEPT !.output = b.output \o more, !.next = nx, !.flags = marks]
    BY DEF EmitActiveOrPost
  <1>2. /\ b \in Buffer /\ b.event \in Events /\ b.ring # <<>> /\ b.run_phase \in {"ACTIVE", "POST"}
        /\ Len(b.output) <= OutputCapacity /\ b.next \in Nat /\ Period \in Nat
    BY BufferFields, BufferAssumption DEF Typed, EventOpen
  <1>3. Cardinality(due) \in Nat
    <2>1. IsFiniteSet(0 .. MaxTime)
      BY FS_Interval, BufferAssumption
    <2>2. IsFiniteSet(due)
      BY <2>1, FS_Subset
    <2> HIDE DEF due
    <2> QED BY <2>2, FS_CardinalityType
  <1>4. n \in Nat /\ n + Len(b.output) <= OutputCapacity
    <2> HIDE DEF due
    <2> QED BY <1>2, <1>3, RoomLeft, BufferFields DEF SmallerOf
  <1>5. marks \in SUBSET Flag
    BY <1>2, BufferFields DEF Flag
  <1> HIDE DEF n, due, marks
  <1>6. ASSUME NEW i \in 1 .. n
        PROVE  row(i) \in Row /\ row(i).event = b.event /\ row(i).phase = b.run_phase
    <2>1. b.next + (i - 1) * Period \in Int
      BY <1>2, <1>4
    <2>2. SelectSample(b, b.next + (i - 1) * Period) \in Time
      BY <1>2, <2>1, SelectSampleTyped
    <2>3. b.run_phase \in Phase
      BY <1>2 DEF Phase
    <2> QED BY <1>2, <2>2, <2>3, EventRowTyped
  <1> HIDE DEF row
  <1>7. /\ more \in [1 .. n -> Row]
        /\ \A i \in 1 .. n : more[i].event = b.event /\ more[i].phase = b.run_phase
    BY <1>6
  <1> HIDE DEF more
  <1>8. nx \in Nat
    <2>1. n * Period \in Nat
      BY <1>2, <1>4
    <2> QED BY <1>2, <2>1
  <1> HIDE DEF nx, c
  <1>9. SameEvent(b, [b EXCEPT !.output = b.output \o more, !.next = nx, !.flags = marks], l)
    BY <1>4, <1>5, <1>7, <1>8, RowsAppended
  <1> QED BY <1>1, <1>9 DEF c
-----------------------------------------------------------------------------
(* A row of the event that is about to open, or has just opened, may come. *)
Opens(b, l, phases) ==
  \A r \in Row : r.event = b.event /\ r.phase \in phases => Linked(Newest(b, l), r)

LEMMA PushEffect ==
  ASSUME NEW b, NEW l \in AnyRow, Typed(b), Ordered(b, l), NEW t \in Time
  PROVE  LET c == PushSnapshot(b, t)
         IN  /\ Typed(c) /\ Ordered(c, l) /\ c.ring # <<>>
             /\ c.run_phase = b.run_phase /\ c.event = b.event
  <1> DEFINE ring == IF Len(b.ring) < PreCapacity THEN Append(b.ring, t)
                     ELSE Append(Tail(b.ring), t)
             c == PushSnapshot(b, t)
  <1>1. b \in Buffer /\ b.ring \in Seq(Time) /\ Len(b.ring) <= PreCapacity /\ PreCapacity \in Nat \ {0}
    BY BufferFields, BufferAssumption DEF Typed
  <1>2. ring \in Seq(Time) /\ ring # <<>> /\ Len(ring) <= PreCapacity
    <2>1. CASE Len(b.ring) < PreCapacity
      <3>1. Append(b.ring, t) \in Seq(Time) /\ Len(Append(b.ring, t)) = Len(b.ring) + 1
        BY <1>1
      <3>2. Append(b.ring, t) # <<>>
        BY <1>1
      <3> HIDE DEF c
      <3> QED BY <3>2, <1>1, <2>1, <3>1
    <2>2. CASE ~(Len(b.ring) < PreCapacity)
      <3>1. b.ring # <<>> /\ Len(b.ring) = PreCapacity
        BY <1>1, <2>2
      <3>2. Tail(b.ring) \in Seq(Time) /\ Len(Tail(b.ring)) = Len(b.ring) - 1
        BY <1>1, <3>1
      <3>3. Append(Tail(b.ring), t) \in Seq(Time)
            /\ Len(Append(Tail(b.ring), t)) = Len(Tail(b.ring)) + 1
        BY <3>2
      <3> QED BY <1>1, <2>2, <3>1, <3>2, <3>3
    <2> QED BY <2>1, <2>2
  <1>3. c = [b EXCEPT !.ring = ring]
    BY DEF PushSnapshot
  <1> HIDE DEF ring, c
  <1>4. /\ c \in Buffer /\ c.ring = ring /\ c.run_phase = b.run_phase /\ c.event = b.event
        /\ c.output = b.output
    BY <1>1, <1>2, <1>3 DEF Buffer
  <1>5. Ordered(c, l)
    BY <1>1, <1>4, OrderedKept
  <1>6. Typed(c)
    BY <1>1, <1>2, <1>4 DEF Typed, EventOpen
  <1> QED BY <1>2, <1>4, <1>5, <1>6 DEF c

(* Calls that leave room for a TRIGGER row of the event just opened.       *)
ReadyForTrigger(b, c, l) ==
  /\ Kept(b, c) /\ Len(c.output) <= OutputCapacity
  /\ Chain(c.output, l) /\ Opens(c, l, {"TRIGGER"})

(* PRE rows at the end of the queue.                                       *)
LEMMA PreAppended ==
  ASSUME NEW b \in Buffer, NEW l \in AnyRow, b.event \in Events,
         Chain(b.output, l), Opens(b, l, {"PRE", "TRIGGER"}),
         NEW n \in Nat, n + Len(b.output) <= OutputCapacity,
         NEW more \in [1 .. n -> Row],
         \A i \in 1 .. n : more[i].event = b.event /\ more[i].phase = "PRE"
  PROVE  ReadyForTrigger(b, [b EXCEPT !.output = b.output \o more], l)
  <1> DEFINE out == b.output \o more
             c == [b EXCEPT !.output = out]
  <1>1. b.output \in Seq(Row) /\ Len(b.output) \in Nat /\ b.event \in Nat
    BY BufferFields
  <1>2. \A i \in 1 .. n : Linked(EndOf(b.output, l), more[i])
    BY DEF Opens, Newest
  <1>3. /\ \A i, j \in 1 .. n : more[i].event = more[j].event /\ more[i].phase = more[j].phase
        /\ \A i \in 1 .. n : more[i].phase \in {"PRE", "ACTIVE", "POST"}
    OBVIOUS
  <1>4. /\ out \in Seq(Row) /\ Len(out) = Len(b.output) + n /\ Chain(out, l)
        /\ n = 0 => out = b.output
        /\ n > 0 => out[Len(b.output) + n] = more[n]
    <2>1. Extended(b.output, more, n, l)
      BY <1>1, <1>2, <1>3, ChainExtends
    <2> QED BY <2>1 DEF Extended
  <1> HIDE DEF out
  <1>5. Kept(b, c) /\ c.output = out
    BY <1>4 DEF Kept, Buffer
  <1> HIDE DEF c
  <1>6. Opens(c, l, {"TRIGGER"})
    <2>1. CASE n = 0
      BY <1>4, <1>5, <2>1 DEF Opens, Newest, Kept
    <2>2. CASE n > 0
      <3>1. c.output # <<>> /\ c.output[Len(c.output)] = more[n] /\ n \in 1 .. n
        BY <1>1, <1>4, <1>5, <2>2
      <3>2. Newest(c, l).event = b.event /\ Newest(c, l).phase = "PRE"
        BY <3>1 DEF Newest, EndOf
      <3>3. c.event = b.event
        BY <1>5 DEF Kept
      <3> QED BY <1>1, <3>2, <3>3 DEF Opens, Linked, Follows, Rank
    <2> QED BY <2>1, <2>2
  <1>7. Len(c.output) <= OutputCapacity
    BY <1>4, <1>5
  <1> QED BY <1>4, <1>5, <1>6, <1>7 DEF ReadyForTrigger, c, out

(* The rows from before the alarm, as many as fit.                         *)
LEMMA QueuePreEffect ==
  ASSUME NEW b \in Buffer, NEW l \in AnyRow, b.event \in Events, b.ring # <<>>,
         Len(b.output) <= OutputCapacity, Chain(b.output, l), Opens(b, l, {"PRE", "TRIGGER"})
  PROVE  ReadyForTrigger(b, QueuePre(b), l)
  <1> DEFINE n == SmallerOf(Len(b.ring) - 1, OutputRoom(b))
             more == [i \in 1 .. n |-> EventRow(b, "PRE", b.ring[i])]
             filled == [b EXCEPT !.output = b.output \o more]
             c == QueuePre(b)
  <1>1. c = IF n = Len(b.ring) - 1 THEN filled ELSE Flagged(Lose(filled, b.event), {"INCOMPLETE"})
    BY DEF QueuePre
  <1>2. b.ring \in Seq(Time) /\ Len(b.output) \in Nat /\ Len(b.ring) \in Nat \ {0}
    BY BufferFields
  <1>3. n \in Nat /\ n <= Len(b.ring) /\ n + Len(b.output) <= OutputCapacity
    BY <1>2, RoomLeft DEF SmallerOf
  <1> HIDE DEF n
  <1>4. ASSUME NEW i \in 1 .. n
        PROVE  /\ more[i] \in Row /\ more[i].event = b.event /\ more[i].phase = "PRE"
               /\ more[i] = EventRow(b, "PRE", b.ring[i])
    <2>1. b.ring[i] \in Time
      BY <1>2, <1>3
    <2> QED BY <2>1, EventRowTyped DEF Phase
  <1>5. /\ more \in [1 .. n -> Row]
        /\ \A i \in 1 .. n : more[i].event = b.event /\ more[i].phase = "PRE"
    BY <1>4
  <1> HIDE DEF more, c
  <1>6. ReadyForTrigger(b, filled, l)
    BY <1>3, <1>5, PreAppended
  <1> HIDE DEF filled
  <1>7. CASE n = Len(b.ring) - 1
    BY <1>1, <1>6, <1>7 DEF c
  <1>8. CASE n # Len(b.ring) - 1
    <2> DEFINE d == Lose(filled, b.event)
    <2>1. filled \in Buffer
      BY <1>6 DEF ReadyForTrigger, Kept
    <2>2. Kept(filled, d) /\ d.output = filled.output
      BY <2>1, LoseKept
    <2> HIDE DEF d
    <2>3. Kept(d, Flagged(d, {"INCOMPLETE"})) /\ Flagged(d, {"INCOMPLETE"}).output = d.output
      BY <2>2, FlaggedKept DEF Flag, Kept
    <2>4. c = Flagged(d, {"INCOMPLETE"})
      BY <1>1, <1>8 DEF d
    <2>5. Kept(b, c) /\ c.output = filled.output /\ c.event = filled.event
      BY <1>6, <2>2, <2>3, <2>4 DEF ReadyForTrigger, Kept
    <2> QED BY <1>6, <2>5 DEF ReadyForTrigger, Opens, Newest, c
  <1> QED BY <1>7, <1>8

(* An event opens after the last one was closed.                           *)
LEMMA StartEffect ==
  ASSUME NEW b, NEW l \in AnyRow, Typed(b), Ordered(b, l), ~EventOpen(b), b.ring # <<>>,
         b.event + 1 \in Events, NEW t \in Time
  PROVE  LET c == StartEvent(b, t)
         IN  /\ Typed(c) /\ Ordered(c, l)
             /\ c.run_phase = "ACTIVE" /\ c.ring = b.ring /\ c.next = t + Period
  <1> DEFINE o == [b EXCEPT !.run_phase = "ACTIVE", !.event = @ + 1, !.flags = {},
                            !.next = t + Period, !.post_end = 0]
             pre == QueuePre(o)
             r == EventRow(pre, "TRIGGER", t)
             c == QueueRecordForce(pre, r)
  <1>1. c = StartEvent(b, t)
    BY DEF StartEvent
  <1>2. /\ o \in Buffer /\ o.event = b.event + 1 /\ o.ring = b.ring /\ o.output = b.output
        /\ o.run_phase = "ACTIVE" /\ o.next = t + Period
    <2>1. t + Period \in Nat /\ 0 \in Nat /\ b.event + 1 \in 0 .. MaxEvents
      BY BufferAssumption DEF Time, Events
    <2>2. b \in Buffer
      BY DEF Typed
    <2> QED BY <2>1, <2>2 DEF Buffer
  <1> HIDE DEF o
  <1>3. /\ Len(b.output) <= OutputCapacity /\ Len(b.ring) <= PreCapacity /\ Chain(b.output, l)
        /\ Newest(b, l).event <= b.event /\ Newest(b, l).phase = "CLOSE"
        /\ b.event \in Nat /\ Newest(b, l) \in AnyRow
    <2>1. /\ Len(b.output) <= OutputCapacity /\ Len(b.ring) <= PreCapacity /\ Chain(b.output, l)
          /\ Newest(b, l).event <= b.event /\ Newest(b, l).phase = "CLOSE"
      BY DEF Typed, Ordered, NewestFits
    <2>2. b.event \in Nat /\ b.output \in Seq(Row) /\ Len(b.output) \in Nat
      BY BufferFields DEF Typed
    <2>3. Newest(b, l) \in AnyRow
      <3>1. CASE b.output = <<>>
        BY <3>1 DEF Newest, EndOf
      <3>2. CASE b.output # <<>>
        <4>1. b.output[Len(b.output)] \in Row
          BY <2>2, <3>2
        <4> QED BY <3>2, <4>1 DEF Newest, EndOf, AnyRow
      <3> QED BY <3>1, <3>2
    <2> QED BY <2>1, <2>2, <2>3
  <1>4. Opens(o, l, {"PRE", "TRIGGER"})
    <2>1. Newest(o, l) = Newest(b, l)
      BY <1>2 DEF Newest
    <2>2. ASSUME NEW s \in Row, s.event = o.event, s.phase \in {"PRE", "TRIGGER"}
          PROVE  Linked(Newest(b, l), s)
      <3>1. Newest(b, l).event < s.event
        BY <1>2, <1>3, <2>2, RowFields
      <3> QED BY <1>3, <2>2, <3>1 DEF Linked, Follows
    <2> QED BY <2>1, <2>2 DEF Opens
  <1>5. ReadyForTrigger(o, pre, l)
    BY <1>2, <1>3, <1>4, QueuePreEffect
  <1> HIDE DEF pre
  <1>6. /\ pre \in Buffer /\ pre.event = o.event /\ pre.event \in Events /\ pre.ring = b.ring
        /\ pre.run_phase = "ACTIVE" /\ Len(pre.output) <= OutputCapacity /\ Chain(pre.output, l)
        /\ pre.next = t + Period
    BY <1>2, <1>5 DEF ReadyForTrigger, Kept
  <1>7. r \in Row /\ r.event = pre.event /\ r.phase = "TRIGGER"
    BY <1>6, EventRowTyped DEF Phase
  <1> HIDE DEF r
  <1>8. Linked(Newest(pre, l), r)
    BY <1>5, <1>7 DEF ReadyForTrigger, Opens
  <1>9. /\ Kept(pre, c) /\ Len(c.output) <= OutputCapacity /\ Chain(c.output, l)
        /\ Newest(c, l).event = r.event /\ Newest(c, l).phase = r.phase
    BY <1>6, <1>7, <1>8, QueueRecordForceEffect
  <1> HIDE DEF c
  <1>10. Typed(c)
    BY <1>3, <1>6, <1>9 DEF Typed, Kept
  <1>11. Ordered(c, l)
    BY <1>6, <1>7, <1>9 DEF Ordered, NewestFits, EventOpen, Kept
  <1>12. c.run_phase = "ACTIVE" /\ c.ring = b.ring /\ c.next = t + Period
    BY <1>6, <1>9 DEF Kept
  <1> QED BY <1>1, <1>10, <1>11, <1>12 DEF c

(* A row of the open event goes to the end of the queue, or flags it.      *)
LEMMA NextOfEvent ==
  ASSUME NEW b, NEW l \in AnyRow, Typed(b), Ordered(b, l), EventOpen(b),
         NEW r \in Row, r.event = b.event, r.phase \in {"ACTIVE", "POST", "CLOSE"}
  PROVE  Linked(Newest(b, l), r)
  <1>1. Newest(b, l).event = b.event /\ Newest(b, l).phase \in {"TRIGGER", "ACTIVE", "POST"}
    BY DEF Ordered, NewestFits
  <1>2. b.event \in Nat
    BY BufferFields DEF Typed
  <1> QED BY <1>1, <1>2 DEF Linked, Follows, Rank

LEMMA EnterPostEffect ==
  ASSUME NEW b, NEW l \in AnyRow, Typed(b), Ordered(b, l), EventOpen(b), NEW t \in Time
  PROVE  Typed(EnterPost(b, t)) /\ Ordered(EnterPost(b, t), l)
  <1> DEFINE post == [b EXCEPT !.run_phase = "POST", !.next = t + Period,
                               !.post_end = t + PostDuration]
             counted == IF TurnedAway(b) \/ OutputRoom(b) = 0
                        THEN Lose(post, b.event) ELSE post
             r == EventRow(post, "POST", t)
             c == QueueRecord(counted, r)
  <1>1. c = EnterPost(b, t)
    BY DEF EnterPost
  <1>2. /\ b \in Buffer /\ b.event \in Events /\ Len(b.output) <= OutputCapacity
        /\ Len(b.ring) <= PreCapacity /\ b.ring # <<>>
        /\ Chain(b.output, l) /\ Newest(b, l).event = b.event
        /\ Newest(b, l).phase \in {"TRIGGER", "ACTIVE", "POST"}
    BY DEF Typed, Ordered, NewestFits
  <1>3. /\ post \in Buffer /\ post.event = b.event /\ post.ring = b.ring
        /\ post.output = b.output /\ post.run_phase = "POST"
    <2>1. t + Period \in Nat /\ t + PostDuration \in Nat
      BY BufferAssumption DEF Time
    <2> QED BY <1>2, <2>1 DEF Buffer
  <1> HIDE DEF post
  <1>4. r \in Row /\ r.event = b.event /\ r.phase = "POST"
    <2>1. post \in Buffer /\ post.event \in Events /\ "POST" \in Phase
      BY <1>2, <1>3 DEF Phase
    <2>2. r \in Row /\ r.event = post.event /\ r.phase = "POST"
      BY <2>1, EventRowTyped
    <2> QED BY <1>3, <2>2
  <1> HIDE DEF r
  <1>5. Linked(Newest(b, l), r)
    BY <1>4, NextOfEvent
  <1>6. /\ counted \in Buffer /\ counted.event = b.event /\ counted.ring = b.ring
        /\ counted.output = b.output /\ counted.run_phase = "POST"
    BY <1>2, <1>3, LoseKept DEF Kept
  <1> HIDE DEF counted
  <1>7. Newest(counted, l) = Newest(b, l)
    BY <1>6 DEF Newest
  <1>8. /\ Kept(counted, c) /\ Len(c.output) <= OutputCapacity /\ Chain(c.output, l)
        /\ OutputRoom(counted) > 0 =>
             /\ Newest(c, l).event = r.event /\ Newest(c, l).phase = r.phase
        /\ OutputRoom(counted) = 0 => c.output = counted.output
    BY <1>2, <1>4, <1>5, <1>6, <1>7, QueueRecordEffect
  <1> HIDE DEF c
  <1>9. Newest(c, l).event = b.event /\ Newest(c, l).phase \in {"TRIGGER", "ACTIVE", "POST"}
    <2>1. CASE OutputRoom(counted) > 0
      BY <1>4, <1>8, <2>1
    <2>2. CASE OutputRoom(counted) = 0
      BY <1>2, <1>6, <1>8, <2>2 DEF Newest
    <2>3. OutputRoom(counted) \in Nat
      BY <1>2, <1>6, RoomLeft
    <2> QED BY <2>1, <2>2, <2>3
  <1>10. Typed(c)
    BY <1>2, <1>6, <1>8 DEF Typed, Kept
  <1>11. Ordered(c, l)
    BY <1>6, <1>8, <1>9 DEF Ordered, NewestFits, EventOpen, Kept
  <1> QED BY <1>1, <1>10, <1>11 DEF c

LEMMA UpdateEventEffect ==
  ASSUME NEW b, NEW l \in AnyRow, Typed(b), Ordered(b, l), NEW active, NEW t \in Time
  PROVE  Typed(UpdateEvent(b, active, t)) /\ Ordered(UpdateEvent(b, active, t), l)
  <1>1. CASE ~(b.run_phase = "POST" /\ active)
    BY <1>1 DEF UpdateEvent
  <1>2. CASE b.run_phase = "POST" /\ active
    <2> DEFINE counted == IF TurnedAway(b) THEN Lose(b, b.event) ELSE b
               d == [counted EXCEPT !.run_phase = "ACTIVE", !.next = t, !.post_end = 0]
               c == Flagged(d, {"POST_RETRIGGER"})
    <2>1. c = UpdateEvent(b, active, t)
      BY <1>2 DEF UpdateEvent
    <2>2. /\ b \in Buffer /\ b.event \in Events /\ EventOpen(b)
          /\ Len(b.output) <= OutputCapacity /\ Len(b.ring) <= PreCapacity /\ b.ring # <<>>
      BY <1>2 DEF Typed, EventOpen
    <2>3. /\ counted \in Buffer /\ counted.event = b.event /\ counted.ring = b.ring
          /\ counted.output = b.output
      BY <2>2, LoseKept DEF Kept
    <2> HIDE DEF counted
    <2>4. /\ d \in Buffer /\ d.event = b.event /\ d.ring = b.ring
          /\ d.output = b.output /\ d.run_phase = "ACTIVE"
      <3>1. t \in Nat
        BY DEF Time
      <3> QED BY <2>3, <3>1 DEF Buffer
    <2> HIDE DEF d
    <2>5. Kept(d, c) /\ c.output = d.output
      BY <2>4, FlaggedKept DEF Flag
    <2> HIDE DEF c
    <2>6. /\ c \in Buffer /\ c.event = b.event /\ c.ring = b.ring
          /\ c.output = b.output /\ c.run_phase = "ACTIVE"
      BY <2>4, <2>5 DEF Kept
    <2>7. Typed(c)
      BY <2>2, <2>6 DEF Typed
    <2>8. Ordered(c, l)
      BY <2>2, <2>6 DEF Ordered, Newest, NewestFits, EventOpen
    <2> QED BY <2>1, <2>7, <2>8 DEF c
  <1> QED BY <1>1, <1>2

LEMMA CloseEffect ==
  ASSUME NEW b, NEW l \in AnyRow, Typed(b), Ordered(b, l), EventOpen(b), NEW t \in Time,
         NEW forced \in BOOLEAN
  PROVE  /\ Typed(CloseEvent(b, t, forced)) /\ Ordered(CloseEvent(b, t, forced), l)
         /\ ~EventOpen(CloseEvent(b, t, forced)) /\ CloseEvent(b, t, forced).ring = b.ring
  <1> DEFINE flagged == IF forced THEN Flagged(b, {"INCOMPLETE", "FORCED_CLOSE"}) ELSE b
             counted == IF b.next < t THEN Lose(flagged, b.event) ELSE flagged
             r == EventRow(flagged, "CLOSE", t)
             d == QueueRecordForce(counted, r)
             c == [d EXCEPT !.run_phase = "IDLE"]
  <1>1. c = CloseEvent(b, t, forced)
    BY DEF CloseEvent
  <1>2. /\ b \in Buffer /\ b.event \in Events /\ Len(b.output) <= OutputCapacity
        /\ Len(b.ring) <= PreCapacity /\ Chain(b.output, l)
    BY DEF Typed, Ordered
  <1>3. Kept(b, flagged) /\ flagged.output = b.output
    BY <1>2, FlaggedKept DEF Kept, Flag
  <1> HIDE DEF flagged
  <1>4. r \in Row /\ r.event = b.event /\ r.phase = "CLOSE"
    BY <1>2, <1>3, EventRowTyped DEF Kept, Phase
  <1> HIDE DEF r
  <1>5. Kept(b, counted) /\ counted.output = b.output
    BY <1>2, <1>3, LoseKept DEF Kept
  <1> HIDE DEF counted
  <1>6. Linked(Newest(counted, l), r)
    <2>1. Newest(counted, l) = Newest(b, l)
      BY <1>5 DEF Newest
    <2> QED BY <1>4, <2>1, NextOfEvent
  <1>7. counted \in Buffer
    BY <1>5 DEF Kept
  <1>8. /\ Kept(counted, d) /\ Len(d.output) <= OutputCapacity /\ Chain(d.output, l)
        /\ Newest(d, l).event = r.event /\ Newest(d, l).phase = r.phase
    BY <1>2, <1>4, <1>5, <1>6, <1>7, QueueRecordForceEffect
  <1> HIDE DEF d
  <1>9. d \in Buffer /\ d.event = b.event /\ d.ring = b.ring /\ b.event \in Nat
    BY <1>2, <1>5, <1>8, BufferFields DEF Kept
  <1>10. /\ c \in Buffer /\ c.run_phase = "IDLE" /\ c.event = b.event /\ c.ring = b.ring
         /\ c.output = d.output
    BY <1>9 DEF Buffer
  <1> HIDE DEF c
  <1>11. Typed(c)
    BY <1>2, <1>8, <1>10 DEF Typed, EventOpen
  <1>12. Newest(c, l).event <= c.event /\ Newest(c, l).phase = "CLOSE"
    BY <1>4, <1>8, <1>9, <1>10 DEF Newest
  <1>13. Ordered(c, l)
    BY <1>8, <1>10, <1>12 DEF Ordered, NewestFits, EventOpen
  <1> QED BY <1>1, <1>10, <1>11, <1>13 DEF c, EventOpen

(* An event that opens has the next number, whatever the queue does.       *)
Numbered(c, e) == "event" \in DOMAIN c /\ c.event = e

LEMMA NumberKept ==
  ASSUME NEW c, NEW e, Numbered(c, e)
  PROVE  /\ \A fs : Numbered(Flagged(c, fs), e)
         /\ \A f : Numbered(Lose(c, f), e)
         /\ \A out : Numbered([c EXCEPT !.output = out], e)
  BY DEF Numbered, Flagged, Lose

LEMMA StartNumbers ==
  ASSUME NEW b \in Buffer, NEW t
  PROVE  StartEvent(b, t).event = b.event + 1
  <1> DEFINE o == [b EXCEPT !.run_phase = "ACTIVE", !.event = @ + 1, !.flags = {},
                            !.next = t + Period, !.post_end = 0]
             pre == QueuePre(o)
  <1>1. Numbered(o, b.event + 1)
    BY DEF Numbered, Buffer
  <1>2. StartEvent(b, t) = QueueRecordForce(pre, EventRow(pre, "TRIGGER", t))
    BY DEF StartEvent
  <1> HIDE DEF o
  <1>3. Numbered(pre, b.event + 1)
    BY <1>1, NumberKept DEF QueuePre
  <1> HIDE DEF pre
  <1>4. ASSUME NEW c, NEW r, Numbered(c, b.event + 1)
        PROVE  Numbered(QueueRecord(c, r), b.event + 1)
    BY <1>4, NumberKept DEF QueueRecord
  <1>5. ASSUME NEW r PROVE Numbered(QueueRecordForce(pre, r), b.event + 1)
    <2> DEFINE m == Flagged(Lose(pre, Head(pre.output).event), {"INCOMPLETE"})
               d == [m EXCEPT !.output = Tail(@)]
    <2>1. Numbered(m, b.event + 1)
      BY <1>3, NumberKept
    <2> HIDE DEF m
    <2>2. Numbered(d, b.event + 1)
      BY <2>1, NumberKept
    <2>3. QueueRecordForce(pre, r) = IF OutputRoom(pre) > 0 THEN QueueRecord(pre, r)
                                     ELSE QueueRecord(d, r)
      BY DEF QueueRecordForce, m
    <2> HIDE DEF d
    <2> QED BY <1>3, <1>4, <2>2, <2>3
  <1> QED BY <1>2, <1>5 DEF Numbered

LEMMA NoteEffect ==
  ASSUME NEW b, NEW l \in AnyRow, Typed(b), Ordered(b, l), b.ring # <<>>,
         NEW was, NEW active, NEW t \in Time,
         NoteAlarmResult(b, was, active, t).event <= MaxEvents
  PROVE  /\ Typed(NoteAlarmResult(b, was, active, t))
         /\ Ordered(NoteAlarmResult(b, was, active, t), l)
  <1>1. CASE was /\ ~active
    BY <1>1, EnterPostEffect DEF NoteAlarmResult
  <1>2. CASE ~(was /\ ~active) /\ active /\ ~EventOpen(b)
    <2>1. NoteAlarmResult(b, was, active, t) = StartEvent(b, t)
      BY <1>2 DEF NoteAlarmResult
    <2>2. b \in Buffer /\ b.event \in Nat
      BY BufferFields DEF Typed
    <2>3. b.event + 1 \in Events
      <3>1. b.event + 1 <= MaxEvents
        BY <2>1, <2>2, StartNumbers
      <3> QED BY <2>2, <3>1, BufferAssumption DEF Events
    <2> QED BY <1>2, <2>1, <2>3, StartEffect
  <1>3. CASE ~(was /\ ~active) /\ ~(active /\ ~EventOpen(b))
    BY <1>3, UpdateEventEffect DEF NoteAlarmResult
  <1> QED BY <1>1, <1>2, <1>3

LEMMA StepEffect ==
  ASSUME NEW b, NEW l \in AnyRow, Typed(b), Ordered(b, l), NEW t \in Time
  PROVE  Typed(Step(b, t)) /\ Ordered(Step(b, t), l) /\ Step(b, t).ring = b.ring
  <1>1. CASE ~EventOpen(b)
    BY <1>1 DEF Step
  <1>2. CASE EventOpen(b) /\ b.run_phase = "POST" /\ t >= b.post_end
    <2> DEFINE d == EmitActiveOrPost(b, b.post_end)
    <2>1. b.post_end \in Nat /\ b.post_end \in Time
      <3>1. b.post_end \in Nat
        BY BufferFields DEF Typed
      <3> QED BY <1>2, <3>1, BufferAssumption DEF Time
    <2>2. SameEvent(b, d, l)
      BY <1>2, <2>1, EmitEffect
    <2> HIDE DEF d
    <2>3. Typed(d) /\ Ordered(d, l) /\ EventOpen(d) /\ d.ring = b.ring
      BY <1>2, <2>2 DEF SameEvent, EventOpen
    <2>4. /\ Typed(CloseEvent(d, b.post_end, FALSE)) /\ Ordered(CloseEvent(d, b.post_end, FALSE), l)
          /\ CloseEvent(d, b.post_end, FALSE).ring = d.ring
      BY <2>1, <2>3, CloseEffect
    <2> QED BY <1>2, <2>3, <2>4 DEF Step, d
  <1>3. CASE EventOpen(b) /\ ~(b.run_phase = "POST" /\ t >= b.post_end)
    <2>1. t \in Nat
      BY DEF Time
    <2>2. SameEvent(b, EmitActiveOrPost(b, t), l)
      BY <1>3, <2>1, EmitEffect
    <2> QED BY <1>3, <2>2 DEF Step, SameEvent
  <1> QED BY <1>1, <1>2, <1>3

LEMMA ForceCloseEffect ==
  ASSUME NEW b, NEW l \in AnyRow, Typed(b), Ordered(b, l), NEW t \in Time
  PROVE  /\ Typed(ForceClose(b, t)) /\ Ordered(ForceClose(b, t), l)
         /\ ForceClose(b, t).ring = b.ring
  BY CloseEffect DEF ForceClose
-----------------------------------------------------------------------------
(* The inductive invariant.                                                *)
Inv ==
  /\ now \in Time
  /\ running \in BOOLEAN /\ stopping \in BOOLEAN /\ alarm \in BOOLEAN
  /\ last \in AnyRow
  /\ Typed(buffer) /\ Ordered(buffer, last)
  /\ delivered \in [Events -> Delivered]

(* The rows that leave the buffer are its oldest.                          *)
LEMMA DrainEffect ==
  ASSUME NEW b, Typed(b), last \in AnyRow, Ordered(b, last),
         NEW n \in 0 .. Len(b.output), Drain(b, n)
  PROVE  /\ last' \in AnyRow /\ Typed(buffer') /\ Ordered(buffer', last')
         /\ delivered' \in [Events -> Delivered]
  <1> DEFINE left == SubSeq(b.output, n + 1, Len(b.output))
             rest == [b EXCEPT !.output = left]
             all == <<last>> \o Pulled(b, n)
  <1>1. /\ buffer' = IF n < Len(b.output) THEN Flagged(rest, {"INCOMPLETE"}) ELSE rest
        /\ last' = all[n + 1]
    BY DEF Drain
  <1>2. delivered' \in [Events -> Delivered]
    BY DEF Drain, Delivered
  <1>3. /\ b \in Buffer /\ b.output \in Seq(Row) /\ Len(b.output) \in Nat /\ b.flags \in SUBSET Flag
        /\ Len(b.output) <= OutputCapacity /\ n \in Nat /\ n <= Len(b.output)
    <2>1. b \in Buffer /\ Len(b.output) <= OutputCapacity
      BY DEF Typed
    <2> QED BY <2>1, BufferFields
  <1>4. /\ left \in Seq(Row) /\ Len(left) = Len(b.output) - n
        /\ \A i \in 1 .. Len(left) : left[i] = b.output[n + i]
    BY <1>3, SubSeqProperties
  <1> HIDE DEF left
  <1>5. rest \in Buffer /\ Kept(b, rest) /\ rest.output = left
    BY <1>3, <1>4 DEF Buffer, Kept
  <1> HIDE DEF rest
  <1>6. Kept(b, buffer') /\ buffer'.output = left
    BY <1>1, <1>5, FlaggedKept DEF Kept, Flag
  <1>7. /\ last' \in AnyRow
        /\ n = 0 => last' = last
        /\ n > 0 => last'.event = b.output[n].event /\ last'.phase = b.output[n].phase
    <2>1. CASE n = 0
      <3>1. Pulled(b, n) = <<>>
        BY <2>1 DEF Pulled
      <3>2. all[1] = last
        BY <3>1
      <3> QED BY <1>1, <2>1, <3>2
    <2>2. CASE n > 0
      <3> DEFINE rows == Pulled(b, n)
                 f == [b.output[n] EXCEPT !.flags = @ \cup b.flags]
      <3>1. \A i \in 1 .. n : [b.output[i] EXCEPT !.flags = @ \cup b.flags] \in Row
        <4>1. ASSUME NEW i \in 1 .. n
              PROVE  [b.output[i] EXCEPT !.flags = @ \cup b.flags] \in Row
          <5>1. b.output[i] \in Row
            BY <1>3
          <5> QED BY <1>3, <5>1 DEF Row
        <4> QED BY <4>1
      <3>2. rows \in Seq(Row) /\ Len(rows) = n /\ rows[n] = f
        <4>1. rows = [i \in 1 .. n |-> [b.output[i] EXCEPT !.flags = @ \cup b.flags]]
          BY DEF Pulled
        <4>2. rows \in [1 .. n -> Row] /\ n \in 1 .. n
          BY <1>3, <2>2, <3>1, <4>1
        <4>3. rows[n] = f
          BY <4>1, <4>2
        <4> HIDE DEF rows, f
        <4> QED BY <1>3, <4>2, <4>3
      <3>3. f \in Row /\ f.event = b.output[n].event /\ f.phase = b.output[n].phase
        <4>1. b.output[n] \in Row
          BY <1>3, <2>2
        <4> QED BY <1>3, <4>1 DEF Row
      <3> HIDE DEF rows, f
      <3>4. last' = f
        <4>1. (<<last>> \o rows)[n + 1] = rows[n]
          BY <1>3, <2>2, <3>2
        <4> QED BY <1>1, <3>2, <4>1 DEF rows
      <3> QED BY <2>2, <3>3, <3>4 DEF AnyRow
    <2> QED BY <1>3, <2>1, <2>2
  <1>8. Chain(left, last')
    <2>1. \A i \in 1 .. Len(b.output) - 1 : Linked(b.output[i], b.output[i + 1])
      BY DEF Ordered, Chain
    <2>2. ASSUME NEW i \in 1 .. Len(left) - 1 PROVE Linked(left[i], left[i + 1])
      <3>1. n + i \in 1 .. Len(b.output) - 1 /\ left[i] = b.output[n + i]
            /\ left[i + 1] = b.output[(n + i) + 1]
        BY <1>3, <1>4
      <3> QED BY <2>1, <3>1
    <2>3. ASSUME left # <<>> PROVE Follows(last', left[1])
      <3>1. left[1] = b.output[n + 1] /\ n + 1 <= Len(b.output) /\ b.output # <<>>
        BY <1>3, <1>4, <2>3
      <3>2. CASE n = 0
        BY <1>7, <3>1, <3>2 DEF Ordered, Chain
      <3>3. CASE n > 0
        <4>1. Follows(b.output[n], b.output[n + 1])
          BY <1>3, <2>1, <3>1, <3>3 DEF Linked
        <4> QED BY <1>7, <3>1, <3>3, <4>1 DEF Follows
      <3> QED BY <1>3, <3>2, <3>3
    <2> QED BY <2>2, <2>3 DEF Chain
  <1>9. NewestFits(buffer', Newest(buffer', last'))
    <2>1. /\ Newest(buffer', last').event = Newest(b, last).event
          /\ Newest(buffer', last').phase = Newest(b, last).phase
      <3>1. CASE left # <<>>
        <4>1. left[Len(left)] = b.output[Len(b.output)] /\ b.output # <<>>
          BY <1>3, <1>4, <3>1
        <4> QED BY <1>6, <3>1, <4>1 DEF Newest, EndOf
      <3>2. CASE left = <<>>
        <4>1. n = Len(b.output)
          BY <1>3, <1>4, <3>2
        <4>2. CASE n = 0
          <5>1. b.output = <<>>
            BY <1>3, <4>1, <4>2, EmptySeq
          <5>2. buffer'.output = <<>>
            BY <1>6, <3>2
          <5>3. Newest(buffer', last') = last'
            BY <5>2 DEF Newest, EndOf
          <5>4. Newest(b, last) = last
            BY <5>1 DEF Newest, EndOf
          <5> QED BY <1>7, <4>2, <5>3, <5>4
        <4>3. CASE n > 0
          <5>1. b.output # <<>>
            BY <1>3, <4>1, <4>3
          <5> QED BY <1>6, <1>7, <3>2, <4>1, <4>3, <5>1 DEF Newest, EndOf
        <4> QED BY <1>3, <4>2, <4>3
      <3> QED BY <3>1, <3>2
    <2>2. NewestFits(b, Newest(b, last))
      BY DEF Ordered
    <2> QED BY <1>6, <2>1, <2>2 DEF NewestFits, EventOpen, Kept
  <1>10. Typed(buffer')
    <2>1. Len(left) <= OutputCapacity /\ OutputCapacity \in Nat
      BY <1>3, <1>4, BufferAssumption
    <2>2. Typed(b)
      OBVIOUS
    <2> QED BY <1>6, <2>1, <2>2 DEF Typed, EventOpen, Kept
  <1> QED BY <1>2, <1>6, <1>7, <1>8, <1>9, <1>10 DEF Ordered

LEMMA InitInv == Init => Inv
  <1> SUFFICES ASSUME Init PROVE Inv
    OBVIOUS
  <1>1. buffer \in Buffer /\ buffer.output = <<>> /\ buffer.ring = <<>>
        /\ buffer.run_phase = "IDLE" /\ buffer.event = 0
    BY BufferAssumption DEF Init, Buffer
  <1>2. Typed(buffer)
    BY <1>1, BufferAssumption DEF Typed, EventOpen
  <1>3. Ordered(buffer, last)
    BY <1>1 DEF Init, Ordered, Chain, Newest, EndOf, NewestFits, EventOpen, NoRow
  <1>4. delivered \in [Events -> Delivered]
    BY DEF Init, Delivered
  <1>5. last \in AnyRow
    BY DEF Init, AnyRow
  <1>6. now \in Time /\ running \in BOOLEAN /\ stopping \in BOOLEAN /\ alarm \in BOOLEAN
    <2>1. now \in Time
      BY BufferAssumption DEF Init, Time
    <2> QED BY <2>1 DEF Init
  <1> QED BY <1>2, <1>3, <1>4, <1>5, <1>6 DEF Inv

LEMMA NextInv == Inv /\ [Next]_vars => Inv'
  <1> SUFFICES ASSUME Inv, [Next]_vars PROVE Inv'
    OBVIOUS
  <1> USE DEF Inv
  <1>1. CASE Start
    BY <1>1 DEF Start, Typed, Ordered
  <1>2. CASE Stop
    BY <1>2 DEF Stop, Typed, Ordered
  <1>3. CASE Scan
    <2>1. PICK t \in Later(now + 1), sampled \in BOOLEAN, active \in BOOLEAN :
            LET pushed == IF sampled THEN PushSnapshot(buffer, t) ELSE buffer
                noted  == IF sampled /\ running
                          THEN NoteAlarmResult(pushed, alarm, active, t) ELSE pushed
                b      == Step(noted, t)
            IN  /\ noted.event <= MaxEvents
                /\ now' = t
                /\ alarm' = active
                /\ \E n \in 0 .. Len(b.output) : Drain(b, n)
      BY <1>3 DEF Scan
    <2> DEFINE pushed == IF sampled THEN PushSnapshot(buffer, t) ELSE buffer
               noted  == IF sampled /\ running
                         THEN NoteAlarmResult(pushed, alarm, active, t) ELSE pushed
               b      == Step(noted, t)
    <2>2. t \in Time
      BY DEF Later
    <2>3. Typed(pushed) /\ Ordered(pushed, last) /\ (sampled => pushed.ring # <<>>)
      BY <2>2, PushEffect
    <2> HIDE DEF pushed
    <2>4. noted.event <= MaxEvents /\ now' = t /\ alarm' = active
          /\ \E n \in 0 .. Len(b.output) : Drain(b, n)
      BY <2>1 DEF pushed
    <2>5. Typed(noted) /\ Ordered(noted, last)
      BY <2>2, <2>3, <2>4, NoteEffect
    <2> HIDE DEF noted
    <2>6. Typed(b) /\ Ordered(b, last)
      BY <2>2, <2>5, StepEffect
    <2> HIDE DEF b
    <2>7. /\ last' \in AnyRow /\ Typed(buffer') /\ Ordered(buffer', last')
          /\ delivered' \in [Events -> Delivered]
      BY <2>4, <2>6, DrainEffect
    <2> QED BY <1>3, <2>2, <2>4, <2>7 DEF Scan, Typed, Ordered
  <1>4. CASE FinishStopFlush
    <2>1. PICK t \in Later(now) :
            LET b == ForceClose(buffer, t)
            IN  now' = t /\ \E n \in 0 .. Len(b.output) : Drain(b, n)
      BY <1>4 DEF FinishStopFlush
    <2> DEFINE b == ForceClose(buffer, t)
    <2>2. t \in Time
      BY DEF Later
    <2>3. Typed(b) /\ Ordered(b, last)
      BY <2>2, ForceCloseEffect
    <2>4. now' = t /\ \E n \in 0 .. Len(b.output) : Drain(b, n)
      BY <2>1
    <2> HIDE DEF b
    <2>5. /\ last' \in AnyRow /\ Typed(buffer') /\ Ordered(buffer', last')
          /\ delivered' \in [Events -> Delivered]
      BY <2>3, <2>4, DrainEffect
    <2> QED BY <1>4, <2>2, <2>4, <2>5 DEF FinishStopFlush, Typed, Ordered
  <1>5. CASE UNCHANGED vars
    BY <1>5 DEF vars, Typed, Ordered
  <1> QED BY <1>1, <1>2, <1>3, <1>4, <1>5 DEF Next

LEMMA InvCorrect == Spec => []Inv
  BY InitInv, NextInv, PTL DEF Spec

(* The ring and the output queue of the acquisition task never grow past   *)
(* their capacities, whatever a round pushes, queues and drains.           *)
THEOREM TypeCorrect == Spec => []TypeOK
  <1>1. Inv => TypeOK
    BY DEF Inv, Typed, TypeOK, AnyRow
  <1> QED BY <1>1, InvCorrect, PTL

(* The rows of an event are pulled in the header's order, and those of two *)
(* events do not mix, whatever a full queue dropped, wherever the drains   *)
(* stopped and at whatever times the rounds came.                          *)
THEOREM PullOrderCorrect == Spec => []PullOrder
  <1>1. Inv => PullOrder
    BY DEF Inv, Ordered, Chain, Linked, PullOrder
  <1> QED BY <1>1, InvCorrect, PTL
-----------------------------------------------------------------------------
(* What was lost shows. An event that lost a row carries its flag in one   *)
(* of three places until it is delivered (WillShow), and the account of    *)
(* them (Accounted) is kept by every function of the buffer.               *)
Marked(b) == "INCOMPLETE" \in b.flags
Opened(b, e) == EventOpen(b) /\ b.event = e

(* The queue by event: events come in their order, nothing comes after a   *)
(* CLOSE, and no row waits of an event whose CLOSE was delivered.          *)
Sorted(b, d) ==
  /\ \A i, j \in 1 .. Len(b.output) : i < j =>
       /\ b.output[i].event <= b.output[j].event
       /\ b.output[i].phase = "CLOSE" => b.output[i].event < b.output[j].event
  /\ \A i \in 1 .. Len(b.output) :
       /\ b.output[i].event <= b.event
       /\ EventOpen(b) /\ b.output[i].phase = "CLOSE" => b.output[i].event < b.event
       /\ ~d[b.output[i].event].closed

(* Only events that have begun lose rows, and only an event that ended is  *)
(* closed.                                                                 *)
Begun(b, d) ==
  /\ \A e \in Events : d[e].closed => e <= b.event /\ (EventOpen(b) => e < b.event)
  /\ \A e \in b.lost : e <= b.event

(* How the loss of a row of e is still going to show: the open event is    *)
(* flagged; or its CLOSE row was dropped, or is queued with the flag; or   *)
(* its rows are at the head of a full queue, so that they meet the flag of *)
(* another event when they are pulled. With m = FALSE that flag is still   *)
(* to be raised.                                                           *)
WillShow(b, e, m) ==
  \/ Opened(b, e) /\ Marked(b)
  \/ /\ ~Opened(b, e)
     /\ \A i \in 1 .. Len(b.output) :
          b.output[i].event = e /\ b.output[i].phase = "CLOSE" =>
            "INCOMPLETE" \in b.output[i].flags
  \/ Len(b.output) = OutputCapacity /\ b.output[1].event = e /\ (m => Marked(b))

Shown(b, d, m) ==
  \A e \in b.lost : d[e].incomplete \/ (~d[e].closed /\ WillShow(b, e, m))

Accounted(b, d, m) == Sorted(b, d) /\ Begun(b, d) /\ Shown(b, d, m)

(* c is b with more rows of the open event at the end of the queue.        *)
RowsAdded(b, c) ==
  /\ Len(b.output) <= Len(c.output)
  /\ \A i \in 1 .. Len(b.output) : c.output[i] = b.output[i]
  /\ \A i \in Len(b.output) + 1 .. Len(c.output) : c.output[i].event = b.event

RowsGrown(b, c) ==
  /\ RowsAdded(b, c)
  /\ \A i \in Len(b.output) + 1 .. Len(c.output) : c.output[i].phase # "CLOSE"
  /\ b.flags \subseteq c.flags
  /\ c.lost \subseteq b.lost \cup {b.event}
  /\ b.event \in c.lost => b.event \in b.lost \/ Marked(c)

LEMMA QueueFields ==
  ASSUME NEW b \in Buffer
  PROVE  /\ Len(b.output) \in Nat
         /\ \A i \in 1 .. Len(b.output) :
              /\ b.output[i] \in Row /\ b.output[i].event \in Events
              /\ b.output[i].event \in Nat
  <1>1. ASSUME NEW i \in 1 .. Len(b.output) PROVE b.output[i] \in Row
    BY BufferFields
  <1> QED BY <1>1, BufferFields, RowFields DEF AnyRow

LEMMA GrownAccounted ==
  ASSUME NEW b \in Buffer, NEW c \in Buffer, NEW d, NEW m \in BOOLEAN,
         Len(c.output) <= OutputCapacity, b.event \in Events,
         EventOpen(b), EventOpen(c), c.event = b.event,
         RowsGrown(b, c), Accounted(b, d, m)
  PROVE  Accounted(c, d, m)
  <1>1. /\ Len(b.output) \in Nat /\ Len(c.output) \in Nat /\ b.event \in Nat
        /\ OutputCapacity \in Nat
    BY BufferFields, BufferAssumption DEF Events
  <1>2. ASSUME NEW i \in 1 .. Len(c.output)
        PROVE  \/ i \in 1 .. Len(b.output) /\ c.output[i] = b.output[i]
               \/ i > Len(b.output) /\ c.output[i].event = b.event /\ c.output[i].phase # "CLOSE"
    BY <1>1 DEF RowsGrown, RowsAdded
  <1>3. Sorted(c, d)
    <2>1. ASSUME NEW i \in 1 .. Len(c.output)
          PROVE  /\ c.output[i].event <= c.event
                 /\ c.output[i].phase = "CLOSE" => c.output[i].event < c.event
                 /\ ~d[c.output[i].event].closed
      BY <1>1, <1>2 DEF Accounted, Sorted, Begun
    <2>2. ASSUME NEW i \in 1 .. Len(c.output), NEW j \in 1 .. Len(c.output), i < j
          PROVE  /\ c.output[i].event <= c.output[j].event
                 /\ c.output[i].phase = "CLOSE" => c.output[i].event < c.output[j].event
      <3>1. CASE j \in 1 .. Len(b.output)
        <4>1. i \in 1 .. Len(b.output) /\ c.output[i] = b.output[i] /\ c.output[j] = b.output[j]
          BY <1>1, <1>2, <2>2, <3>1
        <4> QED BY <2>2, <3>1, <4>1 DEF Accounted, Sorted
      <3>2. CASE j > Len(b.output)
        <4>1. c.output[j].event = c.event
          BY <1>1, <1>2, <3>2
        <4> QED BY <2>1, <4>1
      <3> QED BY <1>1, <3>1, <3>2
    <2> QED BY <2>1, <2>2 DEF Sorted
  <1>4. Begun(c, d)
    BY <1>1 DEF Accounted, Begun, RowsGrown
  <1>5. ASSUME NEW e \in c.lost, ~d[e].incomplete PROVE ~d[e].closed /\ WillShow(c, e, m)
    <2>1. CASE e = b.event
      <3>1. ~d[e].closed
        BY <1>1, <2>1 DEF Accounted, Begun
      <3>2. CASE Marked(c)
        BY <2>1, <3>1, <3>2 DEF WillShow, Opened
      <3>3. CASE e \in b.lost
        <4>1. WillShow(b, e, m)
          BY <1>5, <3>3 DEF Accounted, Shown
        <4>2. CASE Marked(b)
          BY <3>2, <4>2, <3>1 DEF RowsGrown, Marked
        <4>3. CASE ~Marked(b)
          <5>1. Len(b.output) = OutputCapacity /\ b.output[1].event = e /\ ~m
            BY <2>1, <4>1, <4>3 DEF WillShow, Opened
          <5>2. Len(c.output) = OutputCapacity /\ c.output[1] = b.output[1]
            <6>1. 1 \in 1 .. Len(b.output)
              BY <1>1, <5>1, BufferAssumption
            <6> QED BY <1>1, <5>1, <6>1 DEF RowsGrown, RowsAdded
          <5> QED BY <3>1, <5>1, <5>2 DEF WillShow
        <4> QED BY <4>2, <4>3
      <3> QED BY <1>5, <2>1, <3>2, <3>3 DEF RowsGrown
    <2>2. CASE e # b.event
      <3>1. e \in b.lost
        BY <2>2 DEF RowsGrown
      <3>2. ~d[e].closed /\ WillShow(b, e, m)
        BY <1>5, <3>1 DEF Accounted, Shown
      <3>3. CASE Len(b.output) = OutputCapacity /\ b.output[1].event = e /\ (m => Marked(b))
        <4>1. 1 \in 1 .. Len(b.output)
          BY <1>1, <3>3, BufferAssumption
        <4>2. Len(c.output) = OutputCapacity /\ c.output[1] = b.output[1]
          BY <1>1, <3>3, <4>1 DEF RowsGrown, RowsAdded
        <4> QED BY <3>2, <3>3, <4>2 DEF WillShow, RowsGrown, Marked
      <3>4. CASE \A i \in 1 .. Len(b.output) :
                   b.output[i].event = e /\ b.output[i].phase = "CLOSE" =>
                     "INCOMPLETE" \in b.output[i].flags
        <4>1. ASSUME NEW i \in 1 .. Len(c.output), c.output[i].event = e
              PROVE  i \in 1 .. Len(b.output) /\ c.output[i] = b.output[i]
          BY <1>2, <2>2, <4>1
        <4> QED BY <2>2, <3>2, <3>4, <4>1 DEF WillShow, Opened
      <3> QED BY <2>2, <3>2, <3>3, <3>4 DEF WillShow, Opened
    <2> QED BY <2>1, <2>2
  <1> QED BY <1>3, <1>4, <1>5 DEF Accounted, Shown

(* In a full queue the oldest row makes room for a TRIGGER or a CLOSE: its *)
(* event has rows left at the head, or has no CLOSE row any more.          *)
DroppedFor(b, c, f) ==
  /\ Len(b.output) = OutputCapacity /\ Len(c.output) = OutputCapacity
  /\ \A i \in 1 .. OutputCapacity - 1 : c.output[i] = b.output[i + 1]
  /\ c.output[OutputCapacity] = f
  /\ Marked(c)
  /\ c.lost = b.lost \cup {b.output[1].event}

EndsWith(c, f) ==
  \/ EventOpen(c) /\ f.phase # "CLOSE"
  \/ ~EventOpen(c) /\ f.phase = "CLOSE" /\ (Marked(c) => "INCOMPLETE" \in f.flags)

LEMMA DroppedAccounted ==
  ASSUME NEW b \in Buffer, NEW c \in Buffer, NEW d, NEW f \in Row,
         b.event \in Events, EventOpen(b), c.event = b.event, f.event = b.event,
         DroppedFor(b, c, f), EndsWith(c, f), Accounted(b, d, FALSE)
  PROVE  Accounted(c, d, TRUE)
  <1> DEFINE N == OutputCapacity
             h == b.output[1].event
  <1>1. /\ N \in Nat /\ N >= 2 /\ b.event \in Nat
        /\ Len(b.output) = N /\ Len(c.output) = N /\ 1 \in 1 .. N /\ 2 \in 1 .. N
        /\ h \in Events /\ h \in Nat /\ c.output[1] = b.output[2] /\ b.output[2].event \in Nat
    <2>1. /\ N \in Nat /\ N >= 2 /\ b.event \in Nat /\ Len(b.output) = N /\ Len(c.output) = N
      BY BufferAssumption DEF Events, DroppedFor
    <2>2. 1 \in 1 .. N /\ 2 \in 1 .. N /\ 1 \in 1 .. N - 1
      BY <2>1
    <2> QED BY <2>1, <2>2, QueueFields DEF DroppedFor
  <1>2. ASSUME NEW i \in 1 .. N
        PROVE  \/ i + 1 \in 1 .. N /\ i \in 1 .. N - 1 /\ c.output[i] = b.output[i + 1]
               \/ i = N /\ c.output[i] = f
    BY <1>1 DEF DroppedFor
  <1>3. Sorted(c, d)
    <2>1. ASSUME NEW i \in 1 .. N
          PROVE  /\ c.output[i].event <= c.event
                 /\ EventOpen(c) /\ c.output[i].phase = "CLOSE" => c.output[i].event < c.event
                 /\ ~d[c.output[i].event].closed
      <3>1. CASE i + 1 \in 1 .. N /\ c.output[i] = b.output[i + 1]
        BY <1>1, <3>1 DEF Accounted, Sorted
      <3>2. CASE c.output[i] = f
        BY <1>1, <3>2 DEF Accounted, Begun, EndsWith
      <3> QED BY <1>2, <3>1, <3>2
    <2>2. ASSUME NEW i \in 1 .. N, NEW j \in 1 .. N, i < j
          PROVE  /\ c.output[i].event <= c.output[j].event
                 /\ c.output[i].phase = "CLOSE" => c.output[i].event < c.output[j].event
      <3>1. i + 1 \in 1 .. N /\ c.output[i] = b.output[i + 1]
        BY <1>1, <1>2, <2>2
      <3>2. CASE j + 1 \in 1 .. N /\ c.output[j] = b.output[j + 1]
        BY <1>1, <2>2, <3>1, <3>2 DEF Accounted, Sorted
      <3>3. CASE c.output[j] = f
        BY <1>1, <3>1, <3>3 DEF Accounted, Sorted
      <3> QED BY <1>2, <3>2, <3>3
    <2> QED BY <1>1, <2>1, <2>2 DEF Sorted
  <1>4. Begun(c, d)
    <2>1. h <= b.event
      BY <1>1 DEF Accounted, Sorted
    <2> QED BY <2>1 DEF Accounted, Begun, DroppedFor
  <1>5. ASSUME NEW e \in c.lost, ~d[e].incomplete PROVE ~d[e].closed /\ WillShow(c, e, TRUE)
    <2>1. CASE e = h
      <3>1. ~d[e].closed
        BY <1>1, <2>1 DEF Accounted, Sorted
      <3>2. CASE c.output[1].event = e
        BY <1>1, <3>1, <3>2 DEF WillShow, DroppedFor
      <3>3. CASE c.output[1].event # e
        <4>1. b.output[2].event > e
          BY <1>1, <2>1, <3>3 DEF Accounted, Sorted
        <4>2. ASSUME NEW j \in 2 .. N PROVE b.output[j].event > e
          <5>1. j \in 1 .. N /\ b.output[j].event \in Nat
            BY <1>1, QueueFields
          <5>2. CASE j = 2
            BY <4>1, <5>2
          <5>3. CASE 2 < j
            <6>1. b.output[2].event <= b.output[j].event
              BY <1>1, <5>1, <5>3 DEF Accounted, Sorted
            <6> QED BY <1>1, <2>1, <4>1, <5>1, <6>1
          <5> QED BY <5>1, <5>2, <5>3
        <4>3. b.event > e
          <5>1. b.output[2].event <= b.event
            BY <1>1 DEF Accounted, Sorted
          <5> QED BY <1>1, <2>1, <4>1, <5>1
        <4>4. ASSUME NEW i \in 1 .. N PROVE c.output[i].event # e
          <5>1. CASE i + 1 \in 1 .. N /\ i \in 1 .. N - 1 /\ c.output[i] = b.output[i + 1]
            <6>1. i + 1 \in 2 .. N
              BY <1>1, <5>1
            <6>2. b.output[i + 1].event > e
              BY <4>2, <6>1
            <6>3. e \in Nat /\ b.output[i + 1].event \in Nat
              BY <1>1, <2>1, <5>1, QueueFields
            <6> QED BY <5>1, <6>2, <6>3
          <5>2. CASE c.output[i] = f
            BY <1>1, <2>1, <4>3, <5>2
          <5> QED BY <1>2, <5>1, <5>2
        <4> QED BY <1>1, <2>1, <3>1, <4>3, <4>4 DEF WillShow, Opened
      <3> QED BY <3>2, <3>3
    <2>2. CASE e # h
      <3>1. e \in b.lost
        BY <2>2 DEF DroppedFor
      <3>2. ~d[e].closed /\ WillShow(b, e, FALSE)
        BY <1>5, <3>1 DEF Accounted, Shown
      <3>3. ASSUME NEW i \in 1 .. N, c.output[i].event = e, c.output[i].phase = "CLOSE"
            PROVE  "INCOMPLETE" \in c.output[i].flags
        <4>1. CASE i + 1 \in 1 .. N /\ c.output[i] = b.output[i + 1]
          <5>1. e < b.event
            BY <1>1, <3>3, <4>1 DEF Accounted, Sorted
          <5>2. e # b.event
            <6>1. e \in Nat
              BY <1>1, <3>3, <4>1, QueueFields
            <6> QED BY <1>1, <5>1, <6>1
          <5> QED BY <1>1, <2>2, <3>2, <3>3, <4>1, <5>2 DEF WillShow, Opened
        <4>2. CASE c.output[i] = f
          BY <3>3, <4>2 DEF EndsWith, DroppedFor
        <4> QED BY <1>2, <4>1, <4>2
      <3> QED BY <1>1, <3>2, <3>3 DEF WillShow, Opened, DroppedFor
    <2> QED BY <2>1, <2>2
  <1> QED BY <1>3, <1>4, <1>5 DEF Accounted, Shown

(* The CLOSE row of an event finds room.                                   *)
LEMMA ClosedAccounted ==
  ASSUME NEW b \in Buffer, NEW c \in Buffer, NEW d, NEW f \in Row, NEW m \in BOOLEAN,
         b.event \in Events, EventOpen(b), c.event = b.event, f.event = b.event,
         Len(b.output) < OutputCapacity, Len(c.output) = Len(b.output) + 1,
         \A i \in 1 .. Len(b.output) : c.output[i] = b.output[i],
         c.output[Len(c.output)] = f,
         f.phase = "CLOSE", ~EventOpen(c), Marked(b) => "INCOMPLETE" \in f.flags,
         c.lost = b.lost, Accounted(b, d, m)
  PROVE  Accounted(c, d, TRUE)
  <1>1. /\ Len(b.output) \in Nat /\ b.event \in Nat /\ OutputCapacity \in Nat
    BY BufferFields, BufferAssumption DEF Events
  <1>2. ASSUME NEW i \in 1 .. Len(c.output)
        PROVE  \/ i \in 1 .. Len(b.output) /\ c.output[i] = b.output[i]
               \/ i = Len(c.output) /\ c.output[i] = f
    BY <1>1
  <1>3. Sorted(c, d)
    <2>1. ASSUME NEW i \in 1 .. Len(c.output)
          PROVE  c.output[i].event <= c.event /\ ~d[c.output[i].event].closed
      BY <1>1, <1>2 DEF Accounted, Sorted, Begun
    <2>2. ASSUME NEW i \in 1 .. Len(c.output), NEW j \in 1 .. Len(c.output), i < j
          PROVE  /\ c.output[i].event <= c.output[j].event
                 /\ c.output[i].phase = "CLOSE" => c.output[i].event < c.output[j].event
      <3>1. i \in 1 .. Len(b.output) /\ c.output[i] = b.output[i]
        BY <1>1, <1>2, <2>2
      <3>2. CASE j \in 1 .. Len(b.output) /\ c.output[j] = b.output[j]
        BY <2>2, <3>1, <3>2 DEF Accounted, Sorted
      <3>3. CASE c.output[j] = f
        BY <3>1, <3>3 DEF Accounted, Sorted
      <3> QED BY <1>2, <3>2, <3>3
    <2> QED BY <2>1, <2>2 DEF Sorted
  <1>4. Begun(c, d)
    BY <1>1 DEF Accounted, Begun
  <1>5. ASSUME NEW e \in c.lost, ~d[e].incomplete PROVE ~d[e].closed /\ WillShow(c, e, TRUE)
    <2>1. ~d[e].closed /\ WillShow(b, e, m)
      BY <1>5 DEF Accounted, Shown
    <2>2. ASSUME NEW i \in 1 .. Len(c.output), c.output[i].event = e, c.output[i].phase = "CLOSE"
          PROVE  "INCOMPLETE" \in c.output[i].flags
      <3>1. CASE i \in 1 .. Len(b.output) /\ c.output[i] = b.output[i]
        <4>1. e < b.event /\ e \in Nat
          BY <2>2, <3>1, QueueFields DEF Accounted, Sorted
        <4> QED BY <1>1, <2>1, <2>2, <3>1, <4>1 DEF WillShow, Opened
      <3>2. CASE c.output[i] = f
        BY <1>1, <2>1, <2>2, <3>2 DEF WillShow, Opened
      <3> QED BY <1>2, <3>1, <3>2
    <2> QED BY <2>1, <2>2 DEF WillShow, Opened
  <1> QED BY <1>3, <1>4, <1>5 DEF Accounted, Shown
-----------------------------------------------------------------------------
(* Where a row goes and which marks it leaves.                             *)
LEMMA QueueRecordForm ==
  ASSUME NEW b \in Buffer, NEW r \in Row, Len(b.output) <= OutputCapacity
  PROVE  LET c == QueueRecord(b, r)
             f == [r EXCEPT !.flags = @ \cup b.flags]
         IN  /\ Kept(b, c) /\ c.lost = b.lost
             /\ f \in Row /\ f.event = r.event /\ f.phase = r.phase /\ f.time = r.time
             /\ f.flags = r.flags \cup b.flags
             /\ \/ /\ OutputRoom(b) > 0 /\ c.output = Append(b.output, f) /\ c.flags = b.flags
                \/ /\ OutputRoom(b) = 0 /\ c.output = b.output
                   /\ c.flags = b.flags \cup {"INCOMPLETE"}
  <1> DEFINE c == QueueRecord(b, r)
             f == [r EXCEPT !.flags = @ \cup b.flags]
  <1>1. /\ f \in Row /\ f.event = r.event /\ f.phase = r.phase /\ f.time = r.time
        /\ f.flags = r.flags \cup b.flags
    BY BufferFields DEF Row
  <1>2. OutputRoom(b) \in Nat
    BY RoomLeft
  <1> HIDE DEF f
  <1>3. CASE OutputRoom(b) > 0
    <2>1. c = [b EXCEPT !.output = Append(@, f)]
      BY <1>3 DEF QueueRecord, f
    <2>2. Append(b.output, f) \in Seq(Row)
      BY <1>1, BufferFields
    <2>3. Kept(b, c) /\ c.output = Append(b.output, f) /\ c.flags = b.flags /\ c.lost = b.lost
      BY <2>1, <2>2 DEF Kept, Buffer
    <2> QED BY <1>1, <1>3, <2>3 DEF f
  <1>4. CASE OutputRoom(b) = 0
    <2>1. c = Flagged(b, {"INCOMPLETE"})
      BY <1>4 DEF QueueRecord
    <2>2. c.lost = b.lost
      BY <2>1 DEF Flagged, Buffer
    <2> QED BY <1>1, <1>4, <2>1, <2>2, FlaggedKept DEF Flag, f
  <1> QED BY <1>2, <1>3, <1>4

(* The oldest row makes room.                                              *)
LEMMA ForcedForm ==
  ASSUME NEW b \in Buffer, NEW r \in Row, Len(b.output) <= OutputCapacity, OutputRoom(b) = 0
  PROVE  LET c == QueueRecordForce(b, r)
         IN  /\ Kept(b, c)
             /\ \E f \in Row :
                  /\ f.event = r.event /\ f.phase = r.phase /\ "INCOMPLETE" \in f.flags
                  /\ DroppedFor(b, c, f)
  <1> DEFINE m == Flagged(Lose(b, Head(b.output).event), {"INCOMPLETE"})
             d == [m EXCEPT !.output = Tail(@)]
             c == QueueRecordForce(b, r)
             f == [r EXCEPT !.flags = @ \cup d.flags]
  <1>1. /\ OutputCapacity \in Nat /\ OutputCapacity >= 2 /\ Len(b.output) = OutputCapacity
        /\ b.output \in Seq(Row) /\ b.output # <<>>
    BY RoomLeft, BufferFields
  <1>2. /\ Head(b.output) = b.output[1] /\ b.output[1] \in Row /\ b.output[1].event \in Events
        /\ Tail(b.output) \in Seq(Row) /\ Len(Tail(b.output)) = OutputCapacity - 1
        /\ \A i \in 1 .. OutputCapacity - 1 : Tail(b.output)[i] = b.output[i + 1]
    <2>1. 1 \in 1 .. Len(b.output)
      BY <1>1
    <2> QED BY <1>1, <2>1, QueueFields
  <1>3. /\ Kept(b, m) /\ m.flags = b.flags \cup {"INCOMPLETE"} /\ m.output = b.output
        /\ m.lost = b.lost \cup {b.output[1].event}
    <2>1. /\ Kept(b, Lose(b, b.output[1].event)) /\ Lose(b, b.output[1].event).output = b.output
          /\ Lose(b, b.output[1].event).flags = b.flags
          /\ Lose(b, b.output[1].event).lost = b.lost \cup {b.output[1].event}
      BY <1>2, LoseKept DEF Lose, Buffer
    <2> DEFINE k == Lose(b, b.output[1].event)
    <2>2. Flagged(k, {"INCOMPLETE"}).lost = k.lost
      BY <2>1 DEF Flagged, Kept, Buffer
    <2> HIDE DEF k
    <2>3. m = Flagged(k, {"INCOMPLETE"})
      BY <1>2 DEF k
    <2> QED BY <2>1, <2>2, <2>3, FlaggedKept DEF k, Kept, Flag
  <1>4. c = QueueRecord(d, r)
    BY <1>1 DEF QueueRecordForce, OutputRoom
  <1> HIDE DEF m, c
  <1>5. /\ Kept(b, d) /\ d.output = Tail(b.output) /\ d.flags = b.flags \cup {"INCOMPLETE"}
        /\ d.lost = b.lost \cup {b.output[1].event}
    BY <1>2, <1>3 DEF Kept, Buffer
  <1> HIDE DEF d
  <1>6. OutputRoom(d) > 0 /\ Len(d.output) <= OutputCapacity /\ d \in Buffer
    BY <1>1, <1>2, <1>5 DEF OutputRoom, Kept
  <1>7. /\ Kept(d, c) /\ c.lost = d.lost /\ f \in Row /\ f.event = r.event /\ f.phase = r.phase
        /\ f.flags = r.flags \cup d.flags /\ c.output = Append(d.output, f) /\ c.flags = d.flags
    BY <1>4, <1>6, QueueRecordForm
  <1> HIDE DEF f
  <1>8. /\ Len(c.output) = OutputCapacity /\ c.output[OutputCapacity] = f
        /\ \A i \in 1 .. OutputCapacity - 1 : c.output[i] = b.output[i + 1]
    <2>1. /\ Len(c.output) = Len(d.output) + 1 /\ c.output[Len(d.output) + 1] = f
          /\ \A i \in 1 .. Len(d.output) : c.output[i] = d.output[i]
      BY <1>2, <1>5, <1>7
    <2>2. Len(d.output) = OutputCapacity - 1
      BY <1>2, <1>5
    <2> QED BY <1>1, <1>2, <1>5, <2>1, <2>2
  <1>9. DroppedFor(b, c, f) /\ "INCOMPLETE" \in f.flags
    BY <1>1, <1>5, <1>7, <1>8 DEF DroppedFor, Marked
  <1>10. Kept(b, c)
    BY <1>5, <1>7 DEF Kept
  <1> QED BY <1>7, <1>9, <1>10 DEF c

(* The ticks that are due are the first ones.                              *)
LEMMA FirstOnes ==
  ASSUME NEW M \in Nat, NEW S \in SUBSET (0 .. M), \A i \in S : \A j \in 0 .. i : j \in S
  PROVE  /\ Cardinality(S) \in 0 .. M + 1 /\ Cardinality(S) \notin S
         /\ \A i \in 0 .. M : i < Cardinality(S) => i \in S
  <1>1. CASE S = {}
    BY <1>1, FS_EmptySet
  <1>2. CASE S # {}
    <2>1. PICK g \in S : \A j \in S : j <= g
      BY <1>2, NewestIndex
    <2>2. S = 0 .. g /\ g \in 0 .. M
      <3>1. g \in 0 .. M /\ 0 .. g \subseteq S
        BY <2>1
      <3>2. \A j \in S : j \in 0 .. g
        BY <2>1, <3>1
      <3> QED BY <3>1, <3>2
    <2>3. Cardinality(0 .. g) = g + 1
      BY <2>2, FS_Interval
    <2> QED BY <2>2, <2>3
  <1> QED BY <1>1, <1>2

LEMMA JoinedRows ==
  ASSUME NEW s \in Seq(Row), NEW more \in Seq(Row)
  PROVE  /\ s \o more \in Seq(Row) /\ Len(s \o more) = Len(s) + Len(more)
         /\ \A i \in 1 .. Len(s) : (s \o more)[i] = s[i]
         /\ \A i \in Len(s) + 1 .. Len(s \o more) : (s \o more)[i] = more[i - Len(s)]
  OBVIOUS

(* The deadline of the row that emitting puts at place i of the queue      *)
Deadline(b, i) == b.next + (i - Len(b.output) - 1) * Period

(* After a round every tick that is due has its row, or the event is       *)
(* flagged.                                                                *)
LEMMA EmitForm ==
  ASSUME NEW b, Typed(b), EventOpen(b), NEW limit \in Time
  PROVE  LET c == EmitActiveOrPost(b, limit)
         IN  /\ RowsGrown(b, c) /\ c.lost = b.lost
             /\ \/ Marked(c)
                \/ c.next > limit
                \/ b.run_phase = "POST" /\ c.next >= b.post_end
             /\ c.ring = b.ring
             /\ \A i \in Len(b.output) + 1 .. Len(c.output) :
                  /\ Deadline(b, i) \in Nat /\ Deadline(b, i) <= limit
                  /\ c.output[i].time = SelectSample(b, Deadline(b, i))
  <1> DEFINE due == {i \in 0 .. MaxTime :
                      /\ b.next + i * Period <= limit
                      /\ b.run_phase = "POST" => b.next + i * Period < b.post_end}
             k == Cardinality(due)
             n == SmallerOf(k, OutputRoom(b))
             row(i) == EventRow(b, b.run_phase, SelectSample(b, b.next + (i - 1) * Period))
             more == [i \in 1 .. n |-> row(i)]
             marks == IF n < k THEN b.flags \cup {"INCOMPLETE"} ELSE b.flags
             nx == b.next + n * Period
             c == EmitActiveOrPost(b, limit)
  <1>1. c = [b EXCEPT !.output = b.output \o more, !.next = nx, !.flags = marks]
    BY DEF EmitActiveOrPost
  <1>2. /\ b \in Buffer /\ b.event \in Events /\ b.run_phase \in {"ACTIVE", "POST"}
        /\ Len(b.output) \in Nat /\ Len(b.output) <= OutputCapacity /\ b.output \in Seq(Row)
        /\ b.next \in Nat /\ b.post_end \in Nat /\ Period \in Nat \ {0} /\ MaxTime \in Nat
        /\ limit \in 0 .. MaxTime
    BY BufferFields, BufferAssumption DEF Typed, EventOpen, Time
  <1>3. /\ k \in 0 .. MaxTime + 1 /\ k \notin due
        /\ \A i \in 0 .. MaxTime : i < k => i \in due
    <2>1. ASSUME NEW i \in due, NEW j \in 0 .. i PROVE j \in due
      <3>1. i \in Nat /\ j \in Nat /\ j <= i
        BY <1>2
      <3>2. j * Period \in Nat /\ i * Period \in Nat /\ j * Period <= i * Period
        BY <1>2, <3>1
      <3> QED BY <1>2, <3>1, <3>2
    <2>2. due \in SUBSET (0 .. MaxTime)
      OBVIOUS
    <2> HIDE DEF due
    <2> QED BY <1>2, <2>1, <2>2, FirstOnes
  <1>4. OutputRoom(b) \in Nat
    BY <1>2, RoomLeft
  <1>5. n \in Nat /\ n <= k
    <2> HIDE DEF due
    <2> QED BY <1>3, <1>4 DEF SmallerOf
  <1>6. ASSUME NEW i \in 1 .. n
        PROVE  /\ more[i].event = b.event /\ more[i].phase = b.run_phase
               /\ more[i].time = SelectSample(b, b.next + (i - 1) * Period)
               /\ b.next + (i - 1) * Period \in Nat /\ b.next + (i - 1) * Period <= limit
    <2>1. more[i] = row(i)
      OBVIOUS
    <2>2. i - 1 \in 0 .. MaxTime /\ i - 1 < k
      <3> HIDE DEF due, k, n
      <3> QED BY <1>2, <1>3, <1>5
    <2>3. i - 1 \in due
      BY <1>3, <2>2
    <2>4. b.next + (i - 1) * Period <= limit
      BY <2>3
    <2>5. (i - 1) * Period \in Nat
      BY <1>2, <2>2
    <2> QED BY <1>2, <2>1, <2>4, <2>5 DEF EventRow
  <1>7. n = k => nx > limit \/ (b.run_phase = "POST" /\ nx >= b.post_end)
    <2>1. CASE k \in 0 .. MaxTime
      <3>1. n = k => n * Period \in Nat
        BY <1>2, <2>1
      <3> QED BY <1>2, <1>3, <2>1, <3>1
    <2>2. CASE k = MaxTime + 1
      <3> HIDE DEF due, k
      <3>1. (MaxTime + 1) * Period >= MaxTime + 1
        BY <1>2
      <3>2. n = k => n * Period >= MaxTime + 1 /\ n * Period \in Nat
        BY <1>2, <2>2, <3>1
      <3> QED BY <1>2, <3>2
    <2>3. k \in 0 .. MaxTime \/ k = MaxTime + 1
      <3> HIDE DEF k
      <3> QED BY <1>2, <1>3
    <2> QED BY <2>1, <2>2, <2>3
  <1> HIDE DEF due, k, n
  <1>8. more \in Seq(Row) /\ Len(more) = n
    <2>1. ASSUME NEW i \in 1 .. n PROVE row(i) \in Row
      <3>1. b.next + (i - 1) * Period \in Int /\ b.ring # <<>>
        BY <1>2, <1>5 DEF Typed
      <3>2. SelectSample(b, b.next + (i - 1) * Period) \in Time /\ b.run_phase \in Phase
        BY <1>2, <3>1, SelectSampleTyped DEF Phase
      <3> QED BY <1>2, <3>2, EventRowTyped
    <2> HIDE DEF row
    <2>2. more \in [1 .. n -> Row]
      BY <2>1
    <2> HIDE DEF more
    <2> QED BY <1>5, <2>2
  <1> HIDE DEF more, marks, nx, c
  <1>9. c.output = b.output \o more /\ c.next = nx /\ c.flags = marks /\ c.lost = b.lost
        /\ c.ring = b.ring
    BY <1>1, <1>2 DEF Buffer
  <1>10. /\ Len(c.output) = Len(b.output) + n
         /\ \A i \in 1 .. Len(b.output) : c.output[i] = b.output[i]
         /\ \A i \in Len(b.output) + 1 .. Len(c.output) : c.output[i] = more[i - Len(b.output)]
    <2> DEFINE out == b.output \o more
    <2>1. /\ Len(out) = Len(b.output) + Len(more)
          /\ \A i \in 1 .. Len(b.output) : out[i] = b.output[i]
          /\ \A i \in Len(b.output) + 1 .. Len(out) : out[i] = more[i - Len(b.output)]
      BY <1>2, <1>8, JoinedRows
    <2>2. c.output = out
      BY <1>9
    <2> HIDE DEF out
    <2> QED BY <1>8, <2>1, <2>2
  <1>11. ASSUME NEW i \in Len(b.output) + 1 .. Len(c.output)
         PROVE  /\ c.output[i].event = b.event /\ c.output[i].phase # "CLOSE"
                /\ Deadline(b, i) \in Nat /\ Deadline(b, i) <= limit
                /\ c.output[i].time = SelectSample(b, Deadline(b, i))
    <2> DEFINE k1 == i - Len(b.output)
    <2>1. k1 \in 1 .. n /\ c.output[i] = more[k1]
      BY <1>2, <1>5, <1>10
    <2>2. Deadline(b, i) = b.next + (k1 - 1) * Period
      BY DEF Deadline
    <2> HIDE DEF k1
    <2> QED BY <1>2, <1>6, <2>1, <2>2
  <1>12. RowsGrown(b, c)
    BY <1>2, <1>5, <1>9, <1>10, <1>11 DEF RowsGrown, RowsAdded, marks
  <1>13. Marked(c) \/ n = k
    BY <1>3, <1>5, <1>9 DEF Marked, marks
  <1> QED BY <1>7, <1>9, <1>11, <1>12, <1>13 DEF c
-----------------------------------------------------------------------------
(* The functions of the buffer keep the account of what was lost.          *)
LEMMA NoLooseHead ==
  ASSUME NEW b \in Buffer, NEW d, NEW m \in BOOLEAN,
         Len(b.output) # OutputCapacity \/ Marked(b), Accounted(b, d, m)
  PROVE  Accounted(b, d, TRUE)
  BY DEF Accounted, Shown, WillShow

(* One more row of the open event, or a mark.                              *)
LEMMA QueueGrows ==
  ASSUME NEW b \in Buffer, NEW r \in Row, Len(b.output) <= OutputCapacity,
         r.event = b.event, r.phase # "CLOSE"
  PROVE  LET c == QueueRecord(b, r)
         IN  /\ Kept(b, c) /\ RowsGrown(b, c) /\ c.lost = b.lost
             /\ OutputRoom(b) = 0 => Marked(c)
             /\ Len(c.output) <= OutputCapacity
             /\ \A i \in Len(b.output) + 1 .. Len(c.output) : c.output[i].time = r.time
             /\ Len(c.output) <= Len(b.output) + 1
  <1> DEFINE c == QueueRecord(b, r)
             f == [r EXCEPT !.flags = @ \cup b.flags]
  <1>1. /\ Kept(b, c) /\ c.lost = b.lost
        /\ f \in Row /\ f.event = r.event /\ f.phase = r.phase /\ f.time = r.time
        /\ \/ /\ OutputRoom(b) > 0 /\ c.output = Append(b.output, f) /\ c.flags = b.flags
           \/ /\ OutputRoom(b) = 0 /\ c.output = b.output
              /\ c.flags = b.flags \cup {"INCOMPLETE"}
    BY QueueRecordForm
  <1> HIDE DEF f, c
  <1>2. Len(b.output) \in Nat /\ b.output \in Seq(Row) /\ OutputCapacity \in Nat
    BY BufferFields, BufferAssumption
  <1>3. /\ RowsGrown(b, c) /\ Len(c.output) <= OutputCapacity /\ (OutputRoom(b) = 0 => Marked(c))
        /\ \A i \in Len(b.output) + 1 .. Len(c.output) : c.output[i].time = r.time
        /\ Len(c.output) <= Len(b.output) + 1
    <2>1. CASE OutputRoom(b) > 0
      <3> DEFINE out == Append(b.output, f)
      <3>1. /\ Len(out) = Len(b.output) + 1 /\ out[Len(b.output) + 1] = f
            /\ \A i \in 1 .. Len(b.output) : out[i] = b.output[i]
        BY <1>1, <1>2
      <3> HIDE DEF out
      <3>2. c.output = out /\ c.flags = b.flags /\ Len(b.output) < OutputCapacity
        BY <1>1, <1>2, <2>1 DEF out, OutputRoom
      <3>3. \A i \in Len(b.output) + 1 .. Len(c.output) : c.output[i] = f
        BY <1>2, <3>1, <3>2
      <3> QED BY <1>1, <1>2, <2>1, <3>1, <3>2, <3>3 DEF RowsGrown, RowsAdded
    <2>2. CASE ~(OutputRoom(b) > 0)
      BY <1>1, <1>2, <2>2 DEF RowsGrown, RowsAdded, Marked
    <2> QED BY <2>1, <2>2
  <1> QED BY <1>1, <1>3 DEF c

LEMMA QueueAccounted ==
  ASSUME NEW b \in Buffer, NEW d, NEW m \in BOOLEAN, NEW r \in Row,
         Len(b.output) <= OutputCapacity, b.event \in Events, EventOpen(b),
         r.event = b.event, r.phase # "CLOSE", Accounted(b, d, m)
  PROVE  Accounted(QueueRecord(b, r), d, m)
  <1> DEFINE c == QueueRecord(b, r)
  <1>1. Kept(b, c) /\ RowsGrown(b, c) /\ Len(c.output) <= OutputCapacity
    BY QueueGrows
  <1> HIDE DEF c
  <1>2. c \in Buffer /\ c.event = b.event /\ EventOpen(c)
    BY <1>1 DEF Kept, EventOpen
  <1>3. Accounted(c, d, m)
    BY <1>1, <1>2, GrownAccounted
  <1> QED BY <1>3 DEF c

LEMMA TriggerAccounted ==
  ASSUME NEW b \in Buffer, NEW d, NEW r \in Row,
         Len(b.output) <= OutputCapacity, b.event \in Events, EventOpen(b),
         r.event = b.event, r.phase = "TRIGGER", Accounted(b, d, FALSE)
  PROVE  Accounted(QueueRecordForce(b, r), d, TRUE)
  <1>1. OutputRoom(b) \in Nat
    BY RoomLeft
  <1>2. CASE OutputRoom(b) > 0
    <2>1. Len(b.output) # OutputCapacity
      BY <1>2, BufferFields, BufferAssumption DEF OutputRoom
    <2>2. Accounted(b, d, TRUE)
      BY <2>1, NoLooseHead
    <2> QED BY <1>2, <2>2, QueueAccounted DEF QueueRecordForce
  <1>3. CASE OutputRoom(b) = 0
    <2> DEFINE c == QueueRecordForce(b, r)
    <2>1. PICK f \in Row : /\ f.event = r.event /\ f.phase = r.phase
                           /\ "INCOMPLETE" \in f.flags /\ DroppedFor(b, c, f)
      BY <1>3, ForcedForm
    <2>2. Kept(b, c)
      BY <1>3, ForcedForm
    <2> HIDE DEF c
    <2>3. c \in Buffer /\ c.event = b.event /\ EventOpen(c) /\ EndsWith(c, f)
      BY <2>1, <2>2 DEF Kept, EventOpen, EndsWith
    <2>4. Accounted(c, d, TRUE)
      BY <2>1, <2>3, DroppedAccounted
    <2> QED BY <2>4 DEF c
  <1>4. OutputRoom(b) > 0 \/ OutputRoom(b) = 0
    BY <1>1
  <1> QED BY <1>2, <1>3, <1>4

LEMMA LastRowAccounted ==
  ASSUME NEW b \in Buffer, NEW d, NEW r \in Row,
         Len(b.output) <= OutputCapacity, b.event \in Events, EventOpen(b),
         r.event = b.event, r.phase = "CLOSE", Marked(b) => "INCOMPLETE" \in r.flags,
         Accounted(b, d, TRUE)
  PROVE  Accounted([QueueRecordForce(b, r) EXCEPT !.run_phase = "IDLE"], d, TRUE)
  <1> DEFINE q == QueueRecordForce(b, r)
             c == [q EXCEPT !.run_phase = "IDLE"]
  <1>1. OutputRoom(b) \in Nat
    BY RoomLeft
  <1>2. CASE OutputRoom(b) > 0
    <2> DEFINE f == [r EXCEPT !.flags = @ \cup b.flags]
    <2>1. /\ Kept(b, q) /\ q.lost = b.lost /\ q.flags = b.flags
          /\ f \in Row /\ f.event = r.event /\ f.phase = r.phase /\ f.flags = r.flags \cup b.flags
          /\ q.output = Append(b.output, f)
      BY <1>2, QueueRecordForm DEF QueueRecordForce
    <2> HIDE DEF q, f
    <2>2. /\ c \in Buffer /\ c.event = b.event /\ ~EventOpen(c) /\ c.lost = b.lost
          /\ c.output = q.output
      BY <2>1 DEF Kept, Buffer, EventOpen
    <2> DEFINE out == Append(b.output, f)
    <2>3. /\ Len(b.output) < OutputCapacity /\ Len(out) = Len(b.output) + 1
          /\ \A i \in 1 .. Len(b.output) : out[i] = b.output[i]
          /\ out[Len(out)] = f
      <3>1. Len(b.output) \in Nat /\ b.output \in Seq(Row) /\ OutputCapacity \in Nat
        BY BufferFields, BufferAssumption
      <3> QED BY <1>2, <2>1, <3>1 DEF OutputRoom
    <2> HIDE DEF c, out
    <2>4. /\ Len(c.output) = Len(b.output) + 1 /\ c.output[Len(c.output)] = f
          /\ \A i \in 1 .. Len(b.output) : c.output[i] = b.output[i]
      <3>1. c.output = out
        BY <2>1, <2>2 DEF out
      <3> QED BY <2>3, <3>1
    <2>5. Accounted(c, d, TRUE)
      BY <2>1, <2>2, <2>3, <2>4, ClosedAccounted
    <2> QED BY <2>5 DEF c, q
  <1>3. CASE OutputRoom(b) = 0
    <2>1. PICK f \in Row : /\ f.event = r.event /\ f.phase = r.phase
                           /\ "INCOMPLETE" \in f.flags /\ DroppedFor(b, q, f)
      BY <1>3, ForcedForm
    <2>2. Kept(b, q)
      BY <1>3, ForcedForm
    <2> HIDE DEF q
    <2>3. /\ c \in Buffer /\ c.event = b.event /\ ~EventOpen(c) /\ c.lost = q.lost
          /\ c.output = q.output /\ c.flags = q.flags
      BY <2>2 DEF Kept, Buffer, EventOpen
    <2> HIDE DEF c
    <2>4. DroppedFor(b, c, f) /\ EndsWith(c, f)
      BY <2>1, <2>3 DEF DroppedFor, EndsWith, Marked
    <2>5. Accounted(b, d, FALSE)
      BY DEF Accounted, Shown, WillShow
    <2>6. Accounted(c, d, TRUE)
      BY <2>1, <2>3, <2>4, <2>5, DroppedAccounted
    <2> QED BY <2>6 DEF c, q
  <1>4. OutputRoom(b) > 0 \/ OutputRoom(b) = 0
    BY <1>1
  <1> QED BY <1>2, <1>3, <1>4

(* What the ticks of an open event owe at the time of the last round.      *)
Due(b, at) ==
  EventOpen(b) =>
    /\ b.run_phase = "POST" => at < b.post_end
    /\ b.next <= at => Marked(b)

LEMMA PreAccounted ==
  ASSUME NEW b \in Buffer, NEW d, NEW m \in BOOLEAN, b.event \in Events, EventOpen(b),
         b.ring # <<>>, Len(b.output) <= OutputCapacity, Accounted(b, d, m)
  PROVE  LET c == QueuePre(b)
         IN  /\ Kept(b, c) /\ Len(c.output) <= OutputCapacity /\ Accounted(c, d, m)
             /\ RowsGrown(b, c)
             /\ \A i \in Len(b.output) + 1 .. Len(c.output) :
                  /\ i - Len(b.output) \in 1 .. Len(b.ring)
                  /\ c.output[i].time = b.ring[i - Len(b.output)]
  <1> DEFINE n == SmallerOf(Len(b.ring) - 1, OutputRoom(b))
             more == [i \in 1 .. n |-> EventRow(b, "PRE", b.ring[i])]
             out == b.output \o more
             filled == [b EXCEPT !.output = out]
             lossy == Flagged(Lose(filled, b.event), {"INCOMPLETE"})
             c == QueuePre(b)
  <1>1. c = IF n = Len(b.ring) - 1 THEN filled ELSE lossy
    BY DEF QueuePre
  <1>2. /\ b.ring \in Seq(Time) /\ Len(b.output) \in Nat /\ Len(b.ring) \in Nat \ {0}
        /\ b.output \in Seq(Row)
    BY BufferFields
  <1>3. n \in Nat /\ n <= Len(b.ring) /\ n + Len(b.output) <= OutputCapacity
    BY <1>2, RoomLeft DEF SmallerOf
  <1> HIDE DEF n
  <1>4. ASSUME NEW i \in 1 .. n
        PROVE  /\ more[i] \in Row /\ more[i].event = b.event /\ more[i].phase = "PRE"
               /\ more[i].time = b.ring[i]
    <2>1. b.ring[i] \in Time
      BY <1>2, <1>3
    <2> QED BY <2>1, EventRowTyped DEF Phase, EventRow
  <1>5. more \in Seq(Row) /\ Len(more) = n
    <2>1. more \in [1 .. n -> Row]
      BY <1>4
    <2> HIDE DEF more
    <2> QED BY <1>3, <2>1
  <1> HIDE DEF more
  <1>6. /\ out \in Seq(Row) /\ Len(out) = Len(b.output) + n
        /\ \A i \in 1 .. Len(b.output) : out[i] = b.output[i]
        /\ \A i \in Len(b.output) + 1 .. Len(out) : out[i] = more[i - Len(b.output)]
    BY <1>2, <1>5, JoinedRows
  <1>7. ASSUME NEW i \in Len(b.output) + 1 .. Len(out)
        PROVE  /\ out[i].event = b.event /\ out[i].phase # "CLOSE"
               /\ i - Len(b.output) \in 1 .. Len(b.ring)
               /\ out[i].time = b.ring[i - Len(b.output)]
    <2>1. i - Len(b.output) \in 1 .. n
      BY <1>2, <1>3, <1>6
    <2>2. i - Len(b.output) \in 1 .. Len(b.ring)
      BY <1>2, <1>3, <2>1
    <2> QED BY <1>4, <1>6, <2>1, <2>2
  <1> HIDE DEF out, c
  <1>8. Kept(b, filled) /\ filled.output = out /\ filled.lost = b.lost /\ filled.flags = b.flags
    BY <1>6 DEF Kept, Buffer
  <1> HIDE DEF filled
  <1>9. /\ Kept(b, lossy) /\ lossy.output = out /\ lossy.lost = b.lost \cup {b.event}
        /\ lossy.flags = b.flags \cup {"INCOMPLETE"}
    <2> DEFINE k == Lose(filled, b.event)
    <2>1. filled \in Buffer
      BY <1>8 DEF Kept
    <2>2. /\ Kept(filled, k) /\ k.output = out /\ k.flags = b.flags
          /\ k.lost = b.lost \cup {b.event}
      BY <1>8, <2>1, LoseKept DEF Lose, Buffer
    <2> HIDE DEF k
    <2>3. /\ Kept(k, Flagged(k, {"INCOMPLETE"})) /\ Flagged(k, {"INCOMPLETE"}).output = k.output
          /\ Flagged(k, {"INCOMPLETE"}).flags = k.flags \cup {"INCOMPLETE"}
          /\ Flagged(k, {"INCOMPLETE"}).lost = k.lost
      BY <2>2, FlaggedKept DEF Kept, Flag, Flagged, Buffer
    <2> QED BY <1>8, <2>2, <2>3 DEF k, Kept
  <1> HIDE DEF lossy
  <1>10. /\ Kept(b, c) /\ c.output = out /\ b.flags \subseteq c.flags
         /\ c.lost = b.lost \/ (c.lost = b.lost \cup {b.event} /\ Marked(c))
    BY <1>1, <1>8, <1>9 DEF Marked
  <1>11. Len(c.output) <= OutputCapacity
    BY <1>2, <1>3, <1>6, <1>10
  <1>12. RowsGrown(b, c)
    BY <1>2, <1>3, <1>6, <1>7, <1>10 DEF RowsGrown, RowsAdded
  <1>13. c \in Buffer /\ EventOpen(c) /\ c.event = b.event
    BY <1>10 DEF Kept, EventOpen
  <1>14. Accounted(c, d, m)
    BY <1>11, <1>12, <1>13, GrownAccounted
  <1> QED BY <1>7, <1>10, <1>11, <1>12, <1>14 DEF c

(* The event that opens: it has no row yet.                                *)
JustOpened(b, t) ==
  [b EXCEPT !.run_phase = "ACTIVE", !.event = @ + 1, !.flags = {},
            !.next = t + Period, !.post_end = 0]

LEMMA OpenedAccounted ==
  ASSUME NEW b, NEW d, NEW m \in BOOLEAN, Typed(b), ~EventOpen(b),
         b.event + 1 \in Events, NEW t \in Time, Accounted(b, d, m)
  PROVE  LET o == JustOpened(b, t)
         IN  /\ o \in Buffer /\ o.event = b.event + 1 /\ o.ring = b.ring /\ o.output = b.output
             /\ o.run_phase = "ACTIVE" /\ o.lost = b.lost /\ b.event \in Nat /\ EventOpen(o)
             /\ Accounted(o, d, FALSE)
  <1> DEFINE o == JustOpened(b, t)
  <1>1. /\ o \in Buffer /\ o.event = b.event + 1 /\ o.ring = b.ring /\ o.output = b.output
        /\ o.run_phase = "ACTIVE" /\ o.lost = b.lost
    <2>1. t + Period \in Nat /\ 0 \in Nat /\ b.event + 1 \in 0 .. MaxEvents
      BY BufferAssumption DEF Time, Events
    <2>2. b \in Buffer
      BY DEF Typed
    <2> QED BY <2>1, <2>2 DEF JustOpened, Buffer
  <1> HIDE DEF o
  <1>2. b \in Buffer /\ b.event \in Nat /\ EventOpen(o)
    BY <1>1, BufferFields DEF Typed, EventOpen
  <1>3. Sorted(o, d)
    <2>1. ASSUME NEW i \in 1 .. Len(b.output) PROVE b.output[i].event < o.event
      BY <1>1, <1>2, <2>1, QueueFields DEF Accounted, Sorted
    <2>2. \A i \in 1 .. Len(b.output) : b.output[i].event <= o.event
      BY <1>1, <1>2, <2>1, QueueFields
    <2> QED BY <1>1, <2>1, <2>2 DEF Accounted, Sorted
  <1>4. Begun(o, d)
    <2>1. \A e \in Events : e <= b.event => e <= o.event /\ e < o.event
      BY <1>1, <1>2 DEF Events
    <2>2. b.lost \subseteq Events
      BY <1>2, BufferFields
    <2> QED BY <1>1, <2>1, <2>2 DEF Accounted, Begun
  <1>5. Shown(o, d, FALSE)
    <2>1. ASSUME NEW e \in o.lost PROVE e # o.event
      <3>1. e \in Events /\ e <= b.event
        BY <1>1, <1>2, BufferFields DEF Accounted, Begun
      <3> QED BY <1>1, <1>2, <3>1 DEF Events
    <2> QED BY <1>1, <2>1 DEF Accounted, Shown, WillShow, Opened
  <1> QED BY <1>1, <1>2, <1>3, <1>4, <1>5 DEF Accounted, o

LEMMA StartAccounted ==
  ASSUME NEW b, NEW d, NEW m \in BOOLEAN, Typed(b), ~EventOpen(b), b.ring # <<>>,
         b.event + 1 \in Events, NEW t \in Time, Accounted(b, d, m)
  PROVE  Accounted(StartEvent(b, t), d, TRUE)
  <1> DEFINE o == JustOpened(b, t)
             pre == QueuePre(o)
             r == EventRow(pre, "TRIGGER", t)
  <1>1. StartEvent(b, t) = QueueRecordForce(pre, r)
    BY DEF StartEvent, JustOpened
  <1>2. /\ o \in Buffer /\ o.event = b.event + 1 /\ o.ring = b.ring /\ o.output = b.output
        /\ EventOpen(o) /\ Accounted(o, d, FALSE)
    BY OpenedAccounted
  <1> HIDE DEF o
  <1>3. o.event \in Events /\ Len(o.output) <= OutputCapacity /\ o.ring # <<>>
    BY <1>2 DEF Typed
  <1>5. Kept(o, pre) /\ Len(pre.output) <= OutputCapacity /\ Accounted(pre, d, FALSE)
    BY <1>2, <1>3, PreAccounted
  <1> HIDE DEF pre
  <1>6. /\ pre \in Buffer /\ pre.event = o.event /\ pre.event \in Events /\ EventOpen(pre)
    BY <1>2, <1>3, <1>5 DEF Kept, EventOpen
  <1>7. r \in Row /\ r.event = pre.event /\ r.phase = "TRIGGER"
    BY <1>6, EventRowTyped DEF Phase
  <1> HIDE DEF r
  <1> QED BY <1>1, <1>5, <1>6, <1>7, TriggerAccounted

(* The functions that change the phase leave no debt of the last round.    *)
LEMMA EnterPostForm ==
  ASSUME NEW b, Typed(b), EventOpen(b), NEW t \in Time, Due(b, now)
  PROVE  LET c == EnterPost(b, t)
         IN  /\ c \in Buffer /\ c.event = b.event /\ c.run_phase = "POST" /\ c.ring = b.ring
             /\ c.next = t + Period /\ c.post_end = t + PostDuration
             /\ RowsGrown(b, c) /\ Len(c.output) <= OutputCapacity
             /\ \A i \in Len(b.output) + 1 .. Len(c.output) : c.output[i].time = t
  <1> DEFINE post == [b EXCEPT !.run_phase = "POST", !.next = t + Period,
                               !.post_end = t + PostDuration]
             owed == TurnedAway(b) \/ OutputRoom(b) = 0
             counted == IF owed THEN Lose(post, b.event) ELSE post
             r == EventRow(post, "POST", t)
             c == QueueRecord(counted, r)
  <1>1. c = EnterPost(b, t)
    BY DEF EnterPost
  <1>2. b \in Buffer /\ b.event \in Events /\ Len(b.output) <= OutputCapacity
    BY DEF Typed
  <1>3. /\ post \in Buffer /\ post.event = b.event /\ post.output = b.output
        /\ post.run_phase = "POST" /\ post.flags = b.flags /\ post.lost = b.lost
        /\ post.ring = b.ring /\ post.next = t + Period /\ post.post_end = t + PostDuration
    <2>1. t + Period \in Nat /\ t + PostDuration \in Nat
      BY BufferAssumption DEF Time
    <2> QED BY <1>2, <2>1 DEF Buffer
  <1> HIDE DEF post
  <1>4. r \in Row /\ r.event = b.event /\ r.phase = "POST" /\ r.time = t
    <2>1. post \in Buffer /\ post.event \in Events /\ "POST" \in Phase
      BY <1>2, <1>3 DEF Phase
    <2>2. r \in Row /\ r.event = post.event /\ r.phase = "POST" /\ r.time = t
      BY <2>1, EventRowTyped DEF EventRow
    <2> QED BY <1>3, <2>2
  <1> HIDE DEF r
  <1>6. /\ counted \in Buffer /\ counted.event = b.event /\ counted.output = b.output
        /\ counted.run_phase = "POST" /\ counted.flags = b.flags
        /\ counted.ring = b.ring /\ counted.next = t + Period /\ counted.post_end = t + PostDuration
        /\ counted.lost = IF owed THEN b.lost \cup {b.event} ELSE b.lost
    BY <1>2, <1>3 DEF Lose, Buffer
  <1> HIDE DEF counted
  <1>7. /\ Kept(counted, c) /\ RowsGrown(counted, c) /\ c.lost = counted.lost
        /\ OutputRoom(counted) = 0 => Marked(c)
        /\ Len(c.output) <= OutputCapacity
        /\ \A i \in Len(counted.output) + 1 .. Len(c.output) : c.output[i].time = t
    BY <1>2, <1>4, <1>6, QueueGrows
  <1> HIDE DEF c
  <1>8. owed => Marked(c)
    <2>1. OutputRoom(counted) = OutputRoom(b)
      BY <1>6 DEF OutputRoom
    <2>2. TurnedAway(b) => Marked(b)
      BY DEF TurnedAway, Due
    <2>3. Marked(b) => Marked(c)
      BY <1>6, <1>7 DEF RowsGrown, Marked
    <2> QED BY <1>7, <2>1, <2>2, <2>3
  <1> HIDE DEF owed
  <1>9. RowsGrown(b, c)
    BY <1>6, <1>7, <1>8 DEF RowsGrown, RowsAdded
  <1>10. /\ c \in Buffer /\ c.event = b.event /\ c.run_phase = "POST" /\ c.ring = b.ring
         /\ c.next = t + Period /\ c.post_end = t + PostDuration
    BY <1>6, <1>7 DEF Kept
  <1> QED BY <1>1, <1>6, <1>7, <1>9, <1>10

LEMMA EnterPostAccounted ==
  ASSUME NEW b, NEW d, Typed(b), EventOpen(b), NEW t \in Time, Accounted(b, d, TRUE),
         Due(b, now)
  PROVE  Accounted(EnterPost(b, t), d, TRUE)
  <1> DEFINE c == EnterPost(b, t)
  <1>1. /\ c \in Buffer /\ c.event = b.event /\ c.run_phase = "POST"
        /\ RowsGrown(b, c) /\ Len(c.output) <= OutputCapacity
    BY EnterPostForm
  <1>2. b \in Buffer /\ b.event \in Events
    BY DEF Typed
  <1> HIDE DEF c
  <1>3. EventOpen(c)
    BY <1>1 DEF EventOpen
  <1>4. Accounted(c, d, TRUE)
    BY <1>1, <1>2, <1>3, GrownAccounted
  <1> QED BY <1>4 DEF c

(* An update leaves the buffer alone, or makes the event ACTIVE again.     *)
LEMMA UpdateEventForm ==
  ASSUME NEW b, Typed(b), NEW active, NEW t \in Time, Due(b, now)
  PROVE  LET c == UpdateEvent(b, active, t)
         IN  \/ c = b
             \/ /\ EventOpen(b) /\ c \in Buffer /\ c.event = b.event /\ c.run_phase = "ACTIVE"
                /\ c.ring = b.ring /\ c.next = t /\ c.output = b.output
                /\ RowsGrown(b, c)
  <1>1. CASE ~(b.run_phase = "POST" /\ active)
    BY <1>1 DEF UpdateEvent
  <1>2. CASE b.run_phase = "POST" /\ active
    <2> DEFINE counted == IF TurnedAway(b) THEN Lose(b, b.event) ELSE b
               e == [counted EXCEPT !.run_phase = "ACTIVE", !.next = t, !.post_end = 0]
               c == Flagged(e, {"POST_RETRIGGER"})
    <2>1. c = UpdateEvent(b, active, t)
      BY <1>2 DEF UpdateEvent
    <2>2. b \in Buffer /\ b.event \in Events /\ EventOpen(b)
      BY <1>2 DEF Typed, EventOpen
    <2>3. /\ counted \in Buffer /\ counted.event = b.event /\ counted.output = b.output
          /\ counted.flags = b.flags /\ counted.ring = b.ring
          /\ counted.lost = IF TurnedAway(b) THEN b.lost \cup {b.event} ELSE b.lost
      BY <2>2 DEF Lose, Buffer
    <2> HIDE DEF counted
    <2>4. /\ e \in Buffer /\ e.event = b.event /\ e.output = b.output /\ e.next = t
          /\ e.ring = b.ring
          /\ e.run_phase = "ACTIVE" /\ e.flags = b.flags /\ e.lost = counted.lost
      <3>1. t \in Nat
        BY DEF Time
      <3> QED BY <2>3, <3>1 DEF Buffer
    <2> HIDE DEF e
    <2>5. /\ Kept(e, c) /\ c.output = b.output /\ c.flags = b.flags \cup {"POST_RETRIGGER"}
          /\ c.lost = counted.lost
      BY <2>4, FlaggedKept DEF Flag, Flagged, Buffer
    <2> HIDE DEF c
    <2>6. /\ c \in Buffer /\ c.event = b.event /\ c.run_phase = "ACTIVE" /\ c.ring = b.ring
          /\ c.next = t
      BY <2>4, <2>5 DEF Kept
    <2>7. TurnedAway(b) => Marked(b)
      BY <2>2 DEF TurnedAway, Due
    <2>8. RowsGrown(b, c)
      <3>1. Len(b.output) \in Nat
        BY <2>2, BufferFields
      <3> QED BY <2>3, <2>5, <2>7, <3>1 DEF RowsGrown, RowsAdded, Marked
    <2> QED BY <2>1, <2>2, <2>5, <2>6, <2>8
  <1> QED BY <1>1, <1>2

LEMMA UpdateEventAccounted ==
  ASSUME NEW b, NEW d, Typed(b), NEW active, NEW t \in Time, Accounted(b, d, TRUE), Due(b, now)
  PROVE  Accounted(UpdateEvent(b, active, t), d, TRUE)
  <1> DEFINE c == UpdateEvent(b, active, t)
  <1>1. \/ c = b
        \/ /\ EventOpen(b) /\ c \in Buffer /\ c.event = b.event /\ c.run_phase = "ACTIVE"
           /\ c.output = b.output /\ RowsGrown(b, c)
    BY UpdateEventForm
  <1> HIDE DEF c
  <1>2. CASE c = b
    BY <1>2 DEF c
  <1>3. CASE c # b
    <2>1. b \in Buffer /\ b.event \in Events /\ Len(c.output) <= OutputCapacity
      BY <1>1, <1>3 DEF Typed, EventOpen
    <2>2. EventOpen(b) /\ EventOpen(c) /\ c \in Buffer /\ c.event = b.event /\ RowsGrown(b, c)
      BY <1>1, <1>3 DEF EventOpen
    <2>3. Accounted(c, d, TRUE)
      BY <2>1, <2>2, GrownAccounted
    <2> QED BY <2>3 DEF c
  <1> QED BY <1>2, <1>3

LEMMA CloseAccounted ==
  ASSUME NEW b, NEW d, Typed(b), EventOpen(b), NEW t \in Time, NEW forced \in BOOLEAN,
         Accounted(b, d, TRUE), b.next < t => forced \/ Marked(b)
  PROVE  Accounted(CloseEvent(b, t, forced), d, TRUE)
  <1> DEFINE flagged == IF forced THEN Flagged(b, {"INCOMPLETE", "FORCED_CLOSE"}) ELSE b
             counted == IF b.next < t THEN Lose(flagged, b.event) ELSE flagged
             r == EventRow(flagged, "CLOSE", t)
  <1>1. CloseEvent(b, t, forced) = [QueueRecordForce(counted, r) EXCEPT !.run_phase = "IDLE"]
    BY DEF CloseEvent
  <1>2. b \in Buffer /\ b.event \in Events /\ Len(b.output) <= OutputCapacity
    BY DEF Typed
  <1>3. /\ flagged \in Buffer /\ flagged.event = b.event /\ flagged.output = b.output
        /\ flagged.run_phase = b.run_phase /\ b.flags \subseteq flagged.flags
        /\ flagged.lost = b.lost /\ (forced => Marked(flagged))
    <2>1. CASE forced
      <3>1. Kept(b, flagged) /\ flagged.output = b.output /\ flagged.lost = b.lost
            /\ flagged.flags = b.flags \cup {"INCOMPLETE", "FORCED_CLOSE"}
        BY <1>2, <2>1, FlaggedKept DEF Flag, Flagged, Buffer
      <3> QED BY <3>1 DEF Kept, Marked
    <2>2. CASE ~forced
      BY <1>2, <2>2
    <2> QED BY <2>1, <2>2
  <1> HIDE DEF flagged
  <1>4. r \in Row /\ r.event = b.event /\ r.phase = "CLOSE" /\ r.flags = flagged.flags
    BY <1>2, <1>3, EventRowTyped DEF Phase, EventRow
  <1> HIDE DEF r
  <1>5. /\ counted \in Buffer /\ counted.event = b.event /\ counted.output = b.output
        /\ counted.run_phase = b.run_phase /\ counted.flags = flagged.flags
        /\ counted.lost = IF b.next < t THEN b.lost \cup {b.event} ELSE b.lost
    BY <1>2, <1>3 DEF Lose, Buffer
  <1> HIDE DEF counted
  <1>6. RowsGrown(b, counted) /\ EventOpen(counted)
    <2>1. Len(b.output) \in Nat
      BY <1>2, BufferFields
    <2>2. b.next < t => Marked(counted)
      BY <1>3, <1>5 DEF Marked
    <2> QED BY <1>3, <1>5, <2>1, <2>2 DEF RowsGrown, RowsAdded, EventOpen
  <1>7. Accounted(counted, d, TRUE)
    BY <1>2, <1>5, <1>6, GrownAccounted
  <1>8. Marked(counted) => "INCOMPLETE" \in r.flags
    BY <1>4, <1>5 DEF Marked
  <1>9. Len(counted.output) <= OutputCapacity /\ counted.event \in Events /\ r.event = counted.event
    BY <1>2, <1>4, <1>5
  <1>10. Accounted([QueueRecordForce(counted, r) EXCEPT !.run_phase = "IDLE"], d, TRUE)
    BY <1>4, <1>5, <1>6, <1>7, <1>8, <1>9, LastRowAccounted
  <1> QED BY <1>1, <1>10

LEMMA NoteAccounted ==
  ASSUME NEW b, NEW d, Typed(b), b.ring # <<>>, NEW was, NEW active, NEW t \in Time,
         NoteAlarmResult(b, was, active, t).event <= MaxEvents,
         Accounted(b, d, TRUE), Due(b, now)
  PROVE  Accounted(NoteAlarmResult(b, was, active, t), d, TRUE)
  <1>1. CASE was /\ ~active
    BY <1>1, EnterPostAccounted DEF NoteAlarmResult
  <1>2. CASE ~(was /\ ~active) /\ active /\ ~EventOpen(b)
    <2>1. NoteAlarmResult(b, was, active, t) = StartEvent(b, t)
      BY <1>2 DEF NoteAlarmResult
    <2>2. b \in Buffer /\ b.event \in Nat
      BY BufferFields DEF Typed
    <2>3. b.event + 1 \in Events
      <3>1. b.event + 1 <= MaxEvents
        BY <2>1, <2>2, StartNumbers
      <3> QED BY <2>2, <3>1, BufferAssumption DEF Events
    <2> QED BY <1>2, <2>1, <2>3, StartAccounted
  <1>3. CASE ~(was /\ ~active) /\ ~(active /\ ~EventOpen(b))
    BY <1>3, UpdateEventAccounted DEF NoteAlarmResult
  <1> QED BY <1>1, <1>2, <1>3

LEMMA StepAccounted ==
  ASSUME NEW b, NEW d, NEW l \in AnyRow, Typed(b), Ordered(b, l), NEW t \in Time,
         Accounted(b, d, TRUE)
  PROVE  Accounted(Step(b, t), d, TRUE) /\ Due(Step(b, t), t)
  <1>1. CASE ~EventOpen(b)
    BY <1>1 DEF Step, Due
  <1>2. ASSUME EventOpen(b), NEW limit \in Time
        PROVE  LET c == EmitActiveOrPost(b, limit)
               IN  /\ Accounted(c, d, TRUE) /\ Typed(c) /\ Ordered(c, l) /\ EventOpen(c)
                   /\ c.run_phase = b.run_phase /\ c.post_end = b.post_end /\ c.next \in Nat
                   /\ \/ Marked(c)
                      \/ c.next > limit
                      \/ b.run_phase = "POST" /\ c.next >= b.post_end
    <2> DEFINE c == EmitActiveOrPost(b, limit)
    <2>1. limit \in Nat
      BY DEF Time
    <2>2. SameEvent(b, c, l)
      BY <1>2, <2>1, EmitEffect
    <2>3. /\ RowsGrown(b, c)
          /\ \/ Marked(c)
             \/ c.next > limit
             \/ b.run_phase = "POST" /\ c.next >= b.post_end
      BY <1>2, EmitForm
    <2> HIDE DEF c
    <2>4. /\ b \in Buffer /\ b.event \in Events
          /\ c \in Buffer /\ c.event = b.event /\ EventOpen(c) /\ Len(c.output) <= OutputCapacity
      BY <1>2, <2>2 DEF Typed, SameEvent, EventOpen
    <2>5. Accounted(c, d, TRUE)
      BY <1>2, <2>3, <2>4, GrownAccounted
    <2>6. c.next \in Nat
      BY <2>4, BufferFields
    <2> QED BY <2>2, <2>3, <2>4, <2>5, <2>6 DEF c, SameEvent
  <1>3. CASE EventOpen(b) /\ b.run_phase = "POST" /\ t >= b.post_end
    <2> DEFINE c == EmitActiveOrPost(b, b.post_end)
    <2>1. b.post_end \in Nat /\ b.post_end \in Time
      <3>1. b.post_end \in Nat
        BY BufferFields DEF Typed
      <3> QED BY <1>3, <3>1, BufferAssumption DEF Time
    <2>2. /\ Accounted(c, d, TRUE) /\ Typed(c) /\ Ordered(c, l) /\ EventOpen(c)
          /\ c.next < b.post_end => FALSE \/ Marked(c)
      <3>1. /\ Accounted(c, d, TRUE) /\ Typed(c) /\ Ordered(c, l) /\ EventOpen(c) /\ c.next \in Nat
            /\ \/ Marked(c)
               \/ c.next > b.post_end
               \/ b.run_phase = "POST" /\ c.next >= b.post_end
        BY <1>2, <1>3, <2>1
      <3> HIDE DEF c
      <3>2. c.next < b.post_end => Marked(c)
        BY <2>1, <3>1
      <3> QED BY <3>1, <3>2
    <2> HIDE DEF c
    <2>3. Accounted(CloseEvent(c, b.post_end, FALSE), d, TRUE)
      BY <2>1, <2>2, CloseAccounted
    <2>4. Step(b, t) = CloseEvent(c, b.post_end, FALSE)
      BY <1>3 DEF Step, c
    <2>5. Typed(CloseEvent(c, b.post_end, FALSE)) /\ ~EventOpen(CloseEvent(c, b.post_end, FALSE))
      BY <2>1, <2>2, CloseEffect
    <2> QED BY <2>3, <2>4, <2>5 DEF Due
  <1>4. CASE EventOpen(b) /\ ~(b.run_phase = "POST" /\ t >= b.post_end)
    <2> DEFINE c == EmitActiveOrPost(b, t)
    <2>1. Step(b, t) = c
      BY <1>4 DEF Step
    <2>2. /\ Accounted(c, d, TRUE) /\ c.run_phase = b.run_phase /\ c.post_end = b.post_end
          /\ c.next \in Nat
          /\ Marked(c) \/ c.next > t \/ (b.run_phase = "POST" /\ c.next >= b.post_end)
      BY <1>2, <1>4
    <2> HIDE DEF c
    <2>3. b.post_end \in Nat /\ t \in Nat
      BY BufferFields DEF Typed, Time
    <2>4. Due(c, t)
      BY <1>4, <2>2, <2>3 DEF Due
    <2> QED BY <2>1, <2>2, <2>4
  <1> QED BY <1>1, <1>3, <1>4

LEMMA PushAccounted ==
  ASSUME NEW b \in Buffer, NEW d, NEW t, Accounted(b, d, TRUE), Due(b, now)
  PROVE  Accounted(PushSnapshot(b, t), d, TRUE) /\ Due(PushSnapshot(b, t), now)
  <1> DEFINE c == PushSnapshot(b, t)
  <1>1. /\ c.run_phase = b.run_phase /\ c.event = b.event /\ c.output = b.output
        /\ c.flags = b.flags /\ c.lost = b.lost /\ c.next = b.next /\ c.post_end = b.post_end
    BY DEF PushSnapshot, Buffer
  <1> HIDE DEF c
  <1>2. Accounted(c, d, TRUE)
    BY <1>1 DEF Accounted, Sorted, Begun, Shown, WillShow, Opened, EventOpen, Marked
  <1>3. Due(c, now)
    BY <1>1 DEF Due, EventOpen, Marked
  <1> QED BY <1>2, <1>3 DEF c

LEMMA ForceCloseAccounted ==
  ASSUME NEW b, NEW d, NEW l \in AnyRow, Typed(b), Ordered(b, l), NEW t \in Time,
         Accounted(b, d, TRUE)
  PROVE  Accounted(ForceClose(b, t), d, TRUE) /\ ~EventOpen(ForceClose(b, t))
  <1>1. CASE EventOpen(b)
    <2>1. Accounted(CloseEvent(b, t, TRUE), d, TRUE)
      BY <1>1, CloseAccounted
    <2>2. ~EventOpen(CloseEvent(b, t, TRUE))
      BY <1>1, CloseEffect
    <2> QED BY <1>1, <2>1, <2>2 DEF ForceClose
  <1>2. CASE ~EventOpen(b)
    BY <1>2 DEF ForceClose
  <1> QED BY <1>1, <1>2

(* A pulled row takes the flags that are standing then.                    *)
LEMMA DrainAccounted ==
  ASSUME NEW b, Typed(b), Accounted(b, delivered, TRUE), delivered \in [Events -> Delivered],
         NEW n \in 0 .. Len(b.output), Drain(b, n)
  PROVE  /\ Accounted(buffer', delivered', TRUE)
         /\ \A at : Due(b, at) => Due(buffer', at)
  <1> DEFINE left == SubSeq(b.output, n + 1, Len(b.output))
             rest == [b EXCEPT !.output = left]
             rows == Pulled(b, n)
             c == buffer'
             d == delivered
             dd == delivered'
  <1>1. c = IF n < Len(b.output) THEN Flagged(rest, {"INCOMPLETE"}) ELSE rest
    BY DEF Drain
  <1>2. /\ b \in Buffer /\ b.output \in Seq(Row) /\ Len(b.output) \in Nat /\ b.flags \in SUBSET Flag
        /\ Len(b.output) <= OutputCapacity /\ n \in Nat /\ n <= Len(b.output)
        /\ b.event \in Nat /\ b.lost \in SUBSET Events /\ OutputCapacity \in Nat \ {0}
    <2>1. b \in Buffer /\ Len(b.output) <= OutputCapacity
      BY DEF Typed
    <2> QED BY <2>1, BufferFields, BufferAssumption
  <1>3. /\ left \in Seq(Row) /\ Len(left) = Len(b.output) - n
        /\ \A i \in 1 .. Len(left) : left[i] = b.output[n + i]
    BY <1>2, SubSeqProperties
  <1>4. ASSUME NEW i \in 1 .. n
        PROVE  /\ rows[i].event = b.output[i].event /\ rows[i].phase = b.output[i].phase
               /\ rows[i].flags = b.output[i].flags \cup b.flags
               /\ i \in 1 .. Len(b.output)
    <2>1. b.output[i] \in Row /\ i \in 1 .. Len(b.output)
      BY <1>2
    <2> QED BY <2>1 DEF Pulled, Row
  <1>5. ASSUME NEW e \in Events
        PROVE  /\ dd[e].closed <=>
                    d[e].closed \/ \E i \in 1 .. n : rows[i].event = e /\ rows[i].phase = "CLOSE"
               /\ dd[e].incomplete <=>
                    d[e].incomplete
                      \/ \E i \in 1 .. n : rows[i].event = e /\ "INCOMPLETE" \in rows[i].flags
    BY DEF Drain
  <1> HIDE DEF left, rows, dd, d
  <1>6. rest \in Buffer /\ Kept(b, rest) /\ rest.output = left /\ rest.flags = b.flags /\ rest.lost = b.lost
    BY <1>2, <1>3 DEF Buffer, Kept
  <1> HIDE DEF rest
  <1>7. /\ Kept(b, c) /\ c.output = left /\ c.lost = b.lost /\ b.flags \subseteq c.flags
    <2>1. /\ Kept(rest, Flagged(rest, {"INCOMPLETE"})) /\ Flagged(rest, {"INCOMPLETE"}).output = left
          /\ Flagged(rest, {"INCOMPLETE"}).lost = b.lost
          /\ Flagged(rest, {"INCOMPLETE"}).flags = b.flags \cup {"INCOMPLETE"}
      BY <1>6, FlaggedKept DEF Flag, Flagged, Buffer
    <2> QED BY <1>1, <1>6, <2>1 DEF Kept
  <1> HIDE DEF c
  <1>8. ASSUME NEW i \in 1 .. Len(left)
        PROVE  n + i \in 1 .. Len(b.output) /\ left[i] = b.output[n + i] /\ left[i].event \in Events
               /\ left[i].event \in Nat
    <2>1. n + i \in 1 .. Len(b.output) /\ left[i] = b.output[n + i]
      BY <1>2, <1>3
    <2> QED BY <1>2, <2>1, QueueFields
  <1>9. Sorted(c, dd)
    <2>1. ASSUME NEW i \in 1 .. Len(left), NEW j \in 1 .. Len(left), i < j
          PROVE  /\ left[i].event <= left[j].event
                 /\ left[i].phase = "CLOSE" => left[i].event < left[j].event
      <3>1. n + i < n + j
        BY <1>2, <2>1
      <3> QED BY <1>8, <3>1 DEF Accounted, Sorted
    <2>2. ASSUME NEW i \in 1 .. Len(left)
          PROVE  /\ left[i].event <= c.event
                 /\ EventOpen(c) /\ left[i].phase = "CLOSE" => left[i].event < c.event
                 /\ ~dd[left[i].event].closed
      <3>1. ~d[left[i].event].closed
        BY <1>8 DEF Accounted, Sorted, d
      <3>2. ASSUME NEW k \in 1 .. n, rows[k].event = left[i].event, rows[k].phase = "CLOSE"
            PROVE  FALSE
        <4>1. k < n + i /\ k \in 1 .. Len(b.output) /\ n + i \in 1 .. Len(b.output)
          BY <1>2, <1>4, <1>8
        <4>2. b.output[k].event < b.output[n + i].event
          BY <1>4, <3>2, <4>1 DEF Accounted, Sorted
        <4> QED BY <1>4, <1>8, <3>2, <4>2
      <3>3. ~dd[left[i].event].closed
        BY <1>5, <1>8, <3>1, <3>2
      <3> QED BY <1>7, <1>8, <3>3 DEF Accounted, Sorted, Kept, EventOpen
    <2> QED BY <1>7, <2>1, <2>2 DEF Sorted
  <1>10. Begun(c, dd)
    <2>1. ASSUME NEW e \in Events, dd[e].closed
          PROVE  e <= b.event /\ (EventOpen(b) => e < b.event)
      <3>1. CASE d[e].closed
        BY <3>1 DEF Accounted, Begun, d
      <3>2. CASE ~d[e].closed
        <4>1. PICK i \in 1 .. n : rows[i].event = e /\ rows[i].phase = "CLOSE"
          BY <1>5, <2>1, <3>2
        <4>2. i \in 1 .. Len(b.output) /\ b.output[i].event = e /\ b.output[i].phase = "CLOSE"
          BY <1>4, <4>1
        <4> QED BY <4>2 DEF Accounted, Sorted
      <3> QED BY <3>1, <3>2
    <2> QED BY <1>7, <2>1 DEF Accounted, Begun, Kept, EventOpen
  <1>11. ASSUME NEW e \in c.lost, ~dd[e].incomplete PROVE ~dd[e].closed /\ WillShow(c, e, TRUE)
    <2>1. /\ e \in b.lost /\ e \in Events /\ ~d[e].incomplete
          /\ \A i \in 1 .. n : rows[i].event = e => "INCOMPLETE" \notin rows[i].flags
      BY <1>2, <1>5, <1>7, <1>11
    <2>2. ~d[e].closed /\ WillShow(b, e, TRUE)
      BY <2>1 DEF Accounted, Shown, d
    <2>3. ASSUME NEW i \in 1 .. n, b.output[i].event = e
          PROVE  ~Marked(b) /\ "INCOMPLETE" \notin b.output[i].flags
      BY <1>4, <2>1, <2>3 DEF Marked
    <2>4. CASE Opened(b, e) /\ Marked(b)
      <3>1. WillShow(c, e, TRUE)
        BY <1>7, <2>4 DEF WillShow, Opened, Marked, Kept, EventOpen
      <3>2. ~dd[e].closed
        BY <1>4, <1>5, <2>1, <2>2, <2>3, <2>4
      <3> QED BY <3>1, <3>2
    <2>5. CASE /\ ~Opened(b, e)
               /\ \A i \in 1 .. Len(b.output) :
                    b.output[i].event = e /\ b.output[i].phase = "CLOSE" =>
                      "INCOMPLETE" \in b.output[i].flags
      <3>1. WillShow(c, e, TRUE)
        BY <1>7, <1>8, <2>5 DEF WillShow, Opened, Kept, EventOpen
      <3>2. ~dd[e].closed
        BY <1>4, <1>5, <2>1, <2>2, <2>3, <2>5
      <3> QED BY <3>1, <3>2
    <2>6. CASE Len(b.output) = OutputCapacity /\ b.output[1].event = e /\ Marked(b)
      <3>1. n = 0
        <4>1. n # 0 => 1 \in 1 .. n
          BY <1>2
        <4> QED BY <2>3, <2>6, <4>1
      <3>2. Len(left) = OutputCapacity /\ left[1].event = e
        <4>1. 1 \in 1 .. Len(left) /\ Len(left) = Len(b.output)
          BY <1>2, <1>3, <2>6, <3>1
        <4>2. left[1] = b.output[n + 1] /\ n + 1 = 1
          BY <1>8, <3>1, <4>1
        <4> QED BY <2>6, <4>1, <4>2
      <3>3. WillShow(c, e, TRUE)
        BY <1>7, <2>6, <3>2 DEF WillShow, Marked
      <3>4. ~dd[e].closed
        BY <1>5, <2>1, <2>2, <3>1
      <3> QED BY <3>3, <3>4
    <2> QED BY <2>2, <2>4, <2>5, <2>6 DEF WillShow
  <1>12. Accounted(c, dd, TRUE)
    BY <1>9, <1>10, <1>11 DEF Accounted, Shown
  <1>13. \A at : Due(b, at) => Due(c, at)
    BY <1>7 DEF Due, Kept, EventOpen, Marked
  <1> QED BY <1>12, <1>13 DEF c, dd

(* The account of what was lost, kept by every step.                       *)
LossInv == Accounted(buffer, delivered, TRUE) /\ Due(buffer, now)

LEMMA InitLossInv == Init => LossInv
  <1> SUFFICES ASSUME Init PROVE LossInv
    OBVIOUS
  <1>1. /\ buffer.output = <<>> /\ buffer.run_phase = "IDLE" /\ buffer.event = 0
        /\ buffer.lost = {} /\ \A e \in Events : delivered[e].closed = FALSE
    BY DEF Init
  <1>2. Len(buffer.output) = 0
    BY <1>1
  <1>3. Sorted(buffer, delivered)
    BY <1>2 DEF Sorted
  <1>4. Begun(buffer, delivered) /\ Shown(buffer, delivered, TRUE)
    BY <1>1 DEF Begun, Shown
  <1>5. Due(buffer, now)
    BY <1>1 DEF Due, EventOpen
  <1> QED BY <1>3, <1>4, <1>5 DEF LossInv, Accounted

LEMMA NextLossInv == Inv /\ LossInv /\ [Next]_vars => LossInv'
  <1> SUFFICES ASSUME Inv, LossInv, [Next]_vars PROVE LossInv'
    OBVIOUS
  <1>0. /\ Typed(buffer) /\ Ordered(buffer, last) /\ last \in AnyRow
        /\ delivered \in [Events -> Delivered]
        /\ Accounted(buffer, delivered, TRUE) /\ Due(buffer, now)
    BY DEF Inv, LossInv
  <1>1. CASE Start \/ Stop \/ UNCHANGED vars
    <2>1. UNCHANGED <<buffer, delivered, now>>
      BY <1>1 DEF Start, Stop, vars
    <2> QED BY <1>0, <2>1
         DEF LossInv, Accounted, Sorted, Begun, Shown, WillShow, Opened, EventOpen, Marked, Due
  <1>2. CASE Scan
    <2>1. PICK t \in Later(now + 1), sampled \in BOOLEAN, active \in BOOLEAN :
            LET pushed == IF sampled THEN PushSnapshot(buffer, t) ELSE buffer
                noted  == IF sampled /\ running
                          THEN NoteAlarmResult(pushed, alarm, active, t) ELSE pushed
                b      == Step(noted, t)
            IN  /\ noted.event <= MaxEvents
                /\ now' = t
                /\ \E n \in 0 .. Len(b.output) : Drain(b, n)
      BY <1>2 DEF Scan
    <2> DEFINE pushed == IF sampled THEN PushSnapshot(buffer, t) ELSE buffer
               noted  == IF sampled /\ running
                         THEN NoteAlarmResult(pushed, alarm, active, t) ELSE pushed
               b      == Step(noted, t)
    <2>2. t \in Time /\ buffer \in Buffer
      BY <1>0 DEF Later, Typed
    <2>3. /\ Typed(pushed) /\ Ordered(pushed, last) /\ (sampled => pushed.ring # <<>>)
          /\ Accounted(pushed, delivered, TRUE) /\ Due(pushed, now)
      <3>1. CASE sampled
        BY <1>0, <2>2, <3>1, PushEffect, PushAccounted
      <3>2. CASE ~sampled
        BY <1>0, <3>2
      <3> QED BY <3>1, <3>2
    <2> HIDE DEF pushed
    <2>4. /\ noted.event <= MaxEvents /\ now' = t
          /\ \E n \in 0 .. Len(b.output) : Drain(b, n)
      BY <2>1 DEF pushed
    <2>5. Typed(noted) /\ Ordered(noted, last) /\ Accounted(noted, delivered, TRUE)
      <3>1. CASE sampled /\ running
        BY <1>0, <2>2, <2>3, <2>4, <3>1, NoteEffect, NoteAccounted
      <3>2. CASE ~(sampled /\ running)
        BY <2>3, <3>2
      <3> QED BY <3>1, <3>2
    <2> HIDE DEF noted
    <2>6. Typed(b) /\ Accounted(b, delivered, TRUE) /\ Due(b, t)
      BY <1>0, <2>2, <2>5, StepEffect, StepAccounted
    <2> HIDE DEF b
    <2>7. Accounted(buffer', delivered', TRUE) /\ Due(buffer', t)
      BY <1>0, <2>4, <2>6, DrainAccounted
    <2>8. Due(buffer', now')
      BY <2>4, <2>7
    <2> QED BY <2>7, <2>8 DEF LossInv, Accounted, Sorted, Begun, Shown, WillShow, Opened, EventOpen, Marked, Due
  <1>3. CASE FinishStopFlush
    <2>1. PICK t \in Later(now) :
            LET b == ForceClose(buffer, t)
            IN  now' = t /\ \E n \in 0 .. Len(b.output) : Drain(b, n)
      BY <1>3 DEF FinishStopFlush
    <2> DEFINE b == ForceClose(buffer, t)
    <2>2. t \in Time
      BY DEF Later
    <2>3. /\ Typed(b) /\ Accounted(b, delivered, TRUE) /\ Due(b, t)
      BY <1>0, <2>2, ForceCloseEffect, ForceCloseAccounted DEF Due
    <2>4. now' = t /\ \E n \in 0 .. Len(b.output) : Drain(b, n)
      BY <2>1
    <2> HIDE DEF b
    <2>5. Accounted(buffer', delivered', TRUE) /\ Due(buffer', t)
      BY <1>0, <2>3, <2>4, DrainAccounted
    <2>6. Due(buffer', now')
      BY <2>4, <2>5
    <2> QED BY <2>5, <2>6 DEF LossInv, Accounted, Sorted, Begun, Shown, WillShow, Opened, EventOpen, Marked, Due
  <1> QED BY <1>1, <1>2, <1>3 DEF Next

(* A full queue never loses a row without a trace: an event of which it    *)
(* dropped a row, or refused one for good, shows INCOMPLETE in a delivered *)
(* row if its CLOSE was delivered.                                         *)
THEOREM LostRowsShowCorrect == Spec => []LostRowsShow
  <1>1. LossInv => LostRowsShow
    BY DEF LossInv, Accounted, Shown, LostRowsShow
  <1> QED BY <1>1, InvCorrect, InitLossInv, NextLossInv, PTL DEF Spec
-----------------------------------------------------------------------------
(* The order of the rows in time. An event is excused from it when its     *)
(* flag has shown, or is still going to: the open event is flagged, or the *)
(* CLOSE row of one that ended was dropped, or is queued with the flag.    *)
Excused(b, d, e) ==
  \/ d[e].incomplete
  \/ /\ ~d[e].closed /\ e <= b.event
     /\ \/ Opened(b, e) /\ Marked(b)
        \/ /\ ~Opened(b, e)
           /\ \A i \in 1 .. Len(b.output) :
                b.output[i].event = e /\ b.output[i].phase = "CLOSE" =>
                  "INCOMPLETE" \in b.output[i].flags

(* The rows of e, delivered or still queued, are in the order of time.     *)
TimesInOrder(b, l, d, e) ==
  /\ ~d[e].unordered
  /\ \A i, j \in 1 .. Len(b.output) :
       i < j /\ b.output[i].event = e /\ b.output[j].event = e =>
         b.output[i].time <= b.output[j].time
  /\ \A i \in 1 .. Len(b.output) :
       l.event = e /\ b.output[i].event = e => l.time <= b.output[i].time

InTime(b, l, d) == \A e \in Events : Excused(b, d, e) \/ TimesInOrder(b, l, d, e)

(* No row of the open event is of a time after T, unless it is flagged.    *)
UpTo(b, l, T) ==
  \/ Marked(b)
  \/ /\ \A i \in 1 .. Len(b.output) : b.output[i].event = b.event => b.output[i].time <= T
     /\ l.event = b.event => l.time <= T

(* Rows of times between T and U, in order.                                *)
TimesGrow(b, c, T, U) ==
  /\ \A i \in Len(b.output) + 1 .. Len(c.output) :
       T <= c.output[i].time /\ c.output[i].time <= U
  /\ \A i, j \in Len(b.output) + 1 .. Len(c.output) :
       i < j => c.output[i].time <= c.output[j].time

LEMMA RowTimes ==
  /\ \A r \in AnyRow : r.time \in Nat
  /\ \A b \in Buffer : \A i \in 1 .. Len(b.output) : b.output[i].time \in Nat
  <1>1. \A r \in AnyRow : r.time \in Nat
    BY BufferAssumption DEF AnyRow, Row, NoRow, Time
  <1> QED BY <1>1, QueueFields DEF AnyRow

LEMMA GrownInTime ==
  ASSUME NEW b \in Buffer, NEW c \in Buffer, NEW d, NEW l \in AnyRow, NEW m \in BOOLEAN,
         b.event \in Events, EventOpen(b), EventOpen(c), c.event = b.event,
         RowsGrown(b, c), Accounted(b, d, m), InTime(b, l, d),
         NEW T \in Nat, NEW U \in Nat, T <= U, UpTo(b, l, T),
         Marked(c) \/ TimesGrow(b, c, T, U)
  PROVE  InTime(c, l, d) /\ UpTo(c, l, U)
  <1>1. Len(b.output) \in Nat /\ Len(c.output) \in Nat /\ b.event \in Nat
    BY BufferFields DEF Events
  <1>2. ASSUME NEW i \in 1 .. Len(c.output)
        PROVE  \/ i \in 1 .. Len(b.output) /\ c.output[i] = b.output[i]
               \/ i \in Len(b.output) + 1 .. Len(c.output) /\ c.output[i].event = b.event
                  /\ c.output[i].phase # "CLOSE"
    BY <1>1 DEF RowsGrown, RowsAdded
  <1>3. Marked(b) => Marked(c)
    BY DEF RowsGrown, Marked
  <1>4. ~d[b.event].closed
    BY <1>1 DEF Accounted, Begun
  <1>5. UpTo(c, l, U)
    <2>1. ASSUME ~Marked(c), NEW i \in 1 .. Len(c.output), c.output[i].event = b.event
          PROVE  c.output[i].time <= U
      <3>1. CASE i \in 1 .. Len(b.output) /\ c.output[i] = b.output[i]
        <4>1. b.output[i].time <= T /\ b.output[i].time \in Nat
          BY <1>3, <2>1, <3>1, RowTimes DEF UpTo
        <4> QED BY <3>1, <4>1
      <3>2. CASE i \in Len(b.output) + 1 .. Len(c.output)
        BY <2>1, <3>2 DEF TimesGrow
      <3> QED BY <1>2, <3>1, <3>2
    <2>2. ASSUME ~Marked(c), l.event = b.event PROVE l.time <= U
      <3>1. l.time <= T /\ l.time \in Nat
        BY <1>3, <2>2, RowTimes DEF UpTo
      <3> QED BY <3>1
    <2> QED BY <2>1, <2>2 DEF UpTo
  <1>6. ASSUME NEW e \in Events, ~Excused(c, d, e) PROVE TimesInOrder(c, l, d, e)
    <2>1. CASE e = b.event
      <3>1. ~Marked(c) /\ ~Marked(b)
        BY <1>1, <1>3, <1>4, <1>6, <2>1 DEF Excused, Opened
      <3>2. ~Excused(b, d, e)
        BY <1>6, <2>1, <3>1 DEF Excused, Opened
      <3>3. TimesInOrder(b, l, d, e)
        BY <3>2 DEF InTime
      <3>4. /\ \A i \in 1 .. Len(b.output) : b.output[i].event = e => b.output[i].time <= T
            /\ l.event = e => l.time <= T
            /\ TimesGrow(b, c, T, U)
        BY <2>1, <3>1 DEF UpTo
      <3>5. ASSUME NEW i \in 1 .. Len(c.output), NEW j \in 1 .. Len(c.output), i < j,
                   c.output[i].event = e, c.output[j].event = e
            PROVE  c.output[i].time <= c.output[j].time
        <4>1. CASE j \in 1 .. Len(b.output) /\ c.output[j] = b.output[j]
          <5>1. i \in 1 .. Len(b.output) /\ c.output[i] = b.output[i]
            BY <1>1, <1>2, <3>5, <4>1
          <5> QED BY <3>3, <3>5, <4>1, <5>1 DEF TimesInOrder
        <4>2. CASE j \in Len(b.output) + 1 .. Len(c.output)
          <5>1. CASE i \in 1 .. Len(b.output) /\ c.output[i] = b.output[i]
            <6>1. c.output[i].time <= T /\ T <= c.output[j].time
              BY <3>4, <3>5, <4>2, <5>1 DEF TimesGrow
            <6>2. c.output[i].time \in Nat /\ c.output[j].time \in Nat
              BY <3>5, RowTimes
            <6> QED BY <6>1, <6>2
          <5>2. CASE i \in Len(b.output) + 1 .. Len(c.output)
            BY <3>4, <3>5, <4>2, <5>2 DEF TimesGrow
          <5> QED BY <1>2, <5>1, <5>2
        <4> QED BY <1>2, <4>1, <4>2
      <3>6. ASSUME NEW i \in 1 .. Len(c.output), l.event = e, c.output[i].event = e
            PROVE  l.time <= c.output[i].time
        <4>1. CASE i \in 1 .. Len(b.output) /\ c.output[i] = b.output[i]
          BY <3>3, <3>6, <4>1 DEF TimesInOrder
        <4>2. CASE i \in Len(b.output) + 1 .. Len(c.output)
          <5>1. l.time <= T /\ T <= c.output[i].time
            BY <3>4, <3>6, <4>2 DEF TimesGrow
          <5>2. l.time \in Nat /\ c.output[i].time \in Nat
            BY <3>6, RowTimes
          <5> QED BY <5>1, <5>2
        <4> QED BY <1>2, <4>1, <4>2
      <3> QED BY <3>3, <3>5, <3>6 DEF TimesInOrder
    <2>2. CASE e # b.event
      <3>1. ASSUME NEW i \in 1 .. Len(c.output), c.output[i].event = e
            PROVE  i \in 1 .. Len(b.output) /\ c.output[i] = b.output[i]
        BY <1>2, <2>2, <3>1
      <3>2. ~Excused(b, d, e)
        BY <1>6, <2>2, <3>1 DEF Excused, Opened
      <3>3. TimesInOrder(b, l, d, e)
        BY <3>2 DEF InTime
      <3> QED BY <3>1, <3>3 DEF TimesInOrder
    <2> QED BY <2>1, <2>2
  <1> QED BY <1>5, <1>6 DEF InTime

(* The oldest row goes, and its event or the open one is flagged.          *)
LEMMA DroppedInTime ==
  ASSUME NEW b \in Buffer, NEW c \in Buffer, NEW d, NEW l \in AnyRow, NEW f \in Row, NEW m \in BOOLEAN,
         b.event \in Events, EventOpen(b), c.event = b.event, f.event = b.event,
         DroppedFor(b, c, f), EndsWith(c, f), Accounted(b, d, m), InTime(b, l, d)
  PROVE  InTime(c, l, d)
  <1> DEFINE N == OutputCapacity
  <1>1. /\ N \in Nat /\ N >= 2 /\ b.event \in Nat /\ Len(b.output) = N /\ Len(c.output) = N
    BY BufferAssumption DEF Events, DroppedFor
  <1>2. ASSUME NEW i \in 1 .. N
        PROVE  \/ i + 1 \in 1 .. N /\ i \in 1 .. N - 1 /\ c.output[i] = b.output[i + 1]
               \/ i = N /\ c.output[i] = f
    BY <1>1 DEF DroppedFor
  <1>3. ~d[b.event].closed
    BY <1>1 DEF Accounted, Begun
  <1>4. ASSUME NEW e \in Events, ~Excused(c, d, e) PROVE TimesInOrder(c, l, d, e)
    <2>1. e # b.event
      <3>1. SUFFICES ASSUME e = b.event PROVE Excused(c, d, e)
        BY <1>4
      <3>2. CASE EventOpen(c)
        BY <1>1, <1>3, <3>1, <3>2 DEF Excused, Opened, DroppedFor
      <3>3. CASE ~EventOpen(c)
        <4>1. ASSUME NEW i \in 1 .. N, c.output[i].event = e, c.output[i].phase = "CLOSE"
              PROVE  "INCOMPLETE" \in c.output[i].flags
          <5>1. CASE i + 1 \in 1 .. N /\ c.output[i] = b.output[i + 1]
            <6>1. b.output[i + 1].event < b.event
              BY <1>1, <4>1, <5>1 DEF Accounted, Sorted
            <6> QED BY <1>1, <3>1, <4>1, <5>1, <6>1
          <5>2. CASE c.output[i] = f
            BY <3>3, <5>2 DEF EndsWith, DroppedFor
          <5> QED BY <1>2, <5>1, <5>2
        <4> QED BY <1>1, <1>3, <3>1, <3>3, <4>1 DEF Excused, Opened
      <3> QED BY <3>2, <3>3
    <2>2. ASSUME NEW i \in 1 .. N, c.output[i].event = e
          PROVE  i + 1 \in 1 .. N /\ c.output[i] = b.output[i + 1]
      BY <1>2, <2>1, <2>2
    <2>3. ~Excused(b, d, e)
      BY <1>1, <1>4, <2>1, <2>2 DEF Excused, Opened
    <2>4. TimesInOrder(b, l, d, e)
      BY <2>3 DEF InTime
    <2>5. ASSUME NEW i \in 1 .. N, NEW j \in 1 .. N, i < j, c.output[i].event = e, c.output[j].event = e
          PROVE  c.output[i].time <= c.output[j].time
      <3>1. /\ i + 1 \in 1 .. N /\ c.output[i] = b.output[i + 1]
            /\ j + 1 \in 1 .. N /\ c.output[j] = b.output[j + 1] /\ i + 1 < j + 1
        BY <1>1, <2>2, <2>5
      <3> QED BY <1>1, <2>4, <2>5, <3>1 DEF TimesInOrder
    <2>6. ASSUME NEW i \in 1 .. N, l.event = e, c.output[i].event = e
          PROVE  l.time <= c.output[i].time
      <3>1. i + 1 \in 1 .. N /\ c.output[i] = b.output[i + 1]
        BY <2>2, <2>6
      <3> QED BY <1>1, <2>4, <2>6, <3>1 DEF TimesInOrder
    <2> QED BY <1>1, <2>4, <2>5, <2>6 DEF TimesInOrder
  <1> QED BY <1>4 DEF InTime

LEMMA ClosedInTime ==
  ASSUME NEW b \in Buffer, NEW c \in Buffer, NEW d, NEW l \in AnyRow, NEW f \in Row, NEW m \in BOOLEAN,
         b.event \in Events, EventOpen(b), c.event = b.event, f.event = b.event,
         Len(c.output) = Len(b.output) + 1,
         \A i \in 1 .. Len(b.output) : c.output[i] = b.output[i],
         c.output[Len(c.output)] = f,
         f.phase = "CLOSE", ~EventOpen(c), Marked(b) => "INCOMPLETE" \in f.flags,
         Accounted(b, d, m), InTime(b, l, d), UpTo(b, l, f.time)
  PROVE  InTime(c, l, d)
  <1>1. Len(b.output) \in Nat /\ b.event \in Nat
    BY BufferFields DEF Events
  <1>2. ASSUME NEW i \in 1 .. Len(c.output)
        PROVE  \/ i \in 1 .. Len(b.output) /\ c.output[i] = b.output[i]
               \/ i = Len(c.output) /\ c.output[i] = f
    BY <1>1
  <1>3. ~d[b.event].closed
    BY <1>1 DEF Accounted, Begun
  <1>4. ASSUME NEW e \in Events, ~Excused(c, d, e) PROVE TimesInOrder(c, l, d, e)
    <2>1. CASE e = b.event
      <3>1. "INCOMPLETE" \notin f.flags
        <4>1. SUFFICES ASSUME "INCOMPLETE" \in f.flags PROVE Excused(c, d, e)
          BY <1>4
        <4>2. ASSUME NEW i \in 1 .. Len(c.output), c.output[i].event = e, c.output[i].phase = "CLOSE"
              PROVE  "INCOMPLETE" \in c.output[i].flags
          <5>1. CASE i \in 1 .. Len(b.output) /\ c.output[i] = b.output[i]
            <6>1. b.output[i].event < b.event
              BY <4>2, <5>1 DEF Accounted, Sorted
            <6> QED BY <1>1, <2>1, <4>2, <5>1, <6>1
          <5>2. CASE c.output[i] = f
            BY <4>1, <5>2
          <5> QED BY <1>2, <5>1, <5>2
        <4> QED BY <1>1, <1>3, <2>1, <4>2 DEF Excused, Opened
      <3>2. ~Marked(b)
        BY <3>1
      <3>3. ~Excused(b, d, e)
        BY <1>4, <2>1, <3>2 DEF Excused, Opened
      <3>4. TimesInOrder(b, l, d, e)
        BY <3>3 DEF InTime
      <3>5. /\ \A i \in 1 .. Len(b.output) : b.output[i].event = e => b.output[i].time <= f.time
            /\ l.event = e => l.time <= f.time
        BY <2>1, <3>2 DEF UpTo
      <3>6. ASSUME NEW i \in 1 .. Len(c.output), NEW j \in 1 .. Len(c.output), i < j,
                   c.output[i].event = e, c.output[j].event = e
            PROVE  c.output[i].time <= c.output[j].time
        <4>1. i \in 1 .. Len(b.output) /\ c.output[i] = b.output[i]
          BY <1>1, <1>2, <3>6
        <4> QED BY <1>2, <3>4, <3>5, <3>6, <4>1 DEF TimesInOrder
      <3> QED BY <1>2, <3>4, <3>5, <3>6 DEF TimesInOrder
    <2>2. CASE e # b.event
      <3>1. ASSUME NEW i \in 1 .. Len(c.output), c.output[i].event = e
            PROVE  i \in 1 .. Len(b.output) /\ c.output[i] = b.output[i]
        BY <1>2, <2>2, <3>1
      <3>2. ~Excused(b, d, e)
        BY <1>4, <2>2, <3>1 DEF Excused, Opened
      <3>3. TimesInOrder(b, l, d, e)
        BY <3>2 DEF InTime
      <3> QED BY <3>1, <3>3 DEF TimesInOrder
    <2> QED BY <2>1, <2>2
  <1> QED BY <1>4 DEF InTime
-----------------------------------------------------------------------------
Latest(b) == b.ring[Len(b.ring)]

(* The samples of the ring are in the order of time.                       *)
RingInOrder(b) == \A i, j \in 1 .. Len(b.ring) : i <= j => b.ring[i] <= b.ring[j]

(* The rows of the open event reach no further than a sample of the ring   *)
(* that the next tick may use.                                             *)
ReadyToEmit(b, l) ==
  EventOpen(b) =>
    \E k \in 1 .. Len(b.ring) :
      /\ UpTo(b, l, b.ring[k])
      /\ Marked(b) \/ b.ring[k] <= b.next
      /\ b.run_phase = "POST" => b.ring[k] <= b.post_end

LEMMA RingFields ==
  ASSUME NEW b \in Buffer
  PROVE  /\ Len(b.ring) \in Nat /\ b.ring \in Seq(Time)
         /\ \A i \in 1 .. Len(b.ring) : b.ring[i] \in Time /\ b.ring[i] \in Nat
         /\ b.ring # <<>> => Len(b.ring) \in 1 .. Len(b.ring)
  <1>1. Len(b.ring) \in Nat /\ b.ring \in Seq(Time)
    BY BufferFields
  <1>2. \A i \in 1 .. Len(b.ring) : b.ring[i] \in Time
    BY <1>1
  <1> QED BY <1>1, <1>2, BufferAssumption DEF Time

(* The sample of a deadline is the newest that is not after it.            *)
LEMMA SelectedSample ==
  ASSUME NEW b \in Buffer, NEW D \in Nat, NEW k \in 1 .. Len(b.ring), b.ring[k] <= D
  PROVE  \E j \in 1 .. Len(b.ring) :
           /\ SelectSample(b, D) = b.ring[j] /\ b.ring[j] <= D
           /\ \A i \in 1 .. Len(b.ring) : b.ring[i] <= D => i <= j
  <1> DEFINE old == {i \in DOMAIN b.ring : b.ring[i] <= D}
             j == CHOOSE i \in old : \A n \in old : n <= i
  <1>1. b.ring \in Seq(Time) /\ Len(b.ring) \in Nat /\ DOMAIN b.ring = 1 .. Len(b.ring)
    BY BufferFields
  <1>2. k \in old
    BY <1>1
  <1>3. SelectSample(b, D) = b.ring[j]
    BY <1>2 DEF SelectSample
  <1>4. j \in old /\ \A n \in old : n <= j
    <2>1. \E i \in old : \A n \in old : n <= i
      <3>1. old \in SUBSET (0 .. Len(b.ring)) /\ old # {}
        BY <1>1, <1>2
      <3> HIDE DEF old
      <3> QED BY <1>1, <3>1, NewestIndex
    <2> HIDE DEF old
    <2> QED BY <2>1
  <1>5. j \in 1 .. Len(b.ring) /\ b.ring[j] <= D
    BY <1>1, <1>4
  <1>6. ASSUME NEW i \in 1 .. Len(b.ring), b.ring[i] <= D PROVE i <= j
    <2>1. i \in old
      BY <1>1, <1>6
    <2> HIDE DEF old, j
    <2> QED BY <1>4, <2>1
  <1> HIDE DEF j, old
  <1> QED BY <1>3, <1>5, <1>6

LEMMA EmitInTime ==
  ASSUME NEW b, NEW d, NEW l \in AnyRow, NEW m \in BOOLEAN, Typed(b), EventOpen(b),
         NEW limit \in Time, RingInOrder(b), Ordered(b, l), ReadyToEmit(b, l),
         Accounted(b, d, m), InTime(b, l, d)
  PROVE  LET c == EmitActiveOrPost(b, limit)
         IN  /\ InTime(c, l, d) /\ UpTo(c, l, Latest(b))
             /\ b.run_phase = "POST" /\ limit = b.post_end => UpTo(c, l, limit)
  <1> DEFINE c == EmitActiveOrPost(b, limit)
             old == Len(b.output)
  <1>1. PICK k \in 1 .. Len(b.ring) :
          /\ UpTo(b, l, b.ring[k])
          /\ Marked(b) \/ b.ring[k] <= b.next
          /\ b.run_phase = "POST" => b.ring[k] <= b.post_end
    BY DEF ReadyToEmit
  <1>2. /\ b \in Buffer /\ b.event \in Events /\ b.next \in Nat /\ b.post_end \in Nat
        /\ Len(b.output) \in Nat /\ Period \in Nat \ {0} /\ limit \in Nat /\ b.ring # <<>>
        /\ Len(b.ring) \in 1 .. Len(b.ring)
    <2>1. b \in Buffer /\ b.event \in Events /\ b.ring # <<>>
      BY DEF Typed
    <2>2. b.next \in Nat /\ b.post_end \in Nat /\ Len(b.output) \in Nat /\ Len(b.ring) \in Nat
      BY <2>1, BufferFields
    <2> QED BY <2>1, <2>2, RingFields, BufferAssumption DEF Time
  <1>3. /\ RowsGrown(b, c)
        /\ \A i \in old + 1 .. Len(c.output) :
             /\ Deadline(b, i) \in Nat /\ Deadline(b, i) <= limit
             /\ c.output[i].time = SelectSample(b, Deadline(b, i))
    BY EmitForm
  <1>4. c \in Buffer /\ c.event = b.event /\ EventOpen(c)
    <2>1. SameEvent(b, c, l)
      BY <1>2, EmitEffect
    <2> QED BY <2>1 DEF SameEvent, Typed, EventOpen
  <1> HIDE DEF c
  <1>5. /\ b.ring[k] \in Nat /\ Latest(b) \in Nat /\ b.ring[k] <= Latest(b)
        /\ \A i \in 1 .. Len(b.ring) : b.ring[i] <= Latest(b)
    BY <1>2, RingFields DEF Latest, RingInOrder
  <1>6. ASSUME ~Marked(b), NEW i \in old + 1 .. Len(c.output)
        PROVE  \E j \in 1 .. Len(b.ring) :
                 /\ c.output[i].time = b.ring[j] /\ b.ring[j] <= Deadline(b, i) /\ k <= j
                 /\ \A n \in 1 .. Len(b.ring) : b.ring[n] <= Deadline(b, i) => n <= j
    <2>1. b.next <= Deadline(b, i)
      <3> DEFINE x == i - old - 1
      <3>1. x \in Nat
        BY <1>2, <1>6
      <3> HIDE DEF x
      <3>2. x * Period \in Nat
        BY <1>2, <3>1
      <3>3. Deadline(b, i) = b.next + x * Period
        BY DEF Deadline, x
      <3> QED BY <1>2, <3>2, <3>3
    <2>2. Deadline(b, i) \in Nat
      BY <1>3, <1>6
    <2>3. b.ring[k] <= Deadline(b, i)
      BY <1>1, <1>2, <1>5, <1>6, <2>1, <2>2
    <2>4. PICK j \in 1 .. Len(b.ring) :
            /\ SelectSample(b, Deadline(b, i)) = b.ring[j] /\ b.ring[j] <= Deadline(b, i)
            /\ \A n \in 1 .. Len(b.ring) : b.ring[n] <= Deadline(b, i) => n <= j
      BY <1>2, <2>2, <2>3, SelectedSample
    <2>5. k <= j
      BY <2>3, <2>4
    <2> QED BY <1>3, <1>6, <2>4, <2>5
  <1>7. ASSUME ~Marked(b), NEW i \in old + 1 .. Len(c.output)
        PROVE  /\ b.ring[k] <= c.output[i].time /\ c.output[i].time <= Latest(b)
               /\ c.output[i].time <= limit
    <2>1. PICK j \in 1 .. Len(b.ring) :
            c.output[i].time = b.ring[j] /\ b.ring[j] <= Deadline(b, i) /\ k <= j
      BY <1>6, <1>7
    <2>2. Deadline(b, i) \in Nat /\ Deadline(b, i) <= limit /\ b.ring[j] \in Nat
      BY <1>2, <1>3, <1>7, RingFields
    <2>3. c.output[i].time <= limit
      BY <1>2, <2>1, <2>2
    <2> QED BY <1>5, <2>1, <2>3 DEF RingInOrder
  <1>8. ASSUME ~Marked(b), NEW i \in old + 1 .. Len(c.output), NEW j \in old + 1 .. Len(c.output), i < j
        PROVE  c.output[i].time <= c.output[j].time
    <2>1. PICK p \in 1 .. Len(b.ring) :
            c.output[i].time = b.ring[p] /\ b.ring[p] <= Deadline(b, i)
      BY <1>6, <1>8
    <2>2. PICK q \in 1 .. Len(b.ring) :
            /\ c.output[j].time = b.ring[q]
            /\ \A n \in 1 .. Len(b.ring) : b.ring[n] <= Deadline(b, j) => n <= q
      BY <1>6, <1>8
    <2>3. Deadline(b, i) <= Deadline(b, j)
      <3> DEFINE x == i - old - 1
                 y == j - old - 1
      <3>1. x \in Nat /\ y \in Nat /\ x <= y
        BY <1>2, <1>8
      <3> HIDE DEF x, y
      <3>2. x * Period \in Nat /\ y * Period \in Nat /\ x * Period <= y * Period
        BY <1>2, <3>1
      <3>3. Deadline(b, i) = b.next + x * Period /\ Deadline(b, j) = b.next + y * Period
        BY DEF Deadline, x, y
      <3> QED BY <1>2, <3>2, <3>3
    <2>4. b.ring[p] <= Deadline(b, j)
      BY <1>2, <1>3, <1>8, <2>1, <2>3, RingFields
    <2>5. p <= q
      BY <2>2, <2>4
    <2> QED BY <2>1, <2>2, <2>5 DEF RingInOrder
  <1>9. ASSUME NEW U \in {Latest(b), limit}
        PROVE  Marked(c) \/ TimesGrow(b, c, b.ring[k], U)
    <2>1. Marked(b) => Marked(c)
      BY <1>3 DEF RowsGrown, Marked
    <2> QED BY <1>7, <1>8, <1>9, <2>1 DEF TimesGrow
  <1>10. InTime(c, l, d) /\ UpTo(c, l, Latest(b))
    <2>1. Marked(c) \/ TimesGrow(b, c, b.ring[k], Latest(b))
      BY <1>9
    <2> QED BY <1>1, <1>2, <1>3, <1>4, <1>5, <2>1, GrownInTime
  <1>11. ASSUME b.run_phase = "POST", limit = b.post_end PROVE UpTo(c, l, limit)
    <2>1. Marked(c) \/ TimesGrow(b, c, b.ring[k], limit)
      BY <1>9
    <2>2. b.ring[k] <= limit
      BY <1>1, <1>11
    <2> QED BY <1>1, <1>2, <1>3, <1>4, <1>5, <2>1, <2>2, GrownInTime
  <1> QED BY <1>10, <1>11 DEF c

(* Calls that leave the queue as it is.                                    *)
LEMMA SameRowsInTime ==
  ASSUME NEW b \in Buffer, NEW c \in Buffer, NEW d, NEW l \in AnyRow,
         c.run_phase = b.run_phase, c.event = b.event, c.output = b.output,
         b.flags \subseteq c.flags, InTime(b, l, d)
  PROVE  /\ InTime(c, l, d)
         /\ \A T : UpTo(b, l, T) => UpTo(c, l, T)
  BY DEF InTime, Excused, TimesInOrder, UpTo, Opened, EventOpen, Marked

LEMMA TriggerInTime ==
  ASSUME NEW b \in Buffer, NEW d, NEW l \in AnyRow, NEW m \in BOOLEAN, NEW r \in Row,
         Len(b.output) <= OutputCapacity, b.event \in Events, EventOpen(b),
         r.event = b.event, r.phase = "TRIGGER",
         Accounted(b, d, m), InTime(b, l, d), UpTo(b, l, r.time)
  PROVE  LET c == QueueRecordForce(b, r)
         IN  InTime(c, l, d) /\ UpTo(c, l, r.time)
  <1> DEFINE c == QueueRecordForce(b, r)
  <1>1. OutputRoom(b) \in Nat /\ r.time \in Nat
    BY RoomLeft, RowTimes DEF AnyRow
  <1>2. CASE OutputRoom(b) > 0
    <2>1. c = QueueRecord(b, r)
      BY <1>2 DEF QueueRecordForce
    <2>2. /\ Kept(b, c) /\ RowsGrown(b, c)
          /\ \A i \in Len(b.output) + 1 .. Len(c.output) : c.output[i].time = r.time
      BY <2>1, QueueGrows
    <2> HIDE DEF c
    <2>3. c \in Buffer /\ c.event = b.event /\ EventOpen(c)
      BY <2>2 DEF Kept, EventOpen
    <2>4. TimesGrow(b, c, r.time, r.time)
      BY <1>1, <2>2 DEF TimesGrow
    <2>5. InTime(c, l, d) /\ UpTo(c, l, r.time)
      BY <1>1, <2>2, <2>3, <2>4, GrownInTime
    <2> QED BY <2>5 DEF c
  <1>3. CASE OutputRoom(b) = 0
    <2>1. PICK f \in Row : /\ f.event = r.event /\ f.phase = r.phase
                           /\ "INCOMPLETE" \in f.flags /\ DroppedFor(b, c, f)
      BY <1>3, ForcedForm
    <2>2. Kept(b, c)
      BY <1>3, ForcedForm
    <2> HIDE DEF c
    <2>3. c \in Buffer /\ c.event = b.event /\ EventOpen(c) /\ EndsWith(c, f)
      BY <2>1, <2>2 DEF Kept, EventOpen, EndsWith
    <2>4. InTime(c, l, d)
      BY <2>1, <2>3, DroppedInTime
    <2>5. UpTo(c, l, r.time)
      BY <2>1 DEF DroppedFor, UpTo
    <2> QED BY <2>4, <2>5 DEF c
  <1>4. OutputRoom(b) > 0 \/ OutputRoom(b) = 0
    BY <1>1
  <1> QED BY <1>2, <1>3, <1>4

(* No row was pulled of an event that is still to come.                    *)
LEMMA LastNotLater ==
  ASSUME NEW b \in Buffer, NEW d, NEW l \in AnyRow, NEW m \in BOOLEAN,
         ~EventOpen(b), Ordered(b, l), Accounted(b, d, m)
  PROVE  /\ l.event <= b.event
         /\ \A i \in 1 .. Len(b.output) : b.output[i].event <= b.event
  <1>1. /\ \A i \in 1 .. Len(b.output) : b.output[i].event <= b.event
        /\ b.event \in Nat /\ l.event \in Nat /\ b.output \in Seq(Row)
    BY BufferFields, RowFields DEF Accounted, Sorted
  <1>2. CASE b.output = <<>>
    BY <1>1, <1>2 DEF Ordered, NewestFits, Newest, EndOf
  <1>3. CASE b.output # <<>>
    <2>1. 1 \in 1 .. Len(b.output)
      BY <1>1, <1>3
    <2>2. Follows(l, b.output[1]) /\ b.output[1].event <= b.event /\ b.output[1].event \in Nat
      BY <1>1, <1>3, <2>1, QueueFields DEF Ordered, Chain
    <2> QED BY <1>1, <2>2 DEF Follows
  <1> QED BY <1>1, <1>2, <1>3

LEMMA OpenedInTime ==
  ASSUME NEW b, NEW d, NEW l \in AnyRow, NEW m \in BOOLEAN, Typed(b), ~EventOpen(b), Ordered(b, l),
         b.event + 1 \in Events, NEW t \in Time, Accounted(b, d, m), InTime(b, l, d)
  PROVE  LET o == JustOpened(b, t)
         IN  InTime(o, l, d) /\ UpTo(o, l, 0)
  <1> DEFINE o == JustOpened(b, t)
  <1>1. /\ o \in Buffer /\ o.event = b.event + 1 /\ o.output = b.output /\ EventOpen(o)
        /\ b.event \in Nat /\ b \in Buffer
    BY OpenedAccounted DEF Typed
  <1> HIDE DEF o
  <1>2. /\ l.event <= b.event /\ l.event \in Nat
        /\ \A i \in 1 .. Len(b.output) : b.output[i].event <= b.event /\ b.output[i].event \in Nat
    BY <1>1, LastNotLater, QueueFields, RowFields
  <1>3. /\ l.event # o.event
        /\ \A i \in 1 .. Len(b.output) : b.output[i].event # o.event
    BY <1>1, <1>2
  <1>4. UpTo(o, l, 0)
    BY <1>1, <1>3 DEF UpTo
  <1>5. ASSUME NEW e \in Events, ~Excused(o, d, e) PROVE TimesInOrder(o, l, d, e)
    <2>1. ~Excused(b, d, e)
      <3>1. SUFFICES ASSUME Excused(b, d, e), ~d[e].incomplete PROVE Excused(o, d, e)
        BY <1>5 DEF Excused
      <3>2. /\ ~d[e].closed /\ e <= b.event
            /\ \A i \in 1 .. Len(b.output) :
                 b.output[i].event = e /\ b.output[i].phase = "CLOSE" =>
                   "INCOMPLETE" \in b.output[i].flags
        BY <3>1 DEF Excused, Opened
      <3>3. e <= o.event /\ ~Opened(o, e)
        BY <1>1, <3>2 DEF Opened, Events
      <3> QED BY <1>1, <3>2, <3>3 DEF Excused
    <2> QED BY <1>1, <2>1 DEF InTime, TimesInOrder
  <1> QED BY <1>4, <1>5 DEF InTime, o

LEMMA StartInTime ==
  ASSUME NEW b, NEW d, NEW l \in AnyRow, NEW m \in BOOLEAN, Typed(b), ~EventOpen(b), Ordered(b, l),
         b.ring # <<>>, RingInOrder(b), b.event + 1 \in Events, Latest(b) \in Time,
         Accounted(b, d, m), InTime(b, l, d)
  PROVE  LET c == StartEvent(b, Latest(b))
         IN  InTime(c, l, d) /\ ReadyToEmit(c, l) /\ c.ring = b.ring
  <1> DEFINE t == Latest(b)
             o == JustOpened(b, t)
             pre == QueuePre(o)
             r == EventRow(pre, "TRIGGER", t)
             c == StartEvent(b, t)
  <1>1. c = QueueRecordForce(pre, r)
    BY DEF StartEvent, JustOpened
  <1>2. /\ Typed(c) /\ c.ring = b.ring /\ c.run_phase = "ACTIVE" /\ c.next = t + Period
    BY StartEffect
  <1> HIDE DEF c
  <1>3. /\ o \in Buffer /\ o.event = b.event + 1 /\ o.ring = b.ring /\ o.output = b.output
        /\ EventOpen(o) /\ Accounted(o, d, FALSE)
    BY OpenedAccounted
  <1>4. InTime(o, l, d) /\ UpTo(o, l, 0)
    BY OpenedInTime
  <1> HIDE DEF o
  <1>5. /\ o.event \in Events /\ Len(o.output) <= OutputCapacity /\ o.ring # <<>>
        /\ t \in Nat /\ Len(b.ring) \in 1 .. Len(b.ring) /\ b \in Buffer
        /\ \A i \in 1 .. Len(b.ring) : b.ring[i] \in Nat /\ b.ring[i] <= t
    BY <1>3, RingFields DEF Typed, Latest, Time, RingInOrder
  <1>6. PICK w \in BOOLEAN : Accounted(o, d, w)
    <2>1. FALSE \in BOOLEAN
      OBVIOUS
    <2> QED BY <1>3, <2>1
  <1>7. /\ Kept(o, pre) /\ Len(pre.output) <= OutputCapacity /\ Accounted(pre, d, w)
        /\ RowsGrown(o, pre)
        /\ \A i \in Len(o.output) + 1 .. Len(pre.output) :
             /\ i - Len(o.output) \in 1 .. Len(o.ring)
             /\ pre.output[i].time = o.ring[i - Len(o.output)]
    BY <1>3, <1>5, <1>6, PreAccounted
  <1> HIDE DEF pre
  <1>8. /\ pre \in Buffer /\ pre.event = o.event /\ pre.event \in Events /\ EventOpen(pre)
    BY <1>3, <1>5, <1>7 DEF Kept, EventOpen
  <1>9. TimesGrow(o, pre, 0, t)
    <2>1. ASSUME NEW i \in Len(o.output) + 1 .. Len(pre.output)
          PROVE  /\ i - Len(o.output) \in 1 .. Len(b.ring)
                 /\ pre.output[i].time = b.ring[i - Len(o.output)]
      BY <1>3, <1>7
    <2>2. ASSUME NEW i \in Len(o.output) + 1 .. Len(pre.output)
          PROVE  0 <= pre.output[i].time /\ pre.output[i].time <= t
      <3> DEFINE j == i - Len(o.output)
      <3>1. j \in 1 .. Len(b.ring) /\ pre.output[i].time = b.ring[j]
        BY <2>1
      <3> HIDE DEF j
      <3>2. b.ring[j] \in Nat /\ b.ring[j] <= t
        BY <1>5, <3>1
      <3> QED BY <1>5, <3>1, <3>2
    <2>3. ASSUME NEW i \in Len(o.output) + 1 .. Len(pre.output),
                 NEW j \in Len(o.output) + 1 .. Len(pre.output), i < j
          PROVE  pre.output[i].time <= pre.output[j].time
      <3>1. Len(o.output) \in Nat
        BY <1>3, BufferFields
      <3>2. i - Len(o.output) <= j - Len(o.output)
        BY <2>3, <3>1
      <3> QED BY <2>1, <3>2 DEF RingInOrder
    <2> QED BY <2>2, <2>3 DEF TimesGrow
  <1>10. InTime(pre, l, d) /\ UpTo(pre, l, t)
    <2>1. 0 \in Nat /\ 0 <= t
      BY <1>5
    <2> QED BY <1>3, <1>4, <1>5, <1>6, <1>7, <1>8, <1>9, <2>1, GrownInTime
  <1>11. r \in Row /\ r.event = pre.event /\ r.phase = "TRIGGER" /\ r.time = t
    BY <1>8, EventRowTyped DEF Phase, EventRow
  <1> HIDE DEF r
  <1>12. InTime(c, l, d) /\ UpTo(c, l, t)
    BY <1>1, <1>7, <1>8, <1>10, <1>11, TriggerInTime
  <1>13. ReadyToEmit(c, l)
    <2>1. /\ Len(b.ring) \in 1 .. Len(c.ring) /\ c.ring[Len(b.ring)] = t
          /\ t <= c.next /\ c.run_phase # "POST"
      BY <1>2, <1>5, BufferAssumption DEF Latest
    <2> QED BY <1>12, <2>1 DEF ReadyToEmit
  <1> QED BY <1>2, <1>12, <1>13 DEF c

LEMMA EnterPostInTime ==
  ASSUME NEW b, NEW d, NEW l \in AnyRow, NEW m \in BOOLEAN, Typed(b), EventOpen(b),
         Latest(b) \in Time, Due(b, now),
         Accounted(b, d, m), InTime(b, l, d), UpTo(b, l, Latest(b))
  PROVE  LET c == EnterPost(b, Latest(b))
         IN  InTime(c, l, d) /\ ReadyToEmit(c, l) /\ c.ring = b.ring
  <1> DEFINE t == Latest(b)
             c == EnterPost(b, t)
  <1>1. /\ c \in Buffer /\ c.event = b.event /\ c.run_phase = "POST" /\ c.ring = b.ring
        /\ c.next = t + Period /\ c.post_end = t + PostDuration
        /\ RowsGrown(b, c)
        /\ \A i \in Len(b.output) + 1 .. Len(c.output) : c.output[i].time = t
    BY EnterPostForm
  <1>2. /\ b \in Buffer /\ b.event \in Events /\ b.ring # <<>>
        /\ t \in Nat /\ Len(b.ring) \in 1 .. Len(b.ring)
    BY RingFields DEF Typed, Time
  <1> HIDE DEF c
  <1>3. EventOpen(c)
    BY <1>1 DEF EventOpen
  <1>4. TimesGrow(b, c, t, t)
    BY <1>1, <1>2 DEF TimesGrow
  <1>5. InTime(c, l, d) /\ UpTo(c, l, t)
    BY <1>1, <1>2, <1>3, <1>4, GrownInTime
  <1>6. ReadyToEmit(c, l)
    <2>1. /\ Len(b.ring) \in 1 .. Len(c.ring) /\ c.ring[Len(b.ring)] = t
          /\ t <= c.next /\ t <= c.post_end
      BY <1>1, <1>2, BufferAssumption DEF Latest
    <2> QED BY <1>5, <2>1 DEF ReadyToEmit
  <1> QED BY <1>1, <1>5, <1>6 DEF c

LEMMA UpdateEventInTime ==
  ASSUME NEW b, NEW d, NEW l \in AnyRow, NEW m \in BOOLEAN, Typed(b), NEW active,
         Latest(b) \in Time, Due(b, now), ReadyToEmit(b, l),
         Accounted(b, d, m), InTime(b, l, d), EventOpen(b) => UpTo(b, l, Latest(b))
  PROVE  LET c == UpdateEvent(b, active, Latest(b))
         IN  InTime(c, l, d) /\ ReadyToEmit(c, l) /\ c.ring = b.ring
  <1> DEFINE t == Latest(b)
             c == UpdateEvent(b, active, t)
  <1>1. \/ c = b
        \/ /\ EventOpen(b) /\ c \in Buffer /\ c.event = b.event /\ c.run_phase = "ACTIVE"
           /\ c.ring = b.ring /\ c.next = t /\ c.output = b.output
           /\ RowsGrown(b, c)
    BY UpdateEventForm
  <1> HIDE DEF c
  <1>2. CASE c = b
    BY <1>2 DEF c
  <1>3. CASE c # b
    <2>1. /\ b \in Buffer /\ b.event \in Events /\ b.ring # <<>>
          /\ t \in Nat /\ Len(b.ring) \in 1 .. Len(b.ring) /\ Len(b.output) \in Nat
      BY <1>1, <1>3, RingFields, BufferFields DEF Typed, Time
    <2>2. EventOpen(b) /\ EventOpen(c) /\ c \in Buffer /\ c.event = b.event /\ RowsGrown(b, c)
      BY <1>1, <1>3 DEF EventOpen
    <2>3. TimesGrow(b, c, t, t)
      BY <1>1, <1>3, <2>1 DEF TimesGrow
    <2>4. InTime(c, l, d) /\ UpTo(c, l, t)
      BY <2>1, <2>2, <2>3, GrownInTime
    <2>5. ReadyToEmit(c, l)
      <3>1. /\ Len(b.ring) \in 1 .. Len(c.ring) /\ c.ring[Len(b.ring)] = t
            /\ t <= c.next /\ c.run_phase # "POST"
        BY <1>1, <1>3, <2>1 DEF Latest
      <3> QED BY <2>4, <3>1 DEF ReadyToEmit
    <2> QED BY <1>1, <1>3, <2>4, <2>5 DEF c
  <1> QED BY <1>2, <1>3

LEMMA NoteInTime ==
  ASSUME NEW b, NEW d, NEW l \in AnyRow, NEW m \in BOOLEAN, Typed(b), b.ring # <<>>,
         NEW was, NEW active, Latest(b) \in Time, Ordered(b, l), RingInOrder(b),
         NoteAlarmResult(b, was, active, Latest(b)).event <= MaxEvents,
         Due(b, now), ReadyToEmit(b, l),
         Accounted(b, d, m), InTime(b, l, d), EventOpen(b) => UpTo(b, l, Latest(b))
  PROVE  LET c == NoteAlarmResult(b, was, active, Latest(b))
         IN  InTime(c, l, d) /\ ReadyToEmit(c, l) /\ c.ring = b.ring
  <1>1. CASE was /\ ~active
    <2>1. CASE EventOpen(b)
      BY <1>1, <2>1, EnterPostInTime DEF NoteAlarmResult
    <2>2. CASE ~EventOpen(b)
      BY <1>1, <2>2 DEF NoteAlarmResult
    <2> QED BY <2>1, <2>2
  <1>2. CASE ~(was /\ ~active) /\ active /\ ~EventOpen(b)
    <2>1. NoteAlarmResult(b, was, active, Latest(b)) = StartEvent(b, Latest(b))
      BY <1>2 DEF NoteAlarmResult
    <2>2. b \in Buffer /\ b.event \in Nat
      BY BufferFields DEF Typed
    <2>3. b.event + 1 \in Events
      <3>1. b.event + 1 <= MaxEvents
        BY <2>1, <2>2, StartNumbers
      <3> QED BY <2>2, <3>1, BufferAssumption DEF Events
    <2> QED BY <1>2, <2>1, <2>3, StartInTime
  <1>3. CASE ~(was /\ ~active) /\ ~(active /\ ~EventOpen(b))
    BY <1>3, UpdateEventInTime DEF NoteAlarmResult
  <1> QED BY <1>1, <1>2, <1>3

LEMMA LastRowInTime ==
  ASSUME NEW b \in Buffer, NEW d, NEW l \in AnyRow, NEW m \in BOOLEAN, NEW r \in Row,
         Len(b.output) <= OutputCapacity, b.event \in Events, EventOpen(b),
         r.event = b.event, r.phase = "CLOSE", Marked(b) => "INCOMPLETE" \in r.flags,
         Accounted(b, d, m), InTime(b, l, d), UpTo(b, l, r.time)
  PROVE  InTime([QueueRecordForce(b, r) EXCEPT !.run_phase = "IDLE"], l, d)
  <1> DEFINE q == QueueRecordForce(b, r)
             c == [q EXCEPT !.run_phase = "IDLE"]
  <1>1. OutputRoom(b) \in Nat
    BY RoomLeft
  <1>2. CASE OutputRoom(b) > 0
    <2> DEFINE f == [r EXCEPT !.flags = @ \cup b.flags]
    <2>1. /\ Kept(b, q) /\ f \in Row /\ f.event = r.event /\ f.phase = r.phase
          /\ f.time = r.time /\ f.flags = r.flags \cup b.flags
          /\ q.output = Append(b.output, f)
      BY <1>2, QueueRecordForm DEF QueueRecordForce
    <2> HIDE DEF q, f
    <2>2. c \in Buffer /\ c.event = b.event /\ ~EventOpen(c) /\ c.output = q.output
      BY <2>1 DEF Kept, Buffer, EventOpen
    <2> DEFINE out == Append(b.output, f)
    <2>3. /\ Len(out) = Len(b.output) + 1 /\ out[Len(out)] = f
          /\ \A i \in 1 .. Len(b.output) : out[i] = b.output[i]
      <3>1. Len(b.output) \in Nat /\ b.output \in Seq(Row)
        BY BufferFields
      <3> QED BY <2>1, <3>1
    <2> HIDE DEF c, out
    <2>4. /\ Len(c.output) = Len(b.output) + 1 /\ c.output[Len(c.output)] = f
          /\ \A i \in 1 .. Len(b.output) : c.output[i] = b.output[i]
      <3>1. c.output = out
        BY <2>1, <2>2 DEF out
      <3> QED BY <2>3, <3>1
    <2>5. UpTo(b, l, f.time) /\ (Marked(b) => "INCOMPLETE" \in f.flags)
      BY <2>1
    <2>6. InTime(c, l, d)
      BY <2>1, <2>2, <2>4, <2>5, ClosedInTime
    <2> QED BY <2>6 DEF c, q
  <1>3. CASE OutputRoom(b) = 0
    <2>1. PICK f \in Row : /\ f.event = r.event /\ f.phase = r.phase
                           /\ "INCOMPLETE" \in f.flags /\ DroppedFor(b, q, f)
      BY <1>3, ForcedForm
    <2>2. Kept(b, q)
      BY <1>3, ForcedForm
    <2> HIDE DEF q
    <2>3. /\ c \in Buffer /\ c.event = b.event /\ ~EventOpen(c) /\ c.lost = q.lost
          /\ c.output = q.output /\ c.flags = q.flags
      BY <2>2 DEF Kept, Buffer, EventOpen
    <2> HIDE DEF c
    <2>4. DroppedFor(b, c, f) /\ EndsWith(c, f)
      BY <2>1, <2>3 DEF DroppedFor, EndsWith, Marked
    <2>5. InTime(c, l, d)
      BY <2>1, <2>3, <2>4, DroppedInTime
    <2> QED BY <2>5 DEF c, q
  <1>4. OutputRoom(b) > 0 \/ OutputRoom(b) = 0
    BY <1>1
  <1> QED BY <1>2, <1>3, <1>4

LEMMA CloseInTime ==
  ASSUME NEW b, NEW d, NEW l \in AnyRow, NEW m \in BOOLEAN, Typed(b), EventOpen(b),
         NEW t \in Time, NEW forced \in BOOLEAN, b.next < t => forced \/ Marked(b),
         Accounted(b, d, m), InTime(b, l, d), forced \/ UpTo(b, l, t)
  PROVE  InTime(CloseEvent(b, t, forced), l, d)
  <1> DEFINE flagged == IF forced THEN Flagged(b, {"INCOMPLETE", "FORCED_CLOSE"}) ELSE b
             counted == IF b.next < t THEN Lose(flagged, b.event) ELSE flagged
             r == EventRow(flagged, "CLOSE", t)
  <1>1. CloseEvent(b, t, forced) = [QueueRecordForce(counted, r) EXCEPT !.run_phase = "IDLE"]
    BY DEF CloseEvent
  <1>2. b \in Buffer /\ b.event \in Events /\ Len(b.output) <= OutputCapacity
    BY DEF Typed
  <1>3. /\ flagged \in Buffer /\ flagged.event = b.event /\ flagged.output = b.output
        /\ flagged.run_phase = b.run_phase /\ b.flags \subseteq flagged.flags
        /\ flagged.lost = b.lost /\ (forced => Marked(flagged))
    <2>1. CASE forced
      <3>1. Kept(b, flagged) /\ flagged.output = b.output /\ flagged.lost = b.lost
            /\ flagged.flags = b.flags \cup {"INCOMPLETE", "FORCED_CLOSE"}
        BY <1>2, <2>1, FlaggedKept DEF Flag, Flagged, Buffer
      <3> QED BY <3>1 DEF Kept, Marked
    <2>2. CASE ~forced
      BY <1>2, <2>2
    <2> QED BY <2>1, <2>2
  <1> HIDE DEF flagged
  <1>4. r \in Row /\ r.event = b.event /\ r.phase = "CLOSE" /\ r.flags = flagged.flags /\ r.time = t
    BY <1>2, <1>3, EventRowTyped DEF Phase, EventRow
  <1> HIDE DEF r
  <1>5. /\ counted \in Buffer /\ counted.event = b.event /\ counted.output = b.output
        /\ counted.run_phase = b.run_phase /\ counted.flags = flagged.flags
        /\ counted.lost = IF b.next < t THEN b.lost \cup {b.event} ELSE b.lost
    BY <1>2, <1>3 DEF Lose, Buffer
  <1> HIDE DEF counted
  <1>6. RowsGrown(b, counted) /\ EventOpen(counted)
    <2>1. Len(b.output) \in Nat
      BY <1>2, BufferFields
    <2>2. b.next < t => Marked(counted)
      BY <1>3, <1>5 DEF Marked
    <2> QED BY <1>3, <1>5, <2>1, <2>2 DEF RowsGrown, RowsAdded, EventOpen
  <1>7. /\ Len(counted.output) <= OutputCapacity /\ counted.event \in Events
        /\ r.event = counted.event
        /\ Marked(counted) => "INCOMPLETE" \in r.flags
    BY <1>2, <1>4, <1>5 DEF Marked
  <1>8. Accounted(counted, d, m)
    BY <1>2, <1>5, <1>6, <1>7, GrownAccounted
  <1>9. InTime(counted, l, d) /\ UpTo(counted, l, r.time)
    <2>1. InTime(counted, l, d) /\ \A T : UpTo(b, l, T) => UpTo(counted, l, T)
      BY <1>2, <1>3, <1>5, SameRowsInTime
    <2>2. forced => UpTo(counted, l, r.time)
      BY <1>3, <1>5 DEF UpTo, Marked
    <2> QED BY <1>4, <2>1, <2>2
  <1>10. InTime([QueueRecordForce(counted, r) EXCEPT !.run_phase = "IDLE"], l, d)
    BY <1>4, <1>5, <1>6, <1>7, <1>8, <1>9, LastRowInTime
  <1> QED BY <1>1, <1>10

LEMMA ForceCloseInTime ==
  ASSUME NEW b, NEW d, NEW l \in AnyRow, NEW m \in BOOLEAN, Typed(b), NEW t \in Time,
         Accounted(b, d, m), InTime(b, l, d)
  PROVE  InTime(ForceClose(b, t), l, d)
  <1>1. CASE EventOpen(b)
    <2>1. TRUE \in BOOLEAN
      OBVIOUS
    <2>2. InTime(CloseEvent(b, t, TRUE), l, d)
      BY <1>1, <2>1, CloseInTime
    <2> QED BY <1>1, <2>2 DEF ForceClose
  <1>2. CASE ~EventOpen(b)
    BY <1>2 DEF ForceClose
  <1> QED BY <1>1, <1>2

LEMMA StepInTime ==
  ASSUME NEW b, NEW d, NEW l \in AnyRow, NEW m \in BOOLEAN, Typed(b), Ordered(b, l),
         NEW t \in Time, RingInOrder(b), ReadyToEmit(b, l), Accounted(b, d, m), InTime(b, l, d)
  PROVE  LET c == Step(b, t)
         IN  InTime(c, l, d) /\ (EventOpen(c) => UpTo(c, l, Latest(c)))
  <1>1. CASE ~EventOpen(b)
    BY <1>1 DEF Step
  <1>2. CASE EventOpen(b) /\ b.run_phase = "POST" /\ t >= b.post_end
    <2> DEFINE c == EmitActiveOrPost(b, b.post_end)
    <2>1. b.post_end \in Nat /\ b.post_end \in Time
      <3>1. b.post_end \in Nat
        BY BufferFields DEF Typed
      <3> QED BY <1>2, <3>1, BufferAssumption DEF Time
    <2>2. SameEvent(b, c, l)
      BY <1>2, <2>1, EmitEffect
    <2>3. /\ RowsGrown(b, c)
          /\ \/ Marked(c)
             \/ c.next > b.post_end
             \/ c.next >= b.post_end
      BY <1>2, <2>1, EmitForm
    <2>4. InTime(c, l, d) /\ UpTo(c, l, b.post_end)
      BY <1>2, <2>1, EmitInTime
    <2> HIDE DEF c
    <2>5. /\ b \in Buffer /\ b.event \in Events /\ Typed(c)
          /\ c \in Buffer /\ c.event = b.event /\ EventOpen(c) /\ Len(c.output) <= OutputCapacity
      BY <1>2, <2>2 DEF Typed, SameEvent, EventOpen
    <2>6. Accounted(c, d, m)
      BY <1>2, <2>3, <2>5, GrownAccounted
    <2>7. c.next < b.post_end => Marked(c)
      <3>1. c.next \in Nat
        BY <2>5, BufferFields
      <3> QED BY <2>1, <2>3, <3>1
    <2>8. PICK w \in BOOLEAN : ~w /\ CloseEvent(c, b.post_end, w) = CloseEvent(c, b.post_end, FALSE)
      OBVIOUS
    <2>9. InTime(CloseEvent(c, b.post_end, w), l, d)
      BY <2>1, <2>4, <2>5, <2>6, <2>7, CloseInTime
    <2>10. Step(b, t) = CloseEvent(c, b.post_end, FALSE)
      BY <1>2 DEF Step, c
    <2>11. ~EventOpen(CloseEvent(c, b.post_end, FALSE))
      BY <2>1, <2>2, <2>5, CloseEffect DEF SameEvent
    <2> QED BY <2>8, <2>9, <2>10, <2>11
  <1>3. CASE EventOpen(b) /\ ~(b.run_phase = "POST" /\ t >= b.post_end)
    <2>1. t \in Nat /\ EventOpen(b)
      BY <1>3 DEF Time
    <2>2. Step(b, t) = EmitActiveOrPost(b, t)
      BY <1>3 DEF Step
    <2>3. SameEvent(b, EmitActiveOrPost(b, t), l)
      BY <1>3, <2>1, EmitEffect
    <2>4. InTime(EmitActiveOrPost(b, t), l, d) /\ UpTo(EmitActiveOrPost(b, t), l, Latest(b))
      BY <1>3, EmitInTime
    <2>5. Latest(EmitActiveOrPost(b, t)) = Latest(b)
      BY <2>3 DEF SameEvent, Latest
    <2> QED BY <2>2, <2>4, <2>5
  <1> QED BY <1>1, <1>2, <1>3

(* Between rounds the newest sample is no later than the clock, and the    *)
(* rows of the open event reach no further than it.                        *)
Settled(b, l, at) ==
  /\ RingInOrder(b)
  /\ b.ring # <<>> => Latest(b) <= at
  /\ EventOpen(b) => UpTo(b, l, Latest(b))

LEMMA SettledReady ==
  ASSUME NEW b, NEW l \in AnyRow, Typed(b), Due(b, now), now \in Time, Settled(b, l, now)
  PROVE  ReadyToEmit(b, l)
  <1> SUFFICES ASSUME EventOpen(b)
               PROVE  \E k \in 1 .. Len(b.ring) :
                        /\ UpTo(b, l, b.ring[k])
                        /\ Marked(b) \/ b.ring[k] <= b.next
                        /\ b.run_phase = "POST" => b.ring[k] <= b.post_end
    BY DEF ReadyToEmit
  <1>1. /\ b \in Buffer /\ b.next \in Nat /\ b.post_end \in Nat /\ now \in Nat
        /\ Len(b.ring) \in 1 .. Len(b.ring) /\ b.ring[Len(b.ring)] \in Nat /\ b.ring # <<>>
    BY RingFields, BufferFields DEF Typed, Time
  <1>2. b.ring[Len(b.ring)] <= now /\ UpTo(b, l, b.ring[Len(b.ring)])
    BY <1>1 DEF Settled, Latest
  <1>3. Marked(b) \/ now < b.next
    BY <1>1 DEF Due
  <1>4. b.run_phase = "POST" => now < b.post_end
    BY DEF Due
  <1>5. Marked(b) \/ b.ring[Len(b.ring)] <= b.next
    BY <1>1, <1>2, <1>3
  <1>6. b.run_phase = "POST" => b.ring[Len(b.ring)] <= b.post_end
    BY <1>1, <1>2, <1>4
  <1> QED BY <1>1, <1>2, <1>5, <1>6

(* The sample that was the newest is still in the ring.                    *)
LEMMA PushedRing ==
  ASSUME NEW b, Typed(b), NEW t \in Time, RingInOrder(b), b.ring # <<>> => Latest(b) <= t
  PROVE  LET c == PushSnapshot(b, t)
         IN  /\ RingInOrder(c) /\ Latest(c) = t /\ c.ring # <<>>
             /\ b.ring # <<>> =>
                  Len(c.ring) - 1 \in 1 .. Len(c.ring) /\ c.ring[Len(c.ring) - 1] = Latest(b)
  <1> DEFINE c == PushSnapshot(b, t)
             old == b.ring
  <1>1. /\ b \in Buffer /\ old \in Seq(Time) /\ Len(old) \in Nat /\ Len(old) <= PreCapacity
        /\ PreCapacity \in Nat /\ PreCapacity >= 2 /\ t \in Nat
        /\ \A i \in 1 .. Len(old) : old[i] \in Nat
    BY RingFields, BufferAssumption, RingAssumption DEF Typed, Time
  <1>2. c.ring = IF Len(old) < PreCapacity THEN Append(old, t) ELSE Append(Tail(old), t)
    BY <1>1 DEF PushSnapshot, Buffer
  <1> HIDE DEF c
  <1>3. \A i \in 1 .. Len(old) : old[i] <= t
    <2>1. ASSUME NEW i \in 1 .. Len(old) PROVE old[i] <= t
      <3>1. Len(old) \in 1 .. Len(old) /\ i <= Len(old) /\ b.ring # <<>>
        BY <1>1
      <3>2. old[i] <= old[Len(old)] /\ old[Len(old)] <= t
        BY <3>1 DEF RingInOrder, Latest
      <3> QED BY <1>1, <3>1, <3>2
    <2> QED BY <2>1
  <1>4. \E k \in 0 .. 1 :
          /\ Len(c.ring) = Len(old) - k + 1 /\ Len(old) - k \in Nat
          /\ c.ring[Len(c.ring)] = t
          /\ \A i \in 1 .. Len(old) - k : c.ring[i] = old[i + k]
          /\ k = 1 => Len(old) >= 2
    <2>1. CASE Len(old) < PreCapacity
      <3>1. /\ Len(Append(old, t)) = Len(old) + 1 /\ Append(old, t)[Len(old) + 1] = t
            /\ \A i \in 1 .. Len(old) : Append(old, t)[i] = old[i]
        BY <1>1
      <3>2. /\ Len(c.ring) = Len(old) - 0 + 1 /\ c.ring[Len(c.ring)] = t
            /\ \A i \in 1 .. Len(old) - 0 : c.ring[i] = old[i + 0]
        BY <1>1, <1>2, <2>1, <3>1
      <3> QED BY <1>1, <3>2
    <2>2. CASE ~(Len(old) < PreCapacity)
      <3> DEFINE rest == Tail(old)
      <3>1. /\ Len(old) >= 2 /\ rest \in Seq(Time) /\ Len(rest) = Len(old) - 1
            /\ \A i \in 1 .. Len(old) - 1 : rest[i] = old[i + 1]
        <4>1. old # <<>> /\ Len(old) >= 2
          BY <1>1, <2>2
        <4> QED BY <1>1, <4>1
      <3> HIDE DEF rest
      <3>2. /\ Len(Append(rest, t)) = Len(rest) + 1 /\ Append(rest, t)[Len(rest) + 1] = t
            /\ \A i \in 1 .. Len(rest) : Append(rest, t)[i] = rest[i]
        BY <1>1, <3>1
      <3>3. c.ring = Append(rest, t)
        BY <1>2, <2>2 DEF rest
      <3>4. /\ Len(c.ring) = Len(old) - 1 + 1 /\ c.ring[Len(c.ring)] = t
            /\ \A i \in 1 .. Len(old) - 1 : c.ring[i] = old[i + 1]
        BY <1>1, <3>1, <3>2, <3>3
      <3> QED BY <1>1, <3>1, <3>4
    <2> QED BY <2>1, <2>2
  <1>5. PICK k \in 0 .. 1 :
          /\ Len(c.ring) = Len(old) - k + 1 /\ Len(old) - k \in Nat
          /\ c.ring[Len(c.ring)] = t
          /\ \A i \in 1 .. Len(old) - k : c.ring[i] = old[i + k]
          /\ k = 1 => Len(old) >= 2
    BY <1>4
  <1>6. Latest(c) = t /\ c.ring # <<>>
    BY <1>5 DEF Latest
  <1>7. RingInOrder(c)
    <2>1. ASSUME NEW i \in 1 .. Len(c.ring), NEW j \in 1 .. Len(c.ring), i <= j
          PROVE  c.ring[i] <= c.ring[j]
      <3>1. CASE j = Len(c.ring) /\ i = Len(c.ring)
        BY <1>1, <1>5, <3>1
      <3>2. CASE j = Len(c.ring) /\ i # Len(c.ring)
        <4>1. Len(c.ring) - 1 = Len(old) - k /\ i <= Len(c.ring) - 1
          BY <1>1, <1>5, <3>2
        <4>2. i \in 1 .. Len(old) - k /\ i + k \in 1 .. Len(old)
          BY <1>1, <4>1
        <4> QED BY <1>3, <1>5, <3>2, <4>2
      <3>3. CASE j # Len(c.ring)
        <4>1. /\ i \in 1 .. Len(old) - k /\ i + k \in 1 .. Len(old)
              /\ j \in 1 .. Len(old) - k /\ j + k \in 1 .. Len(old) /\ i + k <= j + k
          BY <1>1, <1>5, <2>1, <3>3
        <4>2. old[i + k] <= old[j + k]
          BY <4>1 DEF RingInOrder
        <4> QED BY <1>5, <4>1, <4>2
      <3> QED BY <3>1, <3>2, <3>3
    <2> QED BY <2>1 DEF RingInOrder
  <1>8. ASSUME b.ring # <<>>
        PROVE  Len(c.ring) - 1 \in 1 .. Len(c.ring) /\ c.ring[Len(c.ring) - 1] = Latest(b)
    <2>1. Len(old) >= 1
      BY <1>1, <1>8
    <2>2. /\ Len(c.ring) - 1 \in 1 .. Len(old) - k /\ Len(c.ring) - 1 \in 1 .. Len(c.ring)
          /\ Len(c.ring) - 1 + k = Len(old)
      BY <1>1, <1>5, <2>1
    <2>3. c.ring[Len(c.ring) - 1] = old[Len(c.ring) - 1 + k]
      BY <1>5, <2>2
    <2> QED BY <2>2, <2>3 DEF Latest
  <1> QED BY <1>6, <1>7, <1>8 DEF c

LEMMA PushInTime ==
  ASSUME NEW b, NEW d, NEW l \in AnyRow, Typed(b), NEW t \in Time, now \in Time, now <= t,
         Due(b, now), Settled(b, l, now), InTime(b, l, d)
  PROVE  LET c == PushSnapshot(b, t)
         IN  /\ InTime(c, l, d) /\ ReadyToEmit(c, l) /\ RingInOrder(c) /\ Latest(c) = t
             /\ EventOpen(c) => UpTo(c, l, t)
  <1> DEFINE c == PushSnapshot(b, t)
  <1>1. /\ b \in Buffer /\ now \in Nat /\ t \in Nat /\ b.next \in Nat /\ b.post_end \in Nat
        /\ b.ring # <<>> => Latest(b) \in Nat /\ Latest(b) <= now
    BY RingFields, BufferFields DEF Typed, Time, Settled, Latest
  <1>2. /\ RingInOrder(c) /\ Latest(c) = t /\ c.ring # <<>>
        /\ b.ring # <<>> =>
             Len(c.ring) - 1 \in 1 .. Len(c.ring) /\ c.ring[Len(c.ring) - 1] = Latest(b)
    BY <1>1, PushedRing DEF Settled
  <1>3. /\ c.run_phase = b.run_phase /\ c.event = b.event /\ c.output = b.output
        /\ c.flags = b.flags /\ c.next = b.next /\ c.post_end = b.post_end
    BY <1>1 DEF PushSnapshot, Buffer
  <1> HIDE DEF c
  <1>4. InTime(c, l, d) /\ \A T : UpTo(b, l, T) => UpTo(c, l, T)
    BY <1>3 DEF InTime, Excused, TimesInOrder, UpTo, Opened, EventOpen, Marked
  <1>5. ASSUME EventOpen(c)
        PROVE  /\ b.ring # <<>> /\ UpTo(c, l, Latest(b)) /\ Latest(b) <= t
               /\ Marked(c) \/ Latest(b) <= c.next
               /\ c.run_phase = "POST" => Latest(b) <= c.post_end
    <2>1. EventOpen(b) /\ b.ring # <<>>
      BY <1>3, <1>5 DEF EventOpen, Typed
    <2>2. UpTo(c, l, Latest(b))
      BY <1>4, <2>1 DEF Settled
    <2>3. Marked(c) \/ now < c.next
      BY <1>1, <1>3, <2>1 DEF Due, Marked
    <2>4. c.run_phase = "POST" => now < c.post_end
      BY <1>3, <2>1 DEF Due
    <2> QED BY <1>1, <1>3, <2>1, <2>2, <2>3, <2>4
  <1>6. ReadyToEmit(c, l)
    BY <1>2, <1>5 DEF ReadyToEmit
  <1>7. EventOpen(c) => UpTo(c, l, t)
    <2>1. ASSUME EventOpen(c), ~Marked(c), NEW r \in AnyRow, r.time <= Latest(b) PROVE r.time <= t
      BY <1>1, <1>5, <2>1, RowTimes
    <2>2. ASSUME NEW i \in 1 .. Len(c.output) PROVE c.output[i] \in AnyRow
      BY <1>1, <1>3, QueueFields DEF AnyRow
    <2> QED BY <1>5, <2>1, <2>2 DEF UpTo
  <1> QED BY <1>2, <1>4, <1>6, <1>7 DEF c

(* Pulled rows: the order of their times goes over from the queue to what  *)
(* was delivered.                                                          *)
LEMMA DrainInTime ==
  ASSUME NEW b, Typed(b), NEW m \in BOOLEAN, Accounted(b, delivered, m),
         delivered \in [Events -> Delivered], last \in AnyRow, InTime(b, last, delivered),
         NEW n \in 0 .. Len(b.output), Drain(b, n), NEW at \in Nat,
         b.ring # <<>> => Latest(b) <= at, RingInOrder(b),
         EventOpen(b) => UpTo(b, last, Latest(b))
  PROVE  InTime(buffer', last', delivered') /\ Settled(buffer', last', at)
  <1> DEFINE left == SubSeq(b.output, n + 1, Len(b.output))
             rest == [b EXCEPT !.output = left]
             rows == Pulled(b, n)
             all == <<last>> \o rows
             c == buffer'
             l == last'
             d == delivered
             dd == delivered'
  <1>1. c = IF n < Len(b.output) THEN Flagged(rest, {"INCOMPLETE"}) ELSE rest
    BY DEF Drain
  <1>2. /\ b \in Buffer /\ b.output \in Seq(Row) /\ Len(b.output) \in Nat
        /\ n \in Nat /\ n <= Len(b.output)
    <2>1. b \in Buffer
      BY DEF Typed
    <2> QED BY <2>1, BufferFields
  <1>3. /\ left \in Seq(Row) /\ Len(left) = Len(b.output) - n
        /\ \A i \in 1 .. Len(left) : left[i] = b.output[n + i]
    BY <1>2, SubSeqProperties
  <1>4. ASSUME NEW i \in 1 .. n
        PROVE  /\ rows[i].event = b.output[i].event /\ rows[i].phase = b.output[i].phase
               /\ rows[i].time = b.output[i].time
               /\ rows[i].flags = b.output[i].flags \cup b.flags
               /\ i \in 1 .. Len(b.output)
    <2>1. b.output[i] \in Row /\ i \in 1 .. Len(b.output)
      BY <1>2
    <2> QED BY <2>1 DEF Pulled, Row
  <1>5. all[1] = last /\ \A i \in 1 .. n : all[i + 1] = rows[i]
    <2>1. Len(rows) = n /\ rows = [i \in 1 .. n |-> rows[i]]
      BY <1>2 DEF Pulled
    <2> HIDE DEF rows
    <2> QED BY <1>2, <2>1
  <1>6. ASSUME NEW e \in Events
        PROVE  /\ dd[e].closed <=>
                    d[e].closed \/ \E i \in 1 .. n : rows[i].event = e /\ rows[i].phase = "CLOSE"
               /\ dd[e].incomplete <=>
                    d[e].incomplete
                      \/ \E i \in 1 .. n : rows[i].event = e /\ "INCOMPLETE" \in rows[i].flags
               /\ dd[e].unordered <=>
                    d[e].unordered
                      \/ \E i \in 1 .. n : /\ rows[i].event = e
                                         /\ all[i + 1].event = all[i].event
                                         /\ all[i + 1].time < all[i].time
    BY DEF Drain
  <1>7. l = all[n + 1]
    BY DEF Drain
  <1> HIDE DEF left, rows, all, dd, d, l
  <1>8. rest \in Buffer /\ Kept(b, rest) /\ rest.output = left /\ rest.flags = b.flags
    BY <1>2, <1>3 DEF Buffer, Kept
  <1> HIDE DEF rest
  <1>9. Kept(b, c) /\ c.output = left /\ b.flags \subseteq c.flags
    <2>1. /\ Kept(rest, Flagged(rest, {"INCOMPLETE"})) /\ Flagged(rest, {"INCOMPLETE"}).output = left
          /\ Flagged(rest, {"INCOMPLETE"}).flags = b.flags \cup {"INCOMPLETE"}
      BY <1>8, FlaggedKept DEF Flag
    <2> QED BY <1>1, <1>8, <2>1 DEF Kept
  <1> HIDE DEF c
  <1>10. ASSUME NEW i \in 1 .. Len(left)
         PROVE  n + i \in 1 .. Len(b.output) /\ left[i] = b.output[n + i]
    BY <1>2, <1>3
  <1>11. /\ n = 0 => l = last
         /\ n > 0 => n \in 1 .. Len(b.output) /\ l.event = b.output[n].event /\ l.time = b.output[n].time
    <2>1. CASE n = 0
      BY <1>5, <1>7, <2>1
    <2>2. CASE n > 0
      <3>1. n \in 1 .. n
        BY <1>2, <2>2
      <3> QED BY <1>4, <1>5, <1>7, <2>2, <3>1
    <2> QED BY <1>2, <2>1, <2>2
  <1>12. ASSUME NEW e \in Events, ~Excused(c, dd, e) PROVE TimesInOrder(c, l, dd, e)
    <2>1. /\ ~d[e].incomplete
          /\ \A i \in 1 .. n : rows[i].event = e => "INCOMPLETE" \notin rows[i].flags
      BY <1>6, <1>12 DEF Excused
    <2>2. ~Excused(b, d, e)
      <3>1. SUFFICES ASSUME Excused(b, d, e) PROVE FALSE
        OBVIOUS
      <3>2. ~d[e].closed /\ e <= b.event
        BY <2>1, <3>1 DEF Excused
      <3>3. CASE Opened(b, e) /\ Marked(b)
        <4>1. Opened(c, e) /\ Marked(c)
          BY <1>9, <3>3 DEF Opened, Marked, Kept, EventOpen
        <4>2. ~dd[e].closed
          BY <1>4, <1>6, <2>1, <3>2, <3>3 DEF Marked
        <4> QED BY <1>9, <1>12, <3>2, <4>1, <4>2 DEF Excused, Kept
      <3>4. CASE /\ ~Opened(b, e)
                 /\ \A i \in 1 .. Len(b.output) :
                      b.output[i].event = e /\ b.output[i].phase = "CLOSE" =>
                        "INCOMPLETE" \in b.output[i].flags
        <4>1. /\ ~Opened(c, e)
              /\ \A i \in 1 .. Len(c.output) :
                   c.output[i].event = e /\ c.output[i].phase = "CLOSE" =>
                     "INCOMPLETE" \in c.output[i].flags
          BY <1>9, <1>10, <3>4 DEF Opened, Kept, EventOpen
        <4>2. ~dd[e].closed
          BY <1>4, <1>6, <2>1, <3>2, <3>4
        <4> QED BY <1>9, <1>12, <3>2, <4>1, <4>2 DEF Excused, Kept
      <3> QED BY <2>1, <3>1, <3>3, <3>4 DEF Excused
    <2>3. TimesInOrder(b, last, d, e)
      BY <2>2 DEF InTime, d
    <2>4. ASSUME NEW i \in 1 .. Len(b.output), NEW j \in 1 .. Len(b.output), i < j,
                 b.output[i].event = e, b.output[j].event = e
          PROVE  b.output[i].time <= b.output[j].time
      BY <2>3, <2>4 DEF TimesInOrder
    <2>5. ~dd[e].unordered
      <3>1. ASSUME NEW i \in 1 .. n, rows[i].event = e, all[i + 1].event = all[i].event
            PROVE  ~(all[i + 1].time < all[i].time)
        <4>1. /\ all[i + 1].event = e /\ all[i + 1].time = b.output[i].time
              /\ b.output[i].event = e /\ i \in 1 .. Len(b.output) /\ b.output[i].time \in Nat
          BY <1>2, <1>4, <1>5, <3>1, RowTimes
        <4>2. CASE i = 1
          <5>1. all[i] = last /\ last.time \in Nat /\ last.event = e
            BY <1>5, <3>1, <4>1, <4>2, RowTimes
          <5>2. last.time <= b.output[i].time
            BY <2>3, <4>1, <5>1 DEF TimesInOrder
          <5> QED BY <4>1, <5>1, <5>2
        <4>3. CASE i # 1
          <5> DEFINE k == i - 1
          <5>1. k \in 1 .. n /\ k < i /\ k + 1 = i
            BY <1>2, <4>3
          <5> HIDE DEF k
          <5>2. all[i] = rows[k]
            BY <1>5, <5>1
          <5>3. /\ all[i].event = b.output[k].event /\ all[i].time = b.output[k].time
                /\ k \in 1 .. Len(b.output) /\ b.output[k].time \in Nat
            BY <1>2, <1>4, <5>1, <5>2, RowTimes
          <5>4. b.output[k].time <= b.output[i].time
            BY <2>4, <3>1, <4>1, <5>1, <5>3
          <5> QED BY <4>1, <5>3, <5>4
        <4> QED BY <4>2, <4>3
      <3> QED BY <1>6, <2>3, <3>1 DEF TimesInOrder
    <2>6. ASSUME NEW i \in 1 .. Len(left), NEW j \in 1 .. Len(left), i < j,
                 left[i].event = e, left[j].event = e
          PROVE  left[i].time <= left[j].time
      <3>1. n + i < n + j
        BY <1>2, <2>6
      <3> QED BY <1>10, <2>4, <2>6, <3>1
    <2>7. ASSUME NEW i \in 1 .. Len(left), l.event = e, left[i].event = e
          PROVE  l.time <= left[i].time
      <3>1. CASE n = 0
        BY <1>10, <1>11, <2>3, <2>7, <3>1 DEF TimesInOrder
      <3>2. CASE n > 0
        <4>1. n < n + i
          BY <1>2
        <4> QED BY <1>10, <1>11, <2>4, <2>7, <3>2, <4>1
      <3> QED BY <1>2, <3>1, <3>2
    <2> QED BY <1>9, <2>5, <2>6, <2>7 DEF TimesInOrder
  <1>13. ASSUME EventOpen(c) PROVE UpTo(c, l, Latest(b))
    <2>1. UpTo(b, last, Latest(b)) /\ c.event = b.event
      BY <1>9, <1>13 DEF Kept, EventOpen
    <2>2. Marked(b) => Marked(c)
      BY <1>9 DEF Marked
    <2>3. l.event = c.event /\ ~Marked(b) => l.time <= Latest(b)
      BY <1>2, <1>11, <2>1 DEF UpTo
    <2> QED BY <1>9, <1>10, <2>1, <2>2, <2>3 DEF UpTo
  <1>14. Settled(c, l, at)
    BY <1>9, <1>13 DEF Settled, Kept, Latest, RingInOrder
  <1> QED BY <1>12, <1>14 DEF InTime, c, l, dd

(* The order of the rows in time, kept by every step.                      *)
TimeInv == InTime(buffer, last, delivered) /\ Settled(buffer, last, now)

LEMMA InitTimeInv == Init => TimeInv
  <1> SUFFICES ASSUME Init PROVE TimeInv
    OBVIOUS
  <1>1. /\ buffer.output = <<>> /\ buffer.run_phase = "IDLE" /\ buffer.ring = <<>>
        /\ last = NoRow /\ \A e \in Events : delivered[e].unordered = FALSE
    BY DEF Init
  <1>2. Len(buffer.output) = 0 /\ Len(buffer.ring) = 0
    BY <1>1
  <1>3. InTime(buffer, last, delivered)
    BY <1>1, <1>2 DEF InTime, TimesInOrder
  <1>4. Settled(buffer, last, now)
    BY <1>1, <1>2 DEF Settled, RingInOrder, EventOpen
  <1> QED BY <1>3, <1>4 DEF TimeInv

LEMMA NextTimeInv == Inv /\ LossInv /\ TimeInv /\ [Next]_vars => TimeInv'
  <1> SUFFICES ASSUME Inv, LossInv, TimeInv, [Next]_vars PROVE TimeInv'
    OBVIOUS
  <1>0. /\ Typed(buffer) /\ Ordered(buffer, last) /\ last \in AnyRow /\ now \in Time
        /\ delivered \in [Events -> Delivered]
        /\ Accounted(buffer, delivered, TRUE) /\ Due(buffer, now)
        /\ InTime(buffer, last, delivered) /\ Settled(buffer, last, now)
    BY DEF Inv, LossInv, TimeInv
  <1>1. CASE Start \/ Stop \/ UNCHANGED vars
    <2>1. UNCHANGED <<buffer, last, delivered, now>>
      BY <1>1 DEF Start, Stop, vars
    <2> QED BY <1>0, <2>1
         DEF TimeInv, InTime, Excused, TimesInOrder, Opened, EventOpen, Marked,
             Settled, RingInOrder, Latest, UpTo
  <1>2. CASE Scan
    <2>1. PICK t \in Later(now + 1), sampled \in BOOLEAN, active \in BOOLEAN :
            LET pushed == IF sampled THEN PushSnapshot(buffer, t) ELSE buffer
                noted  == IF sampled /\ running
                          THEN NoteAlarmResult(pushed, alarm, active, t) ELSE pushed
                b      == Step(noted, t)
            IN  /\ noted.event <= MaxEvents
                /\ now' = t
                /\ \E n \in 0 .. Len(b.output) : Drain(b, n)
      BY <1>2 DEF Scan
    <2> DEFINE pushed == IF sampled THEN PushSnapshot(buffer, t) ELSE buffer
               noted  == IF sampled /\ running
                         THEN NoteAlarmResult(pushed, alarm, active, t) ELSE pushed
               b      == Step(noted, t)
    <2>2. t \in Time /\ buffer \in Buffer /\ t \in Nat /\ now \in Nat /\ now <= t
      BY <1>0 DEF Later, Typed, Time
    <2>3. /\ Typed(pushed) /\ Ordered(pushed, last) /\ (sampled => pushed.ring # <<>>)
          /\ Accounted(pushed, delivered, TRUE) /\ Due(pushed, now)
          /\ InTime(pushed, last, delivered) /\ ReadyToEmit(pushed, last) /\ RingInOrder(pushed)
          /\ pushed.ring # <<>> => Latest(pushed) <= t
          /\ sampled => Latest(pushed) = t /\ (EventOpen(pushed) => UpTo(pushed, last, t))
      <3>1. CASE sampled
        <4>1. /\ Typed(pushed) /\ Ordered(pushed, last) /\ pushed.ring # <<>>
              /\ Accounted(pushed, delivered, TRUE) /\ Due(pushed, now)
          BY <1>0, <2>2, <3>1, PushEffect, PushAccounted
        <4>2. /\ InTime(pushed, last, delivered) /\ ReadyToEmit(pushed, last)
              /\ RingInOrder(pushed) /\ Latest(pushed) = t
              /\ EventOpen(pushed) => UpTo(pushed, last, t)
          BY <1>0, <2>2, <3>1, PushInTime
        <4> HIDE DEF pushed, noted, b
        <4>3. Latest(pushed) <= t
          BY <2>2, <4>2
        <4> QED BY <4>1, <4>2, <4>3
      <3>2. CASE ~sampled
        <4>1. ReadyToEmit(buffer, last)
          BY <1>0, SettledReady
        <4>2. RingInOrder(buffer) /\ (buffer.ring # <<>> => Latest(buffer) <= t)
          <5>1. buffer.ring # <<>> => Latest(buffer) \in Nat
            BY <2>2, RingFields DEF Latest
          <5> QED BY <1>0, <2>2, <5>1 DEF Settled
        <4> QED BY <1>0, <3>2, <4>1, <4>2
      <3> QED BY <3>1, <3>2
    <2> HIDE DEF pushed
    <2>4. /\ noted.event <= MaxEvents /\ now' = t
          /\ \E n \in 0 .. Len(b.output) : Drain(b, n)
      BY <2>1 DEF pushed
    <2>5. /\ Typed(noted) /\ Ordered(noted, last) /\ Accounted(noted, delivered, TRUE)
          /\ InTime(noted, last, delivered) /\ ReadyToEmit(noted, last)
          /\ noted.ring = pushed.ring
      <3>1. CASE sampled /\ running
        <4>1. Typed(noted) /\ Ordered(noted, last) /\ Accounted(noted, delivered, TRUE)
          BY <1>0, <2>2, <2>3, <2>4, <3>1, NoteEffect, NoteAccounted
        <4>2. /\ Latest(pushed) = t /\ pushed.ring # <<>> /\ Latest(pushed) \in Time
              /\ EventOpen(pushed) => UpTo(pushed, last, Latest(pushed))
              /\ noted = NoteAlarmResult(pushed, alarm, active, Latest(pushed))
          BY <2>2, <2>3, <3>1
        <4> HIDE DEF noted
        <4>3. NoteAlarmResult(pushed, alarm, active, Latest(pushed)).event <= MaxEvents
          BY <2>4, <4>2
        <4>4. PICK m \in BOOLEAN : Accounted(pushed, delivered, m)
          <5>1. TRUE \in BOOLEAN
            OBVIOUS
          <5> QED BY <2>3, <5>1
        <4>5. LET k == NoteAlarmResult(pushed, alarm, active, Latest(pushed))
              IN  InTime(k, last, delivered) /\ ReadyToEmit(k, last) /\ k.ring = pushed.ring
          BY <1>0, <2>3, <4>2, <4>3, <4>4, NoteInTime
        <4> QED BY <4>1, <4>2, <4>5
      <3>2. CASE ~(sampled /\ running)
        BY <2>3, <3>2
      <3> QED BY <3>1, <3>2
    <2> HIDE DEF noted
    <2>6. RingInOrder(noted) /\ (noted.ring # <<>> => Latest(noted) <= t)
      BY <2>3, <2>5 DEF RingInOrder, Latest
    <2>7. Typed(b) /\ b.ring = noted.ring /\ Accounted(b, delivered, TRUE)
      BY <1>0, <2>2, <2>5, StepEffect, StepAccounted
    <2>8. InTime(b, last, delivered) /\ (EventOpen(b) => UpTo(b, last, Latest(b)))
      BY <1>0, <2>2, <2>5, <2>6, StepInTime
    <2> HIDE DEF b
    <2>9. RingInOrder(b) /\ (b.ring # <<>> => Latest(b) <= t)
      BY <2>6, <2>7 DEF RingInOrder, Latest
    <2>10. InTime(buffer', last', delivered') /\ Settled(buffer', last', t)
      BY <1>0, <2>2, <2>4, <2>7, <2>8, <2>9, DrainInTime
    <2> QED BY <2>4, <2>10 DEF TimeInv, Settled
  <1>3. CASE FinishStopFlush
    <2>1. PICK t \in Later(now) :
            LET b == ForceClose(buffer, t)
            IN  now' = t /\ \E n \in 0 .. Len(b.output) : Drain(b, n)
      BY <1>3 DEF FinishStopFlush
    <2> DEFINE b == ForceClose(buffer, t)
    <2>2. t \in Time /\ t \in Nat /\ now \in Nat /\ now <= t /\ buffer \in Buffer
      BY <1>0 DEF Later, Time, Typed
    <2>3. /\ Typed(b) /\ Accounted(b, delivered, TRUE) /\ ~EventOpen(b) /\ b.ring = buffer.ring
      BY <1>0, <2>2, ForceCloseEffect, ForceCloseAccounted
    <2>4. InTime(b, last, delivered)
      BY <1>0, <2>2, ForceCloseInTime
    <2>5. now' = t /\ \E n \in 0 .. Len(b.output) : Drain(b, n)
      BY <2>1
    <2> HIDE DEF b
    <2>6. RingInOrder(b) /\ (b.ring # <<>> => Latest(b) <= t)
      <3>1. buffer.ring # <<>> => Latest(buffer) \in Nat /\ Latest(buffer) <= now
        BY <1>0, <2>2, RingFields DEF Latest, Settled
      <3>2. buffer.ring # <<>> => Latest(buffer) <= t
        BY <2>2, <3>1
      <3> QED BY <1>0, <2>3, <3>2 DEF RingInOrder, Latest, Settled
    <2>7. InTime(buffer', last', delivered') /\ Settled(buffer', last', t)
      BY <1>0, <2>2, <2>3, <2>4, <2>5, <2>6, DrainInTime
    <2> QED BY <2>5, <2>7 DEF TimeInv, Settled
  <1> QED BY <1>1, <1>2, <1>3 DEF Next

(* The delivered rows of an event that never showed INCOMPLETE are in the  *)
(* order of their times: a deadline finds its own sample in the ring, or   *)
(* the queue was full and the event is flagged.                            *)
THEOREM TimeOrderCorrect == Spec => []TimeOrder
  <1>1. TimeInv => TimeOrder
    BY DEF TimeInv, InTime, Excused, TimesInOrder, TimeOrder
  <1> QED BY <1>1, InvCorrect, InitLossInv, NextLossInv, InitTimeInv, NextTimeInv, PTL DEF Spec
=============================================================================
