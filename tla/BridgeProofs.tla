----------------------------- MODULE BridgeProofs -----------------------------
(***************************************************************************)
(* Proofs about the bridge of board B. Each theorem has its own            *)
(* strengthening, and all of them rest on Flow:                            *)
(*   Flow       the types, what kinds of byte and assembly there are, and  *)
(*              that bytes queue at times the clock has shown;             *)
(*   Timed      the limits of a transaction, counted in real time;         *)
(*   HostInv    the bytes of the host that queue, after those that are     *)
(*              assembled, are the next of their frame or come after a gap;*)
(*   SlaveInv   the same for the slave's bytes and the response;           *)
(*   CleanInv   how much of a frame begun while idle has been assembled;   *)
(*   BusyInv    while the slave is at work the bridge is in the transaction*)
(*              of its request, or in the recovery that follows;           *)
(*   OwnInv     the response, and what queues, is noise or that answer.    *)
(* What one dispatch does is followed event by event (FedKeeps).           *)
(***************************************************************************)
EXTENDS Bridge, SequenceTheorems, WellFoundedInduction, TLAPS

LEMMA Constants ==
  /\ Clock \in Nat \ {0} /\ StartTime \in Nat /\ MaxTime \in Nat
  /\ StartTime <= MaxTime /\ Clock > 2 * (MaxTime - StartTime) /\ Clock > ResponseTimeout
  /\ FrameGap \in Nat /\ FrameGap > 1 /\ UnknownFrameGap \in Nat /\ UnknownFrameGap > 1
  /\ RequestAssemblyTimeout \in Nat /\ ResponseTimeout \in Nat \ {0}
  /\ ResponseRecovery \in Nat \ {0} /\ RequestLength \in Nat /\ RequestLength > 2
  /\ MaxAduBytes \in Nat /\ RequestLength <= MaxAduBytes /\ MinAduBytes \in Nat \ {0}
  /\ ExceptionLength \in Nat /\ ExceptionLength > 2 /\ AnswerLength \in Nat
  /\ ExceptionLength <= AnswerLength /\ AnswerLength <= MaxAduBytes
  /\ MaxDelay \in Nat \ {0} /\ MaxDelay <= ResponseTimeout + ResponseRecovery
  /\ MaxFrames \in Nat /\ MaxStrays \in Nat
  /\ RequestLength <= RequestAssemblyTimeout /\ UnknownFrameGap <= RequestAssemblyTimeout
  /\ "LONG" \notin Supported /\ "ADDRESS" \notin Supported \cup Unknown
  /\ Supported \cap Unknown = {}
  BY BridgeAssumption

(* Times are taken modulo Clock, and differences between times of one run  *)
(* come out right all the same.                                            *)
LEMMA Remainder ==
  ASSUME NEW a \in Int, NEW q \in Int, NEW r \in 0 .. Clock - 1, a = Clock * q + r
  PROVE  a % Clock = r
  BY Constants

LEMMA Division ==
  ASSUME NEW a \in Nat
  PROVE  /\ a = Clock * (a \div Clock) + (a % Clock)
         /\ a \div Clock \in Int /\ a % Clock \in 0 .. Clock - 1
<1>1. a = Clock * (a \div Clock) + (a % Clock)
  BY Constants, SMTT(30)
<1>2. a \div Clock \in Int /\ a % Clock \in 0 .. Clock - 1
  BY Constants
<1>. QED  BY <1>1, <1>2

LEMMA ElapsedReal ==
  ASSUME NEW s \in StartTime .. MaxTime, NEW v \in StartTime .. MaxTime
  PROVE  /\ s <= v => Elapsed(v % Clock, s % Clock) = v - s
         /\ s > v => Elapsed(v % Clock, s % Clock) = Clock - (s - v)
         /\ s % Clock \in Time /\ v % Clock \in Time
         /\ s % Clock = v % Clock => s = v
<1>. DEFINE p == s \div Clock  q == v \div Clock
            a == s % Clock  b == v % Clock
<1>1. s = Clock * p + a /\ p \in Int /\ a \in 0 .. Clock - 1
  BY Division, Constants
<1>2. v = Clock * q + b /\ q \in Int /\ b \in 0 .. Clock - 1
  BY Division, Constants
<1>. HIDE DEF p, q, a, b
<1>3. ASSUME s <= v  PROVE (b - a) % Clock = v - s
  <2>1. b - a = Clock * (p - q) + (v - s)
    BY <1>1, <1>2, Constants
  <2>2. v - s \in 0 .. Clock - 1 /\ p - q \in Int /\ b - a \in Int
    BY <1>1, <1>2, <1>3, Constants
  <2>. QED  BY <2>1, <2>2, Remainder
<1>4. ASSUME s > v  PROVE (b - a) % Clock = Clock - (s - v)
  <2>1. b - a = Clock * (p - q - 1) + (Clock - (s - v))
    BY <1>1, <1>2, Constants
  <2>2. Clock - (s - v) \in 0 .. Clock - 1 /\ p - q - 1 \in Int /\ b - a \in Int
    BY <1>1, <1>2, <1>4, Constants
  <2>. QED  BY <2>1, <2>2, Remainder
<1>5. (b - a) % Clock = 0 => s = v
  BY <1>3, <1>4, Constants
<1>6. a = b => (b - a) % Clock = 0
  BY <1>1, <1>2, Remainder, Constants
<1>. QED  BY <1>1, <1>2, <1>3, <1>4, <1>5, <1>6 DEF Elapsed, Time, a, b

-----------------------------------------------------------------------------
(* Feeding events one after the other. The definition is recursive; that   *)
(* there is such a function follows from the fact that a set of natural    *)
(* numbers has a least element.                                            *)
LEMMA LeastNatural ==
  ASSUME NEW T \in SUBSET Nat, T # {}
  PROVE  \E x \in T : \A y \in T : x <= y
<1> DEFINE Below == {ss \in Nat \X Nat : ss[1] < ss[2]}
<1>1. IsWellFoundedOn(Below, Nat)
  BY NatLessThanWellFounded DEF OpToRel
<1>2. \A x, y \in T : <<y, x>> \in Below <=> y < x
  OBVIOUS
<1> HIDE DEF Below
<1>3. PICK x \in T : \A y \in T : <<y, x>> \notin Below
  BY <1>1, WFMin
<1>4. ASSUME NEW y \in T PROVE x <= y
  <2>1. x \in Nat /\ y \in Nat /\ ~(y < x)
    BY <1>2, <1>3
  <2>. QED  BY <2>1
<1>. QED  BY <1>4

FeedsTo(f, c, es, n) ==
  f = [i \in 0 .. n |-> IF i = 0 THEN c ELSE OnEvent(f[i - 1], es[i])]

LEMMA SequenceExists ==
  ASSUME NEW c, NEW es, NEW n \in Nat
  PROVE  \E f : FeedsTo(f, c, es, n)
<1> DEFINE Missing == {k \in Nat : ~ \E f : FeedsTo(f, c, es, k)}
<1>1. SUFFICES ASSUME Missing # {} PROVE FALSE
  OBVIOUS
<1>2. PICK k \in Missing : \A j \in Missing : k <= j
  BY <1>1, LeastNatural
<1>3. k # 0
  <2>1. FeedsTo([i \in 0 .. 0 |-> c], c, es, 0)
    BY DEF FeedsTo
  <2>. QED  BY <2>1
<1>4. PICK f : FeedsTo(f, c, es, k - 1)
  <2>1. k - 1 \in Nat /\ ~(k <= k - 1)
    BY <1>3
  <2>2. k - 1 \notin Missing
    BY <1>2, <2>1
  <2>. QED  BY <2>1, <2>2
<1>5. FeedsTo([i \in 0 .. k |-> IF i < k THEN f[i] ELSE OnEvent(f[k - 1], es[k])], c, es, k)
  <2> DEFINE h == [i \in 0 .. k |-> IF i < k THEN f[i] ELSE OnEvent(f[k - 1], es[k])]
  <2>1. ASSUME NEW i \in 0 .. k
        PROVE  h[i] = IF i = 0 THEN c ELSE OnEvent(h[i - 1], es[i])
    <3>1. k \in Nat /\ k # 0
      BY <1>3
    <3>2. CASE i < k
      <4>1. i \in 0 .. k - 1 /\ (i # 0 => i - 1 \in 0 .. k /\ i - 1 < k)
        BY <3>1, <3>2
      <4>2. h[i] = f[i] /\ (i # 0 => h[i - 1] = f[i - 1])
        BY <3>2, <4>1
      <4>3. f[i] = IF i = 0 THEN c ELSE OnEvent(f[i - 1], es[i])
        BY <1>4, <4>1 DEF FeedsTo
      <4>. QED  BY <4>2, <4>3
    <3>3. CASE i = k
      <4>1. h[k] = OnEvent(f[k - 1], es[k])
        BY <3>1
      <4>2. h[k - 1] = f[k - 1]
        BY <3>1
      <4>. QED  BY <3>1, <3>3, <4>1, <4>2
    <3>. QED  BY <3>1, <3>2, <3>3
  <2>2. h = [i \in 0 .. k |-> h[i]]
    OBVIOUS
  <2>3. [i \in 0 .. k |-> h[i]]
          = [i \in 0 .. k |-> IF i = 0 THEN c ELSE OnEvent(h[i - 1], es[i])]
    BY <2>1
  <2> HIDE DEF h
  <2>4. FeedsTo(h, c, es, k)
    BY <2>2, <2>3 DEF FeedsTo
  <2>. QED  BY <2>4 DEF h
<1>. QED  BY <1>5

LEMMA FedSequence ==
  ASSUME NEW c, NEW es, Len(es) \in Nat
  PROVE  \E f : FeedsTo(f, c, es, Len(es)) /\ Fed(c, es) = f[Len(es)]
<1> DEFINE f == CHOOSE f : FeedsTo(f, c, es, Len(es))
<1>1. FeedsTo(f, c, es, Len(es))
  BY SequenceExists
<1>2. Fed(c, es) = f[Len(es)]
  BY DEF Fed, FeedsTo
<1>. QED  BY <1>1, <1>2

(* What every event keeps, all of them keep: S[i] holds after the first i. *)
LEMMA FedKeeps ==
  ASSUME NEW c, NEW es, Len(es) \in Nat, NEW S, c \in S[0],
         \A i \in 1 .. Len(es) : \A x \in S[i - 1] : OnEvent(x, es[i]) \in S[i]
  PROVE  Fed(c, es) \in S[Len(es)]
<1>1. PICK f : FeedsTo(f, c, es, Len(es)) /\ Fed(c, es) = f[Len(es)]
  BY FedSequence
<1> DEFINE Leaves == {i \in 0 .. Len(es) : f[i] \notin S[i]}
<1>2. SUFFICES ASSUME Leaves # {} PROVE FALSE
  BY <1>1
<1>3. PICK k \in Leaves : \A j \in Leaves : k <= j
  <2>1. Leaves \in SUBSET Nat
    OBVIOUS
  <2>. HIDE DEF Leaves
  <2>. QED  BY <1>2, <2>1, LeastNatural
<1>4. k \in 0 .. Len(es) /\ f[k] \notin S[k]
  OBVIOUS
<1>5. f[k] = IF k = 0 THEN c ELSE OnEvent(f[k - 1], es[k])
  BY <1>1, <1>4 DEF FeedsTo
<1>6. k # 0
  BY <1>4, <1>5
<1>7. k - 1 \in 0 .. Len(es) /\ k \in 1 .. Len(es) /\ ~(k <= k - 1)
  BY <1>4, <1>6
<1>8. f[k - 1] \in S[k - 1]
  BY <1>3, <1>7
<1>. QED  BY <1>4, <1>5, <1>6, <1>7, <1>8
-----------------------------------------------------------------------------
(* What the bytes say: noise could be any function's address, and a frame  *)
(* of the host begins with one.                                            *)
Arrival == [from : {"HOST", "RS485"}, byte : Byte, at : Time]

HostByte(b) ==
  /\ b.frame # 0
  /\ IF b.part = 1 THEN b.code = "ADDRESS" ELSE b.code \in Functions

LineByte(b) == b.frame = 0 => b.code = "ADDRESS"

CoreTyped(c) ==
  /\ c \in Core
  /\ Len(c.request.data) <= MaxAduBytes /\ Len(c.response.data) <= MaxAduBytes

(* What the bytes of an assembly say of its kind.                          *)
Orderly(a) ==
  IF a.discarding THEN a.data = <<>>
  ELSE a.kind = "PENDING" <=> Len(a.data) < 2

Ready(a) ==
  \/ RequestComplete(a)
  \/ a.kind = "UNKNOWN" /\ Len(a.data) >= MinAduBytes

ReadyResponse(a) ==
  \/ ResponseComplete(a)
  \/ a.kind = "UNKNOWN" /\ Len(a.data) >= MinAduBytes

CoreOrderly(c) ==
  /\ Orderly(c.request) /\ Orderly(c.response)
  /\ \A i \in 1 .. Len(c.request.data) : HostByte(c.request.data[i])
  /\ \A i \in 1 .. Len(c.response.data) : LineByte(c.response.data[i])
  /\ c.state \notin {"IDLE", "RECEIVE_REQUEST"} => c.request.kind # "PENDING"
  /\ c.state \in {"SEND_REQUEST", "WAIT_RESPONSE", "SEND_RESPONSE"} => Ready(c.request)
  /\ c.state = "IDLE" => c.request = Cleared
  /\ c.state \notin {"WAIT_RESPONSE", "SEND_RESPONSE"} => c.response = Cleared
  /\ c.state = "SEND_RESPONSE" => ReadyResponse(c.response)
  /\ Len(c.response.data) >= 2 =>
       c.response.data[2].code \in {Exception, c.request.function}

Good(c) == CoreTyped(c) /\ CoreOrderly(c)

LEMMA AssemblyFields ==
  ASSUME NEW a \in Assembly
  PROVE  /\ a.data \in Seq(Byte) /\ Len(a.data) \in Nat
         /\ a.kind \in {"PENDING", "SUPPORTED", "UNKNOWN"}
         /\ a.function \in Code /\ a.discarding \in BOOLEAN
         /\ a.started \in Time /\ a.last \in Time
         /\ Discarding(a) = [data |-> <<>>, kind |-> a.kind, function |-> a.function,
                             discarding |-> TRUE, started |-> a.started, last |-> a.last]
         /\ Discarding(a) \in Assembly
<1>1. /\ a.data \in Seq(Byte) /\ a.kind \in {"PENDING", "SUPPORTED", "UNKNOWN"}
      /\ a.function \in Code /\ a.discarding \in BOOLEAN
      /\ a.started \in Time /\ a.last \in Time
  BY DEF Assembly
<1>2. Discarding(a) = [data |-> <<>>, kind |-> a.kind, function |-> a.function,
                       discarding |-> TRUE, started |-> a.started, last |-> a.last]
  <2> DEFINE marked == [a EXCEPT !.discarding = TRUE]
  <2>1. marked = [data |-> a.data, kind |-> a.kind, function |-> a.function,
                  discarding |-> TRUE, started |-> a.started, last |-> a.last]
    <3>1. ASSUME NEW x \in BOOLEAN
          PROVE  [a EXCEPT !.discarding = x]
                   = [data |-> a.data, kind |-> a.kind, function |-> a.function,
                      discarding |-> x, started |-> a.started, last |-> a.last]
      BY DEF Assembly
    <3>. QED  BY ONLY <3>1 DEF marked
  <2>2. Discarding(a) = [marked EXCEPT !.data = <<>>]
    BY DEF Discarding
  <2>. HIDE DEF marked
  <2>. QED  BY <2>1, <2>2
<1>3. <<>> \in Seq(Byte)
  OBVIOUS
<1>. QED  BY <1>1, <1>2, <1>3 DEF Assembly

LEMMA StartedFields ==
  ASSUME NEW t \in Time
  PROVE  /\ Started(t) \in Assembly /\ Cleared \in Assembly /\ 0 \in Time
         /\ Started(t).data = <<>> /\ Started(t).kind = "PENDING"
         /\ ~Started(t).discarding /\ Started(t).started = t
         /\ Cleared.data = <<>> /\ Cleared.kind = "PENDING" /\ ~Cleared.discarding
         /\ Started(t).function = "ADDRESS" /\ Cleared.function = "ADDRESS"
<1>1. 0 \in Time
  BY Constants DEF Time
<1>2. <<>> \in Seq(Byte)
  OBVIOUS
<1>. QED  BY <1>1, <1>2 DEF Started, Cleared, Assembly, Code

(* What a byte makes of an assembly that takes it.                         *)
LEMMA JoinedFields ==
  ASSUME NEW a \in Assembly, NEW b \in Byte, NEW t \in Time
  PROVE  /\ Joined(a, b, t)
              = [data |-> Append(a.data, b), kind |-> a.kind,
                 function |-> IF Len(a.data) = 1 THEN b.code ELSE a.function,
                 discarding |-> a.discarding, started |-> a.started, last |-> t]
         /\ Joined(a, b, t) \in Assembly
         /\ Len(Joined(a, b, t).data) = Len(a.data) + 1
         /\ \A i \in 1 .. Len(a.data) : Joined(a, b, t).data[i] = a.data[i]
         /\ Joined(a, b, t).data[Len(a.data) + 1] = b
<1>1. /\ Append(a.data, b) \in Seq(Byte) /\ Len(Append(a.data, b)) = Len(a.data) + 1
      /\ \A i \in 1 .. Len(a.data) : Append(a.data, b)[i] = a.data[i]
      /\ Append(a.data, b)[Len(a.data) + 1] = b
      /\ Len(a.data) \in Nat
  BY AssemblyFields, AppendProperties
<1>2. Joined(a, b, t)
        = [data |-> Append(a.data, b), kind |-> a.kind,
           function |-> IF Len(a.data) = 1 THEN b.code ELSE a.function,
           discarding |-> a.discarding, started |-> a.started, last |-> t]
  <2> DEFINE stamped == [a EXCEPT !.last = t]
             longer == [stamped EXCEPT !.data = Append(@, b)]
  <2>4. stamped = [data |-> a.data, kind |-> a.kind, function |-> a.function,
                   discarding |-> a.discarding, started |-> a.started, last |-> t]
    BY DEF Assembly
  <2>1. longer = [data |-> Append(a.data, b), kind |-> a.kind, function |-> a.function,
                  discarding |-> a.discarding, started |-> a.started, last |-> t]
    <3>. HIDE DEF stamped
    <3>. QED  BY <2>4
  <2>2. Joined(a, b, t) = IF Len(longer.data) = 2
                          THEN [longer EXCEPT !.function = b.code] ELSE longer
    BY DEF Joined
  <2>. HIDE DEF longer
  <2>5. longer.data = Append(a.data, b)
    BY <2>1
  <2>6. Len(longer.data) = Len(a.data) + 1
    BY <1>1, <2>5
  <2>3. Len(longer.data) = 2 <=> Len(a.data) = 1
    <3> DEFINE n == Len(a.data)  m == Len(longer.data)
    <3>1. n \in Nat /\ m = n + 1
      BY <1>1, <2>6
    <3>. HIDE DEF n, m
    <3>2. m = 2 <=> n = 1
      BY <3>1
    <3>. QED  BY <3>2 DEF n, m
  <2>. QED  BY <2>1, <2>2, <2>3
<1>3. b.code \in Code
  BY DEF Byte
<1>. QED  BY <1>1, <1>2, <1>3, AssemblyFields DEF Assembly

LEMMA AssemblyChanges ==
  ASSUME NEW a \in Assembly
  PROVE  /\ \A t \in Time :
              [a EXCEPT !.last = t]
                = [data |-> a.data, kind |-> a.kind, function |-> a.function,
                   discarding |-> a.discarding, started |-> a.started, last |-> t]
         /\ \A k \in {"PENDING", "SUPPORTED", "UNKNOWN"} :
              [a EXCEPT !.kind = k]
                = [data |-> a.data, kind |-> k, function |-> a.function,
                   discarding |-> a.discarding, started |-> a.started, last |-> a.last]
         /\ \A f \in Code :
              [a EXCEPT !.function = f]
                = [data |-> a.data, kind |-> a.kind, function |-> f,
                   discarding |-> a.discarding, started |-> a.started, last |-> a.last]
         /\ \A t \in Time : [a EXCEPT !.last = t] \in Assembly
         /\ \A k \in {"PENDING", "SUPPORTED", "UNKNOWN"} : [a EXCEPT !.kind = k] \in Assembly
         /\ \A f \in Code : [a EXCEPT !.function = f] \in Assembly
  BY DEF Assembly

CoreWith(c, s, q, r) ==
  [state |-> s, request |-> q, response |-> r,
   wait_started |-> c.wait_started, recovery_started |-> c.recovery_started]

LEMMA CoreFields ==
  ASSUME NEW c \in Core
  PROVE  /\ c.state \in State /\ c.request \in Assembly /\ c.response \in Assembly
         /\ c.wait_started \in Time /\ c.recovery_started \in Time
         /\ c = CoreWith(c, c.state, c.request, c.response)
         /\ \A s \in State, q, r \in Assembly : CoreWith(c, s, q, r) \in Core
  BY DEF Core, CoreWith

LEMMA ResponseChange ==
  ASSUME NEW c \in Core, NEW s \in State, NEW r \in Assembly
  PROVE  [c EXCEPT !.response = r, !.state = s] = CoreWith(c, s, c.request, r)
<1> DEFINE d == [c EXCEPT !.response = r]
<1>1. d = CoreWith(c, c.state, c.request, r)
  BY DEF Core, CoreWith
<1>2. [d EXCEPT !.state = s] = CoreWith(c, s, c.request, r)
  <2>. HIDE DEF d
  <2>. QED  BY <1>1 DEF CoreWith
<1>. QED  BY <1>2

LEMMA CoreChanges ==
  ASSUME NEW c \in Core, NEW s \in State, NEW q \in Assembly, NEW r \in Assembly
  PROVE  /\ [c EXCEPT !.state = s] = CoreWith(c, s, c.request, c.response)
         /\ [c EXCEPT !.request = q] = CoreWith(c, c.state, q, c.response)
         /\ [c EXCEPT !.response = r] = CoreWith(c, c.state, c.request, r)
         /\ [c EXCEPT !.request = q, !.state = s] = CoreWith(c, s, q, c.response)
         /\ [c EXCEPT !.response = r, !.state = s] = CoreWith(c, s, c.request, r)
<1>1. /\ [c EXCEPT !.state = s] = CoreWith(c, s, c.request, c.response)
      /\ [c EXCEPT !.request = q] = CoreWith(c, c.state, q, c.response)
      /\ [c EXCEPT !.response = r] = CoreWith(c, c.state, c.request, r)
  BY DEF Core, CoreWith
<1>2. [c EXCEPT !.request = q, !.state = s] = CoreWith(c, s, q, c.response)
  <2> DEFINE d == [c EXCEPT !.request = q]
  <2>1. d = CoreWith(c, c.state, q, c.response)
    BY <1>1
  <2>2. [d EXCEPT !.state = s] = CoreWith(c, s, q, c.response)
    <3>. HIDE DEF d
    <3>. QED  BY <2>1 DEF CoreWith
  <2>. QED  BY <2>2
<1>3. [c EXCEPT !.response = r, !.state = s] = CoreWith(c, s, c.request, r)
  BY ResponseChange
<1>. QED  BY <1>1, <1>2, <1>3

(* A byte of the host, when a request may come: the request it joins, what *)
(* becomes of it, and the case that it is discarded.                       *)
Kept(c, t) ==
  LET r == IF c.state = "IDLE" THEN Started(t) ELSE c.request
  IN  IF Truncated(r, t) \/ (r.discarding /\ GapBefore(r, t)) THEN Started(t) ELSE r

Longer(r, b, t) ==
  [data |-> Append(r.data, b),
   kind |-> IF Len(r.data) = 1 THEN Kind(b.code) ELSE r.kind,
   function |-> IF Len(r.data) = 1 THEN b.code ELSE r.function,
   discarding |-> r.discarding, started |-> r.started, last |-> t]

Refused(r, b, t) ==
  \/ r.discarding \/ Full(r)
  \/ RequestComplete(Longer(r, b, t)) /\ Longer(r, b, t).function = "LONG"

LEMMA KindOf == \A f : Kind(f) \in {"SUPPORTED", "UNKNOWN"}
  BY DEF Kind

LEMMA LongerFields ==
  ASSUME NEW r \in Assembly, NEW b \in Byte, NEW t \in Time
  PROVE  /\ Longer(r, b, t) \in Assembly
         /\ Longer(r, b, t).data = Append(r.data, b)
         /\ Len(Longer(r, b, t).data) = Len(r.data) + 1
         /\ \A i \in 1 .. Len(r.data) : Longer(r, b, t).data[i] = r.data[i]
         /\ Longer(r, b, t).data[Len(r.data) + 1] = b
         /\ Longer(r, b, t)
              = IF Len(Joined(r, b, t).data) = 2
                THEN [Joined(r, b, t) EXCEPT !.kind = Kind(b.code)] ELSE Joined(r, b, t)
<1> DEFINE j == Joined(r, b, t)
           n == Len(r.data)
<1>1. /\ j = [data |-> Append(r.data, b), kind |-> r.kind,
              function |-> IF n = 1 THEN b.code ELSE r.function,
              discarding |-> r.discarding, started |-> r.started, last |-> t]
      /\ j \in Assembly /\ Len(j.data) = n + 1
      /\ \A i \in 1 .. n : j.data[i] = r.data[i]
      /\ j.data[n + 1] = b /\ n \in Nat
  <2>1. n \in Nat
    BY AssemblyFields
  <2>. QED  BY ONLY <2>1, JoinedFields, r \in Assembly, b \in Byte, t \in Time
<1>. HIDE DEF j, n
<1>2. Len(j.data) = 2 <=> n = 1
  <2> DEFINE m == Len(j.data)
  <2>1. m = n + 1 /\ n \in Nat
    BY <1>1
  <2>. HIDE DEF m
  <2>2. m = 2 <=> n = 1
    BY <2>1
  <2>. QED  BY <2>2 DEF m
<1>3. Longer(r, b, t) = IF Len(j.data) = 2 THEN [j EXCEPT !.kind = Kind(b.code)] ELSE j
  <2>1. CASE n = 1
    <3>1. [j EXCEPT !.kind = Kind(b.code)]
            = [data |-> j.data, kind |-> Kind(b.code), function |-> j.function,
               discarding |-> j.discarding, started |-> j.started, last |-> j.last]
      <4> DEFINE k == Kind(b.code)
      <4>1. k \in {"PENDING", "SUPPORTED", "UNKNOWN"} /\ j \in Assembly
        BY <1>1, KindOf
      <4>. HIDE DEF k
      <4>2. [j EXCEPT !.kind = k]
              = [data |-> j.data, kind |-> k, function |-> j.function,
                 discarding |-> j.discarding, started |-> j.started, last |-> j.last]
        BY <4>1, AssemblyChanges
      <4>. QED  BY <4>2 DEF k
    <3>2. /\ j.data = Append(r.data, b) /\ j.discarding = r.discarding
          /\ j.started = r.started /\ j.last = t /\ j.function = b.code
      BY <1>1, <2>1
    <3>3. Longer(r, b, t)
            = [data |-> Append(r.data, b), kind |-> Kind(b.code), function |-> b.code,
               discarding |-> r.discarding, started |-> r.started, last |-> t]
      BY <2>1 DEF Longer, n
    <3>. QED  BY <1>2, <2>1, <3>1, <3>2, <3>3
  <2>2. CASE n # 1
    <3>1. Longer(r, b, t)
            = [data |-> Append(r.data, b), kind |-> r.kind, function |-> r.function,
               discarding |-> r.discarding, started |-> r.started, last |-> t]
      BY <2>2 DEF Longer, n
    <3>. QED  BY <1>1, <1>2, <2>2, <3>1
  <2>. QED  BY <2>1, <2>2
<1>4. Longer(r, b, t) \in Assembly
  <2>1. [j EXCEPT !.kind = Kind(b.code)] \in Assembly
    BY <1>1, KindOf, AssemblyChanges
  <2>. QED  BY <1>1, <1>3, <2>1
<1>5. Longer(r, b, t).data = Append(r.data, b) /\ j.data = Append(r.data, b)
  BY <1>1 DEF Longer
<1>. QED  BY <1>1, <1>3, <1>4, <1>5 DEF j, n

LEMMA NotComplete ==
  ASSUME NEW a, a.data = <<>>
  PROVE  ~RequestComplete(a) /\ ~ResponseComplete(a)
  BY Constants DEF RequestComplete, ResponseComplete, Length

LEMMA KeptFields ==
  ASSUME NEW c, Good(c), NEW t \in Time
  PROVE  /\ Kept(c, t) \in Assembly /\ Orderly(Kept(c, t))
         /\ Len(Kept(c, t).data) <= MaxAduBytes
         /\ \A i \in 1 .. Len(Kept(c, t).data) : HostByte(Kept(c, t).data[i])
         /\ \/ Kept(c, t) = Started(t)
            \/ /\ c.state # "IDLE" /\ Kept(c, t) = c.request
               /\ ~Truncated(c.request, t)
               /\ ~(c.request.discarding /\ GapBefore(c.request, t))
<1>1. Started(t) \in Assembly /\ c.request \in Assembly
  BY StartedFields, CoreFields DEF Good, CoreTyped
<1>2. Orderly(Started(t)) /\ Len(Started(t).data) = 0
  BY StartedFields DEF Orderly
<1>. QED  BY <1>1, <1>2, Constants DEF Good, CoreTyped, CoreOrderly, Kept

LEMMA HostByteTakes ==
  ASSUME NEW c, Good(c), NEW b \in Byte, HostByte(b), NEW t \in Time,
         c.state \in {"IDLE", "RECEIVE_REQUEST"}
  PROVE  LET r == Kept(c, t)
         IN  \/ /\ Refused(r, b, t)
                /\ \E q \in Assembly :
                     /\ q.discarding /\ q.data = <<>>
                     /\ OnHostByte(c, b, t) = CoreWith(c, "RECEIVE_REQUEST", q, c.response)
             \/ /\ ~Refused(r, b, t)
                /\ OnHostByte(c, b, t)
                     = CoreWith(c, IF RequestComplete(Longer(r, b, t)) THEN "SEND_REQUEST"
                                   ELSE "RECEIVE_REQUEST", Longer(r, b, t), c.response)
<1> DEFINE r == Kept(c, t)
           next == Longer(r, b, t)
           stamped == [r EXCEPT !.last = t]
           filled == [r EXCEPT !.last = t, !.kind = next.kind, !.function = next.function]
           request == CASE r.discarding -> stamped
                        [] Full(r) \/ (RequestComplete(next) /\ next.function = "LONG") ->
                             Discarding(filled)
                        [] OTHER -> next
<1>1. OnHostByte(c, b, t)
        = [c EXCEPT !.request = request,
                    !.state = IF RequestComplete(request) THEN "SEND_REQUEST"
                              ELSE "RECEIVE_REQUEST"]
  <2>1. r \in Assembly
    BY KeptFields
  <2>2. next = IF Len(Joined(r, b, t).data) = 2
               THEN [Joined(r, b, t) EXCEPT !.kind = Kind(b.code)] ELSE Joined(r, b, t)
    BY <2>1, LongerFields
  <2>. HIDE DEF next
  <2>. QED  BY <2>2 DEF OnHostByte, Kept
<1>2. r \in Assembly /\ next \in Assembly /\ Orderly(r)
  BY KeptFields, LongerFields
<1>. HIDE DEF r, next
<1>3. stamped \in Assembly /\ stamped.data = r.data /\ (stamped.discarding <=> r.discarding)
  <2>1. stamped = [data |-> r.data, kind |-> r.kind, function |-> r.function,
                   discarding |-> r.discarding, started |-> r.started, last |-> t]
    BY <1>2, AssemblyChanges
  <2>2. stamped.data = r.data /\ stamped.discarding = r.discarding
    BY <2>1
  <2>. QED  BY <1>2, <2>2, AssemblyChanges
<1>4. /\ filled \in Assembly
      /\ Discarding(filled) \in Assembly /\ Discarding(filled).data = <<>>
      /\ Discarding(filled).discarding
  <2> DEFINE kinded == [stamped EXCEPT !.kind = next.kind]
  <2>1. next.kind \in {"PENDING", "SUPPORTED", "UNKNOWN"} /\ next.function \in Code
    BY <1>2, AssemblyFields
  <2>2. kinded \in Assembly
    <3>. HIDE DEF stamped
    <3>. QED  BY <1>3, <2>1, AssemblyChanges
  <2>3. [kinded EXCEPT !.function = next.function] \in Assembly
    <3>. HIDE DEF kinded
    <3>. QED  BY <2>1, <2>2, AssemblyChanges
  <2>4. filled \in Assembly
    BY <2>3
  <2>. HIDE DEF filled
  <2>. QED  BY <2>4, AssemblyFields
<1>. HIDE DEF stamped, filled
<1>5. CASE r.discarding
  <2>0. ~Full(r) /\ ~RequestComplete(next)
    <3>1. Len(r.data) = 0 /\ r.data \in Seq(Byte)
      BY <1>2, <1>5, AssemblyFields DEF Orderly
    <3>4. Len(next.data) = Len(r.data) + 1
      BY <1>2, LongerFields DEF next
    <3>2. Len(next.data) = 1
      BY <3>1, <3>4
    <3>3. ~Full(r)
      BY <3>1, Constants DEF Full
    <3>. QED  BY <3>2, <3>3, Constants DEF RequestComplete
  <2>1. request = stamped
    BY <1>5, <2>0
  <2>2. stamped.data = <<>> /\ stamped.discarding
    BY <1>2, <1>3, <1>5 DEF Orderly
  <2>3. OnHostByte(c, b, t) = CoreWith(c, "RECEIVE_REQUEST", stamped, c.response)
    <3>1. c \in Core /\ "RECEIVE_REQUEST" \in State
      BY DEF Good, CoreTyped, State
    <3>2. OnHostByte(c, b, t) = [c EXCEPT !.request = stamped, !.state = "RECEIVE_REQUEST"]
      BY <1>1, <2>1, <2>2, NotComplete
    <3> DEFINE s == "RECEIVE_REQUEST"
    <3>3. s \in State /\ OnHostByte(c, b, t) = [c EXCEPT !.request = stamped, !.state = s]
      BY <3>1, <3>2
    <3>. HIDE DEF s
    <3>4. OnHostByte(c, b, t) = CoreWith(c, s, stamped, c.response)
      BY <1>3, <3>1, <3>3, CoreChanges
    <3>. QED  BY <3>4 DEF s
  <2>4. Refused(r, b, t)
    BY <1>5 DEF Refused
  <2>. QED  BY <1>3, <2>2, <2>3, <2>4 DEF r, next
<1>6. CASE ~r.discarding /\ (Full(r) \/ (RequestComplete(next) /\ next.function = "LONG"))
  <2>1. request = Discarding(filled)
    BY <1>6
  <2>3. OnHostByte(c, b, t) = CoreWith(c, "RECEIVE_REQUEST", Discarding(filled), c.response)
    <3>1. c \in Core /\ "RECEIVE_REQUEST" \in State
      BY DEF Good, CoreTyped, State
    <3>2. OnHostByte(c, b, t)
            = [c EXCEPT !.request = Discarding(filled), !.state = "RECEIVE_REQUEST"]
      BY <1>1, <1>4, <2>1, NotComplete
    <3> DEFINE s == "RECEIVE_REQUEST"
    <3>3. s \in State /\ OnHostByte(c, b, t) = [c EXCEPT !.request = Discarding(filled), !.state = s]
      BY <3>1, <3>2
    <3>. HIDE DEF s
    <3>4. OnHostByte(c, b, t) = CoreWith(c, s, Discarding(filled), c.response)
      BY <1>4, <3>1, <3>3, CoreChanges
    <3>. QED  BY <3>4 DEF s
  <2>4. Refused(r, b, t)
    BY <1>6 DEF Refused, next
  <2>. QED  BY <1>4, <2>3, <2>4 DEF r, next
<1>7. CASE ~r.discarding /\ ~(Full(r) \/ (RequestComplete(next) /\ next.function = "LONG"))
  <2>1. request = next
    BY <1>7
  <2>3. OnHostByte(c, b, t)
          = CoreWith(c, IF RequestComplete(next) THEN "SEND_REQUEST" ELSE "RECEIVE_REQUEST",
                     next, c.response)
    <3> DEFINE s == IF RequestComplete(next) THEN "SEND_REQUEST" ELSE "RECEIVE_REQUEST"
    <3>1. c \in Core /\ s \in State
      BY DEF Good, CoreTyped, State
    <3>2. OnHostByte(c, b, t) = [c EXCEPT !.request = next, !.state = s]
      BY <1>1, <2>1
    <3>. HIDE DEF s
    <3>3. OnHostByte(c, b, t) = CoreWith(c, s, next, c.response)
      BY <1>2, <3>1, <3>2, CoreChanges
    <3>. QED  BY <3>3 DEF s
  <2>4. ~Refused(r, b, t)
    BY <1>7 DEF Refused, next
  <2>. QED  BY <2>3, <2>4 DEF r, next
<1>. QED  BY <1>5, <1>6, <1>7

(* A byte of the line, while a response is awaited: what comes of the      *)
(* response that it joins, and the case that this is discarded.            *)
KeptResponse(c, t) == IF Truncated(c.response, t) THEN Cleared ELSE c.response

ResponseKind(c, r, b) ==
  IF Len(r.data) = 1 THEN AnswerKind(c.request.function, b.code) ELSE r.kind

LongerResponse(c, r, b, t) ==
  [data |-> Append(r.data, b), kind |-> ResponseKind(c, r, b),
   function |-> IF Len(r.data) = 1 THEN b.code ELSE r.function,
   discarding |-> r.discarding, started |-> r.started, last |-> t]

Mismatched(c, r, b) == Full(r) \/ ResponseKind(c, r, b) = "MISMATCH"

LEMMA KeptResponseFields ==
  ASSUME NEW c, Good(c), NEW t \in Time, ~c.response.discarding
  PROVE  /\ KeptResponse(c, t) \in Assembly /\ Orderly(KeptResponse(c, t))
         /\ ~KeptResponse(c, t).discarding
         /\ Len(KeptResponse(c, t).data) <= MaxAduBytes
         /\ \A i \in 1 .. Len(KeptResponse(c, t).data) : LineByte(KeptResponse(c, t).data[i])
         /\ Len(KeptResponse(c, t).data) >= 2 =>
              KeptResponse(c, t).data[2].code \in {Exception, c.request.function}
         /\ DropTruncated(c, t) = CoreWith(c, c.state, c.request, KeptResponse(c, t))
<1>1. /\ Cleared \in Assembly /\ c.response \in Assembly /\ c \in Core
      /\ c.request \in Assembly /\ c.state \in State
  BY StartedFields, CoreFields, Constants DEF Good, CoreTyped, Time
<1>2. Cleared.data = <<>> /\ ~Cleared.discarding /\ Orderly(Cleared) /\ Len(Cleared.data) = 0
  <2>1. Cleared.data = <<>> /\ ~Cleared.discarding /\ Cleared.kind = "PENDING"
    BY StartedFields
  <2>2. Len(Cleared.data) = 0
    BY <2>1
  <2>. QED  BY <2>1, <2>2 DEF Orderly
<1>3. /\ KeptResponse(c, t) \in Assembly /\ Orderly(KeptResponse(c, t))
      /\ ~KeptResponse(c, t).discarding
      /\ Len(KeptResponse(c, t).data) <= MaxAduBytes
      /\ \A i \in 1 .. Len(KeptResponse(c, t).data) : LineByte(KeptResponse(c, t).data[i])
      /\ Len(KeptResponse(c, t).data) >= 2 =>
           KeptResponse(c, t).data[2].code \in {Exception, c.request.function}
  <2>1. CASE Truncated(c.response, t)
    BY <1>1, <1>2, <2>1, Constants, SMTT(60) DEF KeptResponse
  <2>2. CASE ~Truncated(c.response, t)
    BY <1>1, <2>2 DEF KeptResponse, Good, CoreTyped, CoreOrderly
  <2>. QED  BY <2>1, <2>2
<1>4. DropTruncated(c, t) = CoreWith(c, c.state, c.request, KeptResponse(c, t))
  <2>1. [c EXCEPT !.response = Cleared] = CoreWith(c, c.state, c.request, Cleared)
    BY <1>1, CoreChanges
  <2>2. c = CoreWith(c, c.state, c.request, c.response)
    BY <1>1, CoreFields
  <2>. QED  BY <2>1, <2>2 DEF DropTruncated, KeptResponse
<1>. QED  BY <1>3, <1>4

LEMMA LongerResponseIs ==
  ASSUME NEW c, NEW r \in Assembly, NEW b \in Byte, NEW t \in Time,
         ResponseKind(c, r, b) # "MISMATCH"
  PROVE  [Joined(r, b, t) EXCEPT !.kind = ResponseKind(c, r, b)] = LongerResponse(c, r, b, t)
<1>0. /\ Joined(r, b, t)
           = [data |-> Append(r.data, b), kind |-> r.kind,
              function |-> IF Len(r.data) = 1 THEN b.code ELSE r.function,
              discarding |-> r.discarding, started |-> r.started, last |-> t]
      /\ Joined(r, b, t) \in Assembly
  BY JoinedFields, Zenon
<1> DEFINE j == Joined(r, b, t)
           k == ResponseKind(c, r, b)
<1>1. /\ j = [data |-> Append(r.data, b), kind |-> r.kind,
              function |-> IF Len(r.data) = 1 THEN b.code ELSE r.function,
              discarding |-> r.discarding, started |-> r.started, last |-> t]
      /\ j \in Assembly
  BY <1>0, Zenon DEF j
<1>2. k \in {"PENDING", "SUPPORTED", "UNKNOWN"}
  BY KindOf DEF ResponseKind, AnswerKind, Assembly
<1>. HIDE DEF j, k
<1>3. [j EXCEPT !.kind = k]
        = [data |-> j.data, kind |-> k, function |-> j.function,
           discarding |-> j.discarding, started |-> j.started, last |-> j.last]
  <2>1. j \in Assembly
    BY <1>1
  <2>. QED  BY <1>2, <2>1, AssemblyChanges, Zenon
<1>4. /\ j.data = Append(r.data, b) /\ j.discarding = r.discarding
      /\ j.started = r.started /\ j.last = t
      /\ j.function = IF Len(r.data) = 1 THEN b.code ELSE r.function
  BY <1>1
<1>5. [j EXCEPT !.kind = k] = LongerResponse(c, r, b, t)
  BY <1>3, <1>4 DEF LongerResponse, k
<1>. QED  BY <1>5 DEF j, k

LEMMA LongerResponseFields ==
  ASSUME NEW c, NEW r \in Assembly, NEW b \in Byte, NEW t \in Time,
         ResponseKind(c, r, b) # "MISMATCH"
  PROVE  /\ LongerResponse(c, r, b, t) \in Assembly
         /\ LongerResponse(c, r, b, t).data = Append(r.data, b)
         /\ Len(LongerResponse(c, r, b, t).data) = Len(r.data) + 1
         /\ \A i \in 1 .. Len(r.data) : LongerResponse(c, r, b, t).data[i] = r.data[i]
         /\ LongerResponse(c, r, b, t).data[Len(r.data) + 1] = b
<1>0. /\ Joined(r, b, t)
           = [data |-> Append(r.data, b), kind |-> r.kind,
              function |-> IF Len(r.data) = 1 THEN b.code ELSE r.function,
              discarding |-> r.discarding, started |-> r.started, last |-> t]
      /\ Joined(r, b, t) \in Assembly
      /\ Len(Joined(r, b, t).data) = Len(r.data) + 1
      /\ \A i \in 1 .. Len(r.data) : Joined(r, b, t).data[i] = r.data[i]
      /\ Joined(r, b, t).data[Len(r.data) + 1] = b
  BY JoinedFields, Zenon
<1> DEFINE j == Joined(r, b, t)
           k == ResponseKind(c, r, b)
<1>1. /\ j = [data |-> Append(r.data, b), kind |-> r.kind,
              function |-> IF Len(r.data) = 1 THEN b.code ELSE r.function,
              discarding |-> r.discarding, started |-> r.started, last |-> t]
      /\ j \in Assembly /\ Len(j.data) = Len(r.data) + 1
      /\ \A i \in 1 .. Len(r.data) : j.data[i] = r.data[i]
      /\ j.data[Len(r.data) + 1] = b
  BY <1>0, Zenon DEF j
<1>2. k \in {"PENDING", "SUPPORTED", "UNKNOWN"}
  BY KindOf DEF ResponseKind, AnswerKind, Assembly
<1>. HIDE DEF j, k
<1>3. [j EXCEPT !.kind = k]
        = [data |-> j.data, kind |-> k, function |-> j.function,
           discarding |-> j.discarding, started |-> j.started, last |-> j.last]
  <2>1. j \in Assembly
    BY <1>1
  <2>. QED  BY <1>2, <2>1, AssemblyChanges, Zenon
<1>4. /\ j.data = Append(r.data, b) /\ j.discarding = r.discarding
      /\ j.started = r.started /\ j.last = t
      /\ j.function = IF Len(r.data) = 1 THEN b.code ELSE r.function
  BY <1>1
<1>5. [j EXCEPT !.kind = k] = LongerResponse(c, r, b, t)
  BY <1>3, <1>4 DEF LongerResponse, k
<1>6. LongerResponse(c, r, b, t) \in Assembly
  <2>1. j \in Assembly
    BY <1>1
  <2>2. [j EXCEPT !.kind = k] \in Assembly
    BY <1>2, <2>1, AssemblyChanges, Zenon
  <2>. QED  BY <1>5, <2>2
<1>7. LongerResponse(c, r, b, t).data = Append(r.data, b)
  BY DEF LongerResponse
<1>8. LongerResponse(c, r, b, t).data = j.data
  BY <1>4, <1>7
<1>. QED  BY <1>1, <1>6, <1>7, <1>8 DEF j, k

LEMMA LongerResponseTyped ==
  ASSUME NEW c, NEW r \in Assembly, NEW b \in Byte, NEW t \in Time,
         ResponseKind(c, r, b) # "MISMATCH"
  PROVE  /\ LongerResponse(c, r, b, t) \in Assembly
         /\ Len(LongerResponse(c, r, b, t).data) = Len(r.data) + 1
  BY LongerResponseFields, SMTT(60)

LEMMA Rs485ByteTakes ==
  ASSUME NEW c, Good(c), NEW b \in Byte, NEW t \in Time,
         c.state = "WAIT_RESPONSE", ~c.response.discarding
  PROVE  LET r == KeptResponse(c, t)
         IN  \/ /\ Mismatched(c, r, b)
                /\ \E q \in Assembly :
                     /\ q.discarding /\ q.data = <<>>
                     /\ OnRs485Byte(c, b, t) = CoreWith(c, "WAIT_RESPONSE", c.request, q)
             \/ /\ ~Mismatched(c, r, b)
                /\ OnRs485Byte(c, b, t)
                     = CoreWith(c, IF ResponseComplete(LongerResponse(c, r, b, t))
                                   THEN "SEND_RESPONSE" ELSE "WAIT_RESPONSE",
                                c.request, LongerResponse(c, r, b, t))
<1> DEFINE r == KeptResponse(c, t)
           k == ResponseKind(c, r, b)
           kept == DropTruncated(c, t)
           stamped == [r EXCEPT !.last = t]
           response == IF Full(r) \/ k = "MISMATCH" THEN Discarding(stamped)
                       ELSE [Joined(r, b, t) EXCEPT !.kind = k]
           s == IF ResponseComplete(response) THEN "SEND_RESPONSE" ELSE "WAIT_RESPONSE"
<1>1. /\ r \in Assembly /\ kept = CoreWith(c, "WAIT_RESPONSE", c.request, r)
      /\ c.request \in Assembly /\ c \in Core
  BY KeptResponseFields, CoreFields DEF Good, CoreTyped
<1>2. kept.response = r /\ kept.state = "WAIT_RESPONSE" /\ kept.request = c.request
  BY <1>1 DEF CoreWith
<1>3. k = IF Len(Joined(r, b, t).data) = 2
          THEN AnswerKind(c.request.function, b.code) ELSE r.kind
  <2> DEFINE n == Len(r.data)  m == Len(Joined(r, b, t).data)
  <2>1. n \in Nat /\ m = n + 1
    BY <1>1, JoinedFields, AssemblyFields
  <2>. HIDE DEF n, m
  <2>2. n = 1 <=> m = 2
    BY <2>1
  <2>. QED  BY <2>2 DEF n, m, ResponseKind
<1>4. OnRs485Byte(c, b, t) = [kept EXCEPT !.response = response, !.state = s]
  <2>. HIDE DEF k, r
  <2>1. OnRs485Byte(c, b, t)
          = [kept EXCEPT !.response = response,
                         !.state = IF ResponseComplete(response) THEN "SEND_RESPONSE" ELSE @]
    BY <1>2, <1>3 DEF OnRs485Byte
  <2>. QED  BY <1>2, <2>1
<1>. HIDE DEF r, k, kept, s
<1>5. kept \in Core /\ \A x \in State, q \in Assembly :
        CoreWith(kept, x, c.request, q) = CoreWith(c, x, c.request, q)
  BY <1>1, CoreFields DEF CoreWith, State
<1>6. stamped \in Assembly
  BY <1>1, AssemblyChanges
<1>. HIDE DEF stamped
<1>7. Discarding(stamped) \in Assembly /\ Discarding(stamped).data = <<>>
      /\ Discarding(stamped).discarding
  BY <1>6, AssemblyFields
<1>11. k # "MISMATCH" => [Joined(r, b, t) EXCEPT !.kind = k] = LongerResponse(c, r, b, t)
  <2>. HAVE k # "MISMATCH"
  <2>1. ResponseKind(c, r, b) # "MISMATCH"
    BY DEF k
  <2>2. [Joined(r, b, t) EXCEPT !.kind = ResponseKind(c, r, b)] = LongerResponse(c, r, b, t)
    <3>1. r \in Assembly
      BY <1>1
    <3>2. ASSUME NEW q \in Assembly, ResponseKind(c, q, b) # "MISMATCH"
          PROVE  [Joined(q, b, t) EXCEPT !.kind = ResponseKind(c, q, b)]
                   = LongerResponse(c, q, b, t)
      BY <3>2, LongerResponseIs
    <3>. QED  BY ONLY <2>1, <3>1, <3>2
  <2>. QED  BY <2>2 DEF k
<1>8. response \in Assembly
  <2>1. CASE k # "MISMATCH"
    <3>1. LongerResponse(c, r, b, t) \in Assembly
      BY <1>1, <2>1, LongerResponseFields DEF k
    <3>. QED  BY <1>7, <1>11, <2>1, <3>1
  <2>. QED  BY <1>7, <2>1
<1>9. OnRs485Byte(c, b, t) = CoreWith(c, s, c.request, response)
  <2>. HIDE DEF response
  <2>1. s \in State
    BY DEF s, State
  <2>2. [kept EXCEPT !.response = response, !.state = s]
          = CoreWith(kept, s, kept.request, response)
    BY <1>5, <1>8, <2>1, ResponseChange, ZenonT(60)
  <2>. QED  BY <1>2, <1>4, <1>5, <1>8, <2>1, <2>2
<1>10. CASE Full(r) \/ k = "MISMATCH"
  <2>1. response = Discarding(stamped)
    BY <1>10
  <2>2. s = "WAIT_RESPONSE"
    BY <1>7, <2>1, NotComplete DEF s
  <2>3. OnRs485Byte(c, b, t) = CoreWith(c, "WAIT_RESPONSE", c.request, Discarding(stamped))
    BY <1>9, <2>1, <2>2
  <2>. QED  BY <1>7, <1>10, <2>3 DEF r, k, Mismatched
<1>12. CASE ~(Full(r) \/ k = "MISMATCH")
  <2>1. response = LongerResponse(c, r, b, t)
    BY <1>11, <1>12
  <2>2. s = IF ResponseComplete(LongerResponse(c, r, b, t)) THEN "SEND_RESPONSE" ELSE "WAIT_RESPONSE"
    BY <2>1 DEF s
  <2>3. OnRs485Byte(c, b, t)
          = CoreWith(c, IF ResponseComplete(LongerResponse(c, r, b, t)) THEN "SEND_RESPONSE"
                        ELSE "WAIT_RESPONSE", c.request, LongerResponse(c, r, b, t))
    BY <1>9, <2>1, <2>2
  <2>. QED  BY <1>12, <2>3 DEF r, k, Mismatched
<1>. QED  BY <1>10, <1>12

(* What time alone does.                                                   *)
LEMMA StateIs ==
  ASSUME NEW c \in Core, NEW s \in State
  PROVE  [c EXCEPT !.state = s] = CoreWith(c, s, c.request, c.response)
  BY DEF Core, CoreWith

RequestEnds(r, t) ==
  IF r.kind = "UNKNOWN" \/ r.discarding THEN Quiet(r, t)
  ELSE Elapsed(t, r.started) >= RequestAssemblyTimeout

RequestStands(r) == r.kind = "UNKNOWN" /\ ~r.discarding /\ Len(r.data) >= MinAduBytes

ResponseEnds(r, t) ==
  /\ r.kind = "UNKNOWN" /\ ~r.discarding /\ r.data # <<>>
  /\ Elapsed(t, r.last) >= UnknownFrameGap

WaitEnds(c, t) == Elapsed(t, c.wait_started) >= ResponseTimeout

Recovering(c, t) ==
  [state |-> "RECOVERY", request |-> c.request, response |-> Cleared,
   wait_started |-> c.wait_started, recovery_started |-> t]

LEMMA BackToIdleIs ==
  ASSUME NEW c \in Core
  PROVE  BackToIdle(c) = CoreWith(c, "IDLE", Cleared, Cleared)
<1> DEFINE s == "IDLE"
           d == [c EXCEPT !.state = s]
           e == [d EXCEPT !.request = Cleared]
<1>1. s \in State
  BY DEF State
<1>. HIDE DEF s
<1>2. d = CoreWith(c, s, c.request, c.response)
  BY <1>1, StateIs
<1>3. e = CoreWith(c, s, Cleared, c.response)
  <2>. HIDE DEF d
  <2>. QED  BY <1>2 DEF CoreWith
<1>4. [e EXCEPT !.response = Cleared] = CoreWith(c, s, Cleared, Cleared)
  <2>. HIDE DEF e
  <2>. QED  BY <1>3 DEF CoreWith
<1>. QED  BY <1>4 DEF s, BackToIdle

LEMMA RecoveringIs ==
  ASSUME NEW c \in Core, NEW t \in Time
  PROVE  [c EXCEPT !.state = "RECOVERY", !.recovery_started = t, !.response = Cleared]
           = Recovering(c, t)
<1> DEFINE s == "RECOVERY"
           d == [c EXCEPT !.state = s]
           e == [d EXCEPT !.recovery_started = t]
<1>1. s \in State
  BY DEF State
<1>. HIDE DEF s
<1>2. d = CoreWith(c, s, c.request, c.response)
  BY <1>1, StateIs
<1>3. e = [state |-> s, request |-> c.request, response |-> c.response,
           wait_started |-> c.wait_started, recovery_started |-> t]
  <2>. HIDE DEF d
  <2>. QED  BY <1>2 DEF CoreWith
<1>4. [e EXCEPT !.response = Cleared]
        = [state |-> s, request |-> c.request, response |-> Cleared,
           wait_started |-> c.wait_started, recovery_started |-> t]
  <2>. HIDE DEF e
  <2>. QED  BY <1>3
<1>. QED  BY <1>4 DEF s, Recovering

LEMMA TickRequestDoes ==
  ASSUME NEW c \in Core, NEW t \in Time, c.state = "RECEIVE_REQUEST"
  PROVE  CoreTick(c, t)
           = IF ~RequestEnds(c.request, t) THEN c
             ELSE IF RequestStands(c.request)
             THEN CoreWith(c, "SEND_REQUEST", c.request, c.response)
             ELSE CoreWith(c, "IDLE", Cleared, Cleared)
<1>1. CoreTick(c, t) = TickRequest(c, t)
  BY DEF CoreTick
<1>2. TickRequest(c, t)
        = IF ~RequestEnds(c.request, t) THEN c
          ELSE IF RequestStands(c.request)
          THEN [c EXCEPT !.state = "SEND_REQUEST"] ELSE BackToIdle(c)
  BY DEF TickRequest, RequestEnds, RequestStands
<1>3. [c EXCEPT !.state = "SEND_REQUEST"] = CoreWith(c, "SEND_REQUEST", c.request, c.response)
  BY DEF Core, CoreWith
<1>. QED  BY <1>1, <1>2, <1>3, BackToIdleIs

LEMMA TickResponseDoes ==
  ASSUME NEW c \in Core, NEW t \in Time, c.state = "WAIT_RESPONSE"
  PROVE  CoreTick(c, t)
           = IF ResponseEnds(c.response, t) /\ Len(c.response.data) >= MinAduBytes
             THEN CoreWith(c, "SEND_RESPONSE", c.request, c.response)
             ELSE IF WaitEnds(c, t) THEN Recovering(c, t)
             ELSE IF ResponseEnds(c.response, t)
             THEN CoreWith(c, "WAIT_RESPONSE", c.request, Discarding(c.response)) ELSE c
<1>1. CoreTick(c, t) = TickResponse(c, t)
  BY DEF CoreTick
<1>2. TickResponse(c, t)
        = IF ResponseEnds(c.response, t) /\ Len(c.response.data) >= MinAduBytes
          THEN [c EXCEPT !.state = "SEND_RESPONSE"]
          ELSE IF WaitEnds(c, t)
          THEN [c EXCEPT !.state = "RECOVERY", !.recovery_started = t, !.response = Cleared]
          ELSE IF ResponseEnds(c.response, t)
          THEN [c EXCEPT !.response = Discarding(c.response)] ELSE c
  BY DEF TickResponse, ResponseEnds, WaitEnds
<1>3. [c EXCEPT !.state = "SEND_RESPONSE"]
        = CoreWith(c, "SEND_RESPONSE", c.request, c.response)
  BY DEF Core, CoreWith
<1>4. [c EXCEPT !.response = Discarding(c.response)]
        = CoreWith(c, "WAIT_RESPONSE", c.request, Discarding(c.response))
  <2>1. Discarding(c.response) \in Assembly
    BY CoreFields, AssemblyFields
  <2>. QED  BY <2>1 DEF Core, CoreWith
<1>. QED  BY <1>1, <1>2, <1>3, <1>4, RecoveringIs

LEMMA TickRecoveryDoes ==
  ASSUME NEW c \in Core, NEW t \in Time, c.state = "RECOVERY"
  PROVE  CoreTick(c, t)
           = IF Elapsed(t, c.recovery_started) >= ResponseRecovery
             THEN CoreWith(c, "IDLE", Cleared, Cleared) ELSE c
  BY BackToIdleIs DEF CoreTick

LEMMA TickElse ==
  ASSUME NEW c, NEW t, c.state \notin {"RECEIVE_REQUEST", "WAIT_RESPONSE", "RECOVERY"}
  PROVE  CoreTick(c, t) = c
  BY DEF CoreTick

LEMMA WithFields ==
  ASSUME NEW c, NEW s, NEW q, NEW r
  PROVE  /\ CoreWith(c, s, q, r).state = s /\ CoreWith(c, s, q, r).request = q
         /\ CoreWith(c, s, q, r).response = r
         /\ CoreWith(c, s, q, r).wait_started = c.wait_started
         /\ CoreWith(c, s, q, r).recovery_started = c.recovery_started
  BY DEF CoreWith

LEMMA RecoveringFields ==
  ASSUME NEW c, NEW t
  PROVE  /\ Recovering(c, t).state = "RECOVERY" /\ Recovering(c, t).request = c.request
         /\ Recovering(c, t).response = Cleared
         /\ Recovering(c, t).wait_started = c.wait_started
         /\ Recovering(c, t).recovery_started = t
  BY DEF Recovering

LEMMA EmptyOrderly ==
  /\ Cleared \in Assembly /\ Len(Cleared.data) = 0 /\ Orderly(Cleared) /\ Cleared.data = <<>>
  /\ \A t \in Time : Started(t) \in Assembly /\ Len(Started(t).data) = 0 /\ Orderly(Started(t))
<1>1. ASSUME NEW t \in Time
      PROVE  Started(t) \in Assembly /\ Len(Started(t).data) = 0 /\ Orderly(Started(t))
  <2>1. /\ Started(t) \in Assembly /\ Started(t).data = <<>> /\ Started(t).kind = "PENDING"
        /\ ~Started(t).discarding
    BY StartedFields
  <2>2. Len(Started(t).data) = 0
    BY <2>1
  <2>. QED  BY <2>1, <2>2 DEF Orderly
<1>2. 0 \in Time
  BY Constants DEF Time
<1>3. Cleared.data = <<>>
  BY <1>2, StartedFields
<1>. QED  BY <1>1, <1>2, <1>3 DEF Cleared

LEMMA DiscardedOrderly ==
  ASSUME NEW a \in Assembly, a.discarding, a.data = <<>>
  PROVE  Orderly(a) /\ Len(a.data) = 0
  BY DEF Orderly

LEMMA GoodIdle ==
  ASSUME NEW c \in Core
  PROVE  Good(CoreWith(c, "IDLE", Cleared, Cleared))
<1> DEFINE d == CoreWith(c, "IDLE", Cleared, Cleared)
<1>1. d \in Core
  BY CoreFields, EmptyOrderly DEF State
<1>2. d.state = "IDLE" /\ d.request = Cleared /\ d.response = Cleared
  BY WithFields
<1>. HIDE DEF d
<1>3. Len(d.request.data) = 0 /\ Len(d.response.data) = 0
  BY <1>2, EmptyOrderly
<1>. QED  BY <1>1, <1>2, <1>3, EmptyOrderly, Constants DEF Good, CoreTyped, CoreOrderly, d

LEMMA GoodTick ==
  ASSUME NEW c, Good(c), NEW t \in Time
  PROVE  Good(CoreTick(c, t))
<1>1. /\ c \in Core /\ c.request \in Assembly /\ c.response \in Assembly
      /\ Len(c.request.data) \in Nat /\ Len(c.response.data) \in Nat
  BY CoreFields, AssemblyFields DEF Good, CoreTyped
<1>2. CASE c.state = "RECEIVE_REQUEST"
  <2> DEFINE d == CoreWith(c, "SEND_REQUEST", c.request, c.response)
  <2>1. ASSUME RequestStands(c.request)  PROVE Good(d)
    <3>1. d \in Core
      BY <1>1, CoreFields DEF State
    <3>2. d.state = "SEND_REQUEST" /\ d.request = c.request /\ d.response = c.response
      BY WithFields
    <3>. HIDE DEF d
    <3>. QED  BY <1>1, <1>2, <2>1, <3>1, <3>2
                 DEF Good, CoreTyped, CoreOrderly, RequestStands, Ready
  <2>. QED  BY <1>1, <1>2, <2>1, TickRequestDoes, GoodIdle
<1>3. CASE c.state = "WAIT_RESPONSE"
  <2> DEFINE d == CoreWith(c, "SEND_RESPONSE", c.request, c.response)
             e == Recovering(c, t)
             f == CoreWith(c, "WAIT_RESPONSE", c.request, Discarding(c.response))
  <2>1. ASSUME ResponseEnds(c.response, t), Len(c.response.data) >= MinAduBytes
        PROVE  Good(d)
    <3>1. d \in Core
      BY <1>1, CoreFields DEF State
    <3>2. d.state = "SEND_RESPONSE" /\ d.request = c.request /\ d.response = c.response
      BY WithFields
    <3>. HIDE DEF d
    <3>. QED  BY <1>1, <1>3, <2>1, <3>1, <3>2
                 DEF Good, CoreTyped, CoreOrderly, ResponseEnds, ReadyResponse
  <2>2. Good(e)
    <3>1. e \in Core
      BY <1>1, EmptyOrderly, CoreFields DEF Recovering, Core, State
    <3>2. e.state = "RECOVERY" /\ e.request = c.request /\ e.response = Cleared
      BY RecoveringFields
    <3>. HIDE DEF e
    <3>. QED  BY <1>1, <1>3, <3>1, <3>2, EmptyOrderly, Constants
                 DEF Good, CoreTyped, CoreOrderly
  <2>3. Good(f)
    <3>1. /\ Discarding(c.response) \in Assembly /\ Discarding(c.response).data = <<>>
          /\ Discarding(c.response).discarding
      BY <1>1, AssemblyFields
    <3>2. f \in Core
      BY <1>1, <3>1, CoreFields DEF State
    <3>3. f.state = "WAIT_RESPONSE" /\ f.request = c.request /\ f.response = Discarding(c.response)
      BY WithFields
    <3>4. Len(f.response.data) = 0 /\ Orderly(f.response)
      BY <3>1, <3>3, DiscardedOrderly
    <3>. HIDE DEF f
    <3>. QED  BY <1>1, <1>3, <3>2, <3>3, <3>4, Constants DEF Good, CoreTyped, CoreOrderly
  <2>. QED  BY <1>1, <1>3, <2>1, <2>2, <2>3, TickResponseDoes
<1>4. CASE c.state = "RECOVERY"
  BY <1>1, <1>4, TickRecoveryDoes, GoodIdle
<1>5. CASE c.state \notin {"RECEIVE_REQUEST", "WAIT_RESPONSE", "RECOVERY"}
  BY <1>5, TickElse
<1>. QED  BY <1>2, <1>3, <1>4, <1>5

LEMMA GoodHostByte ==
  ASSUME NEW c, Good(c), NEW b \in Byte, HostByte(b), NEW t \in Time
  PROVE  Good(OnHostByte(c, b, t))
<1> DEFINE r == Kept(c, t)
           a == Longer(r, b, t)
           n == Len(r.data)
<1>1. /\ c \in Core /\ c.request \in Assembly /\ c.response \in Assembly
      /\ Len(c.request.data) \in Nat /\ Len(c.response.data) \in Nat
  BY CoreFields, AssemblyFields DEF Good, CoreTyped
<1>2. /\ r \in Assembly /\ Orderly(r) /\ n \in Nat /\ n <= MaxAduBytes
      /\ \A i \in 1 .. n : HostByte(r.data[i])
  BY KeptFields, AssemblyFields
<1>3. CASE c.state \notin {"IDLE", "RECEIVE_REQUEST"}
  BY <1>3 DEF OnHostByte
<1>4. CASE c.state \in {"IDLE", "RECEIVE_REQUEST"}
  <2>1. c.response = Cleared
    BY <1>4 DEF Good, CoreOrderly
  <2>2. ASSUME NEW q \in Assembly, q.discarding, q.data = <<>>
        PROVE  Good(CoreWith(c, "RECEIVE_REQUEST", q, c.response))
    <3> DEFINE d == CoreWith(c, "RECEIVE_REQUEST", q, c.response)
    <3>1. d \in Core
      BY <1>1, <2>2, CoreFields DEF State
    <3>2. d.state = "RECEIVE_REQUEST" /\ d.request = q /\ d.response = Cleared
      BY <2>1, WithFields
    <3>3. Len(d.request.data) = 0 /\ Orderly(d.request)
      BY <2>2, <3>2, DiscardedOrderly
    <3>. HIDE DEF d
    <3>4. CoreTyped(d)
      BY <3>1, <3>2, <3>3, EmptyOrderly, Constants DEF CoreTyped
    <3>6. /\ \A i \in 1 .. Len(d.request.data) : HostByte(d.request.data[i])
          /\ \A i \in 1 .. Len(d.response.data) : LineByte(d.response.data[i])
          /\ ~(Len(d.response.data) >= 2)
      BY ONLY <3>2, <3>3, EmptyOrderly
    <3>5. CoreOrderly(d)
      <4>1. d.state = "RECEIVE_REQUEST" /\ d.response = Cleared
        BY <3>2
      <4>. QED  BY <3>3, <3>6, <4>1, EmptyOrderly DEF CoreOrderly
    <3>. QED  BY <3>4, <3>5 DEF Good, d
  <2>3. ASSUME ~Refused(r, b, t)
        PROVE  Good(CoreWith(c, IF RequestComplete(a) THEN "SEND_REQUEST" ELSE "RECEIVE_REQUEST",
                             a, c.response))
    <3> DEFINE s == IF RequestComplete(a) THEN "SEND_REQUEST" ELSE "RECEIVE_REQUEST"
               d == CoreWith(c, s, a, c.response)
    <3>1. /\ a \in Assembly /\ Len(a.data) = n + 1 /\ a.data[n + 1] = b
          /\ \A i \in 1 .. n : a.data[i] = r.data[i]
      BY <1>2, LongerFields
    <3>2. ~a.discarding /\ a.kind = IF n = 1 THEN Kind(b.code) ELSE r.kind
      BY <2>3 DEF Longer, Refused
    <3>3. n < MaxAduBytes
      BY <1>2, <2>3, Constants DEF Refused, Full
    <3>4. Orderly(a)
      <4>1. ~r.discarding
        BY <2>3 DEF Refused
      <4>2. r.kind = "PENDING" <=> n < 2
        BY <1>2, <4>1 DEF Orderly
      <4>4. n = 1 => a.kind # "PENDING"
        BY <3>2, KindOf
      <4>5. n # 1 => a.kind = r.kind
        BY <3>2
      <4>. HIDE DEF n, a
      <4>3. a.kind = "PENDING" <=> n + 1 < 2
        BY <1>2, <4>2, <4>4, <4>5
      <4>. QED  BY <3>1, <3>2, <4>3 DEF Orderly
    <3>5. \A i \in 1 .. Len(a.data) : HostByte(a.data[i])
      BY <1>2, <3>1
    <3>6. s = "SEND_REQUEST" => Ready(a)
      BY DEF RequestComplete, Ready
    <3>7. a.kind = "PENDING" => s = "RECEIVE_REQUEST"
      BY DEF RequestComplete
    <3>8. s \in {"SEND_REQUEST", "RECEIVE_REQUEST"}
      OBVIOUS
    <3>. HIDE DEF s, a, n
    <3>9. d \in Core
      BY <1>1, <3>1, <3>8, CoreFields DEF State
    <3>10. d.state = s /\ d.request = a /\ d.response = Cleared
      BY <2>1, WithFields
    <3>. HIDE DEF d
    <3>11. Len(d.request.data) <= MaxAduBytes
      BY <1>2, <3>1, <3>3, <3>10, Constants
    <3>12. Good(d)
      BY <3>4, <3>5, <3>6, <3>7, <3>8, <3>9, <3>10, <3>11, EmptyOrderly, Constants
         DEF Good, CoreTyped, CoreOrderly
    <3>. QED  BY <3>12 DEF d, s
  <2>. QED  BY <1>4, <2>2, <2>3, HostByteTakes
<1>. QED  BY <1>3, <1>4

LEMMA GoodRs485Byte ==
  ASSUME NEW c, Good(c), NEW b \in Byte, LineByte(b), NEW t \in Time
  PROVE  Good(OnRs485Byte(c, b, t))
<1> DEFINE r == KeptResponse(c, t)
           k == ResponseKind(c, r, b)
           a == LongerResponse(c, r, b, t)
           n == Len(r.data)
<1>1. /\ c \in Core /\ c.request \in Assembly /\ c.response \in Assembly
      /\ Len(c.request.data) \in Nat /\ Len(c.response.data) \in Nat
  BY CoreFields, AssemblyFields DEF Good, CoreTyped
<1>2. CASE c.state # "WAIT_RESPONSE" \/ c.response.discarding
  BY <1>2 DEF OnRs485Byte
<1>3. CASE c.state = "WAIT_RESPONSE" /\ ~c.response.discarding
  <2>1. /\ r \in Assembly /\ Orderly(r) /\ ~r.discarding /\ n \in Nat /\ n <= MaxAduBytes
        /\ \A i \in 1 .. n : LineByte(r.data[i])
        /\ n >= 2 => r.data[2].code \in {Exception, c.request.function}
    BY <1>3, KeptResponseFields, AssemblyFields
  <2>2. ASSUME NEW q \in Assembly, q.discarding, q.data = <<>>
        PROVE  Good(CoreWith(c, "WAIT_RESPONSE", c.request, q))
    <3> DEFINE d == CoreWith(c, "WAIT_RESPONSE", c.request, q)
    <3>1. d \in Core
      BY <1>1, <2>2, CoreFields DEF State
    <3>2. d.state = "WAIT_RESPONSE" /\ d.request = c.request /\ d.response = q
      BY WithFields
    <3>3. Len(d.response.data) = 0 /\ Orderly(d.response)
      BY <2>2, <3>2, DiscardedOrderly
    <3>. HIDE DEF d
    <3>4. CoreTyped(d)
      BY <3>1, <3>2, <3>3, Constants DEF Good, CoreTyped
    <3>6. /\ \A i \in 1 .. Len(d.response.data) : LineByte(d.response.data[i])
          /\ ~(Len(d.response.data) >= 2)
      BY ONLY <3>3
    <3>5. CoreOrderly(d)
      <4>1. d.state = "WAIT_RESPONSE" /\ d.request = c.request
        BY <3>2
      <4>. QED  BY <1>3, <3>3, <3>6, <4>1 DEF Good, CoreOrderly
    <3>. QED  BY <3>4, <3>5 DEF Good, d
  <2>3. ASSUME ~Mismatched(c, r, b)
        PROVE  Good(CoreWith(c, IF ResponseComplete(a) THEN "SEND_RESPONSE" ELSE "WAIT_RESPONSE",
                             c.request, a))
    <3> DEFINE s == IF ResponseComplete(a) THEN "SEND_RESPONSE" ELSE "WAIT_RESPONSE"
               d == CoreWith(c, s, c.request, a)
    <3>1. /\ a \in Assembly /\ Len(a.data) = n + 1 /\ a.data[n + 1] = b
          /\ \A i \in 1 .. n : a.data[i] = r.data[i]
      <4>1. ResponseKind(c, r, b) # "MISMATCH"
        BY <2>3 DEF Mismatched
      <4>2. r \in Assembly
        BY <2>1
      <4>. HIDE DEF r
      <4>3. a \in Assembly /\ Len(a.data) = Len(r.data) + 1
        BY ONLY <4>1, <4>2, b \in Byte, t \in Time, LongerResponseTyped
      <4>6. a.data = Append(r.data, b) /\ r.data \in Seq(Byte)
        BY <4>2, AssemblyFields DEF LongerResponse
      <4>4. \A i \in 1 .. Len(r.data) : a.data[i] = r.data[i]
        BY <4>6, AppendProperties
      <4>5. a.data[Len(r.data) + 1] = b
        BY <4>6, AppendProperties
      <4>. QED  BY <4>3, <4>4, <4>5
    <3>2. ~a.discarding /\ a.kind = k
      BY <2>1 DEF LongerResponse
    <3>3. n < MaxAduBytes
      BY <2>1, <2>3, Constants DEF Mismatched, Full
    <3>4. Orderly(a)
      <4>1. r.kind = "PENDING" <=> n < 2
        BY <2>1 DEF Orderly
      <4>2. n = 1 => k # "PENDING"
        BY KindOf DEF ResponseKind, AnswerKind
      <4>3. n # 1 => k = r.kind
        BY DEF ResponseKind
      <4>. HIDE DEF n, k, a
      <4>4. a.kind = "PENDING" <=> n + 1 < 2
        BY <2>1, <3>2, <4>1, <4>2, <4>3
      <4>. QED  BY <3>1, <3>2, <4>4 DEF Orderly
    <3>5. \A i \in 1 .. Len(a.data) : LineByte(a.data[i])
      BY <2>1, <3>1
    <3>6. s = "SEND_RESPONSE" => ReadyResponse(a)
      BY DEF ResponseComplete, ReadyResponse
    <3>7. Len(a.data) >= 2 => a.data[2].code \in {Exception, c.request.function}
      <4>1. n = 1 => b.code \in {Exception, c.request.function}
        BY <2>3 DEF Mismatched, ResponseKind, AnswerKind
      <4>2. n = 1 => a.data[2] = b
        BY <3>1
      <4>3. n >= 2 => a.data[2] = r.data[2]
        BY <2>1, <3>1
      <4>. HIDE DEF n, a
      <4>4. Len(a.data) >= 2 => n = 1 \/ n >= 2
        BY <2>1, <3>1
      <4>. QED  BY <2>1, <4>1, <4>2, <4>3, <4>4
    <3>8. s \in {"SEND_RESPONSE", "WAIT_RESPONSE"}
      OBVIOUS
    <3>. HIDE DEF s, a, n, k
    <3>9. d \in Core
      BY <1>1, <3>1, <3>8, CoreFields DEF State
    <3>10. d.state = s /\ d.request = c.request /\ d.response = a
      BY WithFields
    <3>. HIDE DEF d
    <3>11. Len(d.response.data) <= MaxAduBytes
      BY <2>1, <3>1, <3>3, <3>10, Constants
    <3>12. Good(d)
      BY <1>3, <3>4, <3>5, <3>6, <3>7, <3>8, <3>9, <3>10, <3>11, EmptyOrderly, Constants
         DEF Good, CoreTyped, CoreOrderly
    <3>. QED  BY <3>12 DEF d, s
  <2>. QED  BY <1>3, <2>2, <2>3, Rs485ByteTakes
<1>. QED  BY <1>2, <1>3

Ordinary(e) == IF e.from = "HOST" THEN HostByte(e.byte) ELSE LineByte(e.byte)

LEMMA GoodEvent ==
  ASSUME NEW c, Good(c), NEW e \in Arrival, Ordinary(e)
  PROVE  Good(OnEvent(c, e))
<1>1. e.byte \in Byte /\ e.at \in Time
  BY DEF Arrival
<1>2. Good(CoreTick(c, e.at))
  BY <1>1, GoodTick
<1>. QED  BY <1>1, <1>2, GoodHostByte, GoodRs485Byte DEF OnEvent, Ordinary

LEMMA GoodFed ==
  ASSUME NEW c, Good(c), NEW es \in Seq(Arrival), \A i \in 1 .. Len(es) : Ordinary(es[i])
  PROVE  Good(Fed(c, es))
<1> DEFINE G == {x \in Core : Good(x)}
           S == [i \in 0 .. Len(es) |-> G]
<1>1. Len(es) \in Nat /\ \A i \in 1 .. Len(es) : es[i] \in Arrival
  BY ElementOfSeq, LenProperties
<1>2. c \in S[0]
  BY <1>1 DEF Good, CoreTyped
<1>3. ASSUME NEW i \in 1 .. Len(es), NEW x \in S[i - 1]
      PROVE  OnEvent(x, es[i]) \in S[i]
  <2>1. S[i - 1] = G /\ S[i] = G
    BY <1>1
  <2>2. Good(x)
    BY <2>1
  <2>3. Good(OnEvent(x, es[i]))
    BY <1>1, <2>2, GoodEvent
  <2>. QED  BY <2>1, <2>3 DEF Good, CoreTyped
<1>. HIDE DEF S
<1>4. Fed(c, es) \in S[Len(es)]
  BY <1>1, <1>2, <1>3, FedKeeps
<1>. QED  BY <1>1, <1>4 DEF S
-----------------------------------------------------------------------------
(* The types, and what goes with them along the way: the bytes that queue  *)
(* are ordinary and came at times the clock has shown, and the assemblies  *)
(* of the core are what their bytes say.                                   *)
Happened(t) == \E s \in StartTime .. now : t = s % Clock

StreamTyped ==
  /\ arrivals \in Seq(Arrival)
  /\ \A i \in 1 .. Len(arrivals) : Happened(arrivals[i].at) /\ Ordinary(arrivals[i])

SlaveTyped == slave.sent <= Length(slave.code)

HostTyped ==
  host.sent > 0 => host.silent = 0 /\ host.code \in Functions /\ host.frame # 0

Flow ==
  /\ TypeOK /\ StreamTyped /\ HostTyped /\ SlaveTyped
  /\ forwarded <= now
  /\ polled => arrivals = <<>>
  /\ Good(core)

Host == [frame : 0 .. MaxFrames, sent : 0 .. RequestLength, code : Code,
         silent : 0 .. FrameGap - 1, clean : BOOLEAN]
Slave == [frame : 0 .. MaxFrames, code : Code, rest : Code, sent : 0 .. AnswerLength,
          age : 0 .. MaxDelay]

LEMMA HostFields ==
  ASSUME NEW h \in Host
  PROVE  /\ h.frame \in 0 .. MaxFrames /\ h.sent \in 0 .. RequestLength /\ h.code \in Code
         /\ h.silent \in 0 .. FrameGap - 1 /\ h.clean \in BOOLEAN
  BY DEF Host

LEMMA SlaveFields ==
  ASSUME NEW v \in Slave
  PROVE  /\ v.frame \in 0 .. MaxFrames /\ v.sent \in 0 .. AnswerLength /\ v.code \in Code
         /\ v.rest \in Code /\ v.age \in 0 .. MaxDelay
  BY DEF Slave

LEMMA Lengths ==
  \A code : /\ Length(code) \in {ExceptionLength, AnswerLength}
            /\ Length(code) \in Nat /\ Length(code) > 2 /\ Length(code) <= AnswerLength
  BY Constants DEF Length

LEMMA HostSteps ==
  ASSUME host \in Host, HostSends
  PROVE  \/ host' = [frame |-> host.frame, sent |-> 0, code |-> host.code, clean |-> FALSE,
                     silent |-> IF host.silent + 1 < FrameGap THEN host.silent + 1
                                ELSE host.silent]
         \/ /\ host.sent \in 1 .. RequestLength - 1
            /\ host' = [frame |-> host.frame, sent |-> host.sent + 1, code |-> host.code,
                        silent |-> host.silent, clean |-> host.clean]
         \/ /\ host.sent = 0 /\ host.silent + 1 >= FrameGap /\ host.frame < MaxFrames
            /\ \E code \in Functions :
                 host' = [frame |-> host.frame + 1, sent |-> 1, code |-> code,
                          silent |-> 0, clean |-> core.state = "IDLE"]
<1> DEFINE silent == IF host.silent + 1 < FrameGap THEN host.silent + 1 ELSE host.silent
           d == [host EXCEPT !.sent = 0]
           e == [d EXCEPT !.clean = FALSE]
<1>1. d = [frame |-> host.frame, sent |-> 0, code |-> host.code,
           silent |-> host.silent, clean |-> host.clean]
  BY DEF Host
<1>2. e = [frame |-> host.frame, sent |-> 0, code |-> host.code,
           silent |-> host.silent, clean |-> FALSE]
  <2>1. ASSUME NEW x
        PROVE  [d EXCEPT !.clean = x]
                 = [frame |-> host.frame, sent |-> 0, code |-> host.code,
                    silent |-> host.silent, clean |-> x]
    <3>. HIDE DEF d
    <3>. QED  BY <1>1
  <2>. HIDE DEF d
  <2>. QED  BY ONLY <2>1 DEF e
<1>3. [e EXCEPT !.silent = silent]
        = [frame |-> host.frame, sent |-> 0, code |-> host.code, clean |-> FALSE,
           silent |-> silent]
  <2>. HIDE DEF e, silent
  <2>1. ASSUME NEW x, e = [frame |-> host.frame, sent |-> 0, code |-> host.code,
                           silent |-> host.silent, clean |-> x]
        PROVE  [e EXCEPT !.silent = silent]
                 = [frame |-> host.frame, sent |-> 0, code |-> host.code, clean |-> x,
                    silent |-> silent]
    BY <2>1
  <2>. QED  BY ONLY <1>2, <2>1
<1>4. e.silent = host.silent
  <2>. HIDE DEF e
  <2>. QED  BY <1>2
<1>5. CASE host' = [host EXCEPT !.sent = 0, !.clean = FALSE,
                                !.silent = IF @ + 1 < FrameGap THEN @ + 1 ELSE @]
  <2>1. host' = [e EXCEPT !.silent = IF e.silent + 1 < FrameGap THEN e.silent + 1
                                     ELSE e.silent]
    BY <1>5
  <2>. HIDE DEF e
  <2>. QED  BY <1>3, <1>4, <2>1
<1>6. CASE host.sent \in 1 .. RequestLength - 1 /\ host' = [host EXCEPT !.sent = @ + 1]
  BY <1>6 DEF Host
<1>. QED  BY <1>5, <1>6 DEF HostSends

LEMMA SlaveSteps ==
  ASSUME slave \in Slave, SlaveSends
  PROVE  \/ slave' = Idle
         \/ /\ slave.frame # 0 /\ slave.sent = 0 /\ slave.age < MaxDelay
            /\ slave' = [frame |-> slave.frame, code |-> slave.code, rest |-> slave.rest,
                         sent |-> 0, age |-> slave.age + 1]
         \/ /\ slave.frame # 0 /\ slave.sent # Length(slave.code)
            /\ slave' = [frame |-> slave.frame, code |-> slave.code, rest |-> slave.rest,
                         sent |-> slave.sent + 1, age |-> slave.age]
<1>1. [slave EXCEPT !.age = @ + 1]
        = [frame |-> slave.frame, code |-> slave.code, rest |-> slave.rest,
           sent |-> slave.sent, age |-> slave.age + 1]
  BY DEF Slave
<1>2. [slave EXCEPT !.sent = @ + 1]
        = [frame |-> slave.frame, code |-> slave.code, rest |-> slave.rest,
           sent |-> slave.sent + 1, age |-> slave.age]
  BY DEF Slave
<1>. QED  BY <1>1, <1>2 DEF SlaveSends, SlaveFree

LEMMA EventFields ==
  ASSUME NEW from \in {"HOST", "RS485"}, NEW frame \in 0 .. MaxFrames,
         NEW part \in 1 .. MaxAduBytes, NEW code \in Code, now' \in Nat
  PROVE  /\ Event(from, frame, part, code) \in Arrival
         /\ Event(from, frame, part, code).from = from
         /\ Event(from, frame, part, code).at = now' % Clock
         /\ Event(from, frame, part, code).byte \in Byte
         /\ Event(from, frame, part, code).byte.frame = frame
         /\ Event(from, frame, part, code).byte.part = part
         /\ Event(from, frame, part, code).byte.code = IF part = 1 THEN "ADDRESS" ELSE code
<1>1. now' % Clock \in Time
  BY Division DEF Time
<1>2. (IF part = 1 THEN "ADDRESS" ELSE code) \in Code
  BY DEF Code
<1>. QED  BY <1>1, <1>2 DEF Event, Arrival, Byte

(* What one character's time brings.                                       *)
HostEvent == Event("HOST", host'.frame, host'.sent, host'.code)
SlaveCode == IF slave'.sent = 2 THEN slave'.code ELSE slave'.rest
SlaveEvent == Event("RS485", slave'.frame, slave'.sent, SlaveCode)
StrayEvent == Event("RS485", 0, 1, "ADDRESS")
SlaveHeard == slave'.sent > slave.sent /\ core.state # "SEND_REQUEST"
HostBytes == IF host'.sent = 0 THEN 0 ELSE 1

Queued ==
  /\ arrivals' \in Seq(Arrival)
  /\ Len(arrivals') \in {Len(arrivals) + HostBytes, Len(arrivals) + HostBytes + 1}
  /\ \A i \in 1 .. Len(arrivals) : arrivals'[i] = arrivals[i]
  /\ host'.sent # 0 => arrivals'[Len(arrivals) + 1] = HostEvent
  /\ \A i \in Len(arrivals) + HostBytes + 1 .. Len(arrivals') :
       arrivals'[i] = IF SlaveHeard THEN SlaveEvent ELSE StrayEvent
  /\ SlaveHeard => Len(arrivals') = Len(arrivals) + HostBytes + 1

LEMMA TwoMore ==
  ASSUME NEW S, NEW q \in Seq(S), NEW x \in S, NEW y \in S
  PROVE  /\ q \o <<>> \o <<>> = q
         /\ q \o <<x>> \o <<>> \in Seq(S) /\ Len(q \o <<x>> \o <<>>) = Len(q) + 1
         /\ \A i \in 1 .. Len(q) : (q \o <<x>> \o <<>>)[i] = q[i]
         /\ (q \o <<x>> \o <<>>)[Len(q) + 1] = x
         /\ q \o <<>> \o <<x>> \in Seq(S) /\ Len(q \o <<>> \o <<x>>) = Len(q) + 1
         /\ \A i \in 1 .. Len(q) : (q \o <<>> \o <<x>>)[i] = q[i]
         /\ (q \o <<>> \o <<x>>)[Len(q) + 1] = x
         /\ q \o <<x>> \o <<y>> \in Seq(S) /\ Len(q \o <<x>> \o <<y>>) = Len(q) + 2
         /\ \A i \in 1 .. Len(q) : (q \o <<x>> \o <<y>>)[i] = q[i]
         /\ (q \o <<x>> \o <<y>>)[Len(q) + 1] = x
         /\ (q \o <<x>> \o <<y>>)[Len(q) + 2] = y
<1> DEFINE p == q \o <<x>>
<1>0. Len(q) \in Nat
  BY LenProperties
<1>1. <<x>> \in Seq(S) /\ <<y>> \in Seq(S) /\ Len(<<x>>) = 1 /\ Len(<<y>>) = 1
      /\ <<x>>[1] = x /\ <<y>>[1] = y /\ <<>> \in Seq(S)
  OBVIOUS
<1>2. q \o <<>> = q /\ q \o <<>> \o <<x>> = p
  BY ConcatEmptySeq
<1>3. /\ p \in Seq(S) /\ Len(p) = Len(q) + 1
      /\ \A i \in 1 .. Len(q) : p[i] = q[i]
      /\ p[Len(q) + 1] = x
  <2>1. p \in Seq(S) /\ Len(p) = Len(q) + Len(<<x>>)
    BY <1>1, ConcatProperties
  <2>2. \A i \in 1 .. Len(q) + Len(<<x>>) :
          p[i] = IF i <= Len(q) THEN q[i] ELSE <<x>>[i - Len(q)]
    BY <1>1, ConcatProperties
  <2>. QED  BY <1>0, <1>1, <2>1, <2>2
<1>. HIDE DEF p
<1>4. p \o <<>> = p
  BY <1>3, ConcatEmptySeq
<1>5. /\ p \o <<y>> \in Seq(S) /\ Len(p \o <<y>>) = Len(q) + 2
      /\ \A i \in 1 .. Len(q) + 1 : (p \o <<y>>)[i] = p[i]
      /\ (p \o <<y>>)[Len(q) + 2] = y
  <2>1. p \o <<y>> \in Seq(S) /\ Len(p \o <<y>>) = Len(p) + Len(<<y>>)
    BY <1>1, <1>3, ConcatProperties
  <2>2. \A i \in 1 .. Len(p) + Len(<<y>>) :
          (p \o <<y>>)[i] = IF i <= Len(p) THEN p[i] ELSE <<y>>[i - Len(p)]
    BY <1>1, <1>3, ConcatProperties
  <2>. QED  BY <1>0, <1>1, <1>3, <2>1, <2>2
<1>6. q \o <<>> \o <<>> = q
  BY <1>2
<1>7. /\ q \o <<x>> \o <<>> \in Seq(S) /\ Len(q \o <<x>> \o <<>>) = Len(q) + 1
      /\ \A i \in 1 .. Len(q) : (q \o <<x>> \o <<>>)[i] = q[i]
      /\ (q \o <<x>> \o <<>>)[Len(q) + 1] = x
  BY <1>3, <1>4 DEF p
<1>8. /\ q \o <<>> \o <<x>> \in Seq(S) /\ Len(q \o <<>> \o <<x>>) = Len(q) + 1
      /\ \A i \in 1 .. Len(q) : (q \o <<>> \o <<x>>)[i] = q[i]
      /\ (q \o <<>> \o <<x>>)[Len(q) + 1] = x
  BY <1>2, <1>3
<1>9. /\ q \o <<x>> \o <<y>> \in Seq(S) /\ Len(q \o <<x>> \o <<y>>) = Len(q) + 2
      /\ \A i \in 1 .. Len(q) : (q \o <<x>> \o <<y>>)[i] = q[i]
      /\ (q \o <<x>> \o <<y>>)[Len(q) + 1] = x
      /\ (q \o <<x>> \o <<y>>)[Len(q) + 2] = y
  <2>1. p \o <<y>> = q \o <<x>> \o <<y>>
    BY DEF p
  <2>. QED  BY <1>0, <1>3, <1>5, <2>1
<1>. QED  BY <1>6, <1>7, <1>8, <1>9

LEMMA FlowTypes ==
  ASSUME Flow
  PROVE  /\ now \in StartTime .. MaxTime /\ now \in Nat
         /\ core \in Core /\ host \in Host /\ slave \in Slave
         /\ arrivals \in Seq(Arrival) /\ Len(arrivals) \in Nat
         /\ sending \in 0 .. MaxAduBytes /\ strays \in 0 .. MaxStrays
         /\ forwarded \in StartTime .. MaxTime /\ forwarded \in Nat /\ forwarded <= now
         /\ polled \in BOOLEAN /\ early \in BOOLEAN
         /\ micros \in Time
<1>1. /\ now \in StartTime .. MaxTime
      /\ core \in Core
      /\ sending \in 0 .. MaxAduBytes /\ strays \in 0 .. MaxStrays
      /\ forwarded \in StartTime .. MaxTime /\ forwarded <= now
      /\ polled \in BOOLEAN /\ early \in BOOLEAN
  BY DEF Flow, TypeOK
<1>2. host \in Host /\ slave \in Slave
  BY DEF Flow, TypeOK, Host, Slave
<1>3. arrivals \in Seq(Arrival) /\ Len(arrivals) \in Nat
  BY LenProperties DEF Flow, StreamTyped
<1>4. now \in Nat /\ forwarded \in Nat
  BY <1>1, Constants
<1>5. micros \in Time
  BY <1>4, Division DEF micros, Time
<1>. QED  BY <1>1, <1>2, <1>3, <1>4, <1>5

LEMMA HostStays ==
  ASSUME Flow, HostSends
  PROVE  host' \in Host /\ HostTyped'
<1>1. host \in Host
  BY FlowTypes
<1>2. /\ host.frame \in 0 .. MaxFrames /\ host.sent \in 0 .. RequestLength /\ host.code \in Code
      /\ host.silent \in 0 .. FrameGap - 1 /\ host.clean \in BOOLEAN
  BY <1>1, HostFields
<1>3. CASE host' = [frame |-> host.frame, sent |-> 0, code |-> host.code, clean |-> FALSE,
                    silent |-> IF host.silent + 1 < FrameGap THEN host.silent + 1
                               ELSE host.silent]
  <2> DEFINE silent == IF host.silent + 1 < FrameGap THEN host.silent + 1 ELSE host.silent
  <2>1. silent \in 0 .. FrameGap - 1 /\ 0 \in 0 .. RequestLength
    BY <1>2, Constants
  <2>. HIDE DEF silent
  <2>2. host' \in Host
    <3>1. ASSUME NEW x \in BOOLEAN,
                 host' = [frame |-> host.frame, sent |-> 0, code |-> host.code, clean |-> x,
                          silent |-> silent]
          PROVE  host' \in Host
      BY <1>2, <2>1, <3>1 DEF Host
    <3>. QED  BY ONLY <1>3, <3>1 DEF silent
  <2>3. host'.sent = 0
    BY <1>3
  <2>. QED  BY <2>2, <2>3 DEF HostTyped
<1>4. CASE /\ host.sent \in 1 .. RequestLength - 1
           /\ host' = [frame |-> host.frame, sent |-> host.sent + 1, code |-> host.code,
                       silent |-> host.silent, clean |-> host.clean]
  <2>1. host.sent + 1 \in 0 .. RequestLength
    BY <1>4, Constants
  <2>2. host' \in Host
    BY <1>2, <1>4, <2>1 DEF Host
  <2>3. host.silent = 0 /\ host.code \in Functions /\ host.frame # 0
    BY <1>4 DEF Flow, HostTyped
  <2>. QED  BY <1>4, <2>2, <2>3 DEF HostTyped
<1>5. CASE /\ host.sent = 0 /\ host.silent + 1 >= FrameGap /\ host.frame < MaxFrames
           /\ \E code \in Functions :
                host' = [frame |-> host.frame + 1, sent |-> 1, code |-> code,
                         silent |-> 0, clean |-> core.state = "IDLE"]
  <2>1. PICK code \in Functions :
          host' = [frame |-> host.frame + 1, sent |-> 1, code |-> code,
                   silent |-> 0, clean |-> core.state = "IDLE"]
    BY <1>5
  <2> DEFINE x == core.state = "IDLE"
  <2>2. /\ host.frame + 1 \in 0 .. MaxFrames /\ host.frame + 1 # 0 /\ 1 \in 0 .. RequestLength
        /\ 0 \in 0 .. FrameGap - 1
    BY <1>2, <1>5, Constants
  <2>3. x \in BOOLEAN /\ code \in Code
    BY DEF Code
  <2>4. host' = [frame |-> host.frame + 1, sent |-> 1, code |-> code, silent |-> 0, clean |-> x]
    BY <2>1
  <2>. HIDE DEF x
  <2>5. host' \in Host
    BY <2>2, <2>3, <2>4 DEF Host
  <2>6. host'.silent = 0 /\ host'.code \in Functions /\ host'.frame # 0
    BY <2>2, <2>4
  <2>. QED  BY <2>5, <2>6 DEF HostTyped
<1>. QED  BY <1>1, <1>3, <1>4, <1>5, HostSteps

LEMMA SlaveStays ==
  ASSUME Flow, SlaveSends
  PROVE  /\ slave' \in Slave /\ SlaveTyped'
         /\ slave'.sent > slave.sent =>
              /\ slave.frame # 0 /\ slave.sent # Length(slave.code)
              /\ slave'.frame = slave.frame /\ slave'.code = slave.code
              /\ slave'.sent = slave.sent + 1 /\ slave'.age = slave.age
              /\ slave'.frame \in 1 .. MaxFrames /\ slave'.sent \in 1 .. MaxAduBytes
<1>1. slave \in Slave
  BY FlowTypes
<1>2. /\ slave.frame \in 0 .. MaxFrames /\ slave.code \in Code /\ slave.rest \in Code
      /\ slave.sent \in 0 .. AnswerLength /\ slave.age \in 0 .. MaxDelay
  BY <1>1, SlaveFields
<1> DEFINE length == Length(slave.code)
<1>6. length \in Nat /\ length > 2 /\ length <= AnswerLength /\ slave.sent <= length
  BY Lengths DEF Flow, SlaveTyped
<1>7. AnswerLength \in Nat /\ AnswerLength <= MaxAduBytes /\ MaxAduBytes \in Nat
  BY Constants
<1>3. CASE slave' = Idle
  <2>1. slave'.sent = 0 /\ slave'.sent <= Length(slave'.code)
    BY <1>3, Lengths DEF Idle
  <2>. QED  BY <1>2, <1>3, <2>1, Constants DEF Idle, Slave, Code, SlaveTyped
<1>4. CASE /\ slave.frame # 0 /\ slave.sent = 0 /\ slave.age < MaxDelay
           /\ slave' = [frame |-> slave.frame, code |-> slave.code, rest |-> slave.rest,
                        sent |-> 0, age |-> slave.age + 1]
  <2>1. slave'.sent = 0 /\ slave'.code = slave.code
    BY <1>4
  <2>. QED  BY <1>2, <1>4, <1>6, <2>1, Constants DEF Slave, SlaveTyped
<1>5. CASE /\ slave.frame # 0 /\ slave.sent # Length(slave.code)
           /\ slave' = [frame |-> slave.frame, code |-> slave.code, rest |-> slave.rest,
                        sent |-> slave.sent + 1, age |-> slave.age]
  <2>1. slave'.sent = slave.sent + 1 /\ slave'.code = slave.code
    BY <1>5
  <2>2. slave.sent # length
    BY <1>5
  <2>3. Length(slave'.code) = length
    BY <2>1
  <2>. HIDE DEF length
  <2>4. slave.sent + 1 <= length
    BY <1>2, <1>6, <2>2
  <2>. QED  BY <1>2, <1>5, <1>6, <1>7, <2>1, <2>3, <2>4, Constants DEF Slave, SlaveTyped
<1>. QED  BY <1>1, <1>3, <1>4, <1>5, SlaveSteps

LEMMA WaitDoes ==
  ASSUME Flow, Wait
  PROVE  /\ now' = now + 1 /\ now' \in StartTime .. MaxTime /\ now' \in Nat
         /\ host' \in Host /\ slave' \in Slave /\ HostTyped' /\ SlaveTyped'
         /\ HostEvent \in Arrival \/ host'.sent = 0
         /\ host'.sent # 0 => Ordinary(HostEvent) /\ HostEvent.at = micros'
         /\ SlaveHeard => SlaveEvent \in Arrival /\ SlaveEvent.at = micros'
                          /\ Ordinary(SlaveEvent)
         /\ StrayEvent \in Arrival /\ StrayEvent.at = micros' /\ Ordinary(StrayEvent)
         /\ Queued
         /\ strays' \in 0 .. MaxStrays
<1>1. /\ now' = now + 1 /\ now' \in StartTime .. MaxTime /\ now' \in Nat
  BY FlowTypes, Constants DEF Wait
<1>2. host' \in Host /\ HostTyped' /\ slave' \in Slave /\ SlaveTyped'
  BY HostStays, SlaveStays DEF Wait
<1>3. host'.sent # 0 => HostEvent \in Arrival /\ Ordinary(HostEvent) /\ HostEvent.at = micros'
  <2>. HAVE host'.sent # 0
  <2>1. /\ host'.frame \in 0 .. MaxFrames /\ host'.sent \in 1 .. RequestLength
        /\ host'.code \in Code
    BY <1>2, HostFields
  <2>2. host'.code \in Functions /\ host'.frame # 0
    BY <1>2, <2>1 DEF HostTyped
  <2>3. /\ HostEvent \in Arrival /\ HostEvent.from = "HOST" /\ HostEvent.at = now' % Clock
        /\ HostEvent.byte.frame = host'.frame /\ HostEvent.byte.part = host'.sent
        /\ HostEvent.byte.code = IF host'.sent = 1 THEN "ADDRESS" ELSE host'.code
    <3>1. host'.sent \in 1 .. MaxAduBytes
      BY <2>1, Constants
    <3>. QED  BY <1>1, <2>1, <3>1, EventFields DEF HostEvent
  <2>. QED  BY <2>2, <2>3 DEF Ordinary, HostByte, micros
<1>4. SlaveHeard => /\ SlaveEvent \in Arrival /\ SlaveEvent.at = micros' /\ Ordinary(SlaveEvent)
  <2>. HAVE SlaveHeard
  <2>1. slave'.frame \in 1 .. MaxFrames /\ slave'.sent \in 1 .. MaxAduBytes
    BY SlaveStays DEF Wait, SlaveHeard
  <2>2. SlaveCode \in Code /\ slave'.frame \in 0 .. MaxFrames /\ slave'.frame # 0
    BY <1>2, <2>1, SlaveFields DEF SlaveCode
  <2>3. /\ SlaveEvent \in Arrival /\ SlaveEvent.from = "RS485" /\ SlaveEvent.at = now' % Clock
        /\ SlaveEvent.byte.frame = slave'.frame
    BY <1>1, <2>1, <2>2, EventFields DEF SlaveEvent
  <2>. QED  BY <2>2, <2>3 DEF Ordinary, LineByte, micros
<1>5. StrayEvent \in Arrival /\ StrayEvent.at = micros' /\ Ordinary(StrayEvent)
  <2> DEFINE code == "ADDRESS"
  <2>1. code \in Code /\ 0 \in 0 .. MaxFrames /\ 1 \in 1 .. MaxAduBytes
    BY Constants DEF Code
  <2>. HIDE DEF code
  <2>2. /\ Event("RS485", 0, 1, code) \in Arrival
        /\ Event("RS485", 0, 1, code).from = "RS485"
        /\ Event("RS485", 0, 1, code).at = now' % Clock
        /\ Event("RS485", 0, 1, code).byte.code = "ADDRESS"
    BY <1>1, <2>1, EventFields
  <2>. QED  BY <2>2 DEF StrayEvent, Ordinary, LineByte, micros, code
<1>6. /\ Queued /\ strays' \in 0 .. MaxStrays
  <2>1. PICK stray \in BOOLEAN :
          LET fromHost == IF host'.sent = 0 THEN <<>> ELSE <<HostEvent>>
              fromLine == CASE stray -> <<StrayEvent>>
                            [] SlaveHeard -> <<SlaveEvent>>
                            [] OTHER -> <<>>
          IN  /\ stray => strays < MaxStrays /\ ~SlaveHeard
              /\ strays' = IF stray THEN strays + 1 ELSE strays
              /\ arrivals' = arrivals \o fromHost \o fromLine
    BY DEF Wait, HostEvent, SlaveEvent, SlaveCode, StrayEvent, SlaveHeard
  <2>2. strays' \in 0 .. MaxStrays
    BY <2>1, FlowTypes, Constants
  <2>3. \/ /\ arrivals' = arrivals \o (IF host'.sent = 0 THEN <<>> ELSE <<HostEvent>>)
                                   \o <<StrayEvent>>
           /\ ~SlaveHeard
        \/ /\ arrivals' = arrivals \o (IF host'.sent = 0 THEN <<>> ELSE <<HostEvent>>)
                                   \o <<SlaveEvent>>
           /\ SlaveHeard
        \/ /\ arrivals' = arrivals \o (IF host'.sent = 0 THEN <<>> ELSE <<HostEvent>>)
                                   \o <<>>
           /\ ~SlaveHeard
    BY <2>1
  <2>. DEFINE L == IF SlaveHeard THEN SlaveEvent ELSE StrayEvent
  <2>4. \/ /\ arrivals' = arrivals \o (IF host'.sent = 0 THEN <<>> ELSE <<HostEvent>>) \o <<L>>
        \/ /\ arrivals' = arrivals \o (IF host'.sent = 0 THEN <<>> ELSE <<HostEvent>>) \o <<>>
           /\ ~SlaveHeard
    BY <2>3
  <2>5. L \in Arrival
    BY <1>4, <1>5
  <2>. HIDE DEF L
  <2>6. arrivals \in Seq(Arrival) /\ Len(arrivals) \in Nat
    BY FlowTypes
  <2>7. /\ arrivals' \in Seq(Arrival)
        /\ Len(arrivals') \in {Len(arrivals) + HostBytes, Len(arrivals) + HostBytes + 1}
        /\ \A i \in 1 .. Len(arrivals) : arrivals'[i] = arrivals[i]
        /\ host'.sent # 0 => arrivals'[Len(arrivals) + 1] = HostEvent
        /\ \A i \in Len(arrivals) + HostBytes + 1 .. Len(arrivals') : arrivals'[i] = L
        /\ SlaveHeard => Len(arrivals') = Len(arrivals) + HostBytes + 1
    <3>1. CASE host'.sent = 0 /\ arrivals' = arrivals \o <<>> \o <<L>>
      BY <2>5, <2>6, <3>1, TwoMore DEF HostBytes
    <3>2. CASE host'.sent = 0 /\ arrivals' = arrivals \o <<>> \o <<>> /\ ~SlaveHeard
      BY <2>5, <2>6, <3>2, TwoMore DEF HostBytes
    <3>3. CASE host'.sent # 0 /\ arrivals' = arrivals \o <<HostEvent>> \o <<L>>
      <4>1. HostEvent \in Arrival
        BY <1>3, <3>3
      <4>. QED  BY <2>5, <2>6, <3>3, <4>1, TwoMore DEF HostBytes
    <3>4. CASE host'.sent # 0 /\ arrivals' = arrivals \o <<HostEvent>> \o <<>> /\ ~SlaveHeard
      <4>1. HostEvent \in Arrival
        BY <1>3, <3>4
      <4>. QED  BY <2>5, <2>6, <3>4, <4>1, TwoMore DEF HostBytes
    <3>. QED  BY <2>4, <3>1, <3>2, <3>3, <3>4
  <2>. QED  BY <2>2, <2>7 DEF Queued, L
<1>. QED  BY <1>1, <1>2, <1>3, <1>4, <1>5, <1>6

LEMMA InitFlow == Init => Flow
<1>. SUFFICES ASSUME Init PROVE Flow
  OBVIOUS
<1>1. /\ now = StartTime /\ arrivals = <<>> /\ sending = 0 /\ polled = TRUE /\ slave = Idle
      /\ host = [frame |-> 0, sent |-> 0, code |-> "ADDRESS", silent |-> FrameGap - 1,
                 clean |-> FALSE]
      /\ strays = 0 /\ forwarded = StartTime /\ early = FALSE
      /\ core = [state |-> "IDLE", request |-> Cleared, response |-> Cleared,
                 wait_started |-> 0, recovery_started |-> 0]
  BY DEF Init
<1>2. host \in Host /\ HostTyped
  <2>1. ASSUME NEW x \in BOOLEAN,
               host = [frame |-> 0, sent |-> 0, code |-> "ADDRESS", silent |-> FrameGap - 1,
                       clean |-> x]
        PROVE  host \in Host
    BY <2>1, Constants DEF Host, Code
  <2>2. host \in Host
    BY ONLY <1>1, <2>1
  <2>3. host.sent = 0
    BY <1>1
  <2>. QED  BY <2>2, <2>3 DEF HostTyped
<1>3. slave \in Slave /\ SlaveTyped
  <2>1. slave.sent = 0
    BY <1>1 DEF Idle
  <2>. QED  BY <1>1, <2>1, Lengths, Constants DEF Idle, Slave, Code, SlaveTyped
<1>4. core = CoreWith(core, "IDLE", Cleared, Cleared)
  BY <1>1 DEF CoreWith
<1>5. core \in Core
  BY <1>1, EmptyOrderly, Constants DEF Core, State, Time
<1>6. Good(core)
  BY <1>4, <1>5, GoodIdle
<1>7. /\ now \in StartTime .. MaxTime
      /\ Len(arrivals) = 0 /\ arrivals \in Seq(Arrival)
  BY <1>1, Constants
<1>8. StreamTyped
  BY <1>7 DEF StreamTyped
<1>9. Len(core.request.data) <= MaxAduBytes /\ Len(core.response.data) <= MaxAduBytes
  BY <1>6 DEF Good, CoreTyped
<1>10. TypeOK
  <2>1. sending = 0 /\ polled \in BOOLEAN /\ strays = 0 /\ forwarded = StartTime
        /\ early \in BOOLEAN
    BY <1>1
  <2>2. now \in StartTime .. MaxTime /\ forwarded \in StartTime .. MaxTime
    BY <1>1, Constants
  <2>. QED  BY <1>2, <1>3, <1>5, <1>7, <1>9, <2>1, <2>2, Constants DEF TypeOK, Host, Slave
<1>. QED  BY <1>1, <1>2, <1>3, <1>6, <1>8, <1>10, Constants DEF Flow

LEMMA DispatchFlow ==
  ASSUME Flow, Dispatch
  PROVE  Flow'
<1> DEFINE fed == Fed(core, arrivals)
<1>1. Good(core')
  <2>1. Good(fed)
    BY GoodFed DEF Flow, StreamTyped
  <2>2. core' = CoreTick(fed, micros)
    BY DEF Dispatch
  <2>. HIDE DEF fed
  <2>. QED  BY <2>1, <2>2, FlowTypes, GoodTick
<1>2. sending' \in 0 .. MaxAduBytes
  <2>1. core' \in Core /\ Len(core'.request.data) <= MaxAduBytes
        /\ Len(core'.response.data) <= MaxAduBytes
    BY <1>1 DEF Good, CoreTyped
  <2>2. Len(core'.request.data) \in Nat /\ Len(core'.response.data) \in Nat
    BY <2>1, CoreFields, AssemblyFields
  <2>3. sending' \in {0, Len(core'.request.data), Len(core'.response.data)}
    BY DEF Dispatch, Outgoing
  <2>. QED  BY <2>1, <2>2, <2>3, Constants
<1>3. /\ arrivals' = <<>> /\ polled' = TRUE /\ Len(arrivals') = 0 /\ arrivals' \in Seq(Arrival)
      /\ UNCHANGED <<now, host, slave, strays, forwarded, early>>
  BY DEF Dispatch
<1>. QED  BY <1>1, <1>2, <1>3
         DEF Flow, TypeOK, StreamTyped, HostTyped, SlaveTyped, Good, CoreTyped

LEMMA TxCompleteDoes ==
  ASSUME NEW c, Good(c), Transmits(c), NEW t \in Time
  PROVE  /\ Good(TxComplete(c, t))
         /\ c.state = "SEND_REQUEST" =>
              TxComplete(c, t) = [state |-> "WAIT_RESPONSE", request |-> c.request,
                                  response |-> Cleared, wait_started |-> t,
                                  recovery_started |-> c.recovery_started]
         /\ c.state # "SEND_REQUEST" => TxComplete(c, t) = CoreWith(c, "IDLE", Cleared, Cleared)
<1>1. c \in Core
  BY DEF Good, CoreTyped
<1>2. CASE c.state = "SEND_REQUEST"
  <2> DEFINE s == "WAIT_RESPONSE"
             d == [c EXCEPT !.state = s]
             e == [d EXCEPT !.response = Cleared]
             f == [e EXCEPT !.wait_started = t]
  <2>1. s \in State
    BY DEF State
  <2>. HIDE DEF s
  <2>2. d = CoreWith(c, s, c.request, c.response)
    BY <1>1, <2>1, StateIs
  <2>3. e = CoreWith(c, s, c.request, Cleared)
    <3>. HIDE DEF d
    <3>. QED  BY <2>2 DEF CoreWith
  <2>4. f = [state |-> s, request |-> c.request, response |-> Cleared, wait_started |-> t,
             recovery_started |-> c.recovery_started]
    <3>. HIDE DEF e
    <3>. QED  BY <2>3 DEF CoreWith
  <2>5. TxComplete(c, t) = f
    BY <1>2 DEF TxComplete, s
  <2>. HIDE DEF f
  <2>6. f \in Core
    BY <1>1, <2>1, <2>4, EmptyOrderly, CoreFields DEF Core
  <2>7. f.state = "WAIT_RESPONSE" /\ f.request = c.request /\ f.response = Cleared
    BY <2>4 DEF s
  <2>8. CoreTyped(f)
    BY <2>6, <2>7, EmptyOrderly, Constants DEF Good, CoreTyped
  <2>9. CoreOrderly(f)
    BY <1>2, <2>7, EmptyOrderly DEF Good, CoreOrderly
  <2>. QED  BY <1>2, <2>4, <2>5, <2>8, <2>9 DEF Good, s
<1>3. CASE c.state # "SEND_REQUEST"
  <2>1. TxComplete(c, t) = CoreWith(c, "IDLE", Cleared, Cleared)
    BY <1>1, <1>3, BackToIdleIs DEF TxComplete
  <2>. QED  BY <1>1, <1>3, <2>1, GoodIdle
<1>. QED  BY <1>2, <1>3

LEMMA TransmittedFlow ==
  ASSUME Flow, Transmitted
  PROVE  Flow'
<1>1. Good(core')
  BY FlowTypes, TxCompleteDoes DEF Flow, Transmitted
<1>2. slave' \in Slave /\ SlaveTyped'
  <2>1. CASE /\ core.state = "SEND_REQUEST" /\ Whole(core.request.data)
             /\ \E code, rest \in {core.request.function, Exception, "LONG"} :
                  slave' = [frame |-> core.request.data[1].frame, code |-> code,
                            rest |-> rest, sent |-> 0, age |-> 0]
    <3>1. core.request.function \in Code /\ core.request.data \in Seq(Byte)
      BY FlowTypes, CoreFields, AssemblyFields
    <3>2. core.request.data[1] \in Byte
      BY <2>1, <3>1, ElementOfSeq, Constants DEF Whole
    <3>3. core.request.data[1].frame \in 0 .. MaxFrames
      BY <3>2 DEF Byte
    <3>4. slave'.sent = 0
      BY <2>1
    <3>5. SlaveTyped'
      BY <3>4, Lengths DEF SlaveTyped
    <3>. QED  BY <2>1, <3>1, <3>3, <3>5, Constants DEF Slave, Code, Functions
  <2>2. UNCHANGED slave => SlaveTyped'
    BY DEF Flow, SlaveTyped
  <2>. QED  BY <2>1, <2>2, FlowTypes DEF Transmitted
<1>3. forwarded' \in StartTime .. MaxTime /\ forwarded' <= now
  BY FlowTypes DEF Transmitted
<1>4. early' \in BOOLEAN
  BY FlowTypes DEF Transmitted
<1>5. polled' = FALSE /\ UNCHANGED <<now, arrivals, sending, host, strays>>
  BY DEF Transmitted
<1>6. core' \in Core
  BY <1>1 DEF Good, CoreTyped
<1>7. TypeOK'
  BY <1>1, <1>2, <1>3, <1>4, <1>5, <1>6 DEF Flow, TypeOK, Good, CoreTyped, Slave
<1>8. StreamTyped' /\ HostTyped'
  BY <1>5 DEF Flow, StreamTyped, HostTyped, Happened
<1>. QED  BY <1>1, <1>2, <1>3, <1>5, <1>7, <1>8 DEF Flow

LEMMA WaitFlow ==
  ASSUME Flow, Wait
  PROVE  Flow'
<1>1. /\ now' = now + 1 /\ now' \in StartTime .. MaxTime /\ now' \in Nat
      /\ host' \in Host /\ slave' \in Slave /\ HostTyped' /\ SlaveTyped'
      /\ Queued /\ strays' \in 0 .. MaxStrays
  BY WaitDoes
<1>2. sending' \in 0 .. MaxAduBytes
  BY FlowTypes, Constants DEF Wait
<1>3. polled' = FALSE /\ UNCHANGED <<core, forwarded, early>>
  BY DEF Wait
<1>4. StreamTyped'
  <2>1. arrivals' \in Seq(Arrival) /\ Len(arrivals') \in Nat /\ Len(arrivals) \in Nat
    BY <1>1, LenProperties, FlowTypes DEF Queued
  <2>2. ASSUME NEW i \in 1 .. Len(arrivals')
        PROVE  /\ \E s \in StartTime .. now' : arrivals'[i].at = s % Clock
               /\ Ordinary(arrivals'[i])
    <3>1. CASE i <= Len(arrivals)
      <4>1. i \in 1 .. Len(arrivals) /\ arrivals'[i] = arrivals[i]
        BY <1>1, <2>1, <3>1 DEF Queued
      <4>2. Happened(arrivals[i].at) /\ Ordinary(arrivals[i])
        BY <4>1 DEF Flow, StreamTyped
      <4>3. PICK s \in StartTime .. now : arrivals[i].at = s % Clock
        BY <4>2 DEF Happened
      <4>4. s \in StartTime .. now'
        BY <1>1, FlowTypes, Constants, SMTT(60)
      <4>. QED  BY <4>1, <4>2, <4>3, <4>4
    <3>2. CASE i > Len(arrivals)
      <4>1. \/ /\ arrivals'[i] = HostEvent /\ host'.sent # 0
            \/ /\ arrivals'[i] = SlaveEvent /\ SlaveHeard
            \/ /\ arrivals'[i] = StrayEvent
        <5>1. CASE host'.sent # 0 /\ i = Len(arrivals) + 1
          BY <1>1, <5>1 DEF Queued
        <5>2. CASE ~(host'.sent # 0 /\ i = Len(arrivals) + 1)
          <6>1. i \in Len(arrivals) + HostBytes + 1 .. Len(arrivals')
            BY <2>1, <3>2, <5>2 DEF HostBytes
          <6>. QED  BY <1>1, <6>1 DEF Queued
        <5>. QED  BY <5>1, <5>2
      <4>2. arrivals'[i].at = micros' /\ Ordinary(arrivals'[i])
        BY <4>1, WaitDoes
      <4>3. now' \in StartTime .. now'
        BY <1>1, Constants
      <4>. QED  BY <4>2, <4>3 DEF micros
    <3>. QED  BY <2>1, <3>1, <3>2
  <2>. QED  BY <2>1, <2>2 DEF StreamTyped, Happened
<1>5. forwarded' <= now' /\ forwarded' \in StartTime .. MaxTime /\ early' \in BOOLEAN
  BY <1>1, <1>3, FlowTypes
<1>6. \A i \in 1 .. Len(arrivals') : arrivals'[i] \in Arrival
  BY <1>1, ElementOfSeq DEF Queued
<1>7. TypeOK'
  BY <1>1, <1>2, <1>3, <1>5, <1>6 DEF TypeOK, Flow, Host, Slave, Arrival
<1>. QED  BY <1>1, <1>3, <1>4, <1>5, <1>7 DEF Flow

LEMMA StepFlow == Flow /\ [Next]_vars => Flow'
<1>. SUFFICES ASSUME Flow, [Next]_vars PROVE Flow'
  OBVIOUS
<1>1. CASE UNCHANGED vars
  BY <1>1 DEF vars, Flow, TypeOK, StreamTyped, HostTyped, SlaveTyped, Happened
<1>. QED  BY <1>1, DispatchFlow, TransmittedFlow, WaitFlow DEF Next

(* Every time, every assembly and every byte is of its type, and no        *)
(* assembly of bridge_core.c is longer than an ADU, whatever arrives.      *)
THEOREM BridgeTypeCorrect == Spec => []TypeOK
<1>1. Flow => TypeOK
  BY DEF Flow
<1>. QED  BY <1>1, InitFlow, StepFlow, PTL DEF Spec
-----------------------------------------------------------------------------
(* The limits of a transaction. No byte begins a wait or a recovery or     *)
(* moves its start; only the end of a transmission and the time do.        *)
LEMMA TickTimes ==
  ASSUME NEW c, Good(c), NEW t \in Time
  PROVE  /\ CoreTick(c, t).state = "WAIT_RESPONSE" =>
              /\ c.state = "WAIT_RESPONSE" /\ CoreTick(c, t).wait_started = c.wait_started
              /\ ~WaitEnds(c, t)
         /\ CoreTick(c, t).state = "RECOVERY" =>
              \/ /\ c.state = "RECOVERY"
                 /\ CoreTick(c, t).recovery_started = c.recovery_started
                 /\ ~(Elapsed(t, c.recovery_started) >= ResponseRecovery)
              \/ c.state = "WAIT_RESPONSE" /\ CoreTick(c, t).recovery_started = t
<1>1. c \in Core
  BY DEF Good, CoreTyped
<1>2. CASE c.state = "RECEIVE_REQUEST"
  BY <1>1, <1>2, TickRequestDoes, WithFields
<1>3. CASE c.state = "WAIT_RESPONSE"
  BY <1>1, <1>3, TickResponseDoes, WithFields, RecoveringFields
<1>4. CASE c.state = "RECOVERY"
  BY <1>1, <1>4, TickRecoveryDoes, WithFields
<1>5. CASE c.state \notin {"RECEIVE_REQUEST", "WAIT_RESPONSE", "RECOVERY"}
  BY <1>5, TickElse
<1>. QED  BY <1>2, <1>3, <1>4, <1>5

LEMMA EventTimes ==
  ASSUME NEW c, Good(c), NEW e \in Arrival, Ordinary(e)
  PROVE  /\ OnEvent(c, e).state = "WAIT_RESPONSE" =>
              c.state = "WAIT_RESPONSE" /\ OnEvent(c, e).wait_started = c.wait_started
         /\ OnEvent(c, e).state = "RECOVERY" =>
              \/ c.state = "RECOVERY" /\ OnEvent(c, e).recovery_started = c.recovery_started
              \/ c.state = "WAIT_RESPONSE" /\ OnEvent(c, e).recovery_started = e.at
<1> DEFINE d == CoreTick(c, e.at)
           f == OnEvent(c, e)
<1>1. e.byte \in Byte /\ e.at \in Time
  BY DEF Arrival
<1>2. Good(d)
  BY <1>1, GoodTick
<1>3. /\ d.state = "WAIT_RESPONSE" =>
           c.state = "WAIT_RESPONSE" /\ d.wait_started = c.wait_started
      /\ d.state = "RECOVERY" =>
           \/ c.state = "RECOVERY" /\ d.recovery_started = c.recovery_started
           \/ c.state = "WAIT_RESPONSE" /\ d.recovery_started = e.at
  BY <1>1, TickTimes
<1>4. f = IF e.from = "HOST" THEN OnHostByte(d, e.byte, e.at) ELSE OnRs485Byte(d, e.byte, e.at)
  BY DEF OnEvent
<1>. HIDE DEF d, f
<1>5. ASSUME e.from = "HOST"
      PROVE  f = d \/ f.state \in {"RECEIVE_REQUEST", "SEND_REQUEST"}
  <2>1. HostByte(e.byte)
    BY <1>5 DEF Ordinary
  <2>2. CASE d.state \notin {"IDLE", "RECEIVE_REQUEST"}
    BY <1>4, <1>5, <2>2 DEF OnHostByte
  <2>3. CASE d.state \in {"IDLE", "RECEIVE_REQUEST"}
    BY <1>1, <1>2, <1>4, <1>5, <2>1, <2>3, HostByteTakes, WithFields
  <2>. QED  BY <2>2, <2>3
<1>6. ASSUME e.from # "HOST"
      PROVE  \/ f = d
             \/ f.state = "SEND_RESPONSE"
             \/ /\ f.state = "WAIT_RESPONSE" /\ d.state = "WAIT_RESPONSE"
                /\ f.wait_started = d.wait_started
  <2>1. CASE d.state # "WAIT_RESPONSE" \/ d.response.discarding
    BY <1>4, <1>6, <2>1 DEF OnRs485Byte
  <2>2. CASE d.state = "WAIT_RESPONSE" /\ ~d.response.discarding
    BY <1>1, <1>2, <1>4, <1>6, <2>2, Rs485ByteTakes, WithFields
  <2>. QED  BY <2>1, <2>2
<1>. QED  BY <1>3, <1>5, <1>6 DEF f

(* In real time: the wait began with the end of the request, a recovery    *)
(* within the time limit of the response.                                  *)
WaitTimed(c) ==
  c.state = "WAIT_RESPONSE" =>
    c.wait_started = forwarded % Clock /\ now - forwarded <= ResponseTimeout

RecoveryTimed(c) ==
  c.state = "RECOVERY" =>
    \E s \in StartTime .. now :
      /\ c.recovery_started = s % Clock
      /\ s <= forwarded + ResponseTimeout

Timed ==
  /\ WaitTimed(core) /\ RecoveryTimed(core)
  /\ core.state = "RECOVERY" => now - forwarded <= ResponseTimeout + ResponseRecovery
  /\ DeadlineKept

LEMMA FedTimes ==
  ASSUME Flow, WaitTimed(core), RecoveryTimed(core)
  PROVE  WaitTimed(Fed(core, arrivals)) /\ RecoveryTimed(Fed(core, arrivals))
<1> DEFINE G == {x \in Core : Good(x) /\ WaitTimed(x) /\ RecoveryTimed(x)}
           S == [i \in 0 .. Len(arrivals) |-> G]
<1>1. /\ arrivals \in Seq(Arrival) /\ Len(arrivals) \in Nat
      /\ \A i \in 1 .. Len(arrivals) : arrivals[i] \in Arrival
  BY FlowTypes, ElementOfSeq
<1>2. core \in S[0]
  BY <1>1, FlowTypes DEF Flow
<1>3. ASSUME NEW i \in 1 .. Len(arrivals), NEW x \in S[i - 1]
      PROVE  OnEvent(x, arrivals[i]) \in S[i]
  <2> DEFINE e == arrivals[i]
             y == OnEvent(x, e)
  <2>1. S[i - 1] = G /\ S[i] = G
    BY <1>1
  <2>2. Good(x) /\ WaitTimed(x) /\ RecoveryTimed(x)
    BY <2>1
  <2>3. e \in Arrival /\ Ordinary(e) /\ Happened(e.at)
    BY <1>1 DEF Flow, StreamTyped
  <2>4. PICK u \in StartTime .. now : e.at = u % Clock
    BY <2>3 DEF Happened
  <2>. HIDE DEF e, y, S
  <2>5. Good(y)
    BY <2>2, <2>3, GoodEvent DEF y
  <2>6. /\ y.state = "WAIT_RESPONSE" =>
             x.state = "WAIT_RESPONSE" /\ y.wait_started = x.wait_started
        /\ y.state = "RECOVERY" =>
             \/ x.state = "RECOVERY" /\ y.recovery_started = x.recovery_started
             \/ x.state = "WAIT_RESPONSE" /\ y.recovery_started = e.at
    BY <2>2, <2>3, EventTimes DEF y
  <2>7. WaitTimed(y)
    BY <2>2, <2>6 DEF WaitTimed
  <2>8. RecoveryTimed(y)
    <3>1. x.state = "WAIT_RESPONSE" => u <= forwarded + ResponseTimeout
      BY <2>2, FlowTypes, Constants, SMTT(60) DEF WaitTimed
    <3>. QED  BY <2>2, <2>4, <2>6, <3>1 DEF RecoveryTimed
  <2>9. y \in G
    BY <2>5, <2>7, <2>8 DEF Good, CoreTyped
  <2>. QED  BY <2>1, <2>9 DEF y, e
<1>. HIDE DEF S
<1>4. Fed(core, arrivals) \in S[Len(arrivals)]
  BY <1>1, <1>2, <1>3, FedKeeps
<1>. QED  BY <1>1, <1>4 DEF S

LEMMA DispatchTimed ==
  ASSUME Flow, Timed, Dispatch
  PROVE  Timed'
<1> DEFINE x == Fed(core, arrivals)
<1>1. WaitTimed(x) /\ RecoveryTimed(x) /\ Good(x)
  BY FedTimes, GoodFed DEF Flow, StreamTyped, Timed
<1>2. core' = CoreTick(x, micros) /\ UNCHANGED <<now, forwarded>>
  BY DEF Dispatch
<1>3. now \in StartTime .. MaxTime /\ forwarded \in StartTime .. MaxTime /\ forwarded <= now
      /\ micros \in Time
  BY FlowTypes
<1>. HIDE DEF x
<1>4. /\ core'.state = "WAIT_RESPONSE" =>
           /\ x.state = "WAIT_RESPONSE" /\ core'.wait_started = x.wait_started
           /\ ~WaitEnds(x, micros)
      /\ core'.state = "RECOVERY" =>
           \/ /\ x.state = "RECOVERY"
              /\ core'.recovery_started = x.recovery_started
              /\ ~(Elapsed(micros, x.recovery_started) >= ResponseRecovery)
           \/ x.state = "WAIT_RESPONSE" /\ core'.recovery_started = micros
  BY <1>1, <1>2, <1>3, TickTimes
<1>5. core'.state = "WAIT_RESPONSE" => now - forwarded < ResponseTimeout
  <2>. HAVE core'.state = "WAIT_RESPONSE"
  <2>1. x.wait_started = forwarded % Clock /\ ~WaitEnds(x, micros)
    BY <1>1, <1>4 DEF WaitTimed
  <2>2. Elapsed(micros, forwarded % Clock) = now - forwarded
    BY <1>3, ElapsedReal DEF micros
  <2>. QED  BY <1>3, <2>1, <2>2, Constants DEF WaitEnds
<1>6. WaitTimed(core)'
  BY <1>1, <1>2, <1>4, <1>5 DEF WaitTimed
<1>7. core'.state = "RECOVERY" =>
        /\ now - forwarded < ResponseTimeout + ResponseRecovery
        /\ \E s \in StartTime .. now :
             core'.recovery_started = s % Clock /\ s <= forwarded + ResponseTimeout
  <2>. HAVE core'.state = "RECOVERY"
  <2>1. CASE /\ x.state = "RECOVERY" /\ core'.recovery_started = x.recovery_started
             /\ ~(Elapsed(micros, x.recovery_started) >= ResponseRecovery)
    <3>1. PICK s \in StartTime .. now :
            x.recovery_started = s % Clock /\ s <= forwarded + ResponseTimeout
      BY <1>1, <2>1 DEF RecoveryTimed
    <3>2. Elapsed(micros, s % Clock) = now - s
      <4>1. s \in StartTime .. MaxTime /\ s <= now
        BY <1>3, Constants
      <4>. QED  BY <1>3, <4>1, ElapsedReal DEF micros
    <3>3. now - s < ResponseRecovery
      BY <1>3, <2>1, <3>1, <3>2, Constants
    <3>4. now - forwarded < ResponseTimeout + ResponseRecovery
      BY <1>3, <3>1, <3>3, Constants
    <3>. QED  BY <2>1, <3>1, <3>4
  <2>2. CASE x.state = "WAIT_RESPONSE" /\ core'.recovery_started = micros
    <3>1. now - forwarded <= ResponseTimeout
      BY <1>1, <2>2 DEF WaitTimed
    <3>2. now <= forwarded + ResponseTimeout /\ now \in StartTime .. now
      BY <1>3, <3>1, Constants
    <3>3. now - forwarded < ResponseTimeout + ResponseRecovery
      BY <1>3, <3>1, Constants
    <3>. QED  BY <2>2, <3>2, <3>3 DEF micros
  <2>. QED  BY <1>4, <2>1, <2>2
<1>8. RecoveryTimed(core)'
  BY <1>2, <1>7 DEF RecoveryTimed
<1>9. core'.state = "RECOVERY" => now - forwarded <= ResponseTimeout + ResponseRecovery
  BY <1>3, <1>7, Constants
<1>. QED  BY <1>2, <1>5, <1>6, <1>7, <1>8, <1>9 DEF Timed, DeadlineKept

LEMMA TransmittedTimed ==
  ASSUME Flow, Timed, Transmitted
  PROVE  Timed'
<1>1. /\ Transmits(core) /\ core' = TxComplete(core, micros) /\ ~polled' /\ now' = now
      /\ forwarded' = IF core.state = "SEND_REQUEST" THEN now ELSE forwarded
  BY DEF Transmitted
<1>2. Good(core) /\ micros \in Time /\ now \in Nat
  BY FlowTypes DEF Flow
<1>3. CASE core.state = "SEND_REQUEST"
  <2>1. core'.state = "WAIT_RESPONSE" /\ core'.wait_started = now % Clock
    BY <1>1, <1>2, <1>3, TxCompleteDoes DEF micros
  <2>2. now' - forwarded' <= ResponseTimeout
    BY <1>1, <1>2, <1>3, Constants
  <2>. QED  BY <1>1, <1>3, <2>1, <2>2 DEF Timed, WaitTimed, RecoveryTimed, DeadlineKept
<1>4. CASE core.state # "SEND_REQUEST"
  <2>1. core'.state = "IDLE"
    BY <1>1, <1>2, <1>4, TxCompleteDoes, WithFields
  <2>. QED  BY <1>1, <2>1 DEF Timed, WaitTimed, RecoveryTimed, DeadlineKept
<1>. QED  BY <1>3, <1>4

LEMMA WaitKeepsTimed ==
  ASSUME Flow, Timed, Wait
  PROVE  Timed'
<1>1. /\ now' = now + 1 /\ ~polled' /\ UNCHANGED <<core, forwarded>>
      /\ ~Transmits(core) => polled
  BY DEF Wait
<1>2. now \in StartTime .. MaxTime /\ forwarded \in StartTime .. MaxTime /\ forwarded <= now
  BY FlowTypes
<1>3. core.state = "WAIT_RESPONSE" => now' - forwarded <= ResponseTimeout
  BY <1>1, <1>2, Constants DEF Timed, DeadlineKept, Transmits
<1>4. core.state = "RECOVERY" => now' - forwarded <= ResponseTimeout + ResponseRecovery
  BY <1>1, <1>2, Constants DEF Timed, DeadlineKept, Transmits
<1>5. WaitTimed(core)'
  BY <1>1, <1>3 DEF Timed, WaitTimed
<1>6. RecoveryTimed(core)'
  <2>1. ASSUME core.state = "RECOVERY"
        PROVE  \E s \in StartTime .. now + 1 :
                 core.recovery_started = s % Clock /\ s <= forwarded + ResponseTimeout
    <3>1. PICK s \in StartTime .. now :
            core.recovery_started = s % Clock /\ s <= forwarded + ResponseTimeout
      BY <2>1 DEF Timed, RecoveryTimed
    <3>2. s \in StartTime .. now + 1
      BY <1>2, Constants
    <3>. QED  BY <3>1, <3>2
  <2>. QED  BY <1>1, <2>1 DEF RecoveryTimed
<1>. QED  BY <1>1, <1>4, <1>5, <1>6 DEF Timed, DeadlineKept

TimedInv == Flow /\ Timed

LEMMA StepTimed == TimedInv /\ [Next]_vars => TimedInv'
<1>. SUFFICES ASSUME Flow, Timed, [Next]_vars PROVE Timed' /\ Flow'
  BY DEF TimedInv
<1>1. CASE UNCHANGED vars
  <2>1. UNCHANGED <<now, core, polled, forwarded>>
    BY <1>1 DEF vars
  <2>2. WaitTimed(core)' /\ RecoveryTimed(core)' /\ DeadlineKept'
    BY <2>1 DEF Timed, WaitTimed, RecoveryTimed, DeadlineKept
  <2>3. Flow'
    BY StepFlow
  <2>. QED  BY <2>1, <2>2, <2>3 DEF Timed
<1>. QED  BY <1>1, StepFlow, DispatchTimed, TransmittedTimed, WaitKeepsTimed DEF Next

LEMMA InitTimed == Init => TimedInv
<1>. SUFFICES ASSUME Init PROVE Timed
  BY InitFlow DEF TimedInv
<1>1. core.state = "IDLE"
  BY DEF Init
<1>. QED  BY <1>1 DEF Timed, WaitTimed, RecoveryTimed, DeadlineKept

(* bridge_core.c:52: a truncated response must not extend the transaction. *)
(* Whatever fragments and noise come, and when the clock wraps round, the  *)
(* wait and the recovery end at their time, counted from the end of the    *)
(* request, for all time limits.                                           *)
THEOREM DeadlineCorrect == Spec => []DeadlineKept
<1>1. TimedInv => DeadlineKept
  BY DEF TimedInv, Timed
<1>. QED  BY <1>1, InitTimed, StepTimed, PTL DEF Spec
-----------------------------------------------------------------------------
(* No splices in a request. The bytes of the host that queue up continue   *)
(* each other, or a silence of at least the frame gap lies between them;   *)
(* and so does the first of them continue the request that is coming in,   *)
(* which therefore grows only by the next byte of its frame.               *)
NextByte(b, e) == e.frame = b.frame /\ e.part = b.part + 1

Follows(b, t, e, u, m) ==
  \E s, v \in StartTime .. m :
    /\ t = s % Clock /\ u = v % Clock /\ s < v
    /\ NextByte(b, e) \/ v - s >= FrameGap

HostTail(b, t, h, m) ==
  \E s \in StartTime .. m :
    /\ t = s % Clock
    /\ IF h.sent > 0 THEN s = m /\ b.frame = h.frame /\ b.part = h.sent
       ELSE m - s >= h.silent

FromHost(es, i) == es[i].from = "HOST"
NoHost(es, i, j) == \A k \in i .. j : ~FromHost(es, k)

HostStream(es, h, m) ==
  /\ \A i, j \in 1 .. Len(es) :
       i < j /\ FromHost(es, i) /\ FromHost(es, j) /\ NoHost(es, i + 1, j - 1) =>
         Follows(es[i].byte, es[i].at, es[j].byte, es[j].at, m)
  /\ \A i \in 1 .. Len(es) :
       FromHost(es, i) /\ NoHost(es, i + 1, Len(es)) => HostTail(es[i].byte, es[i].at, h, m)

(* A byte b of time t goes on with what queues after the first i events.   *)
GoesOn(b, t, i, es, h, m) ==
  /\ \A j \in i + 1 .. Len(es) :
       FromHost(es, j) /\ NoHost(es, i + 1, j - 1) =>
         Follows(b, t, es[j].byte, es[j].at, m)
  /\ NoHost(es, i + 1, Len(es)) => HostTail(b, t, h, m)

(* The function of a request is never read from a frame's first byte.      *)
Named(r) == r.kind # "PENDING" /\ ~r.discarding => r.function \in Functions

RequestGoesOn(c, i, es, h, m) ==
  /\ Named(c.request)
  /\ c.state = "RECEIVE_REQUEST" /\ c.request.data # <<>> /\ c.request.kind # "UNKNOWN" =>
       /\ Contiguous(c.request.data)
       /\ GoesOn(c.request.data[Len(c.request.data)], c.request.last, i, es, h, m)
  /\ c.state = "SEND_REQUEST" /\ c.request.kind = "SUPPORTED" => Contiguous(c.request.data)

HostInv == HostStream(arrivals, host, now) /\ RequestGoesOn(core, 0, arrivals, host, now)

LEMMA NextNotFirst ==
  ASSUME NEW p \in Byte, NEW b \in Byte, NextByte(p, b)
  PROVE  b.part # 1
<1>1. p.part \in Nat /\ p.part >= 1
  BY Constants DEF Byte
<1>. QED  BY <1>1 DEF NextByte

LEMMA ContiguousAppend ==
  ASSUME NEW q \in Seq(Byte), NEW b \in Byte,
         q # <<>> => Contiguous(q) /\ NextByte(q[Len(q)], b)
  PROVE  Contiguous(Append(q, b))
<1> DEFINE n == Len(q)
           a == Append(q, b)
<1>1. /\ n \in Nat /\ Len(a) = n + 1 /\ a[n + 1] = b
      /\ \A i \in 1 .. n : a[i] = q[i]
      /\ n # 0 => q # <<>>
  BY AppendProperties, LenProperties
<1>. HIDE DEF n, a
<1>2. ASSUME NEW i \in 1 .. n
      PROVE  a[i + 1].frame = a[i].frame /\ a[i + 1].part = a[i].part + 1
  <2>0. q # <<>> /\ i \in Nat /\ i >= 1 /\ i <= n
    BY <1>1
  <2>1. CASE i = n
    BY <1>1, <2>0, <2>1 DEF NextByte, n
  <2>2. CASE i # n
    <3>1. i \in 1 .. n - 1 /\ i + 1 \in 1 .. n
      BY <1>1, <2>0, <2>2
    <3>2. q[i + 1].frame = q[i].frame /\ q[i + 1].part = q[i].part + 1
      BY <2>0, <3>1 DEF Contiguous, n
    <3>. QED  BY <1>1, <3>1, <3>2
  <2>. QED  BY <2>1, <2>2
<1>3. Len(a) - 1 = n
  BY <1>1
<1>. QED  BY <1>2, <1>3 DEF Contiguous, a

(* What the tick leaves of a request, and what a byte of the line does.    *)
LEMMA TickRequests ==
  ASSUME NEW c, Good(c), NEW t \in Time
  PROVE  LET d == CoreTick(c, t)
         IN  /\ d.state = "RECEIVE_REQUEST" => d = c
             /\ d.state = "SEND_REQUEST" => d = c \/ d.request.kind = "UNKNOWN"
             /\ Named(c.request) => Named(d.request)
<1>1. c \in Core /\ Named(Cleared)
  BY StartedFields, Constants DEF Good, CoreTyped, Named, Time
<1>2. CASE c.state = "RECEIVE_REQUEST"
  BY <1>1, <1>2, TickRequestDoes, WithFields DEF RequestStands
<1>3. CASE c.state = "WAIT_RESPONSE"
  BY <1>1, <1>3, TickResponseDoes, WithFields, RecoveringFields
<1>4. CASE c.state = "RECOVERY"
  BY <1>1, <1>4, TickRecoveryDoes, WithFields
<1>5. CASE c.state \notin {"RECEIVE_REQUEST", "WAIT_RESPONSE", "RECOVERY"}
  BY <1>5, TickElse
<1>. QED  BY <1>2, <1>3, <1>4, <1>5

LEMMA LineKeepsRequests ==
  ASSUME NEW c, Good(c), NEW b \in Byte, NEW t \in Time
  PROVE  LET d == OnRs485Byte(c, b, t)
         IN  /\ d.state \in {"IDLE", "RECEIVE_REQUEST", "SEND_REQUEST", "RECOVERY"} => d = c
             /\ d.request = c.request
<1>1. CASE c.state # "WAIT_RESPONSE" \/ c.response.discarding
  BY <1>1 DEF OnRs485Byte
<1>2. CASE c.state = "WAIT_RESPONSE" /\ ~c.response.discarding
  BY <1>2, Rs485ByteTakes, WithFields
<1>. QED  BY <1>1, <1>2

LEMMA NoHostShift ==
  ASSUME NEW es, NEW i \in Nat \ {0}, NEW j \in Int, ~FromHost(es, i), NoHost(es, i + 1, j)
  PROVE  NoHost(es, i, j)
<1>1. \A k \in i .. j : k = i \/ k \in i + 1 .. j
  OBVIOUS
<1>. QED  BY <1>1 DEF NoHost

LEMMA GoesOnPast ==
  ASSUME NEW es, Len(es) \in Nat, NEW i \in 1 .. Len(es), ~FromHost(es, i),
         NEW b, NEW t, NEW h, NEW m, GoesOn(b, t, i - 1, es, h, m)
  PROVE  GoesOn(b, t, i, es, h, m)
<1>1. ASSUME NEW j \in i + 1 .. Len(es), FromHost(es, j), NoHost(es, i + 1, j - 1)
      PROVE  Follows(b, t, es[j].byte, es[j].at, m)
  <2>1. NoHost(es, (i - 1) + 1, j - 1)
    <3>1. (i - 1) + 1 = i /\ i \in Nat \ {0} /\ j - 1 \in Int
      OBVIOUS
    <3>2. NoHost(es, i, j - 1)
      BY <1>1, <3>1, NoHostShift
    <3>. QED  BY <3>1, <3>2
  <2>2. j \in (i - 1) + 1 .. Len(es)
    OBVIOUS
  <2>. QED  BY <1>1, <2>1, <2>2 DEF GoesOn
<1>2. ASSUME NoHost(es, i + 1, Len(es))
      PROVE  HostTail(b, t, h, m)
  <2>1. NoHost(es, i, Len(es))
    BY <1>2, NoHostShift
  <2>2. (i - 1) + 1 = i
    OBVIOUS
  <2>. QED  BY <2>1, <2>2 DEF GoesOn
<1>. QED  BY <1>1, <1>2 DEF GoesOn

LEMMA GoesOnFrom ==
  ASSUME NEW es, Len(es) \in Nat, NEW i \in 1 .. Len(es), FromHost(es, i),
         NEW h, NEW m, HostStream(es, h, m)
  PROVE  GoesOn(es[i].byte, es[i].at, i, es, h, m)
<1>1. ASSUME NEW j \in i + 1 .. Len(es), FromHost(es, j), NoHost(es, i + 1, j - 1)
      PROVE  Follows(es[i].byte, es[i].at, es[j].byte, es[j].at, m)
  <2>1. j \in 1 .. Len(es) /\ i < j
    OBVIOUS
  <2>. QED  BY <1>1, <2>1 DEF HostStream
<1>2. NoHost(es, i + 1, Len(es)) => HostTail(es[i].byte, es[i].at, h, m)
  BY DEF HostStream
<1>. QED  BY <1>1, <1>2 DEF GoesOn

LEMMA HostByteGoesOn ==
  ASSUME Flow, HostStream(arrivals, host, now),
         NEW i \in 1 .. Len(arrivals), FromHost(arrivals, i),
         NEW c, Good(c), RequestGoesOn(c, i - 1, arrivals, host, now)
  PROVE  RequestGoesOn(OnHostByte(c, arrivals[i].byte, arrivals[i].at), i, arrivals, host, now)
<1> DEFINE e == arrivals[i]
           b == e.byte
           t == e.at
           f == OnHostByte(c, b, t)
           r == Kept(c, t)
           a == Longer(r, b, t)
<1>1. e \in Arrival /\ Ordinary(e) /\ e.from = "HOST" /\ Happened(t)
  BY FlowTypes, ElementOfSeq DEF Flow, StreamTyped, FromHost
<1>2. b \in Byte /\ t \in Time /\ HostByte(b)
  BY <1>1 DEF Arrival, Ordinary
<1>3. GoesOn(b, t, i, arrivals, host, now)
  BY FlowTypes, GoesOnFrom
<1>. HIDE DEF e
<1>4. CASE c.state \notin {"IDLE", "RECEIVE_REQUEST"}
  <2>1. f = c
    BY <1>4 DEF OnHostByte
  <2>2. RequestGoesOn(c, i, arrivals, host, now)
    BY <1>4 DEF RequestGoesOn
  <2>. QED  BY <2>1, <2>2 DEF e
<1>5. CASE c.state \in {"IDLE", "RECEIVE_REQUEST"}
  <2>1. CASE \E q \in Assembly :
               /\ q.discarding /\ q.data = <<>>
               /\ f = CoreWith(c, "RECEIVE_REQUEST", q, c.response)
    <3>1. f.state = "RECEIVE_REQUEST" /\ f.request.data = <<>>
      BY <2>1, WithFields
    <3>2. Named(f.request)
      BY <2>1, WithFields DEF Named
    <3>3. RequestGoesOn(f, i, arrivals, host, now)
      BY <3>1, <3>2 DEF RequestGoesOn
    <3>. QED  BY <3>3 DEF e
  <2>2. CASE /\ ~Refused(r, b, t)
             /\ f = CoreWith(c, IF RequestComplete(a) THEN "SEND_REQUEST" ELSE "RECEIVE_REQUEST",
                             a, c.response)
    <3>1. f.request = a
      BY <2>2, WithFields
    <3>2. /\ r \in Assembly /\ Orderly(r) /\ ~r.discarding
          /\ \/ r = Started(t)
             \/ c.state # "IDLE" /\ r = c.request /\ ~Truncated(c.request, t)
      BY <1>2, <2>2, KeptFields DEF Refused
    <3>3. /\ a \in Assembly /\ a.data = Append(r.data, b) /\ a.last = t
          /\ a.data[Len(a.data)] = b /\ r.data \in Seq(Byte)
      <4>1. /\ a \in Assembly /\ a.data = Append(r.data, b) /\ Len(a.data) = Len(r.data) + 1
            /\ a.data[Len(r.data) + 1] = b
        BY <1>2, <3>2, LongerFields
      <4>2. a.last = t
        BY DEF Longer
      <4>3. r.data \in Seq(Byte)
        BY <3>2, AssemblyFields
      <4>. QED  BY <4>1, <4>2, <4>3
    <3>. HIDE DEF a, f, b, t
    <3>4. ASSUME r.data # <<>>, Len(r.data) = 1 \/ a.kind # "UNKNOWN"
          PROVE  Contiguous(r.data) /\ NextByte(r.data[Len(r.data)], b) /\ r = c.request
      <4>1. r # Started(t)
        BY <1>2, <3>4, StartedFields
      <4>2. c.state = "RECEIVE_REQUEST" /\ r = c.request /\ ~Truncated(c.request, t)
        BY <1>5, <3>2, <4>1
      <4>3. r.kind # "UNKNOWN"
        <5>1. CASE Len(r.data) = 1
          BY <3>2, <5>1 DEF Orderly
        <5>2. CASE Len(r.data) # 1
          <6>1. a.kind = r.kind
            BY <5>2 DEF a, Longer
          <6>. QED  BY <3>4, <5>2, <6>1
        <5>. QED  BY <5>1, <5>2
      <4>4. /\ Contiguous(r.data)
            /\ GoesOn(r.data[Len(r.data)], r.last, i - 1, arrivals, host, now)
        BY <3>4, <4>2, <4>3 DEF RequestGoesOn
      <4>5. Follows(r.data[Len(r.data)], r.last, b, t, now)
        <5>1. i \in (i - 1) + 1 .. Len(arrivals) /\ Len(arrivals) \in Nat
          BY FlowTypes
        <5>2. NoHost(arrivals, (i - 1) + 1, i - 1)
          BY DEF NoHost
        <5>. QED  BY <4>4, <5>1, <5>2 DEF GoesOn, b, t, e
      <4>6. PICK s, v \in StartTime .. now :
              /\ r.last = s % Clock /\ t = v % Clock /\ s < v
              /\ NextByte(r.data[Len(r.data)], b) \/ v - s >= FrameGap
        BY <4>5 DEF Follows
      <4>7. Elapsed(t, r.last) = v - s
        <5>1. s \in StartTime .. MaxTime /\ v \in StartTime .. MaxTime /\ s <= v
          BY <4>6, FlowTypes, Constants
        <5>. QED  BY <4>6, <5>1, ElapsedReal
      <4>8. ~(v - s >= FrameGap)
        BY <3>4, <4>2, <4>3, <4>7 DEF Truncated, GapBefore
      <4>. QED  BY <4>2, <4>4, <4>6, <4>8
    <3>5. ASSUME a.kind # "UNKNOWN"  PROVE Contiguous(a.data)
      BY <1>2, <3>3, <3>4, <3>5, ContiguousAppend
    <3>6. Named(a)
      <4>1. CASE Len(r.data) = 1
        <5>1. NextByte(r.data[1], b) /\ r.data[1] \in Byte
          BY <3>3, <3>4, <4>1, ElementOfSeq
        <5>2. b.part # 1
          BY <1>2, <5>1, NextNotFirst
        <5>3. a.function = b.code
          BY <4>1 DEF a, Longer
        <5>. QED  BY <1>2, <5>2, <5>3 DEF Named, HostByte
      <4>2. CASE Len(r.data) # 1
        <5>1. a.kind = r.kind /\ a.function = r.function /\ a.discarding = r.discarding
          BY <4>2 DEF a, Longer
        <5>2. Named(r)
          BY <1>2, <3>2, StartedFields DEF RequestGoesOn, Named
        <5>. QED  BY <5>1, <5>2 DEF Named
      <4>. QED  BY <4>1, <4>2
    <3>7. RequestGoesOn(f, i, arrivals, host, now)
      BY <1>3, <3>1, <3>3, <3>5, <3>6 DEF RequestGoesOn, b, t
    <3>. QED  BY <3>7 DEF f, b, t, e
  <2>. QED  BY <1>2, <1>5, <2>1, <2>2, HostByteTakes
<1>. QED  BY <1>4, <1>5

LEMMA EventGoesOn ==
  ASSUME Flow, HostStream(arrivals, host, now), NEW i \in 1 .. Len(arrivals),
         NEW c, Good(c), RequestGoesOn(c, i - 1, arrivals, host, now)
  PROVE  RequestGoesOn(OnEvent(c, arrivals[i]), i, arrivals, host, now)
<1> DEFINE e == arrivals[i]
           d == CoreTick(c, e.at)
<1>1. e \in Arrival /\ Ordinary(e)
  BY FlowTypes, ElementOfSeq DEF Flow, StreamTyped
<1>2. e.byte \in Byte /\ e.at \in Time
  BY <1>1 DEF Arrival
<1>3. Good(d)
  BY <1>2, GoodTick
<1>4. RequestGoesOn(d, i - 1, arrivals, host, now)
  BY <1>2, TickRequests DEF RequestGoesOn
<1>. HIDE DEF d
<1>5. CASE FromHost(arrivals, i)
  <2>1. OnEvent(c, e) = OnHostByte(d, e.byte, e.at)
    BY <1>5 DEF OnEvent, FromHost, d
  <2>. QED  BY <1>3, <1>4, <1>5, <2>1, HostByteGoesOn
<1>6. CASE ~FromHost(arrivals, i)
  <2> DEFINE f == OnRs485Byte(d, e.byte, e.at)
  <2>1. OnEvent(c, e) = f
    BY <1>6 DEF OnEvent, FromHost, d
  <2>2. /\ f.state \in {"IDLE", "RECEIVE_REQUEST", "SEND_REQUEST", "RECOVERY"} => f = d
        /\ f.request = d.request
    BY <1>2, <1>3, LineKeepsRequests
  <2>. HIDE DEF f
  <2>3. RequestGoesOn(d, i, arrivals, host, now)
    BY <1>4, <1>6, FlowTypes, GoesOnPast DEF RequestGoesOn
  <2>4. RequestGoesOn(f, i, arrivals, host, now)
    BY <2>2, <2>3 DEF RequestGoesOn
  <2>. QED  BY <2>1, <2>4
<1>. QED  BY <1>5, <1>6

LEMMA FedGoesOn ==
  ASSUME Flow, HostInv
  PROVE  RequestGoesOn(Fed(core, arrivals), Len(arrivals), arrivals, host, now)
<1> DEFINE P(i) == {x \in Core : Good(x) /\ RequestGoesOn(x, i, arrivals, host, now)}
           S == [i \in 0 .. Len(arrivals) |-> P(i)]
<1>1. /\ arrivals \in Seq(Arrival) /\ Len(arrivals) \in Nat
      /\ \A i \in 1 .. Len(arrivals) : arrivals[i] \in Arrival /\ Ordinary(arrivals[i])
  BY FlowTypes, ElementOfSeq DEF Flow, StreamTyped
<1>2. core \in S[0]
  <2>1. core \in P(0)
    BY FlowTypes DEF Flow, HostInv
  <2>. QED  BY <1>1, <2>1
<1>3. ASSUME NEW i \in 1 .. Len(arrivals), NEW x \in S[i - 1]
      PROVE  OnEvent(x, arrivals[i]) \in S[i]
  <2>1. S[i - 1] = P(i - 1) /\ S[i] = P(i)
    BY <1>1
  <2>2. Good(x) /\ RequestGoesOn(x, i - 1, arrivals, host, now)
    BY <2>1
  <2>3. Good(OnEvent(x, arrivals[i]))
    BY <1>1, <2>2, GoodEvent
  <2>4. RequestGoesOn(OnEvent(x, arrivals[i]), i, arrivals, host, now)
    BY <2>2, EventGoesOn DEF HostInv
  <2>. QED  BY <2>1, <2>3, <2>4 DEF Good, CoreTyped
<1>. HIDE DEF S
<1>4. Fed(core, arrivals) \in S[Len(arrivals)]
  BY <1>1, <1>2, <1>3, FedKeeps
<1>. QED  BY <1>1, <1>4 DEF S

LEMMA DispatchHost ==
  ASSUME Flow, HostInv, Dispatch
  PROVE  HostInv'
<1> DEFINE x == Fed(core, arrivals)
           n == Len(arrivals)
<1>1. Good(x) /\ RequestGoesOn(x, n, arrivals, host, now)
  BY GoodFed, FedGoesOn DEF Flow, StreamTyped
<1>2. /\ core' = CoreTick(x, micros) /\ arrivals' = <<>> /\ host' = host /\ now' = now
  BY DEF Dispatch
<1>3. micros \in Time /\ n \in Nat
  BY FlowTypes
<1>. HIDE DEF x
<1>4. ASSUME NEW b, NEW t, GoesOn(b, t, n, arrivals, host, now)
      PROVE  GoesOn(b, t, 0, <<>>, host, now)
  <2>1. NoHost(arrivals, n + 1, n)
    BY <1>3 DEF NoHost
  <2>2. HostTail(b, t, host, now)
    BY <1>4, <2>1 DEF GoesOn
  <2>3. Len(<<>>) = 0
    OBVIOUS
  <2>. QED  BY <2>2, <2>3 DEF GoesOn
<1>5. RequestGoesOn(x, 0, <<>>, host, now)
  BY <1>1, <1>4 DEF RequestGoesOn
<1>6. RequestGoesOn(core', 0, <<>>, host, now)
  BY <1>1, <1>2, <1>3, <1>5, TickRequests DEF RequestGoesOn
<1>7. HostStream(<<>>, host, now)
  <2>1. Len(<<>>) = 0
    OBVIOUS
  <2>. QED  BY <2>1 DEF HostStream
<1>. QED  BY <1>2, <1>6, <1>7 DEF HostInv

LEMMA TransmittedHost ==
  ASSUME Flow, HostInv, Transmitted
  PROVE  HostInv'
<1>1. UNCHANGED <<arrivals, host, now>> /\ core' = TxComplete(core, micros)
  BY DEF Transmitted
<1>2. core'.state \in {"WAIT_RESPONSE", "IDLE"}
  BY <1>1, FlowTypes, TxCompleteDoes, WithFields DEF Flow, Transmitted
<1>3. Named(core'.request)
  <2>1. Named(Cleared) /\ Named(core.request)
    BY StartedFields, Constants DEF Named, Time, HostInv, RequestGoesOn
  <2>2. core'.request \in {core.request, Cleared}
    BY <1>1, FlowTypes, TxCompleteDoes, WithFields DEF Flow, Transmitted
  <2>. QED  BY <2>1, <2>2
<1>4. RequestGoesOn(core', 0, arrivals, host, now)
  BY <1>2, <1>3 DEF RequestGoesOn
<1>. QED  BY <1>1, <1>4 DEF HostInv

LEMMA FollowsLater ==
  ASSUME NEW b, NEW t, NEW e, NEW u, now \in Nat, now' = now + 1, Follows(b, t, e, u, now)
  PROVE  Follows(b, t, e, u, now')
<1>1. PICK s, v \in StartTime .. now :
        /\ t = s % Clock /\ u = v % Clock /\ s < v
        /\ NextByte(b, e) \/ v - s >= FrameGap
  BY DEF Follows
<1>2. s \in StartTime .. now' /\ v \in StartTime .. now'
  BY Constants
<1>. QED  BY <1>1, <1>2 DEF Follows

LEMMA HostEventFields ==
  ASSUME Flow, Wait, host'.sent # 0
  PROVE  /\ HostEvent.from = "HOST" /\ HostEvent.at = now' % Clock
         /\ HostEvent.byte.frame = host'.frame /\ HostEvent.byte.part = host'.sent
         /\ HostEvent.byte.code = IF host'.sent = 1 THEN "ADDRESS" ELSE host'.code
<1>1. now' \in Nat /\ host' \in Host
  BY WaitDoes
<1>2. /\ host'.frame \in 0 .. MaxFrames /\ host'.sent \in 1 .. RequestLength
      /\ host'.code \in Code
  BY <1>1, HostFields
<1>3. host'.sent \in 1 .. MaxAduBytes
  BY <1>2, Constants
<1>. QED  BY <1>1, <1>2, <1>3, EventFields DEF HostEvent

(* The host goes on with its frame, or keeps the silence before the next.  *)
LEMMA TailGoesOn ==
  ASSUME Flow, Wait, NEW b, NEW t, HostTail(b, t, host, now)
  PROVE  /\ host'.sent # 0 => Follows(b, t, HostEvent.byte, HostEvent.at, now')
         /\ host'.sent = 0 => HostTail(b, t, host', now')
<1>1. PICK s \in StartTime .. now :
        /\ t = s % Clock
        /\ IF host.sent > 0 THEN s = now /\ b.frame = host.frame /\ b.part = host.sent
           ELSE now - s >= host.silent
  BY DEF HostTail
<1>2. /\ now' = now + 1 /\ now \in Nat /\ now' \in Nat /\ host \in Host /\ host' \in Host
  BY WaitDoes, FlowTypes
<1>3. /\ host.frame \in 0 .. MaxFrames /\ host.sent \in 0 .. RequestLength
      /\ host.silent \in 0 .. FrameGap - 1
  BY <1>2, HostFields
<1>4. s \in StartTime .. now' /\ now' \in StartTime .. now' /\ s \in Nat
  BY <1>1, <1>2, Constants
<1>5. CASE host' = [frame |-> host.frame, sent |-> 0, code |-> host.code, clean |-> FALSE,
                    silent |-> IF host.silent + 1 < FrameGap THEN host.silent + 1
                               ELSE host.silent]
  <2>1. host'.sent = 0 /\ host'.silent <= host.silent + 1
    BY <1>3, <1>5
  <2>2. now' - s >= host'.silent
    <3>1. CASE host.sent > 0
      <4>1. host.silent = 0
        BY <3>1 DEF Flow, HostTyped
      <4>2. host'.silent \in 0 .. 1
        BY <1>5, <4>1
      <4>. QED  BY <1>1, <1>2, <3>1, <4>2
    <3>2. CASE ~(host.sent > 0)
      <4>1. now - s >= host.silent
        BY <1>1, <3>2
      <4>2. host'.silent \in 0 .. FrameGap - 1
        BY <1>2, HostFields
      <4>. QED  BY <1>2, <1>3, <1>4, <2>1, <4>1, <4>2, Constants
    <3>. QED  BY <3>1, <3>2
  <2>3. ~(host'.sent > 0)
    BY <2>1
  <2>. QED  BY <1>1, <1>4, <2>1, <2>2, <2>3 DEF HostTail
<1>6. CASE /\ host.sent \in 1 .. RequestLength - 1
           /\ host' = [frame |-> host.frame, sent |-> host.sent + 1, code |-> host.code,
                       silent |-> host.silent, clean |-> host.clean]
  <2>1. s = now /\ b.frame = host.frame /\ b.part = host.sent
    BY <1>1, <1>6
  <2>2. host'.sent # 0 /\ host'.frame = host.frame /\ host'.sent = host.sent + 1
    BY <1>3, <1>6
  <2>3. /\ HostEvent.at = now' % Clock
        /\ NextByte(b, HostEvent.byte)
    BY <2>1, <2>2, HostEventFields DEF NextByte
  <2>4. s < now'
    BY <1>2, <2>1
  <2>. QED  BY <1>1, <1>4, <2>2, <2>3, <2>4 DEF Follows
<1>7. CASE /\ host.sent = 0 /\ host.silent + 1 >= FrameGap /\ host.frame < MaxFrames
           /\ \E code \in Functions :
                host' = [frame |-> host.frame + 1, sent |-> 1, code |-> code,
                         silent |-> 0, clean |-> core.state = "IDLE"]
  <2>1. host'.sent # 0
    BY <1>7
  <2>2. HostEvent.at = now' % Clock
    BY <2>1, HostEventFields
  <2>3. now - s >= host.silent
    BY <1>1, <1>7
  <2>4. s < now' /\ now' - s >= FrameGap
    BY <1>1, <1>2, <1>3, <1>4, <1>7, <2>3, Constants
  <2>. QED  BY <1>1, <1>4, <2>1, <2>2, <2>4 DEF Follows
<1>. QED  BY <1>2, <1>5, <1>6, <1>7, HostSteps DEF Wait

(* Which events of the longer queue are the host's.                        *)
LEMMA QueuedHosts ==
  ASSUME Flow, Wait
  PROVE  LET n == Len(arrivals)  n2 == Len(arrivals')
         IN  /\ n \in Nat /\ n2 \in Nat /\ n <= n2
             /\ \A i \in 1 .. n : arrivals'[i] = arrivals[i]
             /\ host'.sent # 0 =>
                  /\ n + 1 \in 1 .. n2 /\ arrivals'[n + 1] = HostEvent
                  /\ FromHost(arrivals', n + 1)
             /\ \A i \in 1 .. n2 :
                  FromHost(arrivals', i) =>
                    \/ i \in 1 .. n /\ FromHost(arrivals, i)
                    \/ i = n + 1 /\ host'.sent # 0
             /\ \A i \in 1 .. n : FromHost(arrivals', i) <=> FromHost(arrivals, i)
<1> DEFINE n == Len(arrivals)
           n2 == Len(arrivals')
<1>1. Queued /\ now' \in Nat
  BY WaitDoes
<1>2. n \in Nat /\ n2 \in Nat /\ n <= n2
  BY <1>1, FlowTypes, LenProperties DEF Queued, HostBytes
<1>3. \A i \in 1 .. n : arrivals'[i] = arrivals[i]
  BY <1>1 DEF Queued
<1>4. host'.sent # 0 => /\ n + 1 \in 1 .. n2 /\ arrivals'[n + 1] = HostEvent
                        /\ FromHost(arrivals', n + 1)
  BY <1>1, <1>2, HostEventFields DEF Queued, HostBytes, FromHost
<1>5. SlaveEvent.from = "RS485" /\ StrayEvent.from = "RS485"
  BY DEF SlaveEvent, StrayEvent, Event
<1>6. ASSUME NEW i \in 1 .. n2, i > n, ~(i = n + 1 /\ host'.sent # 0)
      PROVE  ~FromHost(arrivals', i)
  <2>1. i \in n + HostBytes + 1 .. n2
    BY <1>2, <1>6 DEF HostBytes
  <2>. QED  BY <1>1, <1>5, <2>1 DEF Queued, FromHost
<1>. HIDE DEF n, n2
<1>7. ASSUME NEW i \in 1 .. n2, FromHost(arrivals', i)
      PROVE  \/ i \in 1 .. n /\ FromHost(arrivals, i)
             \/ i = n + 1 /\ host'.sent # 0
  <2>1. CASE i > n
    BY <1>6, <1>7, <2>1
  <2>2. CASE ~(i > n)
    <3>1. i \in 1 .. n
      BY <1>2, <2>2
    <3>2. arrivals'[i] = arrivals[i]
      BY <1>3, <3>1
    <3>3. FromHost(arrivals, i)
      BY <1>7, <3>2 DEF FromHost
    <3>4. i \in 1 .. n /\ FromHost(arrivals, i)
      BY <3>1, <3>3
    <3>. QED  BY ONLY <3>4
  <2>. QED  BY <2>1, <2>2
<1>8. \A i \in 1 .. n : FromHost(arrivals', i) <=> FromHost(arrivals, i)
  BY <1>3 DEF FromHost
<1>. QED  BY <1>2, <1>3, <1>4, <1>7, <1>8 DEF n, n2

LEMMA GoesOnLater ==
  ASSUME Flow, Wait, NEW b, NEW t, NEW i \in 0 .. Len(arrivals),
         GoesOn(b, t, i, arrivals, host, now)
  PROVE  GoesOn(b, t, i, arrivals', host', now')
<1> DEFINE n == Len(arrivals)
           n2 == Len(arrivals')
<1>1. /\ n \in Nat /\ n2 \in Nat /\ n <= n2
      /\ \A k \in 1 .. n : arrivals'[k] = arrivals[k]
      /\ host'.sent # 0 => /\ n + 1 \in 1 .. n2 /\ arrivals'[n + 1] = HostEvent
                           /\ FromHost(arrivals', n + 1)
      /\ \A k \in 1 .. n2 :
           FromHost(arrivals', k) => \/ k \in 1 .. n /\ FromHost(arrivals, k)
                                     \/ k = n + 1 /\ host'.sent # 0
      /\ \A k \in 1 .. n : FromHost(arrivals', k) <=> FromHost(arrivals, k)
  BY QueuedHosts
<1>2. now \in Nat /\ now' = now + 1
  BY FlowTypes, WaitDoes
<1>. HIDE DEF n2
<1>3. ASSUME NEW j \in 0 .. n, NoHost(arrivals', i + 1, j)
      PROVE  NoHost(arrivals, i + 1, j)
  <2>1. \A k \in i + 1 .. j : k \in 1 .. n
    BY <1>1
  <2>. QED  BY <1>1, <1>3, <2>1 DEF NoHost
<1>4. ASSUME NEW j \in i + 1 .. n2, FromHost(arrivals', j), NoHost(arrivals', i + 1, j - 1)
      PROVE  Follows(b, t, arrivals'[j].byte, arrivals'[j].at, now')
  <2>1. j \in 1 .. n2
    BY <1>1
  <2>2. CASE j \in 1 .. n /\ FromHost(arrivals, j)
    <3>1. j \in i + 1 .. n /\ j - 1 \in 0 .. n
      BY <1>1, <2>2
    <3>2. NoHost(arrivals, i + 1, j - 1)
      BY <1>3, <1>4, <3>1
    <3>3. Follows(b, t, arrivals[j].byte, arrivals[j].at, now)
      BY <2>2, <3>1, <3>2 DEF GoesOn
    <3>4. Follows(b, t, arrivals[j].byte, arrivals[j].at, now')
      BY <1>2, <3>3, FollowsLater
    <3>. QED  BY <1>1, <2>2, <3>4
  <2>3. CASE j = n + 1 /\ host'.sent # 0
    <3>1. n \in 0 .. n /\ j - 1 = n
      BY <1>1, <2>3
    <3>2. NoHost(arrivals, i + 1, n)
      BY <1>3, <1>4, <3>1
    <3>3. HostTail(b, t, host, now)
      BY <3>2 DEF GoesOn
    <3>4. Follows(b, t, HostEvent.byte, HostEvent.at, now')
      BY <2>3, <3>3, TailGoesOn
    <3>. QED  BY <1>1, <2>3, <3>4
  <2>. QED  BY <1>1, <1>4, <2>1, <2>2, <2>3
<1>5. ASSUME NoHost(arrivals', i + 1, n2)
      PROVE  HostTail(b, t, host', now')
  <2>1. host'.sent = 0
    <3>1. host'.sent # 0 => n + 1 \in i + 1 .. n2 /\ FromHost(arrivals', n + 1)
      BY <1>1
    <3>. QED  BY <1>5, <3>1 DEF NoHost
  <2>2. NoHost(arrivals', i + 1, n) /\ n \in 0 .. n
    BY <1>1, <1>5 DEF NoHost
  <2>3. NoHost(arrivals, i + 1, n)
    BY <1>3, <2>2
  <2>4. HostTail(b, t, host, now)
    BY <2>3 DEF GoesOn
  <2>. QED  BY <2>1, <2>4, TailGoesOn
<1>. QED  BY <1>4, <1>5 DEF GoesOn, n2

LEMMA StreamGoesOn ==
  ASSUME NEW es, Len(es) \in Nat, NEW h, NEW m,
         \A i \in 1 .. Len(es) : FromHost(es, i) => GoesOn(es[i].byte, es[i].at, i, es, h, m)
  PROVE  HostStream(es, h, m)
<1>1. ASSUME NEW i \in 1 .. Len(es), NEW j \in 1 .. Len(es), i < j,
             FromHost(es, i), FromHost(es, j), NoHost(es, i + 1, j - 1)
      PROVE  Follows(es[i].byte, es[i].at, es[j].byte, es[j].at, m)
  <2>1. j \in i + 1 .. Len(es)
    BY <1>1
  <2>. QED  BY <1>1, <2>1 DEF GoesOn
<1>2. ASSUME NEW i \in 1 .. Len(es), FromHost(es, i), NoHost(es, i + 1, Len(es))
      PROVE  HostTail(es[i].byte, es[i].at, h, m)
  BY <1>2 DEF GoesOn
<1>. QED  BY <1>1, <1>2 DEF HostStream

LEMMA WaitHost ==
  ASSUME Flow, HostInv, Wait
  PROVE  HostInv'
<1> DEFINE n == Len(arrivals)
           n2 == Len(arrivals')
<1>1. /\ n \in Nat /\ n2 \in Nat /\ n <= n2
      /\ \A k \in 1 .. n : arrivals'[k] = arrivals[k]
      /\ host'.sent # 0 => /\ n + 1 \in 1 .. n2 /\ arrivals'[n + 1] = HostEvent
                           /\ FromHost(arrivals', n + 1)
      /\ \A k \in 1 .. n2 :
           FromHost(arrivals', k) => \/ k \in 1 .. n /\ FromHost(arrivals, k)
                                     \/ k = n + 1 /\ host'.sent # 0
  BY QueuedHosts
<1>2. /\ now \in Nat /\ now' \in Nat /\ now' \in StartTime .. now' /\ core' = core
      /\ host' \in Host
  <2>1. core' = core
    BY DEF Wait
  <2>2. now \in Nat /\ now' \in Nat /\ now' = now + 1 /\ host' \in Host
    BY FlowTypes, WaitDoes
  <2>3. now' \in StartTime .. now'
    BY <2>2, FlowTypes, Constants
  <2>. QED  BY <2>1, <2>2, <2>3
<1>3. ASSUME NEW i \in 1 .. n2, FromHost(arrivals', i)
      PROVE  GoesOn(arrivals'[i].byte, arrivals'[i].at, i, arrivals', host', now')
  <2>1. CASE i \in 1 .. n /\ FromHost(arrivals, i)
    <3>1. GoesOn(arrivals[i].byte, arrivals[i].at, i, arrivals, host, now)
      BY <1>1, <2>1, GoesOnFrom DEF HostInv
    <3>2. i \in 0 .. Len(arrivals)
      BY <2>1
    <3>3. GoesOn(arrivals[i].byte, arrivals[i].at, i, arrivals', host', now')
      BY <3>1, <3>2, GoesOnLater
    <3>. QED  BY <1>1, <2>1, <3>3
  <2>2. CASE i = n + 1 /\ host'.sent # 0
    <3>1. /\ HostEvent.at = now' % Clock /\ HostEvent.byte.frame = host'.frame
          /\ HostEvent.byte.part = host'.sent
      BY <2>2, HostEventFields
    <3>2. host'.sent > 0
      BY <1>2, <2>2, HostFields
    <3>3. HostTail(HostEvent.byte, HostEvent.at, host', now')
      BY <1>2, <3>1, <3>2 DEF HostTail
    <3>4. \A j \in i + 1 .. n2 : ~FromHost(arrivals', j)
      <4>1. ASSUME NEW j \in i + 1 .. n2 PROVE ~FromHost(arrivals', j)
        <5>1. j \in 1 .. n2 /\ j \notin 1 .. n /\ j # n + 1
          BY <1>1, <2>2
        <5>. QED  BY <1>1, <5>1
      <4>. QED  BY <4>1
    <3>. QED  BY <1>1, <2>2, <3>3, <3>4 DEF GoesOn
  <2>. QED  BY <1>1, <1>3, <2>1, <2>2
<1>4. HostStream(arrivals', host', now')
  BY <1>1, <1>3, StreamGoesOn
<1>5. RequestGoesOn(core, 0, arrivals', host', now')
  <2>1. 0 \in 0 .. Len(arrivals)
    BY <1>1
  <2>. QED  BY <2>1, GoesOnLater DEF HostInv, RequestGoesOn
<1>. QED  BY <1>2, <1>4, <1>5 DEF HostInv

LEMMA StepHost ==
  ASSUME Flow, HostInv, [Next]_vars
  PROVE  HostInv'
<1>1. CASE UNCHANGED vars
  <2>1. UNCHANGED <<arrivals, host, now, core>>
    BY <1>1 DEF vars
  <2>. QED  BY <2>1 DEF HostInv
<1>. QED  BY <1>1, DispatchHost, TransmittedHost, WaitHost DEF Next

LEMMA InitHost ==
  ASSUME Init
  PROVE  HostInv
<1>1. Len(arrivals) = 0 /\ core.state = "IDLE" /\ Named(core.request)
  BY StartedFields, Constants DEF Init, Named, Time
<1>. QED  BY <1>1 DEF HostInv, HostStream, RequestGoesOn

(* No splices in a response. What the slave says queues up byte by byte,   *)
(* the noise on the line between; and so does the first of it continue the *)
(* response that is coming in, unless noise has joined that. No request is *)
(* transmitted while anything of an earlier answer is queued: the slave is *)
(* not heard then.                                                         *)
FromSlave(es, i) == es[i].from # "HOST" /\ es[i].byte.frame # 0
NoSlave(es, i, j) == \A k \in i .. j : ~FromSlave(es, k)

SlaveTail(b, v) == v.frame = 0 \/ (b.frame = v.frame /\ b.part = v.sent)

SlaveGoesOn(b, i, es, v) ==
  /\ \A j \in i + 1 .. Len(es) :
       FromSlave(es, j) /\ NoSlave(es, i + 1, j - 1) => NextByte(b, es[j].byte)
  /\ NoSlave(es, i + 1, Len(es)) => SlaveTail(b, v)

SlaveStream(es, v) ==
  \A i \in 1 .. Len(es) : FromSlave(es, i) => SlaveGoesOn(es[i].byte, i, es, v)

Noisy(data) == \E i \in 1 .. Len(data) : data[i].frame = 0

ResponseGoesOn(c, i, es, v) ==
  /\ c.state = "WAIT_RESPONSE" /\ c.response.data # <<>> /\ ~Noisy(c.response.data) =>
       /\ Contiguous(c.response.data)
       /\ SlaveGoesOn(c.response.data[Len(c.response.data)], i, es, v)
  /\ c.state = "SEND_RESPONSE" => Contiguous(c.response.data) \/ Noisy(c.response.data)

SlaveInv ==
  /\ SlaveStream(arrivals, slave)
  /\ core.state = "SEND_REQUEST" => NoSlave(arrivals, 1, Len(arrivals))
  /\ ResponseGoesOn(core, 0, arrivals, slave)

LEMMA EmptyContiguous == Contiguous(<<>>)
<1>1. Len(<<>>) = 0
  OBVIOUS
<1>. QED  BY <1>1 DEF Contiguous

(* What the tick and a byte of the host leave of a response.               *)
LEMMA TickResponses ==
  ASSUME NEW c, Good(c), NEW t \in Time
  PROVE  LET d == CoreTick(c, t)
         IN  /\ d.state = "WAIT_RESPONSE" => d = c \/ d.response.data = <<>>
             /\ d.state = "SEND_RESPONSE" =>
                  \/ d = c
                  \/ /\ c.state = "WAIT_RESPONSE" /\ c.response.data # <<>>
                     /\ d.response = c.response
<1>1. c \in Core
  BY DEF Good, CoreTyped
<1>2. CASE c.state = "RECEIVE_REQUEST"
  BY <1>1, <1>2, TickRequestDoes, WithFields
<1>3. CASE c.state = "WAIT_RESPONSE"
  <2>1. Discarding(c.response).data = <<>>
    <3>1. c.response \in Assembly
      BY <1>1, CoreFields
    <3>. QED  BY <3>1, AssemblyFields
  <2>. QED  BY <1>1, <1>3, <2>1, TickResponseDoes, WithFields, RecoveringFields
            DEF ResponseEnds
<1>4. CASE c.state = "RECOVERY"
  BY <1>1, <1>4, TickRecoveryDoes, WithFields
<1>5. CASE c.state \notin {"RECEIVE_REQUEST", "WAIT_RESPONSE", "RECOVERY"}
  BY <1>5, TickElse
<1>. QED  BY <1>2, <1>3, <1>4, <1>5

LEMMA HostKeepsResponses ==
  ASSUME NEW c, Good(c), NEW b \in Byte, HostByte(b), NEW t \in Time
  PROVE  LET d == OnHostByte(c, b, t)
         IN  d.state \in {"WAIT_RESPONSE", "SEND_RESPONSE"} => d = c
<1>1. CASE c.state \notin {"IDLE", "RECEIVE_REQUEST"}
  BY <1>1 DEF OnHostByte
<1>2. CASE c.state \in {"IDLE", "RECEIVE_REQUEST"}
  BY <1>2, HostByteTakes, WithFields
<1>. QED  BY <1>1, <1>2

LEMMA TickResponseGoesOn ==
  ASSUME NEW c, Good(c), NEW t \in Time, NEW i, NEW es, NEW v, ResponseGoesOn(c, i, es, v)
  PROVE  ResponseGoesOn(CoreTick(c, t), i, es, v)
<1> DEFINE d == CoreTick(c, t)
<1>1. /\ d.state = "WAIT_RESPONSE" => d = c \/ d.response.data = <<>>
      /\ d.state = "SEND_RESPONSE" =>
           \/ d = c
           \/ /\ c.state = "WAIT_RESPONSE" /\ c.response.data # <<>>
              /\ d.response = c.response
  BY TickResponses
<1>. HIDE DEF d
<1>2. ResponseGoesOn(d, i, es, v)
  BY <1>1 DEF ResponseGoesOn
<1>. QED  BY <1>2 DEF d

LEMMA NoSlaveShift ==
  ASSUME NEW es, NEW i \in Nat \ {0}, NEW j \in Int, ~FromSlave(es, i), NoSlave(es, i + 1, j)
  PROVE  NoSlave(es, i, j)
<1>1. \A k \in i .. j : k = i \/ k \in i + 1 .. j
  OBVIOUS
<1>. QED  BY <1>1 DEF NoSlave

LEMMA SlaveGoesOnPast ==
  ASSUME NEW es, Len(es) \in Nat, NEW i \in 1 .. Len(es), ~FromSlave(es, i),
         NEW b, NEW v, SlaveGoesOn(b, i - 1, es, v)
  PROVE  SlaveGoesOn(b, i, es, v)
<1>1. ASSUME NEW j \in i + 1 .. Len(es), FromSlave(es, j), NoSlave(es, i + 1, j - 1)
      PROVE  NextByte(b, es[j].byte)
  <2>1. NoSlave(es, (i - 1) + 1, j - 1)
    <3>1. (i - 1) + 1 = i /\ i \in Nat \ {0} /\ j - 1 \in Int
      OBVIOUS
    <3>2. NoSlave(es, i, j - 1)
      BY <1>1, <3>1, NoSlaveShift
    <3>. QED  BY <3>1, <3>2
  <2>2. j \in (i - 1) + 1 .. Len(es)
    OBVIOUS
  <2>. QED  BY <1>1, <2>1, <2>2 DEF SlaveGoesOn
<1>2. ASSUME NoSlave(es, i + 1, Len(es))
      PROVE  SlaveTail(b, v)
  <2>1. NoSlave(es, i, Len(es))
    BY <1>2, NoSlaveShift
  <2>2. (i - 1) + 1 = i
    OBVIOUS
  <2>. QED  BY <2>1, <2>2 DEF SlaveGoesOn
<1>. QED  BY <1>1, <1>2 DEF SlaveGoesOn

(* A byte of the line, of the slave's or noise.                            *)
LEMMA LineByteGoesOn ==
  ASSUME Flow, SlaveStream(arrivals, slave),
         NEW i \in 1 .. Len(arrivals), arrivals[i].from # "HOST",
         NEW c, Good(c), ResponseGoesOn(c, i - 1, arrivals, slave)
  PROVE  ResponseGoesOn(OnRs485Byte(c, arrivals[i].byte, arrivals[i].at), i, arrivals, slave)
<1> DEFINE e == arrivals[i]
           b == e.byte
           t == e.at
           f == OnRs485Byte(c, b, t)
           r == KeptResponse(c, t)
           a == LongerResponse(c, r, b, t)
<1>1. e \in Arrival /\ Len(arrivals) \in Nat
  BY FlowTypes, ElementOfSeq
<1>2. b \in Byte /\ t \in Time
  BY <1>1 DEF Arrival
<1>3. FromSlave(arrivals, i) <=> b.frame # 0
  BY DEF FromSlave
<1>. HIDE DEF e
<1>4. CASE c.state # "WAIT_RESPONSE" \/ c.response.discarding
  <2>1. f = c
    BY <1>4 DEF OnRs485Byte
  <2>2. c.state = "WAIT_RESPONSE" => c.response.data = <<>>
    BY <1>4 DEF Good, CoreOrderly, Orderly
  <2>3. ResponseGoesOn(c, i, arrivals, slave)
    BY <2>2 DEF ResponseGoesOn
  <2>. QED  BY <2>1, <2>3 DEF e
<1>5. CASE c.state = "WAIT_RESPONSE" /\ ~c.response.discarding
  <2>1. CASE \E q \in Assembly :
               /\ q.discarding /\ q.data = <<>>
               /\ f = CoreWith(c, "WAIT_RESPONSE", c.request, q)
    <3>1. f.state = "WAIT_RESPONSE" /\ f.response.data = <<>>
      BY <2>1, WithFields
    <3>2. ResponseGoesOn(f, i, arrivals, slave)
      BY <3>1 DEF ResponseGoesOn
    <3>. QED  BY <3>2 DEF e
  <2>2. CASE /\ ~Mismatched(c, r, b)
             /\ f = CoreWith(c, IF ResponseComplete(a) THEN "SEND_RESPONSE" ELSE "WAIT_RESPONSE",
                             c.request, a)
    <3>1. f.response = a
      BY <2>2, WithFields
    <3>2. r \in Assembly /\ (r = Cleared \/ r = c.response)
      BY <1>2, <1>5, KeptResponseFields DEF KeptResponse
    <3>3. /\ a.data = Append(r.data, b) /\ Len(a.data) = Len(r.data) + 1
          /\ a.data[Len(a.data)] = b
          /\ \A k \in 1 .. Len(r.data) : a.data[k] = r.data[k]
      <4>1. a.data = Append(r.data, b)
        BY DEF LongerResponse
      <4>2. r.data \in Seq(Byte) /\ b \in Byte
        BY <1>2, <3>2, AssemblyFields
      <4>. HIDE DEF a, r, b
      <4>. QED  BY <4>1, <4>2, AppendProperties, LenProperties
    <3>4. r.data \in Seq(Byte) /\ Len(r.data) \in Nat
      BY <3>2, AssemblyFields
    <3>. HIDE DEF a, f, b, t, r
    <3>5. Noisy(r.data) => Noisy(a.data)
      <4>1. ASSUME NEW k \in 1 .. Len(r.data), r.data[k].frame = 0
            PROVE  Noisy(a.data)
        <5>1. k \in 1 .. Len(a.data) /\ a.data[k].frame = 0
          BY <3>3, <3>4, <4>1
        <5>. QED  BY <5>1 DEF Noisy
      <4>. QED  BY <4>1 DEF Noisy
    <3>6. b.frame = 0 => Noisy(a.data)
      <4>1. Len(a.data) \in 1 .. Len(a.data)
        BY <3>3, <3>4
      <4>. QED  BY <3>3, <4>1 DEF Noisy
    <3>7. ASSUME ~Noisy(a.data)
          PROVE  Contiguous(a.data) /\ SlaveGoesOn(b, i, arrivals, slave)
      <4>1. FromSlave(arrivals, i)
        BY <1>3, <3>6, <3>7 DEF b
      <4>2. SlaveGoesOn(b, i, arrivals, slave)
        BY <4>1 DEF SlaveStream, b, e
      <4>3. CASE r.data = <<>>
        BY <1>2, <3>3, <3>4, <4>2, <4>3, ContiguousAppend DEF b
      <4>4. CASE r.data # <<>>
        <5>1. r = c.response
          BY <3>2, <4>4, EmptyOrderly
        <5>2. /\ Contiguous(r.data)
              /\ SlaveGoesOn(r.data[Len(r.data)], i - 1, arrivals, slave)
          BY <1>5, <3>5, <3>7, <4>4, <5>1 DEF ResponseGoesOn
        <5>3. NextByte(r.data[Len(r.data)], b)
          <6>1. i \in (i - 1) + 1 .. Len(arrivals)
            BY <1>1
          <6>2. NoSlave(arrivals, (i - 1) + 1, i - 1)
            BY DEF NoSlave
          <6>. QED  BY <4>1, <5>2, <6>1, <6>2 DEF SlaveGoesOn, b, e
        <5>4. b \in Byte
          BY <1>2 DEF b
        <5>. QED  BY <3>3, <3>4, <4>2, <5>2, <5>3, <5>4, ContiguousAppend
      <4>. QED  BY <4>3, <4>4
    <3>8. ResponseGoesOn(f, i, arrivals, slave)
      BY <3>1, <3>3, <3>7 DEF ResponseGoesOn
    <3>. QED  BY <3>8 DEF f, b, t, e
  <2>. QED  BY <1>2, <1>5, <2>1, <2>2, Rs485ByteTakes
<1>. QED  BY <1>4, <1>5

LEMMA EventSlaveGoesOn ==
  ASSUME Flow, SlaveStream(arrivals, slave), NEW i \in 1 .. Len(arrivals),
         NEW c, Good(c), ResponseGoesOn(c, i - 1, arrivals, slave)
  PROVE  ResponseGoesOn(OnEvent(c, arrivals[i]), i, arrivals, slave)
<1> DEFINE e == arrivals[i]
           d == CoreTick(c, e.at)
<1>1. e \in Arrival /\ Ordinary(e) /\ Len(arrivals) \in Nat
  BY FlowTypes, ElementOfSeq DEF Flow, StreamTyped
<1>2. e.byte \in Byte /\ e.at \in Time
  BY <1>1 DEF Arrival
<1>3. Good(d) /\ ResponseGoesOn(d, i - 1, arrivals, slave)
  BY <1>2, GoodTick, TickResponseGoesOn
<1>. HIDE DEF d
<1>4. CASE e.from = "HOST"
  <2> DEFINE f == OnHostByte(d, e.byte, e.at)
  <2>1. OnEvent(c, e) = f
    BY <1>4 DEF OnEvent, d
  <2>2. f.state \in {"WAIT_RESPONSE", "SEND_RESPONSE"} => f = d
    BY <1>1, <1>2, <1>3, <1>4, HostKeepsResponses DEF Ordinary
  <2>. HIDE DEF f
  <2>3. ~FromSlave(arrivals, i)
    BY <1>4 DEF FromSlave
  <2>4. ResponseGoesOn(d, i, arrivals, slave)
    BY <1>1, <1>3, <2>3, SlaveGoesOnPast DEF ResponseGoesOn
  <2>5. ResponseGoesOn(f, i, arrivals, slave)
    BY <2>2, <2>4 DEF ResponseGoesOn
  <2>. QED  BY <2>1, <2>5
<1>5. CASE e.from # "HOST"
  <2>1. OnEvent(c, e) = OnRs485Byte(d, e.byte, e.at)
    BY <1>5 DEF OnEvent, d
  <2>. QED  BY <1>3, <1>5, <2>1, LineByteGoesOn
<1>. QED  BY <1>4, <1>5

LEMMA FedSlaveGoesOn ==
  ASSUME Flow, SlaveInv
  PROVE  ResponseGoesOn(Fed(core, arrivals), Len(arrivals), arrivals, slave)
<1> DEFINE P(i) == {x \in Core : Good(x) /\ ResponseGoesOn(x, i, arrivals, slave)}
           S == [i \in 0 .. Len(arrivals) |-> P(i)]
<1>1. /\ arrivals \in Seq(Arrival) /\ Len(arrivals) \in Nat
      /\ \A i \in 1 .. Len(arrivals) : arrivals[i] \in Arrival /\ Ordinary(arrivals[i])
  BY FlowTypes, ElementOfSeq DEF Flow, StreamTyped
<1>2. core \in S[0]
  <2>1. core \in P(0)
    BY FlowTypes DEF Flow, SlaveInv
  <2>. QED  BY <1>1, <2>1
<1>3. ASSUME NEW i \in 1 .. Len(arrivals), NEW x \in S[i - 1]
      PROVE  OnEvent(x, arrivals[i]) \in S[i]
  <2>1. S[i - 1] = P(i - 1) /\ S[i] = P(i)
    BY <1>1
  <2>2. Good(x) /\ ResponseGoesOn(x, i - 1, arrivals, slave)
    BY <2>1
  <2>3. Good(OnEvent(x, arrivals[i]))
    BY <1>1, <2>2, GoodEvent
  <2>4. ResponseGoesOn(OnEvent(x, arrivals[i]), i, arrivals, slave)
    BY <2>2, EventSlaveGoesOn DEF SlaveInv
  <2>. QED  BY <2>1, <2>3, <2>4 DEF Good, CoreTyped
<1>. HIDE DEF S
<1>4. Fed(core, arrivals) \in S[Len(arrivals)]
  BY <1>1, <1>2, <1>3, FedKeeps
<1>. QED  BY <1>1, <1>4 DEF S

LEMMA DispatchSlave ==
  ASSUME Flow, SlaveInv, Dispatch
  PROVE  SlaveInv'
<1> DEFINE x == Fed(core, arrivals)
           n == Len(arrivals)
<1>1. Good(x) /\ ResponseGoesOn(x, n, arrivals, slave)
  BY GoodFed, FedSlaveGoesOn DEF Flow, StreamTyped
<1>2. core' = CoreTick(x, micros) /\ arrivals' = <<>> /\ slave' = slave
  BY DEF Dispatch
<1>3. micros \in Time /\ n \in Nat /\ Len(<<>>) = 0
  BY FlowTypes
<1>. HIDE DEF x
<1>4. ASSUME NEW b, SlaveGoesOn(b, n, arrivals, slave)
      PROVE  SlaveGoesOn(b, 0, <<>>, slave)
  <2>1. NoSlave(arrivals, n + 1, n)
    BY <1>3 DEF NoSlave
  <2>2. SlaveTail(b, slave)
    BY <1>4, <2>1 DEF SlaveGoesOn
  <2>. QED  BY <1>3, <2>2 DEF SlaveGoesOn
<1>5. ResponseGoesOn(x, 0, <<>>, slave)
  BY <1>1, <1>4 DEF ResponseGoesOn
<1>6. ResponseGoesOn(core', 0, <<>>, slave)
  BY <1>1, <1>2, <1>3, <1>5, TickResponseGoesOn
<1>7. SlaveStream(<<>>, slave) /\ NoSlave(<<>>, 1, Len(<<>>))
  BY <1>3 DEF SlaveStream, NoSlave
<1>. QED  BY <1>2, <1>6, <1>7 DEF SlaveInv

LEMMA TransmittedSlave ==
  ASSUME Flow, SlaveInv, Transmitted
  PROVE  SlaveInv'
<1>1. UNCHANGED arrivals /\ core' = TxComplete(core, micros)
  BY DEF Transmitted
<1>2. CASE core.state = "SEND_REQUEST"
  <2>1. core'.state = "WAIT_RESPONSE" /\ core'.response.data = <<>>
    BY <1>1, <1>2, FlowTypes, TxCompleteDoes, EmptyOrderly DEF Flow, Transmitted
  <2>2. NoSlave(arrivals, 1, Len(arrivals))
    BY <1>2 DEF SlaveInv
  <2>3. SlaveStream(arrivals, slave')
    BY <2>2 DEF SlaveStream, NoSlave
  <2>4. ResponseGoesOn(core', 0, arrivals, slave')
    BY <2>1 DEF ResponseGoesOn
  <2>. QED  BY <1>1, <2>1, <2>3, <2>4 DEF SlaveInv
<1>3. CASE core.state # "SEND_REQUEST"
  <2>1. core'.state = "IDLE" /\ slave' = slave
    BY <1>1, <1>3, FlowTypes, TxCompleteDoes, WithFields DEF Flow, Transmitted
  <2>2. ResponseGoesOn(core', 0, arrivals, slave')
    BY <2>1 DEF ResponseGoesOn
  <2>. QED  BY <1>1, <2>1, <2>2 DEF SlaveInv
<1>. QED  BY <1>2, <1>3

(* The slave goes on with its answer, or breaks it off.                    *)
LEMMA SlaveEventFields ==
  ASSUME Flow, Wait, SlaveHeard
  PROVE  /\ SlaveEvent.from = "RS485" /\ SlaveEvent.byte.frame = slave.frame
         /\ SlaveEvent.byte.part = slave.sent + 1 /\ SlaveEvent.byte.frame # 0
         /\ SlaveEvent.byte.part = 1 => SlaveEvent.byte.code = "ADDRESS"
         /\ SlaveEvent.byte.part = 2 => SlaveEvent.byte.code = slave.code
         /\ slave'.frame = slave.frame /\ slave'.sent = slave.sent + 1 /\ slave.sent \in Nat
         /\ slave'.code = slave.code
<1>1. /\ slave'.frame = slave.frame /\ slave'.sent = slave.sent + 1
      /\ slave'.frame \in 1 .. MaxFrames /\ slave'.sent \in 1 .. MaxAduBytes
      /\ slave' \in Slave /\ now' \in Nat /\ slave'.code = slave.code
  BY SlaveStays, WaitDoes DEF Wait, SlaveHeard
<1>2. SlaveCode \in Code /\ slave'.frame \in 0 .. MaxFrames /\ slave.sent \in 0 .. AnswerLength
  BY <1>1, FlowTypes, SlaveFields DEF SlaveCode
<1>3. /\ SlaveEvent.from = "RS485" /\ SlaveEvent.byte.frame = slave'.frame
      /\ SlaveEvent.byte.part = slave'.sent
      /\ SlaveEvent.byte.code = IF slave'.sent = 1 THEN "ADDRESS" ELSE SlaveCode
  BY <1>1, <1>2, EventFields DEF SlaveEvent
<1>. QED  BY <1>1, <1>2, <1>3 DEF SlaveCode

LEMMA SlaveTailGoesOn ==
  ASSUME Flow, Wait, core.state # "SEND_REQUEST", NEW b, SlaveTail(b, slave)
  PROVE  /\ SlaveHeard => NextByte(b, SlaveEvent.byte)
         /\ ~SlaveHeard => SlaveTail(b, slave')
<1>1. slave \in Slave /\ slave.frame \in 0 .. MaxFrames /\ slave.sent \in 0 .. AnswerLength
  BY FlowTypes, SlaveFields
<1>2. ASSUME SlaveHeard
      PROVE  NextByte(b, SlaveEvent.byte)
  <2>1. SlaveEvent.byte.frame = slave.frame /\ SlaveEvent.byte.part = slave.sent + 1
    BY <1>2, SlaveEventFields
  <2>2. slave.frame # 0
    BY <1>2, SlaveEventFields
  <2>. QED  BY <2>1, <2>2 DEF SlaveTail, NextByte
<1>3. ASSUME ~SlaveHeard
      PROVE  SlaveTail(b, slave')
  <2>1. ~(slave'.sent > slave.sent)
    BY <1>3 DEF SlaveHeard
  <2>2. CASE slave' = Idle
    <3>1. slave'.frame = 0
      BY <2>2 DEF Idle
    <3>. QED  BY <3>1 DEF SlaveTail
  <2>3. CASE slave' = [frame |-> slave.frame, code |-> slave.code, rest |-> slave.rest,
                       sent |-> 0, age |-> slave.age + 1] /\ slave.sent = 0
    BY <2>3 DEF SlaveTail
  <2>4. CASE slave' = [frame |-> slave.frame, code |-> slave.code, rest |-> slave.rest,
                       sent |-> slave.sent + 1, age |-> slave.age]
    BY <1>1, <2>1, <2>4
  <2>. QED  BY <1>1, <2>2, <2>3, <2>4, SlaveSteps DEF Wait
<1>. QED  BY <1>2, <1>3

(* Which events of the longer queue are the slave's.                       *)
LEMMA QueuedSlaves ==
  ASSUME Flow, Wait
  PROVE  LET n == Len(arrivals)  n2 == Len(arrivals')
         IN  /\ n \in Nat /\ n2 \in Nat /\ n <= n2
             /\ \A i \in 1 .. n : arrivals'[i] = arrivals[i]
             /\ \A i \in 1 .. n : FromSlave(arrivals', i) <=> FromSlave(arrivals, i)
             /\ SlaveHeard => /\ n2 > n /\ FromSlave(arrivals', n2)
                              /\ arrivals'[n2] = SlaveEvent
             /\ \A i \in 1 .. n2 : FromSlave(arrivals', i) => i <= n \/ (SlaveHeard /\ i = n2)
<1> DEFINE n == Len(arrivals)
           n2 == Len(arrivals')
<1>1. Queued /\ now' \in Nat
  BY WaitDoes
<1>2. /\ n \in Nat /\ n2 \in Nat /\ n <= n2 /\ HostBytes \in {0, 1}
      /\ n2 \in {n + HostBytes, n + HostBytes + 1}
  BY <1>1, FlowTypes, LenProperties DEF Queued, HostBytes
<1>3. \A i \in 1 .. n : arrivals'[i] = arrivals[i]
  BY <1>1 DEF Queued
<1>4. host'.sent # 0 => arrivals'[n + 1] = HostEvent /\ HostEvent.from = "HOST"
  BY <1>1, HostEventFields DEF Queued
<1>5. \A i \in n + HostBytes + 1 .. n2 :
        arrivals'[i] = IF SlaveHeard THEN SlaveEvent ELSE StrayEvent
  BY <1>1 DEF Queued
<1>6. SlaveHeard => n2 = n + HostBytes + 1
  BY <1>1 DEF Queued
<1>7. SlaveHeard => SlaveEvent.from # "HOST" /\ SlaveEvent.byte.frame # 0
  BY SlaveEventFields
<1>8. StrayEvent.byte.frame = 0
  BY DEF StrayEvent, Event
<1>. HIDE DEF n, n2
<1>9. SlaveHeard => n2 > n /\ FromSlave(arrivals', n2) /\ arrivals'[n2] = SlaveEvent
  BY <1>2, <1>5, <1>6, <1>7 DEF FromSlave
<1>10. ASSUME NEW i \in 1 .. n2, FromSlave(arrivals', i), i > n
       PROVE  SlaveHeard /\ i = n2
  <2>1. CASE HostBytes = 1 /\ i = n + 1
    <3>1. host'.sent # 0
      BY <2>1 DEF HostBytes
    <3>. QED  BY <1>4, <1>10, <2>1, <3>1 DEF FromSlave
  <2>2. CASE ~(HostBytes = 1 /\ i = n + 1)
    <3>1. i \in n + HostBytes + 1 .. n2 /\ i = n2
      BY <1>2, <1>10, <2>2
    <3>2. SlaveHeard
      BY <1>5, <1>8, <1>10, <3>1 DEF FromSlave
    <3>. QED  BY <3>1, <3>2
  <2>. QED  BY <2>1, <2>2
<1>11. \A i \in 1 .. n2 : FromSlave(arrivals', i) => i <= n \/ (SlaveHeard /\ i = n2)
  <2>1. ASSUME NEW i \in 1 .. n2, FromSlave(arrivals', i), ~(i <= n)
        PROVE  SlaveHeard /\ i = n2
    <3>1. i > n
      BY <1>2, <2>1
    <3>. QED  BY <1>10, <2>1, <3>1
  <2>. QED  BY <2>1
<1>12. \A i \in 1 .. n : FromSlave(arrivals', i) <=> FromSlave(arrivals, i)
  BY <1>3 DEF FromSlave
<1>. QED  BY <1>2, <1>3, <1>9, <1>11, <1>12 DEF n, n2

LEMMA SlaveGoesOnLater ==
  ASSUME Flow, Wait, core.state # "SEND_REQUEST", NEW b, NEW i \in 0 .. Len(arrivals),
         SlaveGoesOn(b, i, arrivals, slave)
  PROVE  SlaveGoesOn(b, i, arrivals', slave')
<1> DEFINE n == Len(arrivals)
           n2 == Len(arrivals')
<1>1. /\ n \in Nat /\ n2 \in Nat /\ n <= n2
      /\ \A k \in 1 .. n : arrivals'[k] = arrivals[k]
      /\ \A k \in 1 .. n : FromSlave(arrivals', k) <=> FromSlave(arrivals, k)
      /\ SlaveHeard => n2 > n /\ FromSlave(arrivals', n2) /\ arrivals'[n2] = SlaveEvent
      /\ \A k \in 1 .. n2 : FromSlave(arrivals', k) => k <= n \/ (SlaveHeard /\ k = n2)
  BY QueuedSlaves
<1>. HIDE DEF n2
<1>2. ASSUME NEW j \in 0 .. n, NEW m \in Int, j <= m, NoSlave(arrivals', i + 1, m)
      PROVE  NoSlave(arrivals, i + 1, j)
  <2>1. \A k \in i + 1 .. j : k \in 1 .. n /\ k \in i + 1 .. m
    BY <1>1, <1>2
  <2>. QED  BY <1>1, <1>2, <2>1 DEF NoSlave
<1>3. ASSUME NEW j \in i + 1 .. n2, FromSlave(arrivals', j), NoSlave(arrivals', i + 1, j - 1)
      PROVE  NextByte(b, arrivals'[j].byte)
  <2>1. j \in 1 .. n2
    BY <1>1
  <2>2. CASE j <= n
    <3>1. j \in 1 .. n /\ j \in i + 1 .. n /\ j - 1 \in 0 .. n /\ j - 1 \in Int /\ j - 1 <= j - 1
      BY <1>1, <2>2
    <3>2. NoSlave(arrivals, i + 1, j - 1)
      BY <1>2, <1>3, <3>1
    <3>3. FromSlave(arrivals, j)
      BY <1>1, <1>3, <3>1
    <3>4. NextByte(b, arrivals[j].byte)
      BY <3>1, <3>2, <3>3 DEF SlaveGoesOn
    <3>. QED  BY <1>1, <3>1, <3>4
  <2>3. CASE SlaveHeard /\ j = n2
    <3>1. n \in 0 .. n /\ j - 1 \in Int /\ n <= j - 1
      BY <1>1, <2>3
    <3>2. NoSlave(arrivals, i + 1, n)
      BY <1>2, <1>3, <3>1
    <3>3. SlaveTail(b, slave)
      BY <3>2 DEF SlaveGoesOn
    <3>4. NextByte(b, SlaveEvent.byte)
      BY <2>3, <3>3, SlaveTailGoesOn
    <3>. QED  BY <1>1, <2>3, <3>4
  <2>. QED  BY <1>1, <1>3, <2>1, <2>2, <2>3
<1>4. ASSUME NoSlave(arrivals', i + 1, n2)
      PROVE  SlaveTail(b, slave')
  <2>1. ~SlaveHeard
    <3>1. SlaveHeard => n2 \in i + 1 .. n2
      BY <1>1
    <3>. QED  BY <1>1, <1>4, <3>1 DEF NoSlave
  <2>2. n \in 0 .. n /\ n2 \in Int
    BY <1>1
  <2>3. NoSlave(arrivals, i + 1, n)
    BY <1>1, <1>2, <1>4, <2>2
  <2>4. SlaveTail(b, slave)
    BY <2>3 DEF SlaveGoesOn
  <2>. QED  BY <2>1, <2>4, SlaveTailGoesOn
<1>. QED  BY <1>3, <1>4 DEF SlaveGoesOn, n2

LEMMA WaitSlave ==
  ASSUME Flow, SlaveInv, Wait
  PROVE  SlaveInv'
<1> DEFINE n == Len(arrivals)
           n2 == Len(arrivals')
<1>1. /\ n \in Nat /\ n2 \in Nat /\ n <= n2
      /\ \A k \in 1 .. n : arrivals'[k] = arrivals[k]
      /\ \A k \in 1 .. n : FromSlave(arrivals', k) <=> FromSlave(arrivals, k)
      /\ SlaveHeard => n2 > n /\ FromSlave(arrivals', n2) /\ arrivals'[n2] = SlaveEvent
      /\ \A k \in 1 .. n2 : FromSlave(arrivals', k) => k <= n \/ (SlaveHeard /\ k = n2)
  BY QueuedSlaves
<1>2. core' = core
  BY DEF Wait
<1>3. CASE core.state = "SEND_REQUEST"
  <2>1. ~SlaveHeard
    BY <1>3 DEF SlaveHeard
  <2>2. NoSlave(arrivals, 1, n)
    BY <1>3 DEF SlaveInv
  <2>3. \A k \in 1 .. n2 : ~FromSlave(arrivals', k)
    <3>1. ASSUME NEW k \in 1 .. n2, FromSlave(arrivals', k)
          PROVE  FALSE
      <4>1. k \in 1 .. n
        BY <1>1, <2>1, <3>1
      <4>2. FromSlave(arrivals, k)
        BY <1>1, <3>1, <4>1
      <4>. QED  BY <2>2, <4>1, <4>2 DEF NoSlave
    <3>. QED  BY <3>1
  <2>4. SlaveStream(arrivals', slave') /\ NoSlave(arrivals', 1, n2)
    BY <2>3 DEF SlaveStream, NoSlave
  <2>5. ResponseGoesOn(core, 0, arrivals', slave')
    BY <1>3 DEF ResponseGoesOn
  <2>. QED  BY <1>2, <2>4, <2>5 DEF SlaveInv
<1>4. CASE core.state # "SEND_REQUEST"
  <2>1. ASSUME NEW i \in 1 .. n2, FromSlave(arrivals', i)
        PROVE  SlaveGoesOn(arrivals'[i].byte, i, arrivals', slave')
    <3>1. CASE i <= n
      <4>1. i \in 1 .. n /\ i \in 0 .. Len(arrivals)
        BY <1>1, <3>1
      <4>2. FromSlave(arrivals, i)
        BY <1>1, <2>1, <4>1
      <4>3. SlaveGoesOn(arrivals[i].byte, i, arrivals, slave)
        BY <4>1, <4>2 DEF SlaveInv, SlaveStream
      <4>4. SlaveGoesOn(arrivals[i].byte, i, arrivals', slave')
        BY <1>4, <4>1, <4>3, SlaveGoesOnLater
      <4>. QED  BY <1>1, <4>1, <4>4
    <3>2. CASE SlaveHeard /\ i = n2
      <4>1. SlaveTail(SlaveEvent.byte, slave')
        BY <3>2, SlaveEventFields DEF SlaveTail
      <4>2. \A j \in i + 1 .. n2 : FALSE
        BY <1>1, <3>2
      <4>. QED  BY <1>1, <3>2, <4>1, <4>2 DEF SlaveGoesOn
    <3>. QED  BY <1>1, <2>1, <3>1, <3>2
  <2>2. SlaveStream(arrivals', slave')
    BY <2>1 DEF SlaveStream
  <2>3. ResponseGoesOn(core, 0, arrivals', slave')
    <3>1. 0 \in 0 .. Len(arrivals)
      BY <1>1
    <3>. QED  BY <1>4, <3>1, SlaveGoesOnLater DEF SlaveInv, ResponseGoesOn
  <2>. QED  BY <1>2, <1>4, <2>2, <2>3 DEF SlaveInv
<1>. QED  BY <1>3, <1>4

LEMMA StepSlave ==
  ASSUME Flow, SlaveInv, [Next]_vars
  PROVE  SlaveInv'
<1>1. CASE UNCHANGED vars
  <2>1. UNCHANGED <<arrivals, slave, core>>
    BY <1>1 DEF vars
  <2>. QED  BY <2>1 DEF SlaveInv
<1>. QED  BY <1>1, DispatchSlave, TransmittedSlave, WaitSlave DEF Next

LEMMA InitSlave ==
  ASSUME Init
  PROVE  SlaveInv
<1>1. Len(arrivals) = 0 /\ core.state = "IDLE"
  BY DEF Init
<1>. QED  BY <1>1 DEF SlaveInv, SlaveStream, ResponseGoesOn

StreamInv == Flow /\ HostInv /\ SlaveInv

(* bridge_core.c:11, frame_gap_elapsed: what is forwarded of a known       *)
(* function is a piece of one frame of the host, and without noise one     *)
(* piece of what one slave says: for any frames broken off, bytes dropped  *)
(* and functions misread, any noise, and when the clock wraps round.       *)
THEOREM NoSpliceCorrect == Spec => []NoSplice
<1>1. Init => StreamInv
  BY InitFlow, InitHost, InitSlave DEF StreamInv
<1>2. StreamInv /\ [Next]_vars => StreamInv'
  BY StepFlow, StepHost, StepSlave DEF StreamInv
<1>3. StreamInv => NoSplice
  BY DEF StreamInv, HostInv, RequestGoesOn, SlaveInv, ResponseGoesOn, NoSplice, Noisy
<1>. QED  BY <1>1, <1>2, <1>3, PTL DEF Spec
-----------------------------------------------------------------------------
(* A frame of a known function that begins while the bridge is idle. Its   *)
(* first k bytes are the request, the last of them of time s; the byte of  *)
(* this character's time may not have been taken yet.                      *)
Collected(c, k, h) ==
  /\ Len(c.request.data) = k /\ ~c.request.discarding
  /\ \A i \in 1 .. k : c.request.data[i].frame = h.frame /\ c.request.data[i].part = i
  /\ k > 1 => c.request.function = h.code /\ c.request.kind = "SUPPORTED"
  /\ c.state = IF k = 0 THEN "IDLE" ELSE IF k = RequestLength THEN "SEND_REQUEST"
               ELSE "RECEIVE_REQUEST"

Received(c, k, s, h) ==
  /\ Collected(c, k, h)
  /\ k # 0 => /\ s - k + 1 \in StartTime .. s
              /\ c.request.started = (s - k + 1) % Clock /\ c.request.last = s % Clock

CleanByte(b, h) ==
  /\ b.frame = h.frame /\ b.part = h.sent
  /\ b.code = IF h.sent = 1 THEN "ADDRESS" ELSE h.code

CleanInv ==
  host.clean /\ host.sent > 0 /\ host.code \in Supported =>
    IF polled
    THEN Received(core, host.sent, now, host) /\ (Transmits(core) => sending > 0)
    ELSE /\ Received(core, host.sent - 1, now - 1, host)
         /\ Len(arrivals) > 0 /\ CleanByte(arrivals[1].byte, host)
         /\ \A i \in 1 .. Len(arrivals) :
              arrivals[i].at = micros /\ (FromHost(arrivals, i) <=> i = 1)

(* Nothing but the host's next byte changes what was collected.            *)
LEMMA ReceivedStands ==
  ASSUME Flow, NEW c, Good(c), NEW k \in 1 .. RequestLength, Received(c, k, now, host),
         NEW b
  PROVE  CoreTick(c, micros) = c /\ OnRs485Byte(c, b, micros) = c
<1>1. c \in Core /\ c.request \in Assembly
  BY CoreFields DEF Good, CoreTyped
<1>2. k # 0 /\ k \in Nat
  BY Constants
<1>3. c.state = IF k = RequestLength THEN "SEND_REQUEST" ELSE "RECEIVE_REQUEST"
  BY <1>2 DEF Received, Collected
<1>4. OnRs485Byte(c, b, micros) = c
  BY <1>3 DEF OnRs485Byte
<1>5. CASE k = RequestLength
  BY <1>3, <1>4, <1>5, TickElse
<1>6. CASE k # RequestLength
  <2>1. c.state = "RECEIVE_REQUEST" /\ ~c.request.discarding
    BY <1>3, <1>6 DEF Received, Collected
  <2>2. c.request.kind # "UNKNOWN"
    <3>1. CASE k = 1
      <4>1. Len(c.request.data) < 2
        BY <3>1 DEF Received, Collected
      <4>. QED  BY <2>1, <4>1 DEF Good, CoreOrderly, Orderly
    <3>2. CASE k # 1
      <4>1. k > 1
        BY <1>2, <3>2
      <4>. QED  BY <4>1 DEF Received, Collected
    <3>. QED  BY <3>1, <3>2
  <2>3. Elapsed(micros, c.request.started) = k - 1
    <3>1. /\ now - k + 1 \in StartTime .. now
          /\ c.request.started = (now - k + 1) % Clock
      BY <1>2 DEF Received
    <3>2. /\ now - k + 1 \in StartTime .. MaxTime /\ now \in StartTime .. MaxTime
          /\ now - k + 1 <= now /\ now - (now - k + 1) = k - 1
      <4>1. now \in StartTime .. MaxTime /\ now \in Nat /\ k \in Nat /\ k >= 1
        BY <1>2, FlowTypes, Constants
      <4>. QED  BY <3>1, <4>1, Constants
    <3> DEFINE s == now - k + 1
    <3>3. Elapsed(now % Clock, s % Clock) = now - s
      <4>. HIDE DEF s
      <4>1. s \in StartTime .. MaxTime /\ s <= now /\ now \in StartTime .. MaxTime
        BY <3>2 DEF s
      <4>. QED  BY <4>1, ElapsedReal
    <3>. QED  BY <3>1, <3>2, <3>3 DEF micros
  <2>4. ~(k - 1 >= RequestAssemblyTimeout)
    BY <1>2, Constants
  <2>5. ~RequestEnds(c.request, micros)
    BY <2>1, <2>2, <2>3, <2>4 DEF RequestEnds
  <2>6. micros \in Time
    BY FlowTypes
  <2>. QED  BY <1>1, <1>4, <2>1, <2>5, <2>6, TickRequestDoes
<1>. QED  BY <1>5, <1>6

(* The host's next byte joins it, as the silence is short.                 *)
LEMMA ReceivedTick ==
  ASSUME Flow, NEW c, Good(c), NEW k \in 1 .. RequestLength, Received(c, k - 1, now - 1, host)
  PROVE  /\ CoreTick(c, micros) = c /\ c.state \in {"IDLE", "RECEIVE_REQUEST"}
         /\ ~Kept(c, micros).discarding /\ Len(Kept(c, micros).data) = k - 1
         /\ \A i \in 1 .. k - 1 : /\ Kept(c, micros).data[i].frame = host.frame
                                  /\ Kept(c, micros).data[i].part = i
         /\ k > 2 => /\ Kept(c, micros).function = host.code
                     /\ Kept(c, micros).kind = "SUPPORTED"
         /\ now - k + 1 \in StartTime .. now
         /\ Kept(c, micros).started = (now - k + 1) % Clock
<1>1. c \in Core /\ c.request \in Assembly /\ micros \in Time
  BY FlowTypes, CoreFields DEF Good, CoreTyped
<1>2. k \in Nat /\ k >= 1 /\ k <= RequestLength /\ now \in Nat /\ now \in StartTime .. MaxTime
  BY FlowTypes, Constants
<1>3. CASE k = 1
  <2>1. c.state = "IDLE"
    BY <1>3 DEF Received, Collected
  <2>2. CoreTick(c, micros) = c
    BY <2>1, TickElse
  <2>3. Kept(c, micros) = Started(micros)
    <3>1. ~Truncated(Started(micros), micros)
      BY <1>1, StartedFields DEF Truncated
    <3>. QED  BY <1>1, <2>1, <3>1, StartedFields DEF Kept
  <2>4. /\ ~Started(micros).discarding /\ Len(Started(micros).data) = 0
        /\ Started(micros).started = micros
    BY <1>1, EmptyOrderly, StartedFields
  <2>5. now - k + 1 = now /\ now \in StartTime .. now /\ k - 1 = 0 /\ ~(k > 2)
    BY <1>2, <1>3, Constants
  <2>6. \A i \in 1 .. k - 1 : FALSE
    BY <2>5
  <2>. QED  BY <2>1, <2>2, <2>3, <2>4, <2>5, <2>6 DEF micros
<1>4. CASE k # 1
  <2>1. k - 1 # 0 /\ k - 1 # RequestLength /\ k - 1 \in Nat
    BY <1>2, <1>4, Constants
  <2>2. c.state = "RECEIVE_REQUEST" /\ ~c.request.discarding /\ Len(c.request.data) = k - 1
    BY <2>1 DEF Received, Collected
  <2>3. /\ (now - 1) - (k - 1) + 1 \in StartTime .. now - 1
        /\ c.request.started = ((now - 1) - (k - 1) + 1) % Clock
        /\ c.request.last = (now - 1) % Clock
    BY <2>1 DEF Received
  <2>4. (now - 1) - (k - 1) + 1 = now - k + 1
    BY <1>2
  <2>5. /\ now - k + 1 \in StartTime .. now /\ now - 1 \in StartTime .. MaxTime
        /\ now - k + 1 \in StartTime .. MaxTime
    BY <1>2, <2>3, <2>4, Constants
  <2>6. Elapsed(micros, c.request.last) = 1
    <3> DEFINE s == now - 1
    <3>1. s \in StartTime .. MaxTime /\ s <= now /\ now - s = 1
      BY <1>2, <2>5
    <3>2. Elapsed(now % Clock, s % Clock) = now - s
      <4>. HIDE DEF s
      <4>. QED  BY <1>2, <3>1, ElapsedReal
    <3>. QED  BY <2>3, <3>1, <3>2 DEF micros
  <2>7. Elapsed(micros, c.request.started) = k - 1
    <3> DEFINE s == now - k + 1
    <3>1. s \in StartTime .. MaxTime /\ s <= now /\ now - s = k - 1
      BY <1>2, <2>5
    <3>2. Elapsed(now % Clock, s % Clock) = now - s
      <4>. HIDE DEF s
      <4>. QED  BY <1>2, <3>1, ElapsedReal
    <3>. QED  BY <2>3, <2>4, <3>1, <3>2 DEF micros
  <2>8. c.request.kind # "UNKNOWN"
    <3>1. CASE k = 2
      <4>1. Len(c.request.data) < 2
        BY <2>2, <3>1
      <4>. QED  BY <2>2, <4>1 DEF Good, CoreOrderly, Orderly
    <3>2. CASE k # 2
      <4>1. k - 1 > 1
        BY <1>2, <1>4, <3>2
      <4>. QED  BY <4>1 DEF Received, Collected
    <3>. QED  BY <3>1, <3>2
  <2>9. CoreTick(c, micros) = c
    <3>1. ~(k - 1 >= RequestAssemblyTimeout)
      BY <1>2, Constants
    <3>2. ~RequestEnds(c.request, micros)
      BY <2>2, <2>7, <2>8, <3>1 DEF RequestEnds
    <3>. QED  BY <1>1, <2>2, <3>2, TickRequestDoes
  <2>10. Kept(c, micros) = c.request
    <3>1. ~(1 >= FrameGap)
      BY Constants
    <3>2. ~GapBefore(c.request, micros)
      BY <2>6, <3>1 DEF GapBefore
    <3>. QED  BY <2>2, <3>2 DEF Kept, Truncated
  <2>11. k > 2 => c.request.function = host.code /\ c.request.kind = "SUPPORTED"
    <3>1. k > 2 => k - 1 > 1
      BY <1>2
    <3>. QED  BY <3>1 DEF Received, Collected
  <2>12. \A i \in 1 .. k - 1 : c.request.data[i].frame = host.frame
                               /\ c.request.data[i].part = i
    BY DEF Received, Collected
  <2>. QED  BY <2>2, <2>3, <2>4, <2>5, <2>9, <2>10, <2>11, <2>12
<1>. QED  BY <1>3, <1>4

LEMMA ReceivedJoins ==
  ASSUME Flow, host.code \in Supported, host.sent > 0,
         NEW c, Good(c), Received(c, host.sent - 1, now - 1, host),
         NEW b \in Byte, HostByte(b), CleanByte(b, host)
  PROVE  Received(OnHostByte(CoreTick(c, micros), b, micros), host.sent, now, host)
<1> DEFINE k == host.sent
           r == Kept(c, micros)
           a == Longer(r, b, micros)
           d == OnHostByte(c, b, micros)
<1>1. k \in 1 .. RequestLength /\ micros \in Time /\ k \in Nat
  BY FlowTypes, HostFields, Constants
<1>2. /\ CoreTick(c, micros) = c /\ c.state \in {"IDLE", "RECEIVE_REQUEST"}
      /\ ~r.discarding /\ Len(r.data) = k - 1
      /\ \A i \in 1 .. k - 1 : r.data[i].frame = host.frame /\ r.data[i].part = i
      /\ k > 2 => r.function = host.code /\ r.kind = "SUPPORTED"
      /\ now - k + 1 \in StartTime .. now
      /\ r.started = (now - k + 1) % Clock
  BY <1>1, ReceivedTick
<1>3. r \in Assembly
  BY <1>1, KeptFields
<1>4. /\ a \in Assembly /\ a.data = Append(r.data, b) /\ Len(a.data) = Len(r.data) + 1
      /\ \A i \in 1 .. Len(r.data) : a.data[i] = r.data[i]
      /\ a.data[Len(r.data) + 1] = b
  <2>. HIDE DEF r
  <2>. QED  BY <1>1, <1>3, LongerFields
<1>5. a.discarding = r.discarding /\ a.started = r.started /\ a.last = micros
  BY DEF Longer
<1>6. k > 1 => a.function = host.code /\ a.kind = "SUPPORTED"
  <2>1. CASE k = 2
    <3>1. Len(r.data) = 1 /\ b.code = host.code
      BY <1>2, <2>1 DEF CleanByte
    <3>2. Kind(host.code) = "SUPPORTED"
      BY DEF Kind
    <3>3. a.function = b.code /\ a.kind = Kind(b.code)
      BY <3>1 DEF Longer
    <3>. QED  BY <3>1, <3>2, <3>3
  <2>2. CASE k > 2
    <3>1. Len(r.data) # 1
      BY <1>1, <1>2, <2>2
    <3>2. a.function = r.function /\ a.kind = r.kind
      BY <3>1 DEF Longer
    <3>. QED  BY <1>2, <2>2, <3>2
  <2>. QED  BY <1>1, <2>1, <2>2
<1>. HIDE DEF r, a, k
<1>7. Len(a.data) = k
  BY <1>1, <1>2, <1>4
<1>8. \A i \in 1 .. k : a.data[i].frame = host.frame /\ a.data[i].part = i
  <2>1. ASSUME NEW i \in 1 .. k
        PROVE  a.data[i].frame = host.frame /\ a.data[i].part = i
    <3>1. CASE i = k
      <4>1. a.data[i] = b
        BY <1>1, <1>2, <1>4, <3>1
      <4>. QED  BY <3>1, <4>1 DEF CleanByte, k
    <3>2. CASE i # k
      <4>1. i \in 1 .. k - 1
        BY <1>1, <3>2
      <4>. QED  BY <1>2, <1>4, <4>1
    <3>. QED  BY <3>1, <3>2
  <2>. QED  BY <2>1
<1>9. RequestComplete(a) <=> k = RequestLength
  <2>1. k = RequestLength => k > 1
    BY Constants
  <2>2. (k = RequestLength => a.kind = "SUPPORTED") /\ (Len(a.data) = RequestLength <=> k = RequestLength)
    BY <1>6, <1>7, <2>1
  <2>. QED  BY <2>2 DEF RequestComplete
<1>10. ~Refused(r, b, micros)
  <2>1. ~Full(r)
    BY <1>1, <1>2, Constants DEF Full
  <2>2. RequestComplete(a) => a.function # "LONG"
    BY <1>6, <1>9, Constants
  <2>. QED  BY <1>2, <2>1, <2>2 DEF Refused, a
<1>11. d = CoreWith(c, IF RequestComplete(a) THEN "SEND_REQUEST" ELSE "RECEIVE_REQUEST", a, c.response)
  BY <1>1, <1>2, <1>10, HostByteTakes DEF a, r
<1>12. /\ d.state = IF k = RequestLength THEN "SEND_REQUEST" ELSE "RECEIVE_REQUEST"
       /\ d.request = a
  BY <1>9, <1>11, WithFields
<1>. HIDE DEF d
<1>13. Collected(d, k, host)
  <2>1. k # 0
    BY <1>1
  <2>. QED  BY <1>2, <1>5, <1>6, <1>7, <1>8, <1>12, <2>1 DEF Collected
<1>14. Received(d, k, now, host)
  BY <1>2, <1>5, <1>12, <1>13 DEF Received, micros
<1>. QED  BY <1>2, <1>14 DEF d, k

LEMMA FedReceived ==
  ASSUME Flow, CleanInv, host.clean, host.sent > 0, host.code \in Supported, ~polled
  PROVE  Received(Fed(core, arrivals), host.sent, now, host)
<1> DEFINE n == Len(arrivals)
           P == {x \in Core : Good(x) /\ Received(x, host.sent, now, host)}
           S == [i \in 0 .. n |-> IF i = 0 THEN {core} ELSE P]
<1>1. /\ n \in Nat
      /\ \A i \in 1 .. n : arrivals[i] \in Arrival /\ Ordinary(arrivals[i])
  BY FlowTypes, ElementOfSeq DEF Flow, StreamTyped
<1>2. /\ Received(core, host.sent - 1, now - 1, host)
      /\ n > 0 /\ CleanByte(arrivals[1].byte, host)
      /\ \A i \in 1 .. n : arrivals[i].at = micros /\ (FromHost(arrivals, i) <=> i = 1)
  BY DEF CleanInv
<1>3. Good(core) /\ host.sent \in 1 .. RequestLength
  BY FlowTypes, HostFields DEF Flow
<1>4. core \in S[0]
  BY <1>1
<1>5. ASSUME NEW i \in 1 .. n, NEW x \in S[i - 1]
      PROVE  OnEvent(x, arrivals[i]) \in S[i]
  <2> DEFINE e == arrivals[i]
  <2>1. S[i] = P
    BY <1>1
  <2>2. e \in Arrival /\ Ordinary(e) /\ e.at = micros /\ (e.from = "HOST" <=> i = 1)
    BY <1>1, <1>2 DEF FromHost
  <2>3. e.byte \in Byte
    BY <2>2 DEF Arrival
  <2>4. CASE i = 1
    <3>1. x = core
      BY <1>1, <2>4
    <3>2. e.byte = arrivals[1].byte /\ e.from = "HOST" /\ HostByte(e.byte)
      BY <2>2, <2>4 DEF Ordinary
    <3>. HIDE DEF e
    <3>3. Received(OnHostByte(CoreTick(core, micros), e.byte, micros), host.sent, now, host)
      BY <1>2, <1>3, <2>3, <3>2, ReceivedJoins
    <3>4. OnEvent(core, e) = OnHostByte(CoreTick(core, micros), e.byte, micros)
      BY <2>2, <3>2 DEF OnEvent
    <3>5. Good(OnEvent(core, e))
      BY <1>3, <2>2, GoodEvent
    <3>. QED  BY <2>1, <3>1, <3>3, <3>4, <3>5 DEF e, Good, CoreTyped
  <2>5. CASE i # 1
    <3>1. x \in P
      BY <1>1, <2>5
    <3>2. Good(x) /\ Received(x, host.sent, now, host) /\ x \in Core
      BY <3>1
    <3>. HIDE DEF e
    <3>3. CoreTick(x, micros) = x /\ OnRs485Byte(x, e.byte, micros) = x
      BY <1>3, <3>2, ReceivedStands
    <3>4. OnEvent(x, e) = x
      BY <2>2, <2>5, <3>3 DEF OnEvent
    <3>. QED  BY <2>1, <3>1, <3>4 DEF e
  <2>. QED  BY <2>4, <2>5
<1>. HIDE DEF S
<1>6. Fed(core, arrivals) \in S[n]
  BY <1>1, <1>4, <1>5, FedKeeps
<1>7. S[n] = P
  BY <1>1, <1>2 DEF S
<1>. QED  BY <1>6, <1>7

LEMMA DispatchClean ==
  ASSUME Flow, CleanInv, Dispatch
  PROVE  CleanInv'
<1> DEFINE x == Fed(core, arrivals)
<1>1. /\ core' = CoreTick(x, micros) /\ UNCHANGED <<host, now>> /\ polled' = TRUE /\ ~polled
      /\ sending' = IF Transmits(core') THEN Len(Outgoing(core')) ELSE 0
  BY DEF Dispatch
<1>2. ASSUME host.clean, host.sent > 0, host.code \in Supported
      PROVE  Received(core', host.sent, now, host) /\ (Transmits(core') => sending' > 0)
  <2>1. Received(x, host.sent, now, host) /\ Good(x)
    BY <1>1, <1>2, FedReceived, GoodFed DEF Flow, StreamTyped
  <2>2. host.sent \in 1 .. RequestLength /\ host.sent # 0
    BY <1>2, FlowTypes, HostFields
  <2>. HIDE DEF x
  <2>3. core' = x
    BY <1>1, <2>1, <2>2, ReceivedStands
  <2>4. /\ Len(core'.request.data) = host.sent
        /\ core'.state \in {"SEND_REQUEST", "RECEIVE_REQUEST"}
    BY <2>1, <2>2, <2>3 DEF Received, Collected
  <2>5. Transmits(core') => sending' = host.sent
    BY <1>1, <2>4 DEF Transmits, Outgoing
  <2>. QED  BY <1>2, <2>1, <2>3, <2>5
<1>. QED  BY <1>1, <1>2 DEF CleanInv

(* What was dispatched is not out before another character has passed.     *)
LEMMA TransmittedClean ==
  ASSUME Flow, CleanInv, Transmitted
  PROVE  CleanInv'
<1>1. UNCHANGED host /\ Transmits(core) /\ ~(sending > 0)
  BY FlowTypes DEF Transmitted
<1>2. ~(host.clean /\ host.sent > 0 /\ host.code \in Supported)
  <2>. SUFFICES ASSUME host.clean, host.sent > 0, host.code \in Supported
                PROVE  FALSE
    OBVIOUS
  <2>1. CASE polled
    BY <1>1, <2>1 DEF CleanInv
  <2>2. CASE ~polled
    <3>1. Received(core, host.sent - 1, now - 1, host)
      BY <2>2 DEF CleanInv
    <3>2. host.sent - 1 # RequestLength /\ host.sent - 1 \in Nat
      BY FlowTypes, HostFields, Constants
    <3>3. core.state \in {"IDLE", "RECEIVE_REQUEST"}
      BY <3>1, <3>2 DEF Received, Collected
    <3>. QED  BY <1>1, <3>3 DEF Transmits
  <2>. QED  BY <2>1, <2>2
<1>. QED  BY <1>1, <1>2 DEF CleanInv

LEMMA WaitQueues ==
  ASSUME Flow, Wait, polled, host'.sent > 0
  PROVE  /\ Len(arrivals') > 0 /\ arrivals'[1] = HostEvent
         /\ \A i \in 1 .. Len(arrivals') :
              arrivals'[i].at = micros' /\ (FromHost(arrivals', i) <=> i = 1)
         /\ CleanByte(HostEvent.byte, host')
<1> DEFINE n2 == Len(arrivals')
<1>1. arrivals = <<>> /\ Len(arrivals) = 0
  <2>1. arrivals = <<>>
    BY DEF Flow
  <2>. QED  BY <2>1
<1>2. host'.sent # 0 /\ HostBytes = 1 /\ Queued /\ now' \in Nat
  BY WaitDoes, HostFields, Constants DEF HostBytes
<1>3. n2 \in {1, 2} /\ arrivals'[1] = HostEvent
  BY <1>1, <1>2 DEF Queued
<1>. HIDE DEF n2
<1>4. /\ HostEvent.from = "HOST" /\ HostEvent.at = micros' /\ CleanByte(HostEvent.byte, host')
  BY <1>2, HostEventFields DEF micros, CleanByte
<1>5. ASSUME NEW i \in 1 .. n2, i # 1
      PROVE  arrivals'[i].at = micros' /\ ~FromHost(arrivals', i)
  <2>1. i = 2
    BY <1>3, <1>5
  <2>2. arrivals'[i] = IF SlaveHeard THEN SlaveEvent ELSE StrayEvent
    <3>1. i \in Len(arrivals) + HostBytes + 1 .. n2
      BY <1>1, <1>2, <1>3, <2>1
    <3>. QED  BY <1>2, <3>1 DEF Queued, n2
  <2>3. SlaveHeard => SlaveEvent.at = micros' /\ SlaveEvent.from # "HOST"
    BY WaitDoes, SlaveEventFields
  <2>4. StrayEvent.at = micros' /\ StrayEvent.from # "HOST"
    BY WaitDoes DEF StrayEvent, Event
  <2>. QED  BY <2>2, <2>3, <2>4 DEF FromHost
<1>6. 1 \in 1 .. n2 /\ n2 > 0 /\ FromHost(arrivals', 1) /\ arrivals'[1].at = micros'
  BY <1>3, <1>4 DEF FromHost
<1>. QED  BY <1>3, <1>4, <1>5, <1>6 DEF n2

LEMMA WaitClean ==
  ASSUME Flow, CleanInv, Wait
  PROVE  CleanInv'
<1>1. /\ core' = core /\ polled' = FALSE /\ now' = now + 1 /\ now \in Nat
      /\ host \in Host /\ host' \in Host
      /\ Transmits(core) \/ polled
  BY FlowTypes, WaitDoes DEF Wait
<1>2. /\ host.frame \in 0 .. MaxFrames /\ host.sent \in 0 .. RequestLength /\ host.sent \in Nat
  BY <1>1, HostFields, Constants
<1>3. (now + 1) - 1 = now
  BY <1>1
<1>4. ASSUME host'.clean, host'.sent > 0, host'.code \in Supported
      PROVE  Received(core, host'.sent - 1, now, host') /\ polled
  <2>1. CASE /\ host.sent \in 1 .. RequestLength - 1
             /\ host' = [frame |-> host.frame, sent |-> host.sent + 1, code |-> host.code,
                         silent |-> host.silent, clean |-> host.clean]
    <3>1. /\ host'.frame = host.frame /\ host'.code = host.code
          /\ host'.sent - 1 = host.sent /\ host.sent > 0 /\ host.sent # RequestLength
      BY <1>2, <2>1, Constants
    <3>2. host'.clean = host.clean
      BY <2>1
    <3>3. host.clean /\ host.code \in Supported
      BY <1>4, <3>1, <3>2
    <3>4. polled
      <4>1. CASE ~polled
        <5>1. Received(core, host.sent - 1, now - 1, host)
          BY <3>1, <3>3, <4>1 DEF CleanInv
        <5>2. host.sent - 1 # RequestLength /\ host.sent - 1 \in Nat
          BY <1>2, <2>1, Constants
        <5>3. core.state \in {"IDLE", "RECEIVE_REQUEST"}
          BY <5>1, <5>2 DEF Received, Collected
        <5>. QED  BY <1>1, <4>1, <5>3 DEF Transmits
      <4>. QED  BY <4>1
    <3>5. Received(core, host.sent, now, host)
      BY <3>1, <3>3, <3>4 DEF CleanInv
    <3>. QED  BY <3>1, <3>4, <3>5 DEF Received, Collected
  <2>2. CASE /\ host.sent = 0 /\ host.silent + 1 >= FrameGap /\ host.frame < MaxFrames
             /\ \E code \in Functions :
                  host' = [frame |-> host.frame + 1, sent |-> 1, code |-> code,
                           silent |-> 0, clean |-> core.state = "IDLE"]
    <3>1. host'.sent = 1 /\ host'.clean = (core.state = "IDLE")
      BY <2>2
    <3>2. core.state = "IDLE"
      BY <1>4, <3>1
    <3>3. core.request = Cleared
      BY <3>2 DEF Flow, Good, CoreOrderly
    <3>4. Len(core.request.data) = 0 /\ ~core.request.discarding
      BY <3>3, EmptyOrderly, StartedFields, Constants DEF Time
    <3>5. host'.sent - 1 = 0 /\ polled
      BY <1>1, <3>1, <3>2 DEF Transmits
    <3>6. Received(core, 0, now, host')
      <4>1. \A i \in 1 .. 0 : FALSE
        OBVIOUS
      <4>. QED  BY <3>2, <3>4, <4>1 DEF Received, Collected
    <3>. QED  BY <3>5, <3>6
  <2>3. CASE host' = [frame |-> host.frame, sent |-> 0, code |-> host.code, clean |-> FALSE,
                      silent |-> IF host.silent + 1 < FrameGap THEN host.silent + 1
                                 ELSE host.silent]
    <3>1. host'.sent = 0
      BY <2>3
    <3>. QED  BY <1>4, <3>1
  <2>. QED  BY <1>1, <2>1, <2>2, <2>3, HostSteps DEF Wait
<1>5. ASSUME host'.clean, host'.sent > 0, host'.code \in Supported
      PROVE  /\ Received(core', host'.sent - 1, now' - 1, host')
             /\ Len(arrivals') > 0 /\ CleanByte(arrivals'[1].byte, host')
             /\ \A i \in 1 .. Len(arrivals') :
                  arrivals'[i].at = micros' /\ (FromHost(arrivals', i) <=> i = 1)
  <2>1. Received(core', host'.sent - 1, now' - 1, host') /\ polled
    BY <1>1, <1>3, <1>4, <1>5
  <2>. QED  BY <1>5, <2>1, WaitQueues
<1>. QED  BY <1>1, <1>5 DEF CleanInv

LEMMA StepClean ==
  ASSUME Flow, CleanInv, [Next]_vars
  PROVE  CleanInv'
<1>1. CASE UNCHANGED vars
  BY <1>1 DEF vars, CleanInv, micros
<1>. QED  BY <1>1, DispatchClean, TransmittedClean, WaitClean DEF Next

(* A whole request that begins while the bridge is idle is forwarded, and  *)
(* as it was sent, whatever the noise on the line, whatever was sent and   *)
(* answered before, and whenever the clock wraps round.                    *)
THEOREM ForwardedCorrect == Spec => []RequestForwarded
<1>1. Init => CleanInv
  BY DEF Init, CleanInv
<1>2. Flow /\ CleanInv => RequestForwarded
  <2>. SUFFICES ASSUME Flow, CleanInv, polled, host.clean, host.sent = RequestLength,
                       host.code \in Supported
                PROVE  /\ core.state = "SEND_REQUEST" /\ Whole(core.request.data)
                       /\ core.request.data[1].frame = host.frame
    BY DEF RequestForwarded
  <2>1. host.sent > 0 /\ RequestLength # 0 /\ 1 \in 1 .. RequestLength
    BY Constants
  <2>2. Received(core, RequestLength, now, host)
    BY <2>1 DEF CleanInv
  <2>. QED  BY <2>1, <2>2 DEF Received, Collected, Whole
<1>3. Flow /\ CleanInv /\ [Next]_vars => (Flow /\ CleanInv)'
  BY StepFlow, StepClean
<1>. QED  BY <1>1, <1>2, <1>3, InitFlow, PTL DEF Spec
-----------------------------------------------------------------------------
(* Whose answer is forwarded. What the tick and a byte of the line make of *)
(* a response, for the bytes it holds and the time of the last.            *)
Answered(r) == \E i \in 1 .. Len(r.data) : r.data[i].frame # 0

InTransaction(c) == c.state \in {"WAIT_RESPONSE", "SEND_RESPONSE"}

LEMMA TickTransaction ==
  ASSUME NEW c, Good(c), NEW t \in Time, InTransaction(CoreTick(c, t))
  PROVE  LET d == CoreTick(c, t)
         IN  /\ InTransaction(c) /\ d.request = c.request /\ d.wait_started = c.wait_started
             /\ d.response = c.response \/ d.response.data = <<>>
             /\ d.state = "WAIT_RESPONSE" => c.state = "WAIT_RESPONSE"
<1> DEFINE d == CoreTick(c, t)
<1>1. c \in Core
  BY DEF Good, CoreTyped
<1>2. CASE c.state = "RECEIVE_REQUEST"
  BY <1>1, <1>2, TickRequestDoes, WithFields DEF InTransaction
<1>3. CASE c.state = "WAIT_RESPONSE"
  <2>1. Discarding(c.response).data = <<>>
    <3>1. c.response \in Assembly
      BY <1>1, CoreFields
    <3>. QED  BY <3>1, AssemblyFields
  <2>. QED  BY <1>1, <1>3, <2>1, TickResponseDoes, WithFields, RecoveringFields
            DEF InTransaction
<1>4. CASE c.state = "RECOVERY"
  BY <1>1, <1>4, TickRecoveryDoes, WithFields DEF InTransaction
<1>5. CASE c.state \notin {"RECEIVE_REQUEST", "WAIT_RESPONSE", "RECOVERY"}
  BY <1>5, TickElse DEF InTransaction
<1>. QED  BY <1>2, <1>3, <1>4, <1>5

LEMMA LineByteDoes ==
  ASSUME NEW c, Good(c), NEW b \in Byte, NEW t \in Time, c.state = "WAIT_RESPONSE"
  PROVE  LET f == OnRs485Byte(c, b, t)
         IN  /\ InTransaction(f) /\ f.request = c.request /\ f.wait_started = c.wait_started
             /\ \/ f.response.data = <<>>
                \/ /\ f.response.last = t
                   /\ \A i \in 1 .. Len(f.response.data) :
                        \/ f.response.data[i] = b
                        \/ \E j \in 1 .. Len(c.response.data) :
                             f.response.data[i] = c.response.data[j]
<1> DEFINE f == OnRs485Byte(c, b, t)
           r == KeptResponse(c, t)
           a == LongerResponse(c, r, b, t)
<1>1. c \in Core
  BY DEF Good, CoreTyped
<1>2. CASE c.response.discarding
  <2>1. f = c
    BY <1>2 DEF OnRs485Byte
  <2>2. c.response.data = <<>>
    BY <1>2 DEF Good, CoreOrderly, Orderly
  <2>. QED  BY <2>1, <2>2 DEF InTransaction
<1>3. CASE ~c.response.discarding
  <2>1. CASE \E q \in Assembly :
               /\ q.discarding /\ q.data = <<>>
               /\ f = CoreWith(c, "WAIT_RESPONSE", c.request, q)
    BY <2>1, WithFields DEF InTransaction
  <2>2. CASE /\ ~Mismatched(c, r, b)
             /\ f = CoreWith(c, IF ResponseComplete(a) THEN "SEND_RESPONSE" ELSE "WAIT_RESPONSE",
                             c.request, a)
    <3>1. /\ f.response = a /\ f.request = c.request /\ f.wait_started = c.wait_started
          /\ f.state = IF ResponseComplete(a) THEN "SEND_RESPONSE" ELSE "WAIT_RESPONSE"
      BY <2>2, WithFields
    <3>2. r \in Assembly /\ (r = Cleared \/ r = c.response)
      BY <1>3, KeptResponseFields DEF KeptResponse
    <3>3. a.data = Append(r.data, b) /\ a.last = t
      BY DEF LongerResponse
    <3>4. r.data \in Seq(Byte) /\ Len(r.data) \in Nat
      BY <3>2, AssemblyFields
    <3>. HIDE DEF a, f, r
    <3>5. /\ Len(a.data) = Len(r.data) + 1 /\ a.data[Len(r.data) + 1] = b
          /\ \A k \in 1 .. Len(r.data) : a.data[k] = r.data[k]
      BY <3>3, <3>4, AppendProperties
    <3>6. ASSUME NEW i \in 1 .. Len(a.data)
          PROVE  \/ a.data[i] = b
                 \/ \E j \in 1 .. Len(c.response.data) : a.data[i] = c.response.data[j]
      <4>1. CASE i = Len(r.data) + 1
        BY <3>5, <4>1
      <4>2. CASE i # Len(r.data) + 1
        <5>1. i \in 1 .. Len(r.data)
          BY <3>4, <3>5, <4>2
        <5>2. r = c.response
          BY <3>2, <5>1, EmptyOrderly
        <5>. QED  BY <3>5, <5>1, <5>2
      <4>. QED  BY <4>1, <4>2
    <3>. QED  BY <3>1, <3>3, <3>6 DEF InTransaction, f
  <2>. QED  BY <1>3, <2>1, <2>2, Rs485ByteTakes
<1>. QED  BY <1>2, <1>3

(* Noise has no function code of a request, so a response of two bytes is  *)
(* not noise alone.                                                        *)
LEMMA FunctionNamed ==
  ASSUME NEW c, Good(c), InTransaction(c), Named(c.request)
  PROVE  c.request.function \in Functions /\ "ADDRESS" \notin {Exception, c.request.function}
<1>1. c \in Core /\ c.request \in Assembly
  BY CoreFields DEF Good, CoreTyped
<1>5. c.request.kind # "PENDING" /\ ~c.request.discarding
  <2>1. Ready(c.request) /\ c.request.kind # "PENDING" /\ Orderly(c.request)
    BY DEF Good, CoreOrderly, InTransaction
  <2>2. c.request.data # <<>>
    <3>1. Len(c.request.data) # 0
      BY <2>1, <1>1, AssemblyFields, Constants DEF Ready, RequestComplete
    <3>. QED  BY <3>1
  <2>. QED  BY <2>1, <2>2 DEF Orderly
<1>6. c.request.function \in Functions
  BY <1>5 DEF Named
<1>. QED  BY <1>6, Constants DEF Functions, Exception

LEMMA AnsweredAll ==
  ASSUME NEW c, Good(c), InTransaction(c), Named(c.request), Len(c.response.data) >= 2
  PROVE  Answered(c.response)
<1> DEFINE data == c.response.data
<1>1. c \in Core /\ c.response \in Assembly
  BY CoreFields DEF Good, CoreTyped
<1>2. Len(data) \in Nat /\ data \in Seq(Byte)
  BY <1>1, AssemblyFields
<1>3. 2 \in 1 .. Len(data)
  BY <1>2
<1>4. LineByte(data[2]) /\ data[2].code \in {Exception, c.request.function}
  BY <1>3 DEF Good, CoreOrderly
<1>7. data[2].code # "ADDRESS"
  BY <1>4, FunctionNamed
<1>8. data[2].frame # 0
  BY <1>4, <1>7 DEF LineByte
<1>. QED  BY <1>3, <1>8 DEF Answered

(* The bytes of a response are noise or the answer to its request.         *)
OwnCore(c) ==
  InTransaction(c) =>
    \A i \in 1 .. Len(c.response.data) :
      c.response.data[i].frame \in {0, c.request.data[1].frame}

OwnQueued(c) ==
  c.state = "WAIT_RESPONSE" =>
    \A i \in 1 .. Len(arrivals) :
      FromSlave(arrivals, i) => arrivals[i].byte.frame = c.request.data[1].frame

LEMMA OwnTick ==
  ASSUME NEW c, Good(c), NEW t \in Time, OwnCore(c), OwnQueued(c)
  PROVE  OwnCore(CoreTick(c, t)) /\ OwnQueued(CoreTick(c, t))
<1> DEFINE d == CoreTick(c, t)
<1>1. InTransaction(d) =>
        /\ InTransaction(c) /\ d.request = c.request
        /\ d.response = c.response \/ d.response.data = <<>>
        /\ d.state = "WAIT_RESPONSE" => c.state = "WAIT_RESPONSE"
  BY TickTransaction
<1>2. Len(<<>>) = 0
  OBVIOUS
<1>. HIDE DEF d
<1>3. OwnCore(d)
  BY <1>1, <1>2, SMTT(60) DEF OwnCore
<1>4. OwnQueued(d)
  BY <1>1 DEF OwnQueued, InTransaction
<1>. QED  BY <1>3, <1>4 DEF d

LEMMA OwnEvent ==
  ASSUME Flow, NEW i \in 1 .. Len(arrivals), NEW c, Good(c), OwnCore(c), OwnQueued(c)
  PROVE  OwnCore(OnEvent(c, arrivals[i])) /\ OwnQueued(OnEvent(c, arrivals[i]))
<1> DEFINE e == arrivals[i]
           d == CoreTick(c, e.at)
<1>1. e \in Arrival /\ Ordinary(e)
  BY FlowTypes, ElementOfSeq DEF Flow, StreamTyped
<1>2. e.byte \in Byte /\ e.at \in Time
  BY <1>1 DEF Arrival
<1>3. Good(d) /\ OwnCore(d) /\ OwnQueued(d)
  BY <1>2, GoodTick, OwnTick
<1>. HIDE DEF d
<1>4. CASE e.from = "HOST"
  <2> DEFINE f == OnHostByte(d, e.byte, e.at)
  <2>1. OnEvent(c, e) = f
    BY <1>4 DEF OnEvent, d
  <2>2. f.state \in {"WAIT_RESPONSE", "SEND_RESPONSE"} => f = d
    BY <1>1, <1>2, <1>3, <1>4, HostKeepsResponses DEF Ordinary
  <2>. HIDE DEF f
  <2>3. OwnCore(f) /\ OwnQueued(f)
    BY <1>3, <2>2 DEF OwnCore, OwnQueued, InTransaction
  <2>. QED  BY <2>1, <2>3
<1>5. CASE e.from # "HOST"
  <2> DEFINE f == OnRs485Byte(d, e.byte, e.at)
  <2>1. OnEvent(c, e) = f
    BY <1>5 DEF OnEvent, d
  <2>2. CASE d.state # "WAIT_RESPONSE"
    <3>1. f = d
      BY <2>2 DEF OnRs485Byte
    <3>. QED  BY <1>3, <2>1, <3>1
  <2>3. CASE d.state = "WAIT_RESPONSE"
    <3>1. /\ InTransaction(f) /\ f.request = d.request
          /\ \/ f.response.data = <<>>
             \/ \A j \in 1 .. Len(f.response.data) :
                  \/ f.response.data[j] = e.byte
                  \/ \E k \in 1 .. Len(d.response.data) :
                       f.response.data[j] = d.response.data[k]
      BY <1>2, <1>3, <2>3, LineByteDoes
    <3>2. e.byte.frame \in {0, d.request.data[1].frame}
      BY <1>3, <1>5, <2>3 DEF OwnQueued, FromSlave
    <3>3. \A k \in 1 .. Len(d.response.data) :
            d.response.data[k].frame \in {0, d.request.data[1].frame}
      BY <1>3, <2>3 DEF OwnCore, InTransaction
    <3>4. Len(<<>>) = 0
      OBVIOUS
    <3>. HIDE DEF f, e
    <3>5. OwnCore(f)
      <4>1. ASSUME NEW j \in 1 .. Len(f.response.data)
            PROVE  f.response.data[j].frame \in {0, d.request.data[1].frame}
        <5>1. f.response.data # <<>>
          BY <3>4, <4>1
        <5>2. CASE f.response.data[j] = e.byte
          BY <3>2, <5>2
        <5>3. CASE \E k \in 1 .. Len(d.response.data) :
                     f.response.data[j] = d.response.data[k]
          BY <3>3, <5>3
        <5>. QED  BY <3>1, <4>1, <5>1, <5>2, <5>3
      <4>. QED  BY <3>1, <4>1 DEF OwnCore
    <3>6. OwnQueued(f)
      BY <1>3, <2>3, <3>1 DEF OwnQueued
    <3>. QED  BY <2>1, <3>5, <3>6 DEF e
  <2>. QED  BY <2>2, <2>3
<1>. QED  BY <1>4, <1>5

LEMMA FedOwn ==
  ASSUME Flow, OwnCore(core), OwnQueued(core)
  PROVE  OwnCore(Fed(core, arrivals)) /\ OwnQueued(Fed(core, arrivals))
<1> DEFINE P == {x \in Core : Good(x) /\ OwnCore(x) /\ OwnQueued(x)}
           S == [i \in 0 .. Len(arrivals) |-> P]
<1>1. /\ arrivals \in Seq(Arrival) /\ Len(arrivals) \in Nat
      /\ \A i \in 1 .. Len(arrivals) : arrivals[i] \in Arrival /\ Ordinary(arrivals[i])
  BY FlowTypes, ElementOfSeq DEF Flow, StreamTyped
<1>2. core \in S[0]
  BY <1>1, FlowTypes DEF Flow
<1>3. ASSUME NEW i \in 1 .. Len(arrivals), NEW x \in S[i - 1]
      PROVE  OnEvent(x, arrivals[i]) \in S[i]
  <2>1. S[i - 1] = P /\ S[i] = P
    BY <1>1
  <2>2. Good(x) /\ OwnCore(x) /\ OwnQueued(x)
    BY <2>1
  <2>3. Good(OnEvent(x, arrivals[i]))
    BY <1>1, <2>2, GoodEvent
  <2>4. OwnCore(OnEvent(x, arrivals[i])) /\ OwnQueued(OnEvent(x, arrivals[i]))
    BY <2>2, OwnEvent
  <2>. QED  BY <2>1, <2>3, <2>4 DEF Good, CoreTyped
<1>. HIDE DEF S
<1>4. Fed(core, arrivals) \in S[Len(arrivals)]
  BY <1>1, <1>2, <1>3, FedKeeps
<1>. QED  BY <1>1, <1>4 DEF S

(* The slave is at work on a request that was taken when no earlier answer *)
(* could still come. Then the wait was not cut short, and the time since   *)
(* that request is the slave's: its answer comes before the recovery ends  *)
(* and another request is out. Times are what the clock showed at s or     *)
(* later.                                                                  *)
Since(t, s) == \E v \in StartTime .. now : t = v % Clock /\ s <= v

Recovered == forwarded + ResponseTimeout + ResponseRecovery

BusyCore(c) ==
  /\ InTransaction(c) => slave.frame = c.request.data[1].frame
  /\ c.state = "WAIT_RESPONSE" =>
       /\ c.wait_started = forwarded % Clock
       /\ Answered(c.response) => slave.sent > 0
  /\ c.state = "SEND_RESPONSE" => Len(c.response.data) = Length(slave.code) /\ slave.sent > 0
  /\ c.state = "RECOVERY" => Since(c.recovery_started, forwarded + ResponseTimeout)
  /\ c.state \in {"IDLE", "RECEIVE_REQUEST", "SEND_REQUEST"} => Recovered <= now
  /\ c.state = "RECEIVE_REQUEST" /\ ~c.request.discarding =>
       Since(c.request.started, Recovered) /\ Since(c.request.last, Recovered)
  /\ c.state = "SEND_REQUEST" /\ c.request.kind = "UNKNOWN" =>
       Recovered + UnknownFrameGap <= now

(* The last byte of an answer came in this character's time or the one     *)
(* before.                                                                 *)
Recent(c) ==
  c.state = "WAIT_RESPONSE" /\ Answered(c.response) =>
    c.response.last \in {now % Clock, (now - 1) % Clock}

SlaveBusy ==
  /\ slave.frame # 0 /\ slave.sent # Length(slave.code)
  /\ now - forwarded = slave.age + slave.sent

(* The core is in step with the slave, of whose answer it has seen n       *)
(* bytes: unless the response is discarded it began with the answer, and   *)
(* its second byte is the answer's function.                               *)
Begun(r, n) ==
  /\ Answered(r) \/ n = 0
  /\ Len(r.data) = 1 => n <= 1
  /\ Len(r.data) >= 2 => r.function = slave.code

InStep(c, n) ==
  c.state = "WAIT_RESPONSE" /\ ~c.response.discarding => Begun(c.response, n)

(* The byte that the slave sent last, and the ones before it.              *)
LastByte(b) ==
  /\ slave.sent = 1 => b.code = "ADDRESS"
  /\ slave.sent = 2 => b.code = slave.code

Before == IF slave.sent = 0 THEN 0 ELSE slave.sent - 1

LEMMA SinceElapsed ==
  ASSUME Flow, NEW t, NEW s \in Nat, Since(t, s)
  PROVE  s + Elapsed(micros, t) <= now /\ Elapsed(micros, t) \in Nat
<1>1. PICK v \in StartTime .. now : t = v % Clock /\ s <= v
  BY DEF Since
<1>2. v \in StartTime .. MaxTime /\ now \in StartTime .. MaxTime /\ v <= now /\ v \in Nat /\ now \in Nat
  BY FlowTypes, Constants
<1>3. Elapsed(micros, t) = now - v
  BY <1>1, <1>2, ElapsedReal DEF micros
<1>. QED  BY <1>1, <1>2, <1>3

LEMMA BusyTimes ==
  ASSUME Flow
  PROVE  /\ now \in Nat /\ now \in StartTime .. now /\ forwarded \in Nat
         /\ forwarded + ResponseTimeout \in Nat /\ Recovered \in Nat
         /\ Recovered = forwarded + ResponseTimeout + ResponseRecovery
         /\ micros \in Time /\ micros = now % Clock
         /\ \A s \in Nat : s <= now => Since(micros, s)
<1>1. /\ now \in Nat /\ forwarded \in Nat /\ micros \in Time /\ now \in StartTime .. now
  BY FlowTypes, Constants
<1>. QED  BY <1>1, Constants DEF Recovered, Since, micros

(* While the slave answers there is no silence on the line.                *)
LEMMA RecentElapsed ==
  ASSUME Flow, SlaveBusy, NEW c, Good(c), c.state = "WAIT_RESPONSE", Answered(c.response),
         slave.sent > 0, Recent(c)
  PROVE  Elapsed(micros, c.response.last) \in {0, 1}
<1>4. slave.sent > 0 /\ slave.sent \in Nat /\ slave.age \in Nat
  BY FlowTypes, SlaveFields
<1>5. /\ now \in Nat /\ forwarded \in StartTime .. MaxTime /\ forwarded \in Nat
      /\ now \in StartTime .. MaxTime
  BY FlowTypes
<1>6. now - 1 \in StartTime .. MaxTime /\ now - 1 <= now /\ now <= now
  BY <1>4, <1>5, Constants DEF SlaveBusy
<1> DEFINE s == now - 1
<1>7. Elapsed(now % Clock, now % Clock) = now - now
  BY <1>5, <1>6, ElapsedReal
<1>8. Elapsed(now % Clock, s % Clock) = now - s
  <2>1. s \in StartTime .. MaxTime /\ s <= now
    BY <1>6
  <2>. HIDE DEF s
  <2>. QED  BY <1>5, <2>1, ElapsedReal
<1>9. c.response.last \in {now % Clock, s % Clock}
  BY DEF Recent
<1>10. now - now = 0 /\ now - s = 1
  BY <1>5
<1>. HIDE DEF s
<1>. QED  BY <1>7, <1>8, <1>9, <1>10 DEF micros

LEMMA NoSilence ==
  ASSUME Flow, SlaveBusy, NEW c, Good(c), c.state = "WAIT_RESPONSE", Named(c.request),
         Answered(c.response) => slave.sent > 0, Recent(c)
  PROVE  ~ResponseEnds(c.response, micros)
<1>. SUFFICES ASSUME ResponseEnds(c.response, micros) PROVE FALSE
  OBVIOUS
<1>1. c \in Core /\ c.response \in Assembly
  BY CoreFields DEF Good, CoreTyped
<1>2. /\ c.response.kind = "UNKNOWN" /\ ~c.response.discarding
      /\ Elapsed(micros, c.response.last) >= UnknownFrameGap
  BY DEF ResponseEnds
<1>3. Answered(c.response)
  <2>1. ~(Len(c.response.data) < 2)
    BY <1>2 DEF Good, CoreOrderly, Orderly
  <2>2. Len(c.response.data) >= 2
    BY <1>1, <2>1, AssemblyFields
  <2>. QED  BY <2>2, AnsweredAll DEF InTransaction
<1>4. Elapsed(micros, c.response.last) \in {0, 1}
  BY <1>3, RecentElapsed
<1>. QED  BY <1>2, <1>4, Constants

LEMMA BusyTick ==
  ASSUME Flow, SlaveBusy, NEW c, Good(c), Named(c.request), BusyCore(c), Recent(c)
  PROVE  /\ BusyCore(CoreTick(c, micros))
         /\ CoreTick(c, micros).state = "WAIT_RESPONSE" => CoreTick(c, micros) = c
<1> DEFINE d == CoreTick(c, micros)
<1>1. c \in Core /\ c.request \in Assembly /\ micros \in Time /\ Recovered \in Nat /\ now \in Nat
      /\ forwarded \in Nat /\ forwarded + ResponseTimeout \in Nat
      /\ Recovered = forwarded + ResponseTimeout + ResponseRecovery
  BY CoreFields, BusyTimes DEF Good, CoreTyped
<1>2. ASSUME d = CoreWith(c, "IDLE", Cleared, Cleared), Recovered <= now
      PROVE  BusyCore(d) /\ d.state # "WAIT_RESPONSE"
  <2>1. d.state = "IDLE"
    BY <1>2, WithFields
  <2>. HIDE DEF d
  <2>. QED  BY <1>2, <2>1 DEF BusyCore, InTransaction
<1>3. CASE c.state = "RECEIVE_REQUEST"
  <2>1. Recovered <= now
    BY <1>3 DEF BusyCore
  <2>2. CASE ~RequestEnds(c.request, micros)
    BY <1>1, <1>3, <2>2, TickRequestDoes
  <2>3. CASE RequestEnds(c.request, micros) /\ RequestStands(c.request)
    <3>1. d = CoreWith(c, "SEND_REQUEST", c.request, c.response)
      BY <1>1, <1>3, <2>3, TickRequestDoes
    <3>2. d.state = "SEND_REQUEST" /\ d.request = c.request
      BY <3>1, WithFields
    <3>3. /\ c.request.kind = "UNKNOWN" /\ ~c.request.discarding
          /\ \/ Elapsed(micros, c.request.last) >= UnknownFrameGap
             \/ Elapsed(micros, c.request.started) >= RequestAssemblyTimeout
      BY <2>3 DEF RequestEnds, RequestStands, Quiet
    <3>4. /\ Recovered + Elapsed(micros, c.request.last) <= now
          /\ Recovered + Elapsed(micros, c.request.started) <= now
          /\ Elapsed(micros, c.request.last) \in Nat
          /\ Elapsed(micros, c.request.started) \in Nat
      BY <1>1, <1>3, <3>3, SinceElapsed DEF BusyCore
    <3>5. Recovered + UnknownFrameGap <= now
      BY <1>1, <3>3, <3>4, Constants
    <3>. HIDE DEF d
    <3>6. BusyCore(d)
      BY <2>1, <3>2, <3>5 DEF BusyCore, InTransaction
    <3>. QED  BY <3>2, <3>6 DEF d
  <2>4. CASE RequestEnds(c.request, micros) /\ ~RequestStands(c.request)
    <3>1. d = CoreWith(c, "IDLE", Cleared, Cleared)
      BY <1>1, <1>3, <2>4, TickRequestDoes
    <3>. QED  BY <1>2, <2>1, <3>1
  <2>. QED  BY <2>2, <2>3, <2>4
<1>4. CASE c.state = "WAIT_RESPONSE"
  <2>1. ~ResponseEnds(c.response, micros)
    BY <1>4, NoSilence DEF BusyCore
  <2>2. CASE WaitEnds(c, micros)
    <3>1. d = Recovering(c, micros)
      BY <1>1, <1>4, <2>1, <2>2, TickResponseDoes
    <3>2. d.state = "RECOVERY" /\ d.recovery_started = micros
      BY <3>1, RecoveringFields
    <3>3. Elapsed(micros, forwarded % Clock) >= ResponseTimeout
      BY <1>4, <2>2 DEF BusyCore, WaitEnds
    <3>4. Elapsed(micros, forwarded % Clock) = now - forwarded
      BY FlowTypes, ElapsedReal DEF micros
    <3>5. forwarded + ResponseTimeout <= now
      BY <1>1, <3>3, <3>4, Constants
    <3>6. Since(micros, forwarded + ResponseTimeout)
      BY <1>1, <3>5, BusyTimes
    <3>. HIDE DEF d
    <3>7. BusyCore(d)
      BY <3>2, <3>6 DEF BusyCore, InTransaction
    <3>. QED  BY <3>2, <3>7 DEF d
  <2>3. CASE ~WaitEnds(c, micros)
    BY <1>1, <1>4, <2>1, <2>3, TickResponseDoes
  <2>. QED  BY <2>2, <2>3
<1>5. CASE c.state = "RECOVERY"
  <2>1. CASE Elapsed(micros, c.recovery_started) >= ResponseRecovery
    <3>1. d = CoreWith(c, "IDLE", Cleared, Cleared)
      BY <1>1, <1>5, <2>1, TickRecoveryDoes
    <3>2. /\ forwarded + ResponseTimeout + Elapsed(micros, c.recovery_started) <= now
          /\ Elapsed(micros, c.recovery_started) \in Nat
      BY <1>1, <1>5, SinceElapsed DEF BusyCore
    <3>3. Recovered <= now
      BY <1>1, <2>1, <3>2, Constants
    <3>. QED  BY <1>2, <3>1, <3>3
  <2>2. CASE ~(Elapsed(micros, c.recovery_started) >= ResponseRecovery)
    BY <1>1, <1>5, <2>2, TickRecoveryDoes
  <2>. QED  BY <2>1, <2>2
<1>6. CASE c.state \notin {"RECEIVE_REQUEST", "WAIT_RESPONSE", "RECOVERY"}
  BY <1>6, TickElse
<1>. QED  BY <1>3, <1>4, <1>5, <1>6

LEMMA BusyHostByte ==
  ASSUME Flow, NEW c, Good(c), BusyCore(c), NEW b \in Byte, HostByte(b)
  PROVE  BusyCore(OnHostByte(c, b, micros))
<1> DEFINE f == OnHostByte(c, b, micros)
           r == Kept(c, micros)
           a == Longer(r, b, micros)
<1>1. micros \in Time /\ Recovered \in Nat /\ c \in Core
  BY BusyTimes DEF Good, CoreTyped
<1>2. CASE c.state \notin {"IDLE", "RECEIVE_REQUEST"}
  BY <1>2 DEF OnHostByte
<1>3. CASE c.state \in {"IDLE", "RECEIVE_REQUEST"}
  <2>1. Recovered <= now /\ Since(micros, Recovered)
    BY <1>1, <1>3, BusyTimes DEF BusyCore
  <2>2. CASE \E q \in Assembly :
               /\ q.discarding /\ q.data = <<>>
               /\ f = CoreWith(c, "RECEIVE_REQUEST", q, c.response)
    <3>1. f.state = "RECEIVE_REQUEST" /\ f.request.discarding
      BY <2>2, WithFields
    <3>. HIDE DEF f
    <3>2. BusyCore(f)
      BY <2>1, <3>1 DEF BusyCore, InTransaction
    <3>. QED  BY <3>2 DEF f
  <2>3. CASE /\ ~Refused(r, b, micros)
             /\ f = CoreWith(c, IF RequestComplete(a) THEN "SEND_REQUEST" ELSE "RECEIVE_REQUEST",
                             a, c.response)
    <3>1. /\ f.state = IF RequestComplete(a) THEN "SEND_REQUEST" ELSE "RECEIVE_REQUEST"
          /\ f.request = a
      BY <2>3, WithFields
    <3>2. a.started = r.started /\ a.last = micros
      BY DEF Longer
    <3>3. ~r.discarding
      BY <2>3 DEF Refused
    <3>4. r = Started(micros) \/ (c.state # "IDLE" /\ r = c.request)
      BY <1>1, KeptFields
    <3>. HIDE DEF f, a, r
    <3>5. Since(r.started, Recovered)
      <4>1. CASE r = Started(micros)
        BY <1>1, <2>1, <4>1, StartedFields
      <4>2. CASE c.state # "IDLE" /\ r = c.request
        BY <1>3, <3>3, <4>2 DEF BusyCore
      <4>. QED  BY <3>4, <4>1, <4>2
    <3>6. RequestComplete(a) => a.kind # "UNKNOWN"
      BY DEF RequestComplete
    <3>7. BusyCore(f)
      BY <2>1, <3>1, <3>2, <3>5, <3>6 DEF BusyCore, InTransaction
    <3>. QED  BY <3>7 DEF f
  <2>. QED  BY <1>1, <1>3, <2>2, <2>3, HostByteTakes
<1>. QED  BY <1>2, <1>3

(* A byte of the line keeps the core in step, and the response that it     *)
(* completes is as long as the answer.                                     *)
LEMMA LineInStep ==
  ASSUME NEW c, Good(c), c.state = "WAIT_RESPONSE", Named(c.request),
         NEW b \in Byte, LineByte(b), NEW t \in Time, NEW n \in Nat, NEW m \in Nat,
         InStep(c, n), Answered(c.response) => ~Truncated(c.response, t),
         \/ b.frame = 0 /\ m = n
         \/ /\ b.frame # 0 /\ m = n + 1
            /\ m = 1 => b.code = "ADDRESS"
            /\ m = 2 => b.code = slave.code
  PROVE  LET f == OnRs485Byte(c, b, t)
         IN  /\ InStep(f, m)
             /\ f.state = "SEND_RESPONSE" => Len(f.response.data) = Length(slave.code)
<1> DEFINE f == OnRs485Byte(c, b, t)
           r == KeptResponse(c, t)
           a == LongerResponse(c, r, b, t)
<1>. SUFFICES /\ InStep(f, m)
              /\ f.state = "SEND_RESPONSE" => Len(f.response.data) = Length(slave.code)
  OBVIOUS
<1>1. CASE c.response.discarding
  <2>1. f = c
    BY <1>1 DEF OnRs485Byte
  <2>. QED  BY <1>1, <2>1 DEF InStep
<1>2. CASE ~c.response.discarding
  <2>1. CASE \E q \in Assembly :
               /\ q.discarding /\ q.data = <<>>
               /\ f = CoreWith(c, "WAIT_RESPONSE", c.request, q)
    BY <2>1, WithFields DEF InStep
  <2>2. CASE /\ ~Mismatched(c, r, b)
             /\ f = CoreWith(c, IF ResponseComplete(a) THEN "SEND_RESPONSE" ELSE "WAIT_RESPONSE",
                             c.request, a)
    <3>1. /\ f.response = a
          /\ f.state = IF ResponseComplete(a) THEN "SEND_RESPONSE" ELSE "WAIT_RESPONSE"
      BY <2>2, WithFields
    <3>2. r \in Assembly /\ ((r = Cleared /\ Truncated(c.response, t)) \/ r = c.response)
      BY <1>2, KeptResponseFields DEF KeptResponse
    <3>3. /\ a.data = Append(r.data, b)
          /\ a.function = IF Len(r.data) = 1 THEN b.code ELSE r.function
      BY DEF LongerResponse
    <3>4. r.data \in Seq(Byte) /\ Len(r.data) \in Nat
      BY <3>2, AssemblyFields
    <3>5. Begun(c.response, n)
      BY <1>2 DEF InStep
    <3>6. Len(r.data) = 1 => b.code # "ADDRESS"
      <4>. HAVE Len(r.data) = 1
      <4>1. AnswerKind(c.request.function, b.code) # "MISMATCH"
        BY <2>2 DEF Mismatched, ResponseKind
      <4>2. b.code \in {Exception, c.request.function}
        BY <4>1 DEF AnswerKind
      <4>. QED  BY <4>2, FunctionNamed DEF InTransaction
    <3>7. b.frame = 0 => b.code = "ADDRESS"
      BY DEF LineByte
    <3>8. r = Cleared => n = 0 \/ r = c.response
      BY <3>2, <3>5 DEF Begun
    <3>9. Len(c.response.data) >= 2 => Answered(c.response)
      BY AnsweredAll DEF InTransaction
    <3>19. Len(r.data) = 0 \/ r = c.response
      <4>1. Len(Cleared.data) = 0
        BY EmptyOrderly
      <4>. HIDE DEF r
      <4>. QED  BY ONLY <3>2, <4>1
    <3>. HIDE DEF a, f, r
    <3>10. /\ Len(a.data) = Len(r.data) + 1 /\ a.data[Len(r.data) + 1] = b
           /\ \A k \in 1 .. Len(r.data) : a.data[k] = r.data[k]
      BY <3>3, <3>4, AppendProperties
    <3>11. b.frame # 0 => Answered(a)
      <4>1. Len(r.data) + 1 \in 1 .. Len(a.data)
        BY <3>4, <3>10
      <4>. QED  BY <3>10, <4>1 DEF Answered
    <3>12. Answered(r) => Answered(a)
      <4>. HAVE Answered(r)
      <4>1. PICK k \in 1 .. Len(r.data) : r.data[k].frame # 0
        BY DEF Answered
      <4>2. k \in 1 .. Len(a.data) /\ a.data[k].frame # 0
        BY <3>4, <3>10, <4>1
      <4>. QED  BY <4>2 DEF Answered
    <3>13. /\ Len(a.data) = 1 <=> Len(r.data) = 0
           /\ Len(a.data) >= 2 <=> Len(r.data) >= 1
      BY <3>4, <3>10
    <3>14. Len(r.data) = 0 => ~Answered(r)
      BY DEF Answered
    <3>15. CASE Len(r.data) = 0
      <4>1. n = 0
        BY <3>2, <3>5, <3>8, <3>14, <3>15 DEF Begun
      <4>. QED  BY <3>1, <3>11, <3>13, <3>15, <4>1, Lengths DEF Begun, InStep, ResponseComplete
    <3>16. CASE Len(r.data) = 1
      <4>1. r = c.response
        BY <3>16, <3>19
      <4>2. b.frame # 0 /\ n <= 1
        BY <3>5, <3>6, <3>7, <3>16, <4>1 DEF Begun
      <4>3. m = 2
        BY <3>6, <3>16, <4>2
      <4>4. a.function = slave.code /\ Answered(a) /\ Len(a.data) = 2
        BY <3>3, <3>10, <3>11, <3>16, <4>2, <4>3
      <4>. QED  BY <3>1, <4>4, Lengths DEF Begun, InStep, ResponseComplete
    <3>17. CASE Len(r.data) >= 2
      <4>1. r = c.response
        BY <3>4, <3>17, <3>19
      <4>2. a.function = slave.code /\ Answered(a)
        BY <3>3, <3>5, <3>9, <3>12, <3>17, <4>1 DEF Begun
      <4>3. Len(a.data) # 1 /\ Len(a.data) >= 2
        BY <3>4, <3>10, <3>17
      <4>. QED  BY <3>1, <4>2, <4>3 DEF Begun, InStep, ResponseComplete
    <3>18. Len(r.data) = 0 \/ Len(r.data) = 1 \/ Len(r.data) >= 2
      <4>1. \A x \in Nat : x = 0 \/ x = 1 \/ x >= 2
        OBVIOUS
      <4>2. Len(r.data) \in Nat
        BY <3>4
      <4>. QED  BY ONLY <4>1, <4>2
    <3>. QED  BY ONLY <3>15, <3>16, <3>17, <3>18
  <2>. QED  BY <1>2, <2>1, <2>2, Rs485ByteTakes
<1>. QED  BY <1>1, <1>2

LEMMA BusyLineByte ==
  ASSUME Flow, NEW c, Good(c), BusyCore(c), Named(c.request), NEW b \in Byte, LineByte(b),
         b.frame # 0 /\ c.state = "WAIT_RESPONSE" => slave.sent > 0,
         c.state = "WAIT_RESPONSE" /\ OnRs485Byte(c, b, micros).state = "SEND_RESPONSE" =>
           Len(OnRs485Byte(c, b, micros).response.data) = Length(slave.code)
  PROVE  BusyCore(OnRs485Byte(c, b, micros))
<1> DEFINE f == OnRs485Byte(c, b, micros)
<1>1. micros \in Time
  BY BusyTimes
<1>2. CASE c.state # "WAIT_RESPONSE"
  BY <1>2 DEF OnRs485Byte
<1>3. CASE c.state = "WAIT_RESPONSE"
  <2>1. /\ InTransaction(f) /\ f.request = c.request /\ f.wait_started = c.wait_started
        /\ f.state = "SEND_RESPONSE" => Len(f.response.data) = Length(slave.code)
        /\ \/ f.response.data = <<>>
           \/ \A i \in 1 .. Len(f.response.data) :
                \/ f.response.data[i] = b
                \/ \E j \in 1 .. Len(c.response.data) :
                     f.response.data[i] = c.response.data[j]
    BY <1>1, <1>3, LineByteDoes
  <2>2. Good(f)
    BY <1>1, GoodRs485Byte
  <2>. HIDE DEF f
  <2>3. Answered(f.response) => slave.sent > 0
    <3>1. ASSUME NEW i \in 1 .. Len(f.response.data), f.response.data[i].frame # 0
          PROVE  slave.sent > 0
      <4>1. f.response.data # <<>>
        <5>1. Len(<<>>) = 0
          OBVIOUS
        <5>. QED  BY <3>1, <5>1
      <4>2. CASE f.response.data[i] = b
        BY <1>3, <3>1, <4>2
      <4>3. CASE \E j \in 1 .. Len(c.response.data) : f.response.data[i] = c.response.data[j]
        <5>1. Answered(c.response)
          BY <3>1, <4>3 DEF Answered
        <5>. QED  BY <1>3, <5>1 DEF BusyCore
      <4>. QED  BY <2>1, <3>1, <4>1, <4>2, <4>3
    <3>. QED  BY <3>1 DEF Answered
  <2>4. f.state = "SEND_RESPONSE" => slave.sent > 0
    <3>1. f.state = "SEND_RESPONSE" => Len(f.response.data) >= 2
      BY <2>1, Lengths
    <3>. QED  BY <2>1, <2>2, <2>3, <3>1, AnsweredAll
  <2>5. slave.frame = c.request.data[1].frame /\ c.wait_started = forwarded % Clock
    BY <1>3 DEF BusyCore, InTransaction
  <2>6. BusyCore(f)
    BY <2>1, <2>3, <2>4, <2>5 DEF BusyCore, InTransaction
  <2>. QED  BY <2>6 DEF f
<1>. QED  BY <1>2, <1>3

(* After the first i events of the dispatch: an answer in the assembly is  *)
(* of this character's time, or nothing has come from the slave since.     *)
Heard(i) == IF NoSlave(arrivals, 1, i) THEN Before ELSE slave.sent

Fresh(c, i) ==
  /\ c.state = "WAIT_RESPONSE" => core.state = "WAIT_RESPONSE"
  /\ InStep(c, Heard(i))
  /\ c.state = "WAIT_RESPONSE" /\ Answered(c.response) =>
       \/ c.response.last = micros
       \/ c.response.last = (now - 1) % Clock /\ NoSlave(arrivals, 1, i)

BusyInv ==
  ~early /\ ~SlaveFree =>
    /\ SlaveBusy /\ BusyCore(core)
    /\ ~Transmits(core) => \A i \in 1 .. Len(arrivals) : arrivals[i].at = micros
    /\ core.state = "WAIT_RESPONSE" =>
         /\ Answered(core.response) =>
              core.response.last = (IF polled THEN now ELSE now - 1) % Clock
         /\ ~polled => (slave.sent > 0 <=>
                          \E i \in 1 .. Len(arrivals) : FromSlave(arrivals, i))
         /\ ~polled => \A i \in 1 .. Len(arrivals) : FromSlave(arrivals, i) =>
                         i = Len(arrivals) /\ LastByte(arrivals[i].byte)
         /\ InStep(core, IF polled THEN slave.sent ELSE Before)
    /\ core.state = "SEND_RESPONSE" => slave.sent > Length(slave.code) - sending
    /\ core.state = "SEND_REQUEST" =>
         /\ Recovered + Len(core.request.data) - sending <= now
         /\ core.request.kind = "UNKNOWN" =>
              Recovered + Len(core.request.data) - sending + UnknownFrameGap <= now

OwnInv == ~early => OwnCore(core) /\ OwnQueued(core)

LEMMA BusyEvent ==
  ASSUME Flow, SlaveBusy, NEW i \in 1 .. Len(arrivals), arrivals[i].at = micros,
         core.state = "WAIT_RESPONSE" /\ FromSlave(arrivals, i) =>
           slave.sent > 0 /\ NoSlave(arrivals, 1, i - 1) /\ LastByte(arrivals[i].byte),
         NEW c, Good(c), Named(c.request), BusyCore(c), Fresh(c, i - 1),
         Named(CoreTick(c, micros).request)
  PROVE  BusyCore(OnEvent(c, arrivals[i])) /\ Fresh(OnEvent(c, arrivals[i]), i)
<1> DEFINE e == arrivals[i]
           d == CoreTick(c, micros)
<1>1. e \in Arrival /\ Ordinary(e)
  BY FlowTypes, ElementOfSeq DEF Flow, StreamTyped
<1>2. e.byte \in Byte /\ micros \in Time /\ micros = now % Clock /\ i \in Nat
  BY <1>1, FlowTypes DEF Arrival, micros
<1>3. Recent(c)
  BY <1>2 DEF Fresh, Recent
<1>4. BusyCore(d) /\ (d.state = "WAIT_RESPONSE" => d = c)
  BY <1>3, BusyTick
<1>5. Good(d) /\ Named(d.request)
  BY <1>2, GoodTick
<1>6. Fresh(d, i - 1)
  BY <1>4 DEF Fresh, InStep
<1>. HIDE DEF d
<1>7. CASE e.from = "HOST"
  <2> DEFINE f == OnHostByte(d, e.byte, micros)
  <2>1. OnEvent(c, e) = f
    BY <1>7 DEF OnEvent, d
  <2>2. BusyCore(f)
    BY <1>1, <1>2, <1>4, <1>5, <1>7, BusyHostByte DEF Ordinary
  <2>3. f.state \in {"WAIT_RESPONSE", "SEND_RESPONSE"} => f = d
    BY <1>1, <1>2, <1>5, <1>7, HostKeepsResponses DEF Ordinary
  <2>4. NoSlave(arrivals, 1, i - 1) => NoSlave(arrivals, 1, i)
    BY <1>2, <1>7 DEF NoSlave, FromSlave
  <2>. HIDE DEF f
  <2>5. Heard(i) = Heard(i - 1)
    BY <1>2, <1>7 DEF Heard, NoSlave, FromSlave
  <2>6. Fresh(f, i)
    BY <1>6, <2>3, <2>4, <2>5 DEF Fresh, InStep
  <2>. QED  BY <2>1, <2>2, <2>6
<1>8. CASE e.from # "HOST"
  <2> DEFINE f == OnRs485Byte(d, e.byte, micros)
  <2>1. OnEvent(c, e) = f
    BY <1>8 DEF OnEvent, d
  <2>2. e.byte.frame # 0 /\ d.state = "WAIT_RESPONSE" => slave.sent > 0
    BY <1>6, <1>8 DEF Fresh, FromSlave
  <2>5. ASSUME d.state = "WAIT_RESPONSE"
        PROVE  /\ InStep(f, Heard(i))
               /\ f.state = "SEND_RESPONSE" => Len(f.response.data) = Length(slave.code)
    <3>1. slave.sent \in Nat /\ Before \in Nat
      BY FlowTypes, SlaveFields DEF Before
    <3>2. Heard(i - 1) \in Nat /\ Heard(i) \in Nat /\ InStep(d, Heard(i - 1))
      BY <1>6, <3>1 DEF Heard, Fresh
    <3>3. LineByte(e.byte)
      BY <1>1, <1>8 DEF Ordinary
    <3>4. \/ e.byte.frame = 0 /\ Heard(i) = Heard(i - 1)
          \/ /\ e.byte.frame # 0 /\ Heard(i) = Heard(i - 1) + 1
             /\ Heard(i) = 1 => e.byte.code = "ADDRESS"
             /\ Heard(i) = 2 => e.byte.code = slave.code
      <4>1. CASE e.byte.frame = 0
        BY <1>2, <4>1 DEF Heard, NoSlave, FromSlave
      <4>2. CASE e.byte.frame # 0
        <5>1. FromSlave(arrivals, i) /\ core.state = "WAIT_RESPONSE"
          BY <1>6, <1>8, <2>5, <4>2 DEF FromSlave, Fresh
        <5>2. slave.sent > 0 /\ NoSlave(arrivals, 1, i - 1) /\ LastByte(e.byte)
          BY <5>1
        <5>3. ~NoSlave(arrivals, 1, i)
          BY <5>1, <1>2 DEF NoSlave
        <5>4. Heard(i) = slave.sent /\ Heard(i - 1) = slave.sent - 1
          BY <3>1, <5>2, <5>3 DEF Heard, Before
        <5>. QED  BY <3>1, <4>2, <5>2, <5>4 DEF LastByte
      <4>. QED  BY <4>1, <4>2
    <3>5. Answered(d.response) => ~Truncated(d.response, micros)
      <4>. HAVE Answered(d.response)
      <4>1. d = c /\ slave.sent > 0
        BY <1>4, <2>5 DEF BusyCore
      <4>2. Elapsed(micros, d.response.last) \in {0, 1}
        BY <1>3, <1>5, <2>5, <4>1, RecentElapsed
      <4>. QED  BY <4>2, Constants DEF Truncated, GapBefore
    <3>. HIDE DEF e, f
    <3>. QED  BY <1>2, <1>5, <2>5, <3>2, <3>3, <3>4, <3>5, LineInStep DEF e, f
  <2>3. BusyCore(f)
    BY <1>1, <1>2, <1>4, <1>5, <1>8, <2>2, <2>5, BusyLineByte DEF Ordinary
  <2>4. Fresh(f, i)
    <3>1. CASE d.state # "WAIT_RESPONSE"
      <4>1. f = d
        BY <3>1 DEF OnRs485Byte
      <4>. QED  BY <3>1, <4>1 DEF Fresh, InStep
    <3>2. CASE d.state = "WAIT_RESPONSE"
      <4>1. f.response.data = <<>> \/ f.response.last = micros
        BY <1>2, <1>5, <3>2, LineByteDoes
      <4>2. Len(<<>>) = 0
        OBVIOUS
      <4>. HIDE DEF f
      <4>3. Answered(f.response) => f.response.last = micros
        BY <4>1, <4>2 DEF Answered
      <4>. QED  BY <1>6, <2>5, <3>2, <4>3 DEF Fresh
    <3>. QED  BY <3>1, <3>2
  <2>. QED  BY <2>1, <2>3, <2>4
<1>. QED  BY <1>7, <1>8

LEMMA FedBusy ==
  ASSUME Flow, HostInv, BusyInv, ~early, ~SlaveFree, ~Transmits(core), ~polled
  PROVE  /\ BusyCore(Fed(core, arrivals)) /\ Fresh(Fed(core, arrivals), Len(arrivals))
         /\ Named(Fed(core, arrivals).request)
<1> DEFINE P(i) == {x \in Core : /\ Good(x) /\ RequestGoesOn(x, i, arrivals, host, now)
                                 /\ BusyCore(x) /\ Fresh(x, i)}
           S == [i \in 0 .. Len(arrivals) |-> P(i)]
<1>1. /\ arrivals \in Seq(Arrival) /\ Len(arrivals) \in Nat /\ micros \in Time
      /\ \A i \in 1 .. Len(arrivals) : arrivals[i] \in Arrival /\ Ordinary(arrivals[i])
  BY FlowTypes, ElementOfSeq DEF Flow, StreamTyped
<1>2. /\ SlaveBusy /\ BusyCore(core)
      /\ \A i \in 1 .. Len(arrivals) : arrivals[i].at = micros
      /\ \A i \in 1 .. Len(arrivals) :
           core.state = "WAIT_RESPONSE" /\ FromSlave(arrivals, i) =>
             /\ slave.sent > 0 /\ NoSlave(arrivals, 1, i - 1)
             /\ LastByte(arrivals[i].byte)
      /\ InStep(core, Before)
      /\ core.state = "WAIT_RESPONSE" /\ Answered(core.response) =>
           core.response.last = (now - 1) % Clock
  <2>1. ASSUME NEW i \in 1 .. Len(arrivals), core.state = "WAIT_RESPONSE",
               FromSlave(arrivals, i)
        PROVE  NoSlave(arrivals, 1, i - 1)
    <3>1. \A k \in 1 .. Len(arrivals) : FromSlave(arrivals, k) => k = Len(arrivals)
      BY <2>1 DEF BusyInv
    <3>. QED  BY <1>1, <2>1, <3>1 DEF NoSlave
  <2>. QED  BY <2>1 DEF BusyInv, InStep
<1>3. core \in S[0]
  <2>0. NoSlave(arrivals, 1, 0) /\ Heard(0) = Before
    BY DEF NoSlave, Heard
  <2>1. Fresh(core, 0)
    BY <1>2, <2>0 DEF Fresh
  <2>2. core \in P(0)
    BY <1>2, <2>1, FlowTypes DEF Flow, HostInv
  <2>. QED  BY <1>1, <2>2
<1>4. ASSUME NEW i \in 1 .. Len(arrivals), NEW x \in S[i - 1]
      PROVE  OnEvent(x, arrivals[i]) \in S[i]
  <2>1. S[i - 1] = P(i - 1) /\ S[i] = P(i)
    BY <1>1
  <2>2. /\ Good(x) /\ RequestGoesOn(x, i - 1, arrivals, host, now)
        /\ BusyCore(x) /\ Fresh(x, i - 1)
    BY <2>1
  <2>3. Good(OnEvent(x, arrivals[i]))
    BY <1>1, <2>2, GoodEvent
  <2>4. RequestGoesOn(OnEvent(x, arrivals[i]), i, arrivals, host, now)
    BY <2>2, EventGoesOn DEF HostInv
  <2>5. Named(x.request)
    BY <2>2 DEF RequestGoesOn
  <2>6. RequestGoesOn(CoreTick(x, micros), i - 1, arrivals, host, now)
    BY <1>1, <2>2, TickRequests DEF RequestGoesOn
  <2>7. Named(CoreTick(x, micros).request)
    BY <2>6 DEF RequestGoesOn
  <2>8. BusyCore(OnEvent(x, arrivals[i])) /\ Fresh(OnEvent(x, arrivals[i]), i)
    BY <1>2, <2>2, <2>5, <2>7, BusyEvent
  <2>. QED  BY <2>1, <2>3, <2>4, <2>8 DEF Good, CoreTyped
<1>. HIDE DEF S
<1>5. Fed(core, arrivals) \in S[Len(arrivals)]
  BY <1>1, <1>3, <1>4, FedKeeps
<1>. QED  BY <1>1, <1>5 DEF S, RequestGoesOn

LEMMA BusyStays ==
  ASSUME UNCHANGED <<now, slave, forwarded>>, BusyCore(core')
  PROVE  BusyCore(core)'
  BY DEF BusyCore, Since, Recovered

LEMMA DispatchBusy ==
  ASSUME Flow, HostInv, BusyInv, Dispatch
  PROVE  BusyInv'
<1> DEFINE f == Fed(core, arrivals)
<1>1. /\ ~Transmits(core) /\ ~polled /\ core' = CoreTick(f, micros) /\ arrivals' = <<>>
      /\ polled' = TRUE /\ UNCHANGED <<now, slave, forwarded, early>>
      /\ sending' = IF Transmits(core') THEN Len(Outgoing(core')) ELSE 0
  BY DEF Dispatch
<1>. SUFFICES ASSUME ~early, ~SlaveFree PROVE BusyInv'
  BY <1>1 DEF BusyInv, SlaveFree
<1>2. BusyCore(f) /\ Fresh(f, Len(arrivals)) /\ Named(f.request) /\ Good(f)
  BY <1>1, FedBusy, GoodFed DEF Flow, StreamTyped
<1>3. SlaveBusy
  BY DEF BusyInv
<1>. HIDE DEF f
<1>4. Recent(f)
  BY <1>2 DEF Fresh, Recent, micros
<1>5. BusyCore(core') /\ (core'.state = "WAIT_RESPONSE" => core' = f)
  BY <1>1, <1>2, <1>3, <1>4, BusyTick
<1>6. core'.state = "WAIT_RESPONSE" /\ Answered(core'.response) =>
        core'.response.last = now % Clock
  <2>. HAVE core'.state = "WAIT_RESPONSE" /\ Answered(core'.response)
  <2>1. core.state = "WAIT_RESPONSE" /\ slave.sent > 0
    BY <1>2, <1>5 DEF Fresh, BusyCore
  <2>2. ~NoSlave(arrivals, 1, Len(arrivals))
    BY <1>1, <2>1 DEF BusyInv, NoSlave
  <2>. QED  BY <1>2, <1>5, <2>2 DEF Fresh, micros
<1>7. core' \in Core /\ core'.request \in Assembly /\ Len(core'.request.data) \in Nat
  BY <1>1, <1>2, FlowTypes, GoodTick, CoreFields, AssemblyFields DEF Good, CoreTyped
<1>8. core'.state = "SEND_REQUEST" =>
        /\ Recovered + Len(core'.request.data) - sending' <= now
        /\ core'.request.kind = "UNKNOWN" =>
             Recovered + Len(core'.request.data) - sending' + UnknownFrameGap <= now
  <2>. HAVE core'.state = "SEND_REQUEST"
  <2>1. sending' = Len(core'.request.data)
    BY <1>1 DEF Transmits, Outgoing
  <2>2. Recovered <= now /\ Recovered \in Nat /\ now \in Nat
    BY <1>5, BusyTimes DEF BusyCore
  <2>3. core'.request.kind = "UNKNOWN" => Recovered + UnknownFrameGap <= now
    BY <1>5 DEF BusyCore
  <2>4. Recovered + Len(core'.request.data) - sending' = Recovered
    BY <1>7, <2>1, <2>2
  <2>. QED  BY <2>2, <2>3, <2>4
<1>9. core'.state = "SEND_RESPONSE" => slave.sent > Length(slave.code) - sending'
  <2>. HAVE core'.state = "SEND_RESPONSE"
  <2>1. sending' = Len(core'.response.data)
    BY <1>1 DEF Transmits, Outgoing
  <2>2. sending' = Length(slave.code) /\ slave.sent > 0
    BY <1>5, <2>1 DEF BusyCore
  <2>. QED  BY <2>2, Lengths
<1>17. core'.state = "WAIT_RESPONSE" => InStep(core', slave.sent)
  <2>. HAVE core'.state = "WAIT_RESPONSE"
  <2>1. core.state = "WAIT_RESPONSE" /\ InStep(f, Heard(Len(arrivals)))
    BY <1>2, <1>5 DEF Fresh
  <2>2. slave.sent > 0 <=> ~NoSlave(arrivals, 1, Len(arrivals))
    BY <1>1, <2>1 DEF BusyInv, NoSlave
  <2>3. slave.sent \in Nat
    BY FlowTypes, SlaveFields
  <2>4. Heard(Len(arrivals)) = slave.sent
    BY <2>2, <2>3 DEF Heard, Before
  <2>. QED  BY <1>5, <2>1, <2>4
<1>10. BusyCore(core)' /\ SlaveBusy' /\ Len(arrivals') = 0 /\ Recovered' = Recovered
  BY <1>1, <1>3, <1>5, BusyStays DEF SlaveBusy, Recovered
<1>11. core'.state = "WAIT_RESPONSE" /\ Answered(core'.response) =>
         core'.response.last = (IF polled' THEN now' ELSE now' - 1) % Clock
  BY <1>1, <1>6
<1>12. core'.state = "SEND_REQUEST" =>
         /\ Recovered' + Len(core'.request.data) - sending' <= now'
         /\ core'.request.kind = "UNKNOWN" =>
              Recovered' + Len(core'.request.data) - sending' + UnknownFrameGap <= now'
  BY <1>1, <1>8, <1>10
<1>13. core'.state = "SEND_RESPONSE" => slave'.sent > Length(slave'.code) - sending'
  BY <1>1, <1>9
<1>14. \A i \in 1 .. Len(arrivals') : arrivals'[i].at = micros'
  BY <1>10
<1>15. Answered(core'.response) <=> Answered(core.response)'
  BY DEF Answered
<1>16. (core.state = "WAIT_RESPONSE" =>
          /\ Answered(core.response) =>
               core.response.last = (IF polled THEN now ELSE now - 1) % Clock
          /\ ~polled => (slave.sent > 0 <=>
                           \E i \in 1 .. Len(arrivals) : FromSlave(arrivals, i))
          /\ ~polled => \A i \in 1 .. Len(arrivals) : FromSlave(arrivals, i) =>
                          i = Len(arrivals) /\ LastByte(arrivals[i].byte)
          /\ InStep(core, IF polled THEN slave.sent ELSE Before))'
  BY <1>1, <1>11, <1>15, <1>17 DEF InStep, Begun, Answered
<1>. QED  BY <1>10, <1>12, <1>13, <1>14, <1>16 DEF BusyInv

LEMMA DispatchOwn ==
  ASSUME Flow, OwnInv, Dispatch
  PROVE  OwnInv'
<1> DEFINE f == Fed(core, arrivals)
<1>1. core' = CoreTick(f, micros) /\ arrivals' = <<>> /\ UNCHANGED early
  BY DEF Dispatch
<1>2. ASSUME ~early PROVE OwnCore(core')
  <2>1. OwnCore(f) /\ OwnQueued(f) /\ Good(f)
    BY <1>2, FedOwn, GoodFed DEF OwnInv, Flow, StreamTyped
  <2>. QED  BY <1>1, <2>1, FlowTypes, OwnTick
<1>3. OwnQueued(core)'
  <2>1. Len(arrivals') = 0
    BY <1>1
  <2>. QED  BY <2>1 DEF OwnQueued
<1>. QED  BY <1>1, <1>2, <1>3 DEF OwnInv, OwnCore

(* When another request is out, the slave has answered the one before, or  *)
(* will not answer it: the last byte of its answer would have come while   *)
(* the request was being transmitted. A request of an unknown function may *)
(* be shorter than one of a known, but it ends with a silence.             *)
LEMMA SlaveDone ==
  ASSUME Flow, BusyInv, ~early, Transmits(core), sending = 0, SlowestAnswerEnds
  PROVE  SlaveFree
<1>. SUFFICES ASSUME ~SlaveFree PROVE FALSE
  OBVIOUS
<1> DEFINE length == Length(slave.code)
<1>1. /\ slave.age \in 0 .. MaxDelay /\ slave.sent \in Nat
      /\ slave.sent # length /\ now - forwarded = slave.age + slave.sent
      /\ slave.sent <= length /\ length \in Nat /\ length <= AnswerLength
  BY FlowTypes, SlaveFields, Lengths DEF BusyInv, SlaveBusy, Flow, SlaveTyped
<1>2. now \in Nat /\ forwarded \in Nat /\ Recovered = forwarded + ResponseTimeout + ResponseRecovery
  BY BusyTimes
<1>3. CASE core.state = "SEND_RESPONSE"
  <2>1. slave.sent > length - sending
    BY <1>3 DEF BusyInv
  <2>. HIDE DEF length
  <2>. QED  BY <1>1, <2>1, Constants
<1>4. CASE core.state = "SEND_REQUEST"
  <2> DEFINE n == Len(core.request.data)
  <2>1. Ready(core.request)
    BY <1>4 DEF Flow, Good, CoreOrderly
  <2>2. core.request \in Assembly
    BY FlowTypes, CoreFields
  <2>3. n \in Nat
    BY <2>2, AssemblyFields
  <2>4. /\ Recovered + n - sending <= now
        /\ core.request.kind = "UNKNOWN" => Recovered + n - sending + UnknownFrameGap <= now
    BY <1>4 DEF BusyInv
  <2>5. n = RequestLength \/ (core.request.kind = "UNKNOWN" /\ n >= MinAduBytes)
    BY <2>1 DEF Ready, RequestComplete
  <2>8. slave.age + slave.sent < MaxDelay + AnswerLength
    <3>. HIDE DEF length
    <3>. QED  BY <1>1, Constants
  <2>. HIDE DEF n, length
  <2>6. CASE n = RequestLength
    BY <1>1, <1>2, <2>4, <2>6, <2>8, Constants DEF SlowestAnswerEnds
  <2>7. CASE core.request.kind = "UNKNOWN" /\ n >= MinAduBytes
    BY <1>1, <1>2, <2>3, <2>4, <2>7, <2>8, Constants DEF SlowestAnswerEnds
  <2>. QED  BY <2>5, <2>6, <2>7
<1>. QED  BY <1>3, <1>4 DEF Transmits

LEMMA TransmittedOwn ==
  ASSUME Flow, SlaveInv, BusyInv, OwnInv, Transmitted, SlowestAnswerEnds
  PROVE  OwnInv' /\ BusyInv'
<1>1. /\ Transmits(core) /\ sending = 0 /\ core' = TxComplete(core, micros)
      /\ UNCHANGED <<now, arrivals>> /\ polled' = FALSE /\ micros \in Time
  BY FlowTypes DEF Transmitted
<1>2. CASE core.state # "SEND_REQUEST"
  <2>1. core'.state = "IDLE" /\ UNCHANGED <<slave, early>>
    BY <1>1, <1>2, FlowTypes, TxCompleteDoes, WithFields DEF Flow, Transmitted
  <2>2. early \/ SlaveFree
    BY <1>1, SlaveDone
  <2>. QED  BY <2>1, <2>2 DEF OwnInv, OwnCore, OwnQueued, InTransaction, BusyInv, SlaveFree
<1>3. CASE core.state = "SEND_REQUEST"
  <2>1. /\ core'.state = "WAIT_RESPONSE" /\ core'.request = core.request
        /\ core'.response.data = <<>> /\ core'.wait_started = micros
    BY <1>1, <1>3, FlowTypes, TxCompleteDoes, EmptyOrderly DEF Flow
  <2>2. NoSlave(arrivals, 1, Len(arrivals))
    BY <1>3 DEF SlaveInv
  <2>3. \A i \in 1 .. Len(arrivals') : ~FromSlave(arrivals', i)
    BY <1>1, <2>2 DEF NoSlave
  <2>4. Len(core'.response.data) = 0
    BY <2>1
  <2>5. OwnCore(core') /\ OwnQueued(core)'
    BY <2>3, <2>4 DEF OwnCore, OwnQueued
  <2>6. OwnInv'
    BY <2>5 DEF OwnInv, OwnCore
  <2>7. ASSUME ~early', ~SlaveFree'
        PROVE  /\ slave'.frame = core.request.data[1].frame /\ slave'.frame # 0
               /\ slave'.sent = 0 /\ slave'.age = 0
    <3>1. SlaveFree
      BY <1>1, <1>3, <2>7, SlaveDone DEF Transmitted
    <3>2. ~UNCHANGED slave
      BY <2>7, <3>1 DEF SlaveFree
    <3>3. PICK code, rest : slave' = [frame |-> core.request.data[1].frame, code |-> code,
                                      rest |-> rest, sent |-> 0, age |-> 0]
      BY <3>2 DEF Transmitted
    <3>. QED  BY <2>7, <3>3 DEF SlaveFree
  <2>8. ASSUME ~early', ~SlaveFree'
        PROVE  \A i \in 1 .. Len(arrivals') : arrivals'[i].at = micros'
    BY <1>1, <1>3, <2>8 DEF Transmitted, micros
  <2>9. forwarded' = now /\ now \in Nat /\ now' = now
    BY <1>1, <1>3, FlowTypes DEF Transmitted
  <2>10. ~Answered(core'.response)
    BY <2>4 DEF Answered
  <2>11. ASSUME ~early', ~SlaveFree'
         PROVE  BusyCore(core)' /\ SlaveBusy'
    <3>1. SlaveBusy'
      BY <2>7, <2>9, <2>11, Lengths DEF SlaveBusy
    <3>2. BusyCore(core)'
      BY <2>1, <2>7, <2>9, <2>10, <2>11 DEF BusyCore, micros, Answered
    <3>. QED  BY <3>1, <3>2
  <2>12. ASSUME ~early', ~SlaveFree'
         PROVE  ~polled' => (slave'.sent > 0 <=>
                               \E i \in 1 .. Len(arrivals') : FromSlave(arrivals', i))
    BY <2>3, <2>7, <2>12
  <2>13. ~Answered(core.response)'
    BY <2>4 DEF Answered
  <2>15. ASSUME ~early', ~SlaveFree'
         PROVE  InStep(core, IF polled THEN slave.sent ELSE Before)'
    <3>1. Before' = 0
      BY <2>7, <2>15 DEF Before
    <3>. QED  BY <1>1, <2>4, <3>1 DEF InStep, Begun
  <2>14. BusyInv'
    BY <2>1, <2>3, <2>8, <2>11, <2>12, <2>13, <2>15 DEF BusyInv
  <2>. QED  BY <2>6, <2>14
<1>. QED  BY <1>2, <1>3

LEMMA SinceLater ==
  ASSUME NEW t, NEW s, Since(t, s), now \in Nat, now' = now + 1
  PROVE  \E v \in StartTime .. now' : t = v % Clock /\ s <= v
<1>1. PICK v \in StartTime .. now : t = v % Clock /\ s <= v
  BY DEF Since
<1>2. v \in StartTime .. now'
  BY Constants
<1>. QED  BY <1>1, <1>2

(* A slave that is at work stays at its request until it is done.          *)
LEMMA SlaveWorks ==
  ASSUME Flow, Wait, ~SlaveFree'
  PROVE  /\ ~SlaveFree /\ slave'.frame = slave.frame /\ slave.frame # 0
         /\ slave'.code = slave.code /\ slave'.sent # Length(slave.code)
         /\ slave.sent \in Nat /\ slave'.sent \in Nat /\ slave.age \in Nat
         /\ slave'.age \in Nat
         /\ slave'.age + slave'.sent = slave.age + slave.sent + 1
         /\ \/ slave.sent = 0 /\ slave'.sent = 0
            \/ slave'.sent = slave.sent + 1
<1>1. /\ slave.sent \in Nat /\ slave.age \in Nat /\ slave'.sent \in Nat /\ slave'.age \in Nat
  BY FlowTypes, WaitDoes, SlaveFields
<1>2. slave' # Idle
  BY DEF SlaveFree, Idle
<1>3. SlaveSends /\ slave \in Slave
  BY FlowTypes DEF Wait
<1>6. slave'.sent # Length(slave'.code) /\ Length(slave.code) > 2
  BY Lengths DEF SlaveFree
<1>4. CASE /\ slave.frame # 0 /\ slave.sent = 0 /\ slave.age < MaxDelay
           /\ slave' = [frame |-> slave.frame, code |-> slave.code, rest |-> slave.rest,
                        sent |-> 0, age |-> slave.age + 1]
  <2>1. slave'.code = slave.code /\ slave'.sent = 0 /\ slave'.frame = slave.frame
    BY <1>4
  <2>. QED  BY <1>1, <1>4, <1>6, <2>1 DEF SlaveFree
<1>5. CASE /\ slave.frame # 0 /\ slave.sent # Length(slave.code)
           /\ slave' = [frame |-> slave.frame, code |-> slave.code, rest |-> slave.rest,
                        sent |-> slave.sent + 1, age |-> slave.age]
  <2>1. /\ slave'.code = slave.code /\ slave'.sent = slave.sent + 1
        /\ slave'.frame = slave.frame /\ slave'.age = slave.age
    BY <1>5
  <2>. QED  BY <1>1, <1>5, <1>6, <2>1 DEF SlaveFree
<1>. QED  BY <1>2, <1>3, <1>4, <1>5, SlaveSteps

LEMMA WaitOwn ==
  ASSUME Flow, BusyInv, OwnInv, Wait
  PROVE  OwnInv'
<1>1. UNCHANGED <<core, early>>
  BY DEF Wait
<1>. SUFFICES ASSUME ~early PROVE OwnCore(core)' /\ OwnQueued(core)'
  BY <1>1 DEF OwnInv
<1>2. OwnCore(core)'
  BY <1>1 DEF OwnInv, OwnCore, InTransaction
<1>3. ASSUME core.state = "WAIT_RESPONSE",
             NEW k \in 1 .. Len(arrivals'), FromSlave(arrivals', k)
      PROVE  arrivals'[k].byte.frame = core.request.data[1].frame
  <2>1. polled /\ Len(arrivals) = 0
    BY <1>3 DEF Wait, Transmits, Flow
  <2>2. SlaveHeard /\ k = Len(arrivals') /\ arrivals'[Len(arrivals')] = SlaveEvent
    BY <1>3, <2>1, QueuedSlaves
  <2>3. SlaveEvent.byte.frame = slave.frame
    BY <2>2, SlaveEventFields
  <2>4. ~SlaveFree
    <3>1. SlaveSends /\ slave \in Slave /\ slave.sent \in Nat
      BY FlowTypes, SlaveFields DEF Wait
    <3>2. slave'.sent > slave.sent
      BY <2>2 DEF SlaveHeard
    <3>3. slave' # Idle
      BY <3>1, <3>2 DEF Idle
    <3>4. slave.frame # 0 /\ slave.sent # Length(slave.code)
      BY <3>1, <3>2, <3>3, SlaveSteps, Constants
    <3>. QED  BY <3>4 DEF SlaveFree
  <2>5. slave.frame = core.request.data[1].frame
    BY <1>3, <2>4 DEF BusyInv, BusyCore, InTransaction
  <2>. QED  BY <2>2, <2>3, <2>5
<1>4. OwnQueued(core)'
  BY <1>1, <1>3 DEF OwnQueued
<1>. QED  BY <1>2, <1>4

LEMMA WaitBusy ==
  ASSUME Flow, BusyInv, Wait
  PROVE  BusyInv'
<1>1. /\ UNCHANGED <<core, early, forwarded>> /\ polled' = FALSE
      /\ now \in Nat /\ now' = now + 1 /\ forwarded \in Nat /\ Recovered' = Recovered
      /\ Recovered \in Nat
  BY FlowTypes, BusyTimes, WaitDoes DEF Wait, Recovered
<1>. SUFFICES ASSUME ~early, ~SlaveFree' PROVE BusyInv'
  BY <1>1 DEF BusyInv
<1>2. /\ ~SlaveFree /\ slave'.frame = slave.frame /\ slave.frame # 0
      /\ slave'.code = slave.code /\ slave'.sent # Length(slave.code)
      /\ slave.sent \in Nat /\ slave'.sent \in Nat /\ slave.age \in Nat /\ slave'.age \in Nat
      /\ slave'.age + slave'.sent = slave.age + slave.sent + 1
      /\ (slave.sent = 0 /\ slave'.sent = 0) \/ slave'.sent = slave.sent + 1
  BY SlaveWorks
<1>3. SlaveBusy /\ BusyCore(core)
  BY <1>2 DEF BusyInv
<1>4. SlaveBusy'
  BY <1>1, <1>2, <1>3 DEF SlaveBusy
<1>5. slave.sent > 0 => slave'.sent > 0
  BY <1>2
<1>6. BusyCore(core)'
  <2>1. core.state = "RECOVERY" =>
          Since(core.recovery_started, forwarded + ResponseTimeout)'
    <3>. HAVE core.state = "RECOVERY"
    <3>1. Since(core.recovery_started, forwarded + ResponseTimeout)
      BY <1>3 DEF BusyCore
    <3>. QED  BY <1>1, <3>1, SinceLater DEF Since
  <2>2. core.state = "RECEIVE_REQUEST" /\ ~core.request.discarding =>
          (Since(core.request.started, Recovered) /\ Since(core.request.last, Recovered))'
    <3>. HAVE core.state = "RECEIVE_REQUEST" /\ ~core.request.discarding
    <3>1. Since(core.request.started, Recovered) /\ Since(core.request.last, Recovered)
      BY <1>3 DEF BusyCore
    <3>. QED  BY <1>1, <3>1, SinceLater DEF Since
  <2>3. core.state \in {"IDLE", "RECEIVE_REQUEST", "SEND_REQUEST"} => Recovered' <= now'
    BY <1>1, <1>3 DEF BusyCore
  <2>4. core.state = "SEND_REQUEST" /\ core.request.kind = "UNKNOWN" =>
          Recovered' + UnknownFrameGap <= now'
    BY <1>1, <1>3, Constants DEF BusyCore
  <2>5. (InTransaction(core) => slave.frame = core.request.data[1].frame)'
    BY <1>1, <1>2, <1>3 DEF BusyCore, InTransaction
  <2>6. (core.state = "WAIT_RESPONSE" =>
           /\ core.wait_started = forwarded % Clock
           /\ Answered(core.response) => slave.sent > 0)'
    BY <1>1, <1>3, <1>5 DEF BusyCore, Answered
  <2>7. (core.state = "SEND_RESPONSE" =>
           Len(core.response.data) = Length(slave.code) /\ slave.sent > 0)'
    BY <1>1, <1>2, <1>3, <1>5 DEF BusyCore
  <2>. QED  BY <1>1, <2>1, <2>2, <2>3, <2>4, <2>5, <2>6, <2>7 DEF BusyCore
<1>7. ASSUME ~Transmits(core) PROVE polled /\ arrivals = <<>> /\ Len(arrivals) = 0
  BY <1>7 DEF Wait, Flow
<1>8. ASSUME ~Transmits(core), NEW i \in 1 .. Len(arrivals')
      PROVE  arrivals'[i].at = micros'
  <2>1. Len(arrivals) = 0 /\ Queued
    BY <1>7, <1>8, WaitDoes
  <2>2. host'.sent # 0 => HostEvent.at = micros'
    BY WaitDoes
  <2>3. (SlaveHeard => SlaveEvent.at = micros') /\ StrayEvent.at = micros'
    BY WaitDoes
  <2>4. CASE i \in HostBytes + 1 .. Len(arrivals')
    <3>1. arrivals'[i] = IF SlaveHeard THEN SlaveEvent ELSE StrayEvent
      BY <2>1, <2>4 DEF Queued, HostBytes
    <3>. QED  BY <2>3, <3>1
  <2>5. CASE i \notin HostBytes + 1 .. Len(arrivals')
    <3>1. host'.sent # 0 /\ i = 1
      BY <1>8, <2>5 DEF HostBytes
    <3>. QED  BY <2>1, <2>2, <3>1 DEF Queued
  <2>. QED  BY <2>4, <2>5
<1>9. ASSUME core.state = "WAIT_RESPONSE"
      PROVE  /\ Answered(core.response) =>
                  core'.response.last = (IF polled' THEN now' ELSE now' - 1) % Clock
             /\ slave'.sent > 0 <=> \E i \in 1 .. Len(arrivals') : FromSlave(arrivals', i)
             /\ \A i \in 1 .. Len(arrivals') : FromSlave(arrivals', i) =>
                  i = Len(arrivals') /\ LastByte(arrivals[i].byte)'
             /\ InStep(core, Before)'
  <2>1. ~Transmits(core)
    BY <1>9 DEF Transmits
  <2>2. polled /\ Len(arrivals) = 0
    BY <1>7, <2>1
  <2>3. Answered(core.response) => core.response.last = now % Clock
    BY <1>2, <1>9, <2>2 DEF BusyInv
  <2>4. now' - 1 = now
    BY <1>1
  <2>5. slave'.sent > 0 <=> SlaveHeard
    BY <1>2, <1>9 DEF SlaveHeard
  <2>6. /\ Len(arrivals') \in Nat
        /\ SlaveHeard => Len(arrivals') > 0 /\ FromSlave(arrivals', Len(arrivals'))
        /\ \A k \in 1 .. Len(arrivals') : FromSlave(arrivals', k) => k <= 0 \/ SlaveHeard
    BY <2>2, QueuedSlaves
  <2>7. SlaveHeard <=> \E i \in 1 .. Len(arrivals') : FromSlave(arrivals', i)
    BY <2>6
  <2>8. ASSUME NEW i \in 1 .. Len(arrivals'), FromSlave(arrivals', i)
        PROVE  i = Len(arrivals') /\ LastByte(arrivals[i].byte)'
    <3>1. SlaveHeard /\ i = Len(arrivals') /\ arrivals'[i] = SlaveEvent
      BY <2>2, <2>8, QueuedSlaves
    <3>2. /\ SlaveEvent.byte.part = slave'.sent
          /\ SlaveEvent.byte.part = 1 => SlaveEvent.byte.code = "ADDRESS"
          /\ SlaveEvent.byte.part = 2 => SlaveEvent.byte.code = slave'.code
      BY <3>1, SlaveEventFields
    <3>. QED  BY <3>1, <3>2 DEF LastByte
  <2>9. InStep(core, Before)'
    <3>1. InStep(core, slave.sent)
      BY <1>2, <1>9, <2>2 DEF BusyInv
    <3>2. Before' = slave.sent
      BY <1>2 DEF Before
    <3>. QED  BY <1>1, <1>2, <3>1, <3>2 DEF InStep, Begun, Answered
  <2>. QED  BY <1>1, <2>3, <2>4, <2>5, <2>7, <2>8, <2>9
<1>10. core.state = "SEND_RESPONSE" => slave'.sent > Length(slave'.code) - sending'
  <2>. HAVE core.state = "SEND_RESPONSE"
  <2> DEFINE length == Length(slave.code)
  <2>1. slave.sent > length - sending /\ slave.sent > 0
    BY <1>2, <1>3 DEF BusyInv, BusyCore
  <2>2. sending > 0 /\ sending' = sending - 1 /\ sending \in Nat
    BY FlowTypes DEF Wait, Transmits
  <2>3. length \in Nat /\ Length(slave'.code) = length
    BY <1>2, Lengths
  <2>. HIDE DEF length
  <2>. QED  BY <1>2, <2>1, <2>2, <2>3, Constants
<1>11. core.state = "SEND_REQUEST" =>
         /\ Recovered + Len(core.request.data) - sending' <= now'
         /\ core.request.kind = "UNKNOWN" =>
              Recovered + Len(core.request.data) - sending' + UnknownFrameGap <= now'
  <2>. HAVE core.state = "SEND_REQUEST"
  <2>1. /\ Recovered + Len(core.request.data) - sending <= now
        /\ core.request.kind = "UNKNOWN" =>
             Recovered + Len(core.request.data) - sending + UnknownFrameGap <= now
    BY <1>2 DEF BusyInv
  <2>2. sending > 0 /\ sending' = sending - 1 /\ sending \in Nat
    BY FlowTypes DEF Wait, Transmits
  <2>3. Len(core.request.data) \in Nat
    BY FlowTypes, CoreFields, AssemblyFields
  <2>. QED  BY <1>1, <2>1, <2>2, <2>3, Constants
<1>12. (core.state = "WAIT_RESPONSE" =>
          /\ Answered(core.response) =>
               core.response.last = (IF polled THEN now ELSE now - 1) % Clock
          /\ ~polled => (slave.sent > 0 <=>
                           \E i \in 1 .. Len(arrivals) : FromSlave(arrivals, i))
          /\ ~polled => \A i \in 1 .. Len(arrivals) : FromSlave(arrivals, i) =>
                          i = Len(arrivals) /\ LastByte(arrivals[i].byte)
          /\ InStep(core, IF polled THEN slave.sent ELSE Before))'
  BY <1>1, <1>9 DEF Answered, InStep
<1>13. (core.state = "SEND_REQUEST" =>
          /\ Recovered + Len(core.request.data) - sending <= now
          /\ core.request.kind = "UNKNOWN" =>
               Recovered + Len(core.request.data) - sending + UnknownFrameGap <= now)'
  BY <1>1, <1>11
<1>14. (core.state = "SEND_RESPONSE" => slave.sent > Length(slave.code) - sending)'
  BY <1>1, <1>10
<1>15. (~Transmits(core) => \A i \in 1 .. Len(arrivals) : arrivals[i].at = micros)'
  BY <1>1, <1>8 DEF Transmits
<1>. QED  BY <1>4, <1>6, <1>12, <1>13, <1>14, <1>15 DEF BusyInv

LEMMA StepOwn ==
  ASSUME Flow, HostInv, SlaveInv, BusyInv, OwnInv, [Next]_vars,
         SlowestAnswerEnds
  PROVE  BusyInv' /\ OwnInv'
<1>1. CASE UNCHANGED vars
  <2>1. UNCHANGED <<now, core, arrivals, sending, polled, slave, forwarded, early>>
    BY <1>1 DEF vars
  <2>2. OwnInv'
    BY <2>1 DEF OwnInv, OwnCore, OwnQueued
  <2>3. BusyCore(core) => BusyCore(core)'
    BY <2>1, BusyStays
  <2>4. BusyInv'
    BY <2>1, <2>3 DEF BusyInv, SlaveFree, SlaveBusy, Recovered, micros, InStep, Begun, Answered,
                      Before, LastByte, FromSlave
  <2>. QED  BY <2>2, <2>4
<1>2. CASE Dispatch
  BY <1>2, DispatchBusy, DispatchOwn
<1>3. CASE Transmitted
  BY <1>3, TransmittedOwn
<1>4. CASE Wait
  BY <1>4, WaitBusy, WaitOwn
<1>. QED  BY <1>1, <1>2, <1>3, <1>4 DEF Next

LEMMA InitOwn ==
  ASSUME Init
  PROVE  BusyInv /\ OwnInv
<1>1. SlaveFree /\ core.state = "IDLE"
  BY DEF Init, SlaveFree, Idle
<1>. QED  BY <1>1 DEF BusyInv, OwnInv, OwnCore, OwnQueued, InTransaction

(* The recovery window does its work if the slave's slowest answer has     *)
(* ended by the time the shortest request, and the silence that ends it if *)
(* its function is unknown, could be out after the window: a response that *)
(* is forwarded is the answer to the request of its transaction, however   *)
(* long the answer is and however short the request.                       *)
THEOREM AnswersCorrect ==
  ASSUME SlowestAnswerEnds
  PROVE  Spec => []AnswersItsRequest
<1> DEFINE Inv == Flow /\ HostInv /\ SlaveInv /\ BusyInv /\ OwnInv
<1>1. Init => Inv
  BY InitFlow, InitHost, InitSlave, InitOwn
<1>2. Inv /\ [Next]_vars => Inv'
  BY StepFlow, StepHost, StepSlave, StepOwn
<1>3. Inv => AnswersItsRequest
  BY DEF OwnInv, OwnCore, InTransaction, AnswersItsRequest
<1>. QED  BY <1>1, <1>2, <1>3, PTL DEF Spec
=============================================================================
