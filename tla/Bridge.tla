-------------------------------- MODULE Bridge --------------------------------
(***************************************************************************)
(* Board B: a bridge from the host's serial line to the RS485 line, one    *)
(* request and its response at a time. Receive interrupts stamp each byte  *)
(* with its time of arrival; the main loop feeds the bytes in that order   *)
(* to the core, at those times, and then transmits what the core has       *)
(* ready. It waits for the end of the transmission, and the bytes that     *)
(* arrive meanwhile stay queued.                                           *)
(*                                                                         *)
(* Time is counted in characters. Times in the core are taken modulo Clock *)
(* as in the code, and differences are unsigned. The two receive queues    *)
(* are one sequence in order of arrival (the host first in a tie), which   *)
(* is how bridge_dispatch_process merges them; they never fill: a queue    *)
(* holds 511 bytes, and the main loop empties it after every transmission, *)
(* which takes at most 256 characters.                                     *)
(*                                                                         *)
(* A frame is the address, the function, and the rest, whose bytes could   *)
(* be taken for functions too. A request is RequestLength bytes. An answer *)
(* is AnswerLength, which may be far more (a read asks with 8 bytes for up *)
(* to 256), or the few bytes of an exception; what begins in the middle of *)
(* a long answer may look like a short one. The length that a frame        *)
(* declares is known once it has that length; "LONG" declares too much, or *)
(* is another function than the one that was asked.                        *)
(* The host, the slave and the noise on the line are the environment.      *)
(***************************************************************************)
EXTENDS Integers, Sequences

CONSTANTS Clock,                    (* 2^32                                *)
          FrameGap,                 (* BOARD_B_FRAME_GAP_US                *)
          UnknownFrameGap,          (* BOARD_B_UNKNOWN_FRAME_GAP_US        *)
          RequestAssemblyTimeout, ResponseTimeout, ResponseRecovery,
          RequestLength, AnswerLength, ExceptionLength,
          MaxAduBytes, MinAduBytes,
          Supported, Unknown,       (* functions                           *)
          MaxDelay,                 (* an answer begins within this time   *)
          StartTime, MaxTime,       (* bound: the clock                    *)
          MaxFrames,                (* bound: frames of the host           *)
          MaxStrays                 (* bound: stray bytes on the line      *)

ASSUME BridgeAssumption ==
  /\ Clock \in Nat
  /\ {FrameGap, UnknownFrameGap, RequestAssemblyTimeout, ResponseTimeout,
      ResponseRecovery, RequestLength, AnswerLength, ExceptionLength,
      MaxAduBytes, MinAduBytes, MaxDelay} \subseteq Nat \ {0}
  /\ {StartTime, MaxTime, MaxFrames, MaxStrays} \subseteq Nat /\ StartTime <= MaxTime
  /\ FrameGap > 1
  /\ RequestLength > 2 /\ RequestLength <= MaxAduBytes
  /\ ExceptionLength > 2 /\ ExceptionLength <= AnswerLength
  /\ AnswerLength <= MaxAduBytes
  /\ UnknownFrameGap > 1 /\ UnknownFrameGap <= RequestAssemblyTimeout
  /\ RequestLength <= RequestAssemblyTimeout
  /\ Clock > 2 * (MaxTime - StartTime) /\ Clock > ResponseTimeout
  /\ MaxDelay <= ResponseTimeout + ResponseRecovery
  /\ "LONG" \notin Supported /\ Supported \cap Unknown = {}
  /\ "ADDRESS" \notin Supported \cup Unknown

VARIABLES
  now,
  core,              (* bridge_core_t                                      *)
  arrivals,          (* the two receive queues                             *)
  sending,           (* characters left of the frame being transmitted     *)
  polled,            (* the main loop has seen what arrived so far         *)
  host,              (* the host: frames begun, bytes sent of the last,    *)
                     (* its function, the time since its last byte, and    *)
                     (* whether the core was idle when the frame began     *)
  slave,             (* the request the slave works on, the function of    *)
                     (* its answer, what the bytes after that could be     *)
                     (* taken for, and bytes answered                      *)
  strays,            (* stray bytes so far                                 *)
  forwarded,         (* history: when the last request was out             *)
  early              (* history: a byte older than the end of the request's*)
                     (* transmission was queued then, and the answer of    *)
                     (* that time may still come                           *)

vars == <<now, core, arrivals, sending, polled, host, slave, strays, forwarded, early>>

State == {"IDLE", "RECEIVE_REQUEST", "SEND_REQUEST", "WAIT_RESPONSE",
          "SEND_RESPONSE", "RECOVERY"}
Functions == Supported \cup Unknown \cup {"LONG"}
Exception == "EXCEPTION"            (* request_function | 0x80             *)
Code == Functions \cup {"ADDRESS", Exception}
(* Frame 0 is noise.                                                       *)
Byte == [frame : 0 .. MaxFrames, part : 1 .. MaxAduBytes, code : Code]
Time == 0 .. Clock - 1
Assembly == [data : Seq(Byte), kind : {"PENDING", "SUPPORTED", "UNKNOWN"},
             function : Code, discarding : BOOLEAN, started : Time, last : Time]
Core == [state : State, request : Assembly, response : Assembly,
         wait_started : Time, recovery_started : Time]
Idle == [frame |-> 0, code |-> "ADDRESS", rest |-> "ADDRESS", sent |-> 0, age |-> 0]

TypeOK ==
  /\ now \in StartTime .. MaxTime
  /\ core \in Core
  /\ Len(core.request.data) <= MaxAduBytes /\ Len(core.response.data) <= MaxAduBytes
  /\ \A i \in 1 .. Len(arrivals) :
       arrivals[i] \in [from : {"HOST", "RS485"}, byte : Byte, at : Time]
  /\ sending \in 0 .. MaxAduBytes
  /\ polled \in BOOLEAN
  /\ host \in [frame : 0 .. MaxFrames, sent : 0 .. RequestLength, code : Code,
               silent : 0 .. FrameGap - 1, clean : BOOLEAN]
  /\ slave \in [frame : 0 .. MaxFrames, code : Code, rest : Code,
                sent : 0 .. AnswerLength, age : 0 .. MaxDelay]
  /\ strays \in 0 .. MaxStrays
  /\ forwarded \in StartTime .. MaxTime
  /\ early \in BOOLEAN

micros == now % Clock

(* clear_request and clear_response; a request is cleared as it starts     *)
Started(t) == [data |-> <<>>, kind |-> "PENDING", function |-> "ADDRESS",
               discarding |-> FALSE, started |-> t, last |-> 0]
Cleared == Started(0)

Init ==
  /\ now = StartTime
  /\ core = [state |-> "IDLE", request |-> Cleared, response |-> Cleared,
             wait_started |-> 0, recovery_started |-> 0]
  /\ arrivals = <<>> /\ sending = 0 /\ polled = TRUE
  /\ host = [frame |-> 0, sent |-> 0, code |-> "ADDRESS", silent |-> FrameGap - 1,
             clean |-> FALSE]
  /\ slave = Idle
  /\ strays = 0 /\ forwarded = StartTime /\ early = FALSE
-----------------------------------------------------------------------------
Elapsed(t, since) == (t - since) % Clock

(* Faulty variant: a silence of t3.5 is missed by one.                     *)
GapBeforeShort(assembly, t) == Elapsed(t, assembly.last) >= FrameGap - 1

(* frame_gap_elapsed                                                       *)
GapBefore(assembly, t) == Elapsed(t, assembly.last) >= FrameGap

(* An assembly goes on after a byte unless the gap before it shows that    *)
(* it was truncated; of unknown functions the end is found otherwise.      *)
Truncated(assembly, t) ==
  assembly.data # <<>> /\ assembly.kind # "UNKNOWN" /\ GapBefore(assembly, t)

(* mark_request_oversize, mark_response_oversize, mark_response_mismatch   *)
Discarding(assembly) == [assembly EXCEPT !.discarding = TRUE, !.data = <<>>]

Kind(function) ==
  IF function \in Supported \cup {"LONG"} THEN "SUPPORTED" ELSE "UNKNOWN"

(* Faulty variant: off by one at the limit.                                *)
FullLate(assembly) == Len(assembly.data) > MaxAduBytes

Full(assembly) == Len(assembly.data) >= MaxAduBytes

(* A request, or a response, of a known function has its declared length.  *)
Length(code) == IF code = Exception THEN ExceptionLength ELSE AnswerLength

RequestComplete(assembly) ==
  assembly.kind = "SUPPORTED" /\ Len(assembly.data) = RequestLength

ResponseComplete(assembly) ==
  assembly.kind = "SUPPORTED" /\ Len(assembly.data) = Length(assembly.function)

(* The byte joins the assembly; the second one is the function.            *)
Joined(assembly, b, t) ==
  LET longer == [assembly EXCEPT !.last = t, !.data = Append(@, b)]
  IN  IF Len(longer.data) = 2 THEN [longer EXCEPT !.function = b.code] ELSE longer

BackToIdle(c) == [c EXCEPT !.state = "IDLE", !.request = Cleared, !.response = Cleared]

(* Faulty variant: bytes are taken as they come, whatever the silence.     *)
OnHostByteUngapped(c, b, t) ==
  LET r      == IF c.state = "IDLE" THEN Started(t) ELSE c.request
      joined == Joined(r, b, t)
      next   == IF Len(joined.data) = 2 THEN [joined EXCEPT !.kind = Kind(b.code)] ELSE joined
  IN  IF c.state \notin {"IDLE", "RECEIVE_REQUEST"} THEN c
      ELSE [c EXCEPT !.request = IF Full(r) THEN Discarding(r) ELSE next,
                     !.state = IF RequestComplete(next) THEN "SEND_REQUEST" ELSE "RECEIVE_REQUEST"]

(* bridge_core_on_host_byte                                                *)
OnHostByte(c, b, t) ==
  LET r     == IF c.state = "IDLE" THEN Started(t) ELSE c.request
      fresh == IF Truncated(r, t) \/ (r.discarding /\ GapBefore(r, t))
               THEN Started(t) ELSE r
      joined == Joined(fresh, b, t)
      next   == IF Len(joined.data) = 2 THEN [joined EXCEPT !.kind = Kind(b.code)] ELSE joined
      request ==
        CASE fresh.discarding -> [fresh EXCEPT !.last = t]
          [] Full(fresh) \/ (RequestComplete(next) /\ next.function = "LONG") ->
               Discarding([fresh EXCEPT !.last = t, !.kind = next.kind,
                                        !.function = next.function])
          [] OTHER -> next
  IN  IF c.state \notin {"IDLE", "RECEIVE_REQUEST"} THEN c
      ELSE [c EXCEPT !.request = request,
                     !.state = IF RequestComplete(request) THEN "SEND_REQUEST"
                               ELSE "RECEIVE_REQUEST"]

(* What a response of this function code is to a request of this function. *)
AnswerKind(function, code) ==
  IF code = Exception THEN "SUPPORTED"
  ELSE IF code = function THEN Kind(function)
  ELSE "MISMATCH"

(* Faulty variant: the fragment extends the deadline.                      *)
DropTruncatedExtending(c, t) ==
  IF Truncated(c.response, t)
  THEN [c EXCEPT !.response = Cleared, !.wait_started = t] ELSE c

(* clear_response_assembly: a truncated response is dropped; the request   *)
(* and the deadline stay.                                                  *)
DropTruncated(c, t) ==
  IF Truncated(c.response, t) THEN [c EXCEPT !.response = Cleared] ELSE c

(* bridge_core_on_rs485_byte: outside WAIT_RESPONSE the byte is dropped    *)
(* and once a response is discarded, all that follows.                     *)
OnRs485Byte(c, b, t) ==
  LET kept   == DropTruncated(c, t)
      r      == kept.response
      joined == Joined(r, b, t)
      kind   == IF Len(joined.data) = 2
                THEN AnswerKind(c.request.function, b.code) ELSE r.kind
      response == IF Full(r) \/ kind = "MISMATCH" THEN Discarding([r EXCEPT !.last = t])
                  ELSE [joined EXCEPT !.kind = kind]
  IN  IF c.state # "WAIT_RESPONSE" \/ c.response.discarding THEN c
      ELSE [kept EXCEPT !.response = response,
                        !.state = IF ResponseComplete(response) THEN "SEND_RESPONSE"
                                  ELSE @]

Quiet(r, t) == \/ Elapsed(t, r.last) >= UnknownFrameGap
               \/ Elapsed(t, r.started) >= RequestAssemblyTimeout

(* bridge_core_tick while a request comes in: a frame of an unknown        *)
(* function ends with silence; anything else incomplete times out.         *)
TickRequest(c, t) ==
  LET r == c.request
      ends == IF r.kind = "UNKNOWN" \/ r.discarding THEN Quiet(r, t)
              ELSE Elapsed(t, r.started) >= RequestAssemblyTimeout
  IN  IF ~ends THEN c
      ELSE IF r.kind = "UNKNOWN" /\ ~r.discarding /\ Len(r.data) >= MinAduBytes
           THEN [c EXCEPT !.state = "SEND_REQUEST"]
           ELSE BackToIdle(c)

(* bridge_core_tick while a response is awaited. A response to an unknown  *)
(* function ends with silence too, and one too short is not looked at      *)
(* further. The time limit then applies to what is not complete.           *)
TickResponse(c, t) ==
  LET r == c.response
      ends == /\ r.kind = "UNKNOWN" /\ ~r.discarding /\ r.data # <<>>
              /\ Elapsed(t, r.last) >= UnknownFrameGap
  IN  IF ends /\ Len(r.data) >= MinAduBytes
      THEN [c EXCEPT !.state = "SEND_RESPONSE"]
      ELSE IF Elapsed(t, c.wait_started) >= ResponseTimeout
      THEN [c EXCEPT !.state = "RECOVERY", !.recovery_started = t, !.response = Cleared]
      ELSE IF ends THEN [c EXCEPT !.response = Discarding(r)] ELSE c

(* Faulty variant: no recovery time.                                       *)
CoreTickUnrecovered(c, t) ==
  CASE c.state = "RECEIVE_REQUEST" -> TickRequest(c, t)
    [] c.state = "WAIT_RESPONSE" -> TickResponse(c, t)
    [] c.state = "RECOVERY" -> BackToIdle(c)
    [] OTHER -> c

(* bridge_core_tick                                                        *)
CoreTick(c, t) ==
  CASE c.state = "RECEIVE_REQUEST" -> TickRequest(c, t)
    [] c.state = "WAIT_RESPONSE" -> TickResponse(c, t)
    [] c.state = "RECOVERY" /\ Elapsed(t, c.recovery_started) >= ResponseRecovery ->
         BackToIdle(c)
    [] OTHER -> c

(* One event of bridge_dispatch_process: first the time, then the byte.    *)
OnEvent(c, e) ==
  LET ticked == CoreTick(c, e.at)
  IN  IF e.from = "HOST" THEN OnHostByte(ticked, e.byte, e.at)
      ELSE OnRs485Byte(ticked, e.byte, e.at)

(* The core after these events, in their order. A recursive function and   *)
(* not a fold, so that the proofs can follow it.                           *)
Fed(c, events) ==
  LET after[i \in 0 .. Len(events)] ==
        IF i = 0 THEN c ELSE OnEvent(after[i - 1], events[i])
  IN  after[Len(events)]

Transmits(c) == c.state \in {"SEND_REQUEST", "SEND_RESPONSE"}
Outgoing(c) == IF c.state = "SEND_REQUEST" THEN c.request.data ELSE c.response.data

(* The main loop: bridge_dispatch_process, then bridge_core_get_tx and the *)
(* begin of a transmission.                                                *)
Dispatch ==
  /\ ~Transmits(core) /\ ~polled
  /\ core' = CoreTick(Fed(core, arrivals), micros)
  /\ arrivals' = <<>>
  /\ sending' = IF Transmits(core') THEN Len(Outgoing(core')) ELSE 0
  /\ polled' = TRUE
  /\ UNCHANGED <<now, host, slave, strays, forwarded, early>>

(* bridge_core_tx_complete                                                 *)
TxComplete(c, t) ==
  IF c.state = "SEND_REQUEST"
  THEN [c EXCEPT !.state = "WAIT_RESPONSE", !.response = Cleared, !.wait_started = t]
  ELSE BackToIdle(c)

Whole(data) ==
  /\ Len(data) = RequestLength
  /\ \A i \in 1 .. RequestLength : data[i].part = i /\ data[i].frame = data[1].frame

SlaveFree == slave.frame = 0 \/ slave.sent = Length(slave.code)

(* The last character is out. A slave that is free takes a whole request   *)
(* (another fails its CRC), if it is the one that is addressed.            *)
Transmitted ==
  /\ Transmits(core) /\ sending = 0
  /\ core' = TxComplete(core, micros)
  /\ polled' = FALSE
  /\ \/ /\ core.state = "SEND_REQUEST" /\ SlaveFree /\ Whole(core.request.data)
        /\ \E code, rest \in {core.request.function, Exception, "LONG"} :
             slave' = [frame |-> core.request.data[1].frame, code |-> code,
                       rest |-> rest, sent |-> 0, age |-> 0]
     \/ UNCHANGED slave
  /\ forwarded' = IF core.state = "SEND_REQUEST" THEN now ELSE forwarded
  /\ early' = IF core.state # "SEND_REQUEST" THEN early
              ELSE \/ early /\ ~SlaveFree
                   \/ \E i \in 1 .. Len(arrivals) : arrivals[i].at # micros
  /\ UNCHANGED <<now, arrivals, sending, host, strays>>
-----------------------------------------------------------------------------
Event(from, frame, part, code) ==
  [from |-> from, at |-> now' % Clock,
   byte |-> [frame |-> frame, part |-> part,
             code |-> IF part = 1 THEN "ADDRESS" ELSE code]]

(* The host sends a frame without gaps or breaks it off, and keeps the     *)
(* silence between frames. It need not wait for an answer.                 *)
HostSends ==
  \/ host' = [host EXCEPT !.sent = 0, !.clean = FALSE,
                          !.silent = IF @ + 1 < FrameGap THEN @ + 1 ELSE @]
  \/ /\ host.sent \in 1 .. RequestLength - 1
     /\ host' = [host EXCEPT !.sent = @ + 1]
  \/ /\ host.sent = 0 /\ host.silent + 1 >= FrameGap /\ host.frame < MaxFrames
     /\ \E code \in Functions :
          host' = [frame |-> host.frame + 1, sent |-> 1, code |-> code,
                   silent |-> 0, clean |-> core.state = "IDLE"]

(* The slave takes its time, answers without gaps, or breaks off.          *)
SlaveSends ==
  \/ slave' = Idle
  \/ /\ slave.frame # 0 /\ slave.sent = 0 /\ slave.age < MaxDelay
     /\ slave' = [slave EXCEPT !.age = @ + 1]
  \/ /\ ~SlaveFree
     /\ slave' = [slave EXCEPT !.sent = @ + 1]

(* The time of one character passes; interrupts queue what arrives. What   *)
(* the slave sends while the bridge drives the line is lost. The main loop *)
(* is far faster: unless it transmits, it has seen all that came before.   *)
Wait ==
  /\ now < MaxTime
  /\ IF Transmits(core) THEN sending > 0 ELSE polled
  /\ now' = now + 1
  /\ sending' = IF sending > 0 THEN sending - 1 ELSE 0
  /\ polled' = FALSE
  /\ HostSends /\ SlaveSends
  /\ \E stray \in BOOLEAN :
       LET answers == slave'.sent > slave.sent /\ core.state # "SEND_REQUEST"
           fromHost == IF host'.sent = 0 THEN <<>>
                       ELSE <<Event("HOST", host'.frame, host'.sent, host'.code)>>
           fromLine == CASE stray -> <<Event("RS485", 0, 1, "ADDRESS")>>
                         [] answers -> <<Event("RS485", slave'.frame, slave'.sent,
                                               IF slave'.sent = 2 THEN slave'.code
                                               ELSE slave'.rest)>>
                         [] OTHER -> <<>>
       IN  /\ stray => strays < MaxStrays /\ ~answers
           /\ strays' = IF stray THEN strays + 1 ELSE strays
           /\ arrivals' = arrivals \o fromHost \o fromLine
  /\ UNCHANGED <<core, forwarded, early>>

Next == Dispatch \/ Transmitted \/ Wait

Spec == Init /\ [][Next]_vars
-----------------------------------------------------------------------------
(* bridge_core.c:11, frame_gap_elapsed: a request of a known               *)
(* function that is forwarded is a piece of one frame of the host, and a   *)
(* response without noise a piece of one of the slave's: no splices, over  *)
(* frames broken off, bytes dropped and functions misread.                 *)
Contiguous(data) ==
  \A i \in 1 .. Len(data) - 1 :
    data[i + 1].frame = data[i].frame /\ data[i + 1].part = data[i].part + 1

NoSplice ==
  /\ core.state = "SEND_REQUEST" /\ core.request.kind = "SUPPORTED"
       => Contiguous(core.request.data)
  /\ core.state = "SEND_RESPONSE" /\ core.response.kind = "SUPPORTED"
       => \/ Contiguous(core.response.data)
          \/ \E i \in 1 .. Len(core.response.data) : core.response.data[i].frame = 0

(* The slave's slowest answer has ended by the time another request of a   *)
(* known or an unknown function can be out after the recovery window.      *)
SlowestAnswerEnds ==
  /\ MaxDelay + AnswerLength <= ResponseTimeout + ResponseRecovery + RequestLength
  /\ MaxDelay + AnswerLength
       <= ResponseTimeout + ResponseRecovery + MinAduBytes + UnknownFrameGap

(* bridge_config.h: the recovery window keeps a late answer from being     *)
(* taken for the answer to the next request. A response that is forwarded  *)
(* answers the request of its transaction, with two exceptions: a byte     *)
(* that came during the request's transmission cut the wait short (early), *)
(* or the answer began so late that it still arrives when another request  *)
(* is out, which a long answer begun within the window can (so the         *)
(* constants of a run keep SlowestAnswerEnds).                             *)
AnswersItsRequest ==
  core.state = "SEND_RESPONSE" /\ ~early =>
    \A i \in 1 .. Len(core.response.data) :
      core.response.data[i].frame \in {0, core.request.data[1].frame}

(* bridge_core.c:52: a truncated response must not extend the transaction. *)
(* Whatever fragments and noise come, the wait and the recovery after it   *)
(* end at their time, counted from the end of the request.                 *)
DeadlineKept ==
  polled =>
    /\ core.state = "WAIT_RESPONSE" => now - forwarded < ResponseTimeout
    /\ core.state = "RECOVERY" => now - forwarded < ResponseTimeout + ResponseRecovery

(* A whole request that begins while the bridge is idle is forwarded, and  *)
(* as it was sent, whatever the noise on the line.                         *)
RequestForwarded ==
  polled /\ host.clean /\ host.sent = RequestLength /\ host.code \in Supported =>
    /\ core.state = "SEND_REQUEST" /\ Whole(core.request.data)
    /\ core.request.data[1].frame = host.frame

(* tests/host/board_b/test_bridge_core.c:386: the bytes of a second frame, *)
(* sent while the first is being forwarded, are dropped and the first      *)
(* transaction goes on. So no wait ends in recovery before the time limit  *)
(* of the response.                                                        *)
FullWait ==
  [][core.state = "WAIT_RESPONSE" /\ core'.state = "RECOVERY"
       => Elapsed(micros, core.wait_started) >= ResponseTimeout]_vars
=============================================================================
