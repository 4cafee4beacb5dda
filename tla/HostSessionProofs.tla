-------------------------- MODULE HostSessionProofs --------------------------
(***************************************************************************)
(* The safety of the host interface, for any number of drains, any clicks, *)
(* any failures of the line and queues of any length: what stop() tells of *)
(* the card is true, what is shown of a run and of a session is so when    *)
(* nothing is under way, and a session that is shown is polled.            *)
(***************************************************************************)
EXTENDS HostSession, SequenceTheorems, WellFoundedInduction, TLAPS

(* The part of the state the argument needs: board A, and the operation    *)
(* that the worker executes.                                               *)
AnyJob == [op : User, background : BOOLEAN, step : Nat, before : Nat,
           running : BOOLEAN]

Typed ==
  /\ dev \in Device
  /\ commands \in Seq(CommandRec)
  /\ job \in AnyJob \cup {NoJob}
  /\ job # NoJob => job.step \in 1 .. Len(Script[job.op])

(* While a stop is being flushed or drained nothing records, and nothing   *)
(* is waiting to: board A refuses every command that would.                *)
StopHolds(d) ==
  /\ d.armed => d.run = "off"
  /\ DeviceBusy(d) => d.run = "off" /\ ~d.armed

(* A generation that the host had not seen is of a stop in the time of     *)
(* this operation; nothing has started since, as only the worker starts.   *)
Fresh(d, j) == j # NoJob /\ j.op = "stop_periodic" /\ j.step > 2 /\ d.gen > j.before

FreshCovers(d, j) ==
  Fresh(d, j) => /\ d.run = "off" /\ ~d.armed
                 /\ d.drain = "DONE" => ~d.dirty

ToldCovers == told => dev.run = "off" /\ ~dev.dirty

IInv == Typed /\ StopHolds(dev) /\ FreshCovers(dev, job) /\ ToldCovers
-----------------------------------------------------------------------------
LEMMA DeviceFields ==
  ASSUME NEW d \in Device
  PROVE  /\ d.run \in {"off", "host", "other"} /\ d.armed \in BOOLEAN
         /\ d.flush \in BOOLEAN /\ d.drain \in {"NONE", "PENDING", "DONE", "FAILED"}
         /\ d.gen \in Nat /\ d.dirty \in BOOLEAN /\ d.heard \in BOOLEAN
  BY DEF Device

LEMMA ScriptLengths ==
  /\ \A op \in User : Len(Script[op]) \in 1 .. 7
  /\ Script["stop_periodic"] = <<"read", "before", "STOP", "observe", "drain">>
  BY DEF Script, User

(* The requests of a stop, one by one.                                     *)
LEMMA StopRequests ==
  ASSUME Typed, job # NoJob, job.op = "stop_periodic"
  PROVE  /\ job.step \in 1 .. 5
         /\ Request = <<"read", "before", "STOP", "observe", "drain">>[job.step]
         /\ Request \in {"read", "before", "STOP", "observe", "drain"}
         /\ Request = "before" <=> job.step = 2
         /\ Request = "drain" <=> job.step = 5
  BY ScriptLengths DEF Typed, Request, AnyJob

(* Only a stop waits for a drain, and nothing ends with opening the port.  *)
At(op, i) == /\ Script[op][i] = "drain" => op = "stop_periodic"
             /\ Script[op][i] = "open" => i # Len(Script[op])

LEMMA ScriptPlaces == \A op \in User : \A i \in 1 .. Len(Script[op]) : At(op, i)
<1>1. \A i \in 1 .. Len(Script["connect"]) : At("connect", i)
  BY DEF Script, At
<1>2. \A i \in 1 .. Len(Script["disconnect"]) : At("disconnect", i)
  BY DEF Script, At
<1>3. \A i \in 1 .. Len(Script["poll"]) : At("poll", i)
  BY DEF Script, At
<1>4. \A i \in 1 .. Len(Script["refresh_storage"]) : At("refresh_storage", i)
  BY DEF Script, At
<1>5. \A i \in 1 .. Len(Script["start_periodic"]) : At("start_periodic", i)
  BY DEF Script, At
<1>6. \A i \in 1 .. Len(Script["stop_periodic"]) : At("stop_periodic", i)
  BY DEF Script, At
<1>7. \A i \in 1 .. Len(Script["single_sample"]) : At("single_sample", i)
  BY DEF Script, At
<1>8. \A i \in 1 .. Len(Script["ack_alarm"]) : At("ack_alarm", i)
  BY DEF Script, At
<1>. QED  BY <1>1, <1>2, <1>3, <1>4, <1>5, <1>6, <1>7, <1>8 DEF User

LEMMA RequestPlaces ==
  ASSUME Typed, job # NoJob
  PROVE  /\ Request = "drain" => job.op = "stop_periodic"
         /\ Request = "open" => ~LastStep
<1>1. job.op \in User /\ job.step \in 1 .. Len(Script[job.op])
  BY DEF Typed, AnyJob
<1>2. At(job.op, job.step)
  BY <1>1, ScriptPlaces
<1>. QED  BY <1>2 DEF At, Request, LastStep

(* Board A never starts a run while a stop is being flushed or drained.    *)
LEMMA ExecuteSafe ==
  ASSUME NEW d \in Device, NEW request, ~Refuses(request, d), StopHolds(d)
  PROVE  /\ Execute(request, d) \in Device
         /\ StopHolds(Execute(request, d))
         /\ Execute(request, d).gen = d.gen
         /\ Execute(request, d).drain = d.drain
         /\ request \notin {"START", "SINGLE"} =>
              /\ Execute(request, d).dirty = d.dirty
              /\ d.run = "off" => Execute(request, d).run = "off"
              /\ ~d.armed => ~Execute(request, d).armed
  BY DeviceFields DEF Execute, Device, Refuses, StopHolds, DeviceBusy

(* A START or a SINGLE takes back what was said, anything else leaves it   *)
(* true.                                                                   *)
LEMMA ExecuteTold ==
  ASSUME NEW request, dev \in Device, ToldCovers, TakesBack(dev'),
         dev' = Execute(request, dev) \/ dev' = dev
  PROVE  ToldCovers'
  BY DEF ToldCovers, TakesBack
-----------------------------------------------------------------------------
(* What the interface does reaches only the queue of commands.             *)
LEMMA CommandsTyped ==
  ASSUME Typed, NEW op \in User, NEW background \in BOOLEAN, Submit(op, background)
  PROVE  commands' \in Seq(CommandRec)
  BY DEF Typed, Submit, CommandRec

LEMMA InterfaceSteps ==
  ASSUME IInv, commands' \in Seq(CommandRec), UNCHANGED <<dev, job, told>>
  PROVE  IInv'
  BY DEF IInv, Typed, StopHolds, DeviceBusy, FreshCovers, Fresh, ToldCovers

(* Board A by itself, while the worker's operation stays the same.         *)
LEMMA DeviceSteps ==
  ASSUME IInv, UNCHANGED <<commands, job>>,
         RecordsRow \/ RunEnds \/ ScheduleFires \/ Flushes \/ Drains \/ Resets
  PROVE  IInv'
<1>1. Typed'
  <2>1. dev \in Device
    BY DEF IInv, Typed
  <2>2. CASE RecordsRow \/ RunEnds \/ ScheduleFires
    BY <2>1, <2>2 DEF IInv, Typed, Device, RecordsRow, RunEnds, ScheduleFires
  <2>3. CASE Flushes
    <3>1. dev.gen + 1 \in Nat
      BY <2>1, DeviceFields
    <3>2. dev' = [dev EXCEPT !.flush = FALSE, !.drain = "PENDING", !.gen = dev.gen + 1]
      BY <2>3 DEF Flushes
    <3>3. dev' \in Device
      BY <2>1, <3>1, <3>2 DEF Device
    <3>. QED  BY <3>3 DEF IInv, Typed
  <2>4. CASE Drains
    BY <2>1, <2>4 DEF IInv, Typed, Device, Drains
  <2>5. CASE Resets
    BY <2>5 DEF IInv, Typed, Device, Resets
  <2>. QED  BY <2>2, <2>3, <2>4, <2>5
<1>2. StopHolds(dev)'
  BY DeviceFields DEF IInv, Typed, StopHolds, DeviceBusy, Device, RecordsRow, RunEnds,
                      ScheduleFires, Flushes, Drains, Resets
<1>3. FreshCovers(dev, job)'
  <2>1. job # NoJob => job.before \in Nat
    BY DEF IInv, Typed, AnyJob
  <2>2. CASE RecordsRow \/ RunEnds
    BY <2>1, <2>2, DeviceFields
    DEF IInv, Typed, FreshCovers, Fresh, Device, RecordsRow, RunEnds
  <2>3. CASE ScheduleFires
    BY <2>1, <2>3, DeviceFields DEF IInv, Typed, FreshCovers, Fresh, Device, ScheduleFires
  <2>4. CASE Flushes
    BY <2>1, <2>4, DeviceFields
    DEF IInv, Typed, StopHolds, DeviceBusy, FreshCovers, Fresh, Device, Flushes
  <2>5. CASE Drains
    BY <2>1, <2>5, DeviceFields DEF IInv, Typed, FreshCovers, Fresh, Device, Drains
  <2>6. CASE Resets
    BY <2>1, <2>6 DEF FreshCovers, Fresh, Resets
  <2>. QED  BY <2>2, <2>3, <2>4, <2>5, <2>6
<1>4. ToldCovers'
  BY DeviceFields DEF IInv, Typed, ToldCovers, Device, RecordsRow, RunEnds,
                      ScheduleFires, Flushes, Drains, Resets
<1>. QED  BY <1>1, <1>2, <1>3, <1>4 DEF IInv

(* The worker ends its operation, or goes on with the next transaction.    *)
LEMMA JobEnds ==
  ASSUME IInv, job' = NoJob, UNCHANGED <<dev, commands>>, told' => told
  PROVE  IInv'
  BY DEF IInv, Typed, StopHolds, DeviceBusy, FreshCovers, Fresh, ToldCovers

LEMMA JobUpdated ==
  ASSUME NEW j \in AnyJob, NEW b \in Nat, NEW r \in BOOLEAN
  PROVE  LET k == [j EXCEPT !.step = j.step + 1, !.before = b, !.running = r]
         IN  k \in AnyJob /\ k.op = j.op /\ k.step = j.step + 1 /\ k.before = b
<1>1. j.step + 1 \in Nat
  BY DEF AnyJob
<1>. QED  BY <1>1 DEF AnyJob

LEMMA LearnsTyped ==
  ASSUME Typed, job # NoJob, ~LastStep
  PROVE  /\ Learns \in AnyJob /\ Learns # NoJob
         /\ Learns.step \in 1 .. Len(Script[Learns.op])
         /\ Learns.op = job.op /\ Learns.step = job.step + 1
         /\ Learns.before = IF Request = "before" THEN dev.gen ELSE job.before
<1>1. /\ job \in AnyJob /\ dev \in Device
  BY DEF Typed
<1>2. Len(Script[job.op]) \in 1 .. 7
  BY <1>1, ScriptLengths DEF AnyJob
<1>3. job.step \in 1 .. Len(Script[job.op]) /\ job.step # Len(Script[job.op])
  BY DEF Typed, LastStep
<1> DEFINE b == IF Request = "before" THEN dev.gen ELSE job.before
           r == IF Request \in {"status", "observe"} THEN dev.run # "off" ELSE job.running
<1>4. /\ Learns = [job EXCEPT !.step = job.step + 1, !.before = b, !.running = r]
      /\ b \in Nat /\ r \in BOOLEAN
  <2>1. b \in Nat
    BY <1>1, DeviceFields DEF AnyJob
  <2>2. r \in BOOLEAN
    BY <1>1, DeviceFields DEF AnyJob
  <2>3. Learns = [job EXCEPT !.step = job.step + 1, !.before = b, !.running = r]
    BY Zenon DEF Learns
  <2>. QED  BY <2>1, <2>2, <2>3
<1> HIDE DEF b, r
<1>5. Learns \in AnyJob
  BY <1>1, <1>4, JobUpdated
<1>6. Learns.op = job.op /\ Learns.step = job.step + 1
  BY <1>1, <1>4, JobUpdated
<1>7. Learns.before = IF Request = "before" THEN dev.gen ELSE job.before
  <2>1. Learns.before = b
    BY <1>1, <1>4, JobUpdated
  <2>. QED  BY <2>1, Zenon DEF b
<1>8. Learns # NoJob
  BY <1>6, <1>5 DEF AnyJob, NoJob, Idle, User
<1>. QED  BY <1>2, <1>3, <1>5, <1>6, <1>7, <1>8

(* The generation that was read before the STOP is not a fresh one.        *)
LEMMA LearnsFresh ==
  ASSUME IInv, job # NoJob, ~LastStep, NEW d \in Device, d.gen = dev.gen,
         Fresh(d, Learns)
  PROVE  Fresh(dev, job) /\ Request \in {"STOP", "observe"}
<1>1. Typed
  BY DEF IInv
<1>2. /\ Learns.op = job.op /\ Learns.step = job.step + 1
      /\ Learns.before = IF Request = "before" THEN dev.gen ELSE job.before
  BY <1>1, LearnsTyped
<1>3. job.op = "stop_periodic" /\ job.step > 1
  <2>1. job.step \in Nat
    BY <1>1 DEF Typed, AnyJob
  <2>. QED  BY <1>2, <2>1 DEF Fresh
<1>4. dev.gen \in Nat
  BY <1>1, DeviceFields DEF Typed
<1>5. /\ job.step \in 1 .. 5
      /\ Request = <<"read", "before", "STOP", "observe", "drain">>[job.step]
      /\ Request = "before" <=> job.step = 2
  BY <1>1, <1>3, StopRequests
<1>6. job.step # 5
  BY <1>3, ScriptLengths DEF LastStep
<1>7. job.step \in {3, 4}
  BY <1>2, <1>3, <1>4, <1>5, <1>6 DEF Fresh
<1>. QED  BY <1>2, <1>3, <1>5, <1>7 DEF Fresh

(* The next transaction of an operation, with what it does to board A.     *)
LEMMA JobGoesOn ==
  ASSUME IInv, job # NoJob, ~LastStep, job' = Learns, UNCHANGED commands,
         dev' \in Device, StopHolds(dev'), ToldCovers',
         dev' = dev \/ (dev' = Execute(Request, dev) /\ ~Refuses(Request, dev))
  PROVE  IInv'
<1>1. Typed /\ dev \in Device
  BY DEF IInv, Typed
<1>2. dev'.gen = dev.gen /\ dev'.drain = dev.drain
  BY <1>1, ExecuteSafe DEF IInv
<1>3. Typed'
  BY <1>1, LearnsTyped DEF Typed
<1>4. FreshCovers(dev', Learns)
  <2>1. SUFFICES ASSUME Fresh(dev', Learns)
                 PROVE  /\ dev'.run = "off" /\ ~dev'.armed
                        /\ dev'.drain = "DONE" => ~dev'.dirty
    BY DEF FreshCovers
  <2>2. Fresh(dev, job) /\ Request \in {"STOP", "observe"}
    BY <1>2, <2>1, LearnsFresh
  <2>3. dev.run = "off" /\ ~dev.armed /\ (dev.drain = "DONE" => ~dev.dirty)
    BY <2>2 DEF IInv, FreshCovers
  <2>4. CASE dev' = dev
    BY <2>3, <2>4
  <2>5. CASE dev' = Execute(Request, dev) /\ ~Refuses(Request, dev)
    BY <1>1, <2>2, <2>3, <2>5, ExecuteSafe DEF IInv
  <2>. QED  BY <2>4, <2>5
<1>5. FreshCovers(dev, job)' /\ StopHolds(dev)'
  BY <1>4
<1>. QED  BY <1>3, <1>5 DEF IInv

LEMMA TakeStep ==
  ASSUME IInv, Take
  PROVE  IInv'
<1>1. /\ commands \in Seq(CommandRec) /\ commands # <<>>
      /\ commands' = Tail(commands) /\ UNCHANGED <<dev, told>>
  BY DEF IInv, Typed, Take
<1>2. Head(commands) \in CommandRec /\ commands' \in Seq(CommandRec)
  BY <1>1
<1>3. CASE job' = NoJob
  BY <1>1, <1>2, <1>3
  DEF IInv, Typed, StopHolds, DeviceBusy, FreshCovers, Fresh, ToldCovers
<1>4. CASE job' # NoJob
  <2>1. /\ Head(commands).op # "CLOSE"
        /\ job' = [op |-> Head(commands).op, background |-> Head(commands).background,
                   step |-> 1, before |-> 0, running |-> FALSE]
    BY <1>4 DEF Take
  <2>2. Head(commands).op \in User /\ Head(commands).background \in BOOLEAN
    BY <1>2, <2>1 DEF CommandRec
  <2>3. job' \in AnyJob /\ job'.op = Head(commands).op /\ job'.step = 1
    BY <2>1, <2>2 DEF AnyJob
  <2>4. Len(Script[job'.op]) \in 1 .. 7
    BY <2>2, <2>3, ScriptLengths
  <2>5. Typed'
    <3> DEFINE length == Len(Script[job'.op])
    <3>1. job'.step \in 1 .. length
      <4>1. job'.step = 1
        BY <2>3
      <4>2. length \in 1 .. 7
        BY <2>4
      <4> HIDE DEF length
      <4>. QED  BY <4>1, <4>2
    <3>. QED  BY <1>1, <1>2, <2>3, <3>1 DEF IInv, Typed
  <2>6. FreshCovers(dev, job)'
    BY <2>3 DEF FreshCovers, Fresh
  <2>. QED  BY <1>1, <2>5, <2>6 DEF IInv, StopHolds, DeviceBusy, ToldCovers
<1>. QED  BY <1>3, <1>4

LEMMA TransactsStep ==
  ASSUME IInv, Transacts
  PROVE  IInv'
<1>1. /\ job # NoJob /\ ~Refuses(Request, dev) /\ dev' = Execute(Request, dev)
      /\ TakesBack(dev') /\ UNCHANGED commands
  BY DEF Transacts, Working
<1>2. dev \in Device /\ dev' \in Device /\ StopHolds(dev')
  BY <1>1, ExecuteSafe DEF IInv, Typed
<1>3. ToldCovers'
  BY <1>1, <1>2, ExecuteTold DEF IInv
<1>4. CASE LastStep
  <2>1. job' = NoJob
    BY <1>4 DEF Transacts, Answer
  <2>2. Typed' /\ FreshCovers(dev, job)' /\ StopHolds(dev)'
    BY <1>1, <1>2, <2>1 DEF IInv, Typed, FreshCovers, Fresh
  <2>. QED  BY <1>3, <2>2 DEF IInv
<1>5. CASE ~LastStep
  <2>1. job' = Learns
    BY <1>5 DEF Transacts
  <2>. QED  BY <1>1, <1>2, <1>3, <1>5, <2>1, JobGoesOn
<1>. QED  BY <1>4, <1>5

LEMMA LineFailsStep ==
  ASSUME IInv, LineFails
  PROVE  IInv'
<1>1. /\ job' = NoJob /\ UNCHANGED commands /\ TakesBack(dev')
      /\ dev' = dev \/ (dev' = Execute(Request, dev) /\ ~Refuses(Request, dev))
  <2>1. PICK error \in {"timeout", "protocol", "transport"} : Fail(error)
    BY DEF LineFails
  <2>2. job' = NoJob
    BY <2>1 DEF Fail, Answer
  <2>3. TakesBack(dev') /\ UNCHANGED commands
    BY DEF LineFails
  <2>4. dev' \in {dev} \cup (IF Refuses(Request, dev) THEN {} ELSE {Execute(Request, dev)})
    BY DEF LineFails
  <2>5. CASE Refuses(Request, dev)
    <3>1. dev' = dev
      BY <2>4, <2>5
    <3>. QED  BY <2>2, <2>3, <3>1
  <2>6. CASE ~Refuses(Request, dev)
    <3>1. dev' = dev \/ dev' = Execute(Request, dev)
      BY <2>4, <2>6
    <3>. QED  BY <2>2, <2>3, <2>6, <3>1
  <2>. QED  BY <2>5, <2>6
<1>2. dev \in Device /\ dev' \in Device /\ StopHolds(dev')
  BY <1>1, ExecuteSafe DEF IInv, Typed
<1>3. ToldCovers'
  BY <1>1, <1>2, ExecuteTold DEF IInv
<1>4. Typed' /\ FreshCovers(dev, job)' /\ StopHolds(dev)'
  BY <1>1, <1>2 DEF IInv, Typed, FreshCovers, Fresh
<1>. QED  BY <1>3, <1>4 DEF IInv

LEMMA PortSteps ==
  ASSUME IInv, ClosesPort \/ OpensPort
  PROVE  IInv'
<1>1. job # NoJob /\ UNCHANGED <<dev, commands, told>>
  BY DEF ClosesPort, OpensPort, Working
<1>2. CASE job' = NoJob
  BY <1>1, <1>2, JobEnds
<1>3. CASE job' # NoJob
  <2>1. job' = Learns /\ ~LastStep
    BY <1>1, <1>3, RequestPlaces DEF IInv, ClosesPort, OpensPort, Fail, Answer
  <2>2. dev' \in Device /\ StopHolds(dev') /\ ToldCovers'
    BY <1>1 DEF IInv, Typed, StopHolds, DeviceBusy, ToldCovers
  <2>3. job # NoJob /\ UNCHANGED commands /\ dev' = dev
    BY <1>1
  <2>4. dev' = dev \/ (dev' = Execute(Request, dev) /\ ~Refuses(Request, dev))
    BY <2>3
  <2>. QED  BY <2>1, <2>2, <2>3, <2>4, JobGoesOn
<1>. QED  BY <1>2, <1>3

(* A drain that settles a stop: what stop() says of the card is so.        *)
LEMMA DrainSettlesStep ==
  ASSUME IInv, DrainSettles
  PROVE  IInv'
<1>1. job # NoJob /\ job' = NoJob /\ UNCHANGED <<dev, commands>> /\ Typed
  BY DEF DrainSettles, Working, Fail, Answer, IInv
<1>2. ToldCovers'
  <2>1. Request = "drain" /\ dev.gen > job.before
    BY DEF DrainSettles, Settled, Seen
  <2>2. job.op = "stop_periodic"
    BY <1>1, <2>1, RequestPlaces
  <2>3. job.step = 5
    BY <1>1, <2>1, <2>2, StopRequests
  <2>4. Fresh(dev, job)
    BY <1>1, <2>1, <2>2, <2>3 DEF Fresh
  <2>5. told' => told \/ dev.drain = "DONE"
    BY DEF DrainSettles
  <2>. QED  BY <1>1, <2>4, <2>5 DEF IInv, FreshCovers, ToldCovers
<1>3. Typed' /\ FreshCovers(dev, job)' /\ StopHolds(dev)'
  BY <1>1 DEF IInv, Typed, FreshCovers, Fresh, StopHolds, DeviceBusy
<1>. QED  BY <1>2, <1>3 DEF IInv
-----------------------------------------------------------------------------
LEMMA InitHolds == Init => IInv
<1>. SUFFICES ASSUME Init PROVE IInv
  OBVIOUS
<1>1. PICK run \in {"off", "other"}, armed \in BOOLEAN :
        /\ armed => run = "off"
        /\ dev = [run |-> run, armed |-> armed, flush |-> FALSE, drain |-> "NONE",
                  gen |-> 0, dirty |-> (run = "other"), heard |-> FALSE]
  BY DEF Init
<1>2. dev \in Device /\ StopHolds(dev)
  BY <1>1 DEF Device, StopHolds, DeviceBusy
<1>3. commands = <<>> /\ job = NoJob /\ told = FALSE
  BY DEF Init
<1>. QED  BY <1>2, <1>3 DEF IInv, Typed, FreshCovers, Fresh, ToldCovers

LEMMA StepHolds == IInv /\ [Next]_vars => IInv'
<1>. SUFFICES ASSUME IInv, [Next]_vars PROVE IInv'
  OBVIOUS
<1>1. CASE Connect \/ Disconnect \/ RefreshSensors \/ RefreshStorage \/ StartPeriodic
           \/ StopPeriodic \/ SingleSample \/ AckAlarm \/ TickPoll \/ TickStorage
  <2>1. PICK op \in User, background \in BOOLEAN : Submit(op, background)
    BY <1>1 DEF User, Connect, Disconnect, RefreshSensors, RefreshStorage, StartPeriodic,
                StopPeriodic, SingleSample, AckAlarm, TickPoll, TickStorage
  <2>2. commands' \in Seq(CommandRec)
    BY <2>1, CommandsTyped DEF IInv
  <2>3. UNCHANGED <<dev, job, told>>
    BY <2>1 DEF Submit
  <2>. QED  BY <2>2, <2>3, InterfaceSteps
<1>2. CASE Shutdown
  <2>1. commands' \in Seq(CommandRec)
    BY <1>2 DEF IInv, Typed, Shutdown, CommandRec
  <2>. QED  BY <1>2, <2>1, InterfaceSteps DEF Shutdown
<1>3. CASE PollResults \/ Weather \/ DrainReadBreaks \/ UNCHANGED vars
  <2>1. UNCHANGED <<commands, dev, job, told>>
    BY <1>3 DEF PollResults, Weather, DrainReadBreaks, host, worker, vars
  <2>. QED  BY <2>1, InterfaceSteps DEF IInv, Typed
<1>4. CASE RecordsRow \/ RunEnds \/ ScheduleFires \/ Flushes \/ Drains \/ Resets
  <2>1. UNCHANGED <<commands, job>>
    BY <1>4 DEF RecordsRow, RunEnds, ScheduleFires, Flushes, Drains, Resets, Alone, worker
  <2>. QED  BY <1>4, <2>1, DeviceSteps
<1>5. CASE Take
  BY <1>5, TakeStep
<1>6. CASE Transacts
  BY <1>6, TransactsStep
<1>7. CASE LineFails
  BY <1>7, LineFailsStep
<1>8. CASE Refused \/ DrainGivesUp
  <2>1. job' = NoJob /\ UNCHANGED <<dev, commands, told>>
    BY <1>8 DEF Refused, DrainGivesUp, Fail, Answer
  <2>. QED  BY <2>1, JobEnds
<1>9. CASE ClosesPort \/ OpensPort
  BY <1>9, PortSteps
<1>10. CASE DrainSettles
  BY <1>10, DrainSettlesStep
<1>. QED
  BY <1>1, <1>2, <1>3, <1>4, <1>5, <1>6, <1>7, <1>8, <1>9, <1>10 DEF Next, WorkerNext

(* What stop() tells its caller holds until something starts again: no row *)
(* is missing on the card and no file is open (service.py:708-718 and the  *)
(* refusals of board_a_model.c:312-361).                                   *)
THEOREM SafeToRemoveCorrect == Spec => []SafeToRemove
<1>1. IInv => SafeToRemove
  BY DEF IInv, ToldCovers, SafeToRemove
<1>. QED  BY <1>1, InitHolds, StepHolds, PTL DEF Spec
-----------------------------------------------------------------------------
(* Applying results one after the other. The definition is recursive; that *)
(* there is such a function, and only one, follows from the fact that a    *)
(* set of natural numbers has a least element.                             *)
LEMMA LeastNatural ==
  ASSUME NEW T \in SUBSET Nat, T # {}
  PROVE  \E x \in T : \A y \in T : x <= y
<1> DEFINE Below == {ss \in Nat \X Nat : ss[1] < ss[2]}
<1>1. IsWellFoundedOn(Below, Nat)
  BY NatLessThanWellFounded DEF OpToRel
<1>2. \A x, y \in T : <<y, x>> \in Below <=> y < x
  OBVIOUS
<1> HIDE DEF Below
<1>3. PICK x \in T : \A y \in T : <<y, x>> \notin Below
  BY <1>1, WFMin
<1>4. ASSUME NEW y \in T PROVE x <= y
  <2>1. x \in Nat /\ y \in Nat /\ ~(y < x)
    BY <1>2, <1>3
  <2>. QED  BY <2>1
<1>. QED  BY <1>4

AppliesTo(f, g, rs, n) ==
  f = [i \in 0 .. n |-> IF i = 0 THEN g ELSE Handle(f[i - 1], rs[i])]

LEMMA SequenceExists ==
  ASSUME NEW g, NEW rs, NEW n \in Nat
  PROVE  \E f : AppliesTo(f, g, rs, n)
<1> DEFINE Missing == {k \in Nat : ~ \E f : AppliesTo(f, g, rs, k)}
<1>1. SUFFICES ASSUME Missing # {} PROVE FALSE
  OBVIOUS
<1>2. PICK k \in Missing : \A j \in Missing : k <= j
  BY <1>1, LeastNatural
<1>3. k # 0
  <2>1. AppliesTo([i \in 0 .. 0 |-> g], g, rs, 0)
    BY DEF AppliesTo
  <2>. QED  BY <2>1
<1>4. PICK f : AppliesTo(f, g, rs, k - 1)
  <2>1. k - 1 \in Nat /\ ~(k <= k - 1)
    BY <1>3
  <2>2. k - 1 \notin Missing
    BY <1>2, <2>1
  <2>. QED  BY <2>1, <2>2
<1>5. AppliesTo([i \in 0 .. k |-> IF i < k THEN f[i] ELSE Handle(f[k - 1], rs[k])], g, rs, k)
  <2> DEFINE h == [i \in 0 .. k |-> IF i < k THEN f[i] ELSE Handle(f[k - 1], rs[k])]
  <2>1. ASSUME NEW i \in 0 .. k
        PROVE  h[i] = IF i = 0 THEN g ELSE Handle(h[i - 1], rs[i])
    <3>1. k \in Nat /\ k # 0
      BY <1>3
    <3>2. CASE i < k
      <4>1. i \in 0 .. k - 1 /\ (i # 0 => i - 1 \in 0 .. k /\ i - 1 < k)
        BY <3>1, <3>2
      <4>2. h[i] = f[i] /\ (i # 0 => h[i - 1] = f[i - 1])
        BY <3>2, <4>1
      <4>3. f[i] = IF i = 0 THEN g ELSE Handle(f[i - 1], rs[i])
        BY <1>4, <4>1 DEF AppliesTo
      <4>. QED  BY <4>2, <4>3
    <3>3. CASE i = k
      <4>1. h[k] = Handle(f[k - 1], rs[k])
        BY <3>1
      <4>2. h[k - 1] = f[k - 1]
        BY <3>1
      <4>. QED  BY <3>1, <3>3, <4>1, <4>2
    <3>. QED  BY <3>1, <3>2, <3>3
  <2>2. h = [i \in 0 .. k |-> h[i]]
    OBVIOUS
  <2>3. [i \in 0 .. k |-> h[i]]
          = [i \in 0 .. k |-> IF i = 0 THEN g ELSE Handle(h[i - 1], rs[i])]
    BY <2>1
  <2> HIDE DEF h
  <2>4. AppliesTo(h, g, rs, k)
    BY <2>2, <2>3 DEF AppliesTo
  <2>. QED  BY <2>4 DEF h
<1>. QED  BY <1>5

LEMMA SequenceUnique ==
  ASSUME NEW g, NEW rs, NEW ss, NEW n \in Nat, NEW m \in Nat, n <= m,
         \A i \in 1 .. n : rs[i] = ss[i],
         NEW f, AppliesTo(f, g, rs, n), NEW h, AppliesTo(h, g, ss, m)
  PROVE  \A i \in 0 .. n : f[i] = h[i]
<1> DEFINE Differ == {i \in 0 .. n : f[i] # h[i]}
<1>1. SUFFICES ASSUME Differ # {} PROVE FALSE
  OBVIOUS
<1>2. PICK k \in Differ : \A j \in Differ : k <= j
  <2>1. Differ \in SUBSET Nat
    OBVIOUS
  <2>. HIDE DEF Differ
  <2>. QED  BY <1>1, <2>1, LeastNatural
<1>3. k \in 0 .. n /\ k \in 0 .. m /\ f[k] # h[k]
  OBVIOUS
<1>4. /\ f[k] = IF k = 0 THEN g ELSE Handle(f[k - 1], rs[k])
      /\ h[k] = IF k = 0 THEN g ELSE Handle(h[k - 1], ss[k])
  BY <1>3 DEF AppliesTo
<1>5. k # 0
  BY <1>3, <1>4
<1>6. k - 1 \in 0 .. n /\ k \in 1 .. n /\ ~(k <= k - 1)
  BY <1>3, <1>5
<1>7. f[k - 1] = h[k - 1]
  BY <1>2, <1>6
<1>. QED  BY <1>3, <1>4, <1>5, <1>6, <1>7

LEMMA AppliedSequence ==
  ASSUME NEW g, NEW rs, Len(rs) \in Nat
  PROVE  \E f : AppliesTo(f, g, rs, Len(rs)) /\ Applied(g, rs) = f[Len(rs)]
<1> DEFINE f == CHOOSE f : AppliesTo(f, g, rs, Len(rs))
<1>1. AppliesTo(f, g, rs, Len(rs))
  BY SequenceExists
<1>2. Applied(g, rs) = f[Len(rs)]
  BY DEF Applied, AppliesTo
<1>. QED  BY <1>1, <1>2

LEMMA AppliedEmpty == \A g : Applied(g, <<>>) = g
<1>. TAKE g
<1>1. PICK f : AppliesTo(f, g, <<>>, 0) /\ Applied(g, <<>>) = f[0]
  BY AppliedSequence
<1>. QED  BY <1>1 DEF AppliesTo

LEMMA AppliedAppend ==
  ASSUME NEW g, NEW T, NEW rs \in Seq(T), NEW r \in T
  PROVE  Applied(g, Append(rs, r)) = Handle(Applied(g, rs), r)
<1> DEFINE n == Len(rs)
           ss == Append(rs, r)
<1>1. /\ n \in Nat /\ Len(ss) = n + 1 /\ ss[n + 1] = r
      /\ \A i \in 1 .. n : rs[i] = ss[i]
  OBVIOUS
<1>2. PICK f : AppliesTo(f, g, rs, n) /\ Applied(g, rs) = f[n]
  BY <1>1, AppliedSequence
<1>. HIDE DEF n, ss
<1>3. PICK h : AppliesTo(h, g, ss, n + 1) /\ Applied(g, ss) = h[n + 1]
  <2>1. Len(ss) \in Nat /\ Len(ss) = n + 1
    BY <1>1
  <2>. QED  BY <2>1, AppliedSequence
<1>4. f[n] = h[n]
  <2>1. n \in Nat /\ n + 1 \in Nat /\ n <= n + 1 /\ n \in 0 .. n
    BY <1>1
  <2>2. \A i \in 1 .. n : rs[i] = ss[i]
    BY <1>1
  <2>3. AppliesTo(f, g, rs, n) /\ AppliesTo(h, g, ss, n + 1)
    BY <1>2, <1>3
  <2> DEFINE m == n + 1
  <2>4. m \in Nat /\ n <= m /\ AppliesTo(h, g, ss, m)
    BY <2>1, <2>3
  <2> HIDE DEF m
  <2>5. \A i \in 0 .. n : f[i] = h[i]
    BY <2>1, <2>2, <2>3, <2>4, SequenceUnique
  <2>. QED  BY <2>1, <2>5
<1>5. h[n + 1] = Handle(h[n], ss[n + 1])
  BY <1>1, <1>3 DEF AppliesTo
<1>. QED  BY <1>1, <1>2, <1>3, <1>4, <1>5 DEF ss

(* What every result keeps, all of them keep: S[i] after the first i.      *)
LEMMA AppliedKeeps ==
  ASSUME NEW g, NEW rs, Len(rs) \in Nat, NEW S, g \in S[0],
         \A i \in 1 .. Len(rs) : \A x \in S[i - 1] : Handle(x, rs[i]) \in S[i]
  PROVE  Applied(g, rs) \in S[Len(rs)]
<1>1. PICK f : AppliesTo(f, g, rs, Len(rs)) /\ Applied(g, rs) = f[Len(rs)]
  BY AppliedSequence
<1> DEFINE Leaves == {i \in 0 .. Len(rs) : f[i] \notin S[i]}
<1>2. SUFFICES ASSUME Leaves # {} PROVE FALSE
  BY <1>1
<1>3. PICK k \in Leaves : \A j \in Leaves : k <= j
  <2>1. Leaves \in SUBSET Nat
    OBVIOUS
  <2>. HIDE DEF Leaves
  <2>. QED  BY <1>2, <2>1, LeastNatural
<1>4. k \in 0 .. Len(rs) /\ f[k] \notin S[k]
  OBVIOUS
<1>5. f[k] = IF k = 0 THEN g ELSE Handle(f[k - 1], rs[k])
  BY <1>1, <1>4 DEF AppliesTo
<1>6. k # 0
  BY <1>4, <1>5
<1>7. k - 1 \in 0 .. Len(rs) /\ k \in 1 .. Len(rs) /\ ~(k <= k - 1)
  BY <1>4, <1>6
<1>8. f[k - 1] \in S[k - 1]
  BY <1>3, <1>7
<1>. QED  BY <1>4, <1>5, <1>6, <1>7, <1>8

(* What two interfaces share, they share after the same results.           *)
LEMMA AppliedRelated ==
  ASSUME NEW R, NEW rs, Len(rs) \in Nat, NEW g, NEW h, <<g, h>> \in R,
         \A i \in 1 .. Len(rs) : \A x, y :
           <<x, y>> \in R => <<Handle(x, rs[i]), Handle(y, rs[i])>> \in R
  PROVE  <<Applied(g, rs), Applied(h, rs)>> \in R
<1> DEFINE n == Len(rs)
<1>1. PICK f : AppliesTo(f, g, rs, n) /\ Applied(g, rs) = f[n]
  BY AppliedSequence
<1>2. PICK e : AppliesTo(e, h, rs, n) /\ Applied(h, rs) = e[n]
  BY AppliedSequence
<1> DEFINE Parts == {i \in 0 .. n : <<f[i], e[i]>> \notin R}
<1>3. SUFFICES ASSUME Parts # {} PROVE FALSE
  BY <1>1, <1>2
<1>4. PICK k \in Parts : \A j \in Parts : k <= j
  <2>1. Parts \in SUBSET Nat
    OBVIOUS
  <2>. HIDE DEF Parts
  <2>. QED  BY <1>3, <2>1, LeastNatural
<1>5. k \in 0 .. n /\ <<f[k], e[k]>> \notin R
  OBVIOUS
<1>6. /\ f[k] = IF k = 0 THEN g ELSE Handle(f[k - 1], rs[k])
      /\ e[k] = IF k = 0 THEN h ELSE Handle(e[k - 1], rs[k])
  BY <1>1, <1>2, <1>5 DEF AppliesTo
<1>7. k # 0
  BY <1>5, <1>6
<1>8. k - 1 \in 0 .. n /\ k \in 1 .. n /\ ~(k <= k - 1)
  BY <1>5, <1>7
<1>9. <<f[k - 1], e[k - 1]>> \in R
  BY <1>4, <1>8
<1>. QED  BY <1>5, <1>6, <1>7, <1>8, <1>9
-----------------------------------------------------------------------------
(* The queues between the threads: their types, and their order. What the  *)
(* user asked for is alone and comes last: nothing is submitted behind it  *)
(* until its result has been applied.                                      *)
Refreshes == {"poll", "refresh_storage"}

UserLast ==
  ~closing =>
    /\ \A i \in DOMAIN commands :
         /\ commands[i].op \in User
         /\ ~commands[i].background => i = Len(commands) /\ commands[i].op = busy
    /\ job # NoJob /\ ~job.background => commands = <<>> /\ job.op = busy
    /\ \A i \in DOMAIN results :
         ~results[i].background => /\ i = Len(results) /\ results[i].op = busy
                                   /\ job = NoJob /\ commands = <<>>

BackgroundRefreshes ==
  /\ \A i \in DOMAIN commands : commands[i].background => commands[i].op \in Refreshes
  /\ job # NoJob /\ job.background => job.op \in Refreshes
  /\ \A i \in DOMAIN results : results[i].background => results[i].op \in Refreshes

QInv == IInv /\ TypeOK /\ UserLast /\ BackgroundRefreshes

(* The actions by what they do to the queues.                              *)
Submits ==
  \/ Connect \/ Disconnect \/ RefreshSensors \/ RefreshStorage \/ StartPeriodic
  \/ StopPeriodic \/ SingleSample \/ AckAlarm \/ TickPoll \/ TickStorage

DeviceActs == RecordsRow \/ RunEnds \/ ScheduleFires \/ Flushes \/ Drains \/ Resets

Answered ==
  \E error \in Error, acked \in BOOLEAN, running \in BOOLEAN : Answer(error, acked, running)

GoesOn == ~LastStep /\ job' = Learns /\ UNCHANGED results

LEMMA SubmitsOne ==
  ASSUME gui \in GuiState, Submits
  PROVE  /\ Free /\ gui' \in GuiState
         /\ \E op \in User, background \in BOOLEAN :
              Submit(op, background) /\ (background => op \in Refreshes)
<1>1. Free
  BY DEF Submits, Connect, Disconnect, RefreshSensors, RefreshStorage, StartPeriodic,
         StopPeriodic, SingleSample, AckAlarm, TickPoll, TickStorage, Click
<1>2. gui' \in GuiState
  BY DEF Submits, Connect, Disconnect, RefreshSensors, RefreshStorage, StartPeriodic,
         StopPeriodic, SingleSample, AckAlarm, TickPoll, TickStorage, GuiState,
         Connection, Acquisition
<1>3. \E op \in User, background \in BOOLEAN :
        Submit(op, background) /\ (background => op \in Refreshes)
  BY DEF Submits, Connect, Disconnect, RefreshSensors, RefreshStorage, StartPeriodic,
         StopPeriodic, SingleSample, AckAlarm, TickPoll, TickStorage, User, Refreshes
<1>. QED  BY <1>1, <1>2, <1>3

LEMMA FailAnswers ==
  ASSUME NEW error \in Error, job \in AnyJob, Fail(error)
  PROVE  Answered
<1>1. (Request \in {"readback", "observe"} \/ error = "state") \in BOOLEAN
      /\ job.running \in BOOLEAN
  BY DEF AnyJob
<1>. QED  BY <1>1 DEF Fail, Answered

LEMMA WorkerSteps ==
  ASSUME TypeOK, Typed, WorkerNext
  PROVE  /\ UNCHANGED host
         /\ \/ Take
            \/ /\ job # NoJob /\ UNCHANGED <<commands, ended>>
               /\ Answered \/ GoesOn \/ UNCHANGED <<job, results>>
<1>1. UNCHANGED host
  BY DEF WorkerNext, Take, Transacts, LineFails, Refused, ClosesPort, OpensPort,
         DrainSettles, DrainReadBreaks, DrainGivesUp
<1>2. CASE Take
  BY <1>1, <1>2
<1>3. CASE ~Take
  <2>1. job # NoJob /\ UNCHANGED <<commands, ended>> /\ job \in AnyJob
    BY <1>3 DEF WorkerNext, Transacts, LineFails, Refused, ClosesPort, OpensPort,
         DrainSettles, DrainReadBreaks, DrainGivesUp, Working, Typed
  <2>2. /\ {"timeout", "protocol", "transport", "state", "exception", "none"} \subseteq Error
        /\ dev.run \in {"off", "host", "other"} /\ job.running \in BOOLEAN
    BY <2>1, DeviceFields DEF Error, Typed, AnyJob
  <2>3. CASE Transacts
    <3>1. Learns.running \in BOOLEAN
      BY <2>1, <2>2, Zenon DEF Learns, AnyJob
    <3>2. CASE LastStep
      <4>1. Answer("none", FALSE, Learns.running)
        BY <2>3, <3>2 DEF Transacts
      <4>2. "none" \in Error /\ FALSE \in BOOLEAN
        BY <2>2
      <4>. QED  BY <1>1, <2>1, <3>1, <4>1, <4>2, Zenon DEF Answered
    <3>3. CASE ~LastStep
      BY <1>1, <2>1, <2>3, <3>3 DEF Transacts, GoesOn
    <3>. QED  BY <3>2, <3>3
  <2>4. CASE LineFails
    BY <2>1, <2>2, <2>4, FailAnswers DEF LineFails
  <2>5. CASE Refused
    BY <2>1, <2>2, <2>5, FailAnswers DEF Refused
  <2>6. CASE ClosesPort
    BY <2>1, <2>2, <2>6, FailAnswers DEF ClosesPort, Answered, GoesOn
  <2>7. CASE OpensPort
    BY <2>1, <2>2, <2>7, FailAnswers, RequestPlaces DEF OpensPort, GoesOn
  <2>8. CASE DrainSettles \/ DrainGivesUp
    BY <2>1, <2>2, <2>8, FailAnswers DEF DrainSettles, DrainGivesUp, Answered
  <2>9. CASE DrainReadBreaks
    BY <1>1, <2>1, <2>9 DEF DrainReadBreaks
  <2>. QED  BY <1>1, <1>3, <2>1, <2>3, <2>4, <2>5, <2>6, <2>7, <2>8, <2>9 DEF WorkerNext
<1>. QED  BY <1>2, <1>3

LEMMA HandleTyped ==
  ASSUME NEW g \in GuiState, NEW r \in Result
  PROVE  Handle(g, r) \in GuiState
<1>1. /\ r.op \in User /\ r.error \in Error /\ r.acked \in BOOLEAN /\ r.running \in BOOLEAN
      /\ g.acquisition \in Acquisition /\ g.connection \in Connection
  BY DEF Result, GuiState
<1>2. /\ ApplyRunState(g.acquisition, r.running) \in Acquisition
      /\ StartFailure(r) \in Acquisition
      /\ \A c \in Connection : StateForError(r.error, c) \in Connection
  BY <1>1 DEF ApplyRunState, StartFailure, StateForError, Acquisition, Connection
<1>3. \A h \in GuiState, s \in Connection, a \in Acquisition, b \in BOOLEAN :
        /\ [h EXCEPT !.connection = s] \in GuiState
        /\ [h EXCEPT !.session_open = b] \in GuiState
        /\ [h EXCEPT !.acquisition = a] \in GuiState
        /\ [h EXCEPT !.next_poll = b] \in GuiState
        /\ [h EXCEPT !.next_storage = b] \in GuiState
  BY DEF GuiState
<1>4. \A s \in Connection, a \in Acquisition, o, p, q \in BOOLEAN :
        /\ [g EXCEPT !.connection = s, !.session_open = o, !.next_poll = p,
                     !.next_storage = q] \in GuiState
        /\ [g EXCEPT !.connection = s, !.session_open = o, !.acquisition = a,
                     !.next_poll = p] \in GuiState
  <2>. TAKE s \in Connection, a \in Acquisition, o, p, q \in BOOLEAN
  <2> DEFINE h == [g EXCEPT !.connection = s, !.session_open = o]
  <2>1. h \in GuiState
    BY <1>3
  <2>2. [h EXCEPT !.next_poll = p, !.next_storage = q] \in GuiState
    <3> HIDE DEF h
    <3>. QED  BY <1>3, <2>1
  <2>3. [h EXCEPT !.acquisition = a, !.next_poll = p] \in GuiState
    <3> HIDE DEF h
    <3>. QED  BY <1>3, <2>1
  <2>. QED  BY <2>2, <2>3
<1>5. {"STOPPED", "RUNNING", "STOP_UNCONFIRMED"} \subseteq Acquisition
      /\ {"CONNECTED", "DISCONNECTED"} \subseteq Connection
      /\ {TRUE, FALSE} \subseteq BOOLEAN
  BY DEF Acquisition, Connection
<1>6. HandleSuccess(g, r) \in GuiState
  BY <1>2, <1>3, <1>4, <1>5, Zenon DEF HandleSuccess
<1>7. HandleFailure(g, r) \in GuiState
  <2>1. [g EXCEPT !.connection = StateForError(r.error, @)] \in GuiState
    BY <1>1, <1>2, <1>3
  <2>. QED  BY <1>2, <1>3, <1>4, <1>5, <2>1 DEF HandleFailure, PollFailure
<1>. QED  BY <1>6, <1>7 DEF Handle

LEMMA AppliedTyped ==
  ASSUME NEW g \in GuiState, NEW rs \in Seq(Result)
  PROVE  Applied(g, rs) \in GuiState
<1> DEFINE S == [i \in Nat |-> GuiState]
<1>1. Len(rs) \in Nat /\ \A i \in 1 .. Len(rs) : rs[i] \in Result
  OBVIOUS
<1>2. \A i \in 1 .. Len(rs) : \A x \in S[i - 1] : Handle(x, rs[i]) \in S[i]
  BY <1>1, HandleTyped
<1>3. g \in S[0]
  OBVIOUS
<1>4. Applied(g, rs) \in S[Len(rs)]
  <2> HIDE DEF S
  <2>. QED  BY <1>1, <1>2, <1>3, AppliedKeeps
<1>. QED  BY <1>1, <1>4
-----------------------------------------------------------------------------
(* The order of the queues, action by action.                              *)
Orderly == UserLast /\ BackgroundRefreshes

LEMMA SubmitOrderly ==
  ASSUME QInv, NEW op \in User, NEW background \in BOOLEAN,
         background => op \in Refreshes, Free, Submit(op, background)
  PROVE  Orderly'
<1>1. /\ commands \in Seq(CommandRec) /\ busy = Idle /\ ~closing
      /\ commands' = Append(commands, [op |-> op, background |-> background])
      /\ busy' = (IF background THEN busy ELSE op)
      /\ UNCHANGED <<closing, results, job>>
  BY DEF QInv, TypeOK, Free, Submit
<1>2. /\ DOMAIN commands' = 1 .. Len(commands) + 1 /\ Len(commands') = Len(commands) + 1
      /\ DOMAIN commands = 1 .. Len(commands) /\ Len(commands) \in Nat
      /\ \A i \in 1 .. Len(commands) : commands'[i] = commands[i]
      /\ commands'[Len(commands) + 1] = [op |-> op, background |-> background]
  BY <1>1
<1>3. /\ \A i \in DOMAIN commands : commands[i].op \in User /\ commands[i].background
      /\ job # NoJob => job.background
      /\ \A i \in DOMAIN results : results[i].background
  <2>1. Idle \notin User
    BY DEF Idle, User
  <2>2. job # NoJob => job.op \in User
    BY DEF QInv, IInv, Typed, AnyJob
  <2>3. \A i \in DOMAIN results : results[i].op \in User
    <3>1. results \in Seq(Result)
      BY DEF QInv, TypeOK
    <3>2. \A i \in DOMAIN results : results[i] \in Result
      BY <3>1
    <3>. QED  BY <3>2 DEF Result
  <2>4. UserLast
    BY DEF QInv
  <2>. QED  BY <1>1, <2>1, <2>2, <2>3, <2>4 DEF UserLast
<1>4. UserLast'
  BY <1>1, <1>2, <1>3 DEF UserLast
<1>5. BackgroundRefreshes'
  <2>1. BackgroundRefreshes
    BY DEF QInv
  <2>. QED  BY <1>1, <1>2, <2>1 DEF BackgroundRefreshes
<1>. QED  BY <1>4, <1>5 DEF Orderly

LEMMA TakeOrderly ==
  ASSUME QInv, Take
  PROVE  Orderly'
<1>1. /\ commands \in Seq(CommandRec) /\ commands # <<>> /\ commands' = Tail(commands)
      /\ job = NoJob /\ UNCHANGED <<results, busy, closing>>
      /\ job' = NoJob \/ (job'.op = commands[1].op /\ job'.background = commands[1].background)
  <2>1. /\ commands \in Seq(CommandRec) /\ commands # <<>> /\ commands' = Tail(commands)
        /\ job = NoJob /\ UNCHANGED <<results, busy, closing>>
        /\ job' = NoJob \/ job' = [op |-> Head(commands).op,
                                   background |-> Head(commands).background, step |-> 1,
                                   before |-> 0, running |-> FALSE]
    BY DEF QInv, TypeOK, Take, host
  <2>. QED  BY <2>1
<1>2. /\ DOMAIN commands = 1 .. Len(commands) /\ Len(commands) \in Nat \ {0}
      /\ DOMAIN commands' = 1 .. Len(commands) - 1 /\ Len(commands') = Len(commands) - 1
      /\ \A i \in 1 .. Len(commands) - 1 : commands'[i] = commands[i + 1]
      /\ Len(commands) = 1 => commands' = <<>>
  BY <1>1
<1>3. UserLast /\ BackgroundRefreshes
  BY DEF QInv
<1>4. UserLast'
  <2>1. SUFFICES ASSUME ~closing PROVE UserLast'
    BY <1>1 DEF UserLast
  <2>2. \A i \in DOMAIN results : results[i].background
    BY <1>1, <1>3, <2>1 DEF UserLast
  <2>3. \A i \in DOMAIN commands' :
           /\ commands'[i].op \in User
           /\ ~commands'[i].background => i = Len(commands') /\ commands'[i].op = busy'
    <3>. TAKE i \in DOMAIN commands'
    <3>1. i + 1 \in DOMAIN commands /\ commands'[i] = commands[i + 1]
      BY <1>2
    <3>. QED  BY <1>1, <1>2, <1>3, <2>1, <3>1 DEF UserLast
  <2>4. ~commands[1].background => commands' = <<>> /\ commands[1].op = busy
    BY <1>2, <1>3, <2>1 DEF UserLast
  <2>. QED  BY <1>1, <2>2, <2>3, <2>4 DEF UserLast
<1>5. BackgroundRefreshes'
  <2>1. \A i \in DOMAIN commands' : commands'[i].background => commands'[i].op \in Refreshes
    <3>. TAKE i \in DOMAIN commands'
    <3>1. i + 1 \in DOMAIN commands /\ commands'[i] = commands[i + 1]
      BY <1>2
    <3>. QED  BY <1>3, <3>1 DEF BackgroundRefreshes
  <2>2. commands[1].background => commands[1].op \in Refreshes
    BY <1>2, <1>3 DEF BackgroundRefreshes
  <2>. QED  BY <1>1, <1>3, <2>1, <2>2 DEF BackgroundRefreshes
<1>. QED  BY <1>4, <1>5 DEF Orderly

(* What an answer adds to the results.                                     *)
LEMMA AnswerAppends ==
  ASSUME TypeOK, job \in AnyJob, Answered
  PROVE  \E r \in Result :
           /\ r.op = job.op /\ r.background = job.background
           /\ job' = NoJob /\ results' = Append(results, r)
           /\ results' \in Seq(Result) /\ Len(results') = Len(results) + 1
           /\ Len(results) \in Nat /\ DOMAIN results = 1 .. Len(results)
           /\ DOMAIN results' = 1 .. Len(results) + 1 /\ results'[Len(results) + 1] = r
           /\ \A i \in 1 .. Len(results) : results'[i] = results[i]
<1>1. PICK error \in Error, acked \in BOOLEAN, running \in BOOLEAN :
        Answer(error, acked, running)
  BY DEF Answered
<1> DEFINE r == [op |-> job.op, background |-> job.background, error |-> error,
                 acked |-> acked, running |-> running]
<1>2. r \in Result /\ r.op = job.op /\ r.background = job.background
  BY DEF Result, AnyJob
<1>3. job' = NoJob /\ results' = Append(results, r) /\ results \in Seq(Result)
  BY <1>1 DEF Answer, TypeOK
<1>. HIDE DEF r
<1>. QED  BY <1>2, <1>3

LEMMA AnswerOrderly ==
  ASSUME QInv, job # NoJob, Answered, UNCHANGED <<host, commands>>
  PROVE  Orderly'
<1>1. job \in AnyJob /\ TypeOK /\ UserLast /\ BackgroundRefreshes
      /\ UNCHANGED <<busy, closing, commands>>
  BY DEF QInv, IInv, Typed, host
<1>2. PICK r \in Result :
           /\ r.op = job.op /\ r.background = job.background
           /\ job' = NoJob
           /\ Len(results') = Len(results) + 1
           /\ Len(results) \in Nat /\ DOMAIN results = 1 .. Len(results)
           /\ DOMAIN results' = 1 .. Len(results) + 1 /\ results'[Len(results) + 1] = r
           /\ \A i \in 1 .. Len(results) : results'[i] = results[i]
  BY <1>1, AnswerAppends
<1>3. UserLast'
  <2>1. ~closing => \A i \in DOMAIN results : results[i].background
    BY <1>1 DEF UserLast
  <2>. QED  BY <1>1, <1>2, <2>1 DEF UserLast
<1>4. BackgroundRefreshes'
  BY <1>1, <1>2 DEF BackgroundRefreshes
<1>. QED  BY <1>3, <1>4 DEF Orderly

LEMMA NextOrderly ==
  ASSUME QInv, [Next]_vars
  PROVE  Orderly'
<1>1. UserLast /\ BackgroundRefreshes /\ TypeOK /\ Typed
  BY DEF QInv, IInv
<1>2. CASE Submits
  BY <1>1, <1>2, SubmitsOne, SubmitOrderly DEF TypeOK
<1>3. CASE PollResults
  <2>1. /\ results' = <<>> /\ UNCHANGED <<closing, commands, job>>
        /\ \/ busy' = busy
           \/ \E i \in DOMAIN results : ~results[i].background
    BY <1>3 DEF PollResults
  <2>2. CASE busy' = busy
    BY <1>1, <2>1, <2>2 DEF UserLast, BackgroundRefreshes, Orderly
  <2>3. CASE \E i \in DOMAIN results : ~results[i].background
    BY <1>1, <2>1, <2>3 DEF UserLast, BackgroundRefreshes, Orderly
  <2>. QED  BY <2>1, <2>2, <2>3
<1>4. CASE Shutdown
  <2>1. /\ closing' /\ UNCHANGED <<results, job>> /\ commands \in Seq(CommandRec)
        /\ commands' = Append(commands, [op |-> "CLOSE", background |-> FALSE])
    BY <1>1, <1>4 DEF Shutdown, TypeOK
  <2>2. /\ DOMAIN commands' = 1 .. Len(commands) + 1 /\ Len(commands) \in Nat
        /\ DOMAIN commands = 1 .. Len(commands)
        /\ \A i \in 1 .. Len(commands) : commands'[i] = commands[i]
        /\ commands'[Len(commands) + 1].background = FALSE
    BY <2>1
  <2>3. UserLast'
    BY <2>1 DEF UserLast
  <2>4. BackgroundRefreshes'
    BY <1>1, <2>1, <2>2 DEF BackgroundRefreshes
  <2>. QED  BY <2>3, <2>4 DEF Orderly
<1>5. CASE DeviceActs \/ Weather \/ UNCHANGED vars
  <2>1. UNCHANGED <<commands, results, job, busy, closing>>
    BY <1>5 DEF DeviceActs, RecordsRow, RunEnds, ScheduleFires, Flushes, Drains, Resets,
                Alone, worker, host, Weather, vars
  <2>. QED  BY <1>1, <2>1 DEF UserLast, BackgroundRefreshes, Orderly
<1>6. CASE WorkerNext
  <2>1. CASE Take
    BY <2>1, TakeOrderly
  <2>2. CASE job # NoJob /\ UNCHANGED <<host, commands>> /\ Answered
    BY <2>2, AnswerOrderly
  <2>3. CASE job # NoJob /\ UNCHANGED <<host, commands>> /\ GoesOn
    <3>1. job' # NoJob /\ job'.op = job.op /\ job'.background = job.background
      BY <1>1, <2>3, LearnsTyped DEF GoesOn, Learns
    <3>2. UNCHANGED <<commands, results, busy, closing>>
      BY <2>3 DEF GoesOn, host
    <3>. QED  BY <1>1, <2>3, <3>1, <3>2 DEF UserLast, BackgroundRefreshes, Orderly
  <2>4. CASE UNCHANGED <<host, commands, job, results>>
    BY <1>1, <2>4 DEF host, UserLast, BackgroundRefreshes, Orderly
  <2>. QED  BY <1>1, <1>6, <2>1, <2>2, <2>3, <2>4, WorkerSteps
<1>. QED  BY <1>2, <1>3, <1>4, <1>5, <1>6 DEF Next, Submits, DeviceActs

(* The types of everything else.                                           *)
LEMMA TypedJob ==
  ASSUME Typed
  PROVE  job \in Job \cup {NoJob}
<1>1. SUFFICES ASSUME job # NoJob PROVE job \in Job
  OBVIOUS
<1>2. job \in AnyJob /\ job.step \in 1 .. Len(Script[job.op])
  BY <1>1 DEF Typed
<1>3. Len(Script[job.op]) \in 1 .. 7
  BY <1>2, ScriptLengths DEF AnyJob
<1> DEFINE length == Len(Script[job.op])
<1>4. job.step \in 1 .. 7
  <2>1. length \in 1 .. 7 /\ job.step \in 1 .. length
    BY <1>2, <1>3
  <2> HIDE DEF length
  <2>. QED  BY <2>1
<1>. QED  BY <1>2, <1>4 DEF AnyJob, Job

LEMMA NextTyped ==
  ASSUME QInv, [Next]_vars
  PROVE  TypeOK'
<1>1. TypeOK /\ Typed /\ IInv
  BY DEF QInv, IInv
<1>2. Typed'
  BY <1>1, StepHolds DEF IInv
<1>3. commands' \in Seq(CommandRec) /\ dev' \in Device /\ (job \in Job \cup {NoJob})'
  <2>1. (job \in Job \cup {NoJob})'
    BY <1>2, TypedJob, PTL
  <2>. QED  BY <1>2, <2>1 DEF Typed
<1>4. gui' \in GuiState /\ busy' \in User \cup {Idle} /\ closing' \in BOOLEAN
  <2>1. CASE Submits
    BY <1>1, <2>1, SubmitsOne DEF TypeOK, Submit
  <2>2. CASE PollResults
    <3>1. Applied(gui, results) \in GuiState
      BY <1>1, AppliedTyped DEF TypeOK
    <3>. QED  BY <1>1, <2>2, <3>1 DEF PollResults, TypeOK
  <2>3. CASE Shutdown
    <3>1. gui' \in GuiState
      BY <1>1, <2>3 DEF Shutdown, TypeOK, GuiState, Connection
    <3>. QED  BY <2>3, <3>1 DEF Shutdown
  <2>4. CASE UNCHANGED host
    BY <1>1, <2>4 DEF TypeOK, host
  <2>5. CASE DeviceActs \/ Weather \/ UNCHANGED vars
    <3>1. UNCHANGED host
      BY <2>5 DEF DeviceActs, RecordsRow, RunEnds, ScheduleFires, Flushes, Drains, Resets,
                  Alone, Weather, vars
    <3>. QED  BY <2>4, <3>1
  <2>. QED  BY <1>1, <2>1, <2>2, <2>3, <2>4, <2>5, WorkerSteps DEF Next, Submits, DeviceActs
<1>5. results' \in Seq(Result)
  <2>1. CASE UNCHANGED results
    BY <1>1, <2>1 DEF TypeOK
  <2>2. CASE PollResults
    BY <2>2 DEF PollResults
  <2>3. CASE Submits
    BY <1>1, <2>1, <2>3, SubmitsOne DEF TypeOK, Submit
  <2>4. CASE Shutdown \/ DeviceActs \/ Weather \/ UNCHANGED vars
    <3>1. UNCHANGED results
      BY <2>4 DEF Shutdown, DeviceActs, RecordsRow, RunEnds, ScheduleFires, Flushes, Drains,
                  Resets, Alone, worker, Weather, vars
    <3>. QED  BY <2>1, <3>1
  <2>5. CASE WorkerNext
    <3>1. CASE job # NoJob /\ Answered
      <4>1. job \in AnyJob
        BY <1>1, <3>1 DEF Typed
      <4>. QED  BY <1>1, <3>1, <4>1, AnswerAppends
    <3>2. CASE Take
      BY <2>1, <3>2 DEF Take
    <3>. QED  BY <1>1, <2>1, <2>5, <3>1, <3>2, WorkerSteps DEF GoesOn
  <2>. QED  BY <2>2, <2>3, <2>4, <2>5 DEF Next, Submits, DeviceActs
<1>6. /\ ended' \in BOOLEAN /\ client' \in {"none", "open", "closed"}
      /\ calm' \in BOOLEAN /\ told' \in BOOLEAN /\ hidden' \in BOOLEAN
  <2>1. /\ ended \in BOOLEAN /\ client \in {"none", "open", "closed"}
        /\ calm \in BOOLEAN /\ told \in BOOLEAN /\ hidden \in BOOLEAN
    BY <1>1 DEF TypeOK
  <2>2. CASE Submits
    BY <1>1, <2>1, <2>2, SubmitsOne DEF TypeOK, Submit
  <2>3. CASE PollResults \/ Shutdown \/ DeviceActs \/ Weather \/ UNCHANGED vars
    BY <2>1, <2>3 DEF PollResults, Shutdown, DeviceActs, RecordsRow, RunEnds, ScheduleFires,
                      Flushes, Drains, Resets, Alone, worker, Weather, vars
  <2>4. CASE Take \/ ClosesPort \/ OpensPort \/ Refused \/ DrainReadBreaks \/ DrainGivesUp
             \/ DrainSettles
    BY <2>1, <2>4 DEF Take, ClosesPort, OpensPort, Refused, DrainReadBreaks, DrainGivesUp,
                      DrainSettles
  <2>5. CASE Transacts
    BY <2>1, <2>5 DEF Transacts, TakesBack
  <2>6. CASE LineFails
    <3>1. \A error : Broken(error) \subseteq {"none", "open", "closed"}
      BY DEF Broken
    <3>. QED  BY <2>1, <2>6, <3>1 DEF LineFails, TakesBack
  <2>. QED  BY <2>2, <2>3, <2>4, <2>5, <2>6 DEF Next, Submits, DeviceActs, WorkerNext
<1>. QED  BY <1>3, <1>4, <1>5, <1>6 DEF TypeOK

LEMMA InitQueues == Init => QInv
<1>. SUFFICES ASSUME Init PROVE QInv
  OBVIOUS
<1>1. IInv
  BY InitHolds
<1>2. gui \in GuiState
  BY DEF Init, GuiState, Connection, Acquisition
<1>3. TypeOK
  <2>1. /\ busy = Idle /\ results = <<>> /\ client = "none" /\ job = NoJob
        /\ closing = FALSE /\ ended = FALSE /\ calm = FALSE /\ told = FALSE /\ hidden = FALSE
    BY DEF Init
  <2>2. dev \in Device /\ commands \in Seq(CommandRec) /\ results \in Seq(Result)
    BY <1>1, <2>1 DEF IInv, Typed
  <2>. QED  BY <1>2, <2>1, <2>2 DEF TypeOK
<1>4. UserLast /\ BackgroundRefreshes
  BY DEF Init, UserLast, BackgroundRefreshes
<1>. QED  BY <1>1, <1>3, <1>4 DEF QInv

LEMMA StepQueues == QInv /\ [Next]_vars => QInv'
<1>. SUFFICES ASSUME QInv, [Next]_vars PROVE QInv'
  OBVIOUS
<1>1. IInv'
  BY StepHolds DEF QInv
<1>. QED  BY <1>1, NextTyped, NextOrderly DEF QInv, Orderly

(* TypeOK for any clicks and any number of drains: among others that an    *)
(* operation never runs past the end of its script, and that applying any  *)
(* results in order gives a state the interface has a display for.         *)
THEOREM HostTypeCorrect == Spec => []TypeOK
<1>1. QInv => TypeOK
  BY DEF QInv
<1>. QED  BY <1>1, InitQueues, StepQueues, PTL DEF Spec
-----------------------------------------------------------------------------
(* What a result does to each part of what is shown.                       *)
Telling == {"poll", "connect", "disconnect"}

OpenAfter(open, r) ==
  CASE r.op = "connect" -> r.error = "none"
    [] r.op = "disconnect" -> FALSE
    [] OTHER -> open \/ (r.op = "poll" /\ r.error = "none")

AcquisitionAfter(a, r) ==
  IF r.error = "none"
  THEN CASE r.op \in {"connect", "poll"} -> ApplyRunState(a, r.running)
         [] r.op = "start_periodic" -> IF r.running THEN "RUNNING" ELSE "STOPPED"
         [] r.op = "stop_periodic" -> IF r.running THEN "STOP_UNCONFIRMED" ELSE "STOPPED"
         [] OTHER -> a
  ELSE CASE r.op = "start_periodic" -> StartFailure(r)
         [] r.op = "stop_periodic" -> "STOP_UNCONFIRMED"
         [] OTHER -> a

HandleParts(g, r) ==
  /\ Handle(g, r).session_open = OpenAfter(g.session_open, r)
  /\ Handle(g, r).acquisition = AcquisitionAfter(g.acquisition, r)
  /\ r.op \notin Telling => Handle(g, r).next_poll = g.next_poll
  /\ r.op \in Telling /\ Handle(g, r).session_open => Handle(g, r).next_poll
  /\ Handle(g, r).connection = "DISCONNECTED" =>
       r.op = "disconnect" \/ g.connection = "DISCONNECTED"

LEMMA HandleDoes ==
  ASSUME NEW g \in GuiState, NEW r \in Result
  PROVE  HandleParts(g, r)
<1>1. r.op \in User
  BY DEF Result
<1>2. StateForError(r.error, "CONNECTED") # "DISCONNECTED"
      /\ (StateForError(r.error, g.connection) = "DISCONNECTED"
            => g.connection = "DISCONNECTED")
  BY DEF StateForError
<1>3. CASE r.error = "none"
  <2>1. Handle(g, r) = HandleSuccess(g, r)
    BY <1>3 DEF Handle
  <2>2. CASE r.op \in {"connect", "poll", "disconnect"}
    BY <1>3, <2>1, <2>2
    DEF HandleParts, HandleSuccess, OpenAfter, AcquisitionAfter, Telling, GuiState
  <2>3. CASE r.op \in {"start_periodic", "stop_periodic", "refresh_storage"}
    BY <1>3, <2>1, <2>3
    DEF HandleParts, HandleSuccess, OpenAfter, AcquisitionAfter, Telling, GuiState
  <2>4. CASE r.op \in {"single_sample", "ack_alarm"}
    BY <1>3, <2>1, <2>4
    DEF HandleParts, HandleSuccess, OpenAfter, AcquisitionAfter, Telling, GuiState
  <2>. QED  BY <1>1, <2>2, <2>3, <2>4 DEF User
<1>4. CASE r.error # "none"
  <2>1. Handle(g, r) = HandleFailure(g, r)
    BY <1>4 DEF Handle
  <2>2. CASE r.op \in {"connect", "disconnect"}
    BY <1>2, <1>4, <2>1, <2>2
    DEF HandleParts, HandleFailure, OpenAfter, AcquisitionAfter, Telling, GuiState
  <2>3. CASE r.op \in {"poll", "refresh_storage"}
    BY <1>2, <1>4, <2>1, <2>3
    DEF HandleParts, HandleFailure, PollFailure, OpenAfter, AcquisitionAfter, Telling,
        GuiState
  <2>4. CASE r.op \in {"start_periodic", "stop_periodic"}
    BY <1>2, <1>4, <2>1, <2>4
    DEF HandleParts, HandleFailure, OpenAfter, AcquisitionAfter, Telling, GuiState
  <2>5. CASE r.op \in {"single_sample", "ack_alarm"}
    BY <1>2, <1>4, <2>1, <2>5
    DEF HandleParts, HandleFailure, OpenAfter, AcquisitionAfter, Telling, GuiState
  <2>. QED  BY <1>1, <2>2, <2>3, <2>4, <2>5 DEF User
<1>. QED  BY <1>3, <1>4

(* Interfaces that agree on the session, or of which the second shows      *)
(* STOPPED only where the first does, go on so.                            *)
SameSession == {p \in GuiState \X GuiState : p[1].session_open = p[2].session_open}
StoppedFirst == {p \in GuiState \X GuiState :
                   p[2].acquisition = "STOPPED" => p[1].acquisition = "STOPPED"}

LEMMA AppliedAgree ==
  ASSUME NEW g \in GuiState, NEW h \in GuiState, NEW rs \in Seq(Result)
  PROVE  /\ g.session_open = h.session_open
              => Applied(g, rs).session_open = Applied(h, rs).session_open
         /\ (h.acquisition = "STOPPED" => g.acquisition = "STOPPED")
              => (Applied(h, rs).acquisition = "STOPPED"
                    => Applied(g, rs).acquisition = "STOPPED")
<1>1. Len(rs) \in Nat /\ \A i \in 1 .. Len(rs) : rs[i] \in Result
  OBVIOUS
<1>2. \A i \in 1 .. Len(rs) : \A x, y :
        <<x, y>> \in SameSession => <<Handle(x, rs[i]), Handle(y, rs[i])>> \in SameSession
  <2>1. TAKE i \in 1 .. Len(rs)
  <2>2. TAKE x, y
  <2>3. HAVE <<x, y>> \in SameSession
  <2>4. x \in GuiState /\ y \in GuiState /\ x.session_open = y.session_open /\ rs[i] \in Result
    BY <1>1, <2>3 DEF SameSession
  <2>5. Handle(x, rs[i]).session_open = Handle(y, rs[i]).session_open
    BY <2>4, HandleDoes DEF HandleParts
  <2>. QED  BY <2>4, <2>5, HandleTyped DEF SameSession
<1>3. \A i \in 1 .. Len(rs) : \A x, y :
        <<x, y>> \in StoppedFirst => <<Handle(x, rs[i]), Handle(y, rs[i])>> \in StoppedFirst
  <2>1. TAKE i \in 1 .. Len(rs)
  <2>2. TAKE x, y
  <2>3. HAVE <<x, y>> \in StoppedFirst
  <2>4. /\ x \in GuiState /\ y \in GuiState /\ rs[i] \in Result
        /\ y.acquisition = "STOPPED" => x.acquisition = "STOPPED"
    BY <1>1, <2>3 DEF StoppedFirst
  <2>5. /\ Handle(x, rs[i]).acquisition = AcquisitionAfter(x.acquisition, rs[i])
        /\ Handle(y, rs[i]).acquisition = AcquisitionAfter(y.acquisition, rs[i])
    BY <2>4, HandleDoes DEF HandleParts
  <2>6. AcquisitionAfter(y.acquisition, rs[i]) = "STOPPED"
          => AcquisitionAfter(x.acquisition, rs[i]) = "STOPPED"
    BY <2>4 DEF AcquisitionAfter, ApplyRunState
  <2>. QED  BY <2>4, <2>5, <2>6, HandleTyped DEF StoppedFirst
<1>4. g.session_open = h.session_open => <<Applied(g, rs), Applied(h, rs)>> \in SameSession
  <2>1. SUFFICES ASSUME g.session_open = h.session_open
                 PROVE  <<Applied(g, rs), Applied(h, rs)>> \in SameSession
    OBVIOUS
  <2>2. <<g, h>> \in SameSession
    BY <2>1 DEF SameSession
  <2>. QED  BY <1>1, <1>2, <2>2, AppliedRelated
<1>5. (h.acquisition = "STOPPED" => g.acquisition = "STOPPED")
        => <<Applied(g, rs), Applied(h, rs)>> \in StoppedFirst
  <2>1. SUFFICES ASSUME h.acquisition = "STOPPED" => g.acquisition = "STOPPED"
                 PROVE  <<Applied(g, rs), Applied(h, rs)>> \in StoppedFirst
    OBVIOUS
  <2>2. <<g, h>> \in StoppedFirst
    BY <2>1 DEF StoppedFirst
  <2>. QED  BY <1>1, <1>3, <2>2, AppliedRelated
<1>. QED  BY <1>4, <1>5 DEF SameSession, StoppedFirst
-----------------------------------------------------------------------------
(* A session that is shown is polled; what is shown as disconnected, or    *)
(* after shutdown(), has nothing left under way that could bring it back.  *)
Closed == closing => ~gui.session_open /\ gui.connection = "DISCONNECTED"

Disconnected ==
  gui.connection = "DISCONNECTED" => ~gui.session_open /\ (closing \/ Quiet)

ShownInv == QInv /\ Closed /\ Disconnected /\ PollAlive

(* The actions of the two threads by what they do to what is shown.        *)
LEMMA OthersKeepGui ==
  ASSUME QInv, [Next]_vars
  PROVE  Submits \/ PollResults \/ Shutdown \/ UNCHANGED host
<1>1. CASE DeviceActs \/ Weather \/ UNCHANGED vars
  BY <1>1 DEF DeviceActs, RecordsRow, RunEnds, ScheduleFires, Flushes, Drains, Resets,
              Alone, Weather, vars
<1>2. CASE WorkerNext
  BY <1>2, WorkerSteps DEF QInv, IInv
<1>. QED  BY <1>1, <1>2 DEF Next, Submits, DeviceActs

(* A click or a tick, and the parts of what is shown that it changes.      *)
LEMMA SubmitsShow ==
  ASSUME gui \in GuiState, Submits
  PROVE  /\ UNCHANGED <<results, job, client, dev, closing, hidden>> /\ ~closing /\ busy = Idle
         /\ \/ Connect
            \/ /\ gui'.session_open = gui.session_open
               /\ gui'.connection = gui.connection
               /\ gui.connection # "DISCONNECTED" \/ gui.session_open
         /\ \/ gui'.acquisition = gui.acquisition
            \/ gui'.acquisition \in {"STARTING", "STOPPING"} /\ busy' # Idle
         /\ \/ Connect \/ RefreshSensors \/ TickPoll
            \/ gui'.next_poll = gui.next_poll
<1>1. UNCHANGED <<results, job, client, dev, closing, hidden>> /\ ~closing /\ busy = Idle
  BY DEF Submits, Connect, Disconnect, RefreshSensors, RefreshStorage, StartPeriodic,
         StopPeriodic, SingleSample, AckAlarm, TickPoll, TickStorage, Click, Free, Submit
<1>2. \/ Connect
      \/ /\ gui'.session_open = gui.session_open
         /\ gui'.connection = gui.connection
         /\ gui.connection # "DISCONNECTED" \/ gui.session_open
  BY DEF Submits, Disconnect, RefreshSensors, RefreshStorage, StartPeriodic,
         StopPeriodic, SingleSample, AckAlarm, TickPoll, TickStorage, GuiState
<1>3. \/ gui'.acquisition = gui.acquisition
      \/ gui'.acquisition \in {"STARTING", "STOPPING"} /\ busy' # Idle
  BY DEF Submits, Connect, Disconnect, RefreshSensors, RefreshStorage, StartPeriodic,
         StopPeriodic, SingleSample, AckAlarm, TickPoll, TickStorage, GuiState, Submit, Idle
<1>4. \/ Connect \/ RefreshSensors \/ TickPoll
      \/ gui'.next_poll = gui.next_poll
  BY DEF Submits, Disconnect, RefreshStorage, StartPeriodic, StopPeriodic, SingleSample,
         AckAlarm, TickStorage, GuiState
<1>. QED  BY <1>1, <1>2, <1>3, <1>4

LEMMA ConnectShows ==
  ASSUME gui \in GuiState, Connect
  PROVE  ~gui'.session_open /\ gui'.connection = "CONNECTING"
  BY DEF Connect, GuiState

LEMMA ClosedHolds ==
  ASSUME QInv, Closed, [Next]_vars
  PROVE  Closed'
<1>1. gui \in GuiState
  BY DEF QInv, TypeOK
<1>2. CASE Submits
  BY <1>1, <1>2, SubmitsShow DEF Closed
<1>3. CASE PollResults
  <2>1. closing' = closing /\ (closing => gui' = gui)
    BY <1>3 DEF PollResults
  <2>. QED  BY <2>1 DEF Closed
<1>4. CASE Shutdown
  BY <1>1, <1>4 DEF Shutdown, GuiState, Closed
<1>5. CASE UNCHANGED host
  BY <1>5 DEF host, Closed
<1>. QED  BY <1>2, <1>3, <1>4, <1>5, OthersKeepGui

(* Only the answer to a disconnect shows DISCONNECTED, and it is the last. *)
LEMMA AppliedDisconnected ==
  ASSUME QInv, ~closing, results # <<>>, gui.connection # "DISCONNECTED",
         Applied(gui, results).connection = "DISCONNECTED"
  PROVE  /\ ~Applied(gui, results).session_open
         /\ commands = <<>> /\ job = NoJob
<1> DEFINE n == Len(results)
           S == [i \in Nat |-> {g \in GuiState : g.connection = "DISCONNECTED" =>
                    ~g.session_open /\ i = n /\ commands = <<>> /\ job = NoJob}]
<1>1. /\ gui \in GuiState /\ results \in Seq(Result) /\ UserLast /\ BackgroundRefreshes
  BY DEF QInv, TypeOK
<1>2. /\ n \in Nat \ {0} /\ DOMAIN results = 1 .. n
      /\ \A i \in 1 .. n : results[i] \in Result
  BY <1>1
<1>3. ASSUME NEW i \in 1 .. n, NEW x \in S[i - 1]
      PROVE  Handle(x, results[i]) \in S[i]
  <2>1. /\ i - 1 \in Nat /\ i \in Nat /\ i - 1 # n
        /\ x \in GuiState /\ x.connection # "DISCONNECTED"
    <3>1. i - 1 \in Nat /\ i \in Nat /\ i - 1 # n
      BY <1>2
    <3>. QED  BY <3>1
  <2>2. HandleParts(x, results[i]) /\ Handle(x, results[i]) \in GuiState
    BY <1>2, <2>1, HandleDoes, HandleTyped
  <2>3. CASE Handle(x, results[i]).connection = "DISCONNECTED"
    <3>1. results[i].op = "disconnect" /\ ~Handle(x, results[i]).session_open
      BY <2>1, <2>2, <2>3 DEF HandleParts, OpenAfter
    <3>2. ~results[i].background
      BY <1>1, <1>2, <3>1 DEF BackgroundRefreshes, Refreshes
    <3>3. i = n /\ job = NoJob /\ commands = <<>>
      BY <1>1, <1>2, <3>2 DEF UserLast
    <3>. HIDE DEF n
    <3>. QED  BY <2>1, <2>2, <3>1, <3>3
  <2>4. CASE Handle(x, results[i]).connection # "DISCONNECTED"
    BY <2>1, <2>2, <2>4
  <2>. QED  BY <2>3, <2>4
<1>4. gui \in S[0]
  BY <1>1
<1>5. Applied(gui, results) \in S[n]
  <2>1. \A i \in 1 .. n : \A x \in S[i - 1] : Handle(x, results[i]) \in S[i]
    BY <1>3
  <2> HIDE DEF S
  <2>. QED  BY <1>2, <1>4, <2>1, AppliedKeeps
<1>. QED  BY <1>2, <1>5

LEMMA DisconnectedHolds ==
  ASSUME QInv, Closed, Disconnected, [Next]_vars
  PROVE  Disconnected'
<1>1. gui \in GuiState
  BY DEF QInv, TypeOK
<1>2. CASE Submits
  BY <1>1, <1>2, SubmitsShow, ConnectShows DEF Disconnected
<1>3. CASE PollResults
  <2>1. /\ results # <<>> /\ results' = <<>> /\ UNCHANGED <<closing, commands, job>>
        /\ gui' = IF closing THEN gui ELSE Applied(gui, results)
    BY <1>3 DEF PollResults
  <2>2. CASE closing
    BY <2>1, <2>2 DEF Disconnected
  <2>3. CASE ~closing
    <3>1. gui.connection # "DISCONNECTED"
      BY <2>1, <2>3 DEF Disconnected, Quiet
    <3>. QED  BY <2>1, <2>3, <3>1, AppliedDisconnected DEF Disconnected, Quiet
  <2>. QED  BY <2>2, <2>3
<1>4. CASE Shutdown
  BY <1>1, <1>4 DEF Shutdown, GuiState, Disconnected
<1>5. CASE DeviceActs \/ Weather \/ UNCHANGED vars
  <2>1. UNCHANGED <<gui, closing, commands, results, job>>
    BY <1>5 DEF DeviceActs, RecordsRow, RunEnds, ScheduleFires, Flushes, Drains, Resets,
                Alone, worker, host, Weather, vars
  <2>. QED  BY <2>1 DEF Disconnected, Quiet
<1>6. CASE WorkerNext
  <2>1. UNCHANGED host /\ ~Quiet
    <3>1. Take => commands # <<>>
      BY DEF Take
    <3>. QED  BY <1>6, <3>1, WorkerSteps DEF QInv, IInv, Quiet
  <2>. QED  BY <2>1 DEF host, Disconnected
<1>. QED  BY <1>2, <1>3, <1>4, <1>5, <1>6 DEF Next, Submits, DeviceActs

(* Every answer that opens a session schedules a poll, and a poll that is  *)
(* on its way schedules the next one with its answer.                      *)
LEMMA AppliedPolls ==
  ASSUME QInv,
         gui.session_open => \/ gui.next_poll
                             \/ \E i \in DOMAIN results : results[i].op \in Telling
  PROVE  Applied(gui, results).session_open => Applied(gui, results).next_poll
<1> DEFINE n == Len(results)
           S == [i \in Nat |-> {g \in GuiState : g.session_open =>
                    g.next_poll \/ \E j \in i + 1 .. n : results[j].op \in Telling}]
<1>1. /\ gui \in GuiState /\ results \in Seq(Result) /\ n \in Nat /\ DOMAIN results = 1 .. n
      /\ \A i \in 1 .. n : results[i] \in Result
  <2>1. gui \in GuiState /\ results \in Seq(Result)
    BY DEF QInv, TypeOK
  <2>. QED  BY <2>1
<1>2. ASSUME NEW i \in 1 .. n, NEW x \in S[i - 1]
      PROVE  Handle(x, results[i]) \in S[i]
  <2>1. /\ i \in Nat /\ i - 1 \in Nat /\ (i - 1) + 1 = i /\ x \in GuiState
        /\ x.session_open => x.next_poll \/ \E j \in i .. n : results[j].op \in Telling
    BY <1>1
  <2>2. HandleParts(x, results[i]) /\ Handle(x, results[i]) \in GuiState
    BY <1>1, <2>1, HandleDoes, HandleTyped
  <2>3. ASSUME Handle(x, results[i]).session_open, ~Handle(x, results[i]).next_poll
        PROVE  \E j \in i + 1 .. n : results[j].op \in Telling
    <3>1. results[i].op \notin Telling
      BY <2>2, <2>3 DEF HandleParts
    <3>2. x.session_open /\ ~x.next_poll
      BY <2>1, <2>2, <2>3, <3>1 DEF HandleParts, OpenAfter, Telling, GuiState
    <3>3. PICK j \in i .. n : results[j].op \in Telling
      BY <2>1, <3>2
    <3>4. j \in i + 1 .. n
      BY <1>1, <2>1, <3>1, <3>3
    <3>. QED  BY <3>3, <3>4
  <2>. QED  BY <2>1, <2>2, <2>3
<1>3. gui \in S[0]
  BY <1>1
<1>4. Applied(gui, results) \in S[n]
  <2>1. \A i \in 1 .. n : \A x \in S[i - 1] : Handle(x, results[i]) \in S[i]
    BY <1>2
  <2> HIDE DEF S
  <2>. QED  BY <1>1, <1>3, <2>1, AppliedKeeps
<1>. QED  BY <1>1, <1>4

LEMMA PollAliveHolds ==
  ASSUME QInv, Closed, PollAlive, [Next]_vars
  PROVE  PollAlive'
<1>1. /\ gui \in GuiState /\ commands \in Seq(CommandRec) /\ results \in Seq(Result)
      /\ TypeOK /\ Typed
  BY DEF QInv, TypeOK, IInv
<1>2. CASE Submits
  <2>1. PICK op \in User, background \in BOOLEAN : Submit(op, background)
    BY <1>1, <1>2, SubmitsOne
  <2>2. PollOnItsWay => PollOnItsWay'
    <3>1. /\ DOMAIN commands' = 1 .. Len(commands) + 1 /\ DOMAIN commands = 1 .. Len(commands)
          /\ Len(commands) \in Nat /\ UNCHANGED <<results, job>>
          /\ \A i \in 1 .. Len(commands) : commands'[i] = commands[i]
      BY <1>1, <2>1 DEF Submit
    <3>. QED  BY <3>1 DEF PollOnItsWay
  <2>3. RefreshSensors \/ TickPoll => PollOnItsWay'
    <3>1. SUFFICES ASSUME RefreshSensors \/ TickPoll PROVE PollOnItsWay'
      OBVIOUS
    <3>2. PICK b \in BOOLEAN : commands' = Append(commands, [op |-> "poll", background |-> b])
      BY <3>1 DEF RefreshSensors, TickPoll, Submit
    <3>3. /\ Len(commands) + 1 \in DOMAIN commands'
          /\ commands'[Len(commands) + 1].op = "poll"
      BY <1>1, <3>2
    <3>. QED  BY <3>3 DEF PollOnItsWay
  <2>. QED  BY <1>1, <1>2, <2>2, <2>3, SubmitsShow, ConnectShows DEF PollAlive
<1>3. CASE PollResults
  <2>1. /\ results' = <<>> /\ UNCHANGED <<closing, commands, job>>
        /\ gui' = IF closing THEN gui ELSE Applied(gui, results)
    BY <1>3 DEF PollResults
  <2>2. CASE closing
    BY <2>1, <2>2 DEF Closed, PollAlive
  <2>3. CASE ~closing
    <3>1. CASE PollOnItsWay'
      BY <3>1 DEF PollAlive
    <3>2. CASE ~PollOnItsWay'
      <4>1. gui.session_open => \/ gui.next_poll
                                \/ \E i \in DOMAIN results : results[i].op \in Telling
        BY <2>1, <3>2 DEF PollAlive, PollOnItsWay, Telling
      <4>. QED  BY <2>1, <2>3, <4>1, AppliedPolls DEF PollAlive
    <3>. QED  BY <3>1, <3>2
  <2>. QED  BY <2>2, <2>3
<1>4. CASE Shutdown
  BY <1>1, <1>4 DEF Shutdown, GuiState, PollAlive
<1>5. CASE DeviceActs \/ Weather \/ UNCHANGED vars
  <2>1. UNCHANGED <<gui, commands, results, job>>
    BY <1>5 DEF DeviceActs, RecordsRow, RunEnds, ScheduleFires, Flushes, Drains, Resets,
                Alone, worker, host, Weather, vars
  <2>. QED  BY <2>1 DEF PollAlive, PollOnItsWay
<1>6. CASE WorkerNext
  <2>1. UNCHANGED host
    BY <1>1, <1>6, WorkerSteps
  <2>2. CASE closing
    BY <2>1, <2>2 DEF host, Closed, PollAlive
  <2>3. CASE ~closing /\ Take
    <3>1. /\ commands # <<>> /\ commands' = Tail(commands) /\ job = NoJob /\ UNCHANGED results
          /\ job' = IF commands[1].op = "CLOSE" THEN NoJob
                    ELSE [op |-> commands[1].op, background |-> commands[1].background,
                          step |-> 1, before |-> 0, running |-> FALSE]
      <4>1. Head(commands) = commands[1]
        BY <1>1, <2>3 DEF Take
      <4>. QED  BY <2>3, <4>1, Zenon DEF Take
    <3>2. /\ DOMAIN commands = 1 .. Len(commands) /\ Len(commands) \in Nat \ {0}
          /\ DOMAIN commands' = 1 .. Len(commands) - 1
          /\ \A i \in 1 .. Len(commands) - 1 : commands'[i] = commands[i + 1]
      BY <1>1, <3>1
    <3>3. ASSUME NEW i \in DOMAIN commands, commands[i].op \in Telling
          PROVE  job'.op \in Telling \/ \E k \in DOMAIN commands' : commands'[k].op \in Telling
      <4>1. CASE i = 1
        BY <3>1, <3>3, <4>1 DEF Telling
      <4>2. CASE i # 1
        <5>1. i - 1 \in DOMAIN commands' /\ commands'[i - 1] = commands[i]
          BY <3>2, <4>2
        <5>. QED  BY <3>3, <5>1
      <4>. QED  BY <4>1, <4>2
    <3>4. job.op \notin Telling
      BY <3>1 DEF NoJob, Idle, Telling
    <3>. QED  BY <2>1, <3>1, <3>3, <3>4 DEF host, PollAlive, PollOnItsWay, Telling
  <2>4. CASE job # NoJob /\ UNCHANGED commands /\ Answered
    <3>1. job \in AnyJob
      BY <1>1, <2>4 DEF Typed
    <3>2. PICK r \in Result :
            /\ r.op = job.op /\ Len(results) \in Nat /\ DOMAIN results = 1 .. Len(results)
            /\ DOMAIN results' = 1 .. Len(results) + 1 /\ results'[Len(results) + 1] = r
            /\ \A i \in 1 .. Len(results) : results'[i] = results[i]
      BY <1>1, <2>4, <3>1, AnswerAppends
    <3>3. Len(results) + 1 \in DOMAIN results' /\ (\A i \in DOMAIN results : i \in DOMAIN results')
      BY <3>2
    <3>. QED  BY <2>1, <2>4, <3>2, <3>3 DEF host, PollAlive, PollOnItsWay
  <2>5. CASE job # NoJob /\ UNCHANGED commands /\ GoesOn
    <3>1. job'.op = job.op /\ UNCHANGED results
      BY <1>1, <2>5, LearnsTyped DEF GoesOn
    <3>. QED  BY <2>1, <2>5, <3>1 DEF host, PollAlive, PollOnItsWay
  <2>6. CASE UNCHANGED <<commands, job, results>>
    BY <2>1, <2>6 DEF host, PollAlive, PollOnItsWay
  <2>. QED  BY <1>1, <1>6, <2>2, <2>3, <2>4, <2>5, <2>6, WorkerSteps
<1>. QED  BY <1>2, <1>3, <1>4, <1>5, <1>6 DEF Next, Submits, DeviceActs

LEMMA InitShown == Init => ShownInv
<1>. SUFFICES ASSUME Init PROVE ShownInv
  OBVIOUS
<1>1. ~gui.session_open /\ closing = FALSE /\ Quiet
  BY DEF Init, Quiet
<1>. QED  BY <1>1, InitQueues DEF ShownInv, Closed, Disconnected, PollAlive

LEMMA StepShown == ShownInv /\ [Next]_vars => ShownInv'
  BY StepQueues, ClosedHolds, DisconnectedHolds, PollAliveHolds DEF ShownInv

(* A session that is shown has a poll scheduled or on its way, through any *)
(* failures and in any order of the answers (controller.py:267-463): the   *)
(* interface never goes blind.                                             *)
THEOREM PollAliveCorrect == Spec => []PollAlive
<1>1. ShownInv => PollAlive
  BY DEF ShownInv
<1>. QED  BY <1>1, InitShown, StepShown, PTL DEF Spec

(* What is shown as disconnected is left only by a click on connect: the   *)
(* answer to a disconnect is the last of its session, as the user's        *)
(* operations go one by one (controller.py, _submit).                      *)
THEOREM NoLateAnswerCorrect == Spec => NoLateAnswer
<1>1. ASSUME ShownInv, [Next]_vars, gui.connection = "DISCONNECTED"
      PROVE  gui'.connection \in {"DISCONNECTED", "CONNECTING"}
  <2>1. gui \in GuiState /\ ~gui.session_open /\ (closing \/ Quiet)
    BY <1>1 DEF ShownInv, QInv, TypeOK, Disconnected
  <2>2. CASE Submits
    BY <1>1, <2>1, <2>2, SubmitsShow, ConnectShows
  <2>3. CASE PollResults
    BY <1>1, <2>1, <2>3 DEF PollResults, Quiet
  <2>4. CASE Shutdown
    BY <2>1, <2>4 DEF Shutdown, GuiState
  <2>5. CASE UNCHANGED host
    BY <1>1, <2>5 DEF host
  <2>. QED  BY <1>1, <2>2, <2>3, <2>4, <2>5, OthersKeepGui DEF ShownInv
<1>2. ShownInv /\ [Next]_vars
        => [gui.connection = "DISCONNECTED"
              => gui'.connection \in {"DISCONNECTED", "CONNECTING"}]_vars
  BY <1>1
<1>. QED  BY <1>2, InitShown, StepShown, PTL DEF Spec, NoLateAnswer
-----------------------------------------------------------------------------
(* What will be shown when every result that is there has been applied,    *)
(* and whether an operation is under way that opens or closes a session.   *)
Shown == Applied(gui, results)
Moves == {"connect", "disconnect"}

SessionMoves ==
  \/ \E i \in DOMAIN commands : commands[i].op \in Moves
  \/ job # NoJob /\ job.op \in Moves

SessionTrue == ~closing => SessionMoves \/ (Shown.session_open <=> client # "none")

(* connect() drops the old client before it opens the port again.          *)
PortFree == job # NoJob /\ job.op = "connect" /\ job.step > 1 => client = "none"

SessionInv == QInv /\ SessionTrue /\ PortFree

(* Where in the scripts a session is closed, a port opened, a run started. *)
Lies(op, i) ==
  /\ Script[op][i] = "close" => op \in Moves
  /\ Script[op][i] = "close" /\ i = Len(Script[op]) => op = "disconnect"
  /\ Script[op][i] = "open" => op = "connect" /\ i = 2
  /\ op = "disconnect" => Script[op][i] = "close"
  /\ op = "connect" /\ i = 1 => Script[op][i] = "close"
  /\ Script[op][i] = "START" => op = "start_periodic" /\ i = 6
  /\ op = "start_periodic" /\ i = 7 => Script[op][i] = "observe"
  /\ op \in {"poll", "connect"} /\ i = Len(Script[op]) =>
       Script[op][i] = IF op = "poll" THEN "read" ELSE "status"
  /\ op = "poll" /\ i = 1 => Script[op][i] = "status"
  /\ op = "poll" /\ i # 1 => i = 2
  /\ op = "stop_periodic" /\ i = 4 => Script[op][i] = "observe"
  /\ op = "stop_periodic" /\ i = 5 => Script[op][i] = "drain"
  /\ op = "start_periodic" /\ i = Len(Script[op]) => i = 7
  /\ op = "stop_periodic" /\ i = Len(Script[op]) => i = 5
  /\ Script[op][i] = "drain" => op = "stop_periodic" /\ i = 5

LEMMA ScriptLies == \A op \in User : \A i \in 1 .. Len(Script[op]) : Lies(op, i)
<1>1. \A i \in 1 .. Len(Script["connect"]) : Lies("connect", i)
  BY DEF Script, Lies, Moves
<1>2. \A i \in 1 .. Len(Script["disconnect"]) : Lies("disconnect", i)
  BY DEF Script, Lies, Moves
<1>3. \A i \in 1 .. Len(Script["poll"]) : Lies("poll", i)
  BY DEF Script, Lies, Moves
<1>4. \A i \in 1 .. Len(Script["refresh_storage"]) : Lies("refresh_storage", i)
  BY DEF Script, Lies, Moves
<1>5. \A i \in 1 .. Len(Script["start_periodic"]) : Lies("start_periodic", i)
  BY DEF Script, Lies, Moves
<1>6. \A i \in 1 .. Len(Script["stop_periodic"]) : Lies("stop_periodic", i)
  BY DEF Script, Lies, Moves
<1>7. \A i \in 1 .. Len(Script["single_sample"]) : Lies("single_sample", i)
  BY DEF Script, Lies, Moves
<1>8. \A i \in 1 .. Len(Script["ack_alarm"]) : Lies("ack_alarm", i)
  BY DEF Script, Lies, Moves
<1>. QED  BY <1>1, <1>2, <1>3, <1>4, <1>5, <1>6, <1>7, <1>8 DEF User

LEMMA RequestLies ==
  ASSUME Typed, job # NoJob
  PROVE  /\ job.op \in User /\ job.step \in 1 .. Len(Script[job.op]) /\ job.step \in Nat
         /\ Lies(job.op, job.step) /\ Request = Script[job.op][job.step]
  BY ScriptLies DEF Typed, AnyJob, Request

(* An answer is applied after what is there already.                       *)
Reply(error, acked, running) ==
  [op |-> job.op, background |-> job.background, error |-> error, acked |-> acked,
   running |-> running]

LEMMA AnswerShows ==
  ASSUME TypeOK, job \in AnyJob, UNCHANGED gui, NEW error \in Error,
         NEW acked \in BOOLEAN, NEW running \in BOOLEAN, Answer(error, acked, running)
  PROVE  /\ job' = NoJob /\ Shown \in GuiState
         /\ Reply(error, acked, running) \in Result
         /\ Shown' = Handle(Shown, Reply(error, acked, running))
         /\ HandleParts(Shown, Reply(error, acked, running))
<1> DEFINE r == Reply(error, acked, running)
<1>1. r \in Result
  BY DEF Reply, Result, AnyJob
<1>2. /\ job' = NoJob /\ results \in Seq(Result) /\ gui \in GuiState
      /\ results' = Append(results, r)
  BY DEF Answer, TypeOK, Reply
<1>. HIDE DEF r
<1>3. Shown \in GuiState
  BY <1>2, AppliedTyped DEF Shown
<1>4. Shown' = Handle(Shown, r)
  <2>1. Applied(gui', results') = Applied(gui, Append(results, r))
    BY <1>2
  <2>. QED  BY <1>1, <1>2, <2>1, AppliedAppend DEF Shown
<1>5. HandleParts(Shown, r)
  BY <1>1, <1>3, HandleDoes
<1>. QED  BY <1>1, <1>2, <1>3, <1>4, <1>5 DEF r

LEMMA FailShows ==
  ASSUME TypeOK, job \in AnyJob, UNCHANGED gui, NEW error \in Error, Fail(error)
  PROVE  \E acked \in BOOLEAN :
           /\ acked = (Request \in {"readback", "observe"} \/ error = "state")
           /\ job' = NoJob /\ Shown \in GuiState
           /\ Reply(error, acked, job.running) \in Result
           /\ Shown' = Handle(Shown, Reply(error, acked, job.running))
           /\ HandleParts(Shown, Reply(error, acked, job.running))
<1> DEFINE acked == Request \in {"readback", "observe"} \/ error = "state"
<1>1. acked \in BOOLEAN /\ job.running \in BOOLEAN
  BY DEF AnyJob
<1>2. Answer(error, acked, job.running)
  BY DEF Fail
<1>. HIDE DEF acked
<1>3. /\ job' = NoJob /\ Shown \in GuiState
      /\ Reply(error, acked, job.running) \in Result
      /\ Shown' = Handle(Shown, Reply(error, acked, job.running))
      /\ HandleParts(Shown, Reply(error, acked, job.running))
  BY <1>1, <1>2, AnswerShows
<1>. QED  BY <1>1, <1>3 DEF acked

(* What poll() takes is shown from then on.                                *)
LEMMA PollShows ==
  ASSUME QInv, ~closing, PollResults
  PROVE  /\ Shown' = Shown /\ gui' = Shown
         /\ UNCHANGED <<closing, commands, job, client, dev, hidden>>
<1>1. results' = <<>> /\ gui' = Shown
      /\ UNCHANGED <<closing, commands, job, client, dev, hidden>>
  BY DEF PollResults, Shown
<1>2. Shown' = Applied(Shown, <<>>)
  BY <1>1 DEF Shown
<1>. QED  BY <1>1, <1>2, AppliedEmpty

LEMMA SubmitsKeepShown ==
  ASSUME gui \in GuiState, results \in Seq(Result), Submits
  PROVE  /\ Connect \/ Shown'.session_open = Shown.session_open
         /\ Shown'.acquisition = "STOPPED" => Shown.acquisition = "STOPPED"
<1>1. gui' \in GuiState /\ results' = results
  BY SubmitsOne, SubmitsShow
<1>2. Shown' = Applied(gui', results)
  BY <1>1 DEF Shown
<1>3. \/ gui'.acquisition = gui.acquisition
      \/ gui'.acquisition \in {"STARTING", "STOPPING"}
  BY SubmitsShow
<1>4. Connect \/ gui'.session_open = gui.session_open
  BY SubmitsShow
<1>. QED  BY <1>1, <1>2, <1>3, <1>4, AppliedAgree DEF Shown

LEMMA PortFreeHolds ==
  ASSUME QInv, PortFree, [Next]_vars
  PROVE  PortFree'
<1>1. TypeOK /\ Typed
  BY DEF QInv, IInv
<1>2. CASE UNCHANGED <<job, client>> \/ job' = NoJob
  BY <1>2 DEF PortFree
<1>3. CASE Submits \/ PollResults \/ Shutdown \/ DeviceActs \/ Weather \/ UNCHANGED vars
  <2>1. UNCHANGED <<job, client>>
    BY <1>1, <1>3, SubmitsShow
    DEF TypeOK, PollResults, Shutdown, DeviceActs, RecordsRow, RunEnds, ScheduleFires,
        Flushes, Drains, Resets, Alone, worker, Weather, vars
  <2>. QED  BY <1>2, <2>1
<1>4. CASE Take
  <2>1. job' = NoJob \/ job'.step = 1
    BY <1>4 DEF Take
  <2>. QED  BY <2>1 DEF PortFree
<1>5. CASE WorkerNext /\ ~Take /\ job' # NoJob
  <2>1. job # NoJob /\ Typed
    BY <1>1, <1>5, WorkerSteps
  <2>2. /\ Lies(job.op, job.step) /\ Request = Script[job.op][job.step] /\ job.step \in Nat
        /\ job.step \in 1 .. Len(Script[job.op])
    BY <2>1, RequestLies
  <2>3. CASE DrainReadBreaks
    <3>1. job' = job /\ Request = "drain"
      BY <2>3 DEF DrainReadBreaks
    <3>. QED  BY <2>1, <2>2, <3>1 DEF PortFree, Lies
  <2>4. CASE Refused \/ LineFails \/ DrainSettles \/ DrainGivesUp
    BY <1>5, <2>4 DEF Refused, LineFails, DrainSettles, DrainGivesUp, Fail, Answer
  <2>5. CASE Transacts
    <3>1. ~LastStep /\ job' = Learns /\ client' = client /\ Request # "close"
      BY <1>5, <2>5 DEF Transacts, Answer
    <3>2. job'.op = job.op /\ job'.step = job.step + 1
      BY <2>1, <3>1, LearnsTyped
    <3>3. job.op = "connect" => job.step # 1
      BY <2>2, <3>1 DEF Lies
    <3>4. job.op = "connect" => job.step > 1
      BY <2>2, <3>3
    <3>. QED  BY <2>1, <3>1, <3>2, <3>4 DEF PortFree
  <2>6. CASE ClosesPort
    BY <2>6 DEF ClosesPort, PortFree
  <2>7. CASE OpensPort
    <3>1. job' = Learns /\ client' = client /\ Request = "open"
      BY <1>5, <2>7 DEF OpensPort, Fail, Answer
    <3>2. client = "none"
      BY <2>1, <2>2, <3>1 DEF Lies, PortFree
    <3>. QED  BY <3>1, <3>2 DEF PortFree
  <2>. QED  BY <1>5, <2>3, <2>4, <2>5, <2>6, <2>7 DEF WorkerNext
<1>. QED  BY <1>2, <1>3, <1>4, <1>5 DEF Next, Submits, DeviceActs, WorkerNext

(* The end of an operation that opens or closes a session.                 *)
LEMMA MoveEnds ==
  ASSUME QInv, PortFree, WorkerNext, ~Take, job # NoJob, job.op \in Moves, job' = NoJob
  PROVE  Shown'.session_open <=> client' # "none"
<1>1. TypeOK /\ Typed /\ job \in AnyJob /\ UNCHANGED gui
  BY WorkerSteps DEF QInv, IInv, Typed, host
<1>2. /\ Lies(job.op, job.step) /\ Request = Script[job.op][job.step]
  BY <1>1, RequestLies
<1>3. {"timeout", "protocol", "transport", "state", "exception"} \subseteq Error \ {"none"}
  BY DEF Error
<1>4. ASSUME NEW error \in Error \ {"none"}, Fail(error)
      PROVE  ~Shown'.session_open
  <2>1. PICK acked \in BOOLEAN :
          /\ Shown' = Handle(Shown, Reply(error, acked, job.running))
          /\ HandleParts(Shown, Reply(error, acked, job.running))
    BY <1>1, <1>4, FailShows
  <2>. QED  BY <1>4, <2>1 DEF HandleParts, OpenAfter, Reply, Moves
<1>5. ASSUME NEW running \in BOOLEAN, Answer("none", FALSE, running)
      PROVE  Shown'.session_open <=> job.op = "connect"
  <2>1. "none" \in Error
    BY DEF Error
  <2>2. /\ Shown' = Handle(Shown, Reply("none", FALSE, running))
        /\ HandleParts(Shown, Reply("none", FALSE, running))
    BY <1>1, <1>5, <2>1, AnswerShows
  <2>. QED  BY <2>2 DEF HandleParts, OpenAfter, Reply, Moves
<1>6. CASE Transacts
  <2>1. LastStep /\ Answer("none", FALSE, Learns.running) /\ Request # "close"
    <3>1. ~LastStep => job' # NoJob
      BY <1>1, <1>6, LearnsTyped DEF Transacts
    <3>. QED  BY <1>6, <3>1 DEF Transacts
  <2>2. Learns.running \in BOOLEAN
    BY <1>1, Zenon DEF Learns, AnyJob
  <2>3. job.op = "connect" /\ client' = "open"
    BY <1>2, <1>6, <2>1 DEF Lies, Moves, Transacts
  <2>. QED  BY <1>5, <2>1, <2>2, <2>3
<1>7. CASE LineFails
  <2>1. job.op = "connect" /\ client' = "none"
    BY <1>2, <1>7 DEF Lies, Moves, LineFails, Broken
  <2>2. PICK error \in {"timeout", "protocol", "transport"} : Fail(error)
    BY <1>7 DEF LineFails
  <2>. QED  BY <1>3, <1>4, <2>1, <2>2
<1>8. CASE Refused
  <2>1. client' = "none"
    BY <1>2, <1>8 DEF Lies, Moves, Refused
  <2>. QED  BY <1>3, <1>4, <1>8, <2>1 DEF Refused
<1>9. CASE ClosesPort
  <2>1. client' = "none"
    BY <1>9 DEF ClosesPort
  <2>2. CASE Fail("transport")
    BY <1>3, <1>4, <2>1, <2>2
  <2>3. CASE ~Fail("transport")
    <3>1. LastStep /\ Answer("none", FALSE, FALSE)
      <4>1. ~LastStep => Learns # NoJob
        BY <1>1, LearnsTyped
      <4>. QED  BY <1>9, <2>3, <4>1 DEF ClosesPort
    <3>2. job.op # "connect"
      BY <1>2, <1>9, <3>1 DEF Lies, LastStep, ClosesPort
    <3>. QED  BY <1>5, <2>1, <3>1, <3>2
  <2>. QED  BY <2>2, <2>3
<1>10. CASE OpensPort
  <2>1. Request = "open" /\ UNCHANGED client
    BY <1>10 DEF OpensPort
  <2>2. Fail("transport")
    <3>1. Learns # NoJob
      BY <1>1, <2>1, RequestPlaces, LearnsTyped
    <3>. QED  BY <1>10, <3>1 DEF OpensPort
  <2>3. client' = "none"
    BY <1>2, <2>1 DEF Lies, PortFree
  <2>. QED  BY <1>3, <1>4, <2>2, <2>3
<1>11. CASE DrainSettles \/ DrainReadBreaks \/ DrainGivesUp
  <2>1. Request = "drain"
    BY <1>11 DEF DrainSettles, DrainReadBreaks, DrainGivesUp
  <2>. QED  BY <1>2, <2>1 DEF Lies, Moves
<1>. QED  BY <1>6, <1>7, <1>8, <1>9, <1>10, <1>11 DEF WorkerNext

(* Any other operation leaves a session that is there, broken perhaps.     *)
LEMMA OthersKeepSession ==
  ASSUME QInv, WorkerNext, ~Take, job # NoJob, job.op \notin Moves
  PROVE  /\ client' = client \/ (client = "open" /\ client' # "none")
         /\ \/ Shown'.session_open = Shown.session_open
            \/ Shown'.session_open /\ client' # "none"
<1>1. TypeOK /\ Typed /\ job \in AnyJob /\ UNCHANGED gui
  BY WorkerSteps DEF QInv, IInv, Typed, host
<1>2. Lies(job.op, job.step) /\ Request = Script[job.op][job.step]
  BY <1>1, RequestLies
<1>3. Request \notin {"close", "open"} /\ job.op # "connect"
  BY <1>2 DEF Lies, Moves
<1>4. client' = client \/ (client = "open" /\ client' # "none")
  <2>1. \A error : "none" \notin Broken(error)
    BY <1>3 DEF Broken
  <2>2. CASE Transacts \/ Refused \/ DrainSettles \/ DrainGivesUp
    BY <1>3, <2>2 DEF Transacts, Refused, DrainSettles, DrainGivesUp
  <2>3. CASE LineFails \/ DrainReadBreaks
    BY <1>3, <2>1, <2>3 DEF LineFails, DrainReadBreaks, Usable
  <2>. QED  BY <1>3, <2>2, <2>3 DEF WorkerNext, ClosesPort, OpensPort
<1>5. CASE UNCHANGED results
  BY <1>1, <1>4, <1>5 DEF Shown
<1>6. CASE ~UNCHANGED results
  <2>1. CASE \E error \in Error \ {"none"} : Fail(error)
    <3>1. PICK error \in Error \ {"none"} : Fail(error)
      BY <2>1
    <3>2. PICK acked \in BOOLEAN :
            /\ Shown' = Handle(Shown, Reply(error, acked, job.running))
            /\ HandleParts(Shown, Reply(error, acked, job.running))
            /\ Shown \in GuiState
      BY <1>1, <3>1, FailShows
    <3>. QED  BY <1>3, <1>4, <3>2 DEF HandleParts, OpenAfter, Reply, Moves, GuiState
  <2>2. CASE \E running \in BOOLEAN : Answer("none", FALSE, running) /\ Usable
    <3>1. PICK running \in BOOLEAN : Answer("none", FALSE, running) /\ Usable
      BY <2>2
    <3>2. "none" \in Error /\ FALSE \in BOOLEAN
      BY DEF Error
    <3>3. /\ Shown' = Handle(Shown, Reply("none", FALSE, running))
          /\ HandleParts(Shown, Reply("none", FALSE, running))
          /\ Shown \in GuiState
      BY <1>1, <3>1, <3>2, AnswerShows
    <3>4. client # "none" /\ client' # "none"
      BY <1>3, <1>4, <3>1 DEF Usable
    <3>. QED  BY <1>3, <1>4, <3>3, <3>4 DEF HandleParts, OpenAfter, Reply, Moves, GuiState
  <2>3. {"timeout", "protocol", "transport", "state", "exception"} \subseteq Error \ {"none"}
    BY DEF Error
  <2>4. CASE Transacts
    <3>1. Learns.running \in BOOLEAN
      BY <1>1, Zenon DEF Learns, AnyJob
    <3>. QED  BY <1>6, <2>2, <2>4, <3>1 DEF Transacts
  <2>5. CASE LineFails \/ Refused \/ DrainGivesUp
    BY <2>1, <2>3, <2>5 DEF LineFails, Refused, DrainGivesUp
  <2>6. CASE DrainSettles
    <3>1. job.running \in BOOLEAN
      BY <1>1 DEF AnyJob
    <3>. QED  BY <2>1, <2>2, <2>3, <2>6, <3>1 DEF DrainSettles
  <2>. QED  BY <1>3, <1>6, <2>4, <2>5, <2>6
       DEF WorkerNext, ClosesPort, OpensPort, DrainReadBreaks
<1>. QED  BY <1>4, <1>5, <1>6

LEMMA SessionTrueHolds ==
  ASSUME QInv, SessionTrue, PortFree, [Next]_vars
  PROVE  SessionTrue'
<1>1. /\ TypeOK /\ Typed /\ gui \in GuiState /\ commands \in Seq(CommandRec)
      /\ results \in Seq(Result)
  BY DEF QInv, IInv, TypeOK
<1>2. CASE Submits
  <2>1. PICK op \in User, background \in BOOLEAN : Submit(op, background)
    BY <1>1, <1>2, SubmitsOne
  <2>2. /\ commands' = Append(commands, [op |-> op, background |-> background])
        /\ UNCHANGED <<closing, job, client>>
    BY <2>1 DEF Submit
  <2>3. /\ DOMAIN commands' = 1 .. Len(commands) + 1 /\ DOMAIN commands = 1 .. Len(commands)
        /\ Len(commands) \in Nat
        /\ \A i \in 1 .. Len(commands) : commands'[i] = commands[i]
        /\ commands'[Len(commands) + 1].op = op
    BY <1>1, <2>2
  <2>4. SessionMoves => SessionMoves'
    BY <2>2, <2>3 DEF SessionMoves
  <2>5. Connect => SessionMoves'
    <3>1. Connect => commands' = Append(commands, [op |-> "connect", background |-> FALSE])
      BY DEF Connect, Submit
    <3>2. Connect => commands'[Len(commands) + 1].op = "connect"
      BY <1>1, <3>1
    <3>3. Len(commands) + 1 \in DOMAIN commands'
      BY <2>3
    <3>. QED  BY <3>2, <3>3 DEF SessionMoves, Moves
  <2>6. Connect \/ Shown'.session_open = Shown.session_open
    BY <1>1, <1>2, SubmitsKeepShown
  <2>. QED  BY <2>2, <2>4, <2>5, <2>6 DEF SessionTrue
<1>3. CASE PollResults
  <2>1. closing' = closing
    BY <1>3 DEF PollResults
  <2>2. CASE ~closing
    <3>1. Shown' = Shown /\ UNCHANGED <<commands, job, client>>
      BY <1>3, <2>2, PollShows
    <3>. QED  BY <2>1, <3>1 DEF SessionTrue, SessionMoves
  <2>. QED  BY <2>1, <2>2 DEF SessionTrue
<1>4. CASE Shutdown
  BY <1>4 DEF Shutdown, SessionTrue
<1>5. CASE DeviceActs \/ Weather \/ UNCHANGED vars
  <2>1. UNCHANGED <<gui, closing, commands, results, job, client>>
    BY <1>5 DEF DeviceActs, RecordsRow, RunEnds, ScheduleFires, Flushes, Drains, Resets,
                Alone, worker, host, Weather, vars
  <2>. QED  BY <2>1 DEF SessionTrue, SessionMoves, Shown
<1>6. CASE Take
  <2>1. SUFFICES ASSUME ~closing PROVE SessionTrue'
    BY <1>6 DEF Take, host, SessionTrue
  <2>2. /\ commands # <<>> /\ commands' = Tail(commands) /\ job = NoJob
        /\ UNCHANGED <<gui, results, closing>> /\ Head(commands) = commands[1]
    BY <1>1, <1>6 DEF Take, host
  <2>3. /\ DOMAIN commands = 1 .. Len(commands) /\ Len(commands) \in Nat \ {0}
        /\ DOMAIN commands' = 1 .. Len(commands) - 1
        /\ \A i \in 1 .. Len(commands) - 1 : commands'[i] = commands[i + 1]
    BY <1>1, <2>2
  <2>4. commands[1].op \in User /\ commands[1].op # "CLOSE"
    BY <2>1, <2>3 DEF QInv, UserLast, User
  <2>5. /\ client' = client
        /\ job' = [op |-> commands[1].op, background |-> commands[1].background,
                   step |-> 1, before |-> 0, running |-> FALSE]
    BY <1>6, <2>1, <2>2, <2>4, Zenon DEF Take
  <2>6. job'.op = commands[1].op /\ job' # NoJob
    BY <2>4, <2>5 DEF NoJob, Idle, User
  <2>7. ASSUME NEW i \in DOMAIN commands, commands[i].op \in Moves
        PROVE  SessionMoves'
    <3>1. CASE i = 1
      BY <2>6, <2>7, <3>1 DEF SessionMoves
    <3>2. CASE i # 1
      <4>1. i - 1 \in DOMAIN commands' /\ commands'[i - 1] = commands[i]
        BY <2>3, <3>2
      <4>. QED  BY <2>7, <4>1 DEF SessionMoves
    <3>. QED  BY <3>1, <3>2
  <2>. QED  BY <2>1, <2>2, <2>5, <2>7 DEF SessionTrue, SessionMoves, Shown
<1>7. CASE WorkerNext /\ ~Take
  <2>1. job # NoJob /\ UNCHANGED <<commands, closing>>
    BY <1>1, <1>7, WorkerSteps DEF host
  <2>2. CASE job.op \in Moves /\ job' = NoJob
    BY <1>7, <2>1, <2>2, MoveEnds DEF SessionTrue
  <2>3. CASE job.op \in Moves /\ job' # NoJob
    <3>1. job'.op = job.op
      BY <1>1, <1>7, <2>1, <2>3, LearnsTyped, WorkerSteps DEF GoesOn, Answered, Answer
    <3>. QED  BY <2>3, <3>1 DEF SessionTrue, SessionMoves
  <2>4. CASE job.op \notin Moves
    <3>1. SessionMoves => SessionMoves'
      BY <2>1, <2>4 DEF SessionMoves
    <3>2. /\ client' = client \/ (client = "open" /\ client' # "none")
          /\ \/ Shown'.session_open = Shown.session_open
             \/ Shown'.session_open /\ client' # "none"
      BY <1>7, <2>1, <2>4, OthersKeepSession
    <3>. QED  BY <2>1, <3>1, <3>2 DEF SessionTrue
  <2>. QED  BY <2>2, <2>3, <2>4
<1>. QED  BY <1>2, <1>3, <1>4, <1>5, <1>6, <1>7 DEF Next, Submits, DeviceActs, WorkerNext

LEMMA InitSession == Init => SessionInv
<1>. SUFFICES ASSUME Init PROVE SessionInv
  OBVIOUS
<1>1. ~gui.session_open /\ client = "none" /\ job = NoJob /\ results = <<>>
  BY DEF Init
<1>2. Shown = gui
  BY <1>1, AppliedEmpty DEF Shown
<1>. QED  BY <1>1, <1>2, InitQueues DEF SessionInv, SessionTrue, PortFree

LEMMA StepSession == SessionInv /\ [Next]_vars => SessionInv'
  BY StepQueues, SessionTrueHolds, PortFreeHolds DEF SessionInv

(* When nothing is under way, the interface shows a session exactly when   *)
(* the backend holds one (controller.py:285-353 against backend.py:56-91   *)
(* and 250-256): what differs meanwhile is what the answers on             *)
(* their way will put right.                                               *)
THEOREM SessionRealCorrect == Spec => []SessionReal
<1>1. SessionInv => SessionReal
  <2>1. Quiet => ~SessionMoves /\ Shown = gui
    BY AppliedEmpty DEF Quiet, SessionMoves, Shown
  <2>. QED  BY <2>1 DEF SessionInv, SessionTrue, SessionReal
<1>. QED  BY <1>1, InitSession, StepSession, PTL DEF Spec
-----------------------------------------------------------------------------
(* A run the host has started, and whose start it heard of or may expect.  *)
Started(s) == job # NoJob /\ job.op = "start_periodic" /\ job.step \in s

Known == ~closing /\ dev.run = "host" /\ ~hidden

(* It is or will be shown; meanwhile it cannot be started a second time.   *)
RunShown == Known => Shown.acquisition # "STOPPED" \/ Started({7})
RunKept == Known /\ busy = Idle => gui.acquisition # "STOPPED"
NoStartAhead ==
  Known => /\ \A i \in DOMAIN commands : commands[i].op # "start_periodic"
           /\ ~Started(1 .. 6)

(* What the answer that ends a poll or a stop says of the run is still so. *)
Asked ==
  job # NoJob /\ \/ job.op = "poll" /\ job.step = 2
                 \/ job.op = "stop_periodic" /\ job.step = 5
RunSeen == dev.run = "host" /\ Asked => job.running

RunInv == QInv /\ RunShown /\ RunKept /\ NoStartAhead /\ RunSeen

(* Board A starts no run of the host by itself, nor does the interface.    *)
LEMMA OthersStartNothing ==
  ASSUME TypeOK,
         Submits \/ PollResults \/ Shutdown \/ DeviceActs \/ Weather \/ UNCHANGED vars
  PROVE  /\ dev'.run = "host" => dev.run = "host"
         /\ UNCHANGED <<job, hidden>>
         /\ Known' => Known
<1>1. dev \in Device /\ gui \in GuiState
  BY DEF TypeOK
<1>2. CASE Submits
  BY <1>1, <1>2, SubmitsShow DEF Known
<1>3. CASE PollResults \/ Shutdown \/ Weather \/ UNCHANGED vars
  BY <1>3 DEF PollResults, Shutdown, Weather, vars, host, worker, Known
<1>4. CASE DeviceActs
  <2>1. UNCHANGED <<job, hidden, closing>>
    BY <1>4 DEF DeviceActs, RecordsRow, RunEnds, ScheduleFires, Flushes, Drains, Resets,
                Alone, worker, host
  <2>2. dev'.run = "host" => dev.run = "host"
    <3>1. CASE RecordsRow \/ RunEnds
      BY <1>1, <3>1 DEF RecordsRow, RunEnds, Device
    <3>2. CASE ScheduleFires \/ Resets
      <4>1. ScheduleFires => dev'.run = "other"
        BY <1>1 DEF ScheduleFires, Device
      <4>2. Resets => dev'.run = "off"
        BY DEF Resets
      <4>. QED  BY <3>2, <4>1, <4>2
    <3>3. CASE Flushes
      <4>1. \A n : [dev EXCEPT !.flush = FALSE, !.drain = "PENDING", !.gen = n].run = dev.run
        BY <1>1 DEF Device
      <4>. QED  BY <3>3, <4>1, Zenon DEF Flushes
    <3>4. CASE Drains
      BY <1>1, <3>4 DEF Drains, Device
    <3>. QED  BY <1>4, <3>1, <3>2, <3>3, <3>4 DEF DeviceActs
  <2>. QED  BY <2>1, <2>2 DEF Known
<1>. QED  BY <1>2, <1>3, <1>4

(* Only an executed START makes a run known.                               *)
LEMMA StartsOnly ==
  ASSUME QInv, WorkerNext, ~Take, Known'
  PROVE  Known \/ (/\ Transacts \/ LineFails
                   /\ Request = "START" /\ job.op = "start_periodic" /\ job.step = 6
                   /\ ~job.background /\ busy = "start_periodic" /\ commands = <<>>)
<1>1. /\ TypeOK /\ Typed /\ job # NoJob /\ closing' = closing /\ dev \in Device
      /\ UserLast /\ BackgroundRefreshes
  BY WorkerSteps DEF QInv, IInv, host, Typed
<1>2. CASE Request = "START" /\ (Transacts \/ LineFails)
  <2>1. job.op = "start_periodic" /\ job.step = 6
    BY <1>1, <1>2, RequestLies DEF Lies
  <2>2. ~job.background
    BY <1>1, <2>1 DEF BackgroundRefreshes, Refreshes
  <2>. QED  BY <1>1, <1>2, <2>1, <2>2 DEF UserLast, Known
<1>3. CASE ~(Request = "START" /\ (Transacts \/ LineFails))
  <2>1. hidden' = hidden
    <3>1. hidden \in BOOLEAN
      BY <1>1 DEF TypeOK
    <3>. QED  BY <1>3, <3>1 DEF WorkerNext, Transacts, LineFails, Refused, ClosesPort, OpensPort,
                          DrainSettles, DrainReadBreaks, DrainGivesUp
  <2>2. dev' = dev \/ (dev' = Execute(Request, dev) /\ Request # "START")
    <3>1. CASE Transacts \/ LineFails
      <4>1. dev' \in {dev, Execute(Request, dev)}
        BY <3>1 DEF Transacts, LineFails
      <4>. QED  BY <1>3, <3>1, <4>1
    <3>2. CASE ~(Transacts \/ LineFails)
      BY <3>2 DEF WorkerNext, Refused, ClosesPort, OpensPort, DrainSettles, DrainReadBreaks,
                  DrainGivesUp
    <3>. QED  BY <3>1, <3>2
  <2>3. dev'.run = "host" => dev.run = "host"
    BY <1>1, <2>2 DEF Execute, Device
  <2>. QED  BY <1>1, <2>1, <2>3 DEF Known
<1>. QED  BY <1>2, <1>3

LEMMA LearnsRunning ==
  ASSUME job \in AnyJob
  PROVE  Learns.running = IF Request \in {"status", "observe"} THEN dev.run # "off"
                                                               ELSE job.running
<1> DEFINE b == IF Request = "before" THEN dev.gen ELSE job.before
           r == IF Request \in {"status", "observe"} THEN dev.run # "off" ELSE job.running
<1>1. Learns = [job EXCEPT !.step = job.step + 1, !.before = b, !.running = r]
  BY Zenon DEF Learns
<1>2. Learns.running = r
  <2> HIDE DEF b, r
  <2>. QED  BY <1>1 DEF AnyJob
<1>. QED  BY <1>2

LEMMA RunSeenHolds ==
  ASSUME QInv, RunSeen, [Next]_vars
  PROVE  RunSeen'
<1>1. TypeOK /\ Typed /\ dev \in Device
  BY DEF QInv, IInv, Typed
<1>2. CASE Submits \/ PollResults \/ Shutdown \/ DeviceActs \/ Weather \/ UNCHANGED vars
  BY <1>1, <1>2, OthersStartNothing DEF RunSeen, Asked
<1>3. CASE Take
  <2>1. job' = NoJob \/ job'.step = 1
    BY <1>3 DEF Take
  <2>. QED  BY <2>1 DEF RunSeen, Asked
<1>4. CASE WorkerNext /\ ~Take
  <2>1. job # NoJob /\ job \in AnyJob
    BY <1>1, <1>4, WorkerSteps DEF Typed
  <2>2. /\ job.op \in User /\ job.step \in Nat
        /\ Lies(job.op, job.step) /\ Request = Script[job.op][job.step]
    BY <1>1, <2>1, RequestLies
  <2>3. CASE DrainReadBreaks
    BY <2>3 DEF DrainReadBreaks, RunSeen, Asked
  <2>4. CASE job' = NoJob
    BY <2>4 DEF RunSeen, Asked
  <2>5. CASE ClosesPort \/ OpensPort
    <3>1. job' = NoJob \/ (job' = Learns /\ job.op \in Moves)
      BY <2>2, <2>5 DEF ClosesPort, OpensPort, Fail, Answer, Lies, Moves
    <3>2. CASE job' = Learns /\ job' # NoJob /\ job.op \in Moves
      <4>1. ~LastStep
        BY <1>1, <2>1, <2>5, <3>2, RequestPlaces DEF ClosesPort, OpensPort, Answer, Fail
      <4>2. job'.op = job.op
        BY <1>1, <2>1, <3>2, <4>1, LearnsTyped
      <4>. QED  BY <3>2, <4>2 DEF RunSeen, Asked, Moves
    <3>. QED  BY <2>4, <3>1, <3>2
  <2>6. CASE Transacts /\ job' # NoJob
    <3>1. ~LastStep /\ job' = Learns /\ dev' = Execute(Request, dev)
      BY <2>6 DEF Transacts, Answer
    <3>2. job'.op = job.op /\ job'.step = job.step + 1
      BY <1>1, <2>1, <3>1, LearnsTyped
    <3>3. Asked' => Request \in {"status", "observe"}
      <4>1. Asked' => (job.op = "poll" /\ job.step = 1) \/ (job.op = "stop_periodic" /\ job.step = 4)
        BY <2>2, <3>2 DEF Asked
      <4>. QED  BY <2>2, <4>1 DEF Lies
    <3>4. Request \in {"status", "observe"} => dev' = dev
      BY <3>1 DEF Execute
    <3>. QED  BY <2>1, <3>1, <3>3, <3>4, LearnsRunning DEF RunSeen
  <2>. QED  BY <1>4, <2>3, <2>4, <2>5, <2>6
       DEF WorkerNext, LineFails, Refused, DrainSettles, DrainGivesUp, Fail, Answer
<1>. QED  BY <1>2, <1>3, <1>4 DEF Next, Submits, DeviceActs

LEMMA NoStartAheadHolds ==
  ASSUME QInv, RunKept, NoStartAhead, [Next]_vars
  PROVE  NoStartAhead'
<1>1. TypeOK /\ Typed /\ gui \in GuiState /\ commands \in Seq(CommandRec)
  BY DEF QInv, IInv, TypeOK
<1>2. SUFFICES ASSUME Known'
               PROVE  /\ \A i \in DOMAIN commands' : commands'[i].op # "start_periodic"
                      /\ ~Started(1 .. 6)'
  BY DEF NoStartAhead
<1>3. CASE Submits
  <2>1. Known /\ job' = job /\ busy = Idle
    BY <1>1, <1>2, <1>3, SubmitsShow DEF Known
  <2>2. ~StartPeriodic
    BY <2>1 DEF StartPeriodic, RunKept
  <2>3. PICK op \in User \ {"start_periodic"}, background \in BOOLEAN : Submit(op, background)
    BY <1>3, <2>2 DEF Submits, Connect, Disconnect, RefreshSensors, RefreshStorage,
         StopPeriodic, SingleSample, AckAlarm, TickPoll, TickStorage, User
  <2>4. /\ DOMAIN commands' = 1 .. Len(commands) + 1 /\ DOMAIN commands = 1 .. Len(commands)
        /\ Len(commands) \in Nat
        /\ \A i \in 1 .. Len(commands) : commands'[i] = commands[i]
        /\ commands'[Len(commands) + 1].op = op
    BY <1>1, <2>3 DEF Submit
  <2>. QED  BY <2>1, <2>4 DEF NoStartAhead, Started
<1>4. CASE Shutdown
  BY <1>2, <1>4 DEF Shutdown, Known
<1>5. CASE PollResults \/ DeviceActs \/ Weather \/ UNCHANGED vars
  <2>1. Known
    BY <1>1, <1>2, <1>5, OthersStartNothing
  <2>2. UNCHANGED <<commands, job>>
    BY <1>5 DEF PollResults, DeviceActs, RecordsRow, RunEnds, ScheduleFires, Flushes, Drains,
                Resets, Alone, worker, Weather, vars
  <2>. QED  BY <2>1, <2>2 DEF NoStartAhead, Started
<1>6. CASE Take
  <2>1. /\ Known /\ commands # <<>> /\ commands' = Tail(commands)
        /\ job' = NoJob \/ job'.op = commands[1].op
    <3>1. /\ Known /\ commands # <<>> /\ commands' = Tail(commands)
          /\ job' = NoJob \/ job'.op = Head(commands).op
      BY <1>2, <1>6 DEF Take, Known, host
    <3>. QED  BY <1>1, <3>1
  <2>2. /\ DOMAIN commands = 1 .. Len(commands) /\ Len(commands) \in Nat \ {0}
        /\ DOMAIN commands' = 1 .. Len(commands) - 1
        /\ \A i \in 1 .. Len(commands) - 1 : commands'[i] = commands[i + 1]
    BY <1>1, <2>1
  <2>3. \A i \in DOMAIN commands' : i + 1 \in DOMAIN commands /\ commands'[i] = commands[i + 1]
    BY <2>2
  <2>4. 1 \in DOMAIN commands
    BY <2>2
  <2>. QED  BY <2>1, <2>3, <2>4 DEF NoStartAhead, Started
<1>7. CASE WorkerNext /\ ~Take
  <2>1. /\ job # NoJob /\ UNCHANGED commands
        /\ job' = NoJob \/ job' = job \/ (job' = Learns /\ ~LastStep)
    BY <1>1, <1>7, WorkerSteps DEF Answered, Answer, GoesOn
  <2>2. job.step \in Nat
    BY <1>1, <2>1 DEF Typed, AnyJob
  <2>3. job' = Learns /\ ~LastStep => job'.op = job.op /\ job'.step = job.step + 1
    BY <1>1, <2>1, LearnsTyped
  <2>4. CASE Known
    <3>1. Started(1 .. 6)' => job.op = "start_periodic" /\ job.step \in 0 .. 6
      BY <2>1, <2>2, <2>3 DEF Started
    <3>2. Started(1 .. 6)' => job.step # 0
      BY <1>1, <2>1, RequestLies
    <3>3. ~Started(1 .. 6)'
      BY <2>1, <2>2, <2>4, <3>1, <3>2 DEF NoStartAhead, Started
    <3>. QED  BY <2>1, <2>4, <3>3 DEF NoStartAhead
  <2>5. CASE ~Known
    <3>1. /\ Transacts \/ LineFails
          /\ job.op = "start_periodic" /\ job.step = 6 /\ commands = <<>>
      BY <1>2, <1>7, <2>5, StartsOnly
    <3>2. job' # job
      <4>1. Learns # job
        BY <1>1, <2>1, <3>1, ScriptLengths, LearnsTyped DEF LastStep, Script
      <4>2. LineFails => job' = NoJob
        BY DEF LineFails, Fail, Answer
      <4>. QED  BY <2>1, <3>1, <4>1, <4>2 DEF Transacts, Answer
    <3>. QED  BY <2>1, <2>3, <3>1, <3>2 DEF Started
  <2>. QED  BY <2>4, <2>5
<1>. QED  BY <1>3, <1>4, <1>5, <1>6, <1>7 DEF Next, Submits, DeviceActs, WorkerNext

LEMMA RunKeptHolds ==
  ASSUME QInv, RunShown, RunKept, [Next]_vars
  PROVE  RunKept'
<1>1. TypeOK /\ Typed /\ gui \in GuiState /\ results \in Seq(Result)
      /\ UserLast /\ BackgroundRefreshes
  BY DEF QInv, IInv, TypeOK
<1>2. SUFFICES ASSUME Known', busy' = Idle PROVE gui'.acquisition # "STOPPED"
  BY DEF RunKept
<1>3. CASE Submits
  BY <1>1, <1>2, <1>3, SubmitsShow DEF RunKept, Known
<1>4. CASE PollResults
  <2>1. ~closing /\ Known
    BY <1>2, <1>4 DEF PollResults, Known
  <2>2. gui' = Shown /\ job' = job
    BY <1>4, <2>1, PollShows
  <2>3. ~Started({7})
    <3>1. SUFFICES ASSUME Started({7}) PROVE FALSE
      OBVIOUS
    <3>2. job # NoJob /\ job.op = "start_periodic" /\ ~job.background
      BY <1>1, <3>1 DEF Started, BackgroundRefreshes, Refreshes
    <3>3. busy = "start_periodic" /\ \A i \in DOMAIN results : results[i].background
      BY <1>1, <2>1, <3>2 DEF UserLast
    <3>4. busy' = busy
      BY <1>4, <3>3 DEF PollResults
    <3>. QED  BY <1>2, <3>3, <3>4 DEF Idle
  <2>. QED  BY <2>1, <2>2, <2>3 DEF RunShown
<1>5. CASE Shutdown
  BY <1>2, <1>5 DEF Shutdown, Known
<1>6. CASE DeviceActs \/ Weather \/ UNCHANGED vars
  <2>1. UNCHANGED host
    BY <1>6 DEF DeviceActs, RecordsRow, RunEnds, ScheduleFires, Flushes, Drains, Resets,
                Alone, Weather, vars
  <2>2. Known
    BY <1>1, <1>2, <1>6, OthersStartNothing
  <2>. QED  BY <1>2, <2>1, <2>2 DEF RunKept, host
<1>7. CASE Take
  BY <1>2, <1>7 DEF Take, RunKept, Known, host
<1>8. CASE WorkerNext /\ ~Take
  <2>1. UNCHANGED host
    BY <1>1, <1>8, WorkerSteps
  <2>. QED  BY <1>2, <1>8, <2>1, StartsOnly DEF RunKept, host, Idle
<1>. QED  BY <1>3, <1>4, <1>5, <1>6, <1>7, <1>8 DEF Next, Submits, DeviceActs, WorkerNext

(* The answers of the operations under way do not hide a run that goes on. *)
LEMMA FailKeepsRun ==
  ASSUME QInv, RunShown, NoStartAhead, Known, job # NoJob, UNCHANGED gui,
         NEW error \in Error \ {"none"}, Fail(error)
  PROVE  Shown'.acquisition # "STOPPED"
<1>1. TypeOK /\ job \in AnyJob /\ Typed
  BY DEF QInv, IInv, Typed
<1>2. PICK acked \in BOOLEAN :
        /\ acked = (Request \in {"readback", "observe"} \/ error = "state")
        /\ Shown' = Handle(Shown, Reply(error, acked, job.running))
        /\ HandleParts(Shown, Reply(error, acked, job.running))
  BY <1>1, FailShows
<1> DEFINE r == Reply(error, acked, job.running)
<1>3. Shown'.acquisition = AcquisitionAfter(Shown.acquisition, r)
      /\ r.op = job.op /\ r.error = error /\ r.acked = acked
  BY <1>2 DEF HandleParts, Reply
<1>. HIDE DEF r
<1>4. CASE job.op = "start_periodic"
  <2>1. job.step = 7
    <3>1. job.step \in 1 .. Len(Script["start_periodic"]) /\ Len(Script["start_periodic"]) = 7
      BY <1>1, <1>4, RequestLies DEF Script
    <3>2. job.step \notin 1 .. 6
      BY <1>4 DEF NoStartAhead, Started
    <3>. QED  BY <3>1, <3>2
  <2>2. Request = "observe"
    BY <1>1, <1>4, <2>1, RequestLies DEF Lies
  <2>. QED  BY <1>2, <1>3, <1>4, <2>2 DEF AcquisitionAfter, StartFailure
<1>5. CASE job.op # "start_periodic"
  <2>1. Shown.acquisition # "STOPPED"
    BY <1>5 DEF RunShown, Started
  <2>. QED  BY <1>3, <1>5, <2>1 DEF AcquisitionAfter
<1>. QED  BY <1>4, <1>5

LEMMA SuccessKeepsRun ==
  ASSUME QInv, RunShown, Known, job # NoJob, UNCHANGED gui,
         NEW running \in BOOLEAN, Answer("none", FALSE, running),
         job.op \in {"connect", "poll", "start_periodic", "stop_periodic"} => running
  PROVE  Shown'.acquisition # "STOPPED"
<1>1. TypeOK /\ job \in AnyJob /\ "none" \in Error /\ FALSE \in BOOLEAN
  BY DEF QInv, IInv, Typed, Error
<1> DEFINE r == Reply("none", FALSE, running)
<1>2. Shown' = Handle(Shown, r) /\ HandleParts(Shown, r)
  BY <1>1, AnswerShows
<1>3. /\ Shown'.acquisition = AcquisitionAfter(Shown.acquisition, r)
      /\ r.op = job.op /\ r.error = "none" /\ r.running = running
  BY <1>2 DEF HandleParts, Reply
<1>. HIDE DEF r
<1>4. job.op # "start_periodic" => Shown.acquisition # "STOPPED"
  BY DEF RunShown, Started
<1>. QED  BY <1>3, <1>4 DEF AcquisitionAfter, ApplyRunState

LEMMA AnswerKeepsRun ==
  ASSUME QInv, RunShown, NoStartAhead, RunSeen, Known, WorkerNext, ~Take, job # NoJob,
         ~UNCHANGED results
  PROVE  Shown'.acquisition # "STOPPED"
<1>1. TypeOK /\ Typed /\ job \in AnyJob /\ UNCHANGED gui /\ dev.run = "host"
  BY WorkerSteps DEF QInv, IInv, Typed, host, Known
<1>2. /\ Lies(job.op, job.step) /\ Request = Script[job.op][job.step]
  BY <1>1, RequestLies
<1>3. {"timeout", "protocol", "transport", "state", "exception"} \subseteq Error \ {"none"}
  BY DEF Error
<1>4. CASE LineFails
  <2>1. PICK error \in {"timeout", "protocol", "transport"} : Fail(error)
    BY <1>4 DEF LineFails
  <2>. QED  BY <1>1, <1>3, <2>1, FailKeepsRun
<1>5. CASE Refused
  BY <1>1, <1>3, <1>5, FailKeepsRun DEF Refused
<1>6. CASE DrainGivesUp
  BY <1>1, <1>3, <1>6, FailKeepsRun DEF DrainGivesUp
<1>7. CASE ClosesPort
  <2>1. CASE Fail("transport")
    BY <1>1, <1>3, <2>1, FailKeepsRun
  <2>2. CASE ~Fail("transport")
    <3>1. LastStep /\ Answer("none", FALSE, FALSE)
      BY <1>7, <2>2 DEF ClosesPort
    <3>2. job.op = "disconnect"
      BY <1>2, <1>7, <3>1 DEF Lies, Moves, LastStep, ClosesPort
    <3>. QED  BY <1>1, <3>1, <3>2, SuccessKeepsRun
  <2>. QED  BY <2>1, <2>2
<1>8. CASE OpensPort
  BY <1>1, <1>3, <1>8, FailKeepsRun DEF OpensPort
<1>9. CASE DrainSettles
  <2>1. CASE Fail("state")
    BY <1>1, <1>3, <2>1, FailKeepsRun
  <2>2. CASE ~Fail("state")
    <3>1. Answer("none", FALSE, job.running) /\ Request = "drain"
      BY <1>9, <2>2 DEF DrainSettles
    <3>2. job.running
      BY <1>1, <1>2, <3>1 DEF Lies, RunSeen, Asked
    <3>. QED  BY <1>1, <3>1, <3>2, SuccessKeepsRun
  <2>. QED  BY <2>1, <2>2
<1>10. CASE Transacts
  <2>1. LastStep /\ Answer("none", FALSE, Learns.running) /\ Request \notin {"drain", "close"}
    BY <1>10 DEF Transacts
  <2>2. /\ job.op \in {"connect", "start_periodic"} => Request \in {"status", "observe"}
        /\ job.op = "poll" => job.step = 2 /\ Request = "read"
        /\ job.op # "stop_periodic"
    BY <1>2, <2>1 DEF Lies, LastStep
  <2>3. job.op \in {"connect", "poll", "start_periodic", "stop_periodic"} => Learns.running
    BY <1>1, <2>2, LearnsRunning DEF RunSeen, Asked
  <2>4. Learns.running \in BOOLEAN
    BY <1>1, Zenon DEF Learns, AnyJob
  <2>. QED  BY <1>1, <2>1, <2>3, <2>4, SuccessKeepsRun
<1>11. CASE DrainReadBreaks
  BY <1>11 DEF DrainReadBreaks
<1>. QED  BY <1>4, <1>5, <1>6, <1>7, <1>8, <1>9, <1>10, <1>11 DEF WorkerNext

(* A START that was executed: the interface hears of it, or cannot know.   *)
LEMMA StartIsShown ==
  ASSUME QInv, WorkerNext, ~Take, ~Known, Known'
  PROVE  Shown'.acquisition # "STOPPED" \/ Started({7})'
<1>1. TypeOK /\ Typed /\ job # NoJob /\ job \in AnyJob /\ UNCHANGED gui
  BY WorkerSteps DEF QInv, IInv, Typed, host
<1>2. /\ Transacts \/ LineFails
      /\ Request = "START" /\ job.op = "start_periodic" /\ job.step = 6
  BY StartsOnly
<1>3. CASE Transacts
  <2>1. ~LastStep
    BY <1>2 DEF LastStep, Script
  <2>2. job' = Learns
    BY <1>3, <2>1 DEF Transacts
  <2>. QED  BY <1>1, <1>2, <2>1, <2>2, LearnsTyped DEF Started
<1>4. CASE LineFails
  <2>1. PICK error \in {"timeout", "protocol", "transport"} :
          /\ Fail(error)
          /\ hidden' = (error = "protocol" /\ dev'.run = "host")
    BY <1>2, <1>4 DEF LineFails
  <2>2. error \in {"timeout", "transport"} /\ error \in Error
    BY <2>1 DEF Known, Error
  <2>3. PICK acked \in BOOLEAN :
          /\ Shown' = Handle(Shown, Reply(error, acked, job.running))
          /\ HandleParts(Shown, Reply(error, acked, job.running))
    BY <1>1, <2>1, <2>2, FailShows
  <2> DEFINE r == Reply(error, acked, job.running)
  <2>4. /\ Shown'.acquisition = AcquisitionAfter(Shown.acquisition, r)
        /\ r.op = job.op /\ r.error = error
    BY <2>3 DEF HandleParts, Reply
  <2>. HIDE DEF r
  <2>. QED  BY <1>2, <2>2, <2>4 DEF AcquisitionAfter, StartFailure
<1>. QED  BY <1>2, <1>3, <1>4

LEMMA RunShownHolds ==
  ASSUME QInv, RunShown, NoStartAhead, RunSeen, [Next]_vars
  PROVE  RunShown'
<1>1. TypeOK /\ Typed /\ gui \in GuiState /\ results \in Seq(Result)
  BY DEF QInv, IInv, TypeOK
<1>2. SUFFICES ASSUME Known' PROVE Shown'.acquisition # "STOPPED" \/ Started({7})'
  BY DEF RunShown
<1>3. CASE Submits
  BY <1>1, <1>2, <1>3, SubmitsShow, SubmitsKeepShown DEF RunShown, Known, Started
<1>4. CASE PollResults
  <2>1. ~closing /\ Known
    BY <1>2, <1>4 DEF PollResults, Known
  <2>. QED  BY <1>4, <2>1, PollShows DEF RunShown, Started
<1>5. CASE Shutdown
  BY <1>2, <1>5 DEF Shutdown, Known
<1>6. CASE DeviceActs \/ Weather \/ UNCHANGED vars
  <2>1. UNCHANGED <<gui, results, job>>
    BY <1>6 DEF DeviceActs, RecordsRow, RunEnds, ScheduleFires, Flushes, Drains, Resets,
                Alone, host, worker, Weather, vars
  <2>2. Known
    BY <1>1, <1>2, <1>6, OthersStartNothing
  <2>. QED  BY <2>1, <2>2 DEF RunShown, Shown, Started
<1>7. CASE Take
  <2>1. UNCHANGED <<gui, results>> /\ Known /\ job = NoJob
    BY <1>2, <1>7 DEF Take, Known, host
  <2>. QED  BY <2>1 DEF RunShown, Shown, Started
<1>8. CASE WorkerNext /\ ~Take
  <2>1. job # NoJob /\ UNCHANGED gui
    BY <1>1, <1>8, WorkerSteps DEF host
  <2>2. CASE ~Known
    BY <1>2, <1>8, <2>2, StartIsShown
  <2>3. CASE Known /\ ~UNCHANGED results
    BY <1>8, <2>1, <2>3, AnswerKeepsRun
  <2>4. CASE Known /\ UNCHANGED results
    <3>1. Shown' = Shown
      BY <2>1, <2>4 DEF Shown
    <3>2. Started({7}) => job' = job
      <4>1. SUFFICES ASSUME Started({7}) PROVE job' = job
        OBVIOUS
      <4>2. LastStep
        BY <4>1 DEF Started, LastStep, Script
      <4>3. ~Answered
        <5>1. Answered => \E r \in Result : Len(results') = Len(results) + 1 /\ Len(results) \in Nat
          BY <1>1, <2>1, AnswerAppends DEF Typed
        <5>. QED  BY <2>4, <5>1
      <4>. QED  BY <1>1, <1>8, <4>2, <4>3, WorkerSteps DEF GoesOn
    <3>. QED  BY <2>4, <3>1, <3>2 DEF RunShown, Started
  <2>. QED  BY <2>2, <2>3, <2>4
<1>. QED  BY <1>3, <1>4, <1>5, <1>6, <1>7, <1>8 DEF Next, Submits, DeviceActs, WorkerNext

LEMMA InitRun == Init => RunInv
<1>. SUFFICES ASSUME Init PROVE RunInv
  OBVIOUS
<1>1. dev.run # "host" /\ job = NoJob
  BY DEF Init
<1>. QED  BY <1>1, InitQueues DEF RunInv, RunShown, RunKept, NoStartAhead, RunSeen, Known, Asked

LEMMA StepRun == RunInv /\ [Next]_vars => RunInv'
  BY StepQueues, RunShownHolds, RunKeptHolds, NoStartAheadHolds, RunSeenHolds DEF RunInv

(* An interface at rest that shows STOPPED has not started a run that goes *)
(* on, for any clicks, losses and interleavings (controller.py:359-388 and *)
(* 469-486); only a START whose answer came damaged escapes it.            *)
THEOREM StoppedCorrect == Spec => []StoppedIsStopped
<1>1. RunInv => StoppedIsStopped
  <2>1. Quiet => ~Started({7}) /\ Shown = gui
    BY AppliedEmpty DEF Quiet, Started, Shown
  <2>. QED  BY <2>1 DEF RunInv, RunShown, StoppedIsStopped, Known
<1>. QED  BY <1>1, InitRun, StepRun, PTL DEF Spec
=============================================================================
