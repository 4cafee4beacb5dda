----------------------------- MODULE HostSession -----------------------------
(***************************************************************************)
(* The monitoring interface on the host, from a click to board A and back: *)
(* the controller in the Tk main thread (tools/modbus_gui/controller.py),  *)
(* the worker thread that owns the serial line (worker.py), the sequence   *)
(* of Modbus transactions of each operation (backend.py and                *)
(* modbus_client/service.py), the client that carries out one of them      *)
(* (client.py), and what board A does with them as the host can tell.      *)
(*                                                                         *)
(* A transaction is one step of the worker: board A executes the request,  *)
(* or not, and the host learns that it did, or not. The two threads, the   *)
(* device and the line interleave between transactions. Temperatures, the  *)
(* alarm and the counters the interface shows are left out.                *)
(***************************************************************************)
EXTENDS Integers, Sequences

CONSTANTS
  MaxDrains,             (* bound: drain generations between two resets    *)
  Clicks                 (* bound: the operations the user asks for        *)

VARIABLES
  gui,                   (* GuiState, and which refreshes are scheduled    *)
  busy,                  (* _pending_user_operation                        *)
  closing,               (* shutdown() was called                          *)
  commands, results,     (* the two queues between the threads             *)
  job,                   (* the operation the worker executes              *)
  ended,                 (* the worker thread has returned                 *)
  client,                (* of the session the backend holds               *)
  dev,                   (* board A                                        *)
  calm,                  (* history: no click, no fault, no change         *)
  told,                  (* history: stop() said safe_to_remove            *)
  hidden                 (* history: the answer to an executed START came  *)
                         (* damaged                                        *)

host == <<gui, busy, closing>>
worker == <<commands, results, job, ended, client>>
vars == <<host, worker, dev, calm, told, hidden>>

User == {"connect", "disconnect", "poll", "refresh_storage", "start_periodic",
         "stop_periodic", "single_sample", "ack_alarm"}
Idle == "none"

ASSUME HostAssumption == MaxDrains \in Nat /\ Clicks \subseteq User

(* The transactions of an operation, in order. close and open are of the   *)
(* serial port; drain is the loop at the end of stop().                    *)
Script ==
  [connect         |-> <<"close", "open", "read", "status">>,
   disconnect      |-> <<"close">>,
   poll            |-> <<"status", "read">>,
   refresh_storage |-> <<"read">>,
   start_periodic  |-> <<"read", "CONFIG", "readback", "APPLY", "observe",
                         "START", "observe">>,
   stop_periodic   |-> <<"read", "before", "STOP", "observe", "drain">>,
   single_sample   |-> <<"SINGLE", "observe", "read", "read">>,
   ack_alarm       |-> <<"ACK", "observe", "read">>]

Connection == {"DISCONNECTED", "CONNECTING", "CONNECTED", "UNRESPONSIVE",
               "PROTOCOL_ERROR"}
Acquisition == {"STOPPED", "STARTING", "RUNNING", "STOPPING",
                "START_UNCONFIRMED", "STOP_UNCONFIRMED"}
Error == {"none", "timeout", "transport", "protocol", "exception", "state"}

CommandRec == [op : User \cup {"CLOSE"}, background : BOOLEAN]
Result == [op : User, background : BOOLEAN, error : Error, acked : BOOLEAN,
           running : BOOLEAN]
Job == [op : User, background : BOOLEAN, step : 1 .. 7, before : Nat,
        running : BOOLEAN]
NoJob == [op |-> Idle]
Device == [run : {"off", "host", "other"}, armed : BOOLEAN, flush : BOOLEAN,
           drain : {"NONE", "PENDING", "DONE", "FAILED"}, gen : Nat,
           dirty : BOOLEAN, heard : BOOLEAN]

GuiState == [connection : Connection, session_open : BOOLEAN,
             acquisition : Acquisition, next_poll : BOOLEAN,
             next_storage : BOOLEAN]

TypeOK ==
  /\ gui \in GuiState
  /\ busy \in User \cup {Idle} /\ closing \in BOOLEAN
  /\ commands \in Seq(CommandRec) /\ results \in Seq(Result)
  /\ job \in Job \cup {NoJob} /\ ended \in BOOLEAN
  /\ client \in {"none", "open", "closed"}
  /\ dev \in Device
  /\ calm \in BOOLEAN /\ told \in BOOLEAN /\ hidden \in BOOLEAN

(* The interface starts next to a board that may be recording, or armed by *)
(* an earlier session.                                                     *)
Init ==
  /\ gui = [connection |-> "DISCONNECTED", session_open |-> FALSE,
            acquisition |-> "STOPPED", next_poll |-> FALSE, next_storage |-> FALSE]
  /\ busy = Idle /\ closing = FALSE
  /\ commands = <<>> /\ results = <<>> /\ job = NoJob /\ ended = FALSE
  /\ client = "none"
  /\ \E run \in {"off", "other"}, armed \in BOOLEAN :
       /\ armed => run = "off"
       /\ dev = [run |-> run, armed |-> armed, flush |-> FALSE, drain |-> "NONE",
                 gen |-> 0, dirty |-> run = "other", heard |-> FALSE]
  /\ calm = FALSE /\ told = FALSE /\ hidden = FALSE
-----------------------------------------------------------------------------
(* Controller, Tk main thread. _submit                                     *)
Submit(op, background) ==
  /\ commands' = Append(commands, [op |-> op, background |-> background])
  /\ busy' = IF background THEN busy ELSE op
  /\ UNCHANGED <<closing, results, job, ended, client, dev, calm, told, hidden>>

Free == busy = Idle /\ ~closing
Click(op) == Free /\ ~calm /\ op \in Clicks

Connect ==
  /\ Click("connect") /\ gui.connection \notin {"CONNECTING", "CONNECTED"}
  /\ gui' = [gui EXCEPT !.connection = "CONNECTING", !.session_open = FALSE,
                        !.next_poll = FALSE, !.next_storage = FALSE]
  /\ Submit("connect", FALSE)

Disconnect ==
  /\ Click("disconnect") /\ gui.session_open
  /\ Submit("disconnect", FALSE)
  /\ UNCHANGED gui

RefreshSensors ==
  /\ Click("poll") /\ gui.connection = "CONNECTED"
  /\ gui' = [gui EXCEPT !.next_poll = FALSE]
  /\ Submit("poll", FALSE)

RefreshStorage ==
  /\ Click("refresh_storage") /\ gui.connection = "CONNECTED"
  /\ gui' = [gui EXCEPT !.next_storage = FALSE]
  /\ Submit("refresh_storage", FALSE)

StartPeriodic ==
  /\ Click("start_periodic") /\ gui.connection = "CONNECTED" /\ gui.acquisition = "STOPPED"
  /\ gui' = [gui EXCEPT !.acquisition = "STARTING"]
  /\ Submit("start_periodic", FALSE)

StopPeriodic ==
  /\ Click("stop_periodic") /\ gui.session_open
  /\ gui.acquisition \in {"STARTING", "RUNNING", "STOPPING", "STOP_UNCONFIRMED"}
  /\ dev.gen + (IF dev.flush THEN 1 ELSE 0) < MaxDrains - 1
  /\ gui' = [gui EXCEPT !.acquisition = "STOPPING"]
  /\ Submit("stop_periodic", FALSE)

SingleSample ==
  /\ Click("single_sample") /\ gui.connection = "CONNECTED"
  /\ gui.acquisition \in {"STOPPED", "RUNNING"}
  /\ Submit("single_sample", FALSE)
  /\ UNCHANGED gui

AckAlarm ==
  /\ Click("ack_alarm") /\ gui.connection = "CONNECTED"
  /\ Submit("ack_alarm", FALSE)
  /\ UNCHANGED gui

(* tick(): a refresh that is due goes out in the background. A poll that   *)
(* is due goes first, so that the storage refresh cannot hold it up.       *)
TickPoll ==
  /\ Free
  /\ gui.connection \in {"CONNECTED", "UNRESPONSIVE", "PROTOCOL_ERROR"}
  /\ gui.next_poll
  /\ gui' = [gui EXCEPT !.next_poll = FALSE]
  /\ Submit("poll", TRUE)

TickStorage ==
  /\ Free
  /\ gui.connection = "CONNECTED" /\ gui.next_storage
  /\ gui' = [gui EXCEPT !.next_storage = FALSE]
  /\ Submit("refresh_storage", TRUE)

(* _apply_run_state                                                        *)
ApplyRunState(acquisition, running) ==
  IF ~running THEN "STOPPED"
  ELSE IF acquisition = "STOPPING" THEN acquisition ELSE "RUNNING"

(* set_connected_identity, update_device_status and the _handle_*          *)
HandleSuccess(g, r) ==
  LET live == [g EXCEPT !.connection = "CONNECTED", !.session_open = TRUE,
                        !.acquisition = ApplyRunState(@, r.running),
                        !.next_poll = TRUE]
  IN  CASE r.op = "connect" -> [live EXCEPT !.next_storage = TRUE]
        [] r.op = "poll" -> live
        [] r.op = "disconnect" ->
             [g EXCEPT !.connection = "DISCONNECTED", !.session_open = FALSE,
                       !.next_poll = FALSE, !.next_storage = FALSE]
        [] r.op = "refresh_storage" -> [g EXCEPT !.next_storage = TRUE]
        [] r.op = "start_periodic" ->
             [g EXCEPT !.acquisition = IF r.running THEN "RUNNING" ELSE "STOPPED"]
        [] r.op = "stop_periodic" ->
             [g EXCEPT !.acquisition = IF r.running THEN "STOP_UNCONFIRMED" ELSE "STOPPED"]
        [] OTHER -> g

(* Faulty variant: what a StateError leaves behind is no connection state. *)
StateForErrorRaw(error, connection) ==
  CASE error \in {"timeout", "transport"} -> "UNRESPONSIVE"
    [] error = "state" -> error
    [] OTHER -> "PROTOCOL_ERROR"

(* _connection_state_for_error; a StateError leaves the connection alone   *)
StateForError(error, connection) ==
  CASE error \in {"timeout", "transport"} -> "UNRESPONSIVE"
    [] error = "state" -> connection
    [] OTHER -> "PROTOCOL_ERROR"

(* Faulty variant: a START that got no answer is taken as not executed.    *)
StartFailureTrusting(r) == IF r.acked THEN "START_UNCONFIRMED" ELSE "STOPPED"

(* A START that was answered, or not answered at all, may have started.    *)
StartFailure(r) ==
  IF r.acked \/ r.error \in {"timeout", "transport"}
  THEN "START_UNCONFIRMED" ELSE "STOPPED"

(* Faulty variant: a poll that failed is not repeated.                     *)
PollFailureSilent(g) == g

PollFailure(g) == [g EXCEPT !.next_poll = TRUE]

(* _handle_failure                                                         *)
HandleFailure(g, r) ==
  LET state == [g EXCEPT !.connection = StateForError(r.error, @)]
  IN  CASE r.op = "connect" ->
             [g EXCEPT !.connection = StateForError(r.error, "CONNECTED"),
                       !.session_open = FALSE,
                       !.next_poll = FALSE, !.next_storage = FALSE]
        [] r.op = "disconnect" ->
             [g EXCEPT !.connection = "DISCONNECTED", !.session_open = FALSE,
                       !.next_poll = FALSE, !.next_storage = FALSE]
        [] r.op = "poll" -> PollFailure(state)
        [] r.op = "refresh_storage" -> [state EXCEPT !.next_storage = TRUE]
        [] r.op = "start_periodic" ->
             [state EXCEPT !.acquisition = StartFailure(r)]
        [] r.op = "stop_periodic" -> [state EXCEPT !.acquisition = "STOP_UNCONFIRMED"]
        [] OTHER -> state

Handle(g, r) == IF r.error = "none" THEN HandleSuccess(g, r) ELSE HandleFailure(g, r)

(* What is shown after these results, applied in order. A recursive        *)
(* function and not a fold, so that the proofs can follow it.              *)
Applied(g, rs) ==
  LET after[i \in 0 .. Len(rs)] == IF i = 0 THEN g ELSE Handle(after[i - 1], rs[i])
  IN  after[Len(rs)]

(* Faulty variant: what arrives after shutdown() is applied as well.       *)
PollResultsLate ==
  /\ results # <<>>
  /\ results' = <<>>
  /\ gui' = Applied(gui, results)
  /\ busy' = IF \E i \in DOMAIN results : ~results[i].background THEN Idle ELSE busy
  /\ UNCHANGED <<closing, commands, job, ended, client, dev, calm, told, hidden>>

(* poll(): every result that is there is applied, in order.                *)
PollResults ==
  /\ results # <<>>
  /\ results' = <<>>
  /\ gui' = IF closing THEN gui ELSE Applied(gui, results)
  /\ busy' = IF \E i \in DOMAIN results : ~results[i].background THEN Idle ELSE busy
  /\ UNCHANGED <<closing, commands, job, ended, client, dev, calm, told, hidden>>

(* Faulty variant: the worker is told to close, and never woken.           *)
ShutdownUnheard ==
  /\ ~closing /\ ~calm
  /\ closing' = TRUE /\ busy' = Idle
  /\ gui' = [gui EXCEPT !.connection = "DISCONNECTED", !.session_open = FALSE,
                        !.next_poll = FALSE, !.next_storage = FALSE]
  /\ UNCHANGED <<worker, dev, calm, told, hidden>>

(* shutdown(): waits for the worker for a while, and no longer.            *)
Shutdown ==
  /\ ~closing /\ ~calm
  /\ closing' = TRUE /\ busy' = Idle
  /\ gui' = [gui EXCEPT !.connection = "DISCONNECTED", !.session_open = FALSE,
                        !.next_poll = FALSE, !.next_storage = FALSE]
  /\ commands' = Append(commands, [op |-> "CLOSE", background |-> FALSE])
  /\ UNCHANGED <<results, job, ended, client, dev, calm, told, hidden>>

-----------------------------------------------------------------------------
(* Board A, as far as the host can tell. flush is event_stop_flush_pending;*)
(* dirty: a row is not on the card, or its file is open; heard: the last   *)
(* command it knows is the host's.                                         *)
DeviceBusy(d) == d.drain = "PENDING" \/ d.flush

Refuses(request, d) == request \in {"START", "SINGLE"} /\ DeviceBusy(d)

Execute(request, d) ==
  CASE request = "START"  -> [d EXCEPT !.run = "host", !.armed = FALSE, !.heard = TRUE]
    [] request = "STOP"   -> [d EXCEPT !.run = "off", !.armed = FALSE, !.flush = TRUE,
                                       !.heard = TRUE]
    [] request = "SINGLE" -> [d EXCEPT !.dirty = TRUE, !.heard = TRUE]
    [] request \in {"APPLY", "ACK"} -> [d EXCEPT !.heard = TRUE]
    [] OTHER -> d

Alone == UNCHANGED <<host, worker, calm, hidden>>

RecordsRow ==
  /\ ~calm /\ dev.run # "off" /\ dev' = [dev EXCEPT !.dirty = TRUE]
  /\ Alone /\ UNCHANGED told

(* record_count was reached; MaxDrains leaves room for the host's STOP.    *)
RunEnds ==
  /\ ~calm /\ dev.run # "off" /\ dev.dirty
  /\ dev.flush \/ dev.gen < MaxDrains - 1
  /\ dev' = [dev EXCEPT !.run = "off", !.flush = TRUE]
  /\ Alone /\ UNCHANGED told

ScheduleFires ==
  /\ ~calm /\ dev.armed
  /\ dev' = [dev EXCEPT !.armed = FALSE, !.run = "other"]
  /\ told' = FALSE
  /\ Alone

Flushes ==
  /\ dev.flush
  /\ dev' = [dev EXCEPT !.flush = FALSE, !.drain = "PENDING", !.gen = @ + 1]
  /\ Alone /\ UNCHANGED told

Drains ==
  /\ dev.drain = "PENDING"
  /\ \/ dev' = [dev EXCEPT !.drain = "DONE", !.dirty = FALSE]
     \/ dev' = [dev EXCEPT !.drain = "FAILED"]
  /\ Alone /\ UNCHANGED told

Resets ==
  /\ ~calm
  /\ dev' = [run |-> "off", armed |-> FALSE, flush |-> FALSE, drain |-> "NONE",
             gen |-> 0, dirty |-> FALSE, heard |-> FALSE]
  /\ told' = FALSE
  /\ Alone
-----------------------------------------------------------------------------
(* The worker thread. _run takes a command; after close() it skips them.   *)
Take ==
  /\ ~ended /\ job = NoJob /\ commands # <<>>
  /\ commands' = Tail(commands)
  /\ LET c == Head(commands)
     IN  /\ ended' = (c.op = "CLOSE")
         /\ client' = IF c.op = "CLOSE" THEN "none" ELSE client
         /\ job' = IF closing \/ c.op = "CLOSE" THEN NoJob
                   ELSE [op |-> c.op, background |-> c.background, step |-> 1,
                         before |-> 0, running |-> FALSE]
  /\ UNCHANGED <<host, results, dev, calm, told, hidden>>

Working == job # NoJob
Request == Script[job.op][job.step]
LastStep == job.step = Len(Script[job.op])

Answer(error, acked, running) ==
  /\ results' = Append(results, [op |-> job.op, background |-> job.background,
                                 error |-> error, acked |-> acked,
                                 running |-> running])
  /\ job' = NoJob

(* An exception raised behind a write says that the write was answered.    *)
Fail(error) == Answer(error, Request \in {"readback", "observe"} \/ error = "state",
                      job.running)

(* _require_service and transaction(): connect uses a client of its own.   *)
Usable == job.op = "connect" \/ client = "open"

(* Faulty variant: a generation that was there before the STOP will do.    *)
SeenAtLeast(gen) == gen >= job.before

(* What the answer tells: the run state, the generation before the STOP.   *)
Learns ==
  [job EXCEPT !.step = @ + 1,
              !.before = IF Request = "before" THEN dev.gen ELSE @,
              !.running = IF Request \in {"status", "observe"} THEN dev.run # "off" ELSE @]

(* told is about the card: a START or SINGLE takes it back.                *)
TakesBack(d) == told' = (told /\ d = dev)

Transacts ==
  /\ Working /\ Request \notin {"close", "open", "drain"} /\ Usable
  /\ ~Refuses(Request, dev)
  /\ Request = "observe" => dev.heard
  /\ dev' = Execute(Request, dev)
  /\ IF LastStep
     THEN /\ Answer("none", FALSE, Learns.running)
          /\ client' = IF job.op = "connect" THEN "open" ELSE client
     ELSE job' = Learns /\ UNCHANGED <<results, client>>
  /\ TakesBack(dev') /\ hidden' = (hidden /\ Request # "START")
  /\ UNCHANGED <<host, commands, ended, calm>>

(* transaction() fails: a timeout or a damaged answer, after which the     *)
(* line recovers or the client closes; or the port fails. Board A may have *)
(* executed the request.                                                   *)
Broken(error) ==
  IF job.op = "connect" THEN {"none"}
  ELSE IF error = "transport" THEN {"closed"} ELSE {"open", "closed"}

LineFails ==
  /\ ~calm /\ Working /\ Request \notin {"close", "open", "drain"} /\ Usable
  /\ dev' \in {dev} \cup (IF Refuses(Request, dev) THEN {} ELSE {Execute(Request, dev)})
  /\ \E error \in {"timeout", "protocol", "transport"} :
       /\ Fail(error)
       /\ client' \in Broken(error)
       /\ hidden' = IF Request = "START" THEN error = "protocol" /\ dev'.run = "host"
                                         ELSE hidden
  /\ TakesBack(dev')
  /\ UNCHANGED <<host, commands, ended, calm>>

(* A refusal of board A, an answer about another command, or no client.    *)
Refused ==
  /\ Working /\ Request \notin {"close", "open", "drain"}
  /\ \/ Usable /\ Refuses(Request, dev) /\ Fail("exception")
     \/ Usable /\ Request = "observe" /\ ~dev.heard /\ Fail("state")
     \/ ~Usable /\ Fail(IF client = "none" THEN "state" ELSE "transport")
  /\ client' = IF job.op = "connect" THEN "none" ELSE client
  /\ UNCHANGED <<host, commands, ended, dev, calm, told, hidden>>

(* Faulty variant: the client is forgotten when its port closed well.      *)
ClosesPortFirst ==
  /\ Working /\ Request = "close"
  /\ \/ /\ client' = "none"
        /\ IF LastStep THEN Answer("none", FALSE, FALSE)
                       ELSE job' = Learns /\ UNCHANGED results
     \/ ~calm /\ client = "open" /\ Fail("transport") /\ UNCHANGED client
  /\ UNCHANGED <<host, commands, ended, dev, calm, told, hidden>>

(* The serial port is closed and opened. close() forgets the client first. *)
ClosesPort ==
  /\ Working /\ Request = "close"
  /\ client' = "none"
  /\ \/ /\ IF LastStep THEN Answer("none", FALSE, FALSE)
                       ELSE job' = Learns /\ UNCHANGED results
     \/ ~calm /\ client = "open" /\ Fail("transport")
  /\ UNCHANGED <<host, commands, ended, dev, calm, told, hidden>>

OpensPort ==
  /\ Working /\ Request = "open"
  /\ \/ job' = Learns /\ UNCHANGED results
     \/ ~calm /\ Fail("transport")
  /\ UNCHANGED <<host, commands, ended, client, dev, calm, told, hidden>>

(* The loop at the end of stop(): a read that settles it, a read that      *)
(* fails for good, or the deadline. Other reads change nothing.            *)
Seen(gen) == gen > job.before

Settled == Seen(dev.gen) /\ dev.drain \in {"DONE", "FAILED"}

DrainSettles ==
  /\ Working /\ Request = "drain" /\ Usable /\ Settled
  /\ \/ /\ dev.drain = "DONE"
        /\ Answer("none", FALSE, job.running)
        /\ told' = TRUE
     \/ dev.drain = "FAILED" /\ Fail("state") /\ UNCHANGED told
  /\ UNCHANGED <<host, commands, ended, client, dev, calm, hidden>>

DrainReadBreaks ==
  /\ ~calm /\ Working /\ Request = "drain" /\ Usable
  /\ client' = "closed"
  /\ UNCHANGED <<host, commands, results, job, ended, dev, calm, told, hidden>>

DrainGivesUp ==
  /\ Working /\ Request = "drain"
  /\ ~Settled \/ ~Usable \/ ~calm
  /\ Fail("state")
  /\ UNCHANGED <<host, commands, ended, client, dev, calm, told, hidden>>

(* Disturbances begin and end.                                             *)
Weather == calm' = ~calm /\ UNCHANGED <<host, worker, dev, told, hidden>>

WorkerNext ==
  \/ Take \/ Transacts \/ LineFails \/ Refused \/ ClosesPort \/ OpensPort
  \/ DrainSettles \/ DrainReadBreaks \/ DrainGivesUp

Next ==
  \/ Connect \/ Disconnect \/ RefreshSensors \/ RefreshStorage \/ StartPeriodic
  \/ StopPeriodic \/ SingleSample \/ AckAlarm \/ TickPoll \/ TickStorage
  \/ PollResults \/ Shutdown
  \/ RecordsRow \/ RunEnds \/ ScheduleFires \/ Flushes \/ Drains \/ Resets
  \/ WorkerNext \/ Weather

Spec == Init /\ [][Next]_vars

(* The interface ticks every 50 ms, a thread that can run runs, and the    *)
(* loop of stop() has a deadline.                                          *)
FairSpec ==
  /\ Spec
  /\ WF_vars(PollResults) /\ WF_vars(TickPoll)
  /\ WF_vars(WorkerNext) /\ WF_vars(DrainGivesUp)
-----------------------------------------------------------------------------
Quiet == commands = <<>> /\ results = <<>> /\ job = NoJob

(* SAFETY: when stop() has told its caller that the card may be taken out, *)
(* no row is missing on it and no file is open, until another START or     *)
(* SINGLE is accepted: a drain of a generation the host had not seen       *)
(* covers all that was recorded, whoever asked for it (service.py:625).    *)
SafeToRemove == told => ~dev.dirty

(* SAFETY: an interface that shows STOPPED has not started a run that goes *)
(* on, whatever was lost on the way and however the two threads            *)
(* interleave; the one exception is a START whose answer came damaged.     *)
StoppedIsStopped ==
  Quiet /\ ~closing /\ gui.acquisition = "STOPPED" /\ dev.run = "host" => hidden

(* SAFETY: when nothing is under way, the interface shows a session        *)
(* exactly when the backend holds one.                                     *)
SessionReal == Quiet /\ ~closing => (gui.session_open <=> client # "none")

(* SAFETY: a session is never left without a poll that is scheduled or on  *)
(* its way: nothing else ever notices that the device is back.             *)
PollOnItsWay ==
  \/ \E i \in DOMAIN commands : commands[i].op \in {"poll", "connect", "disconnect"}
  \/ \E i \in DOMAIN results : results[i].op \in {"poll", "connect", "disconnect"}
  \/ job.op \in {"poll", "connect", "disconnect"}
PollAlive == gui.session_open => gui.next_poll \/ PollOnItsWay

(* SAFETY: what was shown as disconnected comes back only by a click on    *)
(* connect; no late answer of the old session revives it.                  *)
NoLateAnswer ==
  [][gui.connection = "DISCONNECTED" =>
       gui'.connection \in {"DISCONNECTED", "CONNECTING"}]_vars

(* LIVENESS: once disturbances end, a session whose line works shows in    *)
(* the end whether board A records.                                        *)
Truth == gui.acquisition = IF dev.run = "off" THEN "STOPPED" ELSE "RUNNING"
ShowsTruth ==
  <>[](calm /\ client = "open" /\ ~closing) => <>[]Truth

(* LIVENESS: after shutdown() the worker thread returns and gives the port *)
(* back, whatever it was doing.                                            *)
WorkerReturns == closing ~> ended /\ client = "none"
=============================================================================
