------------------------------ MODULE EventMarker ------------------------------
(***************************************************************************)
(* The marker of an open event and the one mailbox all configuration saves *)
(* go through. The acquisition task copies the state of the event buffer   *)
(* into the marker and asks for a save while the marker is dirty; a probe  *)
(* binding and the SAVE_CONFIG command ask for saves of their own, and     *)
(* each request carries the marker of that moment. The config task claims  *)
(* a request, writes the EEPROM and reports. At a reset, startup loads     *)
(* what the EEPROM holds and answers an open marker with a CLOSE row.      *)
(*                                                                         *)
(* The config task has the lowest priority: a command or a round of the    *)
(* acquisition task can come before and after each of its steps. A round   *)
(* of the acquisition task never waits, so it is one step. ConfigCell      *)
(* stands for the EEPROM; of a configuration only the marker is kept, and  *)
(* of an event's rows only CLOSE, which waits in RAM (in the event buffer  *)
(* or the record queue) until the storage task has it on the card, or one  *)
(* of the limits of those queues or a write without a verdict costs it:    *)
(* then it is counted and not tried again.                                 *)
(* Events are numbered as they open; 0 is none. Loads at startup succeed:  *)
(* ConfigStore shows what happens when they do not.                        *)
(***************************************************************************)
EXTENDS Naturals

CONSTANT MaxEvents       (* bound: events opened in a behaviour            *)

ASSUME MarkerAssumption == MaxEvents \in Nat

VARIABLES
  running, flush,        (* run_state = RUNNING; event_stop_flush_pending  *)
  event, events,         (* the open event of the buffer; events opened    *)
  marker, dirty,         (* event_marker_id, open iff # 0; .._dirty        *)
  save,                  (* the mailbox: board_a_persistence_t.save        *)
  writing,               (* the config task's own copy, or NoCopy          *)
  candidates, loaded,    (* the EEPROM, see ConfigCell                     *)
  raced,                 (* history: the marker changed while a save was   *)
                         (* pending, and no save has stored it since       *)
  rows, closed,          (* events whose CLOSE row is in RAM; on the card  *)
  lost,                  (* history: events whose CLOSE row was counted    *)
                         (* as uncertain or as dropped                     *)
  excused                (* history: events a reset found with no stored   *)
                         (* marker and no CLOSE row on the card            *)

control == <<running, flush>>
closeRows == <<rows, closed, lost, excused>>
markerVars == <<control, event, events, marker, dirty, save, writing,
          candidates, loaded, raced, closeRows>>

Event == 0 .. MaxEvents
NoCopy == MaxEvents + 1
Mailbox == [state : {"IDLE", "PENDING", "SUCCESS", "FAILED"},
            claimed : BOOLEAN, request : Event]

Cell == INSTANCE ConfigCell WITH Configs <- Event, Default <- 0

MarkerTypeOK ==
  /\ running \in BOOLEAN /\ flush \in BOOLEAN
  /\ events \in Event /\ event \in 0 .. events
  /\ marker \in 0 .. events /\ dirty \in BOOLEAN
  /\ save \in Mailbox /\ save.request \in 0 .. events
  /\ writing \in (0 .. events) \cup {NoCopy}
  /\ candidates \subseteq 0 .. events
  /\ loaded \in 0 .. events
  /\ raced \in BOOLEAN
  /\ rows \subseteq 1 .. events /\ closed \subseteq 1 .. events
  /\ lost \subseteq 1 .. events /\ excused \subseteq 1 .. events

EmptyMailbox == [state |-> "IDLE", claimed |-> FALSE, request |-> 0]

MarkerInit ==
  /\ running = FALSE /\ flush = FALSE
  /\ event = 0 /\ events = 0
  /\ marker = 0 /\ dirty = FALSE
  /\ save = EmptyMailbox /\ writing = NoCopy
  /\ Cell!CellInit
  /\ raced = FALSE
  /\ rows = {} /\ closed = {} /\ lost = {} /\ excused = {}
-----------------------------------------------------------------------------
(* Faulty variant: a pending request is replaced by a later one.           *)
AcceptSaveAlways(box, m) == [state |-> "PENDING", claimed |-> FALSE, request |-> m]

(* board_a_persistence_accept_save: BUSY while a request is pending,       *)
(* claimed or not.                                                         *)
AcceptSave(box, m) ==
  IF box.state = "PENDING" THEN box
  ELSE [state |-> "PENDING", claimed |-> FALSE, request |-> m]

(* START, refused while a stop is flushed (or its drain pending: Logging)  *)
Start ==
  /\ ~flush
  /\ running' = TRUE
  /\ UNCHANGED <<flush, event, events, marker, dirty, save, writing,
                 candidates, loaded, raced, closeRows>>

Stop ==
  /\ running' = FALSE /\ flush' = TRUE
  /\ UNCHANGED <<event, events, marker, dirty, save, writing,
                 candidates, loaded, raced, closeRows>>

(* A scan and a step of the buffer with e open: during a run an alarm      *)
(* opens an event; the end of its recovery closes it.                      *)
AfterScan(e) ==
  {e} \cup (IF e # 0 THEN {0}
            ELSE IF running /\ events < MaxEvents THEN {events + 1} ELSE {})

(* One round of the acquisition task. A pending flush closes the event     *)
(* first. A new probe binding asks for a save; then sync_event_marker sets *)
(* the marker, if the one is open and the other is not, and asks for a     *)
(* save while it is dirty. Then the tick may end the run, and its flush    *)
(* closes the event behind the marker's back. A flush stays pending while  *)
(* the record queue has no room for the rows. An event that ends leaves    *)
(* its CLOSE row.                                                          *)
AcquisitionRound ==
  \E e \in AfterScan(IF flush THEN 0 ELSE event),
     probe_bound \in BOOLEAN, ends \in BOOLEAN, fits \in BOOLEAN :
    LET box     == IF probe_bound THEN AcceptSave(save, marker) ELSE save
        changes == (e = 0) # (marker = 0)
    IN  /\ ends => running
        /\ running' = (running /\ ~ends)
        /\ flush' = ((flush \/ ends) /\ ~fits)
        /\ event' = IF ends THEN 0 ELSE e
        /\ events' = IF e > events THEN e ELSE events
        /\ marker' = IF changes THEN e ELSE marker
        /\ dirty' = (dirty \/ changes)
        /\ save' = IF dirty' THEN AcceptSave(box, marker') ELSE box
        /\ raced' = (raced \/ (changes /\ box.state = "PENDING"))
        /\ rows' = rows \cup ({event, e} \ {0, event'})
        /\ UNCHANGED <<writing, candidates, loaded, closed, lost, excused>>

(* BOARD_A_COMMAND_SAVE_CONFIG                                             *)
SaveConfig ==
  /\ save' = AcceptSave(save, marker)
  /\ UNCHANGED <<control, event, events, marker, dirty, writing, candidates,
                 loaded, raced, closeRows>>

(* Faulty variant: an early return forgets to answer what was claimed.     *)
ClaimSaveUnanswered ==
  /\ save.state = "PENDING" /\ ~save.claimed
  /\ save' = [save EXCEPT !.claimed = TRUE]
  /\ writing' \in {save.request, NoCopy}
  /\ Cell!Offer(save.request)
  /\ UNCHANGED <<control, event, events, marker, dirty, raced, closeRows>>

(* config_task_once: claim and start to write. From here on a reset may    *)
(* find the new content.                                                   *)
ClaimSave ==
  /\ save.state = "PENDING" /\ ~save.claimed
  /\ save' = [save EXCEPT !.claimed = TRUE]
  /\ writing' = save.request
  /\ Cell!Offer(save.request)
  /\ UNCHANGED <<control, event, events, marker, dirty, raced, closeRows>>

(* board_a_persistence_complete_save                                       *)
Answer(state) ==
  /\ writing # NoCopy
  /\ save' = [save EXCEPT !.state = state, !.claimed = FALSE]
  /\ writing' = NoCopy

(* Faulty variant: the marker counts as saved when the save failed too.    *)
SaveFailsClean ==
  /\ Answer("FAILED")
  /\ dirty' = FALSE
  /\ UNCHANGED <<control, event, events, marker, candidates, loaded, raced,
                 closeRows>>

(* complete_save with a failure, also for a save that was stored but took  *)
(* more than two seconds                                                   *)
SaveFails ==
  /\ Answer("FAILED")
  /\ UNCHANGED <<control, event, events, marker, dirty, candidates, loaded,
                 raced, closeRows>>

(* complete_save with success: whatever was saved, the marker is clean     *)
SaveSucceeds ==
  /\ Answer("SUCCESS")
  /\ Cell!Acknowledge(writing)
  /\ dirty' = FALSE
  /\ raced' = (raced /\ writing # marker)
  /\ UNCHANGED <<control, event, events, marker, closeRows>>

RowsOnly ==
  UNCHANGED <<control, event, events, marker, dirty, save, writing, candidates,
              loaded, raced, excused>>

(* The storage task has a CLOSE row on the card: SYNCED.                   *)
RowWritten ==
  /\ \E e \in rows : rows' = rows \ {e} /\ closed' = closed \cup {e}
  /\ UNCHANGED lost /\ RowsOnly

(* UNCERTAIN: the write or its sync failed on the way. The row is counted  *)
(* and not tried again, whether it is on the card or not. (A row of which  *)
(* nothing was written goes back to the queue: it stays in rows.)          *)
RowUncertain ==
  /\ \E e \in rows :
       /\ rows' = rows \ {e} /\ lost' = lost \cup {e}
       /\ closed' \in {closed, closed \cup {e}}
  /\ RowsOnly

(* A row is dropped and counted: the newest of the record queue, when an   *)
(* older one goes back to it and it has filled meanwhile; one that cannot  *)
(* be formatted (ENQUEUE_DROP); the oldest of the event buffer's full      *)
(* queue, for the CLOSE row of a later event.                              *)
RowDropped ==
  /\ \E e \in rows : rows' = rows \ {e} /\ lost' = lost \cup {e}
  /\ UNCHANGED closed /\ RowsOnly

(* Faulty variant: the marker is closed without a row.                     *)
RecoverWithoutRow(found) ==
  /\ marker' = 0 /\ dirty' = (found # 0)
  /\ save' = IF found # 0 THEN AcceptSave(EmptyMailbox, 0) ELSE EmptyMailbox
  /\ rows' = {}

(* recover_incomplete_event: the CLOSE row of the event found open is      *)
(* queued, the marker closed and its save requested.                       *)
Recover(found) ==
  /\ marker' = 0 /\ dirty' = (found # 0)
  /\ save' = IF found # 0 THEN AcceptSave(EmptyMailbox, 0) ELSE EmptyMailbox
  /\ rows' = {found} \ {0}

(* A reset excuses an open event whose marker is not stored, and a CLOSE   *)
(* row in RAM of an event the EEPROM may no longer name.                   *)
NotMarked == {e \in {event} \ {0} : marker # e \/ dirty \/ raced}
NotNamed == {e \in rows : candidates # {e}}

(* A reset at any moment, and the load at startup                          *)
Reset ==
  /\ running' = FALSE /\ flush' = FALSE
  /\ event' = 0 /\ UNCHANGED events
  /\ \E found \in candidates :
       /\ candidates' = {found} /\ loaded' = found
       /\ Recover(found)
  /\ writing' = NoCopy
  /\ raced' = FALSE
  /\ excused' = excused \cup NotMarked \cup NotNamed
  /\ UNCHANGED <<closed, lost>>

ConfigTask == ClaimSave \/ SaveFails \/ SaveSucceeds
MarkerNext ==
  \/ Start \/ Stop \/ AcquisitionRound \/ SaveConfig \/ ConfigTask
  \/ RowWritten \/ RowUncertain \/ RowDropped
  \/ Reset

MarkerSpec == MarkerInit /\ [][MarkerNext]_markerVars

(* The config task is scheduled again and again, and resets end.           *)
MarkerFairSpec == MarkerSpec /\ WF_markerVars(ConfigTask) /\ <>[][~Reset]_markerVars
-----------------------------------------------------------------------------
(* The request a config task works on stays the one in the mailbox, though *)
(* two tasks put requests there, and an answer is about that request: as   *)
(* long as the mailbox shows SUCCESS, a reset finds it in the EEPROM and   *)
(* nothing else.                                                           *)
AnswerIsAboutRequest ==
  /\ save.claimed <=> writing # NoCopy
  /\ save.claimed => save.state = "PENDING" /\ writing = save.request
  /\ save.state = "SUCCESS" => candidates = {save.request}

(* The marker in RAM and in the EEPROM differ only while the marker is     *)
(* dirty, so a reset finds the event that was open: unless the marker      *)
(* changed while a save was pending, and no later save has stored it. The  *)
(* exception is what complete_save costs, which clears the flag whatever   *)
(* was saved: without it the property is false.                            *)
MarkerStoredUnlessRaced == ~dirty /\ ~raced => candidates = {marker}

(* No event is left without a CLOSE row silently: one that is over has the *)
(* row on the card or waiting in RAM (though it may take a reset to write  *)
(* it), or it is in one of two groups. Lost: the row was counted, in the   *)
(* uncertain or the dropped rows that the master reads. Excused: a reset   *)
(* came while the event was open with no stored marker, or before the row  *)
(* was on the card and after the save of the closed marker had begun;      *)
(* startup asks for that save as soon as the row is queued. No counter     *)
(* shows these.                                                            *)
CloseRowKept == 1 .. events \subseteq {event} \cup rows \cup closed \cup lost \cup excused

(* A save that was accepted is answered: the mailbox, on which every later *)
(* save depends, is not left pending.                                      *)
SaveAnswered == save.state = "PENDING" ~> save.state # "PENDING"
=============================================================================
