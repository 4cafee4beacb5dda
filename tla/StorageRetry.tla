----------------------------- MODULE StorageRetry -----------------------------
(***************************************************************************)
(* The retry clock of board A's storage task. After a failure the task     *)
(* keeps away from the card for RETRY_PERIOD: g_storage_retry_after_ms is  *)
(* a word of a millisecond clock that wraps, and a deadline has expired    *)
(* when the signed difference to it is not negative. Only a failure, or    *)
(* startup, ever sets the word.                                            *)
(*                                                                         *)
(* Of two words only the difference counts, so the model keeps left, the   *)
(* deadline minus the present, modulo Clock. What an operation on the card *)
(* does is in Logging; here it succeeds or fails, and takes no time.       *)
(***************************************************************************)
EXTENDS Integers

CONSTANTS
  Period,                (* BOARD_A_STORAGE_RETRY_PERIOD_MS                *)
  Half,                  (* half the range of the clock: 2^31 ms           *)
  MaxQueued              (* capacity of the record queue                   *)

Clock == 2 * Half

(* What the proofs ask of the constants.                                   *)
Sensible ==
  /\ Period \in Nat /\ Period > 0
  /\ Half \in Nat /\ Half > Period
  /\ MaxQueued \in Nat

VARIABLES
  left,                  (* g_storage_retry_after_ms - now_ms, mod Clock   *)
  state,                 (* storage_state                                  *)
  queued, drain,         (* records that wait; a drain is pending          *)
  sleep,                 (* what is left of xTaskNotifyWait, 0 when awake  *)
  quiet,                 (* history: time since the word was set, to Half  *)
  waited                 (* history: time a record has waited since the    *)
                         (* card was last tried, to Period + 1             *)

retryVars == <<left, state, queued, drain, sleep, quiet, waited>>

Broken == {"UNAVAILABLE", "IO_ERROR"}
State == Broken \cup {"INITIALIZING", "READY", "CLOSED", "FULL"}

RetryTypeOK ==
  /\ left \in 0 .. Clock - 1
  /\ state \in State
  /\ queued \in 0 .. MaxQueued /\ drain \in BOOLEAN
  /\ sleep \in 0 .. Period
  /\ quiet \in 0 .. Half /\ waited \in 0 .. Period + 1

(* board_a_persistence_startup                                             *)
RetryInit ==
  /\ left = 0 /\ state = "INITIALIZING"
  /\ queued = 0 /\ drain = FALSE /\ sleep = 0
  /\ quiet = 0 /\ waited = 0
-----------------------------------------------------------------------------
(* board_a_deadline_expired: (int32_t)(now_ms - deadline_ms) >= 0          *)
Expired == left = 0 \/ left > Half

(* The deadline is set Period ahead; the card has been tried.              *)
Postpone == left' = Period /\ quiet' = 0 /\ waited' = 0

(* The card has been tried and the deadline stays as it is.                *)
Tried == waited' = 0 /\ UNCHANGED <<left, quiet>>

(* storage_run_drain: empties the queue and closes the file, or gives up   *)
(* at the first failure, where the retry deadline is not set.              *)
RunDrain ==
  /\ sleep = 0 /\ drain
  /\ drain' = FALSE
  /\ \/ queued' = 0 /\ state' = "CLOSED"
     \/ queued' \in 0 .. queued /\ state' \in Broken \cup {"FULL"}
  /\ Tried /\ UNCHANGED sleep

NeedsProbe == state = "INITIALIZING" \/ (state \in Broken /\ Expired)

Probe ==
  /\ sleep = 0 /\ ~drain /\ NeedsProbe
  /\ \/ state' = "READY" /\ Tried
     \/ state' \in Broken \cup {"FULL"} /\ Postpone
  /\ UNCHANGED <<queued, drain, sleep>>

(* storage_process_one: synced (a single sample then closes the file,      *)
(* which may fail in turn); or uncertain; or given back to the queue.      *)
ProcessOne ==
  /\ sleep = 0 /\ ~drain /\ ~NeedsProbe
  /\ queued # 0 /\ Expired
  /\ \/ queued' = queued - 1 /\ state' \in {"READY", "CLOSED"} /\ Tried
     \/ queued' \in {queued - 1, queued} /\ state' \in Broken \cup {"FULL"} /\ Postpone
  /\ UNCHANGED <<drain, sleep>>

(* Nothing to do: wait for a notification, but not past the deadline of    *)
(* what is waiting.                                                        *)
FallAsleep ==
  /\ sleep = 0 /\ ~drain /\ ~NeedsProbe /\ ~(queued # 0 /\ Expired)
  /\ sleep' = IF (queued # 0 \/ state \in Broken) /\ ~Expired /\ left < Period
              THEN left ELSE Period
  /\ UNCHANGED <<left, state, queued, drain, quiet, waited>>

(* A tick or a command queues a row, and notifies the task.                *)
Produce ==
  /\ queued < MaxQueued
  /\ queued' = queued + 1 /\ sleep' = 0
  /\ UNCHANGED <<left, state, drain, quiet, waited>>

(* STOP has been flushed: begin_drain, and the task is notified.           *)
RequestDrain == drain' = TRUE /\ sleep' = 0 /\ UNCHANGED <<left, state, queued, quiet, waited>>

(* Time passes while the task sleeps.                                      *)
Tick ==
  /\ sleep > 0
  /\ sleep' = sleep - 1
  /\ left' = IF left = 0 THEN Clock - 1 ELSE left - 1
  /\ quiet' = IF quiet < Half THEN quiet + 1 ELSE quiet
  /\ waited' = IF queued = 0 THEN 0 ELSE IF waited > Period THEN waited ELSE waited + 1
  /\ UNCHANGED <<state, queued, drain>>

StorageTask == RunDrain \/ Probe \/ ProcessOne \/ FallAsleep
RetryNext == StorageTask \/ Produce \/ RequestDrain \/ Tick

RetrySpec == RetryInit /\ [][RetryNext]_retryVars
-----------------------------------------------------------------------------
(* README: rows are recorded to the card all the time, and storage errors  *)
(* recover once the card is back. So as long as a record waits, the card   *)
(* is tried at least every retry period.                                   *)
TriedEveryPeriod == waited <= Period

(* The same, less than half the range of the clock after the deadline was  *)
(* last set (24.8 days): what the code does keep.                          *)
TriedWhileRecent == quiet < Half => TriedEveryPeriod
=============================================================================
