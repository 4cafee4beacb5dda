------------------------------ MODULE ConfigStore ------------------------------
(***************************************************************************)
(* The two-slot configuration store in the EEPROM and its one user: the    *)
(* load at startup and the saves of the config task. The k-th save asked   *)
(* for carries configuration k. Power may be lost at any moment.           *)
(*                                                                         *)
(* A slot is what config_store_parse_slot makes of its 128 bytes: a record *)
(* (sequence, configuration) or nothing valid. A write that is cut off     *)
(* leaves the old record, the new one or nothing valid.                    *)
(***************************************************************************)
EXTENDS Integers, FiniteSets

CONSTANTS SeqModulus,      (* 2^32 in the code: sequence is a uint32_t     *)
          MaxSaves,        (* bound: saves asked for in a behaviour        *)
          BootReadErrors   (* sets of slots that may not answer at startup *)

ASSUME StoreAssumption ==
  /\ SeqModulus \in Nat /\ SeqModulus >= 4
  /\ MaxSaves \in Nat
  /\ BootReadErrors \subseteq SUBSET {0, 1}
  /\ {} \in BootReadErrors

VARIABLES
  slots,                   (* the EEPROM                                   *)
  active_slot, sequence,   (* config_store_t, in RAM                       *)
  phase,                   (* off, absent (g_config_ready = 0), ready, or  *)
                           (* where config_store_save is                   *)
  saves,                   (* saves asked for; the last one's content      *)
  candidates, loaded       (* what ConfigCell speaks about                 *)

vars == <<slots, active_slot, sequence, phase, saves, candidates, loaded>>

NoSlot == 255
Slot == [valid : BOOLEAN, sequence : 0 .. SeqModulus - 1, config : 0 .. MaxSaves]
Nothing == [valid |-> FALSE, sequence |-> 0, config |-> 0]
Default == 0

TypeOK ==
  /\ slots \in [{0, 1} -> Slot]
  /\ active_slot \in {0, 1, NoSlot}
  /\ sequence \in 0 .. SeqModulus - 1
  /\ phase \in {"off", "absent", "ready", "writing", "readback"}
  /\ saves \in 0 .. MaxSaves
  /\ candidates \subseteq 0 .. saves
  /\ loaded \in 0 .. saves

Init ==
  /\ slots = [s \in {0, 1} |-> Nothing]
  /\ active_slot = NoSlot /\ sequence = 0
  /\ phase = "off" /\ saves = 0
  /\ candidates = {Default} /\ loaded = Default
-----------------------------------------------------------------------------
(* uint32_t arithmetic: the sum or difference n of two sequence numbers    *)
Wrapped(n) ==
  IF n >= SeqModulus THEN n - SeqModulus ELSE IF n < 0 THEN n + SeqModulus ELSE n

(* Faulty variant: sequences compared as plain numbers.                    *)
NewerUnwrapped(left, right) == left > right

(* config_store_sequence_compare(left, right) > 0                          *)
Newer(left, right) ==
  LET difference == Wrapped(left - right)
  IN  difference # 0 /\ difference < SeqModulus \div 2

(* config_store_load: the slot selected among the readable ones; equal     *)
(* sequences with different contents are a conflict and select none.       *)
Readable(unreadable) == {s \in {0, 1} \ unreadable : slots[s].valid}

Conflict(unreadable) ==
  /\ Readable(unreadable) = {0, 1}
  /\ slots[0].sequence = slots[1].sequence
  /\ slots[0] # slots[1]

Selected(unreadable) ==
  LET usable == Readable(unreadable)
  IN  IF usable = {} \/ Conflict(unreadable) THEN NoSlot
      ELSE IF usable = {0, 1}
           THEN IF Newer(slots[1].sequence, slots[0].sequence) THEN 1 ELSE 0
           ELSE CHOOSE s \in usable : TRUE

ConfigOf(s) == IF s = NoSlot THEN Default ELSE slots[s].config

(* config_store_load at startup. On a conflict slot 0 counts as active; on *)
(* no usable slot the sequence starts over. A load that took more than two *)
(* seconds counts as an error: the store is loaded, the application is not.*)
(* A read error says nothing of what the slot holds.                       *)
PowerOn ==
  /\ phase = "off"
  /\ \E unreadable \in BootReadErrors, late \in BOOLEAN :
       LET chosen == Selected(unreadable) IN
       /\ active_slot' = IF Conflict(unreadable) THEN 0 ELSE chosen
       /\ sequence' = IF Conflict(unreadable) THEN slots[0].sequence
                      ELSE IF chosen = NoSlot THEN 0 ELSE slots[chosen].sequence
       /\ loaded' = IF late THEN Default ELSE ConfigOf(chosen)
       /\ candidates' = IF unreadable = {} THEN {ConfigOf(chosen)} ELSE candidates
  /\ phase' = "ready"
  /\ UNCHANGED <<slots, saves>>

(* eeprom_config_store_init_validated fails: no save will be tried.        *)
PowerOnNoDevice ==
  /\ phase = "off"
  /\ phase' = "absent" /\ loaded' = Default
  /\ UNCHANGED <<slots, active_slot, sequence, saves, candidates>>

(* Faulty variant: the slot in use is overwritten.                         *)
TargetActive == IF active_slot = 1 THEN 1 ELSE 0

Target == IF active_slot = 0 THEN 1 ELSE 0

NextSequence == Wrapped(sequence + 1)

NewRecord == [valid |-> TRUE, sequence |-> NextSequence, config |-> saves]

(* config_store_save is called with the next configuration                 *)
SaveBegins ==
  /\ phase = "ready" /\ saves < MaxSaves
  /\ saves' = saves + 1
  /\ candidates' = candidates \cup {saves + 1}
  /\ phase' = "writing"
  /\ UNCHANGED <<slots, active_slot, sequence, loaded>>

WriteLeaves(record) == slots' = [slots EXCEPT ![Target] = record]

(* The write is reported complete; the cells may still have kept garbage.  *)
WriteCompletes ==
  /\ phase = "writing"
  /\ \E record \in {NewRecord, Nothing} : WriteLeaves(record)
  /\ phase' = "readback"
  /\ UNCHANGED <<active_slot, sequence, saves, candidates, loaded>>

(* The write is cut off between two pages, by a bus error or by the loss   *)
(* of power.                                                               *)
WriteCutOff(next) ==
  /\ phase = "writing"
  /\ \E record \in {slots[Target], NewRecord, Nothing} : WriteLeaves(record)
  /\ phase' = next
  /\ UNCHANGED <<active_slot, sequence, saves, candidates, loaded>>

WriteFails == WriteCutOff("ready")

Adopt == active_slot' = Target /\ sequence' = NextSequence

(* The record reads back as written: the save answers success. Its caller  *)
(* reports a success that took more than two seconds as a timeout.         *)
ReadBackMatches ==
  /\ phase = "readback"
  /\ slots[Target] = NewRecord
  /\ Adopt
  /\ \E late \in BOOLEAN :
       candidates' = IF late THEN candidates ELSE {saves}
  /\ phase' = "ready"
  /\ UNCHANGED <<slots, saves, loaded>>

(* The read back fails, or gives something else than was written.          *)
ReadBackFails ==
  /\ phase = "readback"
  /\ phase' = "ready"
  /\ UNCHANGED <<slots, active_slot, sequence, saves, candidates, loaded>>

PowerLoss ==
  \/ WriteCutOff("off")
  \/ /\ phase \in {"absent", "ready", "readback"}
     /\ phase' = "off"
     /\ UNCHANGED <<slots, active_slot, sequence, saves, candidates, loaded>>

Next ==
  \/ PowerOn \/ PowerOnNoDevice \/ PowerLoss
  \/ SaveBegins \/ WriteCompletes \/ WriteFails
  \/ ReadBackMatches \/ ReadBackFails

Spec == Init /\ [][Next]_vars
-----------------------------------------------------------------------------
(* Whatever the moment at which power goes, the next power-on that can     *)
(* read the EEPROM finds the configuration of the last save answered with  *)
(* success, or of one asked for after it: config_store_save never touches  *)
(* the slot config_store_load would choose.                                *)
AckedSurvives == ConfigOf(Selected({})) \in candidates

(* Two valid slots never tie: the sequences in them are neighbours, across *)
(* the wrap too, so config_store_load has a newer one to choose and never  *)
(* answers CONFLICT to what config_store_save wrote.                       *)
SlotsNeverTie ==
  slots[0].valid /\ slots[1].valid =>
    \/ slots[1].sequence = Wrapped(slots[0].sequence + 1)
    \/ slots[0].sequence = Wrapped(slots[1].sequence + 1)

Cell == INSTANCE ConfigCell WITH Configs <- 1 .. MaxSaves, Default <- Default

(* The two slots behave as one cell that a save replaces: what one         *)
(* power-on has found, or a save has confirmed, no later one contradicts.  *)
ImplementsCell == Cell!CellSpec
=============================================================================
