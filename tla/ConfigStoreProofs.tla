-------------------------- MODULE ConfigStoreProofs --------------------------
(***************************************************************************)
(* Proofs about ConfigStore, for any sequence width and number of saves,   *)
(* when the EEPROM answers at startup (types need no such assumption). The *)
(* two safety properties hold at any moment because the slot in use is     *)
(* never written and the other slot is either one step behind it or one    *)
(* step ahead, and then holds a configuration asked for since; ActiveOK    *)
(* and OtherOK say so.                                                     *)
(***************************************************************************)
EXTENDS ConfigStore, TLAPS

SequenceNumbers == 0 .. SeqModulus - 1
After(n) == Wrapped(n + 1)

ActiveOK ==
  /\ active_slot = NoSlot => sequence = 0 /\ Default \in candidates /\ ~slots[1].valid
  /\ active_slot # NoSlot => /\ slots[active_slot].valid
                             /\ slots[active_slot].sequence = sequence
                             /\ slots[active_slot].config \in candidates

(* A valid record in the target slot: newer, or replaced next.             *)
OtherOK ==
  slots[Target].valid =>
    \/ /\ slots[Target].sequence = After(sequence)
       /\ slots[Target].config \in candidates
    \/ active_slot # NoSlot /\ sequence = After(slots[Target].sequence)

InFlightOK == phase \in {"writing", "readback"} => saves \in candidates

IInv == TypeOK /\ ActiveOK /\ OtherOK /\ InFlightOK

(* The sequence after n is another sequence, and the one after that is not *)
(* n: that takes a modulus of at least 3.                                  *)
LEMMA Successor ==
  ASSUME NEW n \in SequenceNumbers
  PROVE  /\ After(n) \in SequenceNumbers
         /\ After(n) # n
         /\ Newer(After(n), n)
         /\ ~Newer(n, After(n))
<1> USE StoreAssumption DEF SequenceNumbers, After, Wrapped
<1>1. SeqModulus \div 2 > 1 /\ SeqModulus \div 2 <= SeqModulus - 1
      /\ SeqModulus \div 2 \in Nat
  OBVIOUS
<1>2. After(n) \in SequenceNumbers /\ After(n) # n
  OBVIOUS
<1>3. Wrapped(After(n) - n) = 1
  OBVIOUS
<1>4. Wrapped(n - After(n)) = SeqModulus - 1
  OBVIOUS
<1> QED BY <1>1, <1>2, <1>3, <1>4 DEF Newer

LEMMA Slots ==
  ASSUME TypeOK
  PROVE  /\ Target \in {0, 1}
         /\ active_slot \in {0, 1, NoSlot}
         /\ active_slot # Target
         /\ active_slot # NoSlot => {0, 1} = {active_slot, Target}
         /\ active_slot = NoSlot => Target = 0
         /\ NoSlot \notin {0, 1}
  BY DEF TypeOK, Target, NoSlot

(* What a power-on selects when both slots answer.                         *)
LEMMA SelectedCases ==
  ASSUME TypeOK, SlotsNeverTie
  PROVE  /\ ~Conflict({})
         /\ ~slots[0].valid /\ ~slots[1].valid => Selected({}) = NoSlot
         /\ slots[0].valid /\ ~slots[1].valid => Selected({}) = 0
         /\ ~slots[0].valid /\ slots[1].valid => Selected({}) = 1
         /\ slots[0].valid /\ slots[1].valid =>
              \/ Selected({}) = 1 /\ slots[1].sequence = After(slots[0].sequence)
              \/ Selected({}) = 0 /\ slots[0].sequence = After(slots[1].sequence)
<1> USE DEF SequenceNumbers
<1>1. slots[0].sequence \in SequenceNumbers /\ slots[1].sequence \in SequenceNumbers
  BY DEF TypeOK, Slot
<1>2. Readable({}) = {s \in {0, 1} : slots[s].valid}
  BY DEF Readable
<1>3. ~Conflict({})
  <2> SUFFICES ASSUME slots[0].valid, slots[1].valid,
                      slots[0].sequence = slots[1].sequence
               PROVE FALSE
    BY <1>2 DEF Conflict
  <2> QED BY <1>1, Successor DEF SlotsNeverTie, After
<1>4. CASE ~slots[0].valid /\ ~slots[1].valid
  <2>1. Readable({}) = {}
    BY <1>2, <1>4
  <2> QED BY <1>3, <1>4, <2>1 DEF Selected
<1>5. CASE slots[0].valid /\ ~slots[1].valid
  <2>1. Readable({}) = {0}
    BY <1>2, <1>5
  <2> QED BY <1>3, <1>5, <2>1 DEF Selected
<1>6. CASE ~slots[0].valid /\ slots[1].valid
  <2>1. Readable({}) = {1}
    BY <1>2, <1>6
  <2> QED BY <1>3, <1>6, <2>1 DEF Selected
<1>7. CASE slots[0].valid /\ slots[1].valid
  <2>1. Readable({}) = {0, 1}
    BY <1>2, <1>7
  <2>2. Selected({}) = IF Newer(slots[1].sequence, slots[0].sequence) THEN 1 ELSE 0
    BY <1>3, <2>1 DEF Selected
  <2> QED BY <1>1, <1>3, <1>7, <2>2, Successor DEF SlotsNeverTie, After
<1> QED BY <1>4, <1>5, <1>6, <1>7

(* The strengthening implies both properties.                              *)
LEMMA InvariantSuffices == IInv => SlotsNeverTie /\ AckedSurvives
<1> SUFFICES ASSUME IInv PROVE SlotsNeverTie /\ AckedSurvives
  OBVIOUS
<1> USE DEF IInv
<1>1. /\ Target \in {0, 1} /\ active_slot \in {0, 1, NoSlot} /\ active_slot # Target
      /\ active_slot = NoSlot => Target = 0
  BY Slots
<1>2. SlotsNeverTie
  <2>1. CASE active_slot = NoSlot
    BY <2>1 DEF ActiveOK, SlotsNeverTie
  <2>2. CASE active_slot = 0
    BY <2>2, <1>1 DEF ActiveOK, OtherOK, SlotsNeverTie, After, NoSlot
  <2>3. CASE active_slot = 1
    BY <2>3, <1>1 DEF ActiveOK, OtherOK, SlotsNeverTie, After, NoSlot
  <2> QED BY <1>1, <2>1, <2>2, <2>3
<1>3. slots[0].sequence \in SequenceNumbers /\ slots[1].sequence \in SequenceNumbers
      /\ sequence \in SequenceNumbers
  BY DEF TypeOK, Slot, SequenceNumbers
<1>4. AckedSurvives
  <2>1. CASE active_slot = NoSlot
    <3>1. Selected({}) \in {0, NoSlot}
      BY <2>1, <1>2, SelectedCases DEF ActiveOK
    <3>2. Selected({}) = 0 => slots[0].valid
      BY <2>1, <1>2, SelectedCases DEF ActiveOK, NoSlot
    <3> QED
      BY <2>1, <1>1, <3>1, <3>2 DEF ActiveOK, OtherOK, AckedSurvives, ConfigOf, NoSlot
  <2>2. CASE active_slot \in {0, 1}
    <3>1. slots[active_slot].valid /\ slots[active_slot].config \in candidates
          /\ slots[active_slot].sequence = sequence
      BY <2>2 DEF ActiveOK, NoSlot
    <3>2. Selected({}) \in {0, 1}
      BY <2>2, <3>1, <1>2, SelectedCases
    <3>3. Selected({}) = Target => slots[Target].valid /\ slots[Target].config \in candidates
      <4> SUFFICES ASSUME Selected({}) = Target
                   PROVE slots[Target].valid /\ slots[Target].config \in candidates
        OBVIOUS
      <4>1. slots[Target].valid
        BY <2>2, <1>1, <1>2, <3>1, SelectedCases
      <4>2. slots[Target].sequence = After(sequence)
        <5>1. CASE active_slot = 0 /\ Target = 1
          BY <5>1, <4>1, <3>1, <1>2, SelectedCases
        <5>2. CASE active_slot = 1 /\ Target = 0
          BY <5>2, <4>1, <3>1, <1>2, SelectedCases
        <5> QED BY <5>1, <5>2, <2>2, <1>1
      <4>3. sequence # After(slots[Target].sequence)
        BY <4>2, <1>3, StoreAssumption DEF After, Wrapped, SequenceNumbers
      <4> QED BY <4>1, <4>2, <4>3 DEF OtherOK
    <3> QED BY <1>1, <2>2, <3>1, <3>2, <3>3 DEF AckedSurvives, ConfigOf, NoSlot
  <2> QED BY <1>1, <2>1, <2>2
<1> QED BY <1>2, <1>4

LEMMA InitIInv == Init => IInv
<1> SUFFICES ASSUME Init PROVE IInv
  OBVIOUS
<1> USE StoreAssumption
<1>1. Nothing \in Slot /\ ~Nothing.valid
  BY DEF Nothing, Slot
<1>2. slots \in [{0, 1} -> Slot] /\ ~slots[0].valid /\ ~slots[1].valid
  BY <1>1 DEF Init
<1>3. TypeOK
  BY <1>2 DEF Init, TypeOK, Default
<1>4. Target = 0
  BY DEF Init, Target, NoSlot
<1> QED
  BY <1>2, <1>3, <1>4 DEF Init, IInv, ActiveOK, OtherOK, InFlightOK, Default, NoSlot

(* The record being written is one step ahead of the slot in use.          *)
LEMMA WriteTarget ==
  ASSUME IInv, phase = "writing",
         NEW record \in {slots[Target], NewRecord, Nothing}, WriteLeaves(record),
         UNCHANGED <<active_slot, sequence, saves, candidates, loaded>>
  PROVE  /\ slots' \in [{0, 1} -> Slot]
         /\ ActiveOK' /\ OtherOK'
<1> USE StoreAssumption DEF IInv
<1>1. /\ Target \in {0, 1} /\ active_slot \in {0, 1, NoSlot} /\ active_slot # Target
      /\ active_slot = NoSlot => Target = 0
  BY Slots
<1>2. NewRecord \in Slot /\ Nothing \in Slot /\ slots[Target] \in Slot
  <2>1. NextSequence \in 0 .. SeqModulus - 1
    BY Successor DEF NextSequence, TypeOK, After, SequenceNumbers
  <2>2. NewRecord \in Slot
    BY <2>1 DEF NewRecord, Slot, TypeOK
  <2>3. Nothing \in Slot
    BY DEF Nothing, Slot
  <2> QED BY <1>1, <2>2, <2>3 DEF TypeOK
<1>3. slots' \in [{0, 1} -> Slot] /\ slots'[Target] = record
      /\ \A s \in {0, 1} \ {Target} : slots'[s] = slots[s]
  BY <1>1, <1>2 DEF WriteLeaves, TypeOK
<1>4. Target' = Target
  BY DEF Target
<1>5. ActiveOK'
  BY <1>1, <1>3 DEF ActiveOK, NoSlot
<1>6. OtherOK'
  <2>1. CASE record = slots[Target]
    BY <2>1, <1>3, <1>4 DEF OtherOK, After, Wrapped
  <2>2. CASE record = NewRecord
    BY <2>2, <1>3, <1>4
    DEF OtherOK, NewRecord, NextSequence, After, Wrapped, InFlightOK
  <2>3. CASE record = Nothing
    BY <2>3, <1>3, <1>4 DEF OtherOK, Nothing
  <2> QED BY <2>1, <2>2, <2>3
<1> QED BY <1>3, <1>5, <1>6

(* A power-on adopts the slot it selects, and the other one is behind it.  *)
LEMMA PowerOnIInv ==
  ASSUME BootReadErrors = {{}}, IInv, PowerOn
  PROVE  IInv'
<1> USE DEF IInv
<1> DEFINE chosen == Selected({})
<1>1. SlotsNeverTie /\ AckedSurvives
  BY InvariantSuffices
<1>2. ~Conflict({}) /\ chosen \in {0, 1, NoSlot}
  BY <1>1, SelectedCases DEF TypeOK, Slot
<1>3. PICK late \in BOOLEAN :
        /\ active_slot' = chosen
        /\ sequence' = IF chosen = NoSlot THEN 0 ELSE slots[chosen].sequence
        /\ loaded' = IF late THEN Default ELSE ConfigOf(chosen)
        /\ candidates' = {ConfigOf(chosen)}
        /\ phase' = "ready" /\ slots' = slots /\ saves' = saves
  BY <1>2 DEF PowerOn
<1>4. ConfigOf(chosen) \in candidates /\ ConfigOf(chosen) \in 0 .. saves
  BY <1>1 DEF AckedSurvives, TypeOK
<1>5. TypeOK'
  BY <1>2, <1>3, <1>4, StoreAssumption DEF TypeOK, Slot, NoSlot, Default
<1>6. chosen = NoSlot => ~slots[0].valid /\ ~slots[1].valid
  BY <1>1, SelectedCases DEF NoSlot
<1>7. chosen # NoSlot => slots[chosen].valid
  BY <1>1, <1>2, SelectedCases DEF NoSlot
<1>8. ActiveOK'
  BY <1>2, <1>3, <1>6, <1>7 DEF ActiveOK, ConfigOf, Default, NoSlot
<1>9. OtherOK'
  <2>1. CASE chosen = NoSlot
    BY <2>1, <1>3, <1>6 DEF OtherOK, Target, NoSlot
  <2>2. CASE chosen = 0
    BY <2>2, <1>1, <1>3, <1>7, SelectedCases DEF OtherOK, Target, NoSlot, After, Wrapped
  <2>3. CASE chosen = 1
    BY <2>3, <1>1, <1>3, <1>7, SelectedCases DEF OtherOK, Target, NoSlot, After, Wrapped
  <2> QED BY <1>2, <2>1, <2>2, <2>3
<1>10. InFlightOK'
  BY <1>3 DEF InFlightOK
<1> QED BY <1>5, <1>8, <1>9, <1>10

LEMMA NextIInv == BootReadErrors = {{}} /\ IInv /\ [Next]_vars => IInv'
<1> SUFFICES ASSUME BootReadErrors = {{}}, IInv, [Next]_vars PROVE IInv'
  OBVIOUS
<1> USE StoreAssumption DEF IInv
<1>1. CASE PowerOn
  BY <1>1, PowerOnIInv
<1>2. CASE PowerOnNoDevice
  BY <1>2
  DEF PowerOnNoDevice, TypeOK, ActiveOK, OtherOK, InFlightOK, Target, Default, After, Wrapped
<1>3. CASE SaveBegins
  <2>1. saves + 1 \in 0 .. MaxSaves /\ saves' = saves + 1 /\ saves <= saves'
    BY <1>3 DEF SaveBegins, TypeOK
  <2>2. TypeOK'
    BY <1>3, <2>1 DEF SaveBegins, TypeOK
  <2> QED
    BY <1>3, <2>2
    DEF SaveBegins, ActiveOK, OtherOK, InFlightOK, Target, Default, After, Wrapped
<1>4. CASE WriteCompletes
  BY <1>4, WriteTarget DEF WriteCompletes, TypeOK, InFlightOK
<1>5. CASE WriteFails
  BY <1>5, WriteTarget DEF WriteFails, WriteCutOff, TypeOK, InFlightOK
<1>6. CASE ReadBackMatches
  <2>1. /\ Target \in {0, 1} /\ active_slot \in {0, 1, NoSlot} /\ active_slot # Target
        /\ active_slot = NoSlot => Target = 0
    BY Slots
  <2>2. /\ slots' = slots /\ saves' = saves /\ loaded' = loaded /\ phase' = "ready"
        /\ active_slot' = Target /\ sequence' = After(sequence)
        /\ slots[Target] = NewRecord
        /\ candidates' \in {candidates, {saves}}
    BY <1>6 DEF ReadBackMatches, Adopt, NextSequence, After
  <2>3. saves \in candidates
    BY <1>6 DEF ReadBackMatches, InFlightOK
  <2>4. After(sequence) \in SequenceNumbers
    BY Successor DEF TypeOK, SequenceNumbers
  <2>5. TypeOK'
    BY <2>1, <2>2, <2>3, <2>4 DEF TypeOK, SequenceNumbers
  <2>6. ActiveOK'
    BY <2>1, <2>2, <2>3 DEF ActiveOK, NewRecord, NextSequence, After, NoSlot
  <2>7. OtherOK'
    <3>1. active_slot # NoSlot => Target' = active_slot /\ slots[active_slot].sequence = sequence
      BY <2>1, <2>2 DEF Target, ActiveOK, NoSlot
    <3>2. active_slot = NoSlot => Target' = 1 /\ ~slots[1].valid
      BY <2>1, <2>2 DEF Target, ActiveOK, NoSlot
    <3> QED BY <2>1, <2>2, <3>1, <3>2 DEF OtherOK, After, Wrapped, NoSlot
  <2>8. InFlightOK'
    BY <2>2 DEF InFlightOK
  <2> QED BY <2>5, <2>6, <2>7, <2>8
<1>7. CASE ReadBackFails
  BY <1>7
  DEF ReadBackFails, TypeOK, ActiveOK, OtherOK, InFlightOK, Target, After, Wrapped
<1>8. CASE PowerLoss
  <2>1. CASE WriteCutOff("off")
    BY <2>1, WriteTarget DEF WriteCutOff, TypeOK, InFlightOK
  <2>2. CASE /\ phase' = "off"
             /\ UNCHANGED <<slots, active_slot, sequence, saves, candidates, loaded>>
    BY <2>2 DEF TypeOK, ActiveOK, OtherOK, InFlightOK, Target, After, Wrapped
  <2> QED BY <1>8, <2>1, <2>2 DEF PowerLoss
<1>9. CASE UNCHANGED vars
  BY <1>9 DEF vars, TypeOK, ActiveOK, OtherOK, InFlightOK, Target, After, Wrapped
<1> QED
  BY <1>1, <1>2, <1>3, <1>4, <1>5, <1>6, <1>7, <1>8, <1>9 DEF Next

LEMMA Inductive == ASSUME BootReadErrors = {{}} PROVE Spec => []IInv
<1>1. Init => IInv
  BY InitIInv
<1>2. IInv /\ [Next]_vars => IInv'
  BY NextIInv
<1> QED BY <1>1, <1>2, PTL DEF Spec

(* With an EEPROM that answers at startup, a configuration whose save was  *)
(* answered with success is found by every later power-on, until a later   *)
(* save replaces it: at whatever moment power is lost, whatever the width  *)
(* of the sequence number.                                                 *)
THEOREM AckedSurvivesCorrect ==
  ASSUME BootReadErrors = {{}} PROVE Spec => []AckedSurvives
<1>1. IInv => AckedSurvives
  BY InvariantSuffices
<1> QED BY <1>1, Inductive, PTL

(* Two valid slots are always neighbours: no load ends in a conflict.      *)
THEOREM NeverTieCorrect ==
  ASSUME BootReadErrors = {{}} PROVE Spec => []SlotsNeverTie
<1>1. IInv => SlotsNeverTie
  BY InvariantSuffices
<1> QED BY <1>1, Inductive, PTL

LEMMA StepRefines ==
  ASSUME BootReadErrors = {{}}, IInv, [Next]_vars
  PROVE  [Cell!CellNext]_(Cell!cellVars)
<1> USE DEF Cell!cellVars
<1>1. CASE PowerOn
  <2> DEFINE v == ConfigOf(Selected({}))
  <2>1. SlotsNeverTie /\ AckedSurvives /\ TypeOK
    BY InvariantSuffices DEF IInv
  <2>2. v \in candidates
    BY <2>1 DEF AckedSurvives
  <2>3. candidates' = {v} /\ loaded' \in {v, Default}
    BY <1>1 DEF PowerOn
  <2>4. Cell!PowerUp(v)
    BY <2>2, <2>3 DEF Cell!PowerUp
  <2> QED BY <2>2, <2>4 DEF Cell!CellNext
<1>2. CASE PowerOnNoDevice
  BY <1>2 DEF PowerOnNoDevice, Cell!NoDevice, Cell!CellNext
<1>3. CASE SaveBegins
  <2>1. saves + 1 \in 1 .. MaxSaves /\ Cell!Offer(saves + 1)
    BY <1>3, StoreAssumption DEF SaveBegins, Cell!Offer, IInv, TypeOK
  <2> QED BY <2>1 DEF Cell!CellNext
<1>4. CASE ReadBackMatches
  <2>1. saves \in candidates
    BY <1>4 DEF ReadBackMatches, IInv, InFlightOK
  <2>2. candidates' = {saves} => Cell!Acknowledge(saves)
    BY <1>4, <2>1 DEF ReadBackMatches, Cell!Acknowledge
  <2>3. candidates' = {saves} \/ candidates' = candidates
    BY <1>4 DEF ReadBackMatches
  <2>4. loaded' = loaded
    BY <1>4 DEF ReadBackMatches
  <2> QED BY <2>1, <2>2, <2>3, <2>4 DEF Cell!CellNext
<1>5. CASE WriteCompletes \/ WriteFails \/ ReadBackFails \/ PowerLoss
  BY <1>5 DEF WriteCompletes, WriteFails, WriteCutOff, ReadBackFails, PowerLoss
<1>6. CASE UNCHANGED vars
  BY <1>6 DEF vars
<1> QED BY <1>1, <1>2, <1>3, <1>4, <1>5, <1>6 DEF Next

(* The two slots implement the one durable cell of ConfigCell: seen from   *)
(* the outside, a save is atomic.                                          *)
THEOREM StoreImplementsCell ==
  ASSUME BootReadErrors = {{}} PROVE Spec => ImplementsCell
<1>1. Init => Cell!CellInit
  BY DEF Init, Cell!CellInit
<1>2. IInv /\ [Next]_vars => [Cell!CellNext]_(Cell!cellVars)
  BY StepRefines
<1> QED BY <1>1, <1>2, Inductive, PTL DEF Spec, ImplementsCell, Cell!CellSpec

(* Types need only that a slot holds a configuration asked for before, and *)
(* so hold whatever the EEPROM answers at startup.                         *)
TypeInv == TypeOK /\ \A s \in {0, 1} : slots[s].config \in 0 .. saves

(* What a power-on selects is a slot or none, whichever can be read.       *)
LEMMA SelectedTyped ==
  ASSUME NEW unreadable
  PROVE  /\ Selected(unreadable) \in {0, 1, NoSlot}
         /\ Conflict(unreadable) \in BOOLEAN
<1>1. Readable(unreadable) \subseteq {0, 1}
  BY DEF Readable
<1>2. Readable(unreadable) # {} =>
        (CHOOSE s \in Readable(unreadable) : TRUE) \in Readable(unreadable)
  OBVIOUS
<1> QED BY <1>1, <1>2 DEF Selected, Conflict

LEMMA TypeStep == TypeInv /\ [Next]_vars => TypeInv'
<1> SUFFICES ASSUME TypeInv, [Next]_vars PROVE TypeInv'
  OBVIOUS
<1> USE StoreAssumption
<1>0. /\ slots[0] \in Slot /\ slots[1] \in Slot
      /\ slots[0].config \in 0 .. saves /\ slots[1].config \in 0 .. saves
      /\ saves \in 0 .. MaxSaves /\ Target \in {0, 1} /\ sequence \in 0 .. SeqModulus - 1
  BY DEF TypeInv, TypeOK, Target
<1>1. NextSequence \in 0 .. SeqModulus - 1
  BY <1>0 DEF NextSequence, Wrapped
<1>2. /\ NewRecord \in Slot /\ NewRecord.config = saves
      /\ Nothing \in Slot /\ Nothing.config = 0
  BY <1>0, <1>1 DEF NewRecord, Nothing, Slot
<1>3. ASSUME NEW record \in {slots[0], slots[1], NewRecord, Nothing}, WriteLeaves(record)
      PROVE  slots' \in [{0, 1} -> Slot] /\ \A s \in {0, 1} : slots'[s].config \in 0 .. saves
  <2>1. slots' = [slots EXCEPT ![Target] = record] /\ slots \in [{0, 1} -> Slot]
    BY <1>3 DEF WriteLeaves, TypeInv, TypeOK
  <2>2. record \in Slot /\ record.config \in 0 .. saves
    BY <1>0, <1>2
  <2> QED BY <1>0, <2>1, <2>2
<1>4. CASE PowerOn
  <2>1. PICK unreadable \in BootReadErrors, late \in BOOLEAN :
          /\ active_slot' = IF Conflict(unreadable) THEN 0 ELSE Selected(unreadable)
          /\ sequence' = IF Conflict(unreadable) THEN slots[0].sequence
                         ELSE IF Selected(unreadable) = NoSlot THEN 0
                              ELSE slots[Selected(unreadable)].sequence
          /\ loaded' = IF late THEN Default ELSE ConfigOf(Selected(unreadable))
          /\ candidates' = IF unreadable = {} THEN {ConfigOf(Selected(unreadable))}
                           ELSE candidates
    BY <1>4 DEF PowerOn
  <2>2. ConfigOf(Selected(unreadable)) \in 0 .. saves
    BY <1>0, SelectedTyped DEF ConfigOf, Default
  <2>3. active_slot' \in {0, 1, NoSlot} /\ sequence' \in 0 .. SeqModulus - 1
    BY <1>0, <2>1, SelectedTyped DEF Slot
  <2>4. loaded' \in 0 .. saves /\ candidates' \subseteq 0 .. saves
    <3>1. 0 \in 0 .. saves /\ candidates \subseteq 0 .. saves
      BY <1>0 DEF TypeInv, TypeOK
    <3>2. loaded' \in {0, ConfigOf(Selected(unreadable))}
      BY <2>1 DEF Default
    <3>3. candidates' \in {candidates, {ConfigOf(Selected(unreadable))}}
      BY <2>1
    <3> QED BY <2>2, <3>1, <3>2, <3>3
  <2> QED BY <1>4, <2>3, <2>4 DEF PowerOn, TypeInv, TypeOK
<1>5. CASE PowerOnNoDevice
  BY <1>0, <1>5 DEF PowerOnNoDevice, TypeInv, TypeOK, Default
<1>6. CASE SaveBegins
  <2>1. saves' \in 0 .. MaxSaves /\ saves' = saves + 1 /\ UNCHANGED slots
    BY <1>0, <1>6 DEF SaveBegins
  <2>2. \A s \in {0, 1} : slots'[s].config \in 0 .. saves'
    BY <1>0, <2>1
  <2>3. candidates' \subseteq 0 .. saves' /\ loaded' \in 0 .. saves'
    BY <1>0, <1>6 DEF SaveBegins, TypeInv, TypeOK
  <2> QED BY <1>6, <2>1, <2>2, <2>3 DEF SaveBegins, TypeInv, TypeOK
<1>7. CASE WriteCompletes
  BY <1>3, <1>7 DEF WriteCompletes, TypeInv, TypeOK
<1>8. ASSUME NEW next \in {"ready", "off"}, WriteCutOff(next) PROVE TypeInv'
  <2>1. PICK record \in {slots[0], slots[1], NewRecord, Nothing} : WriteLeaves(record)
    BY <1>0, <1>8 DEF WriteCutOff
  <2>2. slots' \in [{0, 1} -> Slot] /\ \A s \in {0, 1} : slots'[s].config \in 0 .. saves
    BY <1>3, <2>1
  <2> QED BY <1>8, <2>2 DEF WriteCutOff, TypeInv, TypeOK
<1>9. CASE ReadBackMatches
  <2>1. candidates' \subseteq 0 .. saves
    BY <1>0, <1>9 DEF ReadBackMatches, TypeInv, TypeOK
  <2> QED BY <1>0, <1>1, <1>9, <2>1 DEF ReadBackMatches, Adopt, TypeInv, TypeOK
<1>10. CASE ReadBackFails
  BY <1>10 DEF ReadBackFails, TypeInv, TypeOK
<1>11. CASE PowerLoss
  BY <1>8, <1>11 DEF PowerLoss, TypeInv, TypeOK
<1>12. CASE UNCHANGED vars
  BY <1>12 DEF vars, TypeInv, TypeOK
<1> QED BY <1>4, <1>5, <1>6, <1>7, <1>8, <1>9, <1>10, <1>11, <1>12 DEF Next, WriteFails

(* The variables keep their types, with and without read errors.           *)
THEOREM TypeCorrect == Spec => []TypeOK
<1>1. Init => TypeInv
  BY StoreAssumption DEF Init, TypeInv, TypeOK, Slot, Nothing, Default, NoSlot
<1>2. TypeInv => TypeOK
  BY DEF TypeInv
<1> QED BY <1>1, <1>2, TypeStep, PTL DEF Spec
=============================================================================
