--------------------------- MODULE Buttons_proofs ---------------------------
(***************************************************************************)
(* The safety properties of Buttons for any set of buttons on PCINT0 and   *)
(* any choice of the three pins in use.                                    *)
(*                                                                         *)
(* Attended and PressIsPolled hold only together and with three facts that *)
(* no property states: the debouncer timer runs as long as debouncing is   *)
(* set, without which the set up could leave PCINT0 off; the button whose  *)
(* action runs stays PRESSED, so that ActionDone takes it to OPEN from a   *)
(* level of 1; and the button whose interrupt poweroff masks is off.       *)
(***************************************************************************)
EXTENDS Buttons, TLAPS

DebouncingIsTimed == debouncing => tim4

ActingIsPressed ==
    pc \in {"acted", "disable", "mask", "asleep", "woken"} => status[acting] = PRESSED

DisabledIsOff == pc = "mask" => ~enabled[Disabled]

IInv ==
    /\ TypeOK
    /\ Attended
    /\ PressIsPolled
    /\ FallThenRise
    /\ DebouncingIsTimed
    /\ ActingIsPressed
    /\ DisabledIsOff

\* The invariant holds before the first set up, no button being enabled.
LEMMA InitIInv == Init => IInv
BY ButtonsAssumption
   DEF Init, IInv, TypeOK, Attended, PressIsPolled, FallThenRise, DebouncingIsTimed,
       ActingIsPressed, DisabledIsOff, Buttons, Listening, OPEN, PRESSING, PRESSED

\* _btn_update keeps the types, the order of fall and rise and a PRESSED button.
LEMMA UpdateKeeps ==
    ASSUME IInv, NEW read \in SUBSET Buttons, Update(read)
    PROVE  /\ status' \in [Buttons -> {OPEN, PRESSING, PRESSED}]
           /\ history' \in [Buttons -> {0, 1}]
           /\ \A b \in Buttons : enabled[b] => (history'[b] = 0 <=> status'[b] = PRESSING)
           /\ \A b \in Buttons : status[b] = PRESSED => status'[b] = PRESSED
           /\ \A b \in Buttons \ read : status'[b] = status[b]
           /\ \A b \in read : status'[b] = UpdatedStatus(b)
<1>1. \A b \in Buttons : pin[b] \in {0, 1} /\ history[b] \in {0, 1}
                          /\ status[b] \in {0, 1, 2} /\ enabled[b] \in BOOLEAN
  BY DEF IInv, TypeOK, OPEN, PRESSING, PRESSED
<1>2. \A b \in Buttons : enabled[b] => (history[b] = 0 <=> status[b] = 1)
  BY DEF IInv, FallThenRise, PRESSING
<1>3. \A b \in Buttons :
         /\ status'[b] = IF b \in read THEN UpdatedStatus(b) ELSE status[b]
         /\ history'[b] = IF b \in read /\ Changed(b) THEN pin[b] ELSE history[b]
  BY DEF Update
<1>4. \A b \in Buttons : UpdatedStatus(b) \in {0, 1, 2}
  BY <1>1 DEF UpdatedStatus, Changed, PRESSED
<1>5. /\ status' \in [Buttons -> {OPEN, PRESSING, PRESSED}]
      /\ history' \in [Buttons -> {0, 1}]
  BY <1>1, <1>4 DEF Update, OPEN, PRESSING, PRESSED
<1>6. ASSUME NEW b \in Buttons, enabled[b]
      PROVE  history'[b] = 0 <=> status'[b] = PRESSING
  BY <1>1, <1>2, <1>3, <1>6 DEF UpdatedStatus, Changed, PRESSING, PRESSED
<1>7. ASSUME NEW b \in Buttons, status[b] = PRESSED
      PROVE  status'[b] = PRESSED
  BY <1>3, <1>7 DEF UpdatedStatus, Changed, PRESSED
<1> QED
  BY <1>3, <1>5, <1>6, <1>7

\* The edges, and the matches of the timer, disturb nothing but pins and flags.
LEMMA PinChangeKeeps == ASSUME IInv, NEW b \in Buttons, PinChange(b) PROVE IInv'
BY DEF IInv, TypeOK, Attended, PressIsPolled, FallThenRise, DebouncingIsTimed,
       ActingIsPressed, DisabledIsOff, Disabled, PinChange, Moved, Listening, buttonVars, masks

\* A match of the timer only sets its flag.
LEMMA TimerMatchKeeps == ASSUME IInv, TimerMatch PROVE IInv'
BY DEF IInv, TypeOK, Attended, PressIsPolled, FallThenRise, DebouncingIsTimed,
       ActingIsPressed, DisabledIsOff, Disabled, TimerMatch, Listening, buttonVars, masks

\* An interrupt only takes the main loop from asleep to woken.
LEMMA WakeKeeps ==
    ASSUME IInv, Wake, acting' = acting,
           \A b \in Buttons : status[b] = PRESSED => status'[b] = PRESSED
    PROVE  /\ pc' \in {"setup", "loop", "acted", "disable", "mask", "asleep", "woken", "idle"}
           /\ ActingIsPressed'
           /\ enabled' = enabled => DisabledIsOff'
BY DEF IInv, TypeOK, Wake, ActingIsPressed, DisabledIsOff, Disabled

\* The interrupt of INT0 masks itself and starts the debouncer.
LEMMA Int0IsrKeeps == ASSUME IInv, Int0Isr PROVE IInv'
<1>1. {D21} \in SUBSET Buttons /\ Update({D21}) /\ Wake /\ acting' = acting
  BY DEF Int0Isr, Buttons
<1>2. enabled' = enabled /\ eint' = eint /\ int0' = FALSE /\ tim4' = TRUE
  BY DEF Int0Isr, StartDebouncer
<1>3. TypeOK'
  BY <1>1, UpdateKeeps, WakeKeeps DEF IInv, TypeOK, Int0Isr, StartDebouncer
<1>4. Attended' /\ DebouncingIsTimed'
  BY <1>2 DEF Attended, DebouncingIsTimed
<1>5. PressIsPolled'
  BY <1>1, <1>2, UpdateKeeps DEF IInv, PressIsPolled, Listening
<1>6. FallThenRise' /\ ActingIsPressed' /\ DisabledIsOff'
  BY <1>1, <1>2, UpdateKeeps, WakeKeeps DEF FallThenRise
<1> QED
  BY <1>3, <1>4, <1>5, <1>6 DEF IInv

\* The interrupt of PCINT0 does so for the buttons that share it.
LEMMA PcintIsrKeeps == ASSUME IInv, PcintIsr PROVE IInv'
<1> DEFINE read == {b \in Pcint : enabled[b]}
<1>1. read \in SUBSET Buttons /\ Update(read) /\ Wake /\ acting' = acting
  BY DEF PcintIsr, Buttons
<1>2. enabled' = enabled /\ eint' = FALSE /\ int0' = int0 /\ tim4' = TRUE
  BY DEF PcintIsr, StartDebouncer
<1> HIDE DEF read
<1>3. TypeOK'
  BY <1>1, UpdateKeeps, WakeKeeps DEF IInv, TypeOK, PcintIsr, StartDebouncer
<1>4. Attended' /\ DebouncingIsTimed'
  BY <1>2 DEF Attended, DebouncingIsTimed
<1>5. PressIsPolled'
  <2> SUFFICES ASSUME NEW b \in Buttons, enabled'[b], status'[b] = PRESSING
               PROVE  tim4' /\ ~Listening(b)'
    BY DEF PressIsPolled
  <2>1. CASE b = D21
    <3>1. b \notin read
      BY <2>1, ButtonsAssumption DEF read
    <3> QED
      BY <1>1, <1>2, <2>1, <3>1, UpdateKeeps DEF IInv, PressIsPolled, Listening
  <2>2. CASE b # D21
    BY <1>2, <2>2 DEF Listening
  <2> QED
    BY <2>1, <2>2
<1>6. FallThenRise' /\ ActingIsPressed' /\ DisabledIsOff'
  BY <1>1, <1>2, UpdateKeeps, WakeKeeps DEF FallThenRise
<1> QED
  BY <1>3, <1>4, <1>5, <1>6 DEF IInv

\* The debouncer: what it finds down keeps the timer on and its interrupt off.
LEMMA DebounceKeeps ==
    ASSUME IInv, NEW moved \in SUBSET Buttons, Debounce(moved) PROVE IInv'
<1>1. Polled \in SUBSET Buttons /\ Update(Polled) /\ Wake /\ acting' = acting
  BY DEF Debounce, Polled, Buttons
<1>2. /\ enabled' = enabled
      /\ eint' = (eint \/ EintSei) /\ int0' = (int0 \/ Int0Sei)
      /\ debouncing' = (Down # {}) /\ tim4' = (Down # {})
  BY DEF Debounce
<1>3. TypeOK'
  <2>1. pin' \in [Buttons -> {0, 1}]
    BY DEF IInv, TypeOK, Debounce, Moved
  <2>2. debouncing' \in BOOLEAN /\ tim4' \in BOOLEAN
    BY <1>2
  <2>3. eint' \in BOOLEAN /\ int0' \in BOOLEAN /\ pcif' \in BOOLEAN
        /\ intf' \in BOOLEAN /\ ocf' \in BOOLEAN
    BY DEF Debounce, EintSei, Int0Sei, IInv, TypeOK
  <2> QED
    BY <1>1, <1>2, <2>1, <2>2, <2>3, UpdateKeeps, WakeKeeps DEF IInv, TypeOK
<1>4. Attended'
  <2> SUFFICES ASSUME NEW b \in Buttons, enabled[b]
               PROVE  Listening(b)' \/ tim4'
    BY <1>2 DEF Attended
  <2>1. CASE b = D21
    BY <1>2, <2>1 DEF Listening, Int0Sei
  <2>2. CASE b # D21
    BY <1>2, <2>2 DEF Listening, EintSei
  <2> QED
    BY <2>1, <2>2
<1>5. PressIsPolled'
  <2> SUFFICES ASSUME NEW b \in Buttons, enabled[b], status'[b] = PRESSING
               PROVE  tim4' /\ ~Listening(b)'
    BY <1>2 DEF PressIsPolled
  <2>1. b \in Polled
    <3>1. CASE b \notin Polled
      <4>1. status[b] = PRESSING
        BY <1>1, <3>1, UpdateKeeps
      <4>2. ~Listening(b)
        BY <4>1 DEF IInv, PressIsPolled
      <4> QED
        BY <3>1, <4>2 DEF Polled, Listening, Buttons
    <3> QED
      BY <3>1
  <2>2. b \in Down
    BY <1>1, <2>1, UpdateKeeps DEF Down
  <2>3. CASE b = D21
    BY <1>2, <2>1, <2>2, <2>3, ButtonsAssumption DEF Listening, Polled, Int0Sei
  <2>4. CASE b # D21
    BY <1>2, <2>1, <2>2, <2>4 DEF Listening, Polled, EintSei
  <2> QED
    BY <2>3, <2>4
<1>6. FallThenRise' /\ ActingIsPressed' /\ DisabledIsOff'
  BY <1>1, <1>2, UpdateKeeps, WakeKeeps DEF FallThenRise
<1>7. DebouncingIsTimed'
  BY <1>2 DEF DebouncingIsTimed
<1> QED
  BY <1>3, <1>4, <1>5, <1>6, <1>7 DEF IInv

-----------------------------------------------------------------------------

\* The set up: PCINT0 is on, or debouncing, hence the timer, is.
LEMMA SetupKeeps == ASSUME IInv, Setup PROVE IInv'
<1> DEFINE used == {btn_poweroff, btn_start, btn_stop}
<1>1. /\ enabled' = [b \in Buttons |-> b \in used]
      /\ status' = [b \in Buttons |-> IF b \in used THEN OPEN ELSE status[b]]
      /\ history' = [b \in Buttons |-> IF b \in used THEN 1 ELSE history[b]]
      /\ ~debouncing /\ used \cap Pcint # {} => eint'
      /\ int0' = (D21 \in used)
      /\ eint' \in BOOLEAN /\ pcif' \in BOOLEAN /\ intf' \in BOOLEAN
      /\ pc' = "loop" /\ UNCHANGED <<pin, debouncing, tim4, ocf, acting>>
  BY DEF Setup, IInv, TypeOK
<1> HIDE DEF used
<1>2. TypeOK'
  BY <1>1 DEF IInv, TypeOK, OPEN, PRESSING, PRESSED
<1>3. Attended'
  <2> SUFFICES ASSUME NEW b \in Buttons, b \in used PROVE Listening(b)' \/ tim4'
    BY <1>1 DEF Attended
  <2>1. CASE b = D21
    BY <1>1, <2>1 DEF Listening
  <2>2. CASE b # D21
    BY <1>1, <2>2 DEF Listening, Buttons, IInv, DebouncingIsTimed
  <2> QED
    BY <2>1, <2>2
<1>4. PressIsPolled' /\ FallThenRise'
  <2>1. \A b \in Buttons : enabled'[b] => status'[b] = 0 /\ history'[b] = 1
    BY <1>1 DEF OPEN
  <2> QED
    BY <2>1 DEF PressIsPolled, FallThenRise, PRESSING
<1>5. DebouncingIsTimed' /\ ActingIsPressed' /\ DisabledIsOff'
  BY <1>1 DEF IInv, DebouncingIsTimed, ActingIsPressed, DisabledIsOff
<1> QED
  BY <1>2, <1>3, <1>4, <1>5 DEF IInv

\* The main loop may only begin the action of a button that is pressed.
LEMMA RunActionKeeps == ASSUME IInv, NEW b \in Buttons, RunAction(b) PROVE IInv'
BY DEF IInv, TypeOK, Attended, PressIsPolled, FallThenRise, DebouncingIsTimed,
       ActingIsPressed, DisabledIsOff, RunAction, Listening, buttonVars, masks, flags

\* An action that ends takes its button back to OPEN, from PRESSED.
LEMMA ActionDoneKeeps == ASSUME IInv, ActionDone PROVE IInv'
<1>1. status[acting] = PRESSED /\ acting \in Buttons
  BY DEF IInv, TypeOK, ActingIsPressed, ActionDone
<1>2. TypeOK' /\ ActingIsPressed' /\ DisabledIsOff'
  BY DEF IInv, TypeOK, ActingIsPressed, DisabledIsOff, ActionDone, masks, flags, OPEN
<1>3. Attended' /\ DebouncingIsTimed'
  BY DEF IInv, Attended, DebouncingIsTimed, ActionDone, Listening, masks
<1>4. PressIsPolled' /\ FallThenRise'
  BY <1>1 DEF IInv, TypeOK, PressIsPolled, FallThenRise, ActionDone, Listening, masks,
              OPEN, PRESSING, PRESSED
<1> QED
  BY <1>2, <1>3, <1>4 DEF IInv

\* Disabling a button leaves its interrupt for the next step.
LEMMA DisableButtonKeeps == ASSUME IInv, NEW b \in Buttons, DisableButton(b) PROVE IInv'
<1>1. TypeOK' /\ ActingIsPressed' /\ DebouncingIsTimed'
  BY DEF IInv, TypeOK, DebouncingIsTimed, ActingIsPressed, DisableButton, masks, flags
<1>2. \A c \in Buttons : enabled'[c] => enabled[c]
  BY DEF IInv, TypeOK, DisableButton
<1>3. Attended' /\ PressIsPolled' /\ FallThenRise'
  BY <1>2 DEF IInv, Attended, PressIsPolled, FallThenRise, DisableButton, Listening, masks
<1>4. DisabledIsOff'
  BY ButtonsAssumption DEF IInv, TypeOK, DisableButton, DisabledIsOff, Disabled
<1> QED
  BY <1>1, <1>3, <1>4 DEF IInv

\* The other steps of poweroff and of the way back only move the main loop.
LEMMA PowerDownKeeps == ASSUME IInv, PowerDown \/ Resume PROVE IInv'
BY DEF IInv, TypeOK, Attended, PressIsPolled, FallThenRise, DebouncingIsTimed,
       ActingIsPressed, DisabledIsOff, PowerDown, Resume, Listening, buttonVars, masks, flags

\* The interrupt of the button just disabled is not that of an enabled button.
LEMMA MaskInterruptKeeps ==
    ASSUME IInv, MaskInterrupt PROVE IInv'
<1>1. /\ TypeOK' /\ ActingIsPressed' /\ DebouncingIsTimed' /\ FallThenRise'
      /\ DisabledIsOff'
  BY DEF IInv, TypeOK, ActingIsPressed, DebouncingIsTimed, FallThenRise, DisabledIsOff,
         MaskInterrupt, buttonVars, flags
<1>2. Attended'
  <2>1. ~enabled[Disabled]
    BY DEF IInv, DisabledIsOff, MaskInterrupt
  <2> SUFFICES ASSUME NEW b \in Buttons, enabled[b] PROVE Listening(b)' \/ tim4'
    BY DEF Attended, MaskInterrupt, buttonVars
  <2>2. Listening(b) \/ tim4
    BY DEF IInv, Attended
  <2>3. CASE b = D21
    BY <2>1, <2>2, <2>3 DEF Listening, MaskInterrupt
  <2>4. CASE b # D21
    BY <2>2, <2>4 DEF Listening, MaskInterrupt, NoOther, Buttons
  <2> QED
    BY <2>3, <2>4
<1>3. PressIsPolled'
  BY DEF IInv, TypeOK, PressIsPolled, Listening, MaskInterrupt, buttonVars
<1> QED
  BY <1>1, <1>2, <1>3 DEF IInv

-----------------------------------------------------------------------------

\* Every step keeps the invariant.
LEMMA NextIInv == IInv /\ [Next]_vars => IInv'
<1> SUFFICES ASSUME IInv, [Next]_vars PROVE IInv'
  OBVIOUS
<1>1. ASSUME NEW b \in Buttons, PinChange(b) PROVE IInv'
  BY <1>1, PinChangeKeeps
<1>2. CASE TimerMatch
  BY <1>2, TimerMatchKeeps
<1>3. CASE Int0Isr
  BY <1>3, Int0IsrKeeps
<1>4. CASE PcintIsr
  BY <1>4, PcintIsrKeeps
<1>5. ASSUME NEW moved \in SUBSET Buttons, Debounce(moved) PROVE IInv'
  BY <1>5, DebounceKeeps
<1>6. CASE Setup
  BY <1>6, SetupKeeps
<1>7. ASSUME NEW b \in Buttons, RunAction(b) PROVE IInv'
  BY <1>7, RunActionKeeps
<1>8. CASE ActionDone
  BY <1>8, ActionDoneKeeps
<1>9. ASSUME NEW b \in Buttons, DisableButton(b) PROVE IInv'
  BY <1>9, DisableButtonKeeps
<1>10. CASE MaskInterrupt
  BY <1>10, MaskInterruptKeeps
<1>11. CASE PowerDown \/ Resume
  BY <1>11, PowerDownKeeps
<1>12. CASE UNCHANGED vars
  BY <1>12 DEF IInv, TypeOK, Attended, PressIsPolled, FallThenRise, DebouncingIsTimed,
       ActingIsPressed, DisabledIsOff, Disabled, Listening, vars, buttonVars, masks, flags
<1> QED
  BY <1>1, <1>2, <1>3, <1>4, <1>5, <1>6, <1>7, <1>8, <1>9, <1>10, <1>11, <1>12
     DEF Next, Isr, MainLoop

\* The inductive invariant holds of every behaviour.
THEOREM Invariance == Spec => []IInv
BY InitIInv, NextIInv, PTL DEF Spec

\* The variables shared by the routines and the main loop keep their types.
THEOREM TypeCorrect == Spec => []TypeOK
<1>1. IInv => TypeOK
  BY DEF IInv
<1> QED
  BY <1>1, Invariance, PTL

\* No enabled button is ever left without interrupt and without timer,
\* whatever the pins in use and the order of interrupts.
THEOREM AlwaysAttended == Spec => []Attended
<1>1. IInv => Attended
  BY DEF IInv
<1> QED
  BY <1>1, Invariance, PTL

\* A button that is down is polled and cannot interrupt.
THEOREM PressAlwaysPolled == Spec => []PressIsPolled
<1>1. IInv => PressIsPolled
  BY DEF IInv
<1> QED
  BY <1>1, Invariance, PTL

\* A press is a fall then a rise: the level and the status never get out of
\* step, bounces, late polls and power cycles included.
THEOREM AlwaysFallThenRise == Spec => []FallThenRise
<1>1. IInv => FallThenRise
  BY DEF IInv
<1> QED
  BY <1>1, Invariance, PTL
=============================================================================
