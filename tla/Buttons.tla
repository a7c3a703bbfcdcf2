------------------------------ MODULE Buttons ------------------------------
(***************************************************************************)
(* The buttons of the tmon (sources/avr/buttons.c) and the power off and   *)
(* resume cycle of sources/avr/main.c that they drive.                     *)
(*                                                                         *)
(* Three interrupt service routines share the buttons with the main loop:  *)
(* an edge on a pin switches its interrupt off and the debouncer timer on, *)
(* the timer polls the pins until no button is down and switches the       *)
(* interrupts back on.  A press is a fall of the pin then a rise; the main *)
(* loop then runs the action of the button.                                *)
(*                                                                         *)
(* A step of the main loop is what no interrupt splits: the register and   *)
(* memory writes that follow one another with no interrupt that matters in *)
(* between.                                                                *)
(***************************************************************************)
EXTENDS Integers

CONSTANTS
    Pcint,          \* the buttons on pins [D53,D50], which share PCINT0
    D21,            \* the button on INT0
    btn_poweroff, btn_start, btn_stop   \* the pins given by the configuration

Buttons == Pcint \cup {D21}

ASSUME ButtonsAssumption ==
    /\ D21 \notin Pcint
    /\ {btn_poweroff, btn_start, btn_stop} \subseteq Buttons
    /\ btn_poweroff # btn_start /\ btn_poweroff # btn_stop /\ btn_start # btn_stop

VARIABLES
    pin,            \* level of each pin: 0 pressed, 1 released
    enabled,        \* buttons[b].enabled
    status,         \* buttons[b].status: 0 open, 1 pressing, 2 pressed
    history,        \* the last bit of buttons[b].history, the only one read
    debouncing,     \* debouncing # 0
    eint, int0, tim4,       \* PCINT0, INT0, TIMER4 interrupts enabled
    pcif, intf, ocf,        \* their flags: the interrupt is pending
    pc,             \* where the main loop is
    acting          \* the button whose action runs in the handler

buttonVars == <<enabled, status, history>>
masks == <<eint, int0, tim4>>
flags == <<pcif, intf, ocf>>
vars == <<pin, buttonVars, debouncing, masks, flags, pc, acting>>

OPEN == 0
PRESSING == 1
PRESSED == 2

Init ==
    /\ pin = [b \in Buttons |-> 1]
    /\ enabled = [b \in Buttons |-> FALSE]
    /\ status = [b \in Buttons |-> OPEN]
    /\ history = [b \in Buttons |-> 0]
    /\ debouncing = FALSE
    /\ eint = FALSE /\ int0 = FALSE /\ tim4 = FALSE
    /\ pcif = FALSE /\ intf = FALSE /\ ocf = FALSE
    /\ pc = "setup" /\ acting = btn_poweroff

-----------------------------------------------------------------------------

(***************************************************************************)
(* The pins and the timer.  An edge sets the flag of an interrupt whether  *)
(* the interrupt is enabled or not; PCINT0 only looks at the pins of       *)
(* PCMSK0, those of the enabled buttons.  The timer runs all the time,     *)
(* save in power down, and matches over and over.                          *)
(***************************************************************************)
Moved(moved) == [b \in Buttons |-> IF b \in moved THEN 1 - pin[b] ELSE pin[b]]

PinChange(b) ==
    /\ pin' = Moved({b})
    /\ pcif' = (pcif \/ (b \in Pcint /\ enabled[b]))
    /\ intf' = (intf \/ b = D21)
    /\ UNCHANGED <<buttonVars, debouncing, masks, ocf, pc, acting>>

TimerMatch ==
    /\ pc # "asleep" /\ ~ocf
    /\ ocf' = TRUE
    /\ UNCHANGED <<pin, buttonVars, debouncing, masks, pcif, intf, pc, acting>>

-----------------------------------------------------------------------------

\* Mutant: the status goes on past PRESSED
ChangedAnyStatus(b) == pin[b] # history[b]

\* _btn_update: a change of the level moves the status on, up to PRESSED
Changed(b) == pin[b] # history[b] /\ status[b] < PRESSED

UpdatedStatus(b) == IF Changed(b) THEN status[b] + 1 ELSE status[b]

\* Mutant: the history follows the pin whatever the status is
UpdateAlways(read) ==
    /\ status' = [b \in Buttons |-> IF b \in read THEN UpdatedStatus(b) ELSE status[b]]
    /\ history' = [b \in Buttons |-> IF b \in read THEN pin[b] ELSE history[b]]

Update(read) ==
    /\ status' = [b \in Buttons |-> IF b \in read THEN UpdatedStatus(b) ELSE status[b]]
    /\ history' = [b \in Buttons |->
                      IF b \in read /\ Changed(b) THEN pin[b] ELSE history[b]]

\* Interrupts are off during the set up and once woken up until the idle sleep
InterruptsOn == pc \notin {"setup", "woken"}

\* An interrupt ends the power down sleep
Wake == pc' = IF pc = "asleep" THEN "woken" ELSE pc

\* Mutant: the debouncer timer is not started
StartDebouncerNot == tim4' = tim4

\* tim4_sei leaves the flag of the timer alone: an old match is served at once
StartDebouncer == tim4' = TRUE

Int0Pending == int0 /\ intf
PcintPending == eint /\ pcif

\* ISR(INT0_vect)
Int0Isr ==
    /\ InterruptsOn /\ Int0Pending
    /\ Update({D21})
    /\ intf' = FALSE /\ int0' = FALSE /\ StartDebouncer
    /\ Wake
    /\ UNCHANGED <<pin, enabled, debouncing, eint, pcif, ocf, acting>>

\* ISR(PCINT0_vect); INT0 goes first
PcintIsr ==
    /\ InterruptsOn /\ PcintPending /\ ~Int0Pending
    /\ Update({b \in Pcint : enabled[b]})
    /\ pcif' = FALSE /\ eint' = FALSE /\ StartDebouncer
    /\ Wake
    /\ UNCHANGED <<pin, enabled, debouncing, int0, intf, ocf, acting>>

\* The buttons the debouncer reads, and those it finds still down
Polled ==
    {b \in Pcint : ~eint /\ enabled[b]} \cup {b \in {D21} : ~int0 /\ enabled[b]}

Down == {b \in Polled : UpdatedStatus(b) = PRESSING}

\* Mutant: the interrupt comes back although a button is down
EintSeiAlways == ~eint

EintSei == ~eint /\ Down \cap Pcint = {}
Int0Sei == ~int0 /\ enabled[D21] /\ D21 \notin Down

(***************************************************************************)
(* ISR(TIMER4_COMPA_vect), the last in priority.  Enabling an interrupt    *)
(* clears its flag, so that an edge after the pins are read is lost        *)
(* ("moved").                                                              *)
(***************************************************************************)
Debounce(moved) ==
    /\ InterruptsOn /\ tim4 /\ ocf /\ ~Int0Pending /\ ~PcintPending
    /\ Update(Polled)
    /\ pin' = Moved(moved)
    /\ eint' = (eint \/ EintSei) /\ int0' = (int0 \/ Int0Sei)
    /\ pcif' = (~EintSei /\ (pcif \/ \E b \in moved \cap Pcint : enabled[b]))
    /\ intf' = (~Int0Sei /\ (intf \/ D21 \in moved))
    /\ ocf' = FALSE
    /\ debouncing' = (Down # {})
    /\ tim4' = (Down # {})
    /\ Wake
    /\ UNCHANGED <<enabled, acting>>

Isr == Int0Isr \/ PcintIsr \/ \E moved \in SUBSET Buttons : Debounce(moved)

-----------------------------------------------------------------------------

\* buttons_setup: the pins given by the configuration, from interrupts off to
\* the sei of the main loop.  PCINT0 stays as it is while debouncing, and off
\* if button_action_set just disabled the only button on it.
Setup ==
    /\ pc = "setup"
    /\ LET used == {btn_poweroff, btn_start, btn_stop}
           eint_before == eint /\ ~(btn_poweroff \in Pcint /\ enabled[btn_poweroff])
           sei == ~debouncing /\ used \cap Pcint # {}
       IN  /\ enabled' = [b \in Buttons |-> b \in used]
           /\ status' = [b \in Buttons |-> IF b \in used THEN OPEN ELSE status[b]]
           /\ history' = [b \in Buttons |-> IF b \in used THEN 1 ELSE history[b]]
           /\ eint' = (eint_before \/ sei) /\ pcif' = (pcif /\ ~sei)
           /\ int0' = (D21 \in used) /\ intf' = (intf /\ D21 \notin used)
    /\ pc' = "loop"
    /\ UNCHANGED <<pin, debouncing, tim4, ocf, acting>>

\* button_handler finds a button pressed and runs its action.  The actions of
\* start and stop do not touch the buttons.
RunAction(b) ==
    /\ pc = "loop" /\ enabled[b] /\ status[b] = PRESSED
    /\ acting' = b
    /\ pc' = IF b = btn_poweroff THEN "disable" ELSE "acted"
    /\ UNCHANGED <<pin, buttonVars, debouncing, masks, flags>>

\* Back from the action: the status, then the rest of the main loop
ActionDone ==
    /\ pc \in {"acted", "woken"}
    /\ status' = [status EXCEPT ![acting] = OPEN]
    /\ pc' = IF pc = "woken" THEN "idle" ELSE "loop"
    /\ UNCHANGED <<pin, enabled, history, debouncing, masks, flags, acting>>

\* poweroff: button_disable of btn_start, then of btn_stop, in two steps each
DisableButton(b) ==
    /\ pc = "disable" /\ enabled[b]
    /\ b = btn_start \/ (b = btn_stop /\ ~enabled[btn_start])
    /\ enabled' = [enabled EXCEPT ![b] = FALSE]
    /\ pc' = "mask"
    /\ UNCHANGED <<pin, status, history, debouncing, masks, flags, acting>>

\* The button just disabled
Disabled == IF enabled[btn_stop] THEN btn_start ELSE btn_stop

\* Mutant: PCINT0 goes off whatever buttons are left
NoOtherNeverMind == TRUE

\* No other button needs PCINT0
NoOther == \A b \in Pcint : ~enabled[b]

MaskInterrupt ==
    /\ pc = "mask"
    /\ eint' = (eint /\ ~(Disabled \in Pcint /\ NoOther))
    /\ int0' = (int0 /\ Disabled # D21)
    /\ pc' = "disable"
    /\ UNCHANGED <<pin, buttonVars, debouncing, tim4, flags, acting>>

\* sleep(SLEEP_MODE_PWR_DOWN): only an interrupt ends it
PowerDown ==
    /\ pc = "disable" /\ ~enabled[btn_start] /\ ~enabled[btn_stop]
    /\ pc' = "asleep"
    /\ UNCHANGED <<pin, buttonVars, debouncing, masks, flags, acting>>

\* The rest of the main loop, then the set up again.  Interrupts are on during
\* the idle sleep and the first conversion of the sensor.
Resume ==
    /\ pc = "idle"
    /\ pc' = "setup"
    /\ UNCHANGED <<pin, buttonVars, debouncing, masks, flags, acting>>

MainLoop ==
    \/ Setup \/ ActionDone \/ MaskInterrupt \/ PowerDown \/ Resume
    \/ \E b \in Buttons : RunAction(b) \/ DisableButton(b)

Next == (\E b \in Buttons : PinChange(b)) \/ TimerMatch \/ Isr \/ MainLoop

(***************************************************************************)
(* The timer matches and interrupts are served; the main loop goes round,  *)
(* so that it comes to each button.  Nothing makes the user press a button.*)
(***************************************************************************)
Fairness ==
    /\ WF_vars(TimerMatch) /\ WF_vars(Isr)
    /\ WF_vars(MainLoop) /\ \A b \in Buttons : SF_vars(RunAction(b))

Spec == Init /\ [][Next]_vars
FairSpec == Spec /\ Fairness

-----------------------------------------------------------------------------

TypeOK ==
    /\ pin \in [Buttons -> {0, 1}]
    /\ enabled \in [Buttons -> BOOLEAN]
    /\ status \in [Buttons -> {OPEN, PRESSING, PRESSED}]
    /\ history \in [Buttons -> {0, 1}]
    /\ debouncing \in BOOLEAN
    /\ eint \in BOOLEAN /\ int0 \in BOOLEAN /\ tim4 \in BOOLEAN
    /\ pcif \in BOOLEAN /\ intf \in BOOLEAN /\ ocf \in BOOLEAN
    /\ pc \in {"setup", "loop", "acted", "disable", "mask", "asleep", "woken", "idle"}
    /\ acting \in Buttons

Listening(b) == IF b = D21 THEN int0 ELSE eint

\* Whatever the order of the interrupts, of the disabling of buttons and of a
\* set up that finds the debouncer at work, no enabled button is left with
\* neither its interrupt nor the debouncer timer to attend to it.
Attended == \A b \in Buttons : enabled[b] => Listening(b) \/ tim4

\* A button that is down is polled, by a timer that runs, and its interrupt is
\* off until it is up again: bounces raise no interrupt.
PressIsPolled ==
    \A b \in Buttons : enabled[b] /\ status[b] = PRESSING => tim4 /\ ~Listening(b)

\* A press is a fall then a rise, never the other way round: the level last
\* taken into account is 0 exactly while the button is down.
FallThenRise ==
    \A b \in Buttons : enabled[b] => (history[b] = 0 <=> status[b] = PRESSING)

\* A button that is let go does not count as down for ever, and its action is
\* run: a press in the end brings the button back to OPEN, unless the user
\* keeps it down or the tmon is powered off.
PressIsServed ==
    \A b \in Buttons :
        ~<>[](enabled[b] /\ status[b] # OPEN /\ pc # "asleep"
                /\ (status[b] = PRESSING => pin[b] = 1))

\* main.c:33: "Poweroff the AVR board (with capability to resume)": when the
\* tmon sleeps, the power button can wake it up.
CanResume ==
    pc = "asleep" => Listening(btn_poweroff) \/ (tim4 /\ ocf)
=============================================================================
