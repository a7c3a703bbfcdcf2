------------------------------ MODULE RtoTimer ------------------------------
(***************************************************************************)
(* One packet sent or received by the host (communication_send and         *)
(* communication_recv of sources/host/communication.c) and its timer: a    *)
(* POSIX timer that raises SIGUSR1 once, whose handler sets a flag.  The   *)
(* signal may come between any two steps of the shell, at the prompt too.  *)
(***************************************************************************)
EXTENDS Integers

CONSTANT MAXIMUM_ATTEMPTS   \* MAXIMUM_SEND_ATTEMPTS, MAXIMUM_RECV_ATTEMPTS: 3

ASSUME RtoTimerAssumption == MAXIMUM_ATTEMPTS \in Nat \ {0}

VARIABLES
    elapsed, ongoing,   \* rto_timer
    armed,              \* the timer of the kernel will raise the signal
    handled,            \* rto_sig_handler is the handler of SIGUSR1
    at,                 \* where the shell is in the exchange
    attempt,
    outcome             \* "none" until the exchange returns, then "ok" or "failed"

timerVars == <<elapsed, ongoing, armed, handled, at, attempt, outcome>>

Places == {"idle", "start", "arm", "loop", "getchar", "test", "call", "pause", "killed"}

TimerInit ==
    /\ elapsed = FALSE /\ ongoing = FALSE /\ armed = FALSE /\ handled = TRUE
    /\ at = "idle" /\ attempt = 0 /\ outcome = "none"

Idle == at = "idle"

\* communication_send or communication_recv is called
CallExchange ==
    /\ Idle
    /\ at' = "start" /\ attempt' = 0 /\ outcome' = "none"
    /\ UNCHANGED <<elapsed, ongoing, armed, handled>>

\* Its caller takes the result
TakeOutcome(result) ==
    /\ Idle /\ outcome = result
    /\ outcome' = "none"
    /\ UNCHANGED <<elapsed, ongoing, armed, handled, at, attempt>>

\* rto_timer_start, up to timer_settime ...
RtoTimerStart ==
    /\ at = "start"
    /\ armed' = (armed /\ ~ongoing)
    /\ ongoing' = FALSE
    /\ elapsed' = FALSE
    /\ at' = "arm"
    /\ UNCHANGED <<handled, attempt, outcome>>

\* Mutant: a timer that elapsed is not set again
ArmTimerOnce == attempt = 0 \/ armed

\* ... which starts the timer again if it runs; then the packet is sent, if
\* this is communication_send
ArmTimer == TRUE

RtoTimerArm ==
    /\ at = "arm"
    /\ armed' = ArmTimer
    /\ at' = "loop"
    /\ UNCHANGED <<elapsed, ongoing, handled, attempt, outcome>>

\* Mutant: there is no last attempt
NextAttemptForever ==
    /\ at' = "start"
    /\ UNCHANGED <<elapsed, ongoing, armed, handled, attempt, outcome>>

\* The next attempt, or the failure of the exchange
NextAttempt ==
    /\ IF attempt + 1 < MAXIMUM_ATTEMPTS
         THEN at' = "start" /\ attempt' = attempt + 1 /\ UNCHANGED outcome
         ELSE at' = "idle" /\ outcome' = "failed" /\ UNCHANGED attempt
    /\ UNCHANGED <<elapsed, ongoing, armed, handled>>

\* _recv_attempt looks at the flag before every byte
LookAtTimer ==
    /\ at = "loop"
    /\ \/ elapsed /\ NextAttempt
       \/ /\ ~elapsed /\ at' = "getchar"
          /\ UNCHANGED <<elapsed, ongoing, armed, handled, attempt, outcome>>

\* A byte comes or not; it may be the last one of a good packet, which
\* rto_timer_stop follows, or show that the packet is bad
GetChar ==
    /\ at = "getchar"
    /\ \/ at' \in {"loop", "test"} /\ UNCHANGED <<outcome, armed, ongoing>>
       \/ /\ at' = "idle" /\ outcome' = "ok"
          /\ armed' = (armed /\ ~ongoing) /\ ongoing' = FALSE
    /\ UNCHANGED <<elapsed, handled, attempt>>

\* while (!rto_timer.elapsed) pause(): the flag is tested ...
TestElapsed ==
    /\ at = "test"
    /\ \/ elapsed /\ NextAttempt
       \/ /\ ~elapsed /\ at' = "call"
          /\ UNCHANGED <<elapsed, ongoing, armed, handled, attempt, outcome>>

\* ... then pause() is called, and waits
CallPause ==
    /\ at = "call"
    /\ at' = "pause"
    /\ UNCHANGED <<elapsed, ongoing, armed, handled, attempt, outcome>>

\* pause() returns once a handler has run
WokenBySignal == IF at = "pause" THEN "test" ELSE at

\* The timer elapses and the signal is delivered: to rto_sig_handler, or, once
\* communication_cleanup has reset the handler, to the default action
TimerElapses ==
    /\ armed
    /\ armed' = FALSE
    /\ IF handled
         THEN elapsed' = TRUE /\ ongoing' = FALSE /\ at' = WokenBySignal
         ELSE at' = "killed" /\ UNCHANGED <<elapsed, ongoing>>
    /\ UNCHANGED <<handled, attempt, outcome>>

\* rto_timer_destroy resets the handler of the signal ...
ResetHandler ==
    /\ Idle
    /\ armed' = (armed /\ ~ongoing)
    /\ ongoing' = FALSE /\ handled' = FALSE
    /\ UNCHANGED <<elapsed, at, attempt, outcome>>

\* ... then deletes the timer
DeleteTimer ==
    /\ Idle /\ ~handled
    /\ armed' = FALSE
    /\ UNCHANGED <<elapsed, ongoing, handled, at, attempt, outcome>>

ExchangeStep == RtoTimerStart \/ RtoTimerArm \/ LookAtTimer \/ GetChar \/ TestElapsed \/ CallPause

-----------------------------------------------------------------------------

\* While the shell waits in an attempt with the flag clear, the timer is armed:
\* no attempt lacks its timeout, whatever the timer of an earlier one did.
WaitIsTimed == at \in {"loop", "getchar", "test", "call", "pause"} /\ ~elapsed => armed

\* The signal came between the test of the flag and pause()
SignalMissed == at = "pause" /\ elapsed
=============================================================================
