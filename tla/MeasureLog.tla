----------------------------- MODULE MeasureLog -----------------------------
(***************************************************************************)
(* What the temperature databases are to the rest of the tmon: a log of    *)
(* registration sessions.  A session once closed never changes, and cutting*)
(* the power changes nothing; only a reset takes sessions away.            *)
(***************************************************************************)
EXTENDS Integers, Sequences

CONSTANT Temperatures

VARIABLES
    sessions,   \* the temperatures of each session, the last one open
    count       \* how many the daemon takes the last session to have

vars == <<sessions, count>>

Init == sessions = <<<<>>>> /\ count = 0

last == Len(sessions)

\* The open session is used first if it is empty
Open ==
    /\ sessions[last] # <<>>
    /\ sessions' = Append(sessions, <<>>)
    /\ count' = 0

Record ==
    /\ \E t \in Temperatures : sessions' = [sessions EXCEPT ![last] = Append(@, t)]
    /\ count' = count + 1

Reset == sessions' = <<<<>>>> /\ count' = 0

Next == Open \/ Record \/ Reset

Spec == Init /\ [][Next]_vars
=============================================================================
