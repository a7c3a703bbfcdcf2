------------------------------ MODULE Exchange ------------------------------
(***************************************************************************)
(* What the protocol promises the shell on a line that loses nothing: the  *)
(* tmon executes each command once, while the shell waits for it, and the  *)
(* shell command then succeeds.  A connect executes nothing.               *)
(***************************************************************************)
EXTENDS Integers, Sequences

VARIABLES
    jobs,   \* the shell commands issued, with their results
    ran     \* the jobs executed by the tmon, in order

vars == <<jobs, ran>>

Init == jobs = <<>> /\ ran = <<>>

last == Len(jobs)
Running == jobs # <<>> /\ jobs[last].result = "running"
Executed == \E i \in DOMAIN ran : ran[i] = last

Issue(cmd) ==
    /\ ~Running
    /\ jobs' = Append(jobs, [cmd |-> cmd, result |-> "running"])
    /\ UNCHANGED ran

Execute ==
    /\ Running /\ jobs[last].cmd # "connect" /\ ~Executed
    /\ ran' = Append(ran, last)
    /\ UNCHANGED jobs

Succeed ==
    /\ Running /\ (jobs[last].cmd = "connect" \/ Executed)
    /\ jobs' = [jobs EXCEPT ![last].result = "ok"]
    /\ UNCHANGED ran

Next ==
    \/ \E cmd \in {"connect", "set", "echo", "download"} : Issue(cmd)
    \/ Execute
    \/ Succeed

Spec == Init /\ [][Next]_vars /\ WF_vars(Execute) /\ WF_vars(Succeed)
=============================================================================
