---------------------------- MODULE TaskService -----------------------------
(***************************************************************************)
(* What the thread pool promises the script: a task that has been added is *)
(* processed once, and afterwards its callback is called once, with what   *)
(* processing it gave.                                                     *)
(***************************************************************************)
CONSTANT Task

VARIABLES
  phase,   \* of each task: "new", "queued", "processed" or "reported"
  outcome  \* what processing gave, and what the callback is told

serviceVars == <<phase, outcome>>

Init ==
  /\ phase = [t \in Task |-> "new"]
  /\ outcome = [t \in Task |-> "none"]

Add(t) ==
  /\ phase[t] = "new"
  /\ phase' = [phase EXCEPT ![t] = "queued"]
  /\ UNCHANGED outcome

Process(t) ==
  /\ phase[t] = "queued"
  /\ phase' = [phase EXCEPT ![t] = "processed"]
  /\ \E r \in {"ok", "error"} : outcome' = [outcome EXCEPT ![t] = r]

Report(t) ==
  /\ phase[t] = "processed"
  /\ phase' = [phase EXCEPT ![t] = "reported"]
  /\ UNCHANGED outcome

Next == \E t \in Task : Add(t) \/ Process(t) \/ Report(t)

Spec == Init /\ [][Next]_serviceVars

=============================================================================
