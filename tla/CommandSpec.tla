---------------------------- MODULE CommandSpec -----------------------------
(***************************************************************************)
(* What the command service promises, with nothing of how it is done: one  *)
(* status per command, changed in one atomic step along the transition     *)
(* table of services/command.py, and one slot for running commands.        *)
(***************************************************************************)
CONSTANT Commands
VARIABLE status

Final == {"SUCCEEDED", "FAILED", "COMPLETED_WITH_ERRORS"}

Init == status = [c \in Commands |-> "NONE"]

Move(c, from, to) ==
  /\ status[c] \in from
  /\ status' = [status EXCEPT ![c] = to]

Create(c)  == Move(c, {"NONE"}, "PENDING")
Enqueue(c) == Move(c, {"PENDING"}, "QUEUED")
Start(c)   == Move(c, {"QUEUED"}, "RUNNING") /\ \A d \in Commands : status[d] # "RUNNING"
Finish(c)  == \E to \in Final : Move(c, {"RUNNING"}, to)
Cancel(c)  == Move(c, {"PENDING", "QUEUED", "RUNNING"}, "CANCELLED")

Next == \E c \in Commands : Create(c) \/ Enqueue(c) \/ Start(c) \/ Finish(c) \/ Cancel(c)

Spec == Init /\ [][Next]_status
=============================================================================
