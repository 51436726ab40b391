----------------------- MODULE CommandLifecycleProofs -----------------------
(***************************************************************************)
(* Proofs about CommandLifecycle, for any commands, cancel handlers and    *)
(* bounds: type correctness, the inductive invariant IInv, the changes of  *)
(* a status, RUNNING and QUEUED rows, and the refinement of CommandSpec.   *)
(***************************************************************************)
EXTENDS CommandLifecycle, TLAPS

\* NoRow is a row whose status is NONE.
LEMMA NoRowType == NoRow \in Row /\ NoRow.status = "NONE"
  BY DEF NoRow, Row

\* Moved yields a row with the new status.
LEMMA MovedType ==
  ASSUME NEW row \in Row, NEW new \in Status
  PROVE  Moved(row, new) \in Row /\ Moved(row, new).status = new
  BY DEF Moved, Row, Status, Terminal, Cancellable

\* The other column updates keep the status.
LEMMA ColumnType ==
  ASSUME NEW row \in Row
  PROVE  /\ [row EXCEPT !.job = TRUE] \in Row
         /\ [row EXCEPT !.job = TRUE].status = row.status
         /\ [row EXCEPT !.summary = TRUE] \in Row
         /\ [row EXCEPT !.summary = TRUE].status = row.status
  BY DEF Row

\* A created row.
LEMMA PendingType ==
  /\ [NoRow EXCEPT !.status = "PENDING"] \in Row
  /\ [NoRow EXCEPT !.status = "PENDING"].status = "PENDING"
  BY DEF NoRow, Row, Status, Cancellable

\* The start-up reset.
LEMMA ResetType ==
  ASSUME NEW row \in Row
  PROVE  /\ Reset(row) \in Row
         /\ row.status = "RUNNING" => Reset(row).status = "FAILED"
         /\ row.status # "RUNNING" => Reset(row).status = row.status
  BY DEF Reset, Row, Status, Terminal

\* A transition the table allows.
LEMMA AllowedFrom ==
  ASSUME NEW c \in Commands, NEW new, Allowed(c, new)
  PROVE  /\ new \in Status
         /\ db[c].status # "NONE"
         /\ new = "QUEUED" => db[c].status = "PENDING"
         /\ new = "RUNNING" => db[c].status = "QUEUED"
         /\ new \in {"SUCCEEDED", "FAILED", "COMPLETED_WITH_ERRORS"}
              => db[c].status = "RUNNING"
  BY DEF Allowed, VALID_TRANSITIONS, Status, Cancellable, Terminal

\* A refused FAILED is refused on a row that is not RUNNING.
LEMMA RefusedFailed ==
  ASSUME NEW c \in Commands, ~Allowed(c, "FAILED")
  PROVE  db[c].status # "RUNNING"
  BY DEF Allowed, VALID_TRANSITIONS, Status, Cancellable, Terminal

LEMMA SomeCommandType == SomeCommand \in Commands
  BY LifecycleAssumption DEF SomeCommand

\* A job is one of Jobs.
LEMMA JobType ==
  ASSUME NEW c \in Commands
  PROVE  /\ Job("process_command", c) \in Jobs /\ Job("process_command", c).cmd = c
         /\ Job("process_rearm", c) \in Jobs /\ Job("process_rearm", c).cmd = c
  BY DEF Job, Jobs

\* The jobs of a queue that gains a job at its end, or loses its first.
LEMMA AppendJob ==
  ASSUME NEW q \in Seq(Jobs), NEW j \in Jobs, NEW S, j.cmd \in S,
         \A i \in 1..Len(q) : q[i].cmd \in S
  PROVE  \A i \in 1..Len(Append(q, j)) : Append(q, j)[i].cmd \in S
<1> TAKE i \in 1..Len(Append(q, j))
<1>1. CASE i = Len(q) + 1
  BY <1>1
<1>2. CASE i \in 1..Len(q)
  BY <1>2
<1> QED BY <1>1, <1>2

LEMMA TailJob ==
  ASSUME NEW q \in Seq(Jobs), q # <<>>, NEW S,
         \A i \in 1..Len(q) : q[i].cmd \in S
  PROVE  Head(q).cmd \in S /\ \A i \in 1..Len(Tail(q)) : Tail(q)[i].cmd \in S
  OBVIOUS

-----------------------------------------------------------------------------
(* Type correctness. *)

LEMMA TypeInit == Init => TypeOK
<1> SUFFICES ASSUME Init PROVE TypeOK
  OBVIOUS
<1>1. db \in [Commands -> Row] /\ subRow \in [Commands -> Row]
  BY NoRowType DEF Init
<1>2. /\ queue \in Seq(Jobs) /\ scheduled \subseteq Commands
      /\ subPc \in [Commands -> {"new", "read", "save", "enqueue", "done"}]
      /\ runs \in [Commands -> Nat]
  BY DEF Init
<1>3. /\ canPc \in [Cancellers -> {"idle", "read", "save"}]
      /\ canCmd \in [Cancellers -> Commands] /\ canRow \in [Cancellers -> Row]
  BY NoRowType, SomeCommandType DEF Init
<1>4. wkPc \in WorkerPcs /\ wkCmd \in Commands /\ wkRow \in Row
  BY NoRowType, SomeCommandType DEF Init, WorkerPcs
<1> QED BY <1>1, <1>2, <1>3, <1>4 DEF Init, TypeOK

\* A handler that creates and enqueues a command.
LEMMA SubmitType == ASSUME TypeOK, NEW c \in Commands, Submit(c) PROVE TypeOK'
<1> USE DEF TypeOK, SubGoto, subVars, canVars, wkVars, redisVars, countVars
<1>1. CASE CreateCommand(c)
  BY <1>1, NoRowType, PendingType DEF CreateCommand
<1>2. CASE QueuedRead(c)
  <2>1. Moved(db[c], "QUEUED") \in Row
    BY MovedType DEF Status, Cancellable
  <2>2. CASE SubGoto(c, "save", Moved(db[c], "QUEUED"))
    BY <1>2, <2>1, <2>2 DEF QueuedRead
  <2>3. CASE SubGoto(c, "done", NoRow)
    BY <1>2, <2>3, NoRowType DEF QueuedRead
  <2> QED BY <1>2, <2>2, <2>3 DEF QueuedRead
<1>3. CASE QueuedSave(c)
  BY <1>3, NoRowType DEF QueuedSave
<1>4. CASE Enqueue(c)
  BY <1>4, NoRowType, JobType DEF Enqueue
<1>5. CASE EnqueueRefused(c)
  BY <1>5, NoRowType DEF EnqueueRefused
<1> QED BY <1>1, <1>2, <1>3, <1>4, <1>5 DEF Submit

\* A cancel handler.
LEMMA CancelType == ASSUME TypeOK, NEW r \in Cancellers, Cancel(r) PROVE TypeOK'
<1> USE DEF TypeOK, CanGoto, subVars, canVars, wkVars, redisVars, countVars
<1>1. ASSUME NEW c \in Commands, CancelCheck(r, c) PROVE TypeOK'
  BY <1>1, NoRowType DEF CancelCheck
<1>2. CASE CancelRead(r)
  <2>1. Moved(db[canCmd[r]], "CANCELLED") \in Row
    BY MovedType DEF Status, Terminal
  <2> QED BY <1>2, <2>1, NoRowType, SomeCommandType DEF CancelRead
<1>3. CASE CancelSave(r)
  BY <1>3, NoRowType, SomeCommandType DEF CancelSave
<1> QED BY <1>1, <1>2, <1>3 DEF Cancel

\* The worker moves to another point of execute_command with another row read.
LEMMA WkGotoType ==
  ASSUME TypeOK, NEW pc \in WorkerPcs, NEW row \in Row, WkGoto(pc, row)
  PROVE  /\ wkPc' \in WorkerPcs /\ wkCmd' \in Commands /\ wkRow' \in Row
         /\ wkCancelled' \in BOOLEAN
         /\ UNCHANGED <<subPc, subRow, canPc, canCmd, canRow, cancelSeen, mode,
                        crashes, stops, glitches>>
  BY SomeCommandType DEF WkGoto, TypeOK, subVars, canVars, countVars

\* The worker.
LEMMA WorkerType == ASSUME TypeOK, WorkerStep PROVE TypeOK'
<1> USE DEF TypeOK, WorkerPcs, OutsideTry, InTry, redisVars
<1>0. wkCmd \in Commands /\ db[wkCmd] \in Row
  OBVIOUS
<1>1. CASE Dequeue
  <2>1. Head(queue) \in Jobs /\ Tail(queue) \in Seq(Jobs)
    BY <1>1 DEF Dequeue
  <2> QED BY <1>1, <2>1 DEF Dequeue, Jobs, subVars, canVars, countVars
<1>2. CASE ExecuteGet
  BY <1>2, WkGotoType, NoRowType DEF ExecuteGet
<1>3. CASE ToRunning
  <2>1. Moved(db[wkCmd], "RUNNING") \in Row
    BY <1>0, MovedType DEF Status, Cancellable
  <2> QED BY <1>3, <2>1, WkGotoType, NoRowType DEF ToRunning
<1>4. CASE SaveRunning
  BY <1>4, WkGotoType, NoRowType DEF SaveRunning, WorkerSaves
<1>5. CASE RunWorkflow
  BY <1>5, WkGotoType, NoRowType DEF RunWorkflow
<1>6. CASE RearmEnqueue
  BY <1>6, WkGotoType, NoRowType DEF RearmEnqueue
<1>7. CASE RearmRead
  BY <1>0, <1>7, WkGotoType, ColumnType DEF RearmRead
<1>8. CASE RearmSave
  BY <1>8, WkGotoType, NoRowType DEF RearmSave, WorkerSaves
<1>9. CASE ToDone
  <2>1. ASSUME NEW new \in {"SUCCEEDED", "COMPLETED_WITH_ERRORS"}
        PROVE  Moved(db[wkCmd], new) \in Row
    BY <1>0, MovedType DEF Status, Terminal
  <2> QED BY <1>9, <2>1, WkGotoType, NoRowType DEF ToDone
<1>10. CASE SaveDone
  BY <1>10, WkGotoType, NoRowType DEF SaveDone, WorkerSaves
<1>11. CASE ToFailed
  <2>1. Moved(db[wkCmd], "FAILED") \in Row
    BY <1>0, MovedType DEF Status, Terminal
  <2> QED BY <1>11, <2>1, WkGotoType, NoRowType DEF ToFailed
<1>12. CASE SaveFailed
  BY <1>12, WkGotoType, NoRowType DEF SaveFailed, WorkerSaves
<1>13. CASE ReadError
  BY <1>0, <1>13, WkGotoType, ColumnType DEF ReadError
<1>14. CASE SaveError
  BY <1>14, WkGotoType, NoRowType, JobType DEF SaveError, Requeued
<1>15. CASE Rearm
  BY <1>15, WkGotoType, NoRowType DEF Rearm
<1> QED BY <1>1, <1>2, <1>3, <1>4, <1>5, <1>6, <1>7, <1>8, <1>9, <1>10,
           <1>11, <1>12, <1>13, <1>14, <1>15 DEF WorkerStep

\* What a cancelled coroutine leaves behind.
LEMMA CutType ==
  ASSUME TypeOK, HandleCancelled \/ EscapeCancelled
  PROVE  /\ db' \in [Commands -> Row] /\ scheduled' \subseteq Commands
         /\ wkPc' \in WorkerPcs /\ wkCmd' \in Commands /\ wkRow' \in Row
         /\ wkCancelled' \in BOOLEAN
  BY NoRowType, SomeCommandType
     DEF HandleCancelled, EscapeCancelled, MayHaveSaved, MayHaveScheduled,
         TypeOK, WorkerPcs, OutsideTry

\* Type correctness is inductive.
LEMMA TypeNext == TypeOK /\ [Next]_vars => TypeOK'
<1> SUFFICES ASSUME TypeOK, [Next]_vars PROVE TypeOK'
  OBVIOUS
<1> USE DEF subVars, canVars, redisVars, wkVars, countVars
<1>1. ASSUME NEW c \in Commands, Submit(c) PROVE TypeOK'
  BY <1>1, SubmitType
<1>2. ASSUME NEW c \in Commands, RearmDue(c) PROVE TypeOK'
  BY <1>2, JobType DEF RearmDue, TypeOK
<1>3. ASSUME NEW r \in Cancellers, Cancel(r) PROVE TypeOK'
  BY <1>3, CancelType
<1>4. CASE WorkerStep
  BY <1>4, WorkerType
<1>5. CASE Timeout
  BY <1>5, CutType DEF Timeout, HandleCancelled, TypeOK
<1>6. CASE LateTimeout
  BY <1>6, CutType DEF LateTimeout, TypeOK
<1>7. CASE Stop
  <2>1. CASE wkPc = "idle" /\ UNCHANGED <<db, redisVars, wkVars>>
    BY <1>7, <2>1 DEF Stop, TypeOK
  <2>2. CASE HandleCancelled
    BY <1>7, <2>2, CutType DEF Stop, HandleCancelled, TypeOK
  <2>3. CASE EscapeCancelled /\ queue' = Requeued
    BY <1>7, <2>3, CutType, JobType DEF Stop, Requeued, TypeOK
  <2> QED BY <1>7, <2>1, <2>2, <2>3 DEF Stop
<1>8. CASE Exit
  BY <1>8 DEF Exit, TypeOK
<1>9. CASE Crash
  <2>1. subPc' \in [Commands -> {"new", "read", "save", "enqueue", "done"}]
    BY <1>9 DEF Crash
  <2>2. /\ subRow' \in [Commands -> Row]
        /\ canPc' \in [Cancellers -> {"idle", "read", "save"}]
        /\ canCmd' \in [Cancellers -> Commands] /\ canRow' \in [Cancellers -> Row]
    BY <1>9, NoRowType, SomeCommandType DEF Crash
  <2>3. wkPc' \in WorkerPcs /\ wkCmd' \in Commands /\ wkRow' \in Row
    BY <1>9, NoRowType, SomeCommandType DEF Crash, WorkerPcs
  <2>4. wkCancelled' \in BOOLEAN /\ mode' \in {"up", "stopping", "down"}
    BY <1>9 DEF Crash
  <2>5. /\ crashes' \in Nat /\ stops' \in Nat /\ glitches' \in Nat
        /\ runs' \in [Commands -> Nat] /\ cancelSeen' \in BOOLEAN
    BY <1>9 DEF Crash, TypeOK
  <2>6. /\ db' \in [Commands -> Row]
        /\ queue' \in Seq(Jobs) /\ scheduled' \subseteq Commands
    BY <1>9 DEF Crash, TypeOK
  <2> QED BY <2>1, <2>2, <2>3, <2>4, <2>5, <2>6 DEF TypeOK
<1>10. CASE Restart
  BY <1>10, ResetType DEF Restart, TypeOK
<1>11. CASE UNCHANGED vars
  BY <1>11 DEF vars, TypeOK
<1> QED BY <1>1, <1>2, <1>3, <1>4, <1>5, <1>6, <1>7, <1>8, <1>9, <1>10, <1>11
        DEF Next

\* The variables keep their types.
THEOREM Typing == Spec => []TypeOK
  BY TypeInit, TypeNext, PTL DEF Spec

-----------------------------------------------------------------------------
(* The inductive invariant.                                                *)

\* The commands of the jobs in the queue.
LEMMA QueueCmds == TypeOK => \A i \in 1..Len(queue) : queue[i].cmd \in Commands
<1> SUFFICES ASSUME TypeOK, NEW i \in 1..Len(queue) PROVE queue[i].cmd \in Commands
  OBVIOUS
<1>1. queue \in Seq(Jobs)
  BY DEF TypeOK
<1>2. queue[i] \in Jobs
  BY <1>1
<1> QED BY <1>2 DEF Jobs

LEMMA IInvInit == Init => IInv
<1> SUFFICES ASSUME Init PROVE IInv
  OBVIOUS
<1>1. TypeOK
  BY TypeInit
<1>2. \A c \in Commands : db[c].status = "NONE" /\ subPc[c] = "new" /\ runs[c] = 0
  BY NoRowType DEF Init
<1>3. SubInv /\ RunInv
  BY <1>2 DEF SubInv, RunInv
<1>4. JobInv /\ CanInv /\ WkInv /\ ModeInv
  BY DEF Init, JobInv, CanInv, WkInv, ModeInv, InTry
<1> QED BY <1>1, <1>3, <1>4 DEF IInv

\* A handler that creates and enqueues a command: it alone writes the row, but for a
\* cancel, until it is done, and the worker has another command or none.
LEMMA SubmitInv == ASSUME IInv, NEW c \in Commands, Submit(c) PROVE IInv'
<1> USE DEF SubGoto, subVars, canVars, wkVars, redisVars
<1>0. TypeOK /\ TypeOK'
  BY SubmitType DEF IInv
<1>q. \A i \in 1..Len(queue) : queue[i].cmd \in Commands
  BY <1>0, QueueCmds
<1>w. wkPc # "idle" => wkCmd \in Commands /\ wkCmd # c
  <2>1. subPc[c] # "done"
    BY DEF Submit, CreateCommand, QueuedRead, QueuedSave, Enqueue, EnqueueRefused
  <2> QED BY <2>1, <1>0 DEF IInv, JobInv, TypeOK
<1>1. CASE CreateCommand(c)
  BY <1>1, <1>0, <1>w, PendingType
     DEF CreateCommand, IInv, TypeOK, SubInv, JobInv, CanInv, WkInv, RunInv, ModeInv
<1>2. CASE QueuedRead(c)
  <2>1. /\ \A d \in Commands \ {c} : subPc'[d] = subPc[d] /\ subRow'[d] = subRow[d]
        /\ subPc[c] = "read" /\ subPc'[c] \in {"save", "done"}
    BY <1>2, <1>0 DEF QueuedRead, IInv, TypeOK
  <2>2. subPc'[c] = "save" => subRow'[c].status = "QUEUED"
    BY <1>2, <1>0, MovedType DEF QueuedRead, IInv, TypeOK, Status, Cancellable
  <2>3. SubInv' /\ RunInv'
    BY <1>2, <1>0, <2>1, <2>2 DEF QueuedRead, IInv, TypeOK, SubInv, RunInv
  <2>4. JobInv'
    BY <1>2, <1>0, <2>1, <1>q, <1>w DEF QueuedRead, IInv, TypeOK, JobInv
  <2>5. CanInv' /\ WkInv' /\ ModeInv'
    BY <1>2, <1>0 DEF QueuedRead, IInv, CanInv, WkInv, ModeInv
  <2> QED BY <1>0, <2>3, <2>4, <2>5 DEF IInv
<1>3. CASE QueuedSave(c)
  <2>1. /\ \A d \in Commands \ {c} : db'[d] = db[d] /\ subPc'[d] = subPc[d]
        /\ db'[c].status = "QUEUED" /\ subPc'[c] = "enqueue" /\ subPc[c] = "save"
    BY <1>3, <1>0 DEF QueuedSave, IInv, TypeOK, SubInv
  <2>2. SubInv' /\ RunInv'
    BY <1>3, <1>0, <2>1 DEF QueuedSave, IInv, TypeOK, SubInv, RunInv
  <2>3. JobInv'
    BY <1>3, <1>0, <2>1, <1>q, <1>w DEF QueuedSave, IInv, TypeOK, JobInv
  <2>4. CanInv'
    BY <1>3, <1>0, <2>1 DEF QueuedSave, IInv, TypeOK, CanInv
  <2>5. WkInv' /\ ModeInv'
    BY <1>3, <1>0, <2>1, <1>w
       DEF QueuedSave, IInv, WkInv, ModeInv, InTry
  <2> QED BY <1>0, <2>2, <2>3, <2>4, <2>5 DEF IInv
<1>4. CASE Enqueue(c)
  <2>1. /\ \A d \in Commands \ {c} : subPc'[d] = subPc[d]
        /\ subPc'[c] = "done" /\ subPc[c] = "enqueue"
    BY <1>4, <1>0 DEF Enqueue, IInv, TypeOK, SubInv
  <2>2. SubInv' /\ CanInv' /\ WkInv' /\ RunInv' /\ ModeInv'
    BY <1>4, <1>0, <2>1 DEF Enqueue, IInv, TypeOK, SubInv, CanInv, WkInv, RunInv, ModeInv
  <2> DEFINE done == {d \in Commands : subPc'[d] = "done"}
  <2>3. \A i \in 1..Len(queue) : queue[i].cmd \in done
    BY <1>0, <2>1, <1>q DEF IInv, JobInv
  <2>4. \A i \in 1..Len(queue') : queue'[i].cmd \in done
    <3> HIDE DEF done
    <3>1. c \in done
      BY <2>1 DEF done
    <3> QED BY <1>4, <1>0, <2>3, <3>1, JobType, AppendJob DEF Enqueue, TypeOK
  <2>5. JobInv'
    BY <1>4, <1>0, <2>1, <2>4, <1>w DEF Enqueue, IInv, TypeOK, JobInv
  <2> QED BY <1>0, <2>2, <2>5 DEF IInv
<1>5. CASE EnqueueRefused(c)
  BY <1>5, <1>0, <1>w
     DEF EnqueueRefused, IInv, TypeOK, SubInv, JobInv, CanInv, WkInv, RunInv, ModeInv
<1> QED BY <1>1, <1>2, <1>3, <1>4, <1>5 DEF Submit

\* A cancel handler writes CANCELLED over a row that exists, and nothing else.
LEMMA CancelInv == ASSUME IInv, NEW r \in Cancellers, Cancel(r) PROVE IInv'
<1> USE DEF CanGoto, subVars, canVars, wkVars, redisVars
<1>0. TypeOK /\ TypeOK'
  BY CancelType DEF IInv
<1>1. ASSUME NEW c \in Commands, CancelCheck(r, c) PROVE IInv'
  <2>1. CanInv'
    BY <1>1, <1>0 DEF CancelCheck, IInv, TypeOK, CanInv, Cancellable
  <2> QED BY <1>1, <1>0, <2>1 DEF CancelCheck, IInv, SubInv, JobInv, WkInv, RunInv, ModeInv
<1>2. CASE CancelRead(r)
  <2>1. canPc'[r] = "save" => canRow'[r].status = "CANCELLED"
    BY <1>2, <1>0, MovedType DEF CancelRead, IInv, TypeOK, Status, Terminal
  <2>2. /\ canPc[r] = "read" /\ UNCHANGED db
        /\ canPc'[r] \in {"save", "idle"}
        /\ canPc'[r] = "save" => canCmd'[r] = canCmd[r]
        /\ \A q \in Cancellers \ {r} : /\ canPc'[q] = canPc[q] /\ canCmd'[q] = canCmd[q]
                                       /\ canRow'[q] = canRow[q]
    BY <1>2, <1>0 DEF CancelRead, TypeOK
  <2>3. CanInv'
    BY <2>1, <2>2 DEF IInv, CanInv
  <2> QED BY <1>2, <1>0, <2>3 DEF CancelRead, IInv, SubInv, JobInv, WkInv, RunInv, ModeInv
<1>3. CASE CancelSave(r)
  <2>1. /\ \A d \in Commands \ {canCmd[r]} : db'[d] = db[d]
        /\ canCmd[r] \in Commands /\ db[canCmd[r]].status # "NONE"
        /\ db'[canCmd[r]].status = "CANCELLED"
    BY <1>3, <1>0 DEF CancelSave, IInv, TypeOK, CanInv
  <2>2. SubInv' /\ RunInv'
    BY <1>3, <1>0, <2>1 DEF CancelSave, IInv, TypeOK, SubInv, RunInv
  <2>3. CanInv'
    BY <1>3, <1>0, <2>1 DEF CancelSave, IInv, TypeOK, CanInv
  <2>4. db'[wkCmd].status \in {db[wkCmd].status, "CANCELLED"}
    BY <1>0, <2>1 DEF TypeOK
  <2>5. JobInv' /\ WkInv' /\ ModeInv'
    BY <1>3, <1>0, <2>4 DEF CancelSave, IInv, JobInv, WkInv, ModeInv
  <2> QED BY <1>0, <2>2, <2>3, <2>5 DEF IInv
<1> QED BY <1>1, <1>2, <1>3 DEF Cancel

\* The worker writes only its own command's row, whose handler is done: what the
\* handlers know stays true.
LEMMA OthersInv ==
  ASSUME IInv, wkPc # "idle", UNCHANGED <<subPc, subRow, canPc, canCmd, canRow>>,
         \A d \in Commands : d # wkCmd => db'[d] = db[d] /\ runs'[d] = runs[d],
         db'[wkCmd].status # "NONE"
  PROVE  SubInv' /\ CanInv'
<1>1. /\ wkCmd \in Commands /\ subPc[wkCmd] = "done"
      /\ \A r \in Cancellers : canCmd[r] \in Commands
  BY DEF IInv, TypeOK, JobInv
<1>2. SubInv'
  BY <1>1 DEF IInv, SubInv
<1>3. CanInv'
  BY <1>1 DEF IInv, CanInv
<1> QED BY <1>2, <1>3

\* The job that SAQ puts back is of the worker's command.
LEMMA RequeuedDone ==
  ASSUME IInv, wkPc # "idle"
  PROVE  \A i \in 1..Len(Requeued) : subPc[Requeued[i].cmd] = "done"
<1> DEFINE done == {d \in Commands : subPc[d] = "done"}
<1>1. \A i \in 1..Len(queue) : queue[i].cmd \in done
  BY QueueCmds DEF IInv, JobInv
<1>2. wkCmd \in done /\ wkCmd \in Commands
  BY DEF IInv, JobInv, TypeOK
<1>3. \A i \in 1..Len(Requeued) : Requeued[i].cmd \in done
  <2> HIDE DEF done
  <2> QED BY <1>1, <1>2, JobType, AppendJob DEF Requeued, IInv, TypeOK
<1> QED BY <1>3

\* A step of the worker that writes no row keeps IInv if it keeps WkInv and ModeInv.
LEMMA WorkerReads ==
  ASSUME IInv, TypeOK', wkPc # "idle", WkInv', ModeInv',
         NEW pc \in WorkerPcs, NEW row \in Row, WkGoto(pc, row),
         UNCHANGED <<db, queue, runs>>, scheduled' \subseteq scheduled \cup {wkCmd}
  PROVE  IInv'
<1> USE DEF subVars, canVars, wkVars
<1>1. SubInv' /\ CanInv' /\ RunInv'
  BY DEF WkGoto, IInv, SubInv, CanInv, RunInv
<1>2. JobInv'
  BY DEF WkGoto, IInv, JobInv
<1> QED BY <1>1, <1>2 DEF IInv

\* A step that saves the row keeps IInv if, besides, the workflow was started before.
LEMMA WorkerWrites ==
  ASSUME IInv, TypeOK', wkPc # "idle", WkInv', ModeInv',
         NEW pc \in WorkerPcs, WorkerSaves(pc), UNCHANGED runs,
         wkRow.status \notin {"NONE", "PENDING", "QUEUED"}
  PROVE  IInv'
<1> USE DEF WorkerSaves, subVars, canVars, wkVars, redisVars
<1>1. /\ wkCmd \in Commands /\ db'[wkCmd] = wkRow
      /\ \A d \in Commands : d # wkCmd => db'[d] = db[d]
      /\ UNCHANGED <<subPc, subRow, canPc, canCmd, canRow, runs>>
  BY DEF IInv, TypeOK, WkGoto
<1>2. SubInv' /\ CanInv'
  BY <1>1, OthersInv
<1>3. RunInv'
  BY <1>1 DEF IInv, RunInv
<1>4. JobInv'
  BY DEF WkGoto, IInv, JobInv
<1> QED BY <1>2, <1>3, <1>4 DEF IInv

\* The worker.
LEMMA WorkerInv == ASSUME IInv, WorkerStep PROVE IInv'
<1> USE DEF subVars, canVars, wkVars, redisVars
<1>0. TypeOK /\ TypeOK'
  BY WorkerType DEF IInv
<1>c. wkCmd \in Commands /\ db[wkCmd] \in Row /\ wkRow \in Row
  BY <1>0 DEF TypeOK
<1>m. wkPc \notin HandlerPcs \cup {"idle"} => mode = "up"
  BY <1>0 DEF IInv, ModeInv, TypeOK
<1>1. CASE Dequeue
  <2>1. Head(queue) \in Jobs /\ queue # <<>> /\ queue \in Seq(Jobs)
    BY <1>1, <1>0 DEF Dequeue, TypeOK
  <2> DEFINE done == {d \in Commands : subPc[d] = "done"}
  <2>2. \A i \in 1..Len(queue) : queue[i].cmd \in done
    BY <1>0, QueueCmds DEF IInv, JobInv
  <2>3. Head(queue).cmd \in done /\ \A i \in 1..Len(Tail(queue)) : Tail(queue)[i].cmd \in done
    <3> HIDE DEF done
    <3> QED BY <2>1, <2>2, TailJob
  <2>4. JobInv'
    BY <1>1, <2>3 DEF Dequeue, IInv, JobInv
  <2>5. wkPc' \in {"load", "rearm"}
    BY <1>1 DEF Dequeue
  <2>6. WkInv' /\ ModeInv'
    BY <1>1, <2>5 DEF Dequeue, WkInv, ModeInv, InTry
  <2>7. SubInv' /\ CanInv' /\ RunInv'
    BY <1>1 DEF Dequeue, IInv, SubInv, CanInv, RunInv
  <2> QED BY <1>0, <2>4, <2>6, <2>7 DEF IInv
<1>2. CASE ExecuteGet
  <2>1. PICK pc \in {"idle", "toRunning"} : WkGoto(pc, NoRow)
    BY <1>2 DEF ExecuteGet
  <2>2. WkInv' /\ ModeInv'
    BY <1>2, <1>m, <2>1 DEF ExecuteGet, WkGoto, WkInv, ModeInv, InTry, HandlerPcs
  <2> QED
    BY <1>2, <1>0, <2>1, <2>2, WorkerReads, NoRowType
       DEF ExecuteGet, WorkerPcs, OutsideTry
<1>3. CASE ToRunning
  <2>1. CASE Allowed(wkCmd, "RUNNING") /\ WkGoto("saveRunning", Moved(db[wkCmd], "RUNNING"))
    <3>1. /\ db[wkCmd].status = "QUEUED" /\ runs[wkCmd] = 0
          /\ Moved(db[wkCmd], "RUNNING") \in Row
          /\ Moved(db[wkCmd], "RUNNING").status = "RUNNING"
      BY <1>c, <2>1, AllowedFrom, MovedType DEF IInv, RunInv
    <3>2. WkInv' /\ ModeInv'
      BY <1>3, <1>m, <2>1, <3>1 DEF ToRunning, WkGoto, WkInv, ModeInv, InTry, HandlerPcs
    <3> QED
      BY <1>3, <1>0, <2>1, <3>1, <3>2, WorkerReads DEF ToRunning, WorkerPcs, OutsideTry
  <2>2. CASE WkGoto("idle", NoRow)
    <3>1. WkInv' /\ ModeInv'
      BY <1>3, <1>m, <2>2 DEF ToRunning, WkGoto, WkInv, ModeInv, InTry, HandlerPcs
    <3> QED BY <1>3, <1>0, <2>2, <3>1, WorkerReads, NoRowType DEF ToRunning, WorkerPcs
  <2> QED BY <1>3, <2>1, <2>2 DEF ToRunning
<1>4. CASE SaveRunning
  <2>1. /\ db' = [db EXCEPT ![wkCmd] = wkRow] /\ WkGoto("workflow", NoRow)
        /\ runs' = [runs EXCEPT ![wkCmd] = @ + 1] /\ wkPc = "saveRunning"
        /\ wkRow.status = "RUNNING" /\ runs[wkCmd] = 0
    BY <1>4 DEF SaveRunning, WorkerSaves, IInv, WkInv
  <2>2. /\ db'[wkCmd] = wkRow /\ runs'[wkCmd] = 1
        /\ \A d \in Commands : d # wkCmd => db'[d] = db[d] /\ runs'[d] = runs[d]
        /\ UNCHANGED <<subPc, subRow, canPc, canCmd, canRow, queue, scheduled>>
        /\ wkPc' = "workflow" /\ wkCmd' = wkCmd
    BY <1>4, <1>0, <2>1 DEF TypeOK, WkGoto, SaveRunning, WorkerSaves
  <2>3. SubInv' /\ CanInv'
    BY <2>1, <2>2, OthersInv
  <2>4. RunInv'
    BY <2>1, <2>2 DEF IInv, RunInv
  <2>5. JobInv' /\ WkInv'
    BY <2>1, <2>2 DEF IInv, JobInv, WkInv, InTry
  <2>6. ModeInv'
    BY <1>m, <2>1, <2>2 DEF WkGoto, ModeInv, HandlerPcs
  <2> QED BY <1>0, <2>3, <2>4, <2>5, <2>6 DEF IInv
<1>5. CASE RunWorkflow
  <2>1. PICK pc \in {"rearmEnqueue", "toDone", "toFailed"} : WkGoto(pc, NoRow)
    BY <1>5 DEF RunWorkflow
  <2>2. WkInv' /\ ModeInv'
    BY <1>5, <1>m, <2>1 DEF RunWorkflow, WkGoto, IInv, WkInv, ModeInv, InTry, HandlerPcs
  <2> QED
    BY <1>5, <1>0, <2>1, <2>2, WorkerReads, NoRowType
       DEF RunWorkflow, WorkerPcs, OutsideTry, InTry
<1>6. CASE RearmEnqueue
  <2>1. PICK pc \in {"rearmRead", "toFailed"} : WkGoto(pc, NoRow)
    BY <1>6 DEF RearmEnqueue
  <2>2. WkInv' /\ ModeInv'
    BY <1>6, <1>m, <2>1 DEF RearmEnqueue, WkGoto, IInv, WkInv, ModeInv, InTry, HandlerPcs
  <2> QED
    BY <1>6, <1>0, <2>1, <2>2, WorkerReads, NoRowType
       DEF RearmEnqueue, WorkerPcs, OutsideTry, InTry
<1>7. CASE RearmRead
  <2> DEFINE row == [db[wkCmd] EXCEPT !.job = TRUE]
  <2>1. row \in Row /\ row.status = db[wkCmd].status /\ WkGoto("rearmSave", row)
    BY <1>7, <1>c, ColumnType DEF RearmRead
  <2> HIDE DEF row
  <2>2. WkInv' /\ ModeInv'
    BY <1>7, <1>m, <2>1 DEF RearmRead, WkGoto, IInv, WkInv, ModeInv, InTry, HandlerPcs
  <2> QED
    BY <1>7, <1>0, <2>1, <2>2, WorkerReads DEF RearmRead, WorkerPcs, InTry
<1>8. CASE RearmSave
  <2>1. /\ wkPc = "rearmSave" /\ db'[wkCmd] = wkRow /\ WkGoto("toDone", NoRow)
        /\ wkRow.status \in {"RUNNING", "CANCELLED"}
    BY <1>8, <1>0 DEF RearmSave, WorkerSaves, TypeOK, IInv, WkInv
  <2>2. WkInv' /\ ModeInv'
    BY <1>m, <2>1 DEF WkGoto, WkInv, ModeInv, InTry, HandlerPcs
  <2> QED
    BY <1>8, <1>0, <2>1, <2>2, WorkerWrites DEF RearmSave, WorkerPcs, InTry
<1>9. CASE ToDone
  <2>1. PICK new \in {"SUCCEEDED", "COMPLETED_WITH_ERRORS"} :
          \/ WkGoto("saveDone", Moved(db[wkCmd], new))
          \/ WkGoto("toFailed", NoRow)
    BY <1>9 DEF ToDone
  <2>2. Moved(db[wkCmd], new) \in Row /\ Moved(db[wkCmd], new).status = new
    BY <1>c, MovedType DEF Status, Terminal
  <2>3. CASE WkGoto("saveDone", Moved(db[wkCmd], new))
    <3>1. WkInv' /\ ModeInv'
      BY <1>9, <1>m, <2>2, <2>3
         DEF ToDone, WkGoto, IInv, WkInv, ModeInv, InTry, HandlerPcs
    <3> QED
      BY <1>9, <1>0, <2>2, <2>3, <3>1, WorkerReads DEF ToDone, WorkerPcs, InTry
  <2>4. CASE WkGoto("toFailed", NoRow)
    <3>1. WkInv' /\ ModeInv'
      BY <1>9, <1>m, <2>4
         DEF ToDone, WkGoto, IInv, WkInv, ModeInv, InTry, HandlerPcs
    <3> QED
      BY <1>9, <1>0, <2>4, <3>1, WorkerReads, NoRowType DEF ToDone, WorkerPcs, OutsideTry
  <2> QED BY <2>1, <2>3, <2>4
<1>10. CASE SaveDone
  <2>1. /\ wkPc = "saveDone" /\ db'[wkCmd] = wkRow /\ WkGoto("idle", NoRow)
        /\ wkRow.status \in {"SUCCEEDED", "COMPLETED_WITH_ERRORS"}
    BY <1>10, <1>0 DEF SaveDone, WorkerSaves, TypeOK, IInv, WkInv
  <2>2. WkInv' /\ ModeInv'
    BY <2>1 DEF WkGoto, WkInv, ModeInv, InTry
  <2> QED
    BY <1>10, <1>0, <2>1, <2>2, WorkerWrites DEF SaveDone, WorkerPcs
<1>11. CASE ToFailed
  <2>1. CASE Allowed(wkCmd, "FAILED") /\ WkGoto("saveFailed", Moved(db[wkCmd], "FAILED"))
    <3>1. /\ db[wkCmd].status = "RUNNING"
          /\ Moved(db[wkCmd], "FAILED") \in Row
          /\ Moved(db[wkCmd], "FAILED").status = "FAILED"
      BY <1>c, <2>1, AllowedFrom, MovedType
    <3>2. WkInv' /\ ModeInv'
      BY <1>11, <2>1, <3>1
         DEF ToFailed, WkGoto, IInv, WkInv, ModeInv, InTry, HandlerPcs
    <3> QED
      BY <1>11, <1>0, <2>1, <3>1, <3>2, WorkerReads DEF ToFailed, WorkerPcs, OutsideTry
  <2>2. CASE WkGoto("idle", NoRow)
    <3>1. WkInv' /\ ModeInv'
      BY <2>2 DEF WkGoto, WkInv, ModeInv, InTry
    <3> QED BY <1>11, <1>0, <2>2, <3>1, WorkerReads, NoRowType DEF ToFailed, WorkerPcs
  <2> QED BY <1>11, <2>1, <2>2 DEF ToFailed
<1>12. CASE SaveFailed
  <2>1. /\ wkPc = "saveFailed" /\ db'[wkCmd] = wkRow /\ WkGoto("readError", NoRow)
        /\ wkRow.status = "FAILED"
    BY <1>12, <1>0 DEF SaveFailed, WorkerSaves, TypeOK, IInv, WkInv
  <2>2. WkInv' /\ ModeInv'
    BY <2>1 DEF WkGoto, IInv, WkInv, ModeInv, InTry, HandlerPcs
  <2> QED
    BY <1>12, <1>0, <2>1, <2>2, WorkerWrites DEF SaveFailed, WorkerPcs, OutsideTry
<1>13. CASE ReadError
  <2> DEFINE row == [db[wkCmd] EXCEPT !.summary = TRUE]
  <2>1. row \in Row /\ row.status = db[wkCmd].status /\ WkGoto("saveError", row)
    BY <1>13, <1>c, ColumnType DEF ReadError
  <2> HIDE DEF row
  <2>2. WkInv' /\ ModeInv'
    BY <1>13, <2>1 DEF ReadError, WkGoto, IInv, WkInv, ModeInv, InTry, HandlerPcs
  <2> QED
    BY <1>13, <1>0, <2>1, <2>2, WorkerReads DEF ReadError, WorkerPcs, OutsideTry
<1>14. CASE SaveError
  <2>1. /\ wkPc = "saveError" /\ db'[wkCmd] = wkRow /\ WkGoto("idle", NoRow)
        /\ wkRow.status \in {"FAILED", "CANCELLED"} /\ UNCHANGED runs
        /\ \A d \in Commands : d # wkCmd => db'[d] = db[d]
    BY <1>14, <1>0 DEF SaveError, TypeOK, IInv, WkInv
  <2>2. UNCHANGED <<subPc, subRow, canPc, canCmd, canRow, scheduled>> /\ wkPc' = "idle"
    BY <1>14, <2>1 DEF SaveError, WkGoto
  <2>3. WkInv' /\ ModeInv'
    BY <2>2 DEF WkInv, ModeInv, InTry
  <2>4. SubInv' /\ CanInv'
    BY <2>1, <2>2, OthersInv
  <2>5. RunInv'
    BY <2>1 DEF IInv, RunInv
  <2>6. \A i \in 1..Len(queue') : subPc[queue'[i].cmd] = "done"
    BY <1>14, RequeuedDone DEF SaveError, IInv, JobInv
  <2>7. JobInv'
    BY <2>2, <2>6 DEF IInv, JobInv
  <2> QED BY <1>0, <2>3, <2>4, <2>5, <2>7 DEF IInv
<1>15. CASE Rearm
  <2>1. WkGoto("idle", NoRow)
    BY <1>15 DEF Rearm
  <2>2. WkInv' /\ ModeInv'
    BY <2>1 DEF WkGoto, WkInv, ModeInv, InTry
  <2> QED BY <1>15, <1>0, <2>1, <2>2, WorkerReads, NoRowType DEF Rearm, WorkerPcs
<1> QED BY <1>1, <1>2, <1>3, <1>4, <1>5, <1>6, <1>7, <1>8, <1>9, <1>10,
           <1>11, <1>12, <1>13, <1>14, <1>15 DEF WorkerStep

\* A coroutine that is cancelled while it saves may or may not have saved: the row
\* is the worker's command's, and as execute_command left it or was about to.
LEMMA CutRow ==
  ASSUME IInv, wkPc # "idle", MayHaveSaved
  PROVE  /\ \A d \in Commands : d # wkCmd => db'[d] = db[d]
         /\ db'[wkCmd].status \in
              {db[wkCmd].status, "RUNNING", "CANCELLED", "SUCCEEDED", "FAILED",
               "COMPLETED_WITH_ERRORS"}
         /\ wkPc \in InTry => db'[wkCmd].status \in
              {"RUNNING", "CANCELLED", "SUCCEEDED", "COMPLETED_WITH_ERRORS"}
  BY DEF MayHaveSaved, Saves, IInv, TypeOK, WkInv, InTry

\* The coroutine ends, or its CancelledError branch takes over.
LEMMA CutInv ==
  ASSUME IInv, TypeOK', wkPc # "idle", MayHaveSaved,
         wkPc' = "idle" \/ (wkPc \in InTry /\ wkPc' = "toFailed" /\ wkCmd' = wkCmd),
         queue' = queue \/ queue' = Requeued,
         scheduled' \subseteq scheduled \cup {wkCmd},
         UNCHANGED <<subPc, subRow, canPc, canCmd, canRow, runs>>, mode' # "down"
  PROVE  IInv'
<1>1. wkCmd \in Commands /\ subPc[wkCmd] = "done" /\ db[wkCmd].status # "NONE"
  BY DEF IInv, TypeOK, JobInv, SubInv
<1>2. SubInv' /\ CanInv'
  BY <1>1, CutRow, OthersInv
<1>3. RunInv'
  BY <1>1, CutRow DEF IInv, RunInv
<1>4. \A i \in 1..Len(queue') : subPc[queue'[i].cmd] = "done"
  BY RequeuedDone DEF IInv, JobInv
<1>5. JobInv'
  BY <1>1, <1>4 DEF IInv, JobInv
<1>6. WkInv' /\ ModeInv'
  BY CutRow DEF WkInv, ModeInv, InTry, HandlerPcs
<1> QED BY <1>2, <1>3, <1>5, <1>6 DEF IInv

\* IInv is inductive.
LEMMA IInvNext == IInv /\ [Next]_vars => IInv'
<1> SUFFICES ASSUME IInv, [Next]_vars PROVE IInv'
  OBVIOUS
<1> USE DEF subVars, canVars, redisVars, wkVars
<1>0. TypeOK /\ TypeOK'
  BY TypeNext DEF IInv
<1>1. ASSUME NEW c \in Commands, Submit(c) PROVE IInv'
  BY <1>1, SubmitInv
<1>2. ASSUME NEW c \in Commands, RearmDue(c) PROVE IInv'
  <2> DEFINE done == {d \in Commands : subPc[d] = "done"}
  <2>1. /\ queue' = Append(queue, Job("process_rearm", c)) /\ c \in done
        /\ \A i \in 1..Len(queue) : queue[i].cmd \in done
    BY <1>2, <1>0, QueueCmds DEF RearmDue, IInv, JobInv
  <2>2. \A i \in 1..Len(queue') : queue'[i].cmd \in done
    <3> HIDE DEF done
    <3> QED BY <1>0, <2>1, JobType, AppendJob DEF TypeOK
  <2>3. JobInv'
    BY <1>2, <2>2 DEF RearmDue, IInv, JobInv
  <2> QED BY <1>2, <1>0, <2>3 DEF RearmDue, IInv, SubInv, CanInv, WkInv, RunInv, ModeInv
<1>3. ASSUME NEW r \in Cancellers, Cancel(r) PROVE IInv'
  BY <1>3, CancelInv
<1>4. CASE WorkerStep
  BY <1>4, WorkerInv
<1>5. CASE Timeout
  BY <1>5, <1>0, CutInv
     DEF Timeout, HandleCancelled, MayHaveScheduled, InTry
<1>6. CASE LateTimeout
  BY <1>6, <1>0, CutInv DEF LateTimeout, EscapeCancelled, OutsideTry
<1>7. CASE Stop
  <2>1. CASE wkPc = "idle" /\ UNCHANGED <<db, redisVars, wkVars>>
    BY <1>7, <1>0, <2>1
       DEF Stop, IInv, SubInv, JobInv, CanInv, WkInv, RunInv, ModeInv
  <2>2. CASE wkPc \in InTry /\ HandleCancelled
    BY <1>7, <1>0, <2>2, CutInv DEF Stop, HandleCancelled, MayHaveScheduled, InTry
  <2>3. CASE /\ wkPc \in OutsideTry \cup {"rearm"}
             /\ EscapeCancelled /\ queue' = Requeued
    BY <1>7, <1>0, <2>3, CutInv DEF Stop, EscapeCancelled, OutsideTry
  <2> QED BY <1>7, <2>1, <2>2, <2>3 DEF Stop
<1>8. CASE Exit
  BY <1>8, <1>0 DEF Exit, IInv, SubInv, JobInv, CanInv, WkInv, RunInv, ModeInv
<1>9. CASE Crash
  <2>1. /\ UNCHANGED <<db, queue, scheduled, runs>>
        /\ wkPc' = "idle" /\ mode' = "down"
        /\ \A c \in Commands : subPc'[c] = IF subPc[c] = "new" THEN "new" ELSE "done"
        /\ \A r \in Cancellers : canPc'[r] = "idle"
    BY <1>9 DEF Crash
  <2>2. SubInv' /\ RunInv'
    BY <2>1 DEF IInv, SubInv, RunInv
  <2>3. JobInv'
    BY <1>0, <2>1, QueueCmds DEF IInv, JobInv, TypeOK
  <2>4. CanInv' /\ WkInv' /\ ModeInv'
    BY <2>1 DEF CanInv, WkInv, ModeInv, InTry
  <2> QED BY <1>0, <2>2, <2>3, <2>4 DEF IInv
<1>10. CASE Restart
  <2>1. /\ wkPc = "idle" /\ mode' = "up"
        /\ UNCHANGED <<queue, scheduled, subPc, subRow, canPc, canCmd, canRow, wkPc, wkCmd, runs>>
    BY <1>10 DEF Restart, IInv, ModeInv
  <2>2. \A c \in Commands : db'[c].status =
           IF db[c].status = "RUNNING" THEN "FAILED" ELSE db[c].status
    BY <1>10, <1>0, ResetType DEF Restart, TypeOK
  <2>3. SubInv' /\ RunInv'
    BY <2>1, <2>2 DEF IInv, SubInv, RunInv
  <2>4. CanInv'
    BY <1>0, <2>1, <2>2 DEF IInv, CanInv, TypeOK
  <2>5. JobInv' /\ WkInv' /\ ModeInv'
    BY <2>1 DEF IInv, JobInv, WkInv, ModeInv, InTry
  <2> QED BY <1>0, <2>3, <2>4, <2>5 DEF IInv
<1>11. CASE UNCHANGED vars
  BY <1>11, <1>0
     DEF vars, IInv, SubInv, JobInv, CanInv, WkInv, RunInv, ModeInv
<1> QED BY <1>1, <1>2, <1>3, <1>4, <1>5, <1>6, <1>7, <1>8, <1>9, <1>10, <1>11
        DEF Next

\* IInv holds in every reachable state.
THEOREM Invariance == Spec => []IInv
  BY IInvInit, IInvNext, PTL DEF Spec

\* No command's workflow is started twice.
THEOREM StartedOnce == Spec => []AtMostOnce
<1>1. IInv => AtMostOnce
  BY DEF IInv, RunInv, AtMostOnce
<1> QED BY <1>1, Invariance, PTL

-----------------------------------------------------------------------------
(* The changes of a status: only a cancel races.                           *)

\* The entries of the transition table that execute_command and the handlers use.
LEMMA TableEntries ==
  /\ VALID_TRANSITIONS["PENDING"] = {"QUEUED", "CANCELLED"}
  /\ VALID_TRANSITIONS["QUEUED"] = {"RUNNING", "CANCELLED"}
  /\ VALID_TRANSITIONS["RUNNING"] = Terminal
  BY DEF VALID_TRANSITIONS, Status, Cancellable

\* What the worker's row says follows from the row in the database, or CANCELLED.
LEMMA WorkerRowStep ==
  ASSUME IInv, wkPc \in Saves, db' \in [Commands -> Row], db'[wkCmd] = wkRow
  PROVE  StatusStep(wkCmd)
  BY TableEntries
     DEF Saves, IInv, WkInv, InTry, StatusStep, Status, Cancellable, Terminal

LEMMA WorkerStatusStep ==
  ASSUME IInv, \/ UNCHANGED db
               \/ wkPc \in Saves /\ db' = [db EXCEPT ![wkCmd] = wkRow]
  PROVE  \A c \in Commands : StatusStep(c)
<1>1. CASE UNCHANGED db
  BY <1>1 DEF StatusStep
<1>2. CASE wkPc \in Saves /\ db' = [db EXCEPT ![wkCmd] = wkRow]
  <2>1. /\ wkCmd \in Commands /\ db'[wkCmd] = wkRow /\ db' \in [Commands -> Row]
        /\ \A c \in Commands \ {wkCmd} : db'[c] = db[c]
    BY <1>2 DEF IInv, TypeOK
  <2>2. StatusStep(wkCmd)
    BY <1>2, <2>1, WorkerRowStep
  <2>3. \A c \in Commands \ {wkCmd} : StatusStep(c)
    BY <2>1 DEF StatusStep
  <2> QED BY <2>2, <2>3
<1> QED BY <1>1, <1>2

LEMMA StatusNext == IInv /\ Next => \A c \in Commands : StatusStep(c)
<1> SUFFICES ASSUME IInv, Next PROVE \A c \in Commands : StatusStep(c)
  OBVIOUS
<1> USE DEF redisVars, subVars, canVars, wkVars
<1>0. TypeOK
  BY DEF IInv
<1>u. ASSUME UNCHANGED db PROVE \A c \in Commands : StatusStep(c)
  BY <1>u DEF StatusStep
<1>1. ASSUME NEW d \in Commands, Submit(d) PROVE \A c \in Commands : StatusStep(c)
  <2>1. CASE CreateCommand(d)
    <3>1. /\ db[d].status = "NONE" /\ db'[d].status = "PENDING"
          /\ \A c \in Commands \ {d} : db'[c] = db[c]
      BY <2>1, <1>0, PendingType DEF CreateCommand, TypeOK, IInv, SubInv
    <3> QED BY <3>1 DEF StatusStep
  <2>2. CASE QueuedSave(d)
    <3>1. /\ db[d].status \in {"PENDING", "CANCELLED"} /\ db'[d].status = "QUEUED"
          /\ \A c \in Commands \ {d} : db'[c] = db[c]
      BY <2>2, <1>0 DEF QueuedSave, TypeOK, IInv, SubInv
    <3> QED BY <3>1, TableEntries DEF StatusStep, Status, Cancellable
  <2>3. CASE QueuedRead(d) \/ Enqueue(d) \/ EnqueueRefused(d)
    BY <2>3, <1>u DEF QueuedRead, Enqueue, EnqueueRefused, SubGoto
  <2> QED BY <1>1, <2>1, <2>2, <2>3 DEF Submit
<1>2. ASSUME NEW r \in Cancellers, Cancel(r) PROVE \A c \in Commands : StatusStep(c)
  <2>1. CASE CancelSave(r)
    <3>1. /\ canCmd[r] \in Commands
          /\ db[canCmd[r]].status # "NONE" /\ db'[canCmd[r]].status = "CANCELLED"
          /\ \A c \in Commands \ {canCmd[r]} : db'[c] = db[c]
      BY <2>1, <1>0 DEF CancelSave, TypeOK, IInv, CanInv
    <3> QED BY <3>1 DEF StatusStep
  <2>2. ASSUME NEW c \in Commands, CancelCheck(r, c) PROVE UNCHANGED db
    BY <2>2 DEF CancelCheck
  <2>3. CASE CancelRead(r)
    BY <2>3, <1>u DEF CancelRead
  <2> QED BY <1>2, <1>u, <2>1, <2>2, <2>3 DEF Cancel
<1>3. CASE WorkerStep
  <2>1. CASE SaveRunning \/ RearmSave \/ SaveDone \/ SaveFailed \/ SaveError
    BY <2>1, WorkerStatusStep
       DEF SaveRunning, RearmSave, SaveDone, SaveFailed, SaveError, WorkerSaves, Saves
  <2>2. CASE \/ Dequeue \/ ExecuteGet \/ ToRunning \/ RunWorkflow \/ RearmEnqueue
             \/ RearmRead \/ ToDone \/ ToFailed \/ ReadError \/ Rearm
    BY <2>2, <1>u DEF Dequeue, ExecuteGet, ToRunning, RunWorkflow, RearmEnqueue,
                      RearmRead, ToDone, ToFailed, ReadError, Rearm
  <2> QED BY <1>3, <2>1, <2>2 DEF WorkerStep
<1>4. CASE Timeout \/ LateTimeout
  BY <1>4, WorkerStatusStep
     DEF Timeout, LateTimeout, HandleCancelled, EscapeCancelled, MayHaveSaved
<1>5. CASE Stop
  BY <1>5, WorkerStatusStep DEF Stop, HandleCancelled, EscapeCancelled, MayHaveSaved
<1>6. CASE Restart
  <2>1. \A c \in Commands :
           /\ db[c].status = "RUNNING" => db'[c].status = "FAILED"
           /\ db[c].status # "RUNNING" => db'[c].status = db[c].status
    BY <1>6, <1>0, ResetType DEF Restart, TypeOK
  <2> QED BY <2>1, TableEntries DEF StatusStep, Status, Cancellable, Terminal
<1>7. ASSUME NEW d \in Commands, RearmDue(d) PROVE \A c \in Commands : StatusStep(c)
  BY <1>7, <1>u DEF RearmDue
<1>8. CASE Exit \/ Crash
  BY <1>8, <1>u DEF Exit, Crash
<1> QED BY <1>1, <1>2, <1>3, <1>4, <1>5, <1>6, <1>7, <1>8 DEF Next

\* A status changes along VALID_TRANSITIONS, or a cancel is lost or overwrites.
THEOREM RacesAreCancels == Spec => OnlyCancelRaces
<1>1. IInv /\ [Next]_vars => [\A c \in Commands : StatusStep(c)]_vars
  BY StatusNext
<1> QED BY <1>1, Invariance, PTL DEF Spec, OnlyCancelRaces

-----------------------------------------------------------------------------
(* RUNNING rows: each is the command being executed.                       *)

\* Every other row is as it was; the row of c says RUNNING only while c is executed.
LEMMA ExecutingRow ==
  ASSUME RunningIsExecuting, NEW c \in Commands, mode = "up", glitches = 0,
         \A d \in Commands \ {c} : db'[d] = db[d],
         db'[c].status # "RUNNING",
         wkPc \in InTry \cup HandlerPcs => (wkCmd' = wkCmd \/ wkCmd = c)
                                           /\ (wkPc' \in InTry \cup HandlerPcs \/ wkCmd = c)
  PROVE  RunningIsExecuting'
  BY DEF RunningIsExecuting

\* The worker goes on with its command, whose workflow it has started.
LEMMA StillExecuting ==
  ASSUME RunningIsExecuting, mode = "up", glitches = 0,
         \A d \in Commands \ {wkCmd} : db'[d] = db[d],
         wkPc \in InTry \cup HandlerPcs, wkPc' \in InTry \cup HandlerPcs, wkCmd' = wkCmd
  PROVE  RunningIsExecuting'
  BY DEF RunningIsExecuting

LEMMA ExecutingNext ==
  IInv /\ IInv' /\ RunningIsExecuting /\ [Next]_vars => RunningIsExecuting'
<1> SUFFICES ASSUME IInv, IInv', RunningIsExecuting, [Next]_vars, 
                    mode' = "up", glitches' = 0
             PROVE  RunningIsExecuting'
  BY DEF RunningIsExecuting
<1> USE DEF redisVars, subVars, canVars, wkVars, countVars
<1>0. TypeOK /\ TypeOK'
  BY DEF IInv
<1>1. ASSUME NEW c \in Commands, Submit(c) PROVE RunningIsExecuting'
  <2>1. mode = "up" /\ glitches = 0 /\ UNCHANGED <<wkPc, wkCmd>>
    BY <1>1, <1>0 DEF TypeOK, Submit, CreateCommand, QueuedRead, QueuedSave,
                      Enqueue, EnqueueRefused, SubGoto
  <2>2. CASE CreateCommand(c)
    <3>1. db'[c].status # "RUNNING" /\ \A d \in Commands \ {c} : db'[d] = db[d]
      BY <1>0, <2>2, PendingType DEF CreateCommand, TypeOK
    <3> QED BY <2>1, <3>1, ExecutingRow
  <2>3. CASE QueuedSave(c)
    <3>1. db'[c].status # "RUNNING" /\ \A d \in Commands \ {c} : db'[d] = db[d]
      BY <1>0, <2>3 DEF QueuedSave, TypeOK, IInv, SubInv
    <3> QED BY <2>1, <3>1, ExecutingRow
  <2>4. CASE QueuedRead(c) \/ Enqueue(c) \/ EnqueueRefused(c)
    BY <2>1, <2>4
       DEF QueuedRead, Enqueue, EnqueueRefused, SubGoto, RunningIsExecuting
  <2> QED BY <1>1, <2>2, <2>3, <2>4 DEF Submit
<1>2. ASSUME NEW r \in Cancellers, Cancel(r) PROVE RunningIsExecuting'
  <2>1. CASE CancelSave(r)
    <3>1. /\ canCmd[r] \in Commands /\ db'[canCmd[r]].status # "RUNNING"
          /\ \A d \in Commands \ {canCmd[r]} : db'[d] = db[d]
          /\ mode = "up" /\ glitches = 0 /\ UNCHANGED <<wkPc, wkCmd>>
      BY <2>1, <1>0 DEF CancelSave, CanGoto, TypeOK, IInv, CanInv
    <3> QED BY <3>1, ExecutingRow
  <2>2. ASSUME NEW c \in Commands, CancelCheck(r, c) PROVE RunningIsExecuting'
    BY <2>2 DEF CancelCheck, CanGoto, RunningIsExecuting
  <2>3. CASE CancelRead(r)
    BY <2>3 DEF CancelRead, CanGoto, RunningIsExecuting
  <2> QED BY <1>2, <2>1, <2>2, <2>3 DEF Cancel
<1>3. CASE WorkerStep
  <2>1. mode = "up" /\ glitches = 0 /\ wkCmd \in Commands
    BY <1>3, <1>0 DEF TypeOK, WorkerStep, Dequeue, ExecuteGet, ToRunning, SaveRunning,
         RunWorkflow, RearmEnqueue, RearmRead, RearmSave, ToDone, SaveDone, ToFailed,
         SaveFailed, ReadError, SaveError, Rearm, WorkerSaves, WkGoto
  <2>2. CASE Dequeue \/ ExecuteGet \/ Rearm
    BY <2>1, <2>2 DEF Dequeue, ExecuteGet, Rearm, WkGoto, RunningIsExecuting,
                      InTry, HandlerPcs
  <2>3. CASE ToRunning
    BY <2>1, <2>3 DEF ToRunning, WkGoto, RunningIsExecuting, InTry, HandlerPcs
  <2>4. CASE SaveRunning
    <3>1. /\ wkPc = "saveRunning" /\ wkPc' = "workflow" /\ wkCmd' = wkCmd
          /\ \A d \in Commands \ {wkCmd} : db'[d] = db[d]
      BY <1>0, <2>4 DEF SaveRunning, WorkerSaves, WkGoto, TypeOK
    <3> QED BY <2>1, <3>1 DEF RunningIsExecuting, InTry, HandlerPcs
  <2>5. CASE RunWorkflow \/ RearmEnqueue \/ RearmRead \/ ToDone \/ ReadError
    <3>1. /\ UNCHANGED db /\ wkCmd' = wkCmd
          /\ wkPc \in InTry \cup HandlerPcs /\ wkPc' \in InTry \cup HandlerPcs
      BY <2>5 DEF RunWorkflow, RearmEnqueue, RearmRead, ToDone, ReadError, WkGoto,
                  InTry, HandlerPcs
    <3> QED BY <2>1, <3>1, StillExecuting
  <2>6. CASE RearmSave \/ SaveFailed
    <3>1. /\ \A d \in Commands \ {wkCmd} : db'[d] = db[d]
          /\ wkCmd' = wkCmd
          /\ wkPc \in InTry \cup HandlerPcs /\ wkPc' \in InTry \cup HandlerPcs
      BY <1>0, <2>6 DEF RearmSave, SaveFailed, WorkerSaves, WkGoto, TypeOK,
                        InTry, HandlerPcs
    <3> QED BY <2>1, <3>1, StillExecuting
  <2>7. CASE ToFailed
    <3>1. CASE WkGoto("saveFailed", Moved(db[wkCmd], "FAILED"))
      <4>1. /\ UNCHANGED db /\ wkCmd' = wkCmd
            /\ wkPc \in InTry \cup HandlerPcs /\ wkPc' \in InTry \cup HandlerPcs
        BY <2>7, <3>1 DEF ToFailed, WkGoto, HandlerPcs
      <4> QED BY <2>1, <4>1, StillExecuting
    <3>2. CASE ~Allowed(wkCmd, "FAILED") /\ WkGoto("idle", NoRow)
      <4>1. db'[wkCmd].status # "RUNNING" /\ UNCHANGED db
        BY <2>1, <2>7, <3>2, RefusedFailed DEF ToFailed
      <4> QED BY <2>1, <4>1, ExecutingRow
    <3> QED BY <2>7, <3>1, <3>2 DEF ToFailed
  <2>8. CASE SaveDone \/ SaveError
    <3>1. db'[wkCmd].status # "RUNNING" /\ \A d \in Commands \ {wkCmd} : db'[d] = db[d]
      BY <1>0, <2>8 DEF SaveDone, SaveError, WorkerSaves, TypeOK, IInv, WkInv
    <3> QED BY <2>1, <3>1, ExecutingRow
  <2> QED BY <1>3, <2>2, <2>3, <2>4, <2>5, <2>6, <2>7, <2>8 DEF WorkerStep
<1>4. CASE Timeout
  <2>1. /\ \A d \in Commands \ {wkCmd} : db'[d] = db[d]
        /\ wkCmd' = wkCmd /\ mode = "up" /\ glitches = 0
        /\ wkPc \in InTry \cup HandlerPcs /\ wkPc' \in InTry \cup HandlerPcs
    BY <1>4, <1>0 DEF Timeout, HandleCancelled, MayHaveSaved, TypeOK, HandlerPcs
  <2> QED BY <2>1, StillExecuting
<1>5. CASE LateTimeout
  BY <1>5, <1>0 DEF LateTimeout, TypeOK
<1>6. CASE Stop \/ Exit \/ Crash
  BY <1>6 DEF Stop, Exit, Crash
<1>7. CASE Restart
  <2>1. \A c \in Commands : db'[c].status # "RUNNING"
    BY <1>7, <1>0, ResetType DEF Restart, TypeOK
  <2> QED BY <2>1 DEF RunningIsExecuting
<1>8. ASSUME NEW c \in Commands, RearmDue(c) PROVE RunningIsExecuting'
  BY <1>8 DEF RearmDue, RunningIsExecuting
<1>9. CASE UNCHANGED vars
  BY <1>9 DEF vars, RunningIsExecuting
<1> QED BY <1>1, <1>2, <1>3, <1>4, <1>5, <1>6, <1>7, <1>8, <1>9 DEF Next

\* While requests are served and no time-out fell outside execute_command's try, a
\* RUNNING row is the command the worker is executing.
THEOREM OneExecuting == Spec => []RunningIsExecuting
<1>1. Init => RunningIsExecuting
  BY NoRowType DEF Init, RunningIsExecuting
<1> QED BY <1>1, ExecutingNext, Invariance, PTL DEF Spec

-----------------------------------------------------------------------------
(* QUEUED rows: each has a job behind it.                                  *)

\* c's job is in the queue.
InQueue(q, c) == \E i \in 1..Len(q) : q[i] = Job("process_command", c)

HasJob(c) == \/ subPc[c] = "enqueue"
             \/ InQueue(queue, c)
             \/ wkCmd = c /\ wkPc \in {"load", "toRunning", "saveRunning"}

\* A queue that grows keeps its jobs; one that loses its head keeps the others.
LEMMA InAppend ==
  ASSUME NEW q \in Seq(Jobs), NEW j \in Jobs, NEW c \in Commands,
         InQueue(q, c) \/ j = Job("process_command", c)
  PROVE  InQueue(Append(q, j), c)
<1>1. CASE InQueue(q, c)
  <2>1. PICK i \in 1..Len(q) : q[i] = Job("process_command", c)
    BY <1>1 DEF InQueue
  <2>2. i \in 1..Len(Append(q, j)) /\ Append(q, j)[i] = q[i]
    OBVIOUS
  <2> QED BY <2>1, <2>2 DEF InQueue
<1>2. CASE j = Job("process_command", c)
  <2>1. Len(q) + 1 \in 1..Len(Append(q, j)) /\ Append(q, j)[Len(q) + 1] = j
    OBVIOUS
  <2> QED BY <1>2, <2>1 DEF InQueue
<1> QED BY <1>1, <1>2

LEMMA InTail ==
  ASSUME NEW q \in Seq(Jobs), q # <<>>, NEW c \in Commands, InQueue(q, c)
  PROVE  InQueue(Tail(q), c) \/ Head(q) = Job("process_command", c)
<1>1. PICK i \in 1..Len(q) : q[i] = Job("process_command", c)
  BY DEF InQueue
<1>2. CASE i = 1
  BY <1>1, <1>2
<1>3. CASE i # 1
  <2>1. i - 1 \in 1..Len(Tail(q)) /\ Tail(q)[i - 1] = q[i]
    BY <1>3
  <2> QED BY <1>1, <2>1 DEF InQueue
<1> QED BY <1>2, <1>3

\* The step takes no job and writes no QUEUED.
LEMMA JobsStay ==
  ASSUME QueuedHasJob, crashes = 0, glitches = 0,
         \A c \in Commands : db'[c].status = "QUEUED" => db[c].status = "QUEUED",
         \A c \in Commands : db'[c].status = "QUEUED" /\ HasJob(c) => HasJob(c)'
  PROVE  QueuedHasJob'
  BY DEF QueuedHasJob, HasJob, InQueue

LEMMA QueuedNext == IInv /\ IInv' /\ QueuedHasJob /\ [Next]_vars => QueuedHasJob'
<1> SUFFICES ASSUME IInv, IInv', QueuedHasJob, [Next]_vars,
                    crashes' = 0, glitches' = 0
             PROVE  QueuedHasJob'
  BY DEF QueuedHasJob
<1> USE DEF redisVars, subVars, canVars, wkVars, countVars
<1>0. /\ TypeOK /\ TypeOK'
      /\ crashes = 0 /\ glitches = 0 =>
           \A c \in Commands : db[c].status = "QUEUED" => HasJob(c)
  BY DEF IInv, QueuedHasJob, HasJob, InQueue
<1>1. ASSUME NEW c \in Commands, Submit(c) PROVE QueuedHasJob'
  <2>1. crashes = 0 /\ glitches = 0 /\ UNCHANGED <<wkPc, wkCmd>>
    BY <1>1, <1>0 DEF TypeOK, Submit, CreateCommand, QueuedRead, QueuedSave,
                      Enqueue, EnqueueRefused, SubGoto
  <2>2. CASE CreateCommand(c)
    <3>1. /\ db'[c].status # "QUEUED" /\ UNCHANGED queue
          /\ \A d \in Commands \ {c} : db'[d] = db[d] /\ subPc'[d] = subPc[d]
      BY <1>0, <2>2, PendingType DEF CreateCommand, SubGoto, TypeOK
    <3> QED BY <2>1, <3>1, JobsStay DEF HasJob
  <2>3. CASE QueuedRead(c)
    <3>1. /\ UNCHANGED <<db, queue>> /\ subPc[c] # "enqueue"
          /\ \A d \in Commands \ {c} : subPc'[d] = subPc[d]
      BY <1>0, <2>3 DEF QueuedRead, SubGoto, TypeOK
    <3> QED BY <2>1, <3>1, JobsStay DEF HasJob
  <2>4. CASE QueuedSave(c)
    <3>1. /\ subPc'[c] = "enqueue" /\ UNCHANGED queue
          /\ \A d \in Commands \ {c} : db'[d] = db[d] /\ subPc'[d] = subPc[d]
      BY <1>0, <2>4 DEF QueuedSave, SubGoto, TypeOK
    <3>2. \A d \in Commands : db'[d].status = "QUEUED" => HasJob(d)'
      BY <1>0, <2>1, <3>1 DEF HasJob
    <3> QED BY <3>2 DEF QueuedHasJob, HasJob, InQueue
  <2>5. CASE Enqueue(c)
    <3>1. /\ UNCHANGED db /\ queue' = Append(queue, Job("process_command", c))
          /\ \A d \in Commands \ {c} : subPc'[d] = subPc[d]
      BY <1>0, <2>5 DEF Enqueue, SubGoto, TypeOK
    <3>2. \A d \in Commands : InQueue(queue, d) \/ d = c => InQueue(queue', d)
      BY <1>0, <3>1, InAppend, JobType DEF TypeOK
    <3> QED BY <2>1, <3>1, <3>2, JobsStay DEF HasJob
  <2>6. CASE EnqueueRefused(c)
    BY <1>0, <2>1, <2>6 DEF EnqueueRefused, TypeOK
  <2> QED BY <1>1, <2>2, <2>3, <2>4, <2>5, <2>6 DEF Submit
<1>2. ASSUME NEW r \in Cancellers, Cancel(r) PROVE QueuedHasJob'
  <2>1. CASE CancelSave(r)
    <3>1. /\ canCmd[r] \in Commands /\ db'[canCmd[r]].status # "QUEUED"
          /\ \A d \in Commands \ {canCmd[r]} : db'[d] = db[d]
          /\ UNCHANGED <<wkPc, wkCmd, queue, subPc, crashes, glitches>>
      BY <2>1, <1>0 DEF CancelSave, CanGoto, TypeOK, IInv, CanInv
    <3> QED BY <3>1, JobsStay DEF HasJob
  <2>2. ASSUME NEW c \in Commands, CancelCheck(r, c) PROVE QueuedHasJob'
    BY <2>2 DEF CancelCheck, CanGoto, QueuedHasJob
  <2>3. CASE CancelRead(r)
    BY <2>3 DEF CancelRead, CanGoto, QueuedHasJob
  <2> QED BY <1>2, <2>1, <2>2, <2>3 DEF Cancel
<1>3. CASE WorkerStep
  <2>1. crashes = 0 /\ glitches = 0 /\ wkCmd \in Commands /\ UNCHANGED subPc
    BY <1>3, <1>0 DEF TypeOK, WorkerStep, Dequeue, ExecuteGet, ToRunning, SaveRunning,
         RunWorkflow, RearmEnqueue, RearmRead, RearmSave, ToDone, SaveDone, ToFailed,
         SaveFailed, ReadError, SaveError, Rearm, WorkerSaves, WkGoto
  <2>2. CASE Dequeue
    <3>1. /\ UNCHANGED db /\ queue \in Seq(Jobs) /\ queue # <<>> /\ queue' = Tail(queue)
          /\ wkPc = "idle" /\ wkCmd' = Head(queue).cmd
          /\ Head(queue).kind = "process_command" => wkPc' = "load"
      BY <1>0, <2>2 DEF Dequeue, TypeOK
    <3>2. ASSUME NEW d \in Commands, HasJob(d) PROVE HasJob(d)'
      <4>1. CASE subPc[d] = "enqueue"
        BY <2>1, <4>1 DEF HasJob
      <4>2. CASE InQueue(queue, d)
        <5>1. InQueue(queue', d) \/ Head(queue) = Job("process_command", d)
          BY <3>1, <4>2, InTail
        <5> QED BY <3>1, <5>1 DEF HasJob, Job
      <4> QED BY <3>1, <3>2, <4>1, <4>2 DEF HasJob
    <3> QED BY <2>1, <3>1, <3>2, JobsStay
  <2>3. CASE ExecuteGet
    BY <2>1, <2>3, JobsStay DEF ExecuteGet, WkGoto, HasJob
  <2>4. CASE ToRunning
    <3>1. CASE WkGoto("saveRunning", Moved(db[wkCmd], "RUNNING"))
      BY <2>1, <2>4, <3>1, JobsStay DEF ToRunning, WkGoto, HasJob
    <3>2. CASE ~Allowed(wkCmd, "RUNNING") /\ WkGoto("idle", NoRow)
      <4>1. db[wkCmd].status # "QUEUED"
        BY <3>2, TableEntries DEF Allowed, Status, Cancellable
      <4> QED BY <2>1, <2>4, <3>2, <4>1, JobsStay DEF ToRunning, WkGoto, HasJob
    <3> QED BY <2>4, <3>1, <3>2 DEF ToRunning
  <2>5. CASE SaveRunning \/ RearmSave \/ SaveDone \/ SaveFailed
    <3>1. /\ db'[wkCmd].status # "QUEUED" /\ UNCHANGED queue
          /\ \A d \in Commands \ {wkCmd} : db'[d] = db[d]
      BY <1>0, <2>5 DEF SaveRunning, RearmSave, SaveDone, SaveFailed, WorkerSaves,
                        TypeOK, IInv, WkInv
    <3> QED BY <2>1, <3>1, JobsStay DEF HasJob
  <2>6. CASE SaveError
    <3>1. /\ db'[wkCmd].status # "QUEUED"
          /\ \A d \in Commands \ {wkCmd} : db'[d] = db[d]
      BY <1>0, <2>6 DEF SaveError, TypeOK, IInv, WkInv
    <3>2. \A d \in Commands : InQueue(queue, d) => InQueue(queue', d)
      BY <1>0, <2>1, <2>6, InAppend, JobType DEF SaveError, Requeued, TypeOK
    <3> QED BY <2>1, <3>1, <3>2, JobsStay DEF HasJob
  <2>7. CASE \/ RunWorkflow \/ RearmEnqueue \/ RearmRead \/ ToDone
             \/ ToFailed \/ ReadError \/ Rearm
    <3>1. UNCHANGED <<db, queue>> /\ wkPc \notin {"load", "toRunning", "saveRunning"}
      BY <2>7 DEF RunWorkflow, RearmEnqueue, RearmRead, ToDone, ToFailed, ReadError, Rearm
    <3> QED BY <2>1, <3>1, JobsStay DEF HasJob
  <2> QED BY <1>3, <2>2, <2>3, <2>4, <2>5, <2>6, <2>7 DEF WorkerStep
<1>4. CASE Timeout
  <2>1. /\ wkPc \in InTry /\ UNCHANGED <<queue, subPc, crashes, glitches>>
        /\ MayHaveSaved /\ wkCmd \in Commands
    BY <1>4, <1>0 DEF Timeout, HandleCancelled, TypeOK
  <2>2. \A d \in Commands : db'[d].status = "QUEUED" => db[d].status = "QUEUED" /\ d # wkCmd
    BY <2>1, CutRow DEF InTry
  <2> QED BY <2>1, <2>2, JobsStay DEF HasJob
<1>5. CASE LateTimeout
  BY <1>5, <1>0 DEF LateTimeout, TypeOK
<1>6. CASE Stop
  <2>1. crashes = 0 /\ glitches = 0 /\ UNCHANGED subPc /\ wkCmd \in Commands
    BY <1>6, <1>0 DEF Stop, TypeOK
  <2>2. CASE wkPc = "idle" /\ UNCHANGED <<db, redisVars, wkVars>>
    BY <2>1, <2>2, JobsStay DEF HasJob
  <2>3. CASE wkPc \in InTry /\ HandleCancelled
    <3>1. \A d \in Commands : db'[d].status = "QUEUED" => db[d].status = "QUEUED" /\ d # wkCmd
      BY <2>3, CutRow DEF InTry, HandleCancelled
    <3> QED BY <2>1, <2>3, <3>1, JobsStay DEF HasJob, HandleCancelled
  <2>4. CASE /\ wkPc \in OutsideTry \cup {"rearm"}
             /\ EscapeCancelled /\ queue' = Requeued
    <3>1. wkPc # "idle" /\ MayHaveSaved
      BY <2>4 DEF OutsideTry, EscapeCancelled
    <3>2. \A d \in Commands : db'[d].status = "QUEUED" => db[d].status = "QUEUED"
      BY <2>1, <3>1, CutRow
    <3>3. \A d \in Commands : InQueue(queue, d) => InQueue(queue', d)
      BY <1>0, <2>1, <2>4, InAppend, JobType DEF Requeued, TypeOK
    <3>4. wkPc \in {"load", "toRunning", "saveRunning"} => InQueue(queue', wkCmd)
      BY <1>0, <2>1, <2>4, InAppend, JobType DEF Requeued, TypeOK
    <3> QED BY <2>1, <3>2, <3>3, <3>4, JobsStay DEF HasJob
  <2> QED BY <1>6, <2>2, <2>3, <2>4 DEF Stop
<1>7. CASE Exit
  BY <1>7 DEF Exit, QueuedHasJob
<1>8. CASE Crash
  BY <1>8, <1>0 DEF Crash, TypeOK
<1>9. CASE Restart
  <2>1. \A c \in Commands : db'[c].status = "QUEUED" => db[c].status = "QUEUED"
    BY <1>9, <1>0, ResetType DEF Restart, TypeOK
  <2> QED BY <1>9, <2>1, JobsStay DEF Restart, HasJob
<1>10. ASSUME NEW c \in Commands, RearmDue(c) PROVE QueuedHasJob'
  <2>1. \A d \in Commands : InQueue(queue, d) => InQueue(queue', d)
    BY <1>10, <1>0, InAppend, JobType DEF RearmDue, TypeOK
  <2> QED BY <1>10, <2>1, JobsStay DEF RearmDue, HasJob
<1>11. CASE UNCHANGED vars
  BY <1>11 DEF vars, QueuedHasJob
<1> QED BY <1>1, <1>2, <1>3, <1>4, <1>5, <1>6, <1>7, <1>8, <1>9, <1>10, <1>11 DEF Next

\* Without crashes and refused enqueues, a QUEUED row has a job that will run it.
THEOREM QueuedIsBacked == Spec => []QueuedHasJob
<1>1. Init => QueuedHasJob
  BY NoRowType DEF Init, QueuedHasJob
<1> QED BY <1>1, QueuedNext, Invariance, PTL DEF Spec

-----------------------------------------------------------------------------
(***************************************************************************)
(* Until a cancel is posted or a glitch happens, CommandLifecycle          *)
(* implements CommandSpec: every save of a row is one atomic step of the   *)
(* one-slot service, every other step stutters.                            *)
(***************************************************************************)

\* Undisturbed, no cancel is under way, no row says CANCELLED and at most one RUNNING.
NoCancelled == \A c \in Commands : db[c].status # "CANCELLED"
OneRunning  == \A c, d \in Commands :
                 db[c].status = "RUNNING" /\ db[d].status = "RUNNING" => c = d
NoCancels   == \A r \in Cancellers : canPc[r] = "idle"
Calm == NoCancelled /\ OneRunning /\ NoCancels
RInv == IInv /\ RunningIsExecuting /\ (Undisturbed => Calm)

\* Nothing undoes a cancel or a glitch.
LEMMA Disturbs == ASSUME TypeOK, Next, Undisturbed' PROVE Undisturbed
<1> USE DEF redisVars, subVars, canVars, wkVars, countVars, Undisturbed
<1>1. ASSUME NEW c \in Commands, Submit(c) PROVE Undisturbed
  BY <1>1 DEF TypeOK, Submit, CreateCommand, QueuedRead, QueuedSave, Enqueue,
              EnqueueRefused, SubGoto
<1>2. ASSUME NEW c \in Commands, RearmDue(c) PROVE Undisturbed
  BY <1>2 DEF RearmDue
<1>3. ASSUME NEW r \in Cancellers, Cancel(r) PROVE FALSE
  BY <1>3 DEF Cancel, CancelCheck, CancelRead, CancelSave, CanGoto
<1>4. CASE WorkerStep
  BY <1>4 DEF WorkerStep, Dequeue, ExecuteGet, ToRunning, SaveRunning,
       RunWorkflow, RearmEnqueue, RearmRead, RearmSave, ToDone, SaveDone, ToFailed,
       SaveFailed, ReadError, SaveError, Rearm, WorkerSaves, WkGoto
<1>5. CASE Timeout \/ Stop \/ Exit \/ Crash \/ Restart
  BY <1>5 DEF Timeout, Stop, Exit, Crash, Restart
<1>6. CASE LateTimeout
  BY <1>6 DEF LateTimeout, TypeOK
<1> QED BY <1>1, <1>2, <1>3, <1>4, <1>5, <1>6 DEF Next

\* The steps that write rows, when there was no cancel.
LEMMA Writers ==
  ASSUME Undisturbed', RInv, Next
  PROVE  \/ UNCHANGED db
         \/ \E c \in Commands : CreateCommand(c) \/ QueuedSave(c)
         \/ wkPc \in Saves /\ db' = [db EXCEPT ![wkCmd] = wkRow]
         \/ Restart
<1> USE DEF redisVars, subVars, canVars, wkVars
<1>1. ASSUME NEW c \in Commands, Submit(c)
      PROVE  UNCHANGED db \/ CreateCommand(c) \/ QueuedSave(c)
  BY <1>1 DEF Submit, QueuedRead, Enqueue, EnqueueRefused
<1>2. CASE WorkerStep
  BY <1>2 DEF WorkerStep, Dequeue, ExecuteGet, ToRunning, SaveRunning, RunWorkflow,
       RearmEnqueue, RearmRead, RearmSave, ToDone, SaveDone, ToFailed, SaveFailed,
       ReadError, SaveError, Rearm, WorkerSaves, Saves
<1>3. CASE Timeout \/ LateTimeout \/ Stop
  BY <1>3 DEF Timeout, LateTimeout, Stop, HandleCancelled, EscapeCancelled, MayHaveSaved
<1>4. CASE Exit \/ Crash
  BY <1>4 DEF Exit, Crash
<1>5. ASSUME NEW c \in Commands, RearmDue(c) PROVE UNCHANGED db
  BY <1>5 DEF RearmDue
<1>6. ASSUME NEW r \in Cancellers, Cancel(r) PROVE FALSE
  BY <1>6 DEF Undisturbed, Cancel, CancelCheck, CancelRead, CancelSave, CanGoto
<1> QED BY <1>1, <1>2, <1>3, <1>4, <1>5, <1>6 DEF Next

\* The row the worker saves.
LEMMA WorkerRow ==
  ASSUME Undisturbed, RInv, wkPc \in Saves, db' = [db EXCEPT ![wkCmd] = wkRow]
  PROVE  /\ wkCmd \in Commands /\ db'[wkCmd] = wkRow
         /\ \A d \in Commands \ {wkCmd} : db'[d] = db[d]
         /\ wkRow.status # "CANCELLED"
         /\ wkRow.status = "RUNNING" /\ db[wkCmd].status # "RUNNING" =>
              \A d \in Commands : db[d].status # "RUNNING"
<1>1. wkCmd \in Commands /\ db'[wkCmd] = wkRow /\ \A d \in Commands \ {wkCmd} : db'[d] = db[d]
  BY DEF RInv, IInv, TypeOK
<1>2. db[wkCmd].status # "CANCELLED" /\ wkRow.status # "CANCELLED"
  BY <1>1 DEF RInv, Calm, NoCancelled, IInv, WkInv, Saves
<1>3. wkRow.status = "RUNNING" /\ db[wkCmd].status # "RUNNING" => wkPc = "saveRunning"
  BY <1>2 DEF RInv, IInv, WkInv, Saves, InTry
<1>4. wkPc = "saveRunning" => mode = "up"
  BY DEF RInv, IInv, ModeInv, TypeOK, HandlerPcs
<1>5. wkPc = "saveRunning" => \A d \in Commands : db[d].status # "RUNNING"
  BY <1>4 DEF RInv, Calm, Undisturbed, RunningIsExecuting, InTry, HandlerPcs
<1> QED BY <1>1, <1>2, <1>3, <1>5

\* Calm is kept, and a step changes the status of at most one command.
LEMMA CalmNext ==
  ASSUME Undisturbed', RInv, Next
  PROVE  /\ Calm'
         /\ \E c \in Commands : \A d \in Commands \ {c} : db'[d].status = db[d].status
<1> USE DEF redisVars, subVars, canVars, wkVars, countVars
<1>0. TypeOK /\ Undisturbed /\ Calm
  BY Disturbs DEF RInv, IInv
<1>1. NoCancels'
  <2>0. UNCHANGED canPc => NoCancels'
    BY <1>0 DEF Calm, NoCancels
  <2>1. ASSUME NEW c \in Commands, Submit(c) PROVE UNCHANGED canPc
    BY <2>1 DEF Submit, CreateCommand, QueuedRead, QueuedSave, Enqueue, EnqueueRefused, SubGoto
  <2>2. ASSUME NEW c \in Commands, RearmDue(c) PROVE UNCHANGED canPc
    BY <2>2 DEF RearmDue
  <2>3. CASE WorkerStep
    BY <2>3, <2>0 DEF WorkerStep, Dequeue, ExecuteGet, ToRunning, SaveRunning,
         RunWorkflow, RearmEnqueue, RearmRead, RearmSave, ToDone, SaveDone, ToFailed,
         SaveFailed, ReadError, SaveError, Rearm, WorkerSaves, WkGoto
  <2>4. CASE Timeout \/ LateTimeout \/ Stop \/ Exit \/ Restart
    BY <2>4, <2>0 DEF Timeout, LateTimeout, Stop, Exit, Restart
  <2>5. CASE Crash
    BY <2>5 DEF Crash, NoCancels
  <2>6. ASSUME NEW r \in Cancellers, Cancel(r) PROVE FALSE
    BY <2>6 DEF Undisturbed, Cancel, CancelCheck, CancelRead, CancelSave, CanGoto
  <2> QED BY <2>1, <2>2, <2>3, <2>4, <2>5, <2>6, <2>0 DEF Next
<1>2. CASE UNCHANGED db
  <2>1. NoCancelled' /\ OneRunning'
    BY <1>0, <1>2 DEF Calm, NoCancelled, OneRunning
  <2> QED BY <1>1, <1>2, <2>1, LifecycleAssumption DEF Calm
<1>3. ASSUME NEW c \in Commands, CreateCommand(c) \/ QueuedSave(c)
      PROVE  Calm' /\ \A d \in Commands \ {c} : db'[d].status = db[d].status
  <2>1. /\ db'[c].status \in {"PENDING", "QUEUED"}
        /\ \A d \in Commands \ {c} : db'[d] = db[d]
    BY <1>0, <1>3, PendingType
       DEF CreateCommand, QueuedSave, RInv, IInv, SubInv, TypeOK
  <2>2. NoCancelled' /\ OneRunning'
    BY <1>0, <2>1 DEF Calm, NoCancelled, OneRunning
  <2> QED BY <1>1, <2>1, <2>2 DEF Calm
<1>4. CASE wkPc \in Saves /\ db' = [db EXCEPT ![wkCmd] = wkRow]
  <2>1. /\ wkCmd \in Commands /\ db'[wkCmd] = wkRow
        /\ \A d \in Commands \ {wkCmd} : db'[d] = db[d]
        /\ wkRow.status # "CANCELLED"
        /\ wkRow.status = "RUNNING" /\ db[wkCmd].status # "RUNNING" =>
             \A d \in Commands : db[d].status # "RUNNING"
    BY <1>0, <1>4, WorkerRow
  <2>2. NoCancelled' /\ OneRunning'
    BY <1>0, <2>1 DEF Calm, NoCancelled, OneRunning
  <2> QED BY <1>1, <2>1, <2>2 DEF Calm
<1>5. CASE Restart
  <2>1. \A c \in Commands :
           /\ db[c].status = "RUNNING" => db'[c].status = "FAILED"
           /\ db[c].status # "RUNNING" => db'[c].status = db[c].status
    BY <1>0, <1>5, ResetType DEF Restart, TypeOK
  <2>2. NoCancelled' /\ OneRunning'
    BY <1>0, <2>1 DEF Calm, NoCancelled, OneRunning
  <2>3. \E c \in Commands : \A d \in Commands \ {c} : db[d].status # "RUNNING"
    BY <1>0, LifecycleAssumption DEF Calm, OneRunning
  <2> QED BY <1>1, <2>1, <2>2, <2>3 DEF Calm
<1> QED BY <1>2, <1>3, <1>4, <1>5, Writers

\* A step that changes the status of c alone is a step of the one-slot service.
LEMMA OneStep ==
  ASSUME Calm, Calm', NEW c \in Commands, StatusStep(c), db'[c].status # db[c].status,
         \A d \in Commands \ {c} : db'[d].status = db[d].status
  PROVE  Promise!Next
<1> DEFINE st == [d \in Commands |-> db[d].status]
<1>1. st' = [st EXCEPT ![c] = db'[c].status] /\ st[c] = db[c].status
  <2> DEFINE f == [d \in Commands |-> IF d = c THEN db'[c].status ELSE db[d].status]
  <2>1. st' = f
    <3>1. \A d \in Commands : db'[d].status = IF d = c THEN db'[c].status ELSE db[d].status
      OBVIOUS
    <3> QED BY <3>1, Zenon
  <2>2. [st EXCEPT ![c] = db'[c].status] = f
    BY Zenon
  <2> QED BY <2>1, <2>2, Zenon
<1>2. \/ db[c].status = "NONE" /\ db'[c].status = "PENDING"
      \/ db[c].status = "PENDING" /\ db'[c].status = "QUEUED"
      \/ db[c].status = "QUEUED" /\ db'[c].status = "RUNNING"
      \/ db[c].status = "RUNNING" /\ db'[c].status \in Promise!Final
  BY TableEntries
     DEF StatusStep, Calm, NoCancelled, VALID_TRANSITIONS, Status, Cancellable, Terminal,
         Promise!Final
<1>3. db'[c].status = "RUNNING" => \A d \in Commands : st[d] # "RUNNING"
  BY DEF Calm, OneRunning
<1> QED BY <1>1, <1>2, <1>3
        DEF Promise!Next, Promise!Create, Promise!Enqueue, Promise!Start,
            Promise!Finish, Promise!Move

\* Until the first cancel or glitch the service implements the one-slot service.
THEOREM Refinement == Spec => ImplementsSpec
<1>1. Init => RInv /\ Promise!Init
  <2> SUFFICES ASSUME Init PROVE RInv /\ Promise!Init
    OBVIOUS
  <2>1. \A c \in Commands : db[c].status = "NONE"
    BY NoRowType DEF Init
  <2>2. IInv /\ NoCancels
    BY IInvInit DEF Init, NoCancels
  <2>3. RunningIsExecuting /\ Calm
    BY <2>1, <2>2 DEF RunningIsExecuting, Calm, NoCancelled, OneRunning
  <2> QED BY <2>1, <2>2, <2>3 DEF RInv, Promise!Init
<1>2. RInv /\ [Next]_vars => RInv' /\ [Undisturbed' => PromiseStep]_vars
  <2> SUFFICES ASSUME RInv, [Next]_vars PROVE RInv' /\ [Undisturbed' => PromiseStep]_vars
    OBVIOUS
  <2>1. IInv' /\ RunningIsExecuting'
    BY IInvNext, ExecutingNext DEF RInv
  <2>2. CASE ~Undisturbed'
    BY <2>1, <2>2 DEF RInv
  <2>3. CASE Next /\ Undisturbed'
    <3>1. Calm' /\ \E c \in Commands : \A d \in Commands \ {c} : db'[d].status = db[d].status
      BY <2>3, CalmNext
    <3>2. PICK c \in Commands : \A d \in Commands \ {c} : db'[d].status = db[d].status
      BY <3>1
    <3>3. CASE db'[c].status = db[c].status
      BY <2>1, <3>1, <3>2, <3>3 DEF RInv, PromiseStep
    <3>4. CASE db'[c].status # db[c].status
      <4>1. StatusStep(c) /\ Calm
        BY <2>3, StatusNext, Disturbs DEF RInv, IInv
      <4>2. Promise!Next
        BY <3>1, <3>2, <3>4, <4>1, OneStep
      <4> QED BY <2>1, <3>1, <4>2 DEF RInv, PromiseStep
    <3> QED BY <3>3, <3>4
  <2>4. CASE UNCHANGED vars
    <3>1. Undisturbed' => Undisturbed /\ Calm'
      BY <2>4 DEF vars, canVars, countVars, Undisturbed, RInv, Calm, NoCancels,
                  NoCancelled, OneRunning
    <3> QED BY <2>1, <2>4, <3>1 DEF RInv
  <2> QED BY <2>2, <2>3, <2>4
<1> QED BY <1>1, <1>2, PTL DEF Spec, ImplementsSpec
=============================================================================
