-------------------------- MODULE CommandLifecycle --------------------------
(***************************************************************************)
(* The life of a command: services/command.py and services/queue.py, run   *)
(* by the web handlers of routes/commands.py, the SAQ worker of worker.py  *)
(* and the lifespan of main.py.                                            *)
(*                                                                         *)
(* Everything runs on one asyncio loop, so a coroutine is atomic between   *)
(* two awaits and any other coroutine may run at an await.  Every write of *)
(* a command is a read (get_or_none), a check, an assignment to the object *)
(* read, and a save of the WHOLE row: the read and the save are two steps  *)
(* here and a row carries all the columns a stale save can overwrite.      *)
(***************************************************************************)
EXTENDS Naturals, Sequences, FiniteSets

CONSTANTS
  Commands,     \* command ids, each created by one POST handler
  Pauses,       \* the commands of a pause type: their workflow schedules a re-arm
  Cancellers,   \* concurrent POST /commands/{id}/cancel handlers
  MaxCrashes,   \* bound: process crashes
  MaxStops,     \* bound: graceful shutdowns
  MaxGlitches   \* bound: Redis refusals and time-outs outside the try block

ASSUME LifecycleAssumption ==
  /\ Commands # {}
  /\ Pauses \subseteq Commands
  /\ MaxCrashes \in Nat
  /\ MaxStops \in Nat
  /\ MaxGlitches \in Nat

VARIABLES
  db,         \* the command table: a row per id, NoRow before its creation
  queue,      \* Redis: jobs ready to run, oldest first
  scheduled,  \* Redis: pause commands whose re-arm job waits for its time
  subPc, subRow,          \* the handler that creates and enqueues a command
  canPc, canCmd, canRow,  \* the cancel handlers
  cancelSeen, \* history: a cancel was posted
  wkPc, wkCmd, wkRow,     \* the job the worker runs (concurrency=1)
  wkCancelled,            \* its CancelledError branch is the one handling the end
  mode,       \* the process: "up", "stopping" (worker.stop()) or "down"
  runs,       \* history: how often a command's workflow was started
  crashes, stops, glitches

redisVars  == <<queue, scheduled>>
subVars    == <<subPc, subRow>>
canVars    == <<canPc, canCmd, canRow, cancelSeen>>
wkVars     == <<wkPc, wkCmd, wkRow, wkCancelled>>
countVars  == <<crashes, stops, glitches>>
vars == <<db, redisVars, subVars, canVars, wkVars, mode, runs, countVars>>

-----------------------------------------------------------------------------
(* Rows and the transition table. *)

Terminal    == {"SUCCEEDED", "FAILED", "CANCELLED", "COMPLETED_WITH_ERRORS"}
Cancellable == {"PENDING", "QUEUED", "RUNNING"}
Status      == Cancellable \cup Terminal

VALID_TRANSITIONS ==
  [s \in Status |->
     CASE s = "PENDING" -> {"QUEUED", "CANCELLED"}
       [] s = "QUEUED"  -> {"RUNNING", "CANCELLED"}
       [] s = "RUNNING" -> Terminal
       [] OTHER         -> {}]

\* status, the three timestamps (set or not), error_summary and saq_job_id.
Row == [status: Status \cup {"NONE"}, queued: BOOLEAN, started: BOOLEAN,
        completed: BOOLEAN, summary: BOOLEAN, job: BOOLEAN]

NoRow == [status |-> "NONE", queued |-> FALSE, started |-> FALSE,
          completed |-> FALSE, summary |-> FALSE, job |-> FALSE]

\* The object transition_status has read and changed, before it is saved.
Moved(row, new) ==
  [row EXCEPT !.status    = new,
              !.queued    = @ \/ new = "QUEUED",
              !.started   = @ \/ new = "RUNNING",
              !.completed = @ \/ new \in Terminal]

Allowed(c, new) == db[c].status \in Status /\ new \in VALID_TRANSITIONS[db[c].status]

Job(k, c) == [kind |-> k, cmd |-> c]
Jobs == [kind: {"process_command", "process_rearm"}, cmd: Commands]

SomeCommand == CHOOSE c \in Commands : TRUE  \* the value of an idle cmd variable

-----------------------------------------------------------------------------
Init ==
  /\ db = [c \in Commands |-> NoRow]
  /\ queue = <<>> /\ scheduled = {}
  /\ subPc = [c \in Commands |-> "new"] /\ subRow = [c \in Commands |-> NoRow]
  /\ canPc = [r \in Cancellers |-> "idle"]
  /\ canCmd = [r \in Cancellers |-> SomeCommand]
  /\ canRow = [r \in Cancellers |-> NoRow] /\ cancelSeen = FALSE
  /\ wkPc = "idle" /\ wkCmd = SomeCommand /\ wkRow = NoRow /\ wkCancelled = FALSE
  /\ mode = "up"
  /\ runs = [c \in Commands |-> 0]
  /\ crashes = 0 /\ stops = 0 /\ glitches = 0

-----------------------------------------------------------------------------
(* POST /commands/execute/...: create_command, then enqueue_command.       *)

SubGoto(c, pc, row) ==
  /\ mode = "up"
  /\ subPc' = [subPc EXCEPT ![c] = pc]
  /\ subRow' = [subRow EXCEPT ![c] = row]
  /\ UNCHANGED <<scheduled, canVars, wkVars, mode, runs, crashes, stops>>

CreateCommand(c) ==
  /\ subPc[c] = "new"
  /\ db' = [db EXCEPT ![c] = [NoRow EXCEPT !.status = "PENDING"]]
  /\ SubGoto(c, "read", NoRow)
  /\ UNCHANGED <<queue, glitches>>

\* transition_status(QUEUED) reads and checks; a command cancelled meanwhile
\* makes it raise and the handler ends.
QueuedRead(c) ==
  /\ subPc[c] = "read"
  /\ \/ Allowed(c, "QUEUED") /\ SubGoto(c, "save", Moved(db[c], "QUEUED"))
     \/ ~Allowed(c, "QUEUED") /\ SubGoto(c, "done", NoRow)
  /\ UNCHANGED <<db, queue, glitches>>

QueuedSave(c) ==
  /\ subPc[c] = "save"
  /\ db' = [db EXCEPT ![c] = subRow[c]]
  /\ SubGoto(c, "enqueue", NoRow)
  /\ UNCHANGED <<queue, glitches>>

EnqueueRearm(c) ==  \* mutant: the name of the other job function is given
  /\ subPc[c] = "enqueue"
  /\ queue' = Append(queue, Job("process_rearm", c))
  /\ SubGoto(c, "done", NoRow)
  /\ UNCHANGED <<db, glitches>>

Enqueue(c) ==
  /\ subPc[c] = "enqueue"
  /\ queue' = Append(queue, Job("process_command", c))
  /\ SubGoto(c, "done", NoRow)
  /\ UNCHANGED <<db, glitches>>

\* queue.enqueue raises (Redis unreachable): nothing undoes the transition.
EnqueueRefused(c) ==
  /\ subPc[c] = "enqueue" /\ glitches < MaxGlitches
  /\ glitches' = glitches + 1
  /\ SubGoto(c, "done", NoRow)
  /\ UNCHANGED <<db, queue>>

Submit(c) == \/ CreateCommand(c) \/ QueuedRead(c) \/ QueuedSave(c)
             \/ Enqueue(c) \/ EnqueueRefused(c)

-----------------------------------------------------------------------------
(* POST /commands/{id}/cancel: cancel_command, then transition_status.     *)

CanGoto(r, pc, c, row) ==
  /\ mode = "up"
  /\ canPc' = [canPc EXCEPT ![r] = pc]
  /\ canCmd' = [canCmd EXCEPT ![r] = c]
  /\ canRow' = [canRow EXCEPT ![r] = row]
  /\ cancelSeen' = TRUE
  /\ UNCHANGED <<redisVars, subVars, wkVars, mode, runs, countVars>>

\* The first get_or_none and the CANCELLABLE_STATUSES test (else ValueError).
CancelCheck(r, c) ==
  /\ canPc[r] = "idle"
  /\ db[c].status \in Cancellable
  /\ CanGoto(r, "read", c, NoRow)
  /\ UNCHANGED db

CancelRead(r) ==
  LET c == canCmd[r] IN
  /\ canPc[r] = "read"
  /\ \/ Allowed(c, "CANCELLED") /\ CanGoto(r, "save", c, Moved(db[c], "CANCELLED"))
     \/ ~Allowed(c, "CANCELLED") /\ CanGoto(r, "idle", SomeCommand, NoRow)
  /\ UNCHANGED db

CancelSave(r) ==
  /\ canPc[r] = "save"
  /\ db' = [db EXCEPT ![canCmd[r]] = canRow[r]]
  /\ CanGoto(r, "idle", SomeCommand, NoRow)

Cancel(r) == (\E c \in Commands : CancelCheck(r, c)) \/ CancelRead(r) \/ CancelSave(r)

-----------------------------------------------------------------------------
(* The SAQ worker: process_command (execute_command) and process_rearm.    *)

WkGoto(pc, row) ==
  /\ wkPc' = pc
  /\ wkRow' = row
  /\ wkCmd' = IF pc = "idle" THEN SomeCommand ELSE wkCmd
  /\ wkCancelled' = (wkCancelled /\ pc # "idle")
  /\ UNCHANGED <<subVars, canVars, mode, countVars>>

DequeueUnknown ==  \* mutant: process_rearm is not among the worker's functions
  /\ mode = "up" /\ wkPc = "idle" /\ queue # <<>>
  /\ queue' = Tail(queue)
  /\ wkPc' = IF Head(queue).kind = "process_command" THEN "load" ELSE "idle"
  /\ wkCmd' = Head(queue).cmd
  /\ UNCHANGED <<db, scheduled, subVars, canVars, wkRow, wkCancelled, mode, runs, countVars>>

Dequeue ==
  /\ mode = "up" /\ wkPc = "idle" /\ queue # <<>>
  /\ queue' = Tail(queue)
  /\ wkPc' = IF Head(queue).kind = "process_command" THEN "load" ELSE "rearm"
  /\ wkCmd' = Head(queue).cmd
  /\ UNCHANGED <<db, scheduled, subVars, canVars, wkRow, wkCancelled, mode, runs, countVars>>

\* A command cancelled while it sat in the queue is skipped.
ExecuteGet ==
  /\ wkPc = "load"
  /\ WkGoto(IF db[wkCmd].status = "CANCELLED" THEN "idle" ELSE "toRunning", NoRow)
  /\ UNCHANGED <<db, redisVars, runs>>

\* transition_status(RUNNING) is outside the try: its ValueError ends the job.
ToRunning ==
  /\ wkPc = "toRunning"
  /\ \/ Allowed(wkCmd, "RUNNING") /\ WkGoto("saveRunning", Moved(db[wkCmd], "RUNNING"))
     \/ ~Allowed(wkCmd, "RUNNING") /\ WkGoto("idle", NoRow)
  /\ UNCHANGED <<db, redisVars, runs>>

WorkerSaves(pc) ==
  /\ db' = [db EXCEPT ![wkCmd] = wkRow]
  /\ WkGoto(pc, NoRow)
  /\ UNCHANGED redisVars

SaveRunning ==
  /\ wkPc = "saveRunning"
  /\ WorkerSaves("workflow")
  /\ runs' = [runs EXCEPT ![wkCmd] = @ + 1]

\* The workflow ends or raises; the last node of a pause calls schedule_rearm.
RunWorkflow ==
  /\ wkPc = "workflow"
  /\ \/ WkGoto(IF wkCmd \in Pauses THEN "rearmEnqueue" ELSE "toDone", NoRow)
     \/ WkGoto("toFailed", NoRow)
  /\ UNCHANGED <<db, redisVars, runs>>

RearmEnqueue ==
  /\ wkPc = "rearmEnqueue"
  /\ \/ scheduled' = scheduled \cup {wkCmd} /\ WkGoto("rearmRead", NoRow)
     \/ UNCHANGED scheduled /\ WkGoto("toFailed", NoRow)
  /\ UNCHANGED <<db, queue, runs>>

RearmRead ==
  /\ wkPc = "rearmRead"
  /\ WkGoto("rearmSave", [db[wkCmd] EXCEPT !.job = TRUE])
  /\ UNCHANGED <<db, redisVars, runs>>

RearmSave ==
  /\ wkPc = "rearmSave"
  /\ WorkerSaves("toDone")
  /\ UNCHANGED runs

\* A ValueError here is caught by `except Exception`, which tries FAILED.
ToDone ==
  /\ wkPc = "toDone"
  /\ \E new \in {"SUCCEEDED", "COMPLETED_WITH_ERRORS"} :
       \/ Allowed(wkCmd, new) /\ WkGoto("saveDone", Moved(db[wkCmd], new))
       \/ ~Allowed(wkCmd, new) /\ WkGoto("toFailed", NoRow)
  /\ UNCHANGED <<db, redisVars, runs>>

SaveDone ==
  /\ wkPc = "saveDone"
  /\ WorkerSaves("idle")
  /\ UNCHANGED runs

ToFailedUnchecked ==  \* mutant: FAILED is written without the transition check
  /\ wkPc = "toFailed"
  /\ WkGoto("saveFailed", Moved(db[wkCmd], "FAILED"))
  /\ UNCHANGED <<db, redisVars, runs>>

ToFailed ==
  /\ wkPc = "toFailed"
  /\ \/ Allowed(wkCmd, "FAILED") /\ WkGoto("saveFailed", Moved(db[wkCmd], "FAILED"))
     \/ ~Allowed(wkCmd, "FAILED") /\ WkGoto("idle", NoRow)
  /\ UNCHANGED <<db, redisVars, runs>>

SaveFailed ==
  /\ wkPc = "saveFailed"
  /\ WorkerSaves("readError")
  /\ UNCHANGED runs

\* set_error_summary
ReadError ==
  /\ wkPc = "readError"
  /\ WkGoto("saveError", [db[wkCmd] EXCEPT !.summary = TRUE])
  /\ UNCHANGED <<db, redisVars, runs>>

\* SAQ puts the job of a coroutine that worker.stop() cancelled back in the queue.
Requeued ==
  Append(queue, Job(IF wkPc = "rearm" THEN "process_rearm" ELSE "process_command", wkCmd))

\* The CancelledError branch re-raises: on shutdown SAQ sees it and requeues.
SaveError ==
  /\ wkPc = "saveError"
  /\ db' = [db EXCEPT ![wkCmd] = wkRow]
  /\ WkGoto("idle", NoRow)
  /\ queue' = IF mode = "stopping" /\ wkCancelled THEN Requeued ELSE queue
  /\ UNCHANGED <<scheduled, runs>>

\* execute_rearm swallows every Exception and never writes the command.
Rearm ==
  /\ wkPc = "rearm"
  /\ WkGoto("idle", NoRow)
  /\ UNCHANGED <<db, redisVars, runs>>

\* SAQ moves a scheduled job to the queue once its time has come.
RearmDue(c) ==
  /\ mode = "up" /\ c \in scheduled
  /\ scheduled' = scheduled \ {c}
  /\ queue' = Append(queue, Job("process_rearm", c))
  /\ UNCHANGED <<db, subVars, canVars, wkVars, mode, runs, countVars>>

WorkerStep == \/ Dequeue \/ ExecuteGet \/ ToRunning \/ SaveRunning \/ RunWorkflow
              \/ RearmEnqueue \/ RearmRead \/ RearmSave \/ ToDone \/ SaveDone
              \/ ToFailed \/ SaveFailed \/ ReadError \/ SaveError \/ Rearm

-----------------------------------------------------------------------------
(* Cancellation of the worker's coroutine: SAQ's job time-out, and         *)
(* worker.stop().  CancelledError is raised at the current await; a save   *)
(* or enqueue in flight may or may not have been carried out.              *)

Saves == {"saveRunning", "rearmSave", "saveDone", "saveFailed", "saveError"}
InTry == {"workflow", "rearmEnqueue", "rearmRead", "rearmSave", "toDone", "saveDone"}
OutsideTry == {"load", "toRunning", "saveRunning",
               "toFailed", "saveFailed", "readError", "saveError"}

MayHaveSaved ==
  \/ UNCHANGED db
  \/ wkPc \in Saves /\ db' = [db EXCEPT ![wkCmd] = wkRow]

MayHaveScheduled ==
  \/ UNCHANGED scheduled
  \/ wkPc = "rearmEnqueue" /\ scheduled' = scheduled \cup {wkCmd}

\* No handler: the error reaches SAQ.
EscapeCancelled ==
  /\ MayHaveSaved /\ UNCHANGED scheduled
  /\ wkPc' = "idle" /\ wkCmd' = SomeCommand /\ wkRow' = NoRow /\ wkCancelled' = FALSE

\* `except asyncio.CancelledError`
HandleCancelledNot == EscapeCancelled /\ UNCHANGED queue  \* mutant: only Exception is caught
HandleCancelled ==
  /\ MayHaveSaved /\ MayHaveScheduled
  /\ wkPc' = "toFailed" /\ wkRow' = NoRow /\ wkCancelled' = TRUE
  /\ UNCHANGED <<wkCmd, queue>>

Timeout ==
  /\ mode = "up" /\ wkPc \in InTry
  /\ HandleCancelled
  /\ UNCHANGED <<subVars, canVars, mode, runs, countVars>>

\* The time-out lands before the try, or while an `except Exception` handler runs.
LateTimeout ==
  /\ mode = "up" /\ wkPc \in OutsideTry /\ ~wkCancelled
  /\ glitches < MaxGlitches
  /\ EscapeCancelled
  /\ glitches' = glitches + 1
  /\ UNCHANGED <<queue, subVars, canVars, mode, runs, crashes, stops>>

\* uvicorn has let the open requests finish when the lifespan calls worker.stop();
\* SAQ cancels the running job and puts it back in the queue.
Stop ==
  /\ mode = "up" /\ stops < MaxStops
  /\ \A c \in Commands : subPc[c] \in {"new", "done"}
  /\ \A r \in Cancellers : canPc[r] = "idle"
  /\ mode' = "stopping" /\ stops' = stops + 1
  /\ \/ wkPc = "idle" /\ UNCHANGED <<db, redisVars, wkVars>>
     \/ wkPc \in InTry /\ HandleCancelled
     \/ /\ wkPc \in OutsideTry \cup {"rearm"}
        /\ EscapeCancelled
        /\ queue' = Requeued
  /\ UNCHANGED <<subVars, canVars, runs, crashes, glitches>>

Exit ==
  /\ mode = "stopping" /\ wkPc = "idle"
  /\ mode' = "down"
  /\ UNCHANGED <<db, redisVars, subVars, canVars, wkVars, runs, countVars>>

\* Every coroutine is lost; the database and Redis stay.  SAQ later sweeps the
\* job that was active: with its one attempt used up it is aborted, not retried.
Crash ==
  /\ mode # "down" /\ crashes < MaxCrashes
  /\ mode' = "down" /\ crashes' = crashes + 1
  /\ subPc' = [c \in Commands |-> IF subPc[c] = "new" THEN "new" ELSE "done"]
  /\ subRow' = [c \in Commands |-> NoRow]
  /\ canPc' = [r \in Cancellers |-> "idle"]
  /\ canCmd' = [r \in Cancellers |-> SomeCommand]
  /\ canRow' = [r \in Cancellers |-> NoRow]
  /\ wkPc' = "idle" /\ wkCmd' = SomeCommand /\ wkRow' = NoRow /\ wkCancelled' = FALSE
  /\ UNCHANGED <<db, redisVars, cancelSeen, runs, stops, glitches>>

\* The rows of an interrupted command after the start-up UPDATE of two columns.
ResetNone(row) == row                                    \* mutant: nothing is reset
ResetToQueued(row) == IF row.status = "RUNNING"          \* mutant: it is run again
                      THEN [row EXCEPT !.status = "QUEUED"] ELSE row
Reset(row) == IF row.status = "RUNNING"
              THEN [row EXCEPT !.status = "FAILED", !.summary = TRUE] ELSE row

Restart ==
  /\ mode = "down"
  /\ mode' = "up"
  /\ db' = [c \in Commands |-> Reset(db[c])]
  /\ UNCHANGED <<redisVars, subVars, canVars, wkVars, runs, countVars>>

-----------------------------------------------------------------------------
Next ==
  \/ \E c \in Commands : Submit(c) \/ RearmDue(c)
  \/ \E r \in Cancellers : Cancel(r)
  \/ WorkerStep \/ Timeout \/ LateTimeout
  \/ Stop \/ Exit \/ Crash \/ Restart

Spec == Init /\ [][Next]_vars

\* A coroutine that can run does, a workflow ends (its job has a time-out), due
\* jobs become due and the container restarts the process.  Nobody has to submit,
\* cancel, stop or crash anything.
Fairness ==
  /\ \A c \in Commands : /\ WF_vars(QueuedRead(c) \/ QueuedSave(c) \/ Enqueue(c))
                         /\ WF_vars(RearmDue(c))
  /\ \A r \in Cancellers : WF_vars(CancelRead(r) \/ CancelSave(r))
  /\ WF_vars(WorkerStep) /\ WF_vars(Exit) /\ WF_vars(Restart)

FairSpec == Spec /\ Fairness

-----------------------------------------------------------------------------
(* Properties. *)

HandlerPcs == {"toFailed", "saveFailed", "readError", "saveError"}
WorkerPcs  == {"idle", "rearm"} \cup OutsideTry \cup InTry

\* The type invariant.
TypeOK ==
  /\ db \in [Commands -> Row]
  /\ queue \in Seq(Jobs) /\ scheduled \subseteq Commands
  /\ subPc \in [Commands -> {"new", "read", "save", "enqueue", "done"}]
  /\ subRow \in [Commands -> Row]
  /\ canPc \in [Cancellers -> {"idle", "read", "save"}]
  /\ canCmd \in [Cancellers -> Commands] /\ canRow \in [Cancellers -> Row]
  /\ cancelSeen \in BOOLEAN
  /\ wkPc \in WorkerPcs /\ wkCmd \in Commands /\ wkRow \in Row
  /\ wkCancelled \in BOOLEAN
  /\ mode \in {"up", "stopping", "down"}
  /\ runs \in [Commands -> Nat]
  /\ crashes \in Nat /\ stops \in Nat /\ glitches \in Nat

\* While the process serves requests, a row that says RUNNING is the command the
\* worker is executing: nothing execute_command does, no race with a cancel and no
\* crash leaves a RUNNING row behind (get_active_command shows it to the user).  A
\* time-out outside the try block does, which is what the start-up reset is for.
RunningIsExecuting ==
  (mode = "up" /\ glitches = 0) =>
    \A c \in Commands : db[c].status = "RUNNING" =>
      wkCmd = c /\ wkPc \in InTry \cup HandlerPcs

\* A command's workflow is started at most once, whatever crashes, shutdowns that
\* put the job back, cancels and stale saves happen around execute_command.
AtMostOnce == \A c \in Commands : runs[c] <= 1

\* A QUEUED row has a job behind it: its handler is about to enqueue it, it is in
\* Redis, or the worker has it and has not yet saved RUNNING.  Only a crash or a
\* refused enqueue between the row and Redis strands it.
QueuedHasJob ==
  (crashes = 0 /\ glitches = 0) =>
    \A c \in Commands : db[c].status = "QUEUED" =>
      \/ subPc[c] = "enqueue"
      \/ \E i \in 1..Len(queue) : queue[i] = Job("process_command", c)
      \/ wkCmd = c /\ wkPc \in {"load", "toRunning", "saveRunning"}

\* A status changes along VALID_TRANSITIONS, or CANCELLED is lost or overwrites:
\* no other pair of writers (handler, worker, start-up reset) can race on a row.
StatusStep(c) ==
  LET old == db[c].status
      new == db'[c].status
  IN \/ new = old
     \/ old = "NONE" /\ new = "PENDING"
     \/ old \in Status /\ new \in VALID_TRANSITIONS[old]
     \/ "CANCELLED" \in {old, new} /\ old # "NONE"

OnlyCancelRaces == [][\A c \in Commands : StatusStep(c)]_vars

\* Until the first cancel or glitch the service is the atomic one-slot service of
\* CommandSpec: every save of a row is one of its steps, everything else a stutter.
Promise == INSTANCE CommandSpec WITH status <- [c \in Commands |-> db[c].status]
Undisturbed == ~cancelSeen /\ glitches = 0
PromiseStep == [Promise!Next]_[c \in Commands |-> db[c].status]
ImplementsSpec == Promise!Init /\ [][Undisturbed' => PromiseStep]_vars

\* A command that nothing serves any more: a crash came between its row and its job, or
\* took the job before RUNNING was saved; or a glitch (the only way to strand RUNNING).
Stranded(c) ==
  /\ crashes + glitches > 0 /\ subPc[c] = "done"
  /\ db[c].status \in {"PENDING", "QUEUED"} \cup (IF glitches > 0 THEN {"RUNNING"} ELSE {})
  /\ \A i \in 1..Len(queue) : queue[i] # Job("process_command", c)
  /\ wkPc \in {"idle", "rearm"} \/ wkCmd # c

\* A command that was submitted ends, or is stranded; a re-arm job, once in Redis, is run
\* by the worker: shutdowns, crashes and a busy worker only delay both (spec.md 11.2: jobs
\* are durable, pending jobs resume).
CommandsEnd ==
  \A c \in Commands :
    /\ subPc[c] # "new" ~> db[c].status \in Terminal \/ Stranded(c)
    /\ c \in scheduled ~> (wkPc = "rearm" /\ wkCmd = c)

-----------------------------------------------------------------------------
(* The inductive invariant: what each coroutine knows, between its read    *)
(* and its save, of the row it is about to overwrite.                      *)

\* A row is NONE until its handler creates it, and until the handler is done only
\* it and a cancel have written the row and no workflow has been started.
SubInv == \A c \in Commands :
  /\ subPc[c] = "new" <=> db[c].status = "NONE"
  /\ subPc[c] \in {"read", "save"} => db[c].status \in {"PENDING", "CANCELLED"}
  /\ subPc[c] = "save" => subRow[c].status = "QUEUED"
  /\ subPc[c] = "enqueue" => db[c].status \in {"QUEUED", "CANCELLED"}
  /\ subPc[c] # "done" => runs[c] = 0

\* Only commands whose handler is done have jobs.
JobInv ==
  /\ \A i \in 1..Len(queue) : subPc[queue[i].cmd] = "done"
  /\ \A c \in scheduled : subPc[c] = "done"
  /\ wkPc # "idle" => subPc[wkCmd] = "done"

\* A cancel handler writes CANCELLED over a row that exists.
CanInv == \A r \in Cancellers :
  /\ canPc[r] \in {"read", "save"} => db[canCmd[r]].status # "NONE"
  /\ canPc[r] = "save" => canRow[r].status = "CANCELLED"

\* The row of the job's command is where execute_command left it, or CANCELLED.
WkInv ==
  LET now == db[wkCmd].status IN
  /\ wkPc = "saveRunning" => now \in {"QUEUED", "CANCELLED"} /\ wkRow.status = "RUNNING"
  /\ wkPc = "saveRunning" => runs[wkCmd] = 0
  /\ wkPc \in InTry \cup {"saveFailed"} => now \in {"RUNNING", "CANCELLED"}
  /\ wkPc = "rearmSave" => wkRow.status \in {"RUNNING", "CANCELLED"}
  /\ wkPc = "saveDone" => wkRow.status \in {"SUCCEEDED", "COMPLETED_WITH_ERRORS"}
  /\ wkPc = "toFailed" =>
       now \in {"RUNNING", "CANCELLED", "SUCCEEDED", "COMPLETED_WITH_ERRORS"}
  /\ wkPc = "saveFailed" => wkRow.status = "FAILED"
  /\ wkPc \in {"readError", "saveError"} => now \in {"FAILED", "CANCELLED"}
  /\ wkPc = "saveError" => wkRow.status \in {"FAILED", "CANCELLED"}
  /\ wkPc \in {"rearmSave", "saveError"} /\ wkRow.status = "CANCELLED" => now = "CANCELLED"

\* A workflow was started at most once, and never on a row that may still start.
RunInv == \A c \in Commands :
  /\ runs[c] <= 1
  /\ db[c].status \in {"NONE", "PENDING", "QUEUED"} => runs[c] = 0

\* A process that is down runs nothing, one that stops only its error handler.
ModeInv ==
  /\ mode = "down" => wkPc = "idle"
  /\ mode = "stopping" => wkPc \in HandlerPcs \cup {"idle"}

IInv == TypeOK /\ SubInv /\ JobInv /\ CanInv /\ WkInv /\ RunInv /\ ModeInv
=============================================================================
