----------------------------- MODULE PauseRearm -----------------------------
(***************************************************************************)
(* The schedules of the cameras over several commands: pauses that save    *)
(* and change them, the re-arm jobs that restore them, Set Home and Set    *)
(* Away in between, devices enabled and disabled, shutdowns and crashes.   *)
(*                                                                         *)
(* The worker runs one job at a time, node by node and device by device    *)
(* (module Workflow has the nodes in full, CommandLifecycle the jobs).     *)
(* A pause writes the AWAY schedule, whatever the mode is.                 *)
(***************************************************************************)
EXTENDS Naturals, Sequences, FiniteSets

CONSTANTS
  Devices,     \* cameras
  Pauses,      \* pause commands
  Fulls,       \* Set Home and Set Away commands
  Tagged,      \* Tagged[p]: the devices with the pause's tags
  ModeOf,      \* ModeOf[f]: "home" or "away"
  MaxEdits,    \* bound: devices enabled or disabled
  MaxCuts      \* bound: jobs cut off by a time-out, an exception, a shutdown or a crash

ASSUME PauseAssumption ==
  /\ Pauses \cap Fulls = {}
  /\ Tagged \in [Pauses -> SUBSET Devices]
  /\ ModeOf \in [Fulls -> {"home", "away"}]
  /\ MaxEdits \in Nat /\ MaxCuts \in Nat

VARIABLES
  enabled,    \* Device.is_enabled
  mask,       \* the schedule each camera has in the NVR
  saved,      \* SavedDeviceState: the schedule a pause saved of a camera, or "none"
  consumed,   \* SavedDeviceState.is_consumed: pairs of pause and camera
  submitted,  \* commands that were submitted
  queue,      \* jobs in Redis, oldest first
  timers,     \* pauses whose re-arm is scheduled
  job,        \* the job the worker runs
  node, todo, \* its node, and the cameras the node has left
  scope,      \* its device_ids
  base,       \* history: the schedule the last Set Home or Set Away gave each camera
  disturbed,  \* history: cameras written by another job before their re-arm
  overruled,  \* history: pauses and cameras a full command wrote before the re-arm
  broken,     \* history: cameras given up: of a failed call, of a job cut off, of a pause
              \* without minutes, or that were skipped
  edits, cuts

nvrVars  == <<mask, base, disturbed, overruled>>
rowVars  == <<saved, consumed>>
jobVars  == <<job, node, todo, scope>>
redisVars == <<queue, timers>>
vars == <<enabled, nvrVars, rowVars, submitted, redisVars, jobVars, broken, edits, cuts>>

Commands == Pauses \cup Fulls
Run(k, c) == [kind |-> k, cmd |-> c]
NoJob == Run("none", "none")
Masks == {"home", "away"}

Init ==
  /\ enabled = Devices
  /\ mask \in [Devices -> Masks] /\ base = mask
  /\ saved = [p \in Pauses |-> [d \in Devices |-> "none"]] /\ consumed = {}
  /\ submitted = {} /\ queue = <<>> /\ timers = {}
  /\ job = NoJob /\ node = "idle" /\ todo = {} /\ scope = {}
  /\ disturbed = {} /\ overruled = {} /\ broken = {} /\ edits = 0 /\ cuts = 0

-----------------------------------------------------------------------------
(* Requests, the queue and the administrator. *)

Submit(c) ==
  /\ c \notin submitted
  /\ submitted' = submitted \cup {c}
  /\ queue' = Append(queue, Run("command", c))
  /\ UNCHANGED <<enabled, nvrVars, rowVars, timers, jobVars, broken, edits, cuts>>

RearmDue(p) ==
  /\ p \in timers
  /\ timers' = timers \ {p}
  /\ queue' = Append(queue, Run("rearm", p))
  /\ UNCHANGED <<enabled, nvrVars, rowVars, submitted, jobVars, broken, edits, cuts>>

SetEnabled(d) ==
  /\ edits < MaxEdits /\ edits' = edits + 1
  /\ enabled' = IF d \in enabled THEN enabled \ {d} ELSE enabled \cup {d}
  /\ UNCHANGED <<nvrVars, rowVars, submitted, redisVars, jobVars, broken, cuts>>

\* The enabled devices at the start of the job, then FilterByTag for a pause.
Start ==
  /\ job = NoJob /\ queue # <<>>
  /\ job' = Head(queue) /\ queue' = Tail(queue)
  /\ LET c == Head(queue).cmd
         ids == IF Head(queue).kind = "command" /\ c \in Pauses
                THEN enabled \cap Tagged[c] ELSE enabled
     IN scope' = ids /\ todo' = ids
  /\ node' = IF Head(queue).kind = "rearm" THEN "RestoreBitmasks"
             ELSE IF Head(queue).cmd \in Pauses THEN "SaveBitmasks"
             ELSE "SetNotificationBitmasks"
  /\ UNCHANGED <<enabled, nvrVars, rowVars, submitted, timers, broken, edits, cuts>>

-----------------------------------------------------------------------------
(* The nodes that read or write schedules. *)

Visit(n, d) ==
  /\ node = n /\ d \in todo
  /\ todo' = todo \ {d}
  /\ UNCHANGED <<enabled, submitted, redisVars, job, node, scope, edits, cuts>>

EnterNode(n) ==
  /\ node' = n /\ todo' = scope
  /\ UNCHANGED <<job, scope>>

SaveConfigured(d) ==  \* mutant: the configured schedule is saved, not the NVR's
  /\ Visit("SaveBitmasks", d)
  /\ saved' = [saved EXCEPT ![job.cmd][d] = "away"]
  /\ UNCHANGED <<nvrVars, consumed, broken>>

SaveBitmasks(d) ==
  /\ Visit("SaveBitmasks", d)
  /\ \/ saved' = [saved EXCEPT ![job.cmd][d] = mask[d]] /\ UNCHANGED broken
     \/ broken' = broken \cup {d} /\ UNCHANGED saved
  /\ UNCHANGED <<nvrVars, consumed>>

\* The pause has saved the camera's schedule and its re-arm has not restored it.
Owed(p, d) == saved[p][d] # "none" /\ <<p, d>> \notin consumed

Written(d, m) ==
  LET others == {p \in Pauses \ {job.cmd} : Owed(p, d)} IN
  /\ mask' = [mask EXCEPT ![d] = m]
  /\ disturbed' = IF others # {} THEN disturbed \cup {d} ELSE disturbed
  /\ overruled' = IF job.cmd \in Fulls THEN overruled \cup (others \X {d}) ELSE overruled

\* A call that fails, or is cut off, may have reached the NVR.
MaybeWritten(d, m) == (Written(d, m) \/ UNCHANGED <<mask, disturbed, overruled>>) /\ UNCHANGED base

SetNotificationBitmasks(d) ==
  /\ Visit("SetNotificationBitmasks", d)
  /\ LET m == IF job.cmd \in Fulls THEN ModeOf[job.cmd] ELSE "away" IN
     \/ /\ Written(d, m)
        /\ base' = IF job.cmd \in Fulls THEN [base EXCEPT ![d] = m] ELSE base
        /\ UNCHANGED broken
     \/ broken' = broken \cup {d} /\ MaybeWritten(d, m)
  /\ UNCHANGED rowVars

RestoreConsumed(d) ==  \* mutant: consumed rows are not filtered out
  /\ Visit("RestoreBitmasks", d)
  /\ IF saved[job.cmd][d] = "none" THEN UNCHANGED <<nvrVars, consumed>>
     ELSE Written(d, saved[job.cmd][d]) /\ consumed' = consumed \cup {<<job.cmd, d>>}
          /\ UNCHANGED base
  /\ UNCHANGED <<saved, broken>>

\* The rows of THIS pause that are not consumed; the flag is saved after the NVR call.
RestoreBitmasks(d) ==
  LET p == job.cmd
      row == Owed(p, d)
  IN
  /\ Visit("RestoreBitmasks", d)
  /\ \/ ~row /\ UNCHANGED <<nvrVars, consumed, broken>>
     \/ row /\ Written(d, saved[p][d]) /\ consumed' = consumed \cup {<<p, d>>}
            /\ UNCHANGED <<base, broken>>
     \/ row /\ MaybeWritten(d, saved[p][d]) /\ UNCHANGED consumed /\ broken' = broken \cup {d}
  /\ UNCHANGED saved

SaveDone ==
  /\ node = "SaveBitmasks" /\ todo = {}
  /\ EnterNode("SetNotificationBitmasks")
  /\ UNCHANGED <<enabled, nvrVars, rowVars, submitted, redisVars, broken, edits, cuts>>

\* A full command has done.  So has a pause that was posted without minutes, which the form
\* asks for and the route does not: its cameras keep the paused schedule, given up.
SetDone ==
  /\ node = "SetNotificationBitmasks" /\ todo = {}
  /\ \/ job.cmd \in Pauses /\ EnterNode("ScheduleReArm") /\ UNCHANGED broken
     \/ job.cmd \in Fulls /\ EnterNode("end") /\ UNCHANGED broken
     \/ job.cmd \in Pauses /\ EnterNode("end") /\ broken' = broken \cup scope
  /\ UNCHANGED <<enabled, nvrVars, rowVars, submitted, redisVars, edits, cuts>>

ScheduleNothing ==  \* mutant: the timer is forgotten
  /\ node = "ScheduleReArm" /\ EnterNode("end")
  /\ UNCHANGED <<enabled, nvrVars, rowVars, submitted, redisVars, broken, edits, cuts>>

ScheduleReArm ==
  /\ node = "ScheduleReArm"
  /\ timers' = timers \cup {job.cmd}
  /\ EnterNode("end")
  /\ UNCHANGED <<enabled, nvrVars, rowVars, submitted, queue, broken, edits, cuts>>

\* A camera that was disabled when the re-arm started keeps its paused schedule.
RestoreDone ==
  /\ node = "RestoreBitmasks" /\ todo = {}
  /\ broken' = broken \cup {d \in Devices : Owed(job.cmd, d)}
  /\ EnterNode("end")
  /\ UNCHANGED <<enabled, nvrVars, rowVars, submitted, redisVars, edits, cuts>>

End ==
  /\ node = "end"
  /\ job' = NoJob /\ node' = "idle" /\ todo' = {} /\ scope' = {}
  /\ UNCHANGED <<enabled, nvrVars, rowVars, submitted, redisVars, broken, edits, cuts>>

-----------------------------------------------------------------------------
(* A job that is cut off. *)

\* The schedule call in flight may have reached the NVR.
Cut ==
  /\ job # NoJob /\ cuts < MaxCuts /\ cuts' = cuts + 1
  /\ job' = NoJob /\ node' = "idle" /\ todo' = {} /\ scope' = {}
  /\ \/ UNCHANGED nvrVars
     \/ \E d \in todo :
          \/ /\ node = "SetNotificationBitmasks"
             /\ MaybeWritten(d, IF job.cmd \in Fulls THEN ModeOf[job.cmd] ELSE "away")
          \/ /\ node = "RestoreBitmasks" /\ Owed(job.cmd, d)
             /\ MaybeWritten(d, saved[job.cmd][d])
  /\ UNCHANGED <<enabled, rowVars, submitted, timers, edits>>

\* A time-out, an exception or a crash.  A command is not run again, and neither is a
\* re-arm: SAQ aborts the job it swept.
CutOff ==
  /\ node # "end"
  /\ Cut
  /\ broken' = broken \cup scope \cup {d \in Devices : job.cmd \in Pauses /\ Owed(job.cmd, d)}
  /\ UNCHANGED queue

\* A shutdown puts a re-arm back in the queue (a command it puts back finds FAILED).
ShutDown ==
  /\ node # "end"
  /\ Cut
  /\ IF job.kind = "rearm" THEN queue' = Append(queue, job) /\ UNCHANGED broken
                           ELSE broken' = broken \cup scope /\ UNCHANGED queue

-----------------------------------------------------------------------------
Next ==
  \/ \E c \in Commands : Submit(c)
  \/ \E p \in Pauses : RearmDue(p)
  \/ \E d \in Devices : \/ SetEnabled(d) \/ SaveBitmasks(d)
                        \/ SetNotificationBitmasks(d) \/ RestoreBitmasks(d)
  \/ Start \/ SaveDone \/ SetDone \/ ScheduleReArm \/ RestoreDone \/ End
  \/ CutOff \/ ShutDown

Spec == Init /\ [][Next]_vars

WorkerStep ==
  \/ \E d \in Devices : SaveBitmasks(d) \/ SetNotificationBitmasks(d) \/ RestoreBitmasks(d)
  \/ Start \/ SaveDone \/ SetDone \/ ScheduleReArm \/ RestoreDone \/ End

\* The worker goes on and timers become due; nobody has to submit anything.
FairSpec ==
  /\ Spec
  /\ WF_vars(WorkerStep)
  /\ \A p \in Pauses : WF_vars(RearmDue(p))

-----------------------------------------------------------------------------
(* Properties. *)

\* The type invariant.
TypeOK ==
  /\ enabled \subseteq Devices /\ todo \subseteq scope /\ scope \subseteq Devices
  /\ mask \in [Devices -> Masks] /\ base \in [Devices -> Masks]
  /\ saved \in [Pauses -> [Devices -> Masks \cup {"none"}]]
  /\ consumed \subseteq Pauses \X Devices
  /\ submitted \subseteq Commands /\ timers \subseteq Pauses
  /\ queue \in Seq([kind: {"command", "rearm"}, cmd: Commands])
  /\ job \in [kind: {"command", "rearm"}, cmd: Commands] \cup {NoJob}
  /\ node \in {"idle", "SaveBitmasks", "SetNotificationBitmasks", "ScheduleReArm",
               "RestoreBitmasks", "end"}
  /\ disturbed \subseteq Devices /\ overruled \subseteq Pauses \X Devices /\ broken \subseteq Devices
  /\ edits \in Nat /\ cuts \in Nat

Queued(j) == \E i \in 1..Len(queue) : queue[i] = j

Quiet == job = NoJob /\ queue = <<>> /\ timers = {}

\* When nothing is queued, scheduled or running, a camera has the schedule the last Set
\* Home or Set Away gave it, whatever pauses came after - unless a call on it failed, a
\* job that held it was cut off, it was disabled, its pause had no minutes, or another job
\* wrote it meanwhile.
PauseIsUndone ==
  Quiet => \A d \in Devices \ (broken \cup disturbed) : mask[d] = base[d]

\* A schedule that was saved is restored once: shutdowns that put the re-arm back and
\* the re-arms of other pauses never write it a second time.
RestoredOnce ==
  [][\A p \in Pauses, d \in Devices :
       <<p, d>> \in consumed /\ job = Run("rearm", p) => mask'[d] = mask[d]]_vars

\* A saved schedule is not forgotten: the pause that saved it still runs, its re-arm is
\* scheduled, queued or running, or the camera was given up: by a failure, a cut, a pause
\* without minutes.
SavedHasRearm ==
  \A p \in Pauses, d \in Devices \ broken :
    Owed(p, d) =>
      \/ job \in {Run("command", p), Run("rearm", p)}
      \/ p \in timers \/ Queued(Run("rearm", p))

\* Every pause ends: again and again there comes a time when no camera waits for the
\* schedule a pause saved of it, but for those given up.
PausesEnd == []<>(\A p \in Pauses, d \in Devices \ broken : ~Owed(p, d))

-----------------------------------------------------------------------------
\* What the code's words say, and the code does not do.
\* spec.md 11.3: a re-arm is cancelled "if a full Set Home or Set Away command runs before
\* the timer fires": no re-arm takes back the schedule of a later full command.
FullCommandStands ==
  [][\A p \in Pauses, d \in Devices :
       <<p, d>> \in overruled /\ job = Run("rearm", p) => mask'[d] = mask[d]]_vars
=============================================================================
