-------------------------- MODULE PauseRearmProofs --------------------------
(***************************************************************************)
(* What a pause does is undone, for any cameras, pauses, full commands and *)
(* bounds: the invariants SavedHasRearm and PauseIsUndone and the action   *)
(* property RestoredOnce of PauseRearm.                                    *)
(*                                                                         *)
(* The argument: a camera that nobody gave up and no other job wrote has   *)
(* the schedule of the last full command, or exactly one pause, whose      *)
(* command has written the camera, has that schedule among its saved ones  *)
(* and has a re-arm to come (Kept).                                        *)
(***************************************************************************)
EXTENDS PauseRearm, TLAPS

Jobs == {Run("command", c) : c \in Commands} \cup {Run("rearm", p) : p \in Pauses}

Types ==
  /\ enabled \subseteq Devices /\ todo \subseteq scope /\ scope \subseteq Devices
  /\ mask \in [Devices -> Masks] /\ base \in [Devices -> Masks]
  /\ saved \in [Pauses -> [Devices -> Masks \cup {"none"}]]
  /\ consumed \subseteq Pauses \X Devices
  /\ submitted \subseteq Commands /\ timers \subseteq Pauses
  /\ queue \in Seq(Jobs) /\ job \in Jobs \cup {NoJob}
  /\ disturbed \subseteq Devices /\ overruled \subseteq Pauses \X Devices /\ broken \subseteq Devices
  /\ edits \in Nat /\ cuts \in Nat

\* The node says which kind of job runs.
Control ==
  \/ node = "idle" /\ job = NoJob
  \/ node \in {"SaveBitmasks", "ScheduleReArm"} /\ \E p \in Pauses : job = Run("command", p)
  \/ node = "SetNotificationBitmasks" /\ \E c \in Commands : job = Run("command", c)
  \/ node = "RestoreBitmasks" /\ \E p \in Pauses : job = Run("rearm", p)
  \/ node = "end" /\ job # NoJob

\* A command is queued at most once, after it was submitted and before it runs.
QueuedOnce ==
  /\ \A i, k \in 1..Len(queue) :
       queue[i] = queue[k] /\ queue[i].kind = "command" => i = k
  /\ \A c \in Commands :
       /\ Queued(Run("command", c)) => c \in submitted
       /\ job = Run("command", c) => c \in submitted /\ ~Queued(Run("command", c))

\* The re-arm of the pause was scheduled.
Rearmed(p) ==
  \/ p \in timers \/ Queued(Run("rearm", p)) \/ job = Run("rearm", p)
  \/ \E d \in Devices : <<p, d>> \in consumed

\* Nothing is saved before the command runs, nothing re-armed before it has ended.
InOrder ==
  \A p \in Pauses :
    /\ (p \notin submitted \/ Queued(Run("command", p))) =>
         (\A d \in Devices : saved[p][d] = "none") /\ ~Rearmed(p)
    /\ job = Run("command", p) /\ Rearmed(p) => node = "end"

\* The running pause has saved the cameras it has visited, and no others.
SavesItsScope ==
  \A p \in Pauses : job = Run("command", p) =>
    \A d \in Devices :
      /\ saved[p][d] # "none" => d \in scope
      /\ node = "SaveBitmasks" /\ d \in scope \ todo => saved[p][d] # "none" \/ d \in broken
      /\ node = "SetNotificationBitmasks" /\ d \in todo => saved[p][d] # "none" \/ d \in broken

\* What the last node leaves: the timer of a pause, or its cameras given up; nothing owed
\* by a re-arm.
EndsWell ==
  node = "end" => \A p \in Pauses :
    /\ job = Run("command", p) =>
         p \in timers \/ Queued(Run("rearm", p)) \/ \A d \in Devices \ broken : ~Owed(p, d)
    /\ job = Run("rearm", p) => \A d \in Devices \ broken : ~Owed(p, d)

\* The pause has saved the camera and not yet written it.
Unwritten(p, d) ==
  /\ job = Run("command", p)
  /\ \/ node = "SaveBitmasks"
     \/ node = "SetNotificationBitmasks" /\ d \in todo

Kept ==
  \A d \in Devices \ (broken \cup disturbed) :
    /\ \A p \in Pauses : Owed(p, d) =>
         saved[p][d] = IF Unwritten(p, d) THEN mask[d] ELSE base[d]
    /\ \A p, q \in Pauses :
         Owed(p, d) /\ ~Unwritten(p, d) /\ Owed(q, d) /\ ~Unwritten(q, d) => p = q
    /\ mask[d] = base[d] \/ \E p \in Pauses : Owed(p, d) /\ ~Unwritten(p, d)

IInv ==
  /\ Types /\ Control /\ QueuedOnce /\ InOrder /\ SavesItsScope /\ EndsWell
  /\ SavedHasRearm /\ Kept

-----------------------------------------------------------------------------
(* Jobs and the queue. *)

LEMMA RunIs == \A k, c : Run(k, c).kind = k /\ Run(k, c).cmd = c
  BY DEF Run

LEMMA JobIs ==
  /\ \A c \in Commands : Run("command", c) \in Jobs
  /\ \A p \in Pauses : Run("rearm", p) \in Jobs
  /\ NoJob \notin Jobs /\ NoJob.kind = "none"
  /\ \A j \in Jobs : \/ \E c \in Commands : j = Run("command", c)
                     \/ \E p \in Pauses : j = Run("rearm", p)
  BY RunIs DEF Jobs, NoJob

\* A job is appended: it is queued, and the others as before.
LEMMA Appended ==
  ASSUME Types, QueuedOnce, NEW j \in Jobs, queue' = Append(queue, j),
         j.kind = "command" => ~Queued(j)
  PROVE  /\ queue' \in Seq(Jobs)
         /\ \A k : Queued(k)' <=> Queued(k) \/ k = j
         /\ \A i, k \in 1..Len(queue') :
              queue'[i] = queue'[k] /\ queue'[i].kind = "command" => i = k
<1>1. queue \in Seq(Jobs) /\ queue' \in Seq(Jobs)
  BY DEF Types
<1>2. /\ Len(queue) \in Nat /\ Len(queue') = Len(queue) + 1
      /\ \A i \in 1..Len(queue) : queue'[i] = queue[i]
      /\ queue'[Len(queue) + 1] = j
  BY <1>1
<1>3. \A k : Queued(k)' <=> Queued(k) \/ k = j
  BY <1>2 DEF Queued
<1>4. \A i, k \in 1..Len(queue') :
        queue'[i] = queue'[k] /\ queue'[i].kind = "command" => i = k
  BY <1>2 DEF Queued, QueuedOnce
<1> QED BY <1>1, <1>3, <1>4

\* The oldest job is taken: a command is then no longer queued, other jobs are.
LEMMA Taken ==
  ASSUME Types, QueuedOnce, NEW j, j = Head(queue), queue # <<>>, queue' = Tail(queue)
  PROVE  /\ queue' \in Seq(Jobs) /\ j \in Jobs /\ Queued(j)
         /\ \A k : Queued(k)' => Queued(k)
         /\ \A k : Queued(k) => Queued(k)' \/ k = j
         /\ j.kind = "command" => ~Queued(j)'
         /\ \A i, k \in 1..Len(queue') :
              queue'[i] = queue'[k] /\ queue'[i].kind = "command" => i = k
<1>1. queue \in Seq(Jobs) /\ queue' \in Seq(Jobs)
  BY DEF Types
<1>2. /\ Len(queue) \in Nat \ {0} /\ Len(queue') = Len(queue) - 1
      /\ \A i \in 1..Len(queue') : queue'[i] = queue[i + 1]
      /\ j = queue[1] /\ j \in Jobs
  BY <1>1
<1>3. \A k : Queued(k)' => Queued(k)
  BY <1>2 DEF Queued
<1>4. \A k : Queued(k) => Queued(k)' \/ k = j
  <2> SUFFICES ASSUME NEW k, Queued(k), k # j PROVE Queued(k)'
    OBVIOUS
  <2>1. PICK i \in 1..Len(queue) : queue[i] = k
    BY DEF Queued
  <2>2. i - 1 \in 1..Len(queue') /\ queue'[i - 1] = k
    BY <2>1, <1>2
  <2> QED BY <2>2 DEF Queued
<1>5. j.kind = "command" => ~Queued(j)'
  <2> SUFFICES ASSUME j.kind = "command", NEW i \in 1..Len(queue'),
                      queue'[i] = j
               PROVE  FALSE
    BY <1>1 DEF Queued
  <2> QED BY <1>2 DEF QueuedOnce
<1>6. \A i, k \in 1..Len(queue') :
        queue'[i] = queue'[k] /\ queue'[i].kind = "command" => i = k
  <2> SUFFICES ASSUME NEW i \in 1..Len(queue'), NEW k \in 1..Len(queue'),
                      queue'[i] = queue'[k], queue'[i].kind = "command"
               PROVE  i = k
    OBVIOUS
  <2>1. i + 1 \in 1..Len(queue) /\ k + 1 \in 1..Len(queue)
    BY <1>2
  <2>2. queue[i + 1] = queue[k + 1] /\ queue[i + 1].kind = "command"
    BY <1>2
  <2>3. i + 1 = k + 1
    BY <2>1, <2>2 DEF QueuedOnce
  <2> QED BY <2>3
<1>7. Queued(j)
  <2>1. 1 \in 1..Len(queue) /\ queue[1] = j
    BY <1>2
  <2> QED BY <2>1 DEF Queued
<1> QED BY <1>1, <1>2, <1>3, <1>4, <1>5, <1>6, <1>7

\* The queue is as it was.
LEMMA SameQueue ==
  ASSUME Types, QueuedOnce, queue' = queue
  PROVE  /\ queue' \in Seq(Jobs) /\ \A k : Queued(k)' <=> Queued(k)
         /\ \A i, k \in 1..Len(queue') :
              queue'[i] = queue'[k] /\ queue'[i].kind = "command" => i = k
  BY DEF Types, QueuedOnce, Queued

-----------------------------------------------------------------------------
(* Steps that neither write nor save a schedule. *)

\* Only cameras given up and jobs change: what is kept is as it was.
LEMMA KeptStays ==
  ASSUME Types, Kept, broken \subseteq broken', UNCHANGED <<mask, base, disturbed, saved, consumed>>,
         \A p \in Pauses, d \in Devices \ (broken' \cup disturbed) :
           Owed(p, d) => (Unwritten(p, d)' <=> Unwritten(p, d))
  PROVE  Kept'
  BY DEF Kept, Owed, Types

LEMMA SubmitIInv == ASSUME IInv, NEW c \in Commands, Submit(c) PROVE IInv'
<1> USE DEF nvrVars, rowVars, jobVars, redisVars, IInv
<1> DEFINE j == Run("command", c)
<1>0. j \in Jobs /\ ~Queued(j) /\ job # j
  BY JobIs DEF Submit, QueuedOnce
<1>1. /\ queue' \in Seq(Jobs)
      /\ \A k : Queued(k)' <=> Queued(k) \/ k = j
      /\ \A i, k \in 1..Len(queue') :
           queue'[i] = queue'[k] /\ queue'[i].kind = "command" => i = k
  <2>1. queue' = Append(queue, j) BY DEF Submit
  <2> QED BY <1>0, <2>1, Appended
<1>2. Types'
  BY <1>1 DEF Types, Submit
<1>3. Control'
  BY DEF Control, Submit
<1>4. QueuedOnce'
  BY <1>0, <1>1, RunIs DEF QueuedOnce, Submit
<1>5. InOrder'
  BY <1>0, <1>1, RunIs DEF InOrder, Submit, Rearmed
<1>6. SavesItsScope'
  BY DEF SavesItsScope, Submit
<1>7. EndsWell' /\ SavedHasRearm'
  BY <1>1 DEF EndsWell, SavedHasRearm, Submit, Owed
<1>8. Kept'
  BY KeptStays DEF Submit, Unwritten
<1> QED BY <1>2, <1>3, <1>4, <1>5, <1>6, <1>7, <1>8

LEMMA RearmDueIInv == ASSUME IInv, NEW p \in Pauses, RearmDue(p) PROVE IInv'
<1> USE DEF nvrVars, rowVars, jobVars, redisVars, IInv
<1> DEFINE j == Run("rearm", p)
<1>0. j \in Jobs /\ j.kind # "command"
  BY JobIs, RunIs
<1>1. /\ queue' \in Seq(Jobs)
      /\ \A k : Queued(k)' <=> Queued(k) \/ k = j
      /\ \A i, k \in 1..Len(queue') :
           queue'[i] = queue'[k] /\ queue'[i].kind = "command" => i = k
  <2>1. queue' = Append(queue, j) BY DEF RearmDue
  <2> QED BY <1>0, <2>1, Appended
<1>2. Types'
  BY <1>1 DEF Types, RearmDue
<1>3. Control'
  BY DEF Control, RearmDue
<1>4. QueuedOnce'
  BY <1>0, <1>1, RunIs DEF QueuedOnce, RearmDue
<1>5. InOrder'
  <2>1. \A q \in Pauses : Rearmed(q)' => Rearmed(q)
    BY <1>1, RunIs DEF RearmDue, Rearmed
  <2> QED BY <1>0, <1>1, <2>1, RunIs DEF InOrder, RearmDue
<1>6. SavesItsScope'
  BY DEF SavesItsScope, RearmDue
<1>7. EndsWell' /\ SavedHasRearm'
  BY <1>1, RunIs DEF EndsWell, SavedHasRearm, RearmDue, Owed
<1>8. Kept'
  BY KeptStays DEF RearmDue, Unwritten
<1> QED BY <1>2, <1>3, <1>4, <1>5, <1>6, <1>7, <1>8

LEMMA SetEnabledIInv == ASSUME IInv, NEW d \in Devices, SetEnabled(d) PROVE IInv'
<1> USE DEF nvrVars, rowVars, jobVars, redisVars, IInv
<1>1. /\ queue' \in Seq(Jobs) /\ \A k : Queued(k)' <=> Queued(k)
      /\ \A i, k \in 1..Len(queue') :
           queue'[i] = queue'[k] /\ queue'[i].kind = "command" => i = k
  BY SameQueue DEF SetEnabled
<1>2. Types'
  BY <1>1, PauseAssumption DEF Types, SetEnabled
<1>3. Control' /\ SavesItsScope'
  BY DEF Control, SavesItsScope, SetEnabled
<1>4. QueuedOnce'
  BY <1>1 DEF QueuedOnce, SetEnabled
<1>5. InOrder'
  BY <1>1 DEF InOrder, SetEnabled, Rearmed
<1>6. EndsWell' /\ SavedHasRearm'
  BY <1>1 DEF EndsWell, SavedHasRearm, SetEnabled, Owed
<1>7. Kept'
  BY KeptStays DEF SetEnabled, Unwritten
<1> QED BY <1>2, <1>3, <1>4, <1>5, <1>6, <1>7

LEMMA StartIInv == ASSUME IInv, Start PROVE IInv'
<1> USE DEF nvrVars, rowVars, jobVars, redisVars, IInv
<1> DEFINE j == Head(queue)
<1>1. /\ queue' \in Seq(Jobs) /\ j \in Jobs /\ Queued(j)
      /\ \A k : Queued(k)' => Queued(k)
      /\ \A k : Queued(k) => Queued(k)' \/ k = j
      /\ \A k : k = j /\ k.kind = "command" => ~Queued(k)'
      /\ \A i, k \in 1..Len(queue') :
           queue'[i] = queue'[k] /\ queue'[i].kind = "command" => i = k
  BY Taken DEF Start
<1>2. /\ job = NoJob /\ job' = j /\ todo' = scope' /\ scope' \subseteq Devices
      /\ UNCHANGED <<mask, base, disturbed, overruled, saved, consumed, enabled,
                     submitted, timers, broken, edits, cuts>>
  BY PauseAssumption DEF Start, Types
<1>3. \/ \E c \in Commands : j = Run("command", c)
                   /\ node' = IF c \in Pauses THEN "SaveBitmasks" ELSE "SetNotificationBitmasks"
      \/ \E p \in Pauses : j = Run("rearm", p) /\ node' = "RestoreBitmasks"
  BY <1>1, JobIs, RunIs DEF Start
<1>4. Types'
  BY <1>1, <1>2 DEF Types
<1>5. Control'
  BY <1>2, <1>3 DEF Control
<1>6. QueuedOnce'
  BY <1>1, <1>2, RunIs DEF QueuedOnce
<1>7. InOrder'
  BY <1>1, <1>2, <1>3, RunIs, JobIs DEF InOrder, Rearmed, QueuedOnce
<1>8. SavesItsScope'
  BY <1>1, <1>2, <1>3, RunIs DEF SavesItsScope, InOrder
<1>9. EndsWell' /\ SavedHasRearm'
  BY <1>1, <1>2, <1>3, RunIs, JobIs DEF EndsWell, SavedHasRearm, Owed
<1>10. Kept'
  BY <1>1, <1>2, RunIs, JobIs, KeptStays DEF Unwritten, InOrder, Owed
<1> QED BY <1>4, <1>5, <1>6, <1>7, <1>8, <1>9, <1>10

LEMMA SaveDoneIInv == ASSUME IInv, SaveDone PROVE IInv'
<1> USE DEF nvrVars, rowVars, jobVars, redisVars, IInv
<1>1. /\ queue' \in Seq(Jobs) /\ \A k : Queued(k)' <=> Queued(k)
      /\ \A i, k \in 1..Len(queue') :
           queue'[i] = queue'[k] /\ queue'[i].kind = "command" => i = k
  BY SameQueue DEF SaveDone
<1>2. PICK p \in Pauses : job = Run("command", p)
  BY DEF SaveDone, Control
<1>3. Types' /\ Control'
  BY <1>1, <1>2 DEF Types, Control, SaveDone, EnterNode, Commands
<1>4. QueuedOnce'
  BY <1>1 DEF QueuedOnce, SaveDone, EnterNode
<1>5. InOrder'
  BY <1>1 DEF InOrder, SaveDone, EnterNode, Rearmed
<1>6. SavesItsScope'
  BY DEF SavesItsScope, SaveDone, EnterNode
<1>7. EndsWell' /\ SavedHasRearm'
  BY <1>1 DEF EndsWell, SavedHasRearm, SaveDone, EnterNode, Owed
<1>8. Kept'
  <2>1. \A q \in Pauses, d \in Devices : Owed(q, d) => (Unwritten(q, d)' <=> Unwritten(q, d))
    BY <1>2, RunIs DEF SaveDone, EnterNode, Unwritten, SavesItsScope, Owed
  <2> QED BY <2>1, KeptStays DEF SaveDone
<1> QED BY <1>3, <1>4, <1>5, <1>6, <1>7, <1>8

LEMMA SetDoneIInv == ASSUME IInv, SetDone PROVE IInv'
<1> USE DEF nvrVars, rowVars, jobVars, redisVars, IInv
<1>1. /\ queue' \in Seq(Jobs) /\ \A k : Queued(k)' <=> Queued(k)
      /\ \A i, k \in 1..Len(queue') :
           queue'[i] = queue'[k] /\ queue'[i].kind = "command" => i = k
  BY SameQueue DEF SetDone
<1>2. PICK c \in Commands : job = Run("command", c) /\ job.cmd = c
  BY RunIs DEF SetDone, Control
<1>3. Types' /\ Control'
  BY <1>1, <1>2, JobIs DEF Types, Control, SetDone, EnterNode
<1>4. QueuedOnce'
  BY <1>1 DEF QueuedOnce, SetDone, EnterNode
<1>5. InOrder'
  BY <1>1 DEF InOrder, SetDone, EnterNode, Rearmed
<1>6. SavesItsScope'
  BY DEF SavesItsScope, SetDone, EnterNode
<1>7. EndsWell' /\ SavedHasRearm'
  <2>1. \A p \in Pauses : job' # Run("rearm", p)
    BY <1>2, RunIs DEF SetDone, EnterNode
  <2>2. ASSUME node' = "end", NEW p \in Pauses, job' = Run("command", p)
        PROVE  \A d \in Devices \ broken' : ~Owed(p, d)'
    <3>1. job = Run("command", p) /\ job.cmd = p /\ p \notin Fulls
      BY <2>2, RunIs, PauseAssumption DEF SetDone, EnterNode
    <3>2. broken' = broken \cup scope /\ saved' = saved
      BY <2>2, <3>1 DEF SetDone, EnterNode
    <3> QED BY <3>1, <3>2 DEF SavesItsScope, Owed
  <2>3. EndsWell'
    BY <2>1, <2>2 DEF EndsWell
  <2> QED BY <1>1, <2>3 DEF SavedHasRearm, SetDone, EnterNode, Owed
<1>8. Kept'
  BY KeptStays DEF SetDone, EnterNode, Unwritten
<1> QED BY <1>3, <1>4, <1>5, <1>6, <1>7, <1>8

LEMMA ScheduleReArmIInv == ASSUME IInv, ScheduleReArm PROVE IInv'
<1> USE DEF nvrVars, rowVars, jobVars, redisVars, IInv
<1>1. /\ queue' \in Seq(Jobs) /\ \A k : Queued(k)' <=> Queued(k)
      /\ \A i, k \in 1..Len(queue') :
           queue'[i] = queue'[k] /\ queue'[i].kind = "command" => i = k
  BY SameQueue DEF ScheduleReArm
<1>2. PICK p \in Pauses : job = Run("command", p) /\ job.cmd = p
  BY RunIs DEF ScheduleReArm, Control
<1>3. Types' /\ Control'
  <2>1. job # NoJob
    BY <1>2, RunIs DEF NoJob
  <2> QED BY <1>1, <1>2, <2>1 DEF Types, Control, ScheduleReArm, EnterNode
<1>4. QueuedOnce'
  BY <1>1 DEF QueuedOnce, ScheduleReArm, EnterNode
<1>5. InOrder'
  <2>1. \A q \in Pauses : Rearmed(q)' => Rearmed(q) \/ q = p
    BY <1>1, <1>2 DEF ScheduleReArm, EnterNode, Rearmed
  <2>2. p \in submitted /\ ~Queued(Run("command", p))
    BY <1>2 DEF QueuedOnce, Commands
  <2> QED BY <1>1, <1>2, <2>1, <2>2, RunIs DEF InOrder, ScheduleReArm, EnterNode
<1>6. SavesItsScope'
  BY DEF SavesItsScope, ScheduleReArm, EnterNode
<1>7. EndsWell' /\ SavedHasRearm'
  BY <1>1, <1>2, RunIs DEF EndsWell, SavedHasRearm, ScheduleReArm, EnterNode, Owed
<1>8. Kept'
  BY KeptStays DEF ScheduleReArm, EnterNode, Unwritten
<1> QED BY <1>3, <1>4, <1>5, <1>6, <1>7, <1>8

LEMMA RestoreDoneIInv == ASSUME IInv, RestoreDone PROVE IInv'
<1> USE DEF nvrVars, rowVars, jobVars, redisVars, IInv
<1>1. /\ queue' \in Seq(Jobs) /\ \A k : Queued(k)' <=> Queued(k)
      /\ \A i, k \in 1..Len(queue') :
           queue'[i] = queue'[k] /\ queue'[i].kind = "command" => i = k
  BY SameQueue DEF RestoreDone
<1>2. PICK p \in Pauses : job = Run("rearm", p) /\ job.cmd = p
  BY RunIs DEF RestoreDone, Control
<1>3. Types' /\ Control'
  BY <1>1, <1>2, JobIs DEF Types, Control, RestoreDone, EnterNode
<1>4. QueuedOnce'
  BY <1>1 DEF QueuedOnce, RestoreDone, EnterNode
<1>5. InOrder'
  BY <1>1 DEF InOrder, RestoreDone, EnterNode, Rearmed
<1>6. SavesItsScope'
  BY <1>2, RunIs DEF SavesItsScope, RestoreDone, EnterNode
<1>7. EndsWell' /\ SavedHasRearm'
  BY <1>1, <1>2, RunIs DEF EndsWell, SavedHasRearm, RestoreDone, EnterNode, Owed
<1>8. Kept'
  BY <1>2, RunIs, KeptStays DEF RestoreDone, EnterNode, Unwritten
<1> QED BY <1>3, <1>4, <1>5, <1>6, <1>7, <1>8

LEMMA EndIInv == ASSUME IInv, End PROVE IInv'
<1> USE DEF nvrVars, rowVars, jobVars, redisVars, IInv
<1>1. /\ queue' \in Seq(Jobs) /\ \A k : Queued(k)' <=> Queued(k)
      /\ \A i, k \in 1..Len(queue') :
           queue'[i] = queue'[k] /\ queue'[i].kind = "command" => i = k
  BY SameQueue DEF End
<1>2. \A k, c : k \in {"command", "rearm"} => job' # Run(k, c)
  BY RunIs DEF End, NoJob
<1>3. Types' /\ Control'
  BY <1>1 DEF Types, Control, End
<1>4. QueuedOnce'
  BY <1>1, <1>2 DEF QueuedOnce, End
<1>5. InOrder'
  BY <1>1, <1>2 DEF InOrder, End, Rearmed
<1>6. SavesItsScope' /\ EndsWell'
  BY <1>2 DEF SavesItsScope, EndsWell, End
<1>7. SavedHasRearm'
  BY <1>1, <1>2 DEF EndsWell, SavedHasRearm, End, Owed
<1>8. Kept'
  BY <1>2, KeptStays DEF End, Unwritten
<1> QED BY <1>3, <1>4, <1>5, <1>6, <1>7, <1>8

-----------------------------------------------------------------------------
(* Steps that save or write a schedule. *)

LEMMA SaveBitmasksIInv == ASSUME IInv, NEW d \in Devices, SaveBitmasks(d) PROVE IInv'
<1> USE DEF nvrVars, rowVars, jobVars, redisVars, IInv
<1>1. /\ queue' \in Seq(Jobs) /\ \A k : Queued(k)' <=> Queued(k)
      /\ \A i, k \in 1..Len(queue') :
           queue'[i] = queue'[k] /\ queue'[i].kind = "command" => i = k
  BY SameQueue DEF SaveBitmasks, Visit
<1>2. PICK p \in Pauses : job = Run("command", p) /\ job.cmd = p
  BY RunIs DEF SaveBitmasks, Visit, Control
<1>3. /\ node = "SaveBitmasks" /\ d \in todo /\ todo' = todo \ {d}
      /\ UNCHANGED <<enabled, submitted, queue, timers, job, node, scope, edits, cuts,
                     mask, base, disturbed, overruled, consumed>>
      /\ \/ saved' = [saved EXCEPT ![p][d] = mask[d]] /\ UNCHANGED broken
         \/ broken' = broken \cup {d} /\ UNCHANGED saved
  BY <1>2 DEF SaveBitmasks, Visit
<1>4. Types'
  <2>1. saved' \in [Pauses -> [Devices -> Masks \cup {"none"}]]
    BY <1>3 DEF Types
  <2> QED BY <1>1, <1>3, <2>1 DEF Types
<1>5. \A q \in Pauses, e \in Devices :
        \/ saved'[q][e] = saved[q][e]
        \/ q = p /\ e = d /\ saved'[q][e] = mask[d] /\ mask[d] # "none"
  BY <1>3 DEF Types, Masks
<1>6. d \in broken' \/ (saved'[p][d] = mask[d] /\ mask[d] # "none")
  BY <1>3 DEF Types, Masks
<1>7. Control' /\ QueuedOnce'
  BY <1>1, <1>3 DEF Control, QueuedOnce
<1>8. ~Rearmed(p) /\ p \in submitted /\ ~Queued(Run("command", p))
  BY <1>2, <1>3 DEF InOrder, QueuedOnce, Commands
<1>9. InOrder'
  <2>1. \A q \in Pauses : Rearmed(q)' <=> Rearmed(q)
    BY <1>1, <1>3 DEF Rearmed
  <2> QED BY <1>1, <1>3, <1>5, <1>8, <2>1 DEF InOrder
<1>10. SavesItsScope'
  BY <1>2, <1>3, <1>5, <1>6, RunIs DEF SavesItsScope, Types
<1>11. EndsWell' /\ SavedHasRearm'
  BY <1>1, <1>2, <1>3, <1>5 DEF EndsWell, SavedHasRearm, Owed
<1>12. Kept'
  <2>1. \A q \in Pauses, e \in Devices : (Unwritten(q, e)' <=> Unwritten(q, e)) /\ Unwritten(p, e)
    BY <1>2, <1>3 DEF Unwritten
  <2>2. \A q \in Pauses, e \in Devices : ~Unwritten(q, e) => (Owed(q, e)' <=> Owed(q, e))
    BY <1>3, <1>5, <2>1 DEF Owed
  <2>3. SUFFICES ASSUME NEW e \in Devices \ (broken' \cup disturbed')
                 PROVE  /\ \A q \in Pauses : Owed(q, e)' =>
                             saved'[q][e] = IF Unwritten(q, e)' THEN mask'[e] ELSE base'[e]
                        /\ \A q, r \in Pauses :
                             Owed(q, e)' /\ ~Unwritten(q, e)' /\ Owed(r, e)' /\ ~Unwritten(r, e)'
                               => q = r
                        /\ mask'[e] = base'[e] \/ \E q \in Pauses : Owed(q, e)' /\ ~Unwritten(q, e)'
    BY DEF Kept
  <2>4. e \in Devices \ (broken \cup disturbed)
    BY <1>3
  <2>5. \A q \in Pauses : Owed(q, e)' =>
          saved'[q][e] = IF Unwritten(q, e)' THEN mask'[e] ELSE base'[e]
    BY <1>3, <1>5, <2>1, <2>4 DEF Kept, Owed
  <2> QED BY <1>3, <2>1, <2>2, <2>4, <2>5 DEF Kept
<1> QED BY <1>4, <1>7, <1>9, <1>10, <1>11, <1>12

\* What a call on the NVR may change: the schedule of its camera, no other.
Touched(d) ==
  /\ mask' \in [Devices -> Masks] /\ disturbed \subseteq disturbed'
  /\ disturbed' \subseteq Devices /\ overruled' \subseteq Pauses \X Devices
  /\ \A e \in Devices \ {d} : mask'[e] = mask[e]

\* A call that reached the camera of a job with p's name left no other pause's schedule to
\* restore, unless the camera counts as disturbed.
LEMMA WrittenTouches ==
  ASSUME Types, NEW d \in Devices, NEW m \in Masks, Written(d, m)
  PROVE  /\ Touched(d) /\ mask'[d] = m
         /\ d \in disturbed' \/ \A q \in Pauses \ {job.cmd} : ~Owed(q, d)
  BY DEF Written, Touched, Types

LEMMA MaybeTouches ==
  ASSUME Types, NEW d \in Devices, NEW m \in Masks, MaybeWritten(d, m)
  PROVE  Touched(d) /\ UNCHANGED base
<1>1. CASE Written(d, m)
  BY <1>1, WrittenTouches DEF MaybeWritten
<1>2. CASE UNCHANGED <<mask, disturbed, overruled>>
  BY <1>2 DEF MaybeWritten, Touched, Types
<1> QED BY <1>1, <1>2 DEF MaybeWritten

\* What is kept of the cameras other than d, which the step visits.
LEMMA KeptOfOthers ==
  ASSUME Types, Kept, NEW d \in Devices, Touched(d), broken \subseteq broken',
         base' \in [Devices -> Masks], \A e \in Devices \ {d} : base'[e] = base[e],
         saved' = saved, \A p \in Pauses, e \in Devices \ {d} :
                           <<p, e>> \in consumed' <=> <<p, e>> \in consumed,
         \A p \in Pauses, e \in Devices \ {d} : Unwritten(p, e)' <=> Unwritten(p, e),
         d \in broken' \cup disturbed' \/
           /\ \A p \in Pauses : Owed(p, d)' => ~Unwritten(p, d)' /\ saved[p][d] = base'[d]
           /\ \A p, q \in Pauses : Owed(p, d)' /\ Owed(q, d)' => p = q
           /\ mask'[d] = base'[d] \/ \E p \in Pauses : Owed(p, d)'
  PROVE  Kept'
<1>1. SUFFICES ASSUME NEW e \in Devices \ (broken' \cup disturbed')
               PROVE  /\ \A q \in Pauses : Owed(q, e)' =>
                           saved'[q][e] = IF Unwritten(q, e)' THEN mask'[e] ELSE base'[e]
                      /\ \A q, r \in Pauses :
                           Owed(q, e)' /\ ~Unwritten(q, e)' /\ Owed(r, e)' /\ ~Unwritten(r, e)'
                             => q = r
                      /\ mask'[e] = base'[e] \/ \E q \in Pauses : Owed(q, e)' /\ ~Unwritten(q, e)'
  BY DEF Kept
<1>2. CASE e = d
  BY <1>2
<1>3. CASE e # d
  <2>1. e \in Devices \ (broken \cup disturbed)
    BY DEF Touched
  <2>2. \A q \in Pauses : Owed(q, e)' <=> Owed(q, e)
    BY <1>3 DEF Owed
  <2>3. mask'[e] = mask[e] /\ base'[e] = base[e]
    BY <1>3 DEF Touched
  <2> QED BY <1>3, <2>1, <2>2, <2>3 DEF Kept
<1> QED BY <1>2, <1>3

LEMMA SetNotificationBitmasksIInv ==
  ASSUME IInv, NEW d \in Devices, SetNotificationBitmasks(d) PROVE IInv'
<1> USE DEF nvrVars, rowVars, jobVars, redisVars, IInv
<1>1. /\ queue' \in Seq(Jobs) /\ \A k : Queued(k)' <=> Queued(k)
      /\ \A i, k \in 1..Len(queue') :
           queue'[i] = queue'[k] /\ queue'[i].kind = "command" => i = k
  BY SameQueue DEF SetNotificationBitmasks, Visit
<1>2. PICK c \in Commands : job = Run("command", c) /\ job.cmd = c
  BY RunIs DEF SetNotificationBitmasks, Visit, Control
<1> DEFINE m == IF c \in Fulls THEN ModeOf[c] ELSE "away"
<1>3. m \in Masks
  BY PauseAssumption DEF Masks
<1>4. /\ node = "SetNotificationBitmasks" /\ d \in todo /\ todo' = todo \ {d}
      /\ UNCHANGED <<enabled, submitted, queue, timers, job, node, scope, edits, cuts,
                     saved, consumed>>
  BY DEF SetNotificationBitmasks, Visit
<1>5. \/ /\ Written(d, m) /\ UNCHANGED broken
         /\ base' = IF c \in Fulls THEN [base EXCEPT ![d] = m] ELSE base
      \/ broken' = broken \cup {d} /\ MaybeWritten(d, m)
  BY <1>2 DEF SetNotificationBitmasks
<1>6. /\ Touched(d) /\ broken \subseteq broken' /\ broken' \subseteq Devices
      /\ base' \in [Devices -> Masks] /\ \A e \in Devices \ {d} : base'[e] = base[e]
  BY <1>3, <1>5, WrittenTouches, MaybeTouches DEF Types
<1>7. Types' /\ Control'
  BY <1>1, <1>4, <1>6 DEF Types, Touched, Control
<1>8. QueuedOnce'
  BY <1>1, <1>4 DEF QueuedOnce
<1>9. InOrder'
  BY <1>1, <1>4 DEF InOrder, Rearmed
<1>10. SavesItsScope'
  BY <1>4, <1>6 DEF SavesItsScope
<1>11. EndsWell' /\ SavedHasRearm'
  BY <1>1, <1>4, <1>6 DEF EndsWell, SavedHasRearm, Owed
<1>12. Kept'
  <2>1. /\ \A p \in Pauses, e \in Devices : Unwritten(p, e) <=> p = c /\ e \in todo
        /\ \A p \in Pauses : ~Unwritten(p, d)'
        /\ \A p \in Pauses, e \in Devices \ {d} : Unwritten(p, e)' <=> Unwritten(p, e)
    BY <1>2, <1>4, RunIs DEF Unwritten
  <2>2. \A p \in Pauses, e \in Devices : Owed(p, e)' <=> Owed(p, e)
    BY <1>4 DEF Owed
  <2>3. ASSUME d \notin broken' \cup disturbed'
        PROVE  /\ \A p \in Pauses : Owed(p, d) => saved[p][d] = base'[d] /\ p = c
               /\ mask'[d] = base'[d] \/ \E p \in Pauses : Owed(p, d)
    <3>1. /\ d \notin broken \cup disturbed /\ mask'[d] = m
          /\ base' = IF c \in Fulls THEN [base EXCEPT ![d] = m] ELSE base
      BY <1>3, <1>5, <2>3, WrittenTouches DEF Touched
    <3>2. \A q \in Pauses \ {c} : ~Owed(q, d)
      BY <1>2, <1>3, <1>5, <2>3, WrittenTouches
    <3>3. CASE c \in Fulls
      <4>1. base'[d] = m
        BY <3>1, <3>3 DEF Types
      <4> QED BY <3>1, <3>2, <3>3, <4>1, PauseAssumption
    <3>4. CASE c \in Pauses
      <4>1. base' = base
        BY <3>1, <3>4, PauseAssumption
      <4>2. mask[d] = base[d]
        BY <1>4, <2>1, <3>1, <3>2 DEF Kept
      <4>3. Owed(c, d)
        BY <1>2, <1>4, <3>1, <3>4 DEF SavesItsScope, InOrder, Owed, Rearmed
      <4>4. saved[c][d] = mask[d]
        BY <1>4, <2>1, <3>1, <3>4, <4>3 DEF Kept
      <4> QED BY <3>2, <3>4, <4>1, <4>2, <4>3, <4>4
    <3> QED BY <3>3, <3>4 DEF Commands
  <2> QED BY <1>4, <1>6, <2>1, <2>2, <2>3, KeptOfOthers
<1> QED BY <1>7, <1>8, <1>9, <1>10, <1>11, <1>12

LEMMA RestoreBitmasksIInv == ASSUME IInv, NEW d \in Devices, RestoreBitmasks(d) PROVE IInv'
<1> USE DEF nvrVars, rowVars, jobVars, redisVars, IInv
<1>1. /\ queue' \in Seq(Jobs) /\ \A k : Queued(k)' <=> Queued(k)
      /\ \A i, k \in 1..Len(queue') :
           queue'[i] = queue'[k] /\ queue'[i].kind = "command" => i = k
  BY SameQueue DEF RestoreBitmasks, Visit
<1>2. PICK p \in Pauses : job = Run("rearm", p) /\ job.cmd = p
  BY RunIs DEF RestoreBitmasks, Visit, Control
<1> DEFINE m == saved[p][d]
<1>3. Owed(p, d) => m \in Masks
  BY DEF Owed, Types
<1>4. /\ node = "RestoreBitmasks" /\ d \in todo /\ todo' = todo \ {d}
      /\ UNCHANGED <<enabled, submitted, queue, timers, job, node, scope, edits, cuts, saved>>
  BY DEF RestoreBitmasks, Visit
<1>5. \/ ~Owed(p, d) /\ UNCHANGED <<mask, base, disturbed, overruled, consumed, broken>>
      \/ /\ Owed(p, d) /\ Written(d, m) /\ consumed' = consumed \cup {<<p, d>>}
         /\ UNCHANGED <<base, broken>>
      \/ /\ Owed(p, d) /\ MaybeWritten(d, m) /\ UNCHANGED consumed
         /\ broken' = broken \cup {d}
  BY <1>2 DEF RestoreBitmasks
<1>6. /\ Touched(d) /\ broken \subseteq broken' /\ broken' \subseteq Devices /\ base' = base
      /\ consumed \subseteq consumed' /\ consumed' \subseteq consumed \cup {<<p, d>>}
  <2>1. UNCHANGED <<mask, disturbed, overruled>> => Touched(d)
    BY DEF Touched, Types
  <2> QED BY <1>3, <1>5, <2>1, WrittenTouches, MaybeTouches DEF Types
<1>7. Types' /\ Control'
  BY <1>1, <1>4, <1>6 DEF Types, Touched, Control
<1>8. QueuedOnce'
  BY <1>1, <1>4 DEF QueuedOnce
<1>9. \A q \in Pauses : Rearmed(q)' <=> Rearmed(q)
  BY <1>1, <1>2, <1>4, <1>6 DEF Rearmed
<1>10. InOrder'
  BY <1>1, <1>4, <1>9 DEF InOrder
<1>11. SavesItsScope' /\ EndsWell'
  BY <1>2, <1>4, RunIs DEF SavesItsScope, EndsWell
<1>12. SavedHasRearm'
  BY <1>1, <1>4, <1>6 DEF SavedHasRearm, Owed
<1>13. Kept'
  <2>1. \A q \in Pauses, e \in Devices : ~Unwritten(q, e) /\ ~Unwritten(q, e)'
    BY <1>4 DEF Unwritten
  <2>2. \A q \in Pauses, e \in Devices : <<q, e>> # <<p, d>> => (Owed(q, e)' <=> Owed(q, e))
    BY <1>4, <1>6 DEF Owed
  <2>3. CASE ~Owed(p, d)
    BY <1>4, <1>5, <2>1, <2>3, KeptStays
  <2>4. CASE Owed(p, d)
    <3>1. ASSUME d \notin broken' \cup disturbed'
          PROVE  mask'[d] = base[d] /\ \A q \in Pauses : ~Owed(q, d)'
      <4>1. /\ d \notin broken \cup disturbed /\ Written(d, m)
            /\ consumed' = consumed \cup {<<p, d>>}
        BY <1>5, <1>6, <2>4, <3>1 DEF Touched
      <4>2. mask'[d] = m /\ \A q \in Pauses \ {p} : ~Owed(q, d)
        BY <1>2, <1>3, <2>4, <3>1, <4>1, WrittenTouches
      <4>3. m = base[d]
        BY <2>1, <2>4, <4>1 DEF Kept
      <4>4. ~Owed(p, d)'
        BY <4>1 DEF Owed
      <4> QED BY <2>2, <4>2, <4>3, <4>4
    <3>2. \A q \in Pauses, e \in Devices \ {d} : <<q, e>> \in consumed' <=> <<q, e>> \in consumed
      BY <1>6
    <3> QED BY <1>4, <1>6, <2>1, <3>1, <3>2, KeptOfOthers DEF Types
  <2> QED BY <2>3, <2>4
<1> QED BY <1>7, <1>8, <1>10, <1>11, <1>12, <1>13

-----------------------------------------------------------------------------
(* A job that is cut off. *)

\* The call in flight has reached a camera of the job's or none; what a re-arm writes to a
\* camera that only it owes a schedule is the one that is owed.
LEMMA CutWrites ==
  ASSUME IInv, Cut
  PROVE  /\ mask' \in [Devices -> Masks] /\ base' = base
         /\ disturbed \subseteq disturbed' /\ disturbed' \subseteq Devices
         /\ overruled' \subseteq Pauses \X Devices
         /\ \A e \in Devices \ scope : mask'[e] = mask[e]
         /\ \A p \in Pauses : job = Run("rearm", p) =>
              \A e \in Devices \ disturbed' :
                \/ mask'[e] = mask[e]
                \/ Owed(p, e) /\ mask'[e] = saved[p][e]
<1> USE DEF nvrVars, IInv
<1>1. CASE UNCHANGED nvrVars
  BY <1>1 DEF Types
<1>2. ASSUME NEW d \in todo, node = "SetNotificationBitmasks",
             MaybeWritten(d, IF job.cmd \in Fulls THEN ModeOf[job.cmd] ELSE "away")
      PROVE  /\ Touched(d) /\ d \in scope /\ UNCHANGED base
             /\ \A p \in Pauses : job # Run("rearm", p)
  <2>1. (IF job.cmd \in Fulls THEN ModeOf[job.cmd] ELSE "away") \in Masks /\ d \in Devices
    BY PauseAssumption DEF Masks, Types
  <2>2. Touched(d) /\ UNCHANGED base
    BY <1>2, <2>1, MaybeTouches
  <2>3. \A p \in Pauses : job # Run("rearm", p)
    BY <1>2, RunIs DEF Control
  <2> QED BY <2>2, <2>3 DEF Types
<1>3. ASSUME NEW d \in todo, node = "RestoreBitmasks", Owed(job.cmd, d),
             MaybeWritten(d, saved[job.cmd][d])
      PROVE  /\ Touched(d) /\ d \in scope /\ UNCHANGED base
             /\ mask'[d] = mask[d] \/ mask'[d] = saved[job.cmd][d]
  <2>1. PICK p \in Pauses : job = Run("rearm", p) /\ job.cmd = p
    BY <1>3, RunIs DEF Control
  <2>2. saved[job.cmd][d] \in Masks /\ d \in Devices
    BY <1>3, <2>1 DEF Types, Owed
  <2>3. Touched(d) /\ UNCHANGED base
    BY <1>3, <2>2, MaybeTouches
  <2>4. mask'[d] = mask[d] \/ mask'[d] = saved[job.cmd][d]
    BY <1>3, <2>2, WrittenTouches DEF MaybeWritten
  <2> QED BY <2>3, <2>4 DEF Types
<1>4. CASE \E d \in todo :
             /\ node = "SetNotificationBitmasks"
             /\ MaybeWritten(d, IF job.cmd \in Fulls THEN ModeOf[job.cmd] ELSE "away")
  BY <1>2, <1>4 DEF Touched
<1>5. CASE \E d \in todo : /\ node = "RestoreBitmasks" /\ Owed(job.cmd, d)
                           /\ MaybeWritten(d, saved[job.cmd][d])
  BY <1>3, <1>5, RunIs DEF Touched
<1> QED BY <1>1, <1>4, <1>5 DEF Cut

\* The job is gone; it kept its command or its re-arm from what is saved and owed.
LEMMA CutEnds ==
  ASSUME IInv, Cut
  PROVE  /\ job' = NoJob /\ node' = "idle" /\ todo' = {} /\ scope' = {}
         /\ UNCHANGED <<enabled, saved, consumed, submitted, timers, edits>> /\ cuts' \in Nat
         /\ \A k, c : k \in {"command", "rearm"} => job' # Run(k, c)
         /\ Control' /\ SavesItsScope' /\ EndsWell'
         /\ \A p \in Pauses, e \in Devices : ~Unwritten(p, e)'
         /\ \A p \in Pauses, e \in Devices : Owed(p, e) /\ Unwritten(p, e) => e \in scope
<1>1. /\ job' = NoJob /\ node' = "idle" /\ todo' = {} /\ scope' = {}
      /\ UNCHANGED <<enabled, saved, consumed, submitted, timers, edits>>
  BY DEF Cut, rowVars
<1>2. cuts' \in Nat
  BY DEF Cut, IInv, Types
<1>3. \A k, c : k \in {"command", "rearm"} => job' # Run(k, c)
  BY <1>1, RunIs DEF NoJob
<1>4. Control' /\ SavesItsScope' /\ EndsWell' /\ \A p \in Pauses, e \in Devices : ~Unwritten(p, e)'
  BY <1>1, <1>3 DEF Control, SavesItsScope, EndsWell, Unwritten
<1>5. \A p \in Pauses, e \in Devices : Owed(p, e) /\ Unwritten(p, e) => e \in scope
  BY DEF Owed, Unwritten, SavesItsScope, IInv
<1> QED BY <1>1, <1>2, <1>3, <1>4, <1>5

\* A job that is given up gives up its cameras and, if it is a pause's, those it owes.
LEMMA GivenUpKept ==
  ASSUME IInv, Cut, broken \cup scope \subseteq broken'
  PROVE  Kept'
<1>1. SUFFICES ASSUME NEW e \in Devices \ (broken' \cup disturbed')
               PROVE  /\ \A q \in Pauses : Owed(q, e)' =>
                           saved'[q][e] = IF Unwritten(q, e)' THEN mask'[e] ELSE base'[e]
                      /\ \A q, r \in Pauses :
                           Owed(q, e)' /\ ~Unwritten(q, e)' /\ Owed(r, e)' /\ ~Unwritten(r, e)'
                             => q = r
                      /\ mask'[e] = base'[e] \/ \E q \in Pauses : Owed(q, e)' /\ ~Unwritten(q, e)'
  BY DEF Kept
<1>2. e \in Devices \ (broken \cup disturbed) /\ e \notin scope
  BY CutWrites
<1>3. mask'[e] = mask[e] /\ base' = base /\ saved' = saved
  BY <1>2, CutWrites, CutEnds
<1>4. \A q \in Pauses : (Owed(q, e)' <=> Owed(q, e)) /\ ~Unwritten(q, e)'
                        /\ (Owed(q, e) => ~Unwritten(q, e))
  BY <1>2, CutEnds DEF Owed
<1> QED BY <1>2, <1>3, <1>4 DEF Kept, IInv

LEMMA CutOffIInv == ASSUME IInv, CutOff PROVE IInv'
<1> USE DEF IInv
<1>0. Cut /\ node # "end" /\ job # NoJob /\ queue' = queue
      /\ broken' = broken \cup scope \cup {d \in Devices : job.cmd \in Pauses /\ Owed(job.cmd, d)}
  BY DEF CutOff, Cut
<1>1. /\ queue' \in Seq(Jobs) /\ \A k : Queued(k)' <=> Queued(k)
      /\ \A i, k \in 1..Len(queue') :
           queue'[i] = queue'[k] /\ queue'[i].kind = "command" => i = k
  BY <1>0, SameQueue
<1>2. Types'
  BY <1>0, <1>1, CutWrites, CutEnds DEF Types
<1>3. QueuedOnce'
  BY <1>0, <1>1, CutEnds DEF QueuedOnce
<1>4. InOrder'
  BY <1>0, <1>1, CutEnds DEF InOrder, Rearmed
<1>5. SavedHasRearm'
  BY <1>0, <1>1, CutEnds, RunIs DEF SavedHasRearm, Owed
<1>6. Kept'
  BY <1>0, GivenUpKept
<1> QED BY <1>0, <1>2, <1>3, <1>4, <1>5, <1>6, CutEnds

LEMMA ShutDownIInv == ASSUME IInv, ShutDown PROVE IInv'
<1> USE DEF IInv
<1>0. Cut /\ node # "end" /\ job # NoJob
  BY DEF ShutDown, Cut
<1>1. CASE job.kind = "rearm"
  <2>1. PICK p \in Pauses : job = Run("rearm", p) /\ job \in Jobs
    BY <1>0, <1>1, JobIs, RunIs DEF Types
  <2>2. queue' = Append(queue, Run("rearm", p)) /\ broken' = broken
    BY <1>1, <2>1 DEF ShutDown
  <2>3. /\ queue' \in Seq(Jobs)
        /\ \A k : Queued(k)' <=> Queued(k) \/ k = Run("rearm", p)
        /\ \A i, k \in 1..Len(queue') :
             queue'[i] = queue'[k] /\ queue'[i].kind = "command" => i = k
    BY <2>1, <2>2, RunIs, Appended
  <2>4. Types'
    BY <1>0, <2>2, <2>3, CutWrites, CutEnds DEF Types
  <2>5. QueuedOnce'
    BY <1>0, <2>3, CutEnds, RunIs DEF QueuedOnce
  <2>6. InOrder'
    <3>1. \A q \in Pauses : Rearmed(q)' => Rearmed(q)
      BY <1>0, <2>1, <2>3, CutEnds, RunIs DEF Rearmed
    <3> QED BY <1>0, <2>3, <3>1, CutEnds, RunIs DEF InOrder
  <2>7. SavedHasRearm'
    BY <1>0, <2>1, <2>2, <2>3, CutEnds, RunIs DEF SavedHasRearm, Owed
  <2>8. Kept'
    <3>1. SUFFICES ASSUME NEW e \in Devices \ (broken' \cup disturbed')
                   PROVE  /\ \A q \in Pauses : Owed(q, e)' => saved'[q][e] = base'[e]
                          /\ \A q, r \in Pauses : Owed(q, e)' /\ Owed(r, e)' => q = r
                          /\ mask'[e] = base'[e] \/ \E q \in Pauses : Owed(q, e)'
      BY <1>0, CutEnds DEF Kept
    <3>2. e \in Devices \ (broken \cup disturbed) /\ base' = base /\ saved' = saved
      BY <1>0, <2>2, CutWrites, CutEnds
    <3>3. \A q \in Pauses : (Owed(q, e)' <=> Owed(q, e)) /\ ~Unwritten(q, e)
      BY <1>0, <2>1, RunIs, CutEnds DEF Owed, Unwritten
    <3>4. mask'[e] = mask[e] \/ Owed(p, e)
      BY <1>0, <2>1, CutWrites
    <3> QED BY <3>2, <3>3, <3>4 DEF Kept
  <2> QED BY <2>4, <2>5, <2>6, <2>7, <2>8, <1>0, CutEnds
<1>2. CASE job.kind # "rearm"
  <2>1. PICK c \in Commands : job = Run("command", c)
    BY <1>0, <1>2, JobIs, RunIs DEF Types
  <2>2. queue' = queue /\ broken' = broken \cup scope
    BY <1>2 DEF ShutDown
  <2>3. /\ queue' \in Seq(Jobs) /\ \A k : Queued(k)' <=> Queued(k)
        /\ \A i, k \in 1..Len(queue') :
             queue'[i] = queue'[k] /\ queue'[i].kind = "command" => i = k
    BY <2>2, SameQueue
  <2>4. Types'
    BY <1>0, <2>2, <2>3, CutWrites, CutEnds DEF Types
  <2>5. QueuedOnce'
    BY <1>0, <2>3, CutEnds DEF QueuedOnce
  <2>6. InOrder'
    <3>1. \A q \in Pauses : Rearmed(q)' => Rearmed(q)
      BY <1>0, <2>3, CutEnds DEF Rearmed
    <3> QED BY <1>0, <2>3, <3>1, CutEnds DEF InOrder
  <2>7. SavedHasRearm'
    <3>1. \A p \in Pauses, d \in Devices : job = Run("command", p) /\ Owed(p, d) => d \in scope
      BY DEF SavesItsScope, Owed
    <3> QED BY <1>0, <2>1, <2>2, <2>3, <3>1, CutEnds, RunIs DEF SavedHasRearm, Owed
  <2>8. Kept'
    BY <1>0, <2>2, GivenUpKept
  <2> QED BY <2>4, <2>5, <2>6, <2>7, <2>8, <1>0, CutEnds
<1> QED BY <1>1, <1>2

-----------------------------------------------------------------------------
(* The theorems. *)

LEMMA InitIInv == Init => IInv
<1> SUFFICES ASSUME Init PROVE IInv
  OBVIOUS
<1> USE DEF Init
<1>1. \A k : ~Queued(k)
  BY DEF Queued
<1>2. \A k, c : k \in {"command", "rearm"} => job # Run(k, c)
  BY RunIs DEF NoJob
<1>3. \A p \in Pauses, d \in Devices : saved[p][d] = "none" /\ ~Owed(p, d)
  BY DEF Owed
<1>4. Types
  BY PauseAssumption DEF Types
<1>5. Control /\ QueuedOnce
  BY <1>1, <1>2 DEF Control, QueuedOnce
<1>6. InOrder /\ SavesItsScope /\ EndsWell
  BY <1>1, <1>2, <1>3 DEF InOrder, Rearmed, SavesItsScope, EndsWell
<1>7. SavedHasRearm /\ Kept
  BY <1>3 DEF SavedHasRearm, Kept
<1> QED BY <1>4, <1>5, <1>6, <1>7 DEF IInv

LEMMA StutterIInv == ASSUME IInv, UNCHANGED vars PROVE IInv'
<1> USE DEF vars, nvrVars, rowVars, jobVars, redisVars
<1>1. \A k : Queued(k)' <=> Queued(k)
  BY DEF Queued
<1>2. \A p \in Pauses, d \in Devices : /\ Owed(p, d)' <=> Owed(p, d)
                                       /\ Unwritten(p, d)' <=> Unwritten(p, d)
  BY DEF Owed, Unwritten
<1>3. \A p \in Pauses : Rearmed(p)' <=> Rearmed(p)
  BY <1>1 DEF Rearmed
<1>4. Types' /\ Control' /\ QueuedOnce' /\ InOrder' /\ SavesItsScope'
  BY <1>1, <1>3 DEF IInv, Types, Control, QueuedOnce, InOrder, SavesItsScope
<1>5. EndsWell' /\ SavedHasRearm' /\ Kept'
  BY <1>1, <1>2 DEF IInv, EndsWell, SavedHasRearm, Kept
<1> QED BY <1>4, <1>5 DEF IInv

\* The invariant holds of every state, whatever is submitted, enabled, cut off or shut down.
THEOREM Invariance == Spec => []IInv
<1>1. IInv /\ [Next]_vars => IInv'
  BY SubmitIInv, RearmDueIInv, SetEnabledIInv, StartIInv, SaveDoneIInv, SetDoneIInv,
     ScheduleReArmIInv, RestoreDoneIInv, EndIInv, SaveBitmasksIInv,
     SetNotificationBitmasksIInv, RestoreBitmasksIInv, CutOffIInv, ShutDownIInv, StutterIInv
     DEF Next
<1> QED BY <1>1, InitIInv, PTL DEF Spec

\* A saved schedule has a re-arm to come or a failure that explains why not: the timer of
\* ScheduleReArmNode, the job in the queue, or the running job.
THEOREM SavedIsOwed == Spec => []SavedHasRearm
<1>1. IInv => SavedHasRearm
  BY DEF IInv
<1> QED BY <1>1, Invariance, PTL

\* When nothing is queued, scheduled or running, the cameras have the schedule of the last
\* Set Home or Set Away, whatever pauses came after.
THEOREM PauseUndone == Spec => []PauseIsUndone
<1>1. IInv => PauseIsUndone
  <2> SUFFICES ASSUME IInv, Quiet, NEW d \in Devices \ (broken \cup disturbed)
               PROVE  mask[d] = base[d]
    BY DEF PauseIsUndone
  <2>1. \A p \in Pauses : ~Owed(p, d)
    <3>1. \A k : ~Queued(k)
      BY DEF Quiet, Queued
    <3>2. \A k, c : k \in {"command", "rearm"} => job # Run(k, c)
      BY RunIs DEF Quiet, NoJob
    <3> QED BY <3>1, <3>2 DEF IInv, SavedHasRearm, Quiet
  <2> QED BY <2>1 DEF IInv, Kept
<1> QED BY <1>1, Invariance, PTL

\* No step of a re-arm writes a camera it has restored before.
THEOREM OnlyOnce == Spec => RestoredOnce
<1> DEFINE Restores == \A p \in Pauses, d \in Devices :
                         <<p, d>> \in consumed /\ job = Run("rearm", p) => mask'[d] = mask[d]
<1>1. ASSUME IInv, Next PROVE Restores
  <2> SUFFICES ASSUME NEW p \in Pauses, NEW d \in Devices,
                      <<p, d>> \in consumed, job = Run("rearm", p)
               PROVE  mask'[d] = mask[d]
    OBVIOUS
  <2> USE DEF nvrVars, rowVars, jobVars, redisVars
  <2>1. ~Owed(p, d) /\ node # "SetNotificationBitmasks" /\ node # "SaveBitmasks"
    BY <1>1, RunIs DEF Owed, IInv, Control
  <2>2. ASSUME NEW e \in Devices, RestoreBitmasks(e) PROVE mask'[d] = mask[d]
    <3>1. CASE Owed(p, e)
      <4>1. e # d /\ saved[p][e] \in Masks
        BY <1>1, <2>1, <3>1 DEF Owed, IInv, Types
      <4>2. Written(e, saved[p][e]) \/ MaybeWritten(e, saved[p][e])
        BY <2>2, <3>1, RunIs DEF RestoreBitmasks
      <4>3. Touched(e)
        BY <1>1, <4>1, <4>2, WrittenTouches, MaybeTouches DEF IInv
      <4> QED BY <4>1, <4>3 DEF Touched
    <3>2. CASE ~Owed(p, e)
      BY <2>2, <3>2, RunIs DEF RestoreBitmasks
    <3> QED BY <3>1, <3>2
  <2>3. ASSUME Cut PROVE mask'[d] = mask[d]
    <3>1. ASSUME NEW e \in todo, Owed(p, e), MaybeWritten(e, saved[p][e])
          PROVE  mask'[d] = mask[d]
      <4>1. e # d /\ e \in Devices /\ saved[p][e] \in Masks
        BY <1>1, <2>1, <3>1 DEF Owed, IInv, Types
      <4>2. Touched(e)
        BY <1>1, <3>1, <4>1, MaybeTouches DEF IInv
      <4> QED BY <4>1, <4>2 DEF Touched
    <3>2. job.cmd = p
      BY RunIs
    <3> QED BY <2>1, <2>3, <3>1, <3>2 DEF Cut
  <2>4. CASE \E e \in Devices : SetEnabled(e) \/ SaveBitmasks(e) \/ SetNotificationBitmasks(e)
    BY <2>1, <2>4 DEF SetEnabled, SaveBitmasks, SetNotificationBitmasks, Visit
  <2>5. CASE (\E c \in Commands : Submit(c)) \/ (\E q \in Pauses : RearmDue(q)) \/ Start
    BY <2>5 DEF Submit, RearmDue, Start
  <2>6. CASE SaveDone \/ SetDone \/ ScheduleReArm \/ RestoreDone \/ End
    BY <2>6 DEF SaveDone, SetDone, ScheduleReArm, RestoreDone, End
  <2>7. CASE CutOff \/ ShutDown
    BY <2>3, <2>7 DEF CutOff, ShutDown
  <2> QED BY <1>1, <2>2, <2>4, <2>5, <2>6, <2>7 DEF Next
<1>2. IInv /\ [Next]_vars => [Restores]_vars
  BY <1>1
<1> QED BY <1>2, Invariance, PTL DEF Spec, RestoredOnce
=============================================================================
