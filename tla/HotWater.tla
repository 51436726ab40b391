------------------------------ MODULE HotWater ------------------------------
(***************************************************************************)
(* The hot-water plugin: the pump behind a Sonoff switch, the turn-off     *)
(* jobs, and the plugin's timer_state row (services service.py and         *)
(* jobs.py of the plugin, plugins/data.py).                                *)
(*                                                                         *)
(* Requests are coroutines; each action goes from one await to the next.   *)
(* A start's job has the start's name.  External, as the code expects it:  *)
(* queue.job finds a job by the id that the row keeps.  The worker, whom   *)
(* commands keep busy, may run a job long after it was due.                *)
(***************************************************************************)
EXTENDS Naturals, FiniteSets

CONSTANTS
  Starts, Cancels, Polls,  \* requests to /start, /cancel and /status
  Faulty,                  \* calls that may raise: "turn_on", "turn_off", "queue"
  MaxCuts                  \* bound: shutdowns and crashes

ASSUME HotWaterAssumption ==
  /\ Starts \cap Cancels = {} /\ Starts \cap Polls = {} /\ Cancels \cap Polls = {}
  /\ "none" \notin Starts
  /\ Faulty \subseteq {"turn_on", "turn_off", "queue"} /\ MaxCuts \in Nat

VARIABLES
  pump,     \* the switch
  row,      \* timer_state: the start whose job it names, or "none"
  job,      \* the turn-off job of each start
  pc, seen, \* each request: where it is, and the row it has read
  latest,   \* history: the start that set the last timer
  owner,    \* history: the start that turned the pump on last
  broken,   \* history, since the last timer was set: a start broke off before it had one
  stuck,    \* history, since then: a job's turn_off failed, or was lost in a crash
  crossed,  \* history, since then: a start and a cancel were under way at once
  crowded,  \* history: the starts that were under way beside another
  missed,   \* history: starts whose job a later one could not drop: the row did not name
            \* it, or it was running
  cuts

historyVars == <<latest, owner, broken, stuck, crossed, crowded, missed>>
vars == <<pump, row, job, pc, seen, historyVars, cuts>>

Requests == Starts \cup Cancels \cup Polls
Pending == {"scheduled", "queued", "active"}

Init ==
  /\ pump = FALSE /\ row = "none"
  /\ job = [s \in Starts |-> "none"]
  /\ pc = [r \in Requests |-> "new"] /\ seen = [r \in Requests |-> "none"]
  /\ latest = "none" /\ owner = "none"
  /\ broken = FALSE /\ stuck = FALSE /\ crossed = FALSE
  /\ crowded = {} /\ missed = {} /\ cuts = 0

UnderWay(r) == pc[r] \notin {"new", "done"}
Idle == \A r \in Requests : ~UnderWay(r)

-----------------------------------------------------------------------------
(* Steps the requests share. *)

Goto(r, from, to) == pc[r] = from /\ pc' = [pc EXCEPT ![r] = to]

\* get_plugin_value
Read(r) == seen' = [seen EXCEPT ![r] = row]

\* queue.abort: a waiting job is dropped, a running one is cancelled.
Abort(s) ==
  job' = [job EXCEPT ![s] = CASE @ \in {"scheduled", "queued"} -> "aborted"
                              [] @ = "active" -> "aborting"
                              [] OTHER -> @]

Raises(call) == call \in Faulty

-----------------------------------------------------------------------------
(* start_hot_water. *)

StartRead(s) ==
  /\ Read(s)
  /\ Goto(s, "new", IF row = "none" THEN "on" ELSE "abort")
  /\ crowded' = LET beside == {t \in Starts : UnderWay(t)}
                IN IF beside = {} THEN crowded ELSE crowded \cup beside \cup {s}
  /\ crossed' = (crossed \/ \E c \in Cancels : UnderWay(c))
  /\ missed' = missed \cup {t \in Starts : job[t] \in Pending \cup {"aborting"} /\ row # t}
  /\ UNCHANGED <<pump, row, job, latest, owner, broken, stuck, cuts>>

StartAbortNot(s) ==  \* mutant: the earlier job is left
  /\ Goto(s, "abort", "on")
  /\ UNCHANGED <<pump, row, job, seen, historyVars, cuts>>

\* A call of the queue that raises may have had its effect.
StartAbort(s) ==
  /\ \/ Goto(s, "abort", "on") /\ Abort(seen[s]) /\ UNCHANGED broken
     \/ /\ Raises("queue") /\ Goto(s, "abort", "done") /\ broken' = TRUE
        /\ Abort(seen[s]) \/ UNCHANGED job
  /\ missed' = missed \cup {t \in Starts : t = seen[s] /\ job[t] \in {"active", "aborting"}}
  /\ UNCHANGED <<pump, row, seen, latest, owner, stuck, crossed, crowded, cuts>>

StartTurnOn(s) ==
  /\ \/ pump' = TRUE /\ Goto(s, "on", "enqueue") /\ UNCHANGED broken
     \/ /\ Raises("turn_on") /\ Goto(s, "on", "done") /\ broken' = TRUE
        /\ pump' \in {pump, TRUE}
  /\ owner' = s
  /\ UNCHANGED <<row, job, seen, latest, stuck, crossed, crowded, missed, cuts>>

StartNoTimer(s) ==  \* mutant: the turn-off is not enqueued
  /\ Goto(s, "enqueue", "store")
  /\ latest' = s /\ broken' = FALSE /\ stuck' = FALSE
  /\ crossed' = \E c \in Cancels : UnderWay(c)
  /\ UNCHANGED <<pump, row, job, seen, owner, crowded, missed, cuts>>

StartEnqueue(s) ==
  /\ \/ /\ Goto(s, "enqueue", "store")
        /\ job' = [job EXCEPT ![s] = "scheduled"] /\ latest' = s
        /\ broken' = FALSE /\ stuck' = FALSE /\ crossed' = \E c \in Cancels : UnderWay(c)
     \/ /\ Raises("queue") /\ Goto(s, "enqueue", "done") /\ broken' = TRUE
        /\ \/ UNCHANGED <<job, latest>>
           \/ job' = [job EXCEPT ![s] = "scheduled"] /\ latest' = s
        /\ UNCHANGED <<stuck, crossed>>
  /\ UNCHANGED <<pump, row, seen, owner, crowded, missed, cuts>>

\* set_plugin_value reads the row ...
StartStore(s) ==
  /\ Goto(s, "store", "save")
  /\ Read(s)
  /\ UNCHANGED <<pump, row, job, historyVars, cuts>>

StartSaveOnce(s) ==  \* mutant: an existing row is kept
  /\ Goto(s, "save", "done")
  /\ row' = IF row = "none" THEN s ELSE row
  /\ UNCHANGED <<pump, job, seen, historyVars, cuts>>

\* ... and creates it (refused when another request has done so: it is unique) or updates
\* it (without effect when it was deleted).
StartSave(s) ==
  /\ Goto(s, "save", "done")
  /\ row' = IF (seen[s] = "none") = (row = "none") THEN s ELSE row
  /\ UNCHANGED <<pump, job, seen, historyVars, cuts>>

Start(s) == \/ StartRead(s) \/ StartAbort(s) \/ StartTurnOn(s) \/ StartEnqueue(s)
            \/ StartStore(s) \/ StartSave(s)

-----------------------------------------------------------------------------
(* cancel_hot_water. *)

\* The request is over when the switch does not answer; it may have switched.
CancelTurnOff(c) ==
  /\ \/ pump' = FALSE /\ Goto(c, "new", "read")
     \/ Raises("turn_off") /\ pump' \in {pump, FALSE} /\ Goto(c, "new", "done")
  /\ crossed' = (crossed \/ \E s \in Starts : UnderWay(s))
  /\ UNCHANGED <<row, job, seen, latest, owner, broken, stuck, crowded, missed, cuts>>

CancelRead(c) ==
  /\ Goto(c, "read", IF row = "none" THEN "done" ELSE "abort")
  /\ Read(c)
  /\ UNCHANGED <<pump, row, job, historyVars, cuts>>

CancelAbort(c) ==
  /\ \/ Goto(c, "abort", "delete") /\ Abort(seen[c])
     \/ Raises("queue") /\ Goto(c, "abort", "done") /\ (Abort(seen[c]) \/ UNCHANGED job)
  /\ UNCHANGED <<pump, row, seen, historyVars, cuts>>

CancelDelete(c) ==
  /\ Goto(c, "delete", "done")
  /\ row' = "none"
  /\ UNCHANGED <<pump, job, seen, historyVars, cuts>>

Cancel(c) == CancelTurnOff(c) \/ CancelRead(c) \/ CancelAbort(c) \/ CancelDelete(c)

-----------------------------------------------------------------------------
(* get_status: a timer whose end_time is past is deleted, after the device *)
(* was asked.                                                              *)

PollRead(p) ==
  /\ row # "none" /\ job[row] # "scheduled"
  /\ Goto(p, "new", "delete")
  /\ Read(p)
  /\ UNCHANGED <<pump, row, job, historyVars, cuts>>

PollDelete(p) ==
  /\ Goto(p, "delete", "done")
  /\ row' = "none"
  /\ UNCHANGED <<pump, job, seen, historyVars, cuts>>

Poll(p) == PollRead(p) \/ PollDelete(p)

-----------------------------------------------------------------------------
(* turn_off_hot_water, a job of the worker that also runs the commands. *)

Due(s) ==
  /\ job[s] = "scheduled"
  /\ job' = [job EXCEPT ![s] = "queued"]
  /\ UNCHANGED <<pump, row, pc, seen, historyVars, cuts>>

Run(s) ==
  /\ job[s] = "queued" /\ \A t \in Starts : job[t] \notin {"active", "aborting", "cleanup"}
  /\ job' = [job EXCEPT ![s] = "active"]
  /\ UNCHANGED <<pump, row, pc, seen, historyVars, cuts>>

JobTurnOffNever(s) ==  \* mutant: the state is cleared without the call
  /\ job[s] = "active"
  /\ job' = [job EXCEPT ![s] = "cleanup"]
  /\ UNCHANGED <<pump, row, pc, seen, historyVars, cuts>>

\* The exception of the call is swallowed.
JobTurnOff(s) ==
  /\ job[s] = "active"
  /\ job' = [job EXCEPT ![s] = "cleanup"]
  /\ \/ pump' = FALSE /\ UNCHANGED stuck
     \/ Raises("turn_off") /\ pump' \in {pump, FALSE} /\ stuck' = TRUE
  /\ UNCHANGED <<row, pc, seen, latest, owner, broken, crossed, crowded, missed, cuts>>

\* An aborted job is cancelled in its call, which may have taken effect.
JobCancelled(s) ==
  /\ job[s] = "aborting"
  /\ job' = [job EXCEPT ![s] = "cleanup"]
  /\ pump' \in {pump, FALSE}
  /\ UNCHANGED <<row, pc, seen, historyVars, cuts>>

\* The finally deletes whatever row there is.
JobCleanup(s) ==
  /\ job[s] = "cleanup"
  /\ job' = [job EXCEPT ![s] = "done"]
  /\ row' = "none"
  /\ UNCHANGED <<pump, pc, seen, historyVars, cuts>>

\* A shutdown cancels the job and puts it back; its finally runs, too.
ShutDown(s) ==
  /\ job[s] = "active" /\ cuts < MaxCuts /\ cuts' = cuts + 1
  /\ job' = [job EXCEPT ![s] = "queued"]
  /\ row' = "none"
  /\ pump' \in {pump, FALSE}
  /\ UNCHANGED <<pc, seen, historyVars>>

\* The process ends, with the requests and the job it runs, which is not tried again; a
\* call under way may have its effect.
Crash ==
  LET lost    == {s \in Starts : job[s] \in {"active", "aborting", "cleanup"}}
      stopped == {s \in Starts : pc[s] \in {"on", "enqueue", "store", "save"}}
  IN
  /\ cuts < MaxCuts /\ cuts' = cuts + 1
  /\ pc' = [r \in Requests |-> IF UnderWay(r) THEN "done" ELSE pc[r]]
  /\ job' = [s \in Starts |-> IF s \in lost THEN "done" ELSE job[s]]
  /\ broken' = (broken \/ stopped # {})
  /\ stuck' = (stuck \/ \E s \in lost : job[s] = "active")
  /\ \/ UNCHANGED pump
     \/ pump' = FALSE /\ \E s \in lost : job[s] \in {"active", "aborting"}
     \/ pump' = TRUE /\ \E s \in stopped : pc[s] = "on"
  /\ UNCHANGED <<row, seen, latest, owner, crossed, crowded, missed>>

-----------------------------------------------------------------------------
RequestStep ==
  (\E s \in Starts : Start(s)) \/ (\E c \in Cancels : Cancel(c)) \/ (\E p \in Polls : Poll(p))

JobStep(s) == Due(s) \/ Run(s) \/ JobTurnOff(s) \/ JobCancelled(s) \/ JobCleanup(s)

Next == RequestStep \/ (\E s \in Starts : JobStep(s) \/ ShutDown(s)) \/ Crash

Spec == Init /\ [][Next]_vars

\* A request that has begun goes on, the clock runs and the worker works.
FairSpec ==
  /\ Spec
  /\ WF_vars(RequestStep /\ ~Idle)
  /\ \A s \in Starts : WF_vars(JobStep(s))

-----------------------------------------------------------------------------
(* Properties. *)

\* The type invariant.
TypeOK ==
  /\ pump \in BOOLEAN /\ row \in Starts \cup {"none"} /\ latest \in Starts \cup {"none"}
  /\ job \in [Starts -> Pending \cup {"none", "aborted", "aborting", "cleanup", "done"}]
  /\ pc \in [Requests -> {"new", "abort", "on", "enqueue", "store", "save", "read", "delete",
                          "done"}]
  /\ seen \in [Requests -> Starts \cup {"none"}]
  /\ owner \in Starts \cup {"none"} /\ crowded \subseteq Starts /\ missed \subseteq Starts
  /\ {broken, stuck, crossed} \subseteq BOOLEAN /\ cuts \in Nat

Timed == \E s \in Starts : job[s] \in Pending

\* Whoever started the pump, a job is there to stop it once no request is under way, but
\* after a mishap that lasts until the next start has set a timer: a start that broke off
\* (turn_on or the queue failed, or the process ended), a turn-off that failed, or a cancel
\* beside a start, which may abort the new timer of a pump that is turned on again.
PumpTimed == Idle /\ pump => Timed \/ broken \/ stuck \/ crossed

\* The countdown the dashboard shows is that of the last timer set, never an older one: but
\* for starts that were under way at once, whose rows may be saved in the other order, and
\* a start that broke off before it saved its own.
RowIsLatest == Idle /\ row # "none" => row = latest \/ row \in crowded \/ broken

\* The pump does not run for ever, with the exceptions of PumpTimed.
PumpGoesOff == pump ~> ~pump \/ broken \/ stuck \/ crossed

\* No earlier timer - neither its job, nor one that is aborted or shut down in its call -
\* stops a pump that a later start turned on, unless the later start could not drop it: the
\* two were under way at once, the job was running already, or it waited past its time and
\* a status poll or another job had deleted the row.
OnlyLatestTurnsOff ==
  [][\A s \in Starts : (JobTurnOff(s) \/ JobCancelled(s) \/ ShutDown(s)) /\ pump /\ ~pump'
       => s = owner \/ s \in crowded \cup missed]_vars
=============================================================================
