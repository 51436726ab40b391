--------------------------- MODULE HotWaterProofs ---------------------------
(***************************************************************************)
(* The hot-water pump is stopped, by the right timer, and the dashboard    *)
(* shows the right countdown, for any starts, cancels and polls, however   *)
(* they interleave: the invariants PumpTimed and RowIsLatest and the       *)
(* action property OnlyLatestTurnsOff of HotWater.                         *)
(*                                                                         *)
(* The argument: between the abort of an old timer and the enqueueing of   *)
(* the new one the start itself stands for the timer (PumpInv), while a    *)
(* cancel is under way the pump is off (CancelInv), and a start that is    *)
(* under way alone (OneStart) finds the row and the jobs as the last one   *)
(* left them (RowInv, JobInv).                                             *)
(***************************************************************************)
EXTENDS HotWater, TLAPS

PumpInv ==
  pump /\ ~broken /\ ~stuck /\ ~crossed =>
    Timed \/ \E s \in Starts : pc[s] \in {"on", "enqueue"}

CancelInv ==
  ~crossed => \A c \in Cancels : UnderWay(c) => ~pump /\ \A s \in Starts : ~UnderWay(s)

OneStart == \A s, t \in Starts : UnderWay(s) /\ UnderWay(t) => s = t \/ (s \in crowded /\ t \in crowded)

RowInv ==
  /\ row # "none" => \/ row = latest \/ row \in crowded \/ broken
                     \/ \E s \in Starts : pc[s] \in {"store", "save"}
  /\ \A s \in Starts :
       /\ pc[s] \in {"store", "save"} => latest = s \/ s \in crowded
       /\ pc[s] = "save" /\ seen[s] = "none" => row \in crowded \cup {"none"}

\* A job that may still stop the pump is of the start that turned it on, and the start that
\* is to turn it on next is about to abort the job.
JobInv ==
  \A t \in Starts :
    /\ pc[t] \in {"new", "abort", "on", "enqueue"} => job[t] = "none"
    /\ pc[t] \in {"enqueue", "store", "save"} => owner = t \/ t \in crowded
    /\ job[t] \in Pending \cup {"aborting"} /\ t \notin crowded \cup missed =>
         /\ t = owner
         /\ \A s \in Starts : pc[s] # "on" /\ (pc[s] = "abort" => seen[s] = t)

IInv == TypeOK /\ PumpInv /\ CancelInv /\ OneStart /\ RowInv /\ JobInv

-----------------------------------------------------------------------------
(* One lemma per part of the invariant, one step per action. *)

\* A request goes on, the others stay where they are.
LEMMA Goes ==
  ASSUME TypeOK, NEW r \in Requests, NEW from, NEW to, Goto(r, from, to)
  PROVE  /\ pc[r] = from
         /\ \A q \in Requests : pc'[q] = IF q = r THEN to ELSE pc[q]
  BY DEF Goto, TypeOK

\* An aborted job will not run; the others are as they were.
LEMMA Aborts ==
  ASSUME TypeOK, NEW s, Abort(s) \/ UNCHANGED job
  PROVE  /\ job' \in [Starts -> Pending \cup {"none", "aborted", "aborting", "cleanup", "done"}]
         /\ \A t \in Starts : t # s \/ job[t] = "none" => job'[t] = job[t]
         /\ \A t \in Starts : job'[t] \in Pending => job[t] \in Pending
         /\ \A t \in Starts : job'[t] = "aborting" => job[t] \in {"active", "aborting"}
         /\ Abort(s) => \A t \in Starts : job'[t] \in Pending => t # s
  BY DEF Abort, TypeOK, Pending

\* A start drops the job it has read of, or is over.
LEMMA Drops ==
  ASSUME TypeOK, NEW s \in Starts, StartAbort(s)
  PROVE  /\ pc[s] = "abort" /\ \A q \in Requests : q # s => pc'[q] = pc[q]
         /\ \/ pc'[s] = "on" /\ Abort(seen[s]) /\ broken' = broken
            \/ pc'[s] = "done" /\ broken' /\ (Abort(seen[s]) \/ UNCHANGED job)
         /\ UNCHANGED <<pump, row, seen, latest, owner, stuck, crossed, crowded>>
         /\ missed' = missed \cup {t \in Starts : t = seen[s] /\ job[t] \in {"active", "aborting"}}
<1>1. pc \in [Requests -> {"new", "abort", "on", "enqueue", "store", "save", "read", "delete",
                           "done"}] /\ s \in Requests
  BY DEF TypeOK, Requests
<1>2. /\ UNCHANGED <<pump, row, seen, latest, owner, stuck, crossed, crowded>>
      /\ missed' = missed \cup {t \in Starts : t = seen[s] /\ job[t] \in {"active", "aborting"}}
  BY DEF StartAbort
<1>3. CASE Goto(s, "abort", "on") /\ Abort(seen[s]) /\ UNCHANGED broken
  BY <1>1, <1>2, <1>3 DEF Goto
<1>4. CASE Goto(s, "abort", "done") /\ broken' = TRUE /\ (Abort(seen[s]) \/ UNCHANGED job)
  BY <1>1, <1>2, <1>4 DEF Goto
<1> QED BY <1>3, <1>4 DEF StartAbort

\* turn_on works, or the start is over.
LEMMA TurnsOn ==
  ASSUME TypeOK, NEW s \in Starts, StartTurnOn(s)
  PROVE  /\ pc[s] = "on" /\ \A q \in Requests : q # s => pc'[q] = pc[q]
         /\ (pc'[s] = "enqueue" /\ broken' = broken) \/ (pc'[s] = "done" /\ broken')
         /\ owner' = s /\ UNCHANGED <<row, job, seen, latest, stuck, crossed, crowded, missed>>
<1>1. pc \in [Requests -> {"new", "abort", "on", "enqueue", "store", "save", "read", "delete",
                           "done"}] /\ s \in Requests
  BY DEF TypeOK, Requests
<1>2. owner' = s /\ UNCHANGED <<row, job, seen, latest, stuck, crossed, crowded, missed>>
  BY DEF StartTurnOn
<1>3. CASE Goto(s, "on", "enqueue") /\ UNCHANGED broken
  BY <1>1, <1>2, <1>3 DEF Goto
<1>4. CASE Goto(s, "on", "done") /\ broken' = TRUE
  BY <1>1, <1>2, <1>4 DEF Goto
<1> QED BY <1>3, <1>4 DEF StartTurnOn

\* The turn-off is enqueued, or the start is over.
LEMMA Enqueues ==
  ASSUME TypeOK, NEW s \in Starts, StartEnqueue(s)
  PROVE  /\ pc[s] = "enqueue" /\ \A q \in Requests : q # s => pc'[q] = pc[q]
         /\ \A t \in Starts : t # s => job'[t] = job[t]
         /\ \/ /\ pc'[s] = "store" /\ job'[s] = "scheduled" /\ latest' = s
               /\ ~broken' /\ ~stuck' /\ crossed' = \E c \in Cancels : UnderWay(c)
            \/ /\ pc'[s] = "done" /\ broken' /\ UNCHANGED <<stuck, crossed>>
               /\ latest' \in {latest, s} /\ job'[s] \in {job[s], "scheduled"}
         /\ UNCHANGED <<pump, row, seen, owner, crowded, missed>>
<1>1. /\ pc \in [Requests -> {"new", "abort", "on", "enqueue", "store", "save", "read", "delete",
                           "done"}] /\ s \in Requests
      /\ job \in [Starts -> Pending \cup {"none", "aborted", "aborting", "cleanup", "done"}]
  BY DEF TypeOK, Requests
<1>2. UNCHANGED <<pump, row, seen, owner, crowded, missed>>
  BY DEF StartEnqueue
<1>3. CASE /\ Goto(s, "enqueue", "store")
           /\ job' = [job EXCEPT ![s] = "scheduled"] /\ latest' = s
           /\ broken' = FALSE /\ stuck' = FALSE /\ crossed' = \E c \in Cancels : UnderWay(c)
  <2>1. pc[s] = "enqueue" /\ pc'[s] = "store" /\ \A q \in Requests : q # s => pc'[q] = pc[q]
    BY <1>1, <1>3 DEF Goto
  <2>2. job'[s] = "scheduled" /\ \A t \in Starts : t # s => job'[t] = job[t]
    BY <1>1, <1>3
  <2> QED BY <1>2, <1>3, <2>1, <2>2
<1>4. CASE /\ Goto(s, "enqueue", "done") /\ broken' = TRUE
           /\ \/ UNCHANGED <<job, latest>>
              \/ job' = [job EXCEPT ![s] = "scheduled"] /\ latest' = s
           /\ UNCHANGED <<stuck, crossed>>
  <2>1. pc[s] = "enqueue" /\ pc'[s] = "done" /\ \A q \in Requests : q # s => pc'[q] = pc[q]
    BY <1>1, <1>4 DEF Goto
  <2>2. /\ \A t \in Starts : t # s => job'[t] = job[t]
        /\ latest' \in {latest, s} /\ job'[s] \in {job[s], "scheduled"}
    BY <1>1, <1>4
  <2> QED BY <1>2, <1>4, <2>1, <2>2
<1> QED BY <1>3, <1>4 DEF StartEnqueue

\* turn_off works, or the cancel is over.
LEMMA TurnsOff ==
  ASSUME TypeOK, NEW c \in Cancels, CancelTurnOff(c)
  PROVE  /\ pc[c] = "new" /\ \A q \in Requests : q # c => pc'[q] = pc[q]
         /\ pump' => pump
         /\ (pc'[c] = "read" /\ ~pump') \/ pc'[c] = "done"
         /\ crossed' = (crossed \/ \E s \in Starts : UnderWay(s))
         /\ UNCHANGED <<row, job, seen, latest, owner, broken, stuck, crowded, missed>>
<1>1. pc \in [Requests -> {"new", "abort", "on", "enqueue", "store", "save", "read", "delete",
                           "done"}] /\ c \in Requests
  BY DEF TypeOK, Requests
<1>2. /\ crossed' = (crossed \/ \E s \in Starts : UnderWay(s))
      /\ UNCHANGED <<row, job, seen, latest, owner, broken, stuck, crowded, missed>>
  BY DEF CancelTurnOff
<1>3. CASE pump' = FALSE /\ Goto(c, "new", "read")
  BY <1>1, <1>2, <1>3 DEF Goto
<1>4. CASE Goto(c, "new", "done") /\ pump' \in {pump, FALSE}
  <2>1. pump' => pump
    BY <1>4, Zenon
  <2> QED BY <1>1, <1>2, <1>4, <2>1 DEF Goto
<1> QED BY <1>3, <1>4 DEF CancelTurnOff

\* A cancel drops the job it has read of, and may be over then.
LEMMA Retracts ==
  ASSUME TypeOK, NEW c \in Cancels, CancelAbort(c)
  PROVE  /\ pc[c] = "abort" /\ \A q \in Requests : q # c => pc'[q] = pc[q]
         /\ pc'[c] \in {"delete", "done"}
         /\ Abort(seen[c]) \/ UNCHANGED job
         /\ UNCHANGED <<pump, row, seen, historyVars, cuts>>
<1>1. pc \in [Requests -> {"new", "abort", "on", "enqueue", "store", "save", "read", "delete",
                           "done"}] /\ c \in Requests
  BY DEF TypeOK, Requests
<1>2. UNCHANGED <<pump, row, seen, historyVars, cuts>>
  BY DEF CancelAbort
<1>3. CASE Goto(c, "abort", "delete") /\ Abort(seen[c])
  BY <1>1, <1>2, <1>3 DEF Goto
<1>4. CASE Goto(c, "abort", "done") /\ (Abort(seen[c]) \/ UNCHANGED job)
  BY <1>1, <1>2, <1>4 DEF Goto
<1> QED BY <1>3, <1>4 DEF CancelAbort

\* The process ends: a start that was to set a timer broke off, a job that ran is lost.
LEMMA Crashes ==
  ASSUME TypeOK, Crash
  PROVE  /\ \A r \in Requests : pc'[r] = IF UnderWay(r) THEN "done" ELSE pc[r]
         /\ \A s \in Starts :
              /\ job'[s] # job[s] => /\ job[s] \in {"active", "aborting", "cleanup"}
                                     /\ job'[s] = "done" /\ (job[s] = "active" => stuck')
              /\ job'[s] \notin {"active", "aborting"}
              /\ pc[s] \in {"on", "enqueue", "store", "save"} => broken'
         /\ broken => broken'
         /\ stuck => stuck'
         /\ pump' => pump \/ broken'
         /\ UNCHANGED <<row, seen, latest, owner, crossed, crowded, missed>>
<1>1. pc \in [Requests -> {"new", "abort", "on", "enqueue", "store", "save", "read", "delete",
                           "done"}] /\ Starts \subseteq Requests
  BY DEF TypeOK, Requests
<1>2. job \in [Starts -> Pending \cup {"none", "aborted", "aborting", "cleanup", "done"}]
  BY DEF TypeOK
<1>3. \A r \in Requests : pc'[r] = IF UnderWay(r) THEN "done" ELSE pc[r]
  BY <1>1 DEF Crash
<1>4. /\ \A s \in Starts : /\ job'[s] # job[s] => /\ job[s] \in {"active", "aborting", "cleanup"}
                                                  /\ job'[s] = "done" /\ (job[s] = "active" => stuck')
                           /\ job'[s] \notin {"active", "aborting"}
      /\ stuck => stuck'
  BY <1>2 DEF Crash, Pending
<1>5. /\ \A s \in Starts : pc[s] \in {"on", "enqueue", "store", "save"} => broken'
      /\ broken => broken'
  BY DEF Crash
<1>7. pump' => pump \/ broken'
  BY DEF Crash
<1>6. UNCHANGED <<row, seen, latest, owner, crossed, crowded, missed>>
  BY DEF Crash
<1> QED BY <1>3, <1>4, <1>5, <1>6, <1>7

\* A request is a start, a cancel or a poll.
LEMMA Kinds ==
  /\ Starts \subseteq Requests /\ Cancels \subseteq Requests /\ Polls \subseteq Requests
  /\ \A s \in Starts : s \notin Cancels \cup Polls /\ s # "none"
  /\ \A c \in Cancels : c \notin Polls
  BY HotWaterAssumption DEF Requests

\* The types.
LEMMA TypeOKStep == ASSUME IInv, Next PROVE TypeOK'
<1> USE Kinds DEF IInv, TypeOK, Pending, historyVars
<1>1. ASSUME NEW s \in Starts, StartRead(s) PROVE TypeOK'
  BY <1>1 DEF StartRead, Goto, Read
<1>2. ASSUME NEW s \in Starts, StartAbort(s) PROVE TypeOK'
  <2>1. job' \in [Starts -> Pending \cup {"none", "aborted", "aborting", "cleanup", "done"}]
    BY <1>2, Drops, Aborts
  <2>2. pc' \in [Requests -> {"new", "abort", "on", "enqueue", "store", "save", "read", "delete",
                              "done"}] /\ broken' \in BOOLEAN
    BY <1>2 DEF StartAbort, Goto
  <2>3. missed' \subseteq Starts /\ UNCHANGED <<pump, row, seen, latest, owner, stuck, crossed, crowded, cuts>>
    BY <1>2 DEF StartAbort
  <2> QED BY <2>1, <2>2, <2>3
<1>3. ASSUME NEW s \in Starts, StartTurnOn(s) PROVE TypeOK'
  BY <1>3 DEF StartTurnOn, Goto, Read
<1>4. ASSUME NEW s \in Starts, StartEnqueue(s) PROVE TypeOK'
  BY <1>4 DEF StartEnqueue, Goto, Read
<1>5. ASSUME NEW s \in Starts, StartStore(s) PROVE TypeOK'
  BY <1>5 DEF StartStore, Goto, Read
<1>6. ASSUME NEW s \in Starts, StartSave(s) PROVE TypeOK'
  BY <1>6 DEF StartSave, Goto, Read
<1>7. ASSUME NEW c \in Cancels, CancelTurnOff(c) PROVE TypeOK'
  BY <1>7 DEF CancelTurnOff, Goto, Read
<1>8. ASSUME NEW c \in Cancels, CancelRead(c) PROVE TypeOK'
  BY <1>8 DEF CancelRead, Goto, Read
<1>9. ASSUME NEW c \in Cancels, CancelAbort(c) PROVE TypeOK'
  BY <1>9, Aborts DEF CancelAbort, Goto, Read
<1>10. ASSUME NEW c \in Cancels, CancelDelete(c) PROVE TypeOK'
  BY <1>10 DEF CancelDelete, Goto, Read
<1>11. ASSUME NEW p \in Polls, PollRead(p) PROVE TypeOK'
  BY <1>11 DEF PollRead, Goto, Read
<1>12. ASSUME NEW p \in Polls, PollDelete(p) PROVE TypeOK'
  BY <1>12 DEF PollDelete, Goto, Read
<1>13. ASSUME NEW s \in Starts, Due(s) PROVE TypeOK'
  BY <1>13 DEF Due, Goto, Read
<1>14. ASSUME NEW s \in Starts, Run(s) PROVE TypeOK'
  BY <1>14 DEF Run, Goto, Read
<1>15. ASSUME NEW s \in Starts, JobTurnOff(s) PROVE TypeOK'
  BY <1>15 DEF JobTurnOff, Goto, Read
<1>16. ASSUME NEW s \in Starts, JobCancelled(s) PROVE TypeOK'
  BY <1>16 DEF JobCancelled, Goto, Read
<1>17. ASSUME NEW s \in Starts, JobCleanup(s) PROVE TypeOK'
  BY <1>17 DEF JobCleanup, Goto, Read
<1>18. ASSUME NEW s \in Starts, ShutDown(s) PROVE TypeOK'
  <2>1. pump' \in {pump, FALSE} /\ cuts' = cuts + 1 /\ pump \in BOOLEAN /\ cuts \in Nat
    BY <1>18 DEF ShutDown
  <2>2. job' \in [Starts -> Pending \cup {"none", "aborted", "aborting", "cleanup", "done"}]
    BY <1>18 DEF ShutDown
  <2>3. pump' \in BOOLEAN
    BY <2>1, Zenon
  <2>4. cuts' \in Nat
    BY <2>1
  <2> QED BY <1>18, <2>2, <2>3, <2>4 DEF ShutDown
<1>19. ASSUME Crash PROVE TypeOK'
  <2>1. cuts' \in Nat /\ UNCHANGED <<row, seen, latest, owner, crossed, crowded, missed>>
    BY <1>19 DEF Crash
  <2>2. job' \in [Starts -> Pending \cup {"none", "aborted", "aborting", "cleanup", "done"}]
    BY <1>19 DEF Crash
  <2>3. pc' \in [Requests -> {"new", "abort", "on", "enqueue", "store", "save", "read", "delete",
                              "done"}]
    BY <1>19 DEF Crash, UnderWay
  <2>4. broken' \in BOOLEAN /\ stuck' \in BOOLEAN
    BY <1>19 DEF Crash
  <2>5. pump' \in BOOLEAN
    BY <1>19 DEF Crash
  <2> QED BY <2>1, <2>2, <2>3, <2>4, <2>5
<1> QED BY <1>1, <1>2, <1>3, <1>4, <1>5, <1>6, <1>7, <1>8, <1>9, <1>10, <1>11, <1>12, <1>13, <1>14, <1>15, <1>16, <1>17, <1>18, <1>19
     DEF Next, RequestStep, Start, Cancel, Poll, JobStep

\* Nothing takes the timer of a running pump, but a start that sets another.
LEMMA PumpInvStep == ASSUME IInv, Next PROVE PumpInv'
<1> USE Kinds DEF IInv, TypeOK, Pending, historyVars, PumpInv, Timed, CancelInv, UnderWay
<1>1. ASSUME NEW s \in Starts, StartRead(s) PROVE PumpInv'
  BY <1>1, Goes DEF StartRead, Read
<1>2. ASSUME NEW s \in Starts, StartAbort(s) PROVE PumpInv'
  BY <1>2, Drops, Aborts
<1>3. ASSUME NEW s \in Starts, StartTurnOn(s) PROVE PumpInv'
  BY <1>3, TurnsOn
<1>4. ASSUME NEW s \in Starts, StartEnqueue(s) PROVE PumpInv'
  BY <1>4, Enqueues
<1>5. ASSUME NEW s \in Starts, StartStore(s) PROVE PumpInv'
  BY <1>5, Goes DEF StartStore, Read
<1>6. ASSUME NEW s \in Starts, StartSave(s) PROVE PumpInv'
  BY <1>6, Goes DEF StartSave
<1>7. ASSUME NEW c \in Cancels, CancelTurnOff(c) PROVE PumpInv'
  BY <1>7, TurnsOff
<1>8. ASSUME NEW c \in Cancels, CancelRead(c) PROVE PumpInv'
  BY <1>8, Goes DEF CancelRead, Read
<1>9. ASSUME NEW c \in Cancels, CancelAbort(c) PROVE PumpInv'
  BY <1>9, Retracts, Aborts
<1>10. ASSUME NEW c \in Cancels, CancelDelete(c) PROVE PumpInv'
  BY <1>10, Goes DEF CancelDelete
<1>11. ASSUME NEW p \in Polls, PollRead(p) PROVE PumpInv'
  BY <1>11, Goes DEF PollRead, Read
<1>12. ASSUME NEW p \in Polls, PollDelete(p) PROVE PumpInv'
  BY <1>12, Goes DEF PollDelete
<1>13. ASSUME NEW s \in Starts, Due(s) PROVE PumpInv'
  BY <1>13 DEF Due
<1>14. ASSUME NEW s \in Starts, Run(s) PROVE PumpInv'
  BY <1>14 DEF Run
<1>15. ASSUME NEW s \in Starts, JobTurnOff(s) PROVE PumpInv'
  BY <1>15 DEF JobTurnOff
<1>16. ASSUME NEW s \in Starts, JobCancelled(s) PROVE PumpInv'
  BY <1>16 DEF JobCancelled
<1>17. ASSUME NEW s \in Starts, JobCleanup(s) PROVE PumpInv'
  BY <1>17 DEF JobCleanup
<1>18. ASSUME NEW s \in Starts, ShutDown(s) PROVE PumpInv'
  BY <1>18 DEF ShutDown
<1>19. ASSUME Crash PROVE PumpInv'
  BY <1>19, Crashes
<1> QED BY <1>1, <1>2, <1>3, <1>4, <1>5, <1>6, <1>7, <1>8, <1>9, <1>10, <1>11, <1>12, <1>13, <1>14, <1>15, <1>16, <1>17, <1>18, <1>19
     DEF Next, RequestStep, Start, Cancel, Poll, JobStep

\* While a cancel is under way nobody turns the pump on, or a start crosses it.
LEMMA CancelInvStep == ASSUME IInv, Next PROVE CancelInv'
<1> USE Kinds DEF IInv, TypeOK, Pending, historyVars, CancelInv, PumpInv, UnderWay
<1>1. ASSUME NEW s \in Starts, StartRead(s) PROVE CancelInv'
  BY <1>1, Goes DEF StartRead, Read
<1>2. ASSUME NEW s \in Starts, StartAbort(s) PROVE CancelInv'
  BY <1>2, Drops, Aborts
<1>3. ASSUME NEW s \in Starts, StartTurnOn(s) PROVE CancelInv'
  BY <1>3, TurnsOn
<1>4. ASSUME NEW s \in Starts, StartEnqueue(s) PROVE CancelInv'
  BY <1>4, Enqueues
<1>5. ASSUME NEW s \in Starts, StartStore(s) PROVE CancelInv'
  BY <1>5, Goes DEF StartStore, Read
<1>6. ASSUME NEW s \in Starts, StartSave(s) PROVE CancelInv'
  BY <1>6, Goes DEF StartSave
<1>7. ASSUME NEW c \in Cancels, CancelTurnOff(c) PROVE CancelInv'
  BY <1>7, TurnsOff
<1>8. ASSUME NEW c \in Cancels, CancelRead(c) PROVE CancelInv'
  BY <1>8, Goes DEF CancelRead, Read
<1>9. ASSUME NEW c \in Cancels, CancelAbort(c) PROVE CancelInv'
  BY <1>9, Retracts, Aborts
<1>10. ASSUME NEW c \in Cancels, CancelDelete(c) PROVE CancelInv'
  BY <1>10, Goes DEF CancelDelete
<1>11. ASSUME NEW p \in Polls, PollRead(p) PROVE CancelInv'
  BY <1>11, Goes DEF PollRead, Read
<1>12. ASSUME NEW p \in Polls, PollDelete(p) PROVE CancelInv'
  BY <1>12, Goes DEF PollDelete
<1>13. ASSUME NEW s \in Starts, Due(s) PROVE CancelInv'
  BY <1>13 DEF Due
<1>14. ASSUME NEW s \in Starts, Run(s) PROVE CancelInv'
  BY <1>14 DEF Run
<1>15. ASSUME NEW s \in Starts, JobTurnOff(s) PROVE CancelInv'
  BY <1>15 DEF JobTurnOff
<1>16. ASSUME NEW s \in Starts, JobCancelled(s) PROVE CancelInv'
  BY <1>16 DEF JobCancelled
<1>17. ASSUME NEW s \in Starts, JobCleanup(s) PROVE CancelInv'
  BY <1>17 DEF JobCleanup
<1>18. ASSUME NEW s \in Starts, ShutDown(s) PROVE CancelInv'
  BY <1>18 DEF ShutDown
<1>19. ASSUME Crash PROVE CancelInv'
  BY <1>19, Crashes
<1> QED BY <1>1, <1>2, <1>3, <1>4, <1>5, <1>6, <1>7, <1>8, <1>9, <1>10, <1>11, <1>12, <1>13, <1>14, <1>15, <1>16, <1>17, <1>18, <1>19
     DEF Next, RequestStep, Start, Cancel, Poll, JobStep

\* The next start comes when none is under way.
LEMMA OneStartStep == ASSUME IInv, Next PROVE OneStart'
<1> USE Kinds DEF IInv, TypeOK, Pending, historyVars, OneStart, UnderWay
<1>1. ASSUME NEW s \in Starts, StartRead(s) PROVE OneStart'
  BY <1>1, Goes DEF StartRead, Read
<1>2. ASSUME NEW s \in Starts, StartAbort(s) PROVE OneStart'
  BY <1>2, Drops, Aborts
<1>3. ASSUME NEW s \in Starts, StartTurnOn(s) PROVE OneStart'
  BY <1>3, TurnsOn
<1>4. ASSUME NEW s \in Starts, StartEnqueue(s) PROVE OneStart'
  BY <1>4, Enqueues
<1>5. ASSUME NEW s \in Starts, StartStore(s) PROVE OneStart'
  BY <1>5, Goes DEF StartStore, Read
<1>6. ASSUME NEW s \in Starts, StartSave(s) PROVE OneStart'
  BY <1>6, Goes DEF StartSave
<1>7. ASSUME NEW c \in Cancels, CancelTurnOff(c) PROVE OneStart'
  BY <1>7, TurnsOff
<1>8. ASSUME NEW c \in Cancels, CancelRead(c) PROVE OneStart'
  BY <1>8, Goes DEF CancelRead, Read
<1>9. ASSUME NEW c \in Cancels, CancelAbort(c) PROVE OneStart'
  BY <1>9, Retracts, Aborts
<1>10. ASSUME NEW c \in Cancels, CancelDelete(c) PROVE OneStart'
  BY <1>10, Goes DEF CancelDelete
<1>11. ASSUME NEW p \in Polls, PollRead(p) PROVE OneStart'
  BY <1>11, Goes DEF PollRead, Read
<1>12. ASSUME NEW p \in Polls, PollDelete(p) PROVE OneStart'
  BY <1>12, Goes DEF PollDelete
<1>13. ASSUME NEW s \in Starts, Due(s) PROVE OneStart'
  BY <1>13 DEF Due
<1>14. ASSUME NEW s \in Starts, Run(s) PROVE OneStart'
  BY <1>14 DEF Run
<1>15. ASSUME NEW s \in Starts, JobTurnOff(s) PROVE OneStart'
  BY <1>15 DEF JobTurnOff
<1>16. ASSUME NEW s \in Starts, JobCancelled(s) PROVE OneStart'
  BY <1>16 DEF JobCancelled
<1>17. ASSUME NEW s \in Starts, JobCleanup(s) PROVE OneStart'
  BY <1>17 DEF JobCleanup
<1>18. ASSUME NEW s \in Starts, ShutDown(s) PROVE OneStart'
  BY <1>18 DEF ShutDown
<1>19. ASSUME Crash PROVE OneStart'
  BY <1>19, Crashes
<1> QED BY <1>1, <1>2, <1>3, <1>4, <1>5, <1>6, <1>7, <1>8, <1>9, <1>10, <1>11, <1>12, <1>13, <1>14, <1>15, <1>16, <1>17, <1>18, <1>19
     DEF Next, RequestStep, Start, Cancel, Poll, JobStep

\* The row a start saves is its own, or was deleted meanwhile.
LEMMA RowInvStep == ASSUME IInv, Next PROVE RowInv'
<1> USE Kinds DEF IInv, TypeOK, Pending, historyVars, RowInv, OneStart, UnderWay
<1>1. ASSUME NEW s \in Starts, StartRead(s) PROVE RowInv'
  BY <1>1, Goes DEF StartRead, Read
<1>2. ASSUME NEW s \in Starts, StartAbort(s) PROVE RowInv'
  BY <1>2, Drops, Aborts
<1>3. ASSUME NEW s \in Starts, StartTurnOn(s) PROVE RowInv'
  BY <1>3, TurnsOn
<1>4. ASSUME NEW s \in Starts, StartEnqueue(s) PROVE RowInv'
  BY <1>4, Enqueues
<1>5. ASSUME NEW s \in Starts, StartStore(s) PROVE RowInv'
  BY <1>5, Goes DEF StartStore, Read
<1>6. ASSUME NEW s \in Starts, StartSave(s) PROVE RowInv'
  BY <1>6, Goes DEF StartSave
<1>7. ASSUME NEW c \in Cancels, CancelTurnOff(c) PROVE RowInv'
  BY <1>7, TurnsOff
<1>8. ASSUME NEW c \in Cancels, CancelRead(c) PROVE RowInv'
  BY <1>8, Goes DEF CancelRead, Read
<1>9. ASSUME NEW c \in Cancels, CancelAbort(c) PROVE RowInv'
  BY <1>9, Retracts, Aborts
<1>10. ASSUME NEW c \in Cancels, CancelDelete(c) PROVE RowInv'
  BY <1>10, Goes DEF CancelDelete
<1>11. ASSUME NEW p \in Polls, PollRead(p) PROVE RowInv'
  BY <1>11, Goes DEF PollRead, Read
<1>12. ASSUME NEW p \in Polls, PollDelete(p) PROVE RowInv'
  BY <1>12, Goes DEF PollDelete
<1>13. ASSUME NEW s \in Starts, Due(s) PROVE RowInv'
  BY <1>13 DEF Due
<1>14. ASSUME NEW s \in Starts, Run(s) PROVE RowInv'
  BY <1>14 DEF Run
<1>15. ASSUME NEW s \in Starts, JobTurnOff(s) PROVE RowInv'
  BY <1>15 DEF JobTurnOff
<1>16. ASSUME NEW s \in Starts, JobCancelled(s) PROVE RowInv'
  BY <1>16 DEF JobCancelled
<1>17. ASSUME NEW s \in Starts, JobCleanup(s) PROVE RowInv'
  BY <1>17 DEF JobCleanup
<1>18. ASSUME NEW s \in Starts, ShutDown(s) PROVE RowInv'
  BY <1>18 DEF ShutDown
<1>19. ASSUME Crash PROVE RowInv'
  BY <1>19, Crashes
<1> QED BY <1>1, <1>2, <1>3, <1>4, <1>5, <1>6, <1>7, <1>8, <1>9, <1>10, <1>11, <1>12, <1>13, <1>14, <1>15, <1>16, <1>17, <1>18, <1>19
     DEF Next, RequestStep, Start, Cancel, Poll, JobStep

\* The job of the last start is aborted before the next one is enqueued.
LEMMA JobInvStep == ASSUME IInv, Next PROVE JobInv'
<1> USE Kinds DEF IInv, TypeOK, Pending, historyVars, JobInv, OneStart, UnderWay
<1>1. ASSUME NEW s \in Starts, StartRead(s) PROVE JobInv'
  <2>1. /\ \A q \in Starts : q # s => pc'[q] = pc[q] /\ seen'[q] = seen[q]
        /\ pc[s] = "new" /\ seen'[s] = row
        /\ pc'[s] = IF row = "none" THEN "on" ELSE "abort"
        /\ UNCHANGED <<job, owner>>
    BY <1>1, Goes DEF StartRead, Read
  <2>2. crowded \subseteq crowded'
    BY <1>1 DEF StartRead
  <2>3. /\ missed \subseteq missed'
        /\ \A t \in Starts : job[t] \in Pending \cup {"aborting"} /\ t \notin missed' => row = t
    BY <1>1 DEF StartRead
  <2> QED BY <2>1, <2>2, <2>3
<1>2. ASSUME NEW s \in Starts, StartAbort(s) PROVE JobInv'
  BY <1>2, Drops, Aborts
<1>3. ASSUME NEW s \in Starts, StartTurnOn(s) PROVE JobInv'
  BY <1>3, TurnsOn
<1>4. ASSUME NEW s \in Starts, StartEnqueue(s) PROVE JobInv'
  <2>0. TypeOK
    BY DEF IInv
  <2>1. /\ pc[s] = "enqueue" /\ pc'[s] \in {"store", "done"}
        /\ \A q \in Starts : q # s => pc'[q] = pc[q] /\ job'[q] = job[q]
        /\ UNCHANGED <<seen, owner, crowded, missed>>
    <3> HIDE DEF TypeOK, IInv
    <3> QED BY <1>4, <2>0, Enqueues
  <2>2. owner = s \/ s \in crowded
    BY <2>1
  <2>3. \A q \in Starts : UnderWay(q) => q = s \/ s \in crowded
    BY <2>1
  <2>4. \A q \in Starts : pc'[q] \in {"abort", "on"} => s \in crowded
    BY <2>1, <2>3
  <2> QED BY <2>1, <2>2, <2>4
<1>5. ASSUME NEW s \in Starts, StartStore(s) PROVE JobInv'
  BY <1>5, Goes DEF StartStore, Read
<1>6. ASSUME NEW s \in Starts, StartSave(s) PROVE JobInv'
  BY <1>6, Goes DEF StartSave
<1>7. ASSUME NEW c \in Cancels, CancelTurnOff(c) PROVE JobInv'
  BY <1>7, TurnsOff
<1>8. ASSUME NEW c \in Cancels, CancelRead(c) PROVE JobInv'
  BY <1>8, Goes DEF CancelRead, Read
<1>9. ASSUME NEW c \in Cancels, CancelAbort(c) PROVE JobInv'
  BY <1>9, Retracts, Aborts
<1>10. ASSUME NEW c \in Cancels, CancelDelete(c) PROVE JobInv'
  BY <1>10, Goes DEF CancelDelete
<1>11. ASSUME NEW p \in Polls, PollRead(p) PROVE JobInv'
  BY <1>11, Goes DEF PollRead, Read
<1>12. ASSUME NEW p \in Polls, PollDelete(p) PROVE JobInv'
  BY <1>12, Goes DEF PollDelete
<1>13. ASSUME NEW s \in Starts, Due(s) PROVE JobInv'
  BY <1>13 DEF Due
<1>14. ASSUME NEW s \in Starts, Run(s) PROVE JobInv'
  BY <1>14 DEF Run
<1>15. ASSUME NEW s \in Starts, JobTurnOff(s) PROVE JobInv'
  BY <1>15 DEF JobTurnOff
<1>16. ASSUME NEW s \in Starts, JobCancelled(s) PROVE JobInv'
  BY <1>16 DEF JobCancelled
<1>17. ASSUME NEW s \in Starts, JobCleanup(s) PROVE JobInv'
  BY <1>17 DEF JobCleanup
<1>18. ASSUME NEW s \in Starts, ShutDown(s) PROVE JobInv'
  BY <1>18 DEF ShutDown
<1>19. ASSUME Crash PROVE JobInv'
  BY <1>19, Crashes
<1> QED BY <1>1, <1>2, <1>3, <1>4, <1>5, <1>6, <1>7, <1>8, <1>9, <1>10, <1>11, <1>12, <1>13, <1>14, <1>15, <1>16, <1>17, <1>18, <1>19
     DEF Next, RequestStep, Start, Cancel, Poll, JobStep

-----------------------------------------------------------------------------
(* The theorems. *)

LEMMA InitIInv == Init => IInv
<1> SUFFICES ASSUME Init PROVE IInv
  OBVIOUS
<1>1. TypeOK
  BY DEF Init, TypeOK, Pending, Requests
<1>2. PumpInv /\ RowInv
  BY Kinds DEF Init, PumpInv, RowInv
<1>3. CancelInv /\ OneStart
  BY Kinds DEF Init, CancelInv, OneStart, UnderWay
<1>4. JobInv
  BY Kinds DEF Init, JobInv, Pending
<1> QED BY <1>1, <1>2, <1>3, <1>4 DEF IInv

\* The invariant holds of every state, however requests, jobs and shutdowns interleave.
THEOREM Invariance == Spec => []IInv
<1>1. IInv /\ UNCHANGED vars => IInv'
  BY DEF IInv, TypeOK, PumpInv, CancelInv, OneStart, RowInv, JobInv, Timed, UnderWay, vars,
         historyVars
<1>2. IInv /\ [Next]_vars => IInv'
  BY <1>1, TypeOKStep, PumpInvStep, CancelInvStep, OneStartStep, RowInvStep, JobInvStep
     DEF IInv
<1> QED BY <1>2, InitIInv, PTL DEF Spec

\* The handlers leave a running pump with a job that stops it.
THEOREM PumpIsTimed == Spec => []PumpTimed
<1>1. IInv => PumpTimed
  BY Kinds DEF IInv, PumpInv, PumpTimed, Idle, UnderWay
<1> QED BY <1>1, Invariance, PTL

\* The row get_status shows is that of the last start_hot_water.
THEOREM RowOfLatest == Spec => []RowIsLatest
<1>1. IInv => RowIsLatest
  BY Kinds DEF IInv, RowInv, RowIsLatest, Idle, UnderWay
<1> QED BY <1>1, Invariance, PTL

\* turn_off_hot_water stops a running pump for the last start only.
THEOREM LatestStops == Spec => OnlyLatestTurnsOff
<1> DEFINE Right == \A s \in Starts :
             (JobTurnOff(s) \/ JobCancelled(s) \/ ShutDown(s)) /\ pump /\ ~pump'
               => s = owner \/ s \in crowded \cup missed
<1>1. IInv => Right
  BY DEF IInv, JobInv, JobTurnOff, JobCancelled, ShutDown, Pending
<1>2. IInv /\ [Next]_vars => [Right]_vars
  BY <1>1
<1> QED BY <1>2, Invariance, PTL DEF Spec, OnlyLatestTurnsOff
=============================================================================
