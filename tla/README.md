# A TLA+ development of Remander

Remander arms and disarms the cameras of a Reolink NVR. A dashboard button or a
page of the web application creates a *command* (Set Away, Set Home, Pause
Notifications, Pause Recording, Apply Bitmask); a worker in the same process
takes commands from a Redis queue one at a time and drives a graph of *nodes*
that switch plugs, turn PTZ cameras, write alarm schedules and zone masks,
check them, and mail a report. Around it are the timer that ends a pause, the
NVR sync, the dashboard buttons with their rules, a hot-water plugin that uses
the same queue, the settings, the user accounts, and the export and import of all
data.

These modules model what is concurrent, fallible or delayed in that program.
`PROJECT.json` gives, for every definition, the lines of `src/` that it stands
for; the paths below are relative to `src/src/remander/` unless they begin with
`src/`.

## 1. The system

### 1.1 Processes and shared state

One operating-system process holds everything. Its asyncio loop runs

* one coroutine per HTTP request (FastAPI handlers),
* the SAQ worker, started in the lifespan of `main.py` with `concurrency=1`
  (`worker.py`), hence at most one job at a time,
* SAQ's own timers, which move a scheduled job into the queue when it is due
  and abort a job at its time-out.

A switch between coroutines happens only at an `await`; every read or write of
the database, of Redis or of a device is one. The state they share is

* the SQLite database, through Tortoise ORM. `save()` writes *all* columns of
  the object as it was read; there are no version columns and, but for the
  import, no transactions;
* Redis: the ready queue and the scheduled jobs. It survives the process;
* the devices: the NVR (sessions, schedules, zone masks, PTZ positions), Tapo
  and Sonoff plugs, the pump of the hot-water plugin.

The process can end in two ways: a crash, or a graceful shutdown in which
`worker.stop()` cancels the running coroutine. At the next start, `main.py`
sets every RUNNING command to FAILED.

### 1.2 Components

| Component | Source | State | Operations | Talks to | Must hold | Module |
|---|---|---|---|---|---|---|
| Command service | `services/command.py`, `models/command.py` | one row per command: status, time stamps, error summary | create, transition_status, cancel_command, set_error_summary | called by pages and by the worker | transitions follow the table; a final status is final | CommandLifecycle |
| Queue bridge | `services/queue.py` | none of its own | enqueue_command, execute_command, execute_rearm, run_workflow | rows, Redis, graphs | each command is executed once, its end recorded | CommandLifecycle, Workflow |
| Worker | `worker.py` (SAQ and Redis external) | queue, scheduled jobs, the running job | take a job, time out, stop | runs the bridge | one at a time; no job forgotten | CommandLifecycle |
| Scheduling | `services/scheduling.py` | scheduled re-arm job, `saq_job_id` | schedule_rearm (three more functions have no caller) | Redis, rows | a pause has its re-arm | CommandLifecycle, PauseRearm |
| Lifespan | `main.py`, `db.py` | process mode | start-up reset, shutdown | rows, worker | nothing stays RUNNING | CommandLifecycle |
| Workflow graphs and nodes | `workflows/` | WorkflowState | 19 nodes, 5 kinds of run | NVR, plugs, saved states, log, mail | session closed, errors reported, an ordering of device calls | Workflow |
| Saved states | `models/state.py`, `save_restore.py` | SavedDeviceState, is_consumed | save, restore, consume | NVR | a schedule comes back, once | PauseRearm |
| Hot water | `src/plugins/remander-hot-water` | `timer_state` row, job, pump | start, cancel, status, turn-off job | Redis, Sonoff | a running pump will be stopped | HotWater |
| Buttons and tags | `services/dashboard_button.py`, `routes/dashboard_buttons.py`, `services/tag.py`, `services/bulk_tag.py` | buttons, rules, mute tags, tags | create, edit, delete, tag, untag | the scope of a run | one guest Home button, no conflicting rules | ButtonRules |
| NVR sync | `services/nvr_sync.py`, `routes/admin.py` | device rows, pages with hidden ids | query, sync one, sync all | NVR, devices | rows follow the NVR; nothing else changes | NvrSync |
| Reolink client | `clients/reolink.py` | host object, session | login, logout, tables, PTZ | NVR | session is not leaked | calls in Workflow |
| Power clients | `clients/tapo.py`, `clients/sonoff.py` | none | on, off, is_on | plugs | – | calls in Workflow, HotWater |
| Notifications | `services/notification*.py`, `services/email.py`, `clients/email.py` | none | render, send | SMTP | a failure does not fail the run | a node of Workflow |
| Activity log | `services/activity.py` | append-only rows | log | – | – | success or failure of a node in Workflow |
| Validation | `services/validation.py` | none | compare tables with the expected | NVR | a mismatch is recorded | a node of Workflow |
| Devices, detection | `services/device.py`, `services/detection.py`, `routes/devices.py` | device rows, detection types | edit, enable, delete, choose types | – | – | partly, ButtonRules, NvrSync and Schedules |
| Bitmasks, solar | `services/bitmask.py`, `services/solar.py`, `routes/bitmasks.py` | masks, assignments, sun times | create, edit, delete a mask; resolve a camera's schedules | pages, workflow nodes | the hours of the window; what is due | Schedules |
| App config | `config.py`, `services/app_config.py`, `routes/admin.py` | rows over defaults, a copy in memory, the picked colours | open and save the settings page, load, pick and remove a colour | every reader of a setting | what was saved is in effect; a post changes what its user changed | AppConfig |
| Export, import | `services/data_export.py`, `data_import.py`, `routes/data.py` | all tables, a file | read table by table; wipe and restore in a transaction | forms, settings, a run in between | a backup brings back what was there, or nothing happens | Backup |
| Accounts | `auth.py`, `services/user.py`, `routes/auth.py`, `routes/users.py` | users, links, sessions | set-up, invite, reset, toggle, sign in and out | export and import | one use per set-up and invitation; a session stays its owner's | Accounts |
| Pages | `routes/commands.py`, `dashboard.py`, `guest_dashboard.py` | none | posts that create, enqueue, cancel | command service | – | posts in CommandLifecycle |
| Plugin framework, templates, proxy, logging, migrations | | set-up | – | – | – | not modelled |

### 1.3 What is hard here

`PROJECT.json` lists the hazards line by line. They fall into a few families:

* **read, await, write the whole row**: `transition_status`, `cancel_command`,
  `sync_device`, the hot-water row, the saving of a form's rules;
* **two stores**: the row and the Redis job are written one after the other, and
  the process may end in between (`enqueue_command`, `schedule_rearm`,
  `start_hot_water`);
* **how a coroutine ends**: an exception, `CancelledError` from a time-out or
  from `worker.stop()`, or nothing at all in a crash; each leaves by another path;
* **one step of many fails**: every device call in a loop over cameras;
* **late jobs**: a timer that has fired waits behind the command that occupies
  the only slot, while pages go on to read and change what it will act on;
* **what a run reads bit by bit** while forms change it: detection types,
  assignments, masks, today's sun;
* **check, then act on a form**: guest button, overlapping tags, unique names, the
  first set-up, an invitation;
* **copies and ids that outlive what they stand for**: the settings in memory, a
  page that shows what was true when it was opened, the ids a run, a session or a
  queued command hold while the tables are edited, or wiped and restored.

## 2. Modules

Each module's comments tie its variables and actions to the code. In every
module an action is what a coroutine does between two awaits, or a device call
with the reaction to its outcome. Operators marked `\* mutant` are faulty
variants of the definition that follows them: plausible mistakes, each of which
breaks one of the properties (listed in `PROJECT.json` under "mutants") and none
of which is part of a specification.

### CommandLifecycle

`db` is the command table, `queue` and `scheduled` are Redis. A submitting
handler goes through `CreateCommand`, `QueuedRead`, `QueuedSave`, `Enqueue` (or
`EnqueueRefused` when Redis refuses); a cancelling one through `CancelCheck`,
`CancelRead`, `CancelSave`. The worker's coroutine (`wkPc`, `wkCmd`, and `wkRow`,
the object it read and will save) goes through the lines of `execute_command`:
`Dequeue`, `ExecuteGet`, `ToRunning`, `SaveRunning`, `RunWorkflow`, for a pause
`RearmEnqueue`, `RearmRead`, `RearmSave`, then `ToDone` and `SaveDone`, or the
handlers of `Exception` and `CancelledError`: `ToFailed`, `SaveFailed`,
`ReadError`, `SaveError`. `Timeout` is the job's time-out inside the try block,
`LateTimeout` the one outside it; `Stop` and `Exit` are the graceful shutdown,
`Crash` the other end, `Restart` the lifespan's start with its reset. A save that
an abort interrupts may or may not have reached the database (`MayHaveSaved`).

**CommandSpec** is what the service promises: a status per command, each step atomic,
one command RUNNING at a time, and a restart may fail the one that is.
`CommandLifecycle!Promise` instantiates it with `status <- db[c].status`;
`ImplementsSpec` says that every step up to the first cancel or glitch is one of its
steps or a stutter, and that the initial states agree.

### Workflow

One run of one graph. `kind` and `muteOn` choose the graph and its start node;
`node`, `mode`, `todo` say where the run is; the other variables are
WorkflowState (`results`, `hasErrors`, `expected`, `discrepancies`,
`loggedIn`), the SavedDeviceState rows of this command, and the world: the NVR's
session and, per camera, `power`, `online`, `aim`, `mask`. `DeviceStep` is one
camera in a node's loop, `NodeStep` the end of a loop or a node without one.
Every device call succeeds or raises, and one that raises may have had its
effect. `Abort` is a CancelledError at any await, `Finally` the safety net of
`run_workflow`, `Boot` a camera that comes up, `Expire` the clock of the mute
window. A node routed outside its graph raises, as pydantic-graph does. `Report` is
what becomes of the run: a command's row says FAILED, COMPLETED_WITH_ERRORS or
SUCCEEDED; a re-arm is reported to nobody ("over"), since `execute_rearm` drops
has_errors, logs an exception and writes no status. `mail` is the subject of the
notification (`Verdict`), which does not look at has_errors.

### PauseRearm

Several runs in a row: pauses, Set Home, Set Away and re-arms through one queue.
Of a workflow it keeps what touches schedules and SavedDeviceState: `SaveBitmasks`,
`SetNotificationBitmasks`, `ScheduleReArm`, `RestoreBitmasks`, camera by camera.
`CutOff` is an exception or a time-out between two calls, `ShutDown` the graceful
stop after which the job is queued again. A pause may have been posted without a
positive number of minutes (the form asks for one, `routes/commands.py:164` and `:198`
do not); it then ends without a timer (`SetDone`). The worker always hands
`schedule_rearm` a queue (`main.py:97`), whose silent return without one is not
modelled. Devices are enabled and disabled at any
time. `base` remembers what the last full command gave each camera; `disturbed`
and `overruled` which cameras were written by another job before their re-arm,
and `broken` those that were given up: a call failed, the job was cut off, the camera
was disabled, or its pause had no minutes.

### HotWater

Requests to start, cancel and show the timer, await by await, with the row of
`timer_state`, the jobs, the switch and a worker that is late, is shut down (`ShutDown`)
or ends with the process (`Crash`). Any of the requests may come in while others are at
work. Calls of the switch and of the queue may raise (`Faulty`), with or without their
effect: `StartAbort`, `StartTurnOn` and `StartEnqueue` each have such a way out, and a
crash may come at any of them. History variables record the mishaps. Three of them last
until the next start has set a timer: `broken`, a start broke off before it had one;
`stuck`, a job's turn-off failed or was lost; `crossed`, a start and a cancel were under
way at once. `crowded` are the starts that were under way beside another, `missed` those
whose job a later start could not drop. `owner` is the start that turned the pump on
last, `latest` the one that set the last timer.

Assumed: `queue.job`, which the service calls with the `id` the row keeps
(`service.py:33`, `:78`), finds the job by it, as the code expects of SAQ. A write of
the plugin's data does not fail. A restart of the pump's server, and a Redis that loses
a job, are not modelled.

### ButtonRules

The posts of the button form: `Validate` (overlaps), `GuestCheck`, `Update`,
`DeleteRules`, `CreateRule` row by row, `Finish`. Nothing serialises them: any number of
posts, also of one button, stand at any await at once. Meanwhile buttons and tags
are deleted, cameras tagged, untagged, enabled and disabled. `intent` is what the last
post that replaced a button's rules submitted, `moved` which cameras were tagged or
enabled since its validation, `mixed` the buttons whose rules one post began to replace
while another was at it (until a post does so alone), `rivals` pairs of buttons whose
posts stood between the guest check and the save at once. Only Home buttons are
modelled, since only they can be guest buttons twice; "guest" stands for show_on_guest
and is_enabled. The tags are read in one step at validation. Mute tags are left out: a
post saves them last. `Scope` is the cameras of a run, if the worker took the button's
command now.

### NvrSync

Pages open in browsers (`shown`, `ids`: the hidden fields of the form), posts
that go channel by channel (`Create`, `Fetch`, `Save`; a sync-all compares once more at
its end, `Refresh`), cameras renamed in the NVR, devices added, edited and deleted by
their forms. Any number of pages post at once. Device.name is unique. "name" stands for
name, model and versions; "reolink" for what the sync looks devices up by beside the
channel, a device_type of camera and the brand (`DeviceOf`); "flag" for all other columns.
`Edit` changes any of them, channel included, in one step: the form carries the columns
it writes. `moved` are the channels whose camera, or a device of which, was renamed, and
those that a form has brought a device to or taken one from.

### Schedules

One camera and the mode of one command. `masks` and `assigned` are the tables,
`enabled` the types with an enabled row. Posts of the mask form are `Create`,
`Edit` with `Save`, and `Delete`; the form of types is `TypesDelete` and
`TypesCreate`, row by row. The command is `Submit` (with or without the question
for masks), then `ReadTypes`, `Lookup` and `Fetch` for each type, and `Write`;
`ReadFails` is an exception of a read: the camera was deleted, or the times of the sun
cannot be told (an unknown time zone, a place where it does not set). `fault` is what
failed: a read, a call of the NVR, or neither. A
schedule is a set of hours; time runs in half hours, since rounding looks at
nothing finer. `LitBetween` is `compute_dynamic_bitmask`, `WindowHours` its
definition on the time line, `Preview` what the form computes in the browser. A
button's own mask is resolved in the same way and left out. The sun is external:
`get_sunrise_sunset` asks for both times on one date in UTC, so that the sunset
may be that of the evening before.

### AppConfig

The table `app_config` (`rows`, `palette`) and the copy in memory (`cache`). Two
groups of fields stand for the page's sections: "core", whose post reloads the copy
once at its end, and "plugin", whose copy is reloaded after each field. A page is
opened (`OpenPage`), its user changes one field (`Submit`), and the post writes
field after field (`Save`) with a reload (`Load`) at its own time; `EndPlugin` is a
plugin's post whose last fields were skipped. `Blank` is an input the post skips: an
empty secret, a number that is none. `ReadColours` and `SaveColours` are the two
halves of picking or removing a colour. `stale` records that what a page or post has
read was written by another, `unread` which copies are older than an import.

### Backup

Export and import beside all that goes on meanwhile; it EXTENDS AppConfig, whose
posts are steps of it. `db` has rows of id, name and data, and links of ids: a
device's tags, its mask, a button's rules. Forms create, rename and delete rows and
links (`Create`, `Rename`, `Remove` with its cascades, `Relink`). An export reads one
part after the other and writes names for ids (`ExportPart`); an import is a
transaction (`before` is what a rollback brings back) that wipes and restores part by
part, with new ids and looking names up (`RestoreTable`, `RestoreLinks`,
`RestoreConfig`); it ends in `Commit` or `ImportFails`, or a restart cuts it off.
`Issue`, `Start`, `ReadCamera`, `WriteCamera` and `LogCamera` are a command and its
run, reduced to the ids it holds. Detection types, zone masks, plugin data and the
app state are restored like the tables here and are left out, and so is the power device
of a camera, a link of two devices. A row's data stands for the columns that are
exported; `Rename` changes the name only, since an edit of a device's channel would make
it another camera.

### Accounts

The table of users (an id, an address, whether there is a password, the two flags), the
links that were mailed and the sessions, each of which names a user by id. A post that
sets up, creates, accepts an invitation, resets a password or toggles a flag reads and
checks (`SetUp` ... `Toggle`) and writes after another await (`CreateUser`, `SaveUser`).
`accepted`, `again` and `made` count the uses of links by address. `Export` and `Import`
do to the users what Backup does to the other tables, in one step: a post on users sees
the inside of neither, one being a single query and the other a transaction; a file may
be this installation's, another's, or have no users. The personal token has no writer in
`src/`. That a link is signed, and expires, is external.

### Proof modules

Each is about the module it is named for: CommandLifecycleProofs (with the refinement
of CommandSpec), WorkflowProofs, PauseRearmProofs, HotWaterProofs, NvrSyncProofs,
SchedulesProofs, BackupProofs (with AppConfig). DashboardProofs is about Accounts and
ButtonRules, whose definitions have different names for this (section 4).

## 3. Runs

Each run finishes within about two minutes on two cores. Deadlock is not checked, since
every module may stop: bounded requests are used up, a run has ended.

### 3.1 Runs in which everything holds

**lifecycle_races** (2 commands, one of them a pause; 1 cancel; 1 crash, 1 shutdown, 1
glitch; fair). `RunningIsExecuting`: while requests are served, a RUNNING row is the
command being executed; the one exception is a time-out outside the try block of
`execute_command`, which leaves a RUNNING row for the start-up reset. `AtMostOnce`: a
workflow is started at most once, although SAQ puts interrupted jobs back.
`QueuedHasJob`: without crash and glitch, a QUEUED row has a job behind it.
`OnlyCancelRaces`: a status changes along VALID_TRANSITIONS, or a cancel and another
writer overwrite each other; no other pair of writers can. `ImplementsSpec`: until the
first cancel or glitch the code's reads, saves and jobs are the atomic one-slot service
of CommandSpec. `CommandsEnd`: every submitted command reaches a terminal status, or a
crash or glitch strands it (see 3.3), and a re-arm that is scheduled is run.

**workflow_runs** (gate, behind a plug and with PTZ, and yard, with zone masks; Set Away
and Set Home, muted or not, pause, re-arm; fair). `SessionClosed`: whatever ends a run,
its NVR session is closed or a logout was tried, unless the login broke off.
`OkMeansApplied`: an error-free end means that each camera in scope has its schedule, or
could not be read back, or is on the list of discrepancies and no mail said PASS; and
that a re-arm wrote every saved schedule back. `ErrorsReported`: a command whose run is
reported without errors had only failures of calls that the code treats as best-effort
(nothing of the kind holds of a re-arm or of the mail, see 3.3). `FailsOnlyByFault`:
only a failed call or an abort fails a run; no route leaves a graph. `AwayPtzOnline`: a
camera behind a plug is turned away only when it is online. `MuteHonoured`: no camera
gets a schedule while the mute window is open. `RunEnds`: every run ends.

**pause_restores** (2 pauses that share a camera, a Set Home, 1 device edit, 1 job cut
off; pauses with or without minutes; fair). `PauseIsUndone`: when nothing is queued,
scheduled or running, cameras have the schedule of the last full command, but for those
given up or written by two jobs. `SavedHasRearm`: a saved schedule that is not restored
has its pause at work, its timer or its job, or its camera was given up. `RestoredOnce`:
a consumed row is not written again. `PausesEnd`: every saved schedule is restored, or
its camera given up.

**hotwater_timers** (2 starts, a cancel and a status poll that interleave in any way;
calls of the switch and the queue that fail, late jobs, 1 shutdown or crash; fair).
`PumpTimed`: once no request is under way, a running pump has a job that will stop it,
unless since the last timer was set a start broke off, a turn-off failed, or a cancel
and a start were under way at once. So an exception or a crash between turn_on and the
end of queue.enqueue does leave the pump on (3.3), and what the property says is that
nothing else does, and that the next start sets it right. `RowIsLatest`: the countdown
shown is that of the last timer set, unless starts were under way at once or one broke
off. `OnlyLatestTurnsOff`: neither the job of an earlier start, nor its abort or
shutdown in the midst of its call, stops a pump that a later start turned on, unless the
later start could not drop that job: both were under way at once, it was running
already, or the row no longer named it. `PumpGoesOff`: the pump does not run for ever,
with the exceptions of `PumpTimed`.

**buttons_retagged** (2 Home buttons, 2 tags, 1 camera, 3 posts that interleave in any
way, also of one button; 1 change: a button or a tag deleted, the camera tagged,
untagged, enabled or disabled). `NoConflict`: no camera has two of a button's rules, but
for cameras tagged or enabled since the rules were validated, and buttons whose rules
two posts replaced at once, until a post does so alone. `OneGuestHome`: two Home buttons
are on the guest dashboard only if just their posts stood between check and save at
once. `RulesOfOneForm`: at every moment of a save, also of one that failed, a button's
rules are those of the last form that began to replace them, with the same exception of
two posts at once.

**sync_page** (2 channels, 2 names, 3 ids, 2 pages whose posts overlap; 1 change: a
camera renamed, or a device added, edited in any field, or deleted). `AllSynced`: a
sync-all that ends, and that nobody disturbed, leaves every row in step.
`OnePerChannel`: a channel has two Reolink devices only if its camera or one of them was
renamed, or a form brought one there or took one away: however stale pages are and
however their posts overlap or break off, the unique name refuses the second device.
`FlagsKept`: the other columns stay, unless somebody wrote in between.

**schedules_run** (1 mask or none, 2 types, 2 posts of the mask form, 1 of the types'
form, 1 change of date). `WindowFilled`: a dynamic mask lights the hours of its window.
`PreviewAgrees`: the form showed what a run will use, but for a blank offset and for a
window whose ends round to one hour. `WroteDue`: what is written was due to its type
during the run. `WholeOrUntouched`: a run without error has written each type that was
enabled all along; one that fails but for a call of the NVR has written nothing; and if
no read raised either, a mask was deleted between two reads. `CheckedIsArmed`: a command
that was asked for masks writes one, unless a mask was deleted, the types posted, or its
only masks are of types that are not enabled.

**backup_import** (2 cameras; 3 settings in two groups, one of them a secret; 3 colours
for 2 places; an export, two edits, pages, picks or commands at any point before, in or
after it, an import and restarts). `SettingsInEffect`: what is in memory differs from
the rows only while a post is about to reload it, or since an import.
`OnlyEditedChange`: a post changes what is in effect for the field its user changed and
no other, unless its page was older than another write. `PaletteStep`: a picked colour
comes first, the others keep their order, and only the last is dropped. `BackupIsWhole`:
of what an export has, an import brings back every row, link and setting that nobody
touched during the export, and nothing else if nobody touched any. `ImportIsAtomic`: an
import that fails or is cut off leaves all as it was, and an undisturbed file fails only
for two buttons of one name. `RunKeepsItsCameras`: a run writes no camera but those it
was started for.

**accounts_posts** (2 people, 1 browser, 2 posts at a time and 6 in all, 4 ids, 2
imports of a backup of this or of another installation, or of one without users).
`UsedOnce`: until an import takes the password, or all users, away, the set-up makes one
user and an invitation sets the password of an address once, unless two of these very
posts overlap. `SessionIsOwn`: whoever signed in is who the cookie stands for, whatever
is imported and whatever ids are given.

### 3.2 Runs that show a disagreement

Each checks one statement that a comment or a document of the repository makes
and that the code does not keep; `PROJECT.json` quotes the lines.

* **workflow_apply**, `FailsOnlyByFault`: `NVRLoginNode` sends an Apply Bitmask
  command to `SaveBitmasksNode`, which is not in its graph, so that this kind of
  command fails every time.
* **pause_overruled**, `FullCommandStands`: nothing cancels a re-arm when a full
  command runs, and it takes back the schedule of a later Set Home.
* **buttons_unscoped**, `RunStaysInRules`: a run whose button covers no camera at
  that moment (last camera disabled or untagged, rules being replaced) is scoped
  like one without rules and takes every enabled camera.

### 3.3 Other disagreements

The properties above have exceptions, and each is there because the code needs
it. A reader can see each of them as a counterexample by deleting the exception
or changing the constant named here.

* A cancel that has read RUNNING overwrites SUCCEEDED with CANCELLED
  (`services/command.py:84`), and a cancelled command's workflow runs on
  (`services/command.py:118`): the second disjunct of `OnlyCancelRaces`.
* A crash between the save of QUEUED and the enqueue leaves a command that no
  restart serves (`services/queue.py:19`): `Stranded` in `CommandsEnd`.
* The start-up reset sets no completed_at (`main.py:68`): `Reset`.
* A login that fails after the token exchange leaves a session that the safety
  net does not know of (`clients/reolink.py:72`): the last disjunct of
  `SessionClosed`.
* A mismatch found by ValidateNode, or a table it cannot read, does not set has_errors,
  while a failed power-on does, against the tables of `src/README.md:220` to `:235`:
  `OkMeansApplied` and `ErrorsReported` list what the code does.
* "A failed step causes the notification email to report FAILED" (`src/README.md:218`).
  The mail's PASS or FAIL (`workflows/nodes/notify.py:50`) comes from the discrepancies
  and from the row's status, which is RUNNING while the node runs, so that has_errors
  never counts; the mail of a re-arm takes the status its pause ended with: `Verdict`.
* A re-arm's errors reach no row: `execute_rearm` (`services/queue.py:272`) discards
  has_errors, logs an exception and writes no status: "over" in `Report`.
* A pause posted without minutes is never undone (`workflows/nodes/nvr.py:136`): `SetDone`.
* The mute reaches cameras outside the button's rules and nothing unmutes them
  (`services/queue.py:167`): `OkMeansApplied` speaks of the scope only.
* A pause sets the away schedules and not zeros (`save_restore.py:131`), and a
  re-arm also turns PTZ cameras home and switches plugs off
  (`save_restore.py:229`): `Target` and the graph of "rearm".
* A cancel of the hot water that overlaps a start aborts the new timer while the
  pump runs: `crossed` in `PumpTimed` and `PumpGoesOff`.
* A start whose turn_on or enqueue raises, or that a crash cuts off, has aborted the old
  timer already and may have turned the pump on (`service.py:38` of the plugin): it runs
  until somebody starts or stops it again. A turn-off that fails is tried by nobody again
  (`jobs.py:21`), and neither is one a crash cuts off: `broken` and `stuck`.
* A turn-off job that waits behind a command is past its time; a status poll then
  deletes its row, the next start finds nothing to abort, and the late job stops
  the new pump (`service.py:130` of the plugin, against the comment at `:28`). So may a
  job that is running when the next start aborts it, and that of a start under way at the
  same time: `missed` and `crowded` in `OnlyLatestTurnsOff`.
* The form's preview adds a day where the server does not
  (`templates/bitmasks/hour_form.html:141`, `services/solar.py:65`), and a field
  whose offset is cleared keeps the old one (`routes/bitmasks.py:205`): the
  exceptions of `PreviewAgrees`. A window that offsets stretch beyond a day loses
  24 hours: the bound in `WindowFilled`.
* A type that is not enabled keeps the schedule it has in the camera, while
  `src/spec.md:542` has it set to zeros: `ReadTypes` takes the enabled ones. The
  question for masks counts those of types that are not enabled
  (`services/bitmask.py:244`): the last disjunct of `CheckedIsArmed`.
* "Only one Home button can be assigned to the Guest Dashboard"
  (`routes/dashboard_buttons.py:210`): two overlapping posts both pass the check and make
  two: `rivals` in `OneGuestHome`.
* Two overlapping posts of one button leave rules of both forms
  (`services/dashboard_button.py:81`). Each form may be valid alone and the two together
  put a camera under two schedules, with nothing retagged: `mixed` in `RulesOfOneForm` and
  `NoConflict`.
* An import reloads no copy of the settings (`routes/data.py:80`): `unread` in
  `SettingsInEffect`. Until a post or a restart does, the old values are in effect; a
  page of core settings shows those of fields without a row, and its post writes them
  into the rows.
* A page that was open while somebody else saved the section takes that one's values
  back (`routes/admin.py:327`): `stale` in `OnlyEditedChange`. Of two colours picked at
  once one is lost (`services/app_config.py:143`): `stale` in `PaletteStep`.
* A row renamed or deleted between two parts of an export loses its links in the file
  (`services/data_export.py:38`): `touched` in `BackupIsWhole`. A button's mute tags and
  mute settings and a camera's `ptz_calibration_required` are not exported at all; a
  row's data stands for the columns that are.
* Two buttons may have one name, and if one of them has a rule no backup can be
  imported (`services/data_import.py:282`): the second conjunct of `ImportIsAtomic`.
* A queued command loses its button to an import or a delete (SET_NULL) and then runs
  for all enabled cameras (`services/queue.py:140`): `RunKeepsItsCameras` speaks of the
  scope a run was started with.
* Two overlapping posts of the set-up form both create an administrator, against
  "Returns 404 once any user exists" (`routes/auth.py:262`), and two of one invitation
  both set a password, against `src/docs/authentication.md:187`: `raced` in `UsedOnce`.
* An import opens both again. If its file has the invited address without a password, a
  link that was used works once more, against the same line; if it has no users
  (`services/data_import.py:73`), so does the set-up: `Import` takes them out of `accepted`
  and `made`.
* A crash between `create_user` and `set_password` closes the set-up with a user who
  has no password (`SetUp` is disabled) and no way in but a reset link by e-mail, and
  the last administrator can take the rights from himself (`Toggle`).
* Sync-all breaks off half way when a camera has been given the name another
  device still has (`Fail`), and its full-row saves take back edits made since
  the row was read: `alone` in `FlagsKept`. A device whose form changes its type, brand or
  channel is one the sync no longer finds (`routes/admin.py:444`, `:636`): if it or its
  camera was renamed, too, or when it comes back, its channel has two: `moved` in
  `OnePerChannel`.

### 3.4 Bounds, and why they are enough

* *Commands and cancels.* With two commands, one can hold the worker while the other is
  submitted, cancelled or waits; commands share only the queue and the slot. One cancel
  meets every line of the handler and of the worker. For the safety properties the
  numbers do not matter: the theorems of section 4 cover any, and what the run adds to
  them is liveness, and that the statements are not empty: each has a mutant.
* *Crashes and shutdowns.* One of each gives crash, restart and shutdown in any
  order. A second crash repeats a restart, whose reset depends on no history.
* *Glitches* count refused enqueues and time-outs outside the try block. One is
  enough to reach every line that handles one.
* *Cameras.* One behind a plug with PTZ and one without: a node's loop treats
  cameras independently, so two show a success beside a failure, and the skipping
  of one that failed. The order of the loop is arbitrary. A camera stands for its
  detection types.
* *Pauses.* Two that share a camera, one of which has a camera to itself.
* *Requests of the plugin.* Two starts, one of which is superseded by the other, and
  one cancel and one poll, each of which can fall between any two steps of either, and one
  shutdown or crash at any of them. The theorems hold for any number of each.
* *Forms.* Three posts, two tags, one camera: two posts that mix their rules and a third
  that replaces them alone, and the smallest instance with an overlap of tags. One mask,
  since a conflict is two tags' rules on a camera whatever their masks are. One deletion
  or change of tags beside them (`MaxMoves`). The sets are symmetric, and the theorems
  hold for any number. `buttons_unscoped` has one post and two cameras.
* *Masks.* One, which both types may have: masks do not depend on each other. The
  forms are a static mask, one that is refused, a window through midnight, and
  one whose ends come together; the two days have a sunset after and before the
  sunrise.
* *Settings.* Two fields in the core section, so that a post can be between them, one of
  them a secret; one in the plugin's. Two posts are as many as can race on a field;
  again the theorems hold for any number. Three colours for two places fill the list.
* *Backup.* The initial tables have a row of each kind with a link of each kind, and ids
  that do not start at 1, so that ids before and after an import differ. Two edits
  (`MaxForms`, which pages, picks and commands share) are one during the export and one
  beside it, or two that undo each other. One export, one import of its file, one command.
* *Accounts.* Four ids and two imports: one person, an import of a file in which she has
  no password and so a new id, and two more, which a second person, a second set-up or
  import gives. Two posts at a time, six in all: the set-up, an invitation and its
  acceptance, and three to repeat or race them. One browser: sessions do not depend on
  each other. A link that expired is one that nobody uses again.
* *Sync.* Two channels and two names are enough to swap names, three ids for two devices
  and one too many. Two pages, whose posts overlap and go stale, and one change beside
  them, since a change is what the properties except; the theorems hold for any number.

### 3.5 Fairness

The liveness runs assume weak fairness of what the event loop and the worker do,
never of a request, a cancel, a failure, a shutdown or a crash:

* handlers' steps after the first, and the worker's steps: asyncio runs a ready
  coroutine, and every await here ends (client time-outs, the job's time-out);
* a re-arm that is due is queued (SAQ's scheduler), a stopping process exits, and
  an exited or crashed one is started again (the container's restart policy);
* in Workflow, the run's own step and the clock of the mute window. `Abort` has
  no fairness: the run ends without it, because the wait for power is bounded;
* in HotWater, requests that have begun, the clock and the worker; in PauseRearm
  the worker and the timers.

The runs of the command service, the workflow, the pause and the hot water are checked
under `FairSpec`, the safety properties, which do not depend on it, among them.
AppConfig, Backup and Accounts promise no progress: each of their operations is a
request's, and ends or not with it.

## 4. Proofs

The theorems hold for every value of the constants that satisfies the module's
assumption; no theorem uses anything else, except where the table says so.

| Module | Theorem | Property | Note |
|---|---|---|---|
| CommandLifecycleProofs | Typing, Invariance | `TypeOK`, `IInv` | |
| | StartedOnce | `AtMostOnce` | from `RunInv` |
| | RacesAreCancels | `OnlyCancelRaces` | step by step under `IInv` |
| | OneExecuting | `RunningIsExecuting` | |
| | QueuedIsBacked | `QueuedHasJob` | |
| | Refinement | `ImplementsSpec` | any number of cancellers, crashes and glitches |
| WorkflowProofs | Typing, Invariance | `TypeOK`, `IInv` | |
| | SessionIsClosed | `SessionClosed` | |
| | RoutesStayInGraph | `FailsOnlyByFault` | assumes "apply" is not among the kinds |
| | PtzOnline | `AwayPtzOnline` | |
| | WindowIsHonoured | `MuteHonoured` | |
| | ErrorsAreReported | `ErrorsReported` | from `Reported` |
| | OkIsApplied | `OkMeansApplied` | from `Progress` |
| PauseRearmProofs | Invariance | `IInv` | |
| | SavedIsOwed | `SavedHasRearm` | |
| | PauseUndone | `PauseIsUndone` | from `Kept` |
| | OnlyOnce | `RestoredOnce` | step by step under `IInv` |
| HotWaterProofs | Invariance | `IInv` | |
| | PumpIsTimed | `PumpTimed` | from `PumpInv` |
| | RowOfLatest | `RowIsLatest` | from `RowInv` |
| | LatestStops | `OnlyLatestTurnsOff` | from `JobInv` |
| NvrSyncProofs | Invariance | `IInv` | |
| | Synced | `AllSynced` | any number of pages, posts and edits |
| | OnlyDevice | `OnePerChannel` | from `Named`; any pages and edits |
| | OwnFieldsOnly | `FlagsKept` | |
| SchedulesProofs | ShapesHold | `Shapes` | types, and which hours a row can stand for |
| | DynamicFillsWindow | `WindowFilled` | for windows of at most a day |
| | WholeRuns | `WholeOrUntouched` | |
| | PageIsRight | `CheckedIsArmed` | |
| | SchedulesWereDue | `WroteDue` | assumes `WindowsFit` |
| | PreviewIsRight | `PreviewAgrees` | |
| BackupProofs | Invariance | `IInv` | |
| | CamerasKept | `RunKeepsItsCameras` | from `RunKnown` |
| | Settings | `SettingsInv` | |
| | SavedIsLive | `SettingsInEffect` | from `Loaded` |
| | OnlyEdited | `OnlyEditedChange` | step by step under `SettingsInv` |
| | BackupInvariance | `BackupInv` | with the tables' part of `TypeOK` |
| | Whole | `BackupIsWhole` | step by step under `BackupInv` |
| | Atomic | `ImportIsAtomic` | step by step under `BackupInv` |
| DashboardProofs | SessionsAreOwn | `SessionIsOwn` | |
| | OnlyOnce | `UsedOnce` | from `InviteOnce`, `SetUpOnce` |
| | ButtonInvariance | `ButtonInv` | posts interleave in any way |
| | OneForm | `RulesOfOneForm` | from `FormInv` |
| | NoTwoSchedules | `NoConflict` | from `ValidInv` |
| | OneGuest | `OneGuestHome` | from `GuestInv` |

**The invariant of CommandLifecycle.** `AtMostOnce` is not inductive: that a workflow is
not started twice depends on what the rows and jobs of all coroutines say. `IInv` adds,
for each coroutine, what it *still knows* of the row between its read and its save:

* `SubInv`: a row is NONE until its handler creates it; until the handler is
  done, only it and a cancel have written the row (so it is PENDING, QUEUED or
  CANCELLED) and no workflow has been started for it;
* `JobInv`: only commands whose handler is done have jobs;
* `CanInv`: a cancel that has read its row is about to write CANCELLED over a row
  that exists;
* `WkInv`: at each line of `execute_command` the row is where the worker left it
  or CANCELLED, and the copy it holds has the status that line gave it;
* `RunInv`: a workflow was started at most once, and never for a row that is
  still NONE, PENDING or QUEUED, from where alone it can be started; this conjunct
  carries `AtMostOnce`;
* `ModeInv`: a process that is down runs nothing, one that stops only the error
  handler of its job.

The proof has a lemma per action and, below it, a step per conjunct the action
can disturb. A cancel may overwrite any row, so nothing in `IInv` says that a
RUNNING row stays so; `RunningIsExecuting` and `QueuedHasJob` have strengthenings
of their own in the same module. The refinement shows that while no cancel was
posted and no glitch happened (`Calm`) every copy still agrees with its row when it is
saved, so each save is one of CommandSpec's steps and everything else a stutter.

**The invariant of Workflow.** `Control`: the run is at a node of its graph, in the mode
that goes with it; `Caused`: an exception has a cause; `SessionKept`: the NVR's session
is known to the run, or belongs to the mute node, or a logout was tried, or the login
broke off; `PowerKnown`: after the wait, a camera behind a plug is online or has an
error recorded; `WindowRoute`: while the mute window is open the run is at a node that
writes no schedule; `MailRight`: no mail says PASS about a discrepancy.
`SessionIsClosed`, `RoutesStayInGraph`, `PtzOnline` and `WindowIsHonoured` follow from
`SessionKept`, `Caused` with `Control`, `PowerKnown` and `WindowRoute` in turn.

What an error-free end says of the cameras needs more, since nothing at the end looks
back. `Reported`: while the run is *clean* (no exception, no has_errors) only best-effort
calls have failed; `ErrorsKept` is the lemma that a run is never clean again. `Progress`
says how far a clean run has come with its cameras at each node: before and at
SetNotificationBitmasks, those not in `todo` have the schedule recorded as expected; at
Validate those not in `todo` are checked; from then on all are. A re-arm's cameras are
restored or in the `todo` of RestoreBitmasks.

**The invariant of PauseRearm.** `PauseIsUndone` speaks of the moment when all is quiet;
`Kept` says what leads there. Let a camera be neither broken nor disturbed. A pause that
owes it (has saved and not consumed it) has saved the schedule of the last full command,
once its command has written the camera, and the one the camera has before; at most one
pause has written the camera without having restored it; and without such a pause the
camera has the schedule of the last full command. The rest says where `Kept` can be
lost: `InOrder` (nothing is saved before the command runs and nothing re-armed before
its end, so that a second delivery of a job finds nothing done), `SavesItsScope` and
`EndsWell` (a loop's `todo` and the saved rows agree, and a pause ends with its timer or
with nothing owed), and `SavedHasRearm` itself, by which nothing is owed when all is
quiet.

**The invariant of HotWater.** `PumpTimed` is about idle moments and is not inductive:
between the abort of an old timer and the enqueueing of the new one no job is there.
`PumpInv` lets a start that has aborted stand for the timer, until it has set its own or
is `broken`; `CancelInv` says that while a cancel is under way no start is and the pump
is off, unless a start and a cancel crossed. `OneStart`: of two starts under way, both
are `crowded`. `RowInv`: the row is of the last timer set, but for those, or the start
under way has yet to overwrite it. `JobInv`: a job that may still stop the pump, be it
waiting, running or aborted in its call, is of the start that turned the pump on last,
and the start that is to turn it on next is about to abort that very job, unless it
could not. Nothing is assumed of how requests interleave.

**The invariant of NvrSync.** `AllSynced` follows from `Undisturbed`: the post of a page
that nobody disturbed has, for every channel, the device its plan names or a row in
step, and saves the row as it is. `OnePerChannel` holds of pages as stale as can be, and
not because of what they know: `Named` says that on a channel where nothing has `moved`,
the devices, the camera and all that pages show have one name, and names are unique. To
keep it a post must not rename, or bring to a channel, a device that belongs elsewhere:
`Posting` says that the ids its page and its plan name are of devices on those channels
(`Right`), or moved since, and that the copy of a row it is about to save is of that
channel (`Fits`). `Gentle` is a step that leaves devices on their channels unless these
are `moved`; all but a save are easily so.

**The window of a mask.** `Rounding` turns the code's rounding into one on the time
line; `HoursOfWindow` says when an hour of the day comes up between two points of it;
`HourIsFilled` compares that with the code's three cases, by whether sunrise and sunset
round to the same day. `SunAndRows` is the invariant it takes to say so of every state:
rows hold what a valid form can bring in.

**A run among forms.** `Whole` says that a type enabled all along is at each moment
still to be looked up, resolved or written, and that a mask is missing only if it was
deleted; `PageKnew` that what the page found when it asked is still so, unless types
were posted or a mask was deleted since. `WroteDue` compares what is written with every
schedule that was due while the run looked (`seen`). `Remembered` carries it through the
two reads of a type, its assignment and then its mask. It has a hypothesis,
`WindowsFit`: the offsets of the forms stretch no window beyond a day. It is the
exception `WindowFilled` has, since beyond a day the hours the code takes are not those
due by definition; the forms of the run satisfy it, and the code does not enforce it.
For `PreviewAgrees`, `FormsKept` says that a row has the fields of the form it was last
saved from, blank offsets apart, and `RoundingPerDay` that rounding times of day and
rounding times differ by whole days only.

**Ids that are never given again.** `RunKeepsItsCameras` and `SessionIsOwn` rest on
AUTOINCREMENT: an id a run or a cookie holds is that of the row it was found in, or of
none. Both invariants (`IInv` of BackupProofs and of DashboardProofs) say that ids in
use were given before and that what is held agrees with the row that has the id. An
import gives the restored rows the ids after the last one, in the order of their ranks
(`Ranks`: ranks lie between 1 and the number of rows), so none of them is held by
anybody. The one way back is a rollback, which brings rows *and* the last id back: hence
the conjunct `Known(before.data.db, before.data.last)`.

**The settings.** `OnlyEditedChange` needs to know what a page holds. `Agrees`: a page
or post that nobody made stale holds, field by field, what is in effect, but for the
edited field. `Loaded` is `SettingsInEffect` and that a field without a row has its
default in the copy: the core page shows the copy there, so otherwise a post would write
an old value. In a transaction both must hold of the rows that a rollback would bring
back (`Settled`, and the conjunct on `before`), while of the wiped rows nothing is known
but that every group is unread. `NoSave` shows that nobody saves while a transaction
holds the database, so that `OnlyEditedChange` follows from `Agrees` alone.

**What an import brings back.** `BackupIsWhole` is about the end of an import, but what
it needs is decided long before. `Copied` says that while an export runs the tables
differ from those it began with only in what was touched, so that a part it has read has
every untouched row, and every untouched link under the names its ends had (`SteadyEnd`,
`SteadyLabel`). `Restored` says how far an import has come: a part it has passed is the
file's, rows by a one-to-one map that keeps names and data, links by what their names
are found as, and the parts to come are empty. Going on breaks nothing because a part
refers only to earlier ones (`EndsFirst`, `BroughtStays`). At the end a link's names are
found as rows of those names (`LinkBack`), and two links become one in no case
(`LabelsDiffer`: links with the same names are the same link, unless two buttons share a
name; a rule for such buttons makes the import fail). All of this takes tables that keep
the schema, through the cascades of a deletion and a half-done import: `Tidy`, which is
also the part of `TypeOK` about the tables. `ImportIsAtomic` uses the same invariant: a
rollback brings back a whole database, and `FailsFor` shows that an import which fails
for an undisturbed file had a rule for one of two buttons of a name, when the export
began.

**Links that are used once.** A post is under way between its check and its write.
`InviteOnce`: an invitation that was accepted, and that no import has taken back,
belongs to an address with a password, and a post that has checked it before is `raced`;
so are two that have both checked it. A post that an import overtakes finds its row
gone, since ids are not given again. `SetUpOnce` says the same of the first user.

**What a post has checked.** The properties of ButtonRules are about a save in several
steps, with others at theirs. `GuestInv`: whatever other guest button there is, or is
about to be saved, stands in `rivals` with the one that a post has checked and is about
to save, as do two that are there. `ValidInv`: the rules of a form that was valid
conflict only in cameras that moved since, first on the post's account (`moved[e]`),
from the deletion of the old rules on the button's (`moved[b]`). `FormInv`: unless two
posts replaced them at once, a button's rules are among its last form's, and so is what
its posts have yet to create; that they conflict no more than the form does follows,
since `Conflict` grows with the rules. `CamerasMove` treats all changes of tags and
cameras at once.

The assumptions of AppConfig, Backup and Accounts are those the code gives: groups of
settings share no field (a plugin's keys have its prefix), a default is a value, ids
begin at 1, and the tables the program starts with are finite and have the schema of the
models (`Schema`: names unique but for buttons', ends that exist, one rule for a button
and a tag). No name is the mark of an assignment without a mask ("none"), which the code
keeps apart as null.

Only model-checked:

* all liveness (`CommandsEnd`, `RunEnds`, `PausesEnd`, `PumpGoesOff`), which the prover
  cannot treat under fairness;
* `PaletteStep`: `SelectSeq` is a recursive definition, out of the prover's reach.

The type invariants of CommandLifecycle, Workflow, HotWater, NvrSync and ButtonRules are
proved, and
the types of PauseRearm and Schedules are a part of their invariants; in the other
modules the type invariant documents what the variables are.

## 5. What is left out, and why

* The text of mails, pages and log lines; colours, names and sort orders.
* Reolink's HTTP protocol, SAQ's and Redis's inside. What `src/` relies on is
  modelled: durable jobs, one slot, a time-out that raises CancelledError,
  a stopped worker that requeues its job if the CancelledError escapes from it, and
  a crashed active job that is not tried again.
* The forms of devices, tags, masks and buttons are single steps in Backup: what they
  do between two awaits is in ButtonRules, Schedules and NvrSync. The reading of a
  malformed file is left out: a file is what an export wrote.
* The translation of a schedule into the NVR's weekly table, and the client's cached
  host; the plugin framework's discovery at start-up; the migrations, which generate the
  tables; the pages that only read.
* `assign_bitmask`, `delete_assignment` and the enabling and disabling of a type,
  which no page calls: assignments come from an import only. Zone masks are data.
* The three scheduling functions without a caller, and AppState.current_mode,
  which is read but never written.
* The retries of a PTZ call: three attempts are one outcome.
* Exceptions of the database, but where a unique or missing row causes them: that a
  `save()` raises for another reason half way through a post of core settings, or in a
  request of the hot-water plugin, is not modelled. A process that ends there is.
* The delay of a delayed Set Away, but for the place it takes in the graph: it
  sleeps inside the job, whose time-out does not count it. A job that is aborted
  there is an `Abort` at that node.

## 6. Plan

Done: the modules, in the order CommandLifecycle and CommandSpec, Workflow, PauseRearm,
HotWater, ButtonRules, NvrSync, Schedules, AppConfig with Backup, Accounts; the
refinement of CommandSpec; and a proof of every safety property the runs check, but for
those listed at the end of section 4.

Next:

1. **ReolinkTables**: the translation of a 24-hour mask to the NVR's weekly table and
   back, in the place of the opaque schedules of PauseRearm; the client's cached host.
2. The forms of zone masks, PTZ presets and power buttons (`routes/devices.py`).
3. Composition: PauseRearm with CommandLifecycle (a cut-off job there is the
   `Timeout`, `Stop` or `Crash` here), with Workflow's node order as the abstract
   view of one job.
