------------------------------ MODULE Workflow ------------------------------
(***************************************************************************)
(* One run of a workflow graph: run_workflow and the graph part of         *)
(* execute_rearm (services/queue.py), the graphs of workflows/graphs.py    *)
(* and every node of workflows/nodes/.                                     *)
(*                                                                         *)
(* A node works through state.device_ids and names its successor; a        *)
(* successor that is not a node of the running graph makes pydantic-graph  *)
(* raise.  A camera stands for its detection types, which every node       *)
(* handles alike; devices without a channel (the power plugs) are skipped  *)
(* by every node and left out.  A device call that raises may have had its *)
(* effect, and the NVR may accept a schedule without storing it.           *)
(***************************************************************************)
EXTENDS FiniteSets

CONSTANTS
  Devices,   \* the enabled cameras
  Powered,   \* those behind a Tapo or Sonoff plug (power_device_id)
  Ptz,       \* those with has_ptz and both presets
  Zoned,     \* those with zone masks enabled and set for both modes
  Kinds      \* the command types under study: away, home, pause, apply, rearm

ASSUME WorkflowAssumption ==
  /\ Powered \subseteq Devices /\ Ptz \subseteq Devices /\ Zoned \subseteq Devices
  /\ Kinds \subseteq {"away", "home", "pause", "apply", "rearm"}

VARIABLES
  kind,          \* command_type, or "rearm" for is_rearm
  muteOn,        \* mute_duration_seconds is not None (the button's setting)
  muteIds,       \* mute_tag_device_ids
  scope,         \* device_ids
  node, mode, todo,       \* the node that runs, its mode, the devices it has left
  pending,       \* WaitForPowerOn: the cameras not seen online yet
  results,       \* device_results
  hasErrors,     \* has_errors
  expected,      \* expected_bitmasks
  discrepancies, \* validation_discrepancies
  saved, consumed,        \* SavedDeviceState of this command; is_consumed
  mail,          \* the verdict of the notification that was sent
  loggedIn,      \* nvr_logged_in
  session,       \* the NVR holds a session of ours
  power, online, aim, mask, \* the cameras: plug, reachable, PTZ position, schedule
  window,        \* the mute window: not begun, open or over
  raised,        \* the graph is left by an exception
  outcome,       \* what run_workflow returns or raises; execute_rearm tells nobody
  failures, unread, logoutTried  \* history: what failed, unreadable cameras, logouts

runVars  == <<kind, muteOn, muteIds>>
nodeVars == <<scope, node, mode, todo, raised>>
errVars  == <<results, hasErrors, failures>>
dataVars == <<expected, discrepancies, saved, consumed, unread, mail>>
nvrVars  == <<loggedIn, session, logoutTried>>
camVars  == <<power, online, aim, mask>>
vars == <<runVars, nodeVars, pending, errVars, dataVars, nvrVars, camVars, window, outcome>>

-----------------------------------------------------------------------------
(* The graphs. *)

AwayNodes == {"OptionalDelay", "NVRLogin", "PowerOn", "WaitForPowerOn", "PTZCalibrate",
              "SetPTZPreset", "SetNotificationBitmasks", "SetZoneMasks", "Validate",
              "NVRLogout", "Notify"}
HomeNodes == {"NVRLogin", "SetNotificationBitmasks", "SetZoneMasks", "SetPTZHome",
              "PowerOff", "Validate", "NVRLogout", "Notify"}
MuteNodes == {"IngressEgressMute", "WaitForMuteExpiry"}

Graph ==
  CASE kind = "away"  -> AwayNodes \cup (IF muteOn THEN MuteNodes ELSE {})
    [] kind = "home"  -> HomeNodes \cup (IF muteOn THEN MuteNodes ELSE {})
    [] kind = "pause" -> (AwayNodes \ {"OptionalDelay"})
                           \cup {"FilterByTag", "SaveBitmasks", "ScheduleReArm"}
    [] kind = "apply" -> {"NVRLogin", "SetNotificationBitmasks", "Validate",
                          "NVRLogout", "Notify"}
    [] kind = "rearm" -> {"NVRLogin", "RestoreBitmasks", "SetPTZHome", "PowerOff",
                          "Validate", "NVRLogout", "Notify"}

Start == CASE muteOn           -> "IngressEgressMute"
           [] kind = "away"    -> "OptionalDelay"
           [] kind = "pause"   -> "FilterByTag"
           [] OTHER            -> "NVRLogin"

Masks == {"zero", "away", "home", "prior"}  \* "prior": what was set before the command

Init ==
  /\ kind \in Kinds
  /\ muteOn \in IF kind \in {"away", "home"} THEN BOOLEAN ELSE {FALSE}
  /\ muteIds \in IF muteOn THEN SUBSET Devices ELSE {{}}
  /\ scope \in IF kind \in {"away", "home", "apply"} THEN SUBSET Devices ELSE {Devices}
  /\ node = Start /\ mode = "away"
  /\ todo = (IF muteOn THEN muteIds ELSE scope) /\ pending = {}
  /\ results = [d \in Devices |-> "none"] /\ hasErrors = FALSE /\ failures = {}
  /\ expected = [d \in Devices |-> "none"] /\ discrepancies = {} /\ unread = {}
  /\ saved \in [Devices -> IF kind = "rearm" THEN {"none", "prior"} ELSE {"none"}]
  /\ consumed = {} /\ mail = "none"
  /\ loggedIn = FALSE /\ session = FALSE /\ logoutTried = FALSE
  /\ power \in {p \in [Devices -> BOOLEAN] : \A d \in Devices \ Powered : p[d]}
  /\ online = power
  /\ aim = [d \in Devices |-> IF kind \in {"home", "rearm"} THEN "away" ELSE "home"]
  /\ mask = [d \in Devices |-> IF kind = "rearm" THEN "away" ELSE "prior"]
  /\ window = "none" /\ raised = FALSE /\ outcome = "running"

-----------------------------------------------------------------------------
(* Control: the next node, the next device of a node, and exceptions. *)

Raise == /\ node' = "finally" /\ raised' = TRUE
         /\ UNCHANGED <<scope, mode, todo>>

EnterWith(n, m) ==
  IF n \in Graph THEN /\ node' = n /\ mode' = m /\ todo' = scope
                      /\ UNCHANGED <<scope, raised>>
                 ELSE Raise

Enter(n) == EnterWith(n, mode)

DoneWith(n) == node = n /\ todo = {}

Device(n, d) ==
  /\ node = n /\ d \in todo
  /\ todo' = todo \ {d}
  /\ UNCHANGED <<scope, node, mode, raised>>

\* The `except` of a node that marks the device, and of one that only logs.
MarkSilent(n, d) ==  \* mutant: the device is marked but has_errors is not set
  /\ results' = [results EXCEPT ![d] = "error"] /\ failures' = failures \cup {n}
  /\ UNCHANGED hasErrors
Mark(n, d) ==
  /\ results' = [results EXCEPT ![d] = "error"] /\ hasErrors' = TRUE
  /\ failures' = failures \cup {n}
LogOnly(n) == failures' = failures \cup {n} /\ UNCHANGED <<results, hasErrors>>

-----------------------------------------------------------------------------
(* Before the devices: the mute, the delay, the tag filter and the login. *)

\* The NVR session of IngressEgressMute is its own: nvr_logged_in stays FALSE.
\* Its login is the first await, its logout the last, and both may raise.
MuteLogin ==
  /\ node = "IngressEgressMute" /\ ~session /\ muteIds # {}
  /\ \/ session' = TRUE /\ UNCHANGED <<nodeVars, errVars, logoutTried, loggedIn>>
     \/ session' \in BOOLEAN /\ Raise /\ LogOnly("login") /\ UNCHANGED <<logoutTried, loggedIn>>
  /\ UNCHANGED <<runVars, pending, dataVars, camVars, window, outcome>>

MuteDevice(d) ==
  /\ session /\ Device("IngressEgressMute", d)
  /\ \/ mask' = [mask EXCEPT ![d] = "zero"] /\ UNCHANGED errVars
     \/ LogOnly("IngressEgressMute") /\ mask' \in {mask, [mask EXCEPT ![d] = "zero"]}
  /\ UNCHANGED <<runVars, pending, dataVars, nvrVars, power, online, aim, window, outcome>>

AfterMute == IF kind = "away" THEN "OptionalDelay" ELSE "NVRLogin"

MuteLogout ==
  /\ session /\ DoneWith("IngressEgressMute")
  /\ logoutTried' = TRUE
  /\ \/ session' = FALSE /\ window' = "open" /\ Enter(AfterMute) /\ UNCHANGED errVars
     \/ Raise /\ LogOnly("logout") /\ UNCHANGED <<session, window>>
  /\ UNCHANGED <<runVars, pending, dataVars, loggedIn, camVars, outcome>>

MuteNobody ==
  /\ node = "IngressEgressMute" /\ muteIds = {}
  /\ Enter(AfterMute)
  /\ UNCHANGED <<runVars, pending, errVars, dataVars, nvrVars, camVars, window, outcome>>

OptionalDelay ==
  /\ node = "OptionalDelay"
  /\ Enter("NVRLogin")
  /\ UNCHANGED <<runVars, pending, errVars, dataVars, nvrVars, camVars, window, outcome>>

FilterByTag ==
  /\ node = "FilterByTag"
  /\ scope' \in SUBSET scope
  /\ node' = "NVRLogin"
  /\ UNCHANGED <<runVars, mode, todo, raised, pending, errVars, dataVars, nvrVars, camVars,
                 window, outcome>>

AfterLogin == CASE kind = "rearm" -> "RestoreBitmasks"
                [] kind = "home"  -> IF muteOn THEN "SetPTZHome" ELSE "SetNotificationBitmasks"
                [] kind = "away"  -> "PowerOn"
                [] OTHER          -> "SaveBitmasks"

\* login() can raise, or be cancelled, after the token exchange: the NVR has a session
\* that nvr_logged_in does not know of.
NVRLogin ==
  /\ node = "NVRLogin"
  /\ logoutTried' = FALSE
  /\ \/ /\ session' = TRUE /\ loggedIn' = TRUE
        /\ EnterWith(AfterLogin, IF kind = "home" THEN "home" ELSE mode)
        /\ UNCHANGED errVars
     \/ session' \in BOOLEAN /\ Raise /\ LogOnly("login") /\ UNCHANGED loggedIn
  /\ UNCHANGED <<runVars, pending, dataVars, camVars, window, outcome>>

-----------------------------------------------------------------------------
(* Power. *)

\* The plug after a call: an error may hide that it switched.
Switched(d, ok, to) ==
  power' \in IF ok THEN {[power EXCEPT ![d] = to]} ELSE {power, [power EXCEPT ![d] = to]}

PowerOn(d) ==
  /\ Device("PowerOn", d)
  /\ IF d \notin Powered THEN UNCHANGED <<power, errVars>>
     ELSE \/ Switched(d, TRUE, TRUE) /\ UNCHANGED errVars
          \/ Switched(d, FALSE, TRUE) /\ Mark("PowerOn", d)
  /\ UNCHANGED <<runVars, pending, dataVars, nvrVars, online, aim, mask, window, outcome>>

PowerOnDone ==
  /\ DoneWith("PowerOn")
  /\ pending' = scope \cap Powered
  /\ Enter("WaitForPowerOn")
  /\ UNCHANGED <<runVars, errVars, dataVars, nvrVars, camVars, window, outcome>>

AfterWaitSave == "SaveBitmasks"  \* mutant: Set Away saves the schedules too
AfterWait == IF kind = "away" THEN "PTZCalibrate" ELSE "SaveBitmasks"

Poll ==
  /\ node = "WaitForPowerOn"
  /\ pending # {} /\ \E d \in pending : online[d]
  /\ pending' = {d \in pending : ~online[d]}
  /\ UNCHANGED <<runVars, nodeVars, errVars, dataVars, nvrVars, camVars, window, outcome>>

\* Every camera answered, or power_on_timeout_seconds is over.
TimedOutUnmarked(late) == UNCHANGED errVars  \* mutant: time-outs leave no result
TimedOut(late) ==
  /\ results' = [d \in Devices |-> IF d \in late THEN "error" ELSE results[d]]
  /\ hasErrors' = (hasErrors \/ late # {})
  /\ failures' = failures \cup (IF late # {} THEN {"WaitForPowerOn"} ELSE {})

WaitForPowerOnForever ==  \* mutant: there is no time-out
  /\ node = "WaitForPowerOn" /\ pending = {}
  /\ Enter(AfterWait)
  /\ UNCHANGED <<runVars, pending, errVars, dataVars, nvrVars, camVars, window, outcome>>

WaitForPowerOn ==
  /\ node = "WaitForPowerOn"
  /\ pending' = {} /\ TimedOut(pending)
  /\ Enter(AfterWait)
  /\ UNCHANGED <<runVars, dataVars, nvrVars, camVars, window, outcome>>

PowerOff(d) ==
  /\ Device("PowerOff", d)
  /\ IF d \notin Powered THEN UNCHANGED <<power, online, errVars>>
     ELSE /\ \/ Switched(d, TRUE, FALSE) /\ UNCHANGED errVars
             \/ Switched(d, FALSE, FALSE) /\ Mark("PowerOff", d)
          /\ online' = [online EXCEPT ![d] = @ /\ power'[d]]
  /\ UNCHANGED <<runVars, pending, dataVars, nvrVars, aim, mask, window, outcome>>

PowerOffDone ==
  /\ DoneWith("PowerOff")
  /\ Enter(IF muteOn THEN "WaitForMuteExpiry" ELSE "Validate")
  /\ UNCHANGED <<runVars, pending, errVars, dataVars, nvrVars, camVars, window, outcome>>

-----------------------------------------------------------------------------
(* PTZ: three attempts per call, whose failure is logged and forgotten.    *)

SkippedNever(d) == d \notin Ptz  \* mutant: cameras that did not come online are moved
Skipped(d) == d \notin Ptz \/ results[d] # "none"

PTZCalibrate(d) ==
  /\ Device("PTZCalibrate", d)
  /\ \/ UNCHANGED errVars
     \/ ~Skipped(d) /\ LogOnly("PTZCalibrate")
  /\ UNCHANGED <<runVars, pending, dataVars, nvrVars, camVars, window, outcome>>

PTZCalibrateDone ==
  /\ DoneWith("PTZCalibrate")
  /\ Enter("SetPTZPreset")
  /\ UNCHANGED <<runVars, pending, errVars, dataVars, nvrVars, camVars, window, outcome>>

Move(n, d, to) ==
  \/ aim' = [aim EXCEPT ![d] = to] /\ UNCHANGED errVars
  \/ aim' \in {aim, [aim EXCEPT ![d] = to]} /\ LogOnly(n)

SetPTZPreset(d) ==
  /\ Device("SetPTZPreset", d)
  /\ IF Skipped(d) THEN UNCHANGED <<aim, errVars>> ELSE Move("SetPTZPreset", d, "away")
  /\ UNCHANGED <<runVars, pending, dataVars, nvrVars, power, online, mask, window, outcome>>

SetPTZPresetDone ==
  /\ DoneWith("SetPTZPreset")
  /\ IF muteOn THEN Enter("WaitForMuteExpiry") ELSE EnterWith("SetNotificationBitmasks", "away")
  /\ UNCHANGED <<runVars, pending, errVars, dataVars, nvrVars, camVars, window, outcome>>

SetPTZHome(d) ==
  /\ Device("SetPTZHome", d)
  /\ IF d \notin Ptz THEN UNCHANGED <<aim, errVars>> ELSE Move("SetPTZHome", d, "home")
  /\ UNCHANGED <<runVars, pending, dataVars, nvrVars, power, online, mask, window, outcome>>

SetPTZHomeDone ==
  /\ DoneWith("SetPTZHome")
  /\ Enter("PowerOff")
  /\ UNCHANGED <<runVars, pending, errVars, dataVars, nvrVars, camVars, window, outcome>>

-----------------------------------------------------------------------------
(* Schedules and zones. *)

\* The end of the window, and the final masks it lets through.
WaitForMuteExpiryEarly ==  \* mutant: the remaining time is not slept
  /\ node = "WaitForMuteExpiry"
  /\ EnterWith("SetNotificationBitmasks", IF kind = "home" THEN "home" ELSE "away")
  /\ UNCHANGED <<runVars, pending, errVars, dataVars, nvrVars, camVars, window, outcome>>

WaitForMuteExpiryAway ==  \* mutant: the node's default mode is used for home too
  /\ node = "WaitForMuteExpiry" /\ window # "open"
  /\ EnterWith("SetNotificationBitmasks", "away")
  /\ UNCHANGED <<runVars, pending, errVars, dataVars, nvrVars, camVars, window, outcome>>

WaitForMuteExpiry ==
  /\ node = "WaitForMuteExpiry" /\ window # "open"
  /\ EnterWith("SetNotificationBitmasks", IF kind = "home" THEN "home" ELSE "away")
  /\ UNCHANGED <<runVars, pending, errVars, dataVars, nvrVars, camVars, window, outcome>>

\* set_alarm_schedule accepted: the NVR stored the mask, or not.
SetNotificationBitmasks(d) ==
  /\ Device("SetNotificationBitmasks", d)
  /\ mask' \in {mask, [mask EXCEPT ![d] = mode]}
  /\ \/ /\ expected' = [expected EXCEPT ![d] = mode]
        /\ results' = [results EXCEPT ![d] = "succeeded"]
        /\ UNCHANGED <<hasErrors, failures>>
     \/ Mark("SetNotificationBitmasks", d) /\ UNCHANGED expected
  /\ UNCHANGED <<runVars, pending, discrepancies, saved, consumed, unread, mail, nvrVars,
                 power, online, aim, window, outcome>>

SetNotificationBitmasksDone ==
  /\ DoneWith("SetNotificationBitmasks")
  /\ Enter("SetZoneMasks")
  /\ UNCHANGED <<runVars, pending, errVars, dataVars, nvrVars, camVars, window, outcome>>

\* The zone calls of the NVR client raise NotImplementedError.
SetZoneMasks(d) ==
  /\ Device("SetZoneMasks", d)
  /\ \/ d \notin Zoned /\ UNCHANGED errVars
     \/ Mark("SetZoneMasks", d)
  /\ UNCHANGED <<runVars, pending, dataVars, nvrVars, camVars, window, outcome>>

SetZoneMasksDone ==
  /\ DoneWith("SetZoneMasks")
  /\ Enter(IF mode = "home" /\ ~muteOn THEN "SetPTZHome" ELSE "Validate")
  /\ UNCHANGED <<runVars, pending, errVars, dataVars, nvrVars, camVars, window, outcome>>

SaveBitmasks(d) ==
  /\ Device("SaveBitmasks", d)
  /\ \/ d \notin Zoned /\ saved' = [saved EXCEPT ![d] = mask[d]] /\ UNCHANGED errVars
     \/ Mark("SaveBitmasks", d) /\ UNCHANGED saved
  /\ UNCHANGED <<runVars, pending, expected, discrepancies, consumed, unread, mail, nvrVars,
                 camVars, window, outcome>>

SaveBitmasksDone ==
  /\ DoneWith("SaveBitmasks")
  /\ IF kind = "pause" THEN EnterWith("SetNotificationBitmasks", "away")
                       ELSE Enter("PTZCalibrate")
  /\ UNCHANGED <<runVars, pending, errVars, dataVars, nvrVars, camVars, window, outcome>>

RestoreBitmasks(d) ==
  /\ Device("RestoreBitmasks", d)
  /\ IF saved[d] = "none" THEN UNCHANGED <<mask, consumed, errVars>>
     ELSE /\ mask' \in {mask, [mask EXCEPT ![d] = saved[d]]}
          /\ \/ consumed' = consumed \cup {d} /\ UNCHANGED errVars
             \/ Mark("RestoreBitmasks", d) /\ UNCHANGED consumed
  /\ UNCHANGED <<runVars, pending, expected, discrepancies, saved, unread, mail, nvrVars,
                 power, online, aim, window, outcome>>

RestoreBitmasksDone ==
  /\ DoneWith("RestoreBitmasks")
  /\ IF kind = "rearm" THEN Enter("SetPTZHome")
                       ELSE EnterWith("SetNotificationBitmasks", "home")
  /\ UNCHANGED <<runVars, pending, errVars, dataVars, nvrVars, camVars, window, outcome>>

ValidateNothing(d) ==  \* mutant: the comparison finds every mask right
  /\ Device("Validate", d)
  /\ UNCHANGED <<runVars, pending, errVars, dataVars, nvrVars, camVars, window, outcome>>

Validate(d) ==
  /\ Device("Validate", d)
  /\ \/ expected[d] = "none" /\ UNCHANGED <<discrepancies, unread>>
     \/ /\ expected[d] # "none" /\ d \notin Zoned
        /\ discrepancies' = discrepancies \cup {e \in {d} : mask[e] # expected[e]}
        /\ UNCHANGED unread
     \/ expected[d] # "none" /\ unread' = unread \cup {d} /\ UNCHANGED discrepancies
  /\ UNCHANGED <<runVars, pending, errVars, expected, saved, consumed, mail, nvrVars, camVars,
                 window, outcome>>

ValidateDone ==
  /\ DoneWith("Validate")
  /\ Enter("NVRLogout")
  /\ UNCHANGED <<runVars, pending, errVars, dataVars, nvrVars, camVars, window, outcome>>

-----------------------------------------------------------------------------
(* After the devices. *)

\* A pause without a positive pause_minutes schedules no re-arm.
AfterLogout == IF kind = "pause" THEN {"ScheduleReArm", "Notify"} ELSE {"Notify"}

NVRLogout ==
  /\ node = "NVRLogout"
  /\ logoutTried' = TRUE /\ loggedIn' = FALSE
  /\ \/ session' = FALSE /\ UNCHANGED errVars
     \/ UNCHANGED session /\ LogOnly("logout")
  /\ \E n \in AfterLogout : Enter(n)
  /\ UNCHANGED <<runVars, pending, dataVars, camVars, window, outcome>>

\* The subject of the mail counts the discrepancies and the status in the command's row, which
\* is RUNNING as yet, or, for a re-arm, what its pause came to; has_errors does not count.
Verdict == IF discrepancies # {} THEN {"failed"}
           ELSE IF kind = "rearm" THEN {"passed", "failed"} ELSE {"passed"}

\* A notification that fails, sent or not, is logged.
Notify ==
  /\ node = "Notify" /\ node' = "finally"
  /\ \/ mail' \in Verdict /\ UNCHANGED errVars
     \/ mail' \in Verdict \cup {"none"} /\ LogOnly("Notify")
  /\ UNCHANGED <<runVars, scope, mode, todo, raised, pending, expected, discrepancies, saved,
                 consumed, unread, nvrVars, camVars, window, outcome>>

\* A schedule_rearm that fails is an exception (Abort).
ScheduleReArm ==
  /\ node = "ScheduleReArm" /\ node' = "finally"
  /\ UNCHANGED <<runVars, scope, mode, todo, raised, pending, errVars, dataVars, nvrVars,
                 camVars, window, outcome>>

\* The job's time-out, or an exception outside a node's try: Device.get, log_activity,
\* refresh_channel_states, rediscover_channels, schedule_rearm.  IngressEgressMute and
\* NVRLogout have a finally of their own.
Abort ==
  /\ node \notin {"finally", "end"}
  /\ Raise
  /\ LogOnly("abort")
  /\ CASE node = "IngressEgressMute" /\ session ->
            /\ session' \in BOOLEAN /\ logoutTried' = TRUE /\ UNCHANGED loggedIn
       [] node = "NVRLogout" ->
            session' \in BOOLEAN /\ logoutTried' = TRUE /\ loggedIn' = FALSE
       [] OTHER -> UNCHANGED nvrVars
  /\ UNCHANGED <<runVars, pending, dataVars, camVars, window, outcome>>

\* execute_rearm drops has_errors and logs the exception.
Report == IF kind = "rearm" THEN "over"
          ELSE IF raised THEN "failed" ELSE IF hasErrors THEN "errors" ELSE "ok"

\* The finally of run_workflow and execute_rearm.
FinallyNone ==  \* mutant: no safety net
  /\ node = "finally" /\ node' = "end"
  /\ outcome' = Report
  /\ UNCHANGED <<runVars, scope, mode, todo, raised, pending, errVars, dataVars, nvrVars,
                 camVars, window>>

Finally ==
  /\ node = "finally" /\ node' = "end"
  /\ loggedIn' = FALSE
  /\ IF loggedIn THEN session' \in {session, FALSE} /\ logoutTried' = TRUE
                 ELSE UNCHANGED <<session, logoutTried>>
  /\ outcome' = Report
  /\ UNCHANGED <<runVars, scope, mode, todo, raised, pending, errVars, dataVars, camVars, window>>

-----------------------------------------------------------------------------
(* The world: a camera boots after its plug was switched on, and the mute  *)
(* window ends.                                                            *)

Boot(d) ==
  /\ node # "end" /\ power[d] /\ ~online[d]
  /\ online' = [online EXCEPT ![d] = TRUE]
  /\ UNCHANGED <<runVars, nodeVars, pending, errVars, dataVars, nvrVars, power, aim, mask,
                 window, outcome>>

Expire ==
  /\ window = "open" /\ window' = "over"
  /\ UNCHANGED <<runVars, nodeVars, pending, errVars, dataVars, nvrVars, camVars, outcome>>

DeviceStep ==
  \E d \in Devices :
     \/ MuteDevice(d) \/ PowerOn(d) \/ PowerOff(d) \/ PTZCalibrate(d) \/ SetPTZPreset(d)
     \/ SetPTZHome(d) \/ SetNotificationBitmasks(d) \/ SetZoneMasks(d) \/ SaveBitmasks(d)
     \/ RestoreBitmasks(d) \/ Validate(d)

NodeStep ==
  \/ MuteLogin \/ MuteLogout \/ MuteNobody \/ OptionalDelay \/ FilterByTag \/ NVRLogin
  \/ PowerOnDone \/ WaitForPowerOn \/ PTZCalibrateDone \/ SetPTZPresetDone
  \/ WaitForMuteExpiry \/ SetNotificationBitmasksDone \/ SetZoneMasksDone
  \/ SaveBitmasksDone \/ RestoreBitmasksDone \/ SetPTZHomeDone \/ PowerOffDone
  \/ ValidateDone \/ NVRLogout \/ Notify \/ ScheduleReArm \/ Finally

Next == DeviceStep \/ NodeStep \/ Poll \/ Abort \/ (\E d \in Devices : Boot(d)) \/ Expire

Spec == Init /\ [][Next]_vars

\* The coroutine goes on, its wait has a time-out, and the clock runs.
FairSpec == Spec /\ WF_vars(DeviceStep \/ NodeStep) /\ WF_vars(Expire)

-----------------------------------------------------------------------------
(* Properties. *)

Ended == outcome # "running"

\* The type invariant.
TypeOK ==
  /\ kind \in Kinds /\ muteOn \in BOOLEAN /\ muteIds \subseteq Devices
  /\ scope \subseteq Devices /\ todo \subseteq Devices /\ pending \subseteq Devices
  /\ node \in AwayNodes \cup HomeNodes \cup MuteNodes
                \cup {"FilterByTag", "SaveBitmasks", "RestoreBitmasks", "ScheduleReArm",
                      "finally", "end"}
  /\ mode \in {"away", "home"}
  /\ results \in [Devices -> {"none", "error", "succeeded"}]
  /\ expected \in [Devices -> {"none", "away", "home"}]
  /\ saved \in [Devices -> {"none"} \cup Masks]
  /\ discrepancies \subseteq Devices /\ unread \subseteq Devices /\ consumed \subseteq Devices
  /\ {hasErrors, loggedIn, session, raised, logoutTried} \subseteq BOOLEAN
  /\ power \in [Devices -> BOOLEAN] /\ online \in [Devices -> BOOLEAN]
  /\ aim \in [Devices -> {"home", "away"}] /\ mask \in [Devices -> Masks]
  /\ window \in {"none", "open", "over"}
  /\ outcome \in {"running", "ok", "errors", "failed", "over"}
  /\ mail \in {"none", "passed", "failed"}

\* Whatever ends a run - an exception in any node, a time-out, a successor outside the
\* graph - the NVR session is closed or a logout was tried, unless the login broke off.
SessionClosed == Ended /\ session => logoutTried \/ "login" \in failures

\* A camera behind a plug is moved to its away preset only once it is online: one that
\* did not come up in time is passed over by the PTZ nodes.
AwayPtzOnline ==
  [][\A d \in Powered : aim[d] # "away" /\ aim'[d] = "away" => online[d]]_vars

\* While the mute window is open, no node gives a muted camera a schedule back.
MuteHonoured ==
  [][\A d \in muteIds : window = "open" /\ mask'[d] # mask[d] => mask'[d] = "zero"]_vars

\* The schedule a command is for: home for Set Home, the away one for the others.
Target == IF kind = "home" THEN "home" ELSE "away"

\* A run that ends with no exception and no has_errors left every camera in scope with its
\* schedule, or it could not be read back, or it is on the list of discrepancies and no mail
\* said PASS; such a re-arm has written every saved schedule back.
OkMeansApplied ==
  Ended /\ ~raised /\ ~hasErrors =>
    \A d \in scope :
      \/ kind # "rearm" /\ (mask[d] = Target \/ d \in unread
                              \/ (d \in discrepancies /\ mail # "passed"))
      \/ kind = "rearm" /\ (saved[d] = "none" \/ d \in consumed)

\* A command whose run is reported without errors had none but those of the best-effort calls.
\* Nothing of the kind holds of a re-arm, whose run is reported to nobody, nor of the mail,
\* which says PASS with errors, too.
ErrorsReported ==
  outcome = "ok" => failures \subseteq
    {"IngressEgressMute", "PTZCalibrate", "SetPTZPreset", "SetPTZHome", "logout", "Notify"}

\* A run is left by an exception only when a login, a mute's logout or something outside the
\* nodes' own handlers failed: every node names a successor of its own graph.
FailsOnlyByFault ==
  Ended /\ raised => failures \cap {"login", "logout", "abort"} # {}

\* Every run ends: no node waits for a camera or for the mute window for ever.
RunEnds == <>Ended

-----------------------------------------------------------------------------
(* The inductive invariant: what each node may rely on. *)

\* Where a run is, and the mode that goes with it.
Control ==
  /\ node \in Graph \cup {"finally", "end"}
  /\ muteOn => kind \in {"away", "home"}
  /\ mode = "home" => kind = "home"
  /\ node = "end" <=> Ended
  /\ outcome = "failed" => raised

\* An exception has a cause: only the apply graph is left for a missing node.
Caused == raised => kind = "apply" \/ failures \cap {"login", "logout", "abort"} # {}

\* Who holds the NVR session: a run that knows of it, the mute node, or nobody.
SessionKept ==
  /\ node = "end" => ~loggedIn
  /\ session /\ node = "IngressEgressMute" => muteIds # {}
  /\ session /\ ~loggedIn =>
       logoutTried \/ "login" \in failures \/ node = "IngressEgressMute"

\* What the wait for the plugs found out stays true up to the PTZ nodes.
PowerKnown ==
  /\ node \in {"PowerOn", "WaitForPowerOn"} => kind = "away"
  /\ node = "WaitForPowerOn" => \A d \in scope \cap Powered : d \in pending \/ online[d]
  /\ node \in {"PTZCalibrate", "SetPTZPreset"} =>
       /\ todo \subseteq scope
       /\ \A d \in scope \cap Powered : results[d] # "none" \/ online[d]

\* The nodes of a muted run from its mute to the end of the wait: none writes masks.
Maskless == {"OptionalDelay", "NVRLogin", "PowerOn", "WaitForPowerOn", "PTZCalibrate",
             "SetPTZPreset", "SetPTZHome", "PowerOff", "WaitForMuteExpiry"}

\* The route of a run whose mute window is open passes by every node that writes masks.
WindowRoute ==
  window = "open" => muteOn /\ node \in Maskless \cup {"finally", "end"}

\* No mail is sent before Validate is done, and none says PASS about a discrepancy.
MailRight ==
  /\ mail # "none" => node \in {"finally", "end"}
  /\ mail = "passed" => discrepancies = {}

IInv == TypeOK /\ Control /\ Caused /\ SessionKept /\ PowerKnown /\ WindowRoute /\ MailRight
=============================================================================
