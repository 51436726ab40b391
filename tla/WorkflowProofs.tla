--------------------------- MODULE WorkflowProofs ---------------------------
(***************************************************************************)
(* Proofs about Workflow: the inductive invariant of one run, and what it  *)
(* gives - every session is closed or its logout was tried, cameras move   *)
(* only when they are online, the mute window is honoured, an ok hides no  *)
(* error and means that the schedules are written and compared - for any   *)
(* cameras, plugs, presets and mute tags.                                  *)
(***************************************************************************)
EXTENDS Workflow, TLAPS

Nodes == AwayNodes \cup HomeNodes \cup MuteNodes
           \cup {"FilterByTag", "SaveBitmasks", "RestoreBitmasks", "ScheduleReArm",
                 "finally", "end"}

(* What the parts the actions share do to the types.                       *)

\* The next node has its whole scope before it, or the graph is left.
LEMMA EnterType ==
  ASSUME TypeOK, NEW n \in Nodes, NEW m \in {"away", "home"}, EnterWith(n, m)
  PROVE  /\ node' \in Nodes /\ mode' \in {"away", "home"} /\ todo' \subseteq Devices
         /\ scope' \subseteq Devices /\ raised' \in BOOLEAN
  BY DEF TypeOK, EnterWith, Raise, Nodes

LEMMA MarkType ==
  ASSUME TypeOK, NEW n, NEW d, Mark(n, d) \/ LogOnly(n) \/ UNCHANGED errVars
  PROVE  results' \in [Devices -> {"none", "error", "succeeded"}] /\ hasErrors' \in BOOLEAN
  BY DEF TypeOK, Mark, LogOnly, errVars

(* Types.                                                                  *)

LEMMA TypeInit == Init => TypeOK
<1> SUFFICES ASSUME Init PROVE TypeOK
  OBVIOUS
<1>1. kind \in Kinds /\ muteOn \in BOOLEAN /\ muteIds \subseteq Devices
  BY DEF Init
<1>2. scope \subseteq Devices /\ todo \subseteq Devices /\ pending \subseteq Devices
  BY <1>1 DEF Init
<1>3. node \in Nodes /\ mode \in {"away", "home"}
  BY DEF Init, Start, Nodes, AwayNodes, HomeNodes, MuteNodes
<1>4. /\ results \in [Devices -> {"none", "error", "succeeded"}]
      /\ expected \in [Devices -> {"none", "away", "home"}]
      /\ saved \in [Devices -> {"none"} \cup Masks]
  BY DEF Init, Masks
<1>5. /\ discrepancies \subseteq Devices /\ unread \subseteq Devices /\ consumed \subseteq Devices
      /\ mail \in {"none", "passed", "failed"}
      /\ {hasErrors, loggedIn, session, raised, logoutTried} \subseteq BOOLEAN
  BY DEF Init
<1>6. /\ power \in [Devices -> BOOLEAN] /\ online \in [Devices -> BOOLEAN]
      /\ aim \in [Devices -> {"home", "away"}] /\ mask \in [Devices -> Masks]
  BY DEF Init, Masks
<1>7. window \in {"none", "open", "over"} /\ outcome \in {"running", "ok", "errors", "failed", "over"}
  BY DEF Init
<1> QED BY <1>1, <1>2, <1>3, <1>4, <1>5, <1>6, <1>7 DEF TypeOK, Nodes

LEMMA TypeDevice ==
  ASSUME TypeOK, DeviceStep
  PROVE  TypeOK'
<1> PICK d \in Devices :
      \/ MuteDevice(d) \/ PowerOn(d) \/ PowerOff(d) \/ PTZCalibrate(d) \/ SetPTZPreset(d)
      \/ SetPTZHome(d) \/ SetNotificationBitmasks(d) \/ SetZoneMasks(d) \/ SaveBitmasks(d)
      \/ RestoreBitmasks(d) \/ Validate(d)
  BY DEF DeviceStep
<1> USE MarkType DEF TypeOK, Device, runVars, errVars, dataVars, nvrVars
<1>1. CASE MuteDevice(d)
  BY <1>1 DEF MuteDevice, LogOnly, Masks
<1>2. CASE PowerOn(d)
  BY <1>2 DEF PowerOn, Switched, Mark
<1>3. CASE PowerOff(d)
  BY <1>3 DEF PowerOff, Switched, Mark
<1>4. CASE PTZCalibrate(d)
  BY <1>4 DEF PTZCalibrate, LogOnly, camVars
<1>5. CASE SetPTZPreset(d)
  BY <1>5 DEF SetPTZPreset, Move, LogOnly
<1>6. CASE SetPTZHome(d)
  BY <1>6 DEF SetPTZHome, Move, LogOnly
<1>7. CASE SetNotificationBitmasks(d)
  <2>1. mode \in {"away", "home"} /\ mask' \in [Devices -> Masks]
    BY <1>7 DEF SetNotificationBitmasks, Masks
  <2>2. expected' \in [Devices -> {"none", "away", "home"}]
    BY <1>7, <2>1 DEF SetNotificationBitmasks
  <2>3. results' \in [Devices -> {"none", "error", "succeeded"}] /\ hasErrors' \in BOOLEAN
    BY <1>7 DEF SetNotificationBitmasks, Mark
  <2> QED BY <1>7, <2>1, <2>2, <2>3 DEF SetNotificationBitmasks
<1>8. CASE SetZoneMasks(d)
  BY <1>8 DEF SetZoneMasks, Mark, camVars
<1>9. CASE SaveBitmasks(d)
  <2>1. /\ Mark("SaveBitmasks", d) \/ UNCHANGED errVars
        /\ UNCHANGED <<runVars, scope, node, mode, raised, pending, expected, discrepancies,
                       consumed, unread, mail, nvrVars, camVars, window, outcome>>
        /\ todo' \subseteq Devices /\ saved' \in [Devices -> {"none"} \cup Masks]
    BY <1>9 DEF SaveBitmasks
  <2>2. results' \in [Devices -> {"none", "error", "succeeded"}] /\ hasErrors' \in BOOLEAN
    BY <2>1, MarkType
  <2> QED BY <2>1, <2>2 DEF camVars
<1>10. CASE RestoreBitmasks(d)
  <2>1. mask' \in [Devices -> Masks]
    BY <1>10 DEF RestoreBitmasks, Masks
  <2>2. consumed' \subseteq Devices
    BY <1>10 DEF RestoreBitmasks
  <2>4. Mark("RestoreBitmasks", d) \/ UNCHANGED errVars
    BY <1>10 DEF RestoreBitmasks
  <2>5. results' \in [Devices -> {"none", "error", "succeeded"}] /\ hasErrors' \in BOOLEAN
    BY <2>4, MarkType
  <2>3. UNCHANGED <<runVars, scope, node, mode, raised, pending, expected, discrepancies,
                    saved, unread, mail, nvrVars, power, online, aim, window, outcome>>
        /\ todo' \subseteq Devices
    BY <1>10 DEF RestoreBitmasks
  <2>6. {hasErrors, loggedIn, session, raised, logoutTried}' \subseteq BOOLEAN
    BY <2>3, <2>5
  <2> QED BY <2>1, <2>2, <2>3, <2>5, <2>6
<1>11. CASE Validate(d)
  BY <1>11 DEF Validate, camVars
<1> QED BY <1>1, <1>2, <1>3, <1>4, <1>5, <1>6, <1>7, <1>8, <1>9, <1>10, <1>11

LEMMA TypeNode ==
  ASSUME TypeOK, NodeStep
  PROVE  TypeOK'
<1> USE DEF runVars, nodeVars, errVars, dataVars, nvrVars, camVars
<1>1. CASE MuteLogin
  BY <1>1 DEF MuteLogin, Raise, LogOnly, TypeOK
<1>2. CASE MuteLogout
  <2>1. CASE Raise
    BY <1>2, <2>1 DEF MuteLogout, Raise, LogOnly, TypeOK
  <2>2. CASE Enter(AfterMute) /\ UNCHANGED errVars
    <3>1. node' \in Nodes /\ UNCHANGED mode /\ todo' \subseteq Devices
          /\ UNCHANGED scope /\ raised' \in BOOLEAN
      BY <2>2 DEF Enter, EnterWith, AfterMute, Raise, TypeOK, Nodes, AwayNodes
    <3> QED BY <1>2, <2>2, <3>1 DEF MuteLogout, TypeOK, Nodes
  <2>3. Raise \/ (Enter(AfterMute) /\ UNCHANGED errVars)
    BY <1>2, Zenon DEF MuteLogout
  <2> QED BY <2>1, <2>2, <2>3
<1>3. CASE MuteNobody \/ OptionalDelay
  <2>1. PICK n \in {"OptionalDelay", "NVRLogin"} : Enter(n)
    BY <1>3 DEF MuteNobody, OptionalDelay, AfterMute
  <2>2. node' \in Nodes /\ UNCHANGED mode /\ todo' \subseteq Devices
        /\ UNCHANGED scope /\ raised' \in BOOLEAN
    BY <2>1 DEF Enter, EnterWith, Raise, TypeOK, Nodes, AwayNodes
  <2> QED BY <1>3, <2>2 DEF MuteNobody, OptionalDelay, TypeOK, Nodes
<1>4. CASE FilterByTag
  BY <1>4 DEF FilterByTag, TypeOK, AwayNodes
<1>5. CASE NVRLogin
  BY <1>5 DEF NVRLogin, EnterWith, AfterLogin, Raise, LogOnly, TypeOK, HomeNodes, AwayNodes
<1>6. CASE PowerOnDone
  BY <1>6 DEF PowerOnDone, Enter, EnterWith, Raise, TypeOK, AwayNodes
<1>7. CASE WaitForPowerOn
  BY <1>7 DEF WaitForPowerOn, TimedOut, AfterWait, Enter, EnterWith, Raise, TypeOK, AwayNodes
<1>8. CASE PTZCalibrateDone \/ SetPTZPresetDone \/ WaitForMuteExpiry
  BY <1>8 DEF PTZCalibrateDone, SetPTZPresetDone, WaitForMuteExpiry, Enter, EnterWith, Raise,
              TypeOK, AwayNodes, MuteNodes
<1>9. CASE SetNotificationBitmasksDone \/ SetZoneMasksDone \/ SaveBitmasksDone
  BY <1>9 DEF SetNotificationBitmasksDone, SetZoneMasksDone, SaveBitmasksDone, Enter, EnterWith,
              Raise, TypeOK, AwayNodes, HomeNodes
<1>10. CASE RestoreBitmasksDone \/ SetPTZHomeDone \/ PowerOffDone \/ ValidateDone
  BY <1>10 DEF RestoreBitmasksDone, SetPTZHomeDone, PowerOffDone, ValidateDone, Enter, EnterWith,
              Raise, TypeOK, HomeNodes, MuteNodes
<1>11. CASE NVRLogout
  BY <1>11 DEF NVRLogout, AfterLogout, LogOnly, Enter, EnterWith, Raise, TypeOK, AwayNodes
<1>12. CASE Notify \/ ScheduleReArm
  BY <1>12 DEF Notify, Verdict, ScheduleReArm, LogOnly, TypeOK
<1>13. CASE Finally
  BY <1>13 DEF Finally, Report, TypeOK
<1> QED BY <1>1, <1>2, <1>3, <1>4, <1>5, <1>6, <1>7, <1>8, <1>9, <1>10, <1>11, <1>12, <1>13
        DEF NodeStep

LEMMA TypeWorld ==
  ASSUME TypeOK, Poll \/ Abort \/ (\E d \in Devices : Boot(d)) \/ Expire \/ UNCHANGED vars
  PROVE  TypeOK'
<1> USE DEF runVars, nodeVars, errVars, dataVars, nvrVars, camVars
<1>1. CASE Poll
  BY <1>1 DEF Poll, TypeOK
<1>2. CASE Abort
  BY <1>2 DEF Abort, Raise, LogOnly, TypeOK
<1>3. CASE \E d \in Devices : Boot(d)
  BY <1>3 DEF Boot, TypeOK
<1>4. CASE Expire \/ UNCHANGED vars
  BY <1>4 DEF Expire, TypeOK, vars
<1> QED BY <1>1, <1>2, <1>3, <1>4

THEOREM Typing == Spec => []TypeOK
<1>1. Init => TypeOK
  BY TypeInit
<1>2. TypeOK /\ [Next]_vars => TypeOK'
  BY TypeDevice, TypeNode, TypeWorld DEF Next
<1> QED BY <1>1, <1>2, PTL DEF Spec

(* The steps that stay in a node.                                          *)

\* A device step keeps the run where it is; it only adds failures and results, and takes
\* no camera off line but in PowerOff.
LEMMA DeviceFrame ==
  ASSUME TypeOK, DeviceStep
  PROVE  /\ UNCHANGED <<kind, muteOn, muteIds, scope, node, mode, raised, pending, loggedIn,
                       session, logoutTried, window, outcome>>
         /\ node \notin {"finally", "end"}
         /\ todo' \subseteq todo /\ failures \subseteq failures'
         /\ node # "PowerOff" => online' = online
         /\ \A e \in Devices : results[e] # "none" => results'[e] # "none"
<1> PICK d \in Devices :
      \/ MuteDevice(d) \/ PowerOn(d) \/ PowerOff(d) \/ PTZCalibrate(d) \/ SetPTZPreset(d)
      \/ SetPTZHome(d) \/ SetNotificationBitmasks(d) \/ SetZoneMasks(d) \/ SaveBitmasks(d)
      \/ RestoreBitmasks(d) \/ Validate(d)
  BY DEF DeviceStep
<1> USE DEF TypeOK, Device, runVars, errVars, nvrVars, camVars, Mark, LogOnly
<1>1. CASE MuteDevice(d)
  BY <1>1 DEF MuteDevice
<1>2. CASE PowerOn(d)
  BY <1>2 DEF PowerOn
<1>3. CASE PowerOff(d)
  BY <1>3 DEF PowerOff
<1>4. CASE PTZCalibrate(d)
  BY <1>4 DEF PTZCalibrate
<1>5. CASE SetPTZPreset(d)
  BY <1>5 DEF SetPTZPreset, Move
<1>6. CASE SetPTZHome(d)
  BY <1>6 DEF SetPTZHome, Move
<1>7. CASE SetNotificationBitmasks(d)
  BY <1>7 DEF SetNotificationBitmasks
<1>8. CASE SetZoneMasks(d)
  BY <1>8 DEF SetZoneMasks
<1>9. CASE SaveBitmasks(d)
  BY <1>9 DEF SaveBitmasks
<1>10. CASE RestoreBitmasks(d)
  BY <1>10 DEF RestoreBitmasks
<1>11. CASE Validate(d)
  BY <1>11 DEF Validate, dataVars
<1> QED BY <1>1, <1>2, <1>3, <1>4, <1>5, <1>6, <1>7, <1>8, <1>9, <1>10, <1>11

LEMMA GraphKept == UNCHANGED runVars => Graph' = Graph
  BY DEF Graph, runVars

LEMMA DeviceKeeps ==
  ASSUME IInv, DeviceStep
  PROVE  Control' /\ Caused' /\ SessionKept' /\ PowerKnown' /\ WindowRoute'
<1>0. TypeOK
  BY DEF IInv
<1>1. Control'
  BY <1>0, DeviceFrame, GraphKept DEF IInv, Control, Ended, runVars
<1>2. Caused'
  BY <1>0, DeviceFrame DEF IInv, Caused
<1>3. SessionKept'
  BY <1>0, DeviceFrame DEF IInv, SessionKept
<1>4. PowerKnown'
  BY <1>0, DeviceFrame DEF IInv, PowerKnown, TypeOK
<1>5. WindowRoute'
  BY <1>0, DeviceFrame DEF IInv, WindowRoute
<1> QED BY <1>1, <1>2, <1>3, <1>4, <1>5

(* The world and the exceptions.                                           *)

LEMMA WorldKeeps ==
  ASSUME IInv, Poll \/ (\E d \in Devices : Boot(d)) \/ Expire \/ UNCHANGED vars
  PROVE  Control' /\ Caused' /\ SessionKept' /\ PowerKnown' /\ WindowRoute'
<1>1. UNCHANGED <<kind, muteOn, muteIds, scope, node, mode, todo, raised, results, failures,
                  loggedIn, session, logoutTried, outcome>>
  BY DEF Poll, Boot, Expire, vars, runVars, nodeVars, errVars, nvrVars
<1>2. Control' /\ Caused' /\ SessionKept'
  BY <1>1, GraphKept DEF IInv, Control, Caused, SessionKept, Ended, runVars
<1>3. PowerKnown'
  <2>1. \A d \in scope \cap Powered : online[d] => online'[d]
    BY DEF IInv, TypeOK, Poll, Boot, Expire, vars, camVars
  <2>2. \A d \in scope \cap Powered : d \in pending => d \in pending' \/ online[d]
    BY DEF IInv, TypeOK, Poll, Boot, Expire, vars, camVars
  <2> QED BY <1>1, <2>1, <2>2 DEF IInv, PowerKnown
<1>4. WindowRoute'
  BY <1>1 DEF IInv, WindowRoute, Poll, Boot, Expire, vars
<1> QED BY <1>2, <1>3, <1>4

LEMMA AbortKeeps ==
  ASSUME IInv, Abort
  PROVE  Control' /\ Caused' /\ SessionKept' /\ PowerKnown' /\ WindowRoute'
<1>1. /\ node' = "finally" /\ raised' = TRUE /\ failures' = failures \cup {"abort"}
      /\ UNCHANGED <<kind, muteOn, muteIds, mode, window, outcome>>
      /\ node \notin {"finally", "end"}
  BY DEF Abort, Raise, LogOnly, runVars
<1>2. Control' /\ Caused'
  BY <1>1, GraphKept DEF IInv, Control, Caused, Ended, runVars
<1>3. SessionKept'
  BY <1>1 DEF IInv, SessionKept, Abort, nvrVars, runVars
<1>4. PowerKnown' /\ WindowRoute'
  BY <1>1 DEF IInv, PowerKnown, WindowRoute
<1> QED BY <1>2, <1>3, <1>4

(* The steps that leave a node.                                            *)

Moved(n, m) == node' = n /\ mode' = m /\ todo' = scope /\ UNCHANGED <<scope, raised>>

\* A successor in the graph is entered; only the apply graph is left for a missing one.
LEMMA Routed ==
  ASSUME NEW n, NEW m, EnterWith(n, m), kind = "apply" \/ n \in Graph
  PROVE  (n \in Graph /\ Moved(n, m)) \/ (kind = "apply" /\ Raise)
  BY DEF EnterWith, Moved

\* The nodes a run may go to next: enough of them for every part of the invariant.
Successor(n, m) ==
  /\ kind = "apply" \/ n \in Graph
  /\ m = mode \/ m = "away" \/ (m = "home" /\ kind = "home")
  /\ n \in {"PowerOn", "WaitForPowerOn"} => kind = "away"

LEMMA MoveControl ==
  ASSUME IInv, NEW n, NEW m, EnterWith(n, m), Successor(n, m),
         UNCHANGED runVars, UNCHANGED outcome, node \notin {"finally", "end"},
         failures \subseteq failures', n \notin {"finally", "end"}
  PROVE  Control' /\ Caused'
<1>1. (n \in Graph /\ Moved(n, m)) \/ (kind = "apply" /\ Raise)
  BY Routed DEF Successor
<1>2. CASE n \in Graph /\ Moved(n, m)
  BY <1>2, GraphKept DEF IInv, Control, Caused, Moved, Successor, Ended, runVars
<1>3. CASE kind = "apply" /\ Raise
  BY <1>3, GraphKept DEF IInv, Control, Caused, Raise, Ended, runVars
<1> QED BY <1>1, <1>2, <1>3

\* A step that leaves the session alone and enters a node before the end.
LEMMA MoveSession ==
  ASSUME IInv, UNCHANGED <<runVars, loggedIn, session, logoutTried>>, failures \subseteq failures',
         node' \notin {"end", "IngressEgressMute"},
         node = "IngressEgressMute" => muteIds = {}
  PROVE  SessionKept'
  BY DEF IInv, SessionKept, runVars

\* A step out of the mute window's way: it is closed, or the next node writes no masks.
LEMMA MoveWindow ==
  ASSUME IInv, UNCHANGED runVars, UNCHANGED window,
         window = "open" => node' \in Maskless \cup {"finally", "end"}
  PROVE  WindowRoute'
  BY DEF IInv, WindowRoute, runVars

\* Most nodes: no session, no window and no camera is touched.
LEMMA MoveKeeps ==
  ASSUME IInv, NEW n, NEW m, EnterWith(n, m), Successor(n, m),
         UNCHANGED <<runVars, errVars, nvrVars, camVars, window, outcome>>,
         node \notin {"finally", "end", "WaitForPowerOn"},
         n \notin {"finally", "end", "IngressEgressMute", "WaitForPowerOn"},
         node = "IngressEgressMute" => muteIds = {},
         n \in {"PTZCalibrate", "SetPTZPreset"} => node = "PTZCalibrate",
         window = "open" => n \in Maskless
  PROVE  Control' /\ Caused' /\ SessionKept' /\ PowerKnown' /\ WindowRoute'
<1>1. Control' /\ Caused'
  BY MoveControl DEF errVars
<1>2. Moved(n, m) \/ Raise
  BY DEF EnterWith, Moved
<1>3. node' \in {n, "finally"}
  BY <1>2 DEF Moved, Raise
<1>4. SessionKept'
  BY <1>3, MoveSession DEF nvrVars, errVars
<1>5. PowerKnown'
  BY <1>2 DEF IInv, PowerKnown, Moved, Raise, Successor, runVars, errVars, camVars
<1>6. WindowRoute'
  BY <1>3, MoveWindow
<1> QED BY <1>1, <1>4, <1>5, <1>6

\* The nodes that only choose their successor: it is one the run may go to.
LEMMA PlainKeeps ==
  ASSUME IInv,
         \/ MuteNobody \/ OptionalDelay \/ PTZCalibrateDone \/ SetPTZPresetDone
         \/ WaitForMuteExpiry \/ SetNotificationBitmasksDone \/ SetZoneMasksDone
         \/ SaveBitmasksDone \/ RestoreBitmasksDone \/ SetPTZHomeDone \/ PowerOffDone
         \/ ValidateDone
  PROVE  Control' /\ Caused' /\ SessionKept' /\ PowerKnown' /\ WindowRoute'
<1> DEFINE Quiet == UNCHANGED <<runVars, errVars, nvrVars, camVars, window, outcome>>
<1> DEFINE PassesBy(n) == window = "open" => n \in Maskless
<1> HIDE DEF Quiet, PassesBy
<1>0. /\ node \in Graph \cup {"finally", "end"} /\ (muteOn => kind \in {"away", "home"})
      /\ (mode = "home" => kind = "home") /\ kind \in {"away", "home", "pause", "apply", "rearm"}
      /\ window = "open" => muteOn
      /\ window = "open" => node \notin {"SetNotificationBitmasks", "SetZoneMasks", "SaveBitmasks",
                                        "RestoreBitmasks", "Validate", "IngressEgressMute"}
  BY WorkflowAssumption DEF IInv, Control, WindowRoute, Maskless, TypeOK
<1>1. CASE MuteNobody
  <2>1. node = "IngressEgressMute" /\ muteIds = {} /\ EnterWith(AfterMute, mode) /\ Quiet
    BY <1>1 DEF MuteNobody, DoneWith, Enter, Quiet
  <2>2. Successor(AfterMute, mode) /\ PassesBy(AfterMute) /\ AfterMute \in {"OptionalDelay", "NVRLogin"}
    BY <2>1, <1>0 DEF Successor, PassesBy, Maskless, Graph, AwayNodes, HomeNodes, MuteNodes, AfterMute
  <2> QED BY <2>1, <2>2, MoveKeeps DEF Quiet, PassesBy
<1>2. CASE OptionalDelay
  <2>1. node = "OptionalDelay" /\ EnterWith("NVRLogin", mode) /\ Quiet
    BY <1>2 DEF OptionalDelay, DoneWith, Enter, Quiet
  <2>2. Successor("NVRLogin", mode) /\ PassesBy("NVRLogin")
    BY <2>1, <1>0 DEF Successor, PassesBy, Maskless, Graph, AwayNodes, HomeNodes, MuteNodes
  <2> QED BY <2>1, <2>2, MoveKeeps DEF Quiet, PassesBy
<1>3. CASE PTZCalibrateDone
  <2>1. node = "PTZCalibrate" /\ EnterWith("SetPTZPreset", mode) /\ Quiet
    BY <1>3 DEF PTZCalibrateDone, DoneWith, Enter, Quiet
  <2>2. Successor("SetPTZPreset", mode) /\ PassesBy("SetPTZPreset")
    BY <2>1, <1>0 DEF Successor, PassesBy, Maskless, Graph, AwayNodes, HomeNodes, MuteNodes
  <2> QED BY <2>1, <2>2, MoveKeeps DEF Quiet, PassesBy
<1>4. CASE SetPTZPresetDone
  <2>1. PICK n, m : /\ node = "SetPTZPreset" /\ EnterWith(n, m) /\ Quiet
                    /\ \/ muteOn /\ n = "WaitForMuteExpiry" /\ m = mode
                       \/ ~muteOn /\ n = "SetNotificationBitmasks" /\ m = "away"
    BY <1>4 DEF SetPTZPresetDone, DoneWith, Enter, Quiet
  <2>2. Successor(n, m) /\ PassesBy(n)
    BY <2>1, <1>0 DEF Successor, PassesBy, Maskless, Graph, AwayNodes, HomeNodes, MuteNodes
  <2> QED BY <2>1, <2>2, MoveKeeps DEF Quiet, PassesBy
<1>5. CASE WaitForMuteExpiry
  <2>1. PICK m \in {"home", "away"} :
          /\ node = "WaitForMuteExpiry" /\ window # "open"
          /\ EnterWith("SetNotificationBitmasks", m) /\ Quiet /\ (m = "home" => kind = "home")
    BY <1>5 DEF WaitForMuteExpiry, DoneWith, Enter, Quiet
  <2>2. Successor("SetNotificationBitmasks", m) /\ PassesBy("SetNotificationBitmasks")
    BY <2>1, <1>0 DEF Successor, PassesBy, Maskless, Graph, AwayNodes, HomeNodes, MuteNodes
  <2> QED BY <2>1, <2>2, MoveKeeps DEF Quiet, PassesBy
<1>6. CASE SetNotificationBitmasksDone
  <2>1. node = "SetNotificationBitmasks" /\ EnterWith("SetZoneMasks", mode) /\ Quiet
    BY <1>6 DEF SetNotificationBitmasksDone, DoneWith, Enter, Quiet
  <2>2. Successor("SetZoneMasks", mode) /\ PassesBy("SetZoneMasks")
    BY <2>1, <1>0 DEF Successor, PassesBy, Maskless, Graph, AwayNodes, HomeNodes, MuteNodes
  <2> QED BY <2>1, <2>2, MoveKeeps DEF Quiet, PassesBy
<1>7. CASE SetZoneMasksDone
  <2>1. PICK n : /\ node = "SetZoneMasks" /\ EnterWith(n, mode) /\ Quiet
                 /\ \/ n = "SetPTZHome" /\ mode = "home" /\ ~muteOn
                    \/ n = "Validate"
    BY <1>7 DEF SetZoneMasksDone, DoneWith, Enter, Quiet
  <2>2. Successor(n, mode) /\ PassesBy(n)
    BY <2>1, <1>0 DEF Successor, PassesBy, Maskless, Graph, AwayNodes, HomeNodes, MuteNodes
  <2> QED BY <2>1, <2>2, MoveKeeps DEF Quiet, PassesBy
<1>8. CASE SaveBitmasksDone
  <2>1. node = "SaveBitmasks" /\ kind = "pause"
        /\ EnterWith("SetNotificationBitmasks", "away") /\ Quiet
    BY <1>8, <1>0 DEF SaveBitmasksDone, Graph, AwayNodes, HomeNodes, MuteNodes, DoneWith, Enter, Quiet
  <2>2. Successor("SetNotificationBitmasks", "away") /\ PassesBy("SetNotificationBitmasks")
    BY <2>1, <1>0 DEF Successor, PassesBy, Maskless, Graph, AwayNodes, HomeNodes, MuteNodes
  <2> QED BY <2>1, <2>2, MoveKeeps DEF Quiet, PassesBy
<1>9. CASE RestoreBitmasksDone
  <2>1. node = "RestoreBitmasks" /\ kind = "rearm" /\ EnterWith("SetPTZHome", mode) /\ Quiet
    BY <1>9, <1>0 DEF RestoreBitmasksDone, Graph, AwayNodes, HomeNodes, MuteNodes, DoneWith, Enter, Quiet
  <2>2. Successor("SetPTZHome", mode) /\ PassesBy("SetPTZHome")
    BY <2>1, <1>0 DEF Successor, PassesBy, Maskless, Graph, AwayNodes, HomeNodes, MuteNodes
  <2> QED BY <2>1, <2>2, MoveKeeps DEF Quiet, PassesBy
<1>10. CASE SetPTZHomeDone
  <2>1. node = "SetPTZHome" /\ EnterWith("PowerOff", mode) /\ Quiet
    BY <1>10 DEF SetPTZHomeDone, DoneWith, Enter, Quiet
  <2>2. Successor("PowerOff", mode) /\ PassesBy("PowerOff")
    BY <2>1, <1>0 DEF Successor, PassesBy, Maskless, Graph, AwayNodes, HomeNodes, MuteNodes
  <2> QED BY <2>1, <2>2, MoveKeeps DEF Quiet, PassesBy
<1>11. CASE PowerOffDone
  <2>1. PICK n : /\ node = "PowerOff" /\ EnterWith(n, mode) /\ Quiet
                 /\ \/ n = "WaitForMuteExpiry" /\ muteOn
                    \/ n = "Validate" /\ ~muteOn
    BY <1>11 DEF PowerOffDone, DoneWith, Enter, Quiet
  <2>2. Successor(n, mode) /\ PassesBy(n)
    BY <2>1, <1>0 DEF Successor, PassesBy, Maskless, Graph, AwayNodes, HomeNodes, MuteNodes
  <2> QED BY <2>1, <2>2, MoveKeeps DEF Quiet, PassesBy
<1>12. CASE ValidateDone
  <2>1. node = "Validate" /\ EnterWith("NVRLogout", mode) /\ Quiet
    BY <1>12 DEF ValidateDone, DoneWith, Enter, Quiet
  <2>2. Successor("NVRLogout", mode) /\ PassesBy("NVRLogout")
    BY <2>1, <1>0 DEF Successor, PassesBy, Maskless, Graph, AwayNodes, HomeNodes, MuteNodes
  <2> QED BY <2>1, <2>2, MoveKeeps DEF Quiet, PassesBy
<1> QED BY <1>1, <1>2, <1>3, <1>4, <1>5, <1>6, <1>7, <1>8, <1>9, <1>10, <1>11, <1>12

LEMMA MuteKeeps ==
  ASSUME IInv, MuteLogin \/ MuteLogout
  PROVE  Control' /\ Caused' /\ SessionKept' /\ PowerKnown' /\ WindowRoute'
<1>0. /\ muteOn /\ window # "open" /\ node = "IngressEgressMute" /\ UNCHANGED runVars
      /\ UNCHANGED <<loggedIn, outcome>> /\ kind \in {"away", "home"}
  BY WorkflowAssumption
     DEF IInv, Control, WindowRoute, Maskless, Graph, AwayNodes, HomeNodes, MuteNodes,
         MuteLogin, MuteLogout, DoneWith, Device, nvrVars, TypeOK
<1>1. CASE UNCHANGED nodeVars /\ MuteLogin
  <2>1. UNCHANGED <<nodeVars, window, failures>> /\ muteIds # {}
    BY <1>1 DEF MuteLogin, Raise, nodeVars, errVars
  <2>2. Control' /\ Caused' /\ SessionKept' /\ PowerKnown' /\ WindowRoute'
    BY <1>0, <2>1, GraphKept DEF IInv, Control, Caused, SessionKept, PowerKnown, WindowRoute,
         nodeVars, runVars, Ended
  <2> QED BY <2>2
<1>2. CASE Raise
  <2>1. failures \subseteq failures' /\ failures' \cap {"login", "logout", "abort"} # {}
        /\ UNCHANGED window /\ ("login" \in failures' \/ logoutTried')
    BY <1>0, <1>2 DEF MuteLogin, MuteLogout, Raise, LogOnly, nodeVars, Enter, EnterWith,
         Graph, AwayNodes, HomeNodes, AfterMute
  <2> QED BY <1>0, <1>2, <2>1, GraphKept DEF IInv, Control, Caused, SessionKept, PowerKnown,
         WindowRoute, Raise, runVars, Ended
<1>3. CASE Enter(AfterMute) /\ MuteLogout /\ UNCHANGED errVars
  <2>1. AfterMute \in {"OptionalDelay", "NVRLogin"} /\ Successor(AfterMute, mode)
    BY <1>0 DEF AfterMute, Successor, Graph, AwayNodes, HomeNodes
  <2>2. EnterWith(AfterMute, mode) /\ failures' = failures /\ logoutTried' = TRUE
    BY <1>3 DEF Enter, MuteLogout, errVars
  <2>3. Control' /\ Caused'
    BY <1>0, <2>1, <2>2, MoveControl
  <2>4. node' \in {"OptionalDelay", "NVRLogin"}
    BY <1>0, <2>1, <2>2, Routed DEF Successor, Moved
  <2>5. SessionKept' /\ PowerKnown'
    BY <1>0, <2>2, <2>4 DEF SessionKept, PowerKnown
  <2>6. WindowRoute'
    BY <1>0, <2>4 DEF WindowRoute, Maskless, runVars
  <2> QED BY <2>3, <2>5, <2>6
<1> QED BY <1>1, <1>2, <1>3 DEF MuteLogin, MuteLogout

LEMMA LoginKeeps ==
  ASSUME IInv, NVRLogin
  PROVE  Control' /\ Caused' /\ SessionKept' /\ PowerKnown' /\ WindowRoute'
<1>0. /\ node = "NVRLogin" /\ UNCHANGED runVars /\ UNCHANGED <<outcome, window, pending, online>>
      /\ kind \in {"away", "home", "pause", "apply", "rearm"} /\ failures \subseteq failures'
      /\ muteOn => kind \in {"away", "home"}
  BY WorkflowAssumption DEF NVRLogin, camVars, IInv, TypeOK, LogOnly, errVars, Control
<1>1. CASE Raise /\ LogOnly("login")
  BY <1>0, <1>1, GraphKept DEF IInv, Control, Caused, SessionKept, PowerKnown, WindowRoute,
     Raise, LogOnly, runVars, Ended
<1>2. CASE /\ loggedIn' = TRUE /\ UNCHANGED errVars
           /\ EnterWith(AfterLogin, IF kind = "home" THEN "home" ELSE mode)
  <2> DEFINE m == IF kind = "home" THEN "home" ELSE mode
  <2>1. Successor(AfterLogin, m) /\ (window = "open" => AfterLogin \in Maskless)
        /\ AfterLogin \notin {"finally", "end", "IngressEgressMute", "WaitForPowerOn",
                               "PTZCalibrate", "SetPTZPreset"}
    BY <1>0 DEF AfterLogin, Successor, Maskless, Graph, AwayNodes, HomeNodes,
                IInv, WindowRoute
  <2> HIDE DEF m
  <2>2. EnterWith(AfterLogin, m)
    BY <1>2 DEF m
  <2>3. Control' /\ Caused'
    BY <1>0, <2>1, <2>2, MoveControl
  <2>4. node' \in {AfterLogin, "finally"}
    BY <2>2 DEF EnterWith, Raise
  <2>5. SessionKept' /\ PowerKnown'
    BY <1>0, <1>2, <2>1, <2>4 DEF SessionKept, PowerKnown, Successor, runVars
  <2>6. WindowRoute'
    BY <1>0, <2>1, <2>4, MoveWindow
  <2> QED BY <2>3, <2>5, <2>6
<1> QED BY <1>1, <1>2 DEF NVRLogin

LEMMA FilterKeeps ==
  ASSUME IInv, FilterByTag
  PROVE  Control' /\ Caused' /\ SessionKept' /\ PowerKnown' /\ WindowRoute'
<1>1. /\ node = "FilterByTag" /\ node' = "NVRLogin" /\ kind = "pause"
      /\ UNCHANGED runVars /\ UNCHANGED <<mode, raised, failures, nvrVars, window, outcome>>
  BY WorkflowAssumption
     DEF FilterByTag, IInv, Control, Graph, AwayNodes, HomeNodes, MuteNodes, errVars, TypeOK
<1>2. "NVRLogin" \in Graph
  BY <1>1 DEF Graph, AwayNodes
<1> QED BY <1>1, <1>2, GraphKept DEF IInv, Control, Caused, SessionKept, PowerKnown, WindowRoute,
           Maskless, runVars, nvrVars, Ended

\* The cameras behind a plug are the ones to wait for.
LEMMA PowerOnKeeps ==
  ASSUME IInv, PowerOnDone
  PROVE  Control' /\ Caused' /\ SessionKept' /\ PowerKnown' /\ WindowRoute'
<1>1. /\ node = "PowerOn" /\ kind = "away" /\ pending' = scope \cap Powered
      /\ EnterWith("WaitForPowerOn", mode)
      /\ UNCHANGED <<runVars, failures, nvrVars, window, outcome>>
  BY DEF PowerOnDone, DoneWith, Enter, IInv, PowerKnown, errVars
<1>2. Successor("WaitForPowerOn", mode)
  BY <1>1 DEF Successor, Graph, AwayNodes
<1>3. Control' /\ Caused'
  BY <1>1, <1>2, MoveControl
<1>4. node' = "WaitForPowerOn" /\ scope' = scope
  BY <1>1, <1>2, Routed DEF Successor, Moved
<1>5. SessionKept' /\ PowerKnown'
  BY <1>1, <1>4 DEF IInv, SessionKept, PowerKnown, nvrVars, runVars
<1>6. WindowRoute'
  BY <1>1, <1>4 DEF IInv, WindowRoute, Maskless, runVars
<1> QED BY <1>3, <1>5, <1>6

\* Whoever did not answer has a result, and the others are online.
LEMMA WaitKeeps ==
  ASSUME IInv, WaitForPowerOn
  PROVE  Control' /\ Caused' /\ SessionKept' /\ PowerKnown' /\ WindowRoute'
<1>1. /\ node = "WaitForPowerOn" /\ kind = "away" /\ TimedOut(pending)
      /\ EnterWith("PTZCalibrate", mode) /\ failures \subseteq failures'
      /\ UNCHANGED <<runVars, nvrVars, online, window, outcome>>
  BY DEF WaitForPowerOn, AfterWait, TimedOut, Enter, IInv, PowerKnown, camVars
<1>2. Successor("PTZCalibrate", mode)
  BY <1>1 DEF Successor, Graph, AwayNodes
<1>3. Control' /\ Caused'
  BY <1>1, <1>2, MoveControl
<1>4. node' = "PTZCalibrate" /\ scope' = scope /\ todo' = scope
  BY <1>1, <1>2, Routed DEF Successor, Moved
<1>5. \A d \in scope \cap Powered : results'[d] # "none" \/ online[d]
  BY <1>1, WorkflowAssumption DEF IInv, PowerKnown, TimedOut, TypeOK
<1>6. SessionKept' /\ PowerKnown'
  BY <1>1, <1>4, <1>5 DEF IInv, SessionKept, PowerKnown, nvrVars, runVars
<1>7. WindowRoute'
  BY <1>1, <1>4 DEF IInv, WindowRoute, Maskless, runVars
<1> QED BY <1>3, <1>6, <1>7

LEMMA LogoutKeeps ==
  ASSUME IInv, NVRLogout
  PROVE  Control' /\ Caused' /\ SessionKept' /\ PowerKnown' /\ WindowRoute'
<1>1. PICK n \in {"ScheduleReArm", "Notify"} :
        /\ node = "NVRLogout" /\ EnterWith(n, mode) /\ failures \subseteq failures'
        /\ (n = "ScheduleReArm" => kind = "pause")
        /\ logoutTried' = TRUE /\ UNCHANGED <<runVars, window, outcome>>
  BY DEF NVRLogout, AfterLogout, Enter, LogOnly, errVars
<1>2. Successor(n, mode)
  BY <1>1, WorkflowAssumption
     DEF IInv, TypeOK, Successor, Graph, AwayNodes, HomeNodes
<1>3. Control' /\ Caused'
  BY <1>1, <1>2, MoveControl
<1>4. node' \in {n, "finally"}
  BY <1>1 DEF EnterWith, Raise
<1>5. SessionKept' /\ PowerKnown'
  BY <1>1, <1>4 DEF SessionKept, PowerKnown
<1>6. WindowRoute'
  BY <1>1 DEF IInv, WindowRoute, Maskless
<1> QED BY <1>3, <1>5, <1>6

LEMMA EndKeeps ==
  ASSUME IInv, Notify \/ ScheduleReArm \/ Finally
  PROVE  Control' /\ Caused' /\ SessionKept' /\ PowerKnown' /\ WindowRoute'
<1>1. CASE Notify \/ ScheduleReArm
  <2>1. /\ node \in {"Notify", "ScheduleReArm"} /\ node' = "finally" /\ failures \subseteq failures'
        /\ UNCHANGED <<runVars, mode, raised, nvrVars, window, outcome>>
    BY <1>1 DEF Notify, ScheduleReArm, LogOnly, errVars
  <2> QED BY <2>1, GraphKept DEF IInv, Control, Caused, SessionKept, PowerKnown, WindowRoute,
             runVars, nvrVars, Ended
<1>2. CASE Finally
  <2>1. /\ node = "finally" /\ node' = "end" /\ loggedIn' = FALSE /\ outcome' # "running"
        /\ (outcome' = "failed" => raised)
        /\ UNCHANGED <<runVars, mode, raised, failures, window>>
    BY <1>2 DEF Finally, Report, errVars
  <2>2. session' => (session /\ ~loggedIn) \/ logoutTried'
    BY <1>2 DEF Finally, IInv, TypeOK
  <2>3. UNCHANGED logoutTried \/ logoutTried'
    <3>1. CASE loggedIn
      BY <1>2, <3>1 DEF Finally
    <3>2. CASE ~loggedIn
      BY <1>2, <3>2 DEF Finally
    <3> QED BY <3>1, <3>2
  <2>4. Control' /\ Caused' /\ PowerKnown' /\ WindowRoute'
    BY <2>1, GraphKept DEF IInv, Control, Caused, PowerKnown, WindowRoute, runVars, Ended
  <2>5. SessionKept'
    BY <2>1, <2>2, <2>3 DEF IInv, SessionKept
  <2> QED BY <2>4, <2>5
<1> QED BY <1>1, <1>2

(* The theorems.                                                           *)

LEMMA InvInit == Init => IInv
<1> SUFFICES ASSUME Init PROVE IInv
  OBVIOUS
<1>1. TypeOK
  BY TypeInit
<1>2. node = Start /\ Start \in Graph /\ (muteOn => kind \in {"away", "home"})
  BY <1>1, WorkflowAssumption
     DEF Init, TypeOK, Start, Graph, AwayNodes, HomeNodes, MuteNodes
<1>3. Start \notin {"end", "finally", "PowerOn", "WaitForPowerOn", "PTZCalibrate", "SetPTZPreset"}
  BY DEF Start
<1>4. Control
  BY <1>2, <1>3 DEF Init, Control, Ended
<1>5. Caused /\ SessionKept /\ PowerKnown /\ WindowRoute /\ MailRight
  BY <1>2, <1>3 DEF Init, Caused, SessionKept, PowerKnown, WindowRoute, MailRight
<1> QED BY <1>1, <1>4, <1>5 DEF IInv

\* The mail is sent by Notify, after the comparison and right before the end.
LEMMA MailKeeps == IInv /\ [Next]_vars => MailRight'
<1> SUFFICES ASSUME IInv, [Next]_vars PROVE MailRight'
  OBVIOUS
<1> USE DEF MailRight
<1>1. CASE Notify
  BY <1>1 DEF Notify, Verdict, IInv
<1>2. ASSUME NEW d \in Devices, Validate(d)
      PROVE  MailRight'
  <2>1. node = "Validate" /\ mail' = mail /\ node' = node
    BY <1>2 DEF Validate, Device
  <2> QED BY <2>1 DEF IInv
<1>3. CASE Finally
  <2>1. UNCHANGED <<mail, discrepancies>> /\ node' = "end"
    BY <1>3 DEF Finally, dataVars
  <2> QED BY <2>1 DEF IInv
<1>4. ASSUME ~Notify, ~Finally, \A d \in Devices : ~Validate(d)
      PROVE  UNCHANGED <<mail, discrepancies>> /\ (node' = node \/ node \notin {"finally", "end"})
  <2>1. ASSUME NEW d \in Devices,
               \/ MuteDevice(d) \/ PowerOn(d) \/ PowerOff(d) \/ PTZCalibrate(d) \/ SetPTZPreset(d)
               \/ SetPTZHome(d) \/ SetNotificationBitmasks(d) \/ SetZoneMasks(d) \/ SaveBitmasks(d)
               \/ RestoreBitmasks(d)
        PROVE  UNCHANGED <<mail, discrepancies, node>>
    BY <2>1 DEF MuteDevice, PowerOn, PowerOff, PTZCalibrate, SetPTZPreset, SetPTZHome,
         SetNotificationBitmasks, SetZoneMasks, SaveBitmasks, RestoreBitmasks, Device, dataVars
  <2>2. CASE \/ MuteLogin \/ MuteLogout \/ MuteNobody \/ OptionalDelay \/ FilterByTag \/ NVRLogin
             \/ PowerOnDone \/ WaitForPowerOn \/ PTZCalibrateDone \/ SetPTZPresetDone
             \/ WaitForMuteExpiry
    BY <2>2 DEF MuteLogin, MuteLogout, MuteNobody, OptionalDelay, FilterByTag, NVRLogin,
         PowerOnDone, WaitForPowerOn, PTZCalibrateDone, SetPTZPresetDone, WaitForMuteExpiry,
         DoneWith, dataVars
  <2>3. CASE \/ SetNotificationBitmasksDone \/ SetZoneMasksDone \/ SaveBitmasksDone
             \/ RestoreBitmasksDone \/ SetPTZHomeDone \/ PowerOffDone \/ ValidateDone \/ NVRLogout
             \/ ScheduleReArm \/ Abort
    BY <2>3 DEF SetNotificationBitmasksDone, SetZoneMasksDone, SaveBitmasksDone,
         RestoreBitmasksDone, SetPTZHomeDone, PowerOffDone, ValidateDone, NVRLogout,
         ScheduleReArm, Abort, DoneWith, dataVars
  <2>4. CASE Poll \/ (\E d \in Devices : Boot(d)) \/ Expire \/ UNCHANGED vars
    BY <2>4 DEF Poll, Boot, Expire, vars, nodeVars, dataVars
  <2> QED BY <1>4, <2>1, <2>2, <2>3, <2>4 DEF Next, NodeStep, DeviceStep
<1>5. CASE ~Notify /\ ~Finally /\ \A d \in Devices : ~Validate(d)
  BY <1>4, <1>5 DEF IInv
<1> QED BY <1>1, <1>2, <1>3, <1>5

LEMMA InvNext == IInv /\ [Next]_vars => IInv'
<1> SUFFICES ASSUME IInv, [Next]_vars PROVE IInv'
  OBVIOUS
<1>1. TypeOK'
  BY TypeDevice, TypeNode, TypeWorld DEF Next, IInv
<1>2. Control' /\ Caused' /\ SessionKept' /\ PowerKnown' /\ WindowRoute'
  BY DeviceKeeps, WorldKeeps, AbortKeeps, PlainKeeps, MuteKeeps, LoginKeeps, FilterKeeps,
     PowerOnKeeps, WaitKeeps, LogoutKeeps, EndKeeps DEF Next, NodeStep
<1>3. MailRight'
  BY MailKeeps
<1> QED BY <1>1, <1>2, <1>3 DEF IInv

\* The inductive invariant of a run holds whatever fails, for any cameras.
THEOREM Invariance == Spec => []IInv
<1>1. Init => IInv
  BY InvInit
<1>2. IInv /\ [Next]_vars => IInv'
  BY InvNext
<1> QED BY <1>1, <1>2, PTL DEF Spec

\* Whatever ends a run, its NVR session is closed or a logout was tried, unless the login
\* itself broke off: the finally of run_workflow and execute_rearm sees every other one.
THEOREM SessionIsClosed == Spec => []SessionClosed
<1>1. IInv => SessionClosed
  BY DEF IInv, Control, SessionKept, SessionClosed
<1> QED BY <1>1, Invariance, PTL

\* The routes of NVRLoginNode, WaitForPowerOnNode, SetZoneMasksNode and the others stay
\* inside their graph: but for apply_bitmask_graph, a run fails only when something failed.
THEOREM RoutesStayInGraph == ASSUME "apply" \notin Kinds PROVE Spec => []FailsOnlyByFault
<1>1. IInv => FailsOnlyByFault
  BY DEF IInv, Caused, FailsOnlyByFault, TypeOK
<1> QED BY <1>1, Invariance, PTL

\* A camera behind a plug is turned to its away preset only when WaitForPowerOnNode has
\* seen it online.
THEOREM PtzOnline == Spec => AwayPtzOnline
<1> DEFINE A == \A d \in Powered : aim[d] # "away" /\ aim'[d] = "away" => online[d]
<1>1. ASSUME IInv, [Next]_vars PROVE A
  <2> SUFFICES ASSUME NEW d \in Powered, aim[d] # "away", aim'[d] = "away" PROVE online[d]
    OBVIOUS
  <2>0. d \in Devices /\ aim \in [Devices -> {"home", "away"}]
    BY <1>1, WorkflowAssumption DEF IInv, TypeOK
  <2>1. PICK e \in Devices : SetPTZPreset(e) \/ SetPTZHome(e)
    BY <1>1 DEF Next, DeviceStep, NodeStep, MuteDevice, PowerOn, PowerOff, PTZCalibrate,
         SetNotificationBitmasks, SetZoneMasks, SaveBitmasks, RestoreBitmasks, Validate,
         MuteLogin, MuteLogout, MuteNobody, OptionalDelay, FilterByTag, NVRLogin, PowerOnDone,
         WaitForPowerOn, PTZCalibrateDone, SetPTZPresetDone, WaitForMuteExpiry,
         SetNotificationBitmasksDone, SetZoneMasksDone, SaveBitmasksDone, RestoreBitmasksDone,
         SetPTZHomeDone, PowerOffDone, ValidateDone, NVRLogout, Notify, ScheduleReArm, Finally, Poll, Abort,
         Boot, Expire, camVars, vars
  <2>2. SetPTZPreset(e) /\ e = d /\ ~Skipped(d)
    BY <2>0, <2>1 DEF SetPTZPreset, SetPTZHome, Move
  <2>3. node = "SetPTZPreset" /\ d \in todo /\ results[d] = "none"
    BY <2>2 DEF SetPTZPreset, Device, Skipped
  <2> QED BY <1>1, <2>3 DEF IInv, PowerKnown
<1>2. Spec => [][A]_vars
  BY <1>1, Invariance, PTL DEF Spec
<1> QED BY <1>2 DEF AwayPtzOnline

\* While the mute window is open no node gives a muted camera a schedule.
THEOREM WindowIsHonoured == Spec => MuteHonoured
<1> DEFINE A == \A d \in muteIds : window = "open" /\ mask'[d] # mask[d] => mask'[d] = "zero"
<1>1. ASSUME IInv, [Next]_vars PROVE A
  <2> SUFFICES ASSUME NEW d \in muteIds, window = "open", mask'[d] # mask[d] PROVE FALSE
    OBVIOUS
  <2>1. PICK e \in Devices : MuteDevice(e) \/ SetNotificationBitmasks(e) \/ RestoreBitmasks(e)
    BY <1>1 DEF Next, DeviceStep, NodeStep, PowerOn, PowerOff, PTZCalibrate, SetPTZPreset,
         SetPTZHome, SetZoneMasks, SaveBitmasks, Validate,
         MuteLogin, MuteLogout, MuteNobody, OptionalDelay, FilterByTag, NVRLogin, PowerOnDone,
         WaitForPowerOn, PTZCalibrateDone, SetPTZPresetDone, WaitForMuteExpiry,
         SetNotificationBitmasksDone, SetZoneMasksDone, SaveBitmasksDone, RestoreBitmasksDone,
         SetPTZHomeDone, PowerOffDone, ValidateDone, NVRLogout, Notify, ScheduleReArm, Finally, Poll, Abort,
         Boot, Expire, camVars, vars
  <2>2. node \in {"IngressEgressMute", "SetNotificationBitmasks", "RestoreBitmasks"}
    BY <2>1 DEF MuteDevice, SetNotificationBitmasks, RestoreBitmasks, Device
  <2> QED BY <1>1, <2>2 DEF IInv, WindowRoute, Maskless
<1>2. Spec => [][A]_vars
  BY <1>1, Invariance, PTL DEF Spec
<1> QED BY <1>2 DEF MuteHonoured

-----------------------------------------------------------------------------
(* What a run without errors has done.                                     *)

BestEffort == {"IngressEgressMute", "PTZCalibrate", "SetPTZPreset", "SetPTZHome", "logout", "Notify"}

Clean == ~raised /\ ~hasErrors

\* A failure of another call ends the run or sets has_errors, and an ok tells both.
Reported ==
  /\ Clean => failures \subseteq BestEffort
  /\ outcome = "ok" => Clean

Checked(d)  == mask[d] = Target \/ d \in discrepancies \/ d \in unread
Restored(d) == saved[d] = "none" \/ d \in consumed

\* How far a run has come with its cameras: with the schedules it sends, with the comparison
\* of what the NVR stored, or with the schedules it gives back.
Progress ==
  Clean =>
    /\ kind # "rearm" =>
         /\ node = "SetNotificationBitmasks" =>
              mode = Target /\ \A d \in scope \ todo : expected[d] = Target
         /\ node \in {"SetZoneMasks", "Validate"} \/ (node \in {"SetPTZHome", "PowerOff"} /\ ~muteOn) =>
              \A d \in scope : expected[d] = Target
         /\ node = "Validate" => \A d \in scope \ todo : Checked(d)
         /\ node \in {"NVRLogout", "Notify", "ScheduleReArm", "finally", "end"} =>
              \A d \in scope : Checked(d)
    /\ kind = "rearm" /\ node # "NVRLogin" =>
         \A d \in scope : (node = "RestoreBitmasks" /\ d \in todo) \/ Restored(d)

\* Errors are never forgotten, and a failure that is neither best effort nor told is an exception.
LEMMA ErrorsKept ==
  ASSUME TypeOK, [Next]_vars
  PROVE  /\ Clean' => Clean /\ failures' \subseteq failures \cup BestEffort
         /\ outcome' = outcome \/ (outcome' = "ok" => Clean')
         /\ node = "end" => UNCHANGED <<raised, hasErrors, failures>>
<1> USE DEF TypeOK, Clean, BestEffort, runVars, nodeVars, errVars, nvrVars, camVars, Mark, LogOnly, Raise
<1>1. CASE DeviceStep
  <2> PICK d \in Devices :
        \/ MuteDevice(d) \/ PowerOn(d) \/ PowerOff(d) \/ PTZCalibrate(d) \/ SetPTZPreset(d)
        \/ SetPTZHome(d) \/ SetNotificationBitmasks(d) \/ SetZoneMasks(d) \/ SaveBitmasks(d)
        \/ RestoreBitmasks(d) \/ Validate(d)
    BY <1>1 DEF DeviceStep
  <2> USE DEF Device
  <2>1. CASE MuteDevice(d)
    BY <2>1 DEF MuteDevice
  <2>2. CASE PowerOn(d) \/ PowerOff(d)
    <3>1. /\ Mark("PowerOn", d) \/ Mark("PowerOff", d) \/ UNCHANGED errVars
          /\ UNCHANGED <<outcome, raised>> /\ node # "end"
      BY <2>2 DEF PowerOn, PowerOff
    <3> QED BY <3>1
  <2>3. CASE PTZCalibrate(d)
    BY <2>3 DEF PTZCalibrate
  <2>4. CASE SetPTZPreset(d) \/ SetPTZHome(d)
    BY <2>4 DEF SetPTZPreset, SetPTZHome, Move
  <2>5. CASE SetNotificationBitmasks(d)
    BY <2>5 DEF SetNotificationBitmasks
  <2>6. CASE SetZoneMasks(d) \/ SaveBitmasks(d)
    BY <2>6 DEF SetZoneMasks, SaveBitmasks
  <2>7. CASE RestoreBitmasks(d) \/ Validate(d)
    BY <2>7 DEF RestoreBitmasks, Validate
  <2> QED BY <2>1, <2>2, <2>3, <2>4, <2>5, <2>6, <2>7
<1>2. CASE NodeStep
  <2> USE DEF Enter, EnterWith
  <2>1. CASE MuteLogin
    BY <2>1 DEF MuteLogin
  <2>2. CASE MuteLogout \/ MuteNobody
    BY <2>2 DEF MuteLogout, MuteNobody, DoneWith
  <2>3. CASE OptionalDelay \/ FilterByTag
    BY <2>3 DEF OptionalDelay, FilterByTag
  <2>4. CASE NVRLogin
    BY <2>4 DEF NVRLogin
  <2>5. CASE PowerOnDone
    BY <2>5 DEF PowerOnDone, DoneWith
  <2>6. CASE WaitForPowerOn
    BY <2>6 DEF WaitForPowerOn, TimedOut
  <2>7. CASE PTZCalibrateDone \/ SetPTZPresetDone \/ WaitForMuteExpiry
    BY <2>7 DEF PTZCalibrateDone, SetPTZPresetDone, WaitForMuteExpiry, DoneWith
  <2>8. CASE SetNotificationBitmasksDone \/ SetZoneMasksDone \/ SaveBitmasksDone
    BY <2>8 DEF SetNotificationBitmasksDone, SetZoneMasksDone, SaveBitmasksDone, DoneWith
  <2>9. CASE RestoreBitmasksDone \/ SetPTZHomeDone \/ PowerOffDone \/ ValidateDone
    BY <2>9 DEF RestoreBitmasksDone, SetPTZHomeDone, PowerOffDone, ValidateDone, DoneWith
  <2>10. CASE NVRLogout
    BY <2>10 DEF NVRLogout
  <2>11. CASE Notify \/ ScheduleReArm
    BY <2>11 DEF Notify, ScheduleReArm
  <2>12. CASE Finally
    <3>1. UNCHANGED <<raised, hasErrors, failures>> /\ node = "finally"
          /\ outcome' = Report
      BY <2>12 DEF Finally
    <3> QED BY <3>1 DEF Report
  <2> QED BY <1>2, <2>1, <2>2, <2>3, <2>4, <2>5, <2>6, <2>7, <2>8, <2>9, <2>10, <2>11, <2>12 DEF NodeStep
<1>3. CASE Abort
  BY <1>3 DEF Abort
<1>4. CASE Poll \/ (\E d \in Devices : Boot(d)) \/ Expire \/ UNCHANGED vars
  BY <1>4 DEF Poll, Boot, Expire, vars
<1> QED BY <1>1, <1>2, <1>3, <1>4 DEF Next

LEMMA ReportedNext == IInv /\ Reported /\ [Next]_vars => Reported'
<1> SUFFICES ASSUME IInv, Reported, [Next]_vars PROVE Reported'
  OBVIOUS
<1>1. /\ Clean' => Clean /\ failures' \subseteq failures \cup BestEffort
      /\ outcome' = outcome \/ (outcome' = "ok" => Clean')
      /\ node = "end" => UNCHANGED <<raised, hasErrors>>
  BY ErrorsKept DEF IInv
<1>2. outcome = "ok" => node = "end"
  BY DEF IInv, Control, Ended
<1>3. node = "end" /\ Clean => Clean'
  BY <1>1 DEF Clean
<1> QED BY <1>1, <1>2, <1>3 DEF Reported

\* A run that run_workflow reports without errors had none, but those of the best-effort
\* calls: every other `except` sets has_errors.
THEOREM ErrorsAreReported == Spec => []ErrorsReported
<1>1. Init => Reported
  BY DEF Init, Reported, Clean, BestEffort
<1>2. Reported => ErrorsReported
  BY DEF Reported, BestEffort, ErrorsReported
<1> QED BY <1>1, <1>2, ReportedNext, Invariance, PTL DEF Spec

LEMMA DeviceProgress ==
  ASSUME IInv, Progress, DeviceStep, Clean, Clean'
  PROVE  Progress'
<1>0. /\ UNCHANGED <<kind, muteOn, scope, node, mode>> /\ todo' \subseteq todo
      /\ Target' = Target /\ Target \in {"home", "away"} /\ node \in Graph
  BY DeviceFrame DEF IInv, Control, Target
<1> PICK d \in Devices :
      \/ MuteDevice(d) \/ PowerOn(d) \/ PowerOff(d) \/ PTZCalibrate(d) \/ SetPTZPreset(d)
      \/ SetPTZHome(d) \/ SetNotificationBitmasks(d) \/ SetZoneMasks(d) \/ SaveBitmasks(d)
      \/ RestoreBitmasks(d) \/ Validate(d)
  BY DEF DeviceStep
<1>1. CASE MuteDevice(d)
  BY <1>0, <1>1 DEF MuteDevice, Device, dataVars, Progress, Checked, Restored
<1>2. CASE PowerOn(d) \/ PowerOff(d) \/ PTZCalibrate(d) \/ SetZoneMasks(d)
  <2>1. UNCHANGED <<dataVars, mask>> /\ node \notin {"SetNotificationBitmasks", "RestoreBitmasks", "Validate"}
    BY <1>2 DEF PowerOn, PowerOff, PTZCalibrate, SetZoneMasks, Device, camVars
  <2> QED BY <1>0, <2>1 DEF dataVars, Progress, Checked, Restored
<1>3. CASE SetPTZPreset(d) \/ SetPTZHome(d)
  <2>1. UNCHANGED <<dataVars, mask>> /\ node \notin {"SetNotificationBitmasks", "RestoreBitmasks", "Validate"}
    BY <1>3 DEF SetPTZPreset, SetPTZHome, Device
  <2> QED BY <1>0, <2>1 DEF dataVars, Progress, Checked, Restored
<1>4. CASE SetNotificationBitmasks(d)
  <2>1. /\ node = "SetNotificationBitmasks" /\ todo' = todo \ {d}
        /\ UNCHANGED <<saved, consumed>>
        /\ expected' = [expected EXCEPT ![d] = mode]
    BY <1>4 DEF SetNotificationBitmasks, Device, Mark, Clean
  <2>2. \A e \in Devices : expected'[e] = IF e = d THEN mode ELSE expected[e]
    BY <2>1 DEF IInv, TypeOK
  <2> HIDE DEF SetNotificationBitmasks
  <2> QED BY <1>0, <2>1, <2>2 DEF Progress, Restored, IInv, TypeOK
<1>5. CASE SaveBitmasks(d)
  <2>1. node = "SaveBitmasks" /\ kind # "rearm"
    BY <1>0, <1>5 DEF SaveBitmasks, Device, Graph, AwayNodes, HomeNodes, MuteNodes, IInv, Control
  <2> QED BY <1>0, <2>1 DEF Progress
<1>6. CASE RestoreBitmasks(d)
  <2>1. /\ node = "RestoreBitmasks" /\ todo' = todo \ {d} /\ saved' = saved
        /\ consumed \subseteq consumed' /\ (saved[d] = "none" \/ d \in consumed')
    BY <1>6 DEF RestoreBitmasks, Device, Mark, Clean
  <2> QED BY <1>0, <2>1 DEF Progress, Restored
<1>7. CASE Validate(d)
  <2>1. /\ node = "Validate" /\ todo' = todo \ {d} /\ UNCHANGED <<mask, expected, saved, consumed>>
        /\ discrepancies \subseteq discrepancies' /\ unread \subseteq unread'
        /\ expected[d] = "none" \/ mask[d] = expected[d] \/ d \in discrepancies' \/ d \in unread'
    BY <1>7 DEF Validate, Device, camVars
  <2> QED BY <1>0, <2>1 DEF Progress, Checked, Restored
<1> QED BY <1>1, <1>2, <1>3, <1>4, <1>5, <1>6, <1>7

\* A node that is entered with its whole scope before it.
Kept(n, m) ==
  /\ node' = n /\ mode' = m /\ todo' = scope
  /\ UNCHANGED <<kind, muteOn, scope, expected, mask, saved, consumed, discrepancies, unread>>

LEMMA EnteredKept ==
  ASSUME NEW n, NEW m, EnterWith(n, m), UNCHANGED <<runVars, dataVars, camVars>>, Clean'
  PROVE  Kept(n, m) /\ n \in Graph
  BY DEF EnterWith, Raise, Kept, runVars, dataVars, camVars, Clean

\* Nodes that no camera's schedule depends on.
LEMMA EarlyProgress ==
  ASSUME IInv, Progress, Clean, NEW n, NEW m, Kept(n, m), Target' = Target,
         n \in {"OptionalDelay", "NVRLogin", "PowerOn", "WaitForPowerOn", "PTZCalibrate",
                "SetPTZPreset", "SaveBitmasks", "RestoreBitmasks", "WaitForMuteExpiry"}
           \/ (n \in {"SetPTZHome", "PowerOff"} /\ (muteOn \/ kind = "rearm")),
         kind = "rearm" => n \in {"NVRLogin", "RestoreBitmasks"}
                             \/ node \notin {"NVRLogin", "RestoreBitmasks"}
                             \/ (node = "RestoreBitmasks" /\ todo = {})
  PROVE  Progress'
  BY DEF Kept, Progress, Restored

LEMMA NodeProgress ==
  ASSUME IInv, Progress, NodeStep, Clean, Clean'
  PROVE  Progress'
<1>0. /\ Target' = Target /\ node \in Graph \cup {"finally", "end"}
      /\ (muteOn => kind \in {"away", "home"}) /\ (mode = "home" => kind = "home")
      /\ kind \in {"away", "home", "pause", "apply", "rearm"}
  <2>1. UNCHANGED runVars
    BY DEF NodeStep, MuteLogin, MuteLogout, MuteNobody, OptionalDelay, FilterByTag, NVRLogin,
           PowerOnDone, WaitForPowerOn, PTZCalibrateDone, SetPTZPresetDone, WaitForMuteExpiry,
           SetNotificationBitmasksDone, SetZoneMasksDone, SaveBitmasksDone, RestoreBitmasksDone,
           SetPTZHomeDone, PowerOffDone, ValidateDone, NVRLogout, Notify, ScheduleReArm, Finally
  <2> QED BY <2>1, WorkflowAssumption DEF IInv, Control, TypeOK, Target, runVars
<1>1. CASE MuteLogin
  <2>1. UNCHANGED <<runVars, nodeVars, dataVars, camVars>>
    BY <1>1 DEF MuteLogin, Raise, Clean
  <2> QED BY <1>0, <2>1 DEF runVars, nodeVars, dataVars, camVars, Progress, Checked, Restored
<1>2. CASE MuteLogout \/ MuteNobody \/ OptionalDelay
  <2>1. PICK n \in {"OptionalDelay", "NVRLogin"} :
          EnterWith(n, mode) /\ UNCHANGED <<runVars, dataVars, camVars>>
          /\ node \in {"IngressEgressMute", "OptionalDelay"}
    BY <1>2 DEF MuteLogout, MuteNobody, OptionalDelay, Enter, AfterMute, Raise, Clean, DoneWith
  <2>2. kind # "rearm"
    BY <1>0, <2>1 DEF Graph, AwayNodes, HomeNodes, MuteNodes
  <2> QED BY <1>0, <2>1, <2>2, EnteredKept, EarlyProgress
<1>3. CASE FilterByTag
  <2>1. node = "FilterByTag" /\ node' = "NVRLogin" /\ UNCHANGED kind
    BY <1>3 DEF FilterByTag, runVars
  <2> QED BY <1>0, <2>1 DEF Progress
<1>4. CASE NVRLogin
  <2>1. /\ EnterWith(AfterLogin, IF kind = "home" THEN "home" ELSE mode)
        /\ UNCHANGED <<runVars, dataVars, camVars>>
    BY <1>4 DEF NVRLogin, Raise, Clean
  <2>2. PICK n, m : n = AfterLogin /\ m = (IF kind = "home" THEN "home" ELSE mode)
    OBVIOUS
  <2>3. Kept(n, m) /\ n \in Graph
    BY <2>1, <2>2, EnteredKept
  <2>4. /\ kind = "rearm" => n = "RestoreBitmasks"
        /\ n \in {"RestoreBitmasks", "SetPTZHome", "SetNotificationBitmasks", "PowerOn", "SaveBitmasks"}
        /\ n = "SetPTZHome" => muteOn
        /\ n = "SetNotificationBitmasks" => m = Target
    BY <2>2 DEF AfterLogin, Target
  <2>5. CASE n = "SetNotificationBitmasks"
    BY <1>0, <2>3, <2>4, <2>5 DEF Kept, Progress
  <2>6. CASE n # "SetNotificationBitmasks"
    BY <1>0, <2>3, <2>4, <2>6, EarlyProgress
  <2> QED BY <2>5, <2>6
<1>5. CASE PowerOnDone \/ WaitForPowerOn \/ PTZCalibrateDone
  <2>1. PICK n \in {"WaitForPowerOn", "PTZCalibrate", "SaveBitmasks", "SetPTZPreset"} :
          EnterWith(n, mode) /\ UNCHANGED <<runVars, dataVars, camVars>>
          /\ node \in {"PowerOn", "WaitForPowerOn", "PTZCalibrate"}
    BY <1>5 DEF PowerOnDone, WaitForPowerOn, PTZCalibrateDone, Enter, AfterWait, DoneWith
  <2>2. kind # "rearm"
    BY <1>0, <2>1 DEF Graph, AwayNodes, HomeNodes, MuteNodes
  <2> QED BY <1>0, <2>1, <2>2, EnteredKept, EarlyProgress
<1>6. CASE SetPTZPresetDone \/ WaitForMuteExpiry \/ SaveBitmasksDone
  <2>1. PICK n, m : /\ EnterWith(n, m) /\ UNCHANGED <<runVars, dataVars, camVars>>
                    /\ node \in {"SetPTZPreset", "WaitForMuteExpiry", "SaveBitmasks"}
                    /\ n \in {"SetNotificationBitmasks", "WaitForMuteExpiry", "PTZCalibrate"}
                    /\ n = "SetNotificationBitmasks" =>
                         m = IF node = "WaitForMuteExpiry" THEN Target ELSE "away"
    BY <1>6, <1>0 DEF SetPTZPresetDone, WaitForMuteExpiry, SaveBitmasksDone, Enter, DoneWith, Target
  <2>2. kind # "rearm" /\ (node # "WaitForMuteExpiry" => kind # "home")
    BY <1>0, <2>1 DEF Graph, AwayNodes, HomeNodes, MuteNodes
  <2>3. Kept(n, m)
    BY <2>1, EnteredKept
  <2>4. CASE n = "SetNotificationBitmasks"
    BY <1>0, <2>1, <2>2, <2>3, <2>4 DEF Kept, Progress, Target
  <2>5. CASE n # "SetNotificationBitmasks"
    BY <1>0, <2>1, <2>2, <2>3, <2>5, EarlyProgress
  <2> QED BY <2>4, <2>5
<1>7. CASE SetNotificationBitmasksDone
  <2>1. /\ EnterWith("SetZoneMasks", mode) /\ UNCHANGED <<runVars, dataVars, camVars>>
        /\ node = "SetNotificationBitmasks" /\ todo = {}
    BY <1>7 DEF SetNotificationBitmasksDone, Enter, DoneWith
  <2>2. Kept("SetZoneMasks", mode)
    BY <2>1, EnteredKept
  <2> QED BY <1>0, <2>1, <2>2 DEF Kept, Progress, Restored
<1>8. CASE SetZoneMasksDone \/ SetPTZHomeDone \/ PowerOffDone
  <2>1. PICK n : /\ EnterWith(n, mode) /\ UNCHANGED <<runVars, dataVars, camVars>>
                 /\ node \in {"SetZoneMasks", "SetPTZHome", "PowerOff"}
                 /\ \/ n = "SetPTZHome" /\ ~muteOn /\ node = "SetZoneMasks"
                    \/ n = "PowerOff" /\ node = "SetPTZHome"
                    \/ n = "Validate" /\ (node = "SetZoneMasks" \/ ~muteOn)
                    \/ n = "WaitForMuteExpiry" /\ muteOn
    BY <1>8, <1>0 DEF SetZoneMasksDone, SetPTZHomeDone, PowerOffDone, Enter, DoneWith
  <2>2. Kept(n, mode)
    BY <2>1, EnteredKept
  <2> QED BY <1>0, <2>1, <2>2 DEF Kept, Progress, Restored
<1>9. CASE RestoreBitmasksDone
  <2>1. kind = "rearm"
    BY <1>9, <1>0 DEF RestoreBitmasksDone, DoneWith, Graph, AwayNodes, HomeNodes, MuteNodes
  <2>2. /\ EnterWith("SetPTZHome", mode) /\ UNCHANGED <<runVars, dataVars, camVars>>
        /\ node = "RestoreBitmasks" /\ todo = {}
    BY <1>9, <2>1 DEF RestoreBitmasksDone, Enter, DoneWith
  <2> QED BY <1>0, <2>1, <2>2, EnteredKept, EarlyProgress
<1>10. CASE ValidateDone
  <2>1. /\ EnterWith("NVRLogout", mode) /\ UNCHANGED <<runVars, dataVars, camVars>>
        /\ node = "Validate" /\ todo = {}
    BY <1>10 DEF ValidateDone, Enter, DoneWith
  <2>2. Kept("NVRLogout", mode)
    BY <2>1, EnteredKept
  <2> QED BY <1>0, <2>1, <2>2 DEF Kept, Progress, Checked, Restored
<1>11. CASE NVRLogout \/ Notify \/ ScheduleReArm \/ Finally
  <2>1. /\ node \in {"NVRLogout", "Notify", "ScheduleReArm", "finally"}
        /\ node' \in {"Notify", "ScheduleReArm", "finally", "end"}
        /\ UNCHANGED <<scope, kind, muteOn, expected, discrepancies, saved, consumed, unread, camVars>>
    BY <1>11 DEF NVRLogout, AfterLogout, Enter, EnterWith, Notify, ScheduleReArm, Finally, Raise, Clean,
         runVars, dataVars
  <2> QED BY <1>0, <2>1 DEF camVars, Progress, Checked, Restored
<1> QED BY <1>1, <1>2, <1>3, <1>4, <1>5, <1>6, <1>7, <1>8, <1>9, <1>10, <1>11 DEF NodeStep

LEMMA ProgressNext == IInv /\ Progress /\ [Next]_vars => Progress'
<1> SUFFICES ASSUME IInv, Progress, [Next]_vars PROVE Progress'
  OBVIOUS
<1>1. CASE ~Clean'
  BY <1>1 DEF Progress
<1>2. CASE Clean'
  <2>1. Clean
    BY <1>2, ErrorsKept DEF IInv
  <2>2. CASE DeviceStep
    BY <1>2, <2>1, <2>2, DeviceProgress
  <2>3. CASE NodeStep
    BY <1>2, <2>1, <2>3, NodeProgress
  <2>4. CASE Abort
    BY <1>2, <2>4 DEF Abort, Raise, Clean
  <2>5. CASE Poll \/ (\E d \in Devices : Boot(d)) \/ Expire \/ UNCHANGED vars
    <3>1. UNCHANGED <<kind, muteOn, scope, node, mode, todo, dataVars, mask>>
      BY <2>5 DEF Poll, Boot, Expire, vars, runVars, nodeVars, camVars
    <3> QED BY <2>1, <3>1 DEF dataVars, Progress, Checked, Restored, Target
  <2> QED BY <2>2, <2>3, <2>4, <2>5 DEF Next
<1> QED BY <1>1, <1>2

\* A run that ends without errors has sent every camera in scope its schedule and compared
\* what the NVR stored, and a re-arm has given every saved schedule back.
THEOREM OkIsApplied == Spec => []OkMeansApplied
<1>1. Init => Progress
  <2> SUFFICES ASSUME Init PROVE Progress
    OBVIOUS
  <2>1. node \in {"IngressEgressMute", "OptionalDelay", "FilterByTag", "NVRLogin"}
        /\ (kind = "rearm" => node = "NVRLogin")
    BY DEF Init, Start
  <2> QED BY <2>1 DEF Progress
<1>2. IInv /\ Progress => OkMeansApplied
  BY DEF IInv, Control, MailRight, Ended, Clean, Progress, Checked, Restored, OkMeansApplied
<1> QED BY <1>1, <1>2, ProgressNext, Invariance, PTL DEF Spec
=============================================================================
