------------------------------ MODULE NvrSync ------------------------------
(***************************************************************************)
(* The admin page that compares the NVR's channels with the device table   *)
(* and brings the table up to date (services/nvr_sync.py, routes/admin.py).*)
(*                                                                         *)
(* A query of the NVR becomes a page; the page posts its data back, for    *)
(* one row or for all.  A post works off the channels one by one, reading  *)
(* a device and then saving the whole row.  Meanwhile cameras are renamed, *)
(* other pages posted, devices added, edited and deleted by their forms.   *)
(*                                                                         *)
(* A name stands for the name, model and versions, the fields that are     *)
(* compared and copied; reolink for the device_type, the brand and the     *)
(* having of a channel, by which the sync picks its devices; flag for the  *)
(* fields that it does not read.                                           *)
(***************************************************************************)
EXTENDS FiniteSetsExt, Naturals

CONSTANTS
  Channels, Names,
  None,        \* the name of a channel that is not connected
  Ids,         \* the ids that devices get, in order
  Pages,       \* the pages open in browsers
  MaxChanges   \* bound: changes at the NVR and by the devices' forms

ASSUME SyncAssumption ==
  Channels \subseteq Nat /\ Ids \subseteq Nat \ {0} /\ None \notin Names /\ MaxChanges \in Nat

VARIABLES
  nvr,         \* the name of the camera on each channel
  device,      \* the rows of the table, by id
  next,        \* the next id
  shown,       \* each page: the names its query found
  ids,         \*   and the device of each of its rows, 0 for a new one
  pc, all,     \* its post: where it is, whether it is a sync-all
  todo, plan,  \*   the channels it has still to do, and their devices
  copy,        \*   the row it has read
  alone,       \* history: nobody else has written since it began
  moved,       \* history: channels whose camera, or a device of which, was renamed, and
               \* those a form has brought a device to or taken one from
  changes      \* how much has changed

pageVars == <<shown, ids>>
postVars == <<pc, all, todo, plan, copy>>
changeVars == <<moved, changes>>
vars == <<nvr, device, next, pageVars, postVars, alone, changeVars>>

Rows == [channel: Channels, reolink: BOOLEAN, name: Names, flag: BOOLEAN]
NoRow == [channel |-> 0, reolink |-> FALSE, name |-> None, flag |-> FALSE]

Unknown == [c \in Channels |-> 0]

Init ==
  /\ nvr \in [Channels -> Names]
  /\ device = [i \in Ids |-> NoRow] /\ next = 1
  /\ shown = [p \in Pages |-> [c \in Channels |-> None]]
  /\ ids = [p \in Pages |-> Unknown]
  /\ pc = [p \in Pages |-> "closed"] /\ all = [p \in Pages |-> FALSE]
  /\ todo = [p \in Pages |-> {}] /\ plan = ids /\ copy = [p \in Pages |-> NoRow]
  /\ alone = [p \in Pages |-> FALSE] /\ moved = {} /\ changes = 0

Exists(i) == i \in Ids /\ device[i] # NoRow
TakenNever(n, i) == FALSE  \* mutant: the column is not unique
Taken(n, i) == \E j \in Ids \ {i} : Exists(j) /\ device[j].name = n  \* Device.name is unique
Busy(p) == pc[p] \in {"next", "save"}
OnlyIts(p) == alone' = [q \in Pages |-> alone[q] /\ q = p]

-----------------------------------------------------------------------------
(* The comparison. *)

Last(is) == IF is = {} THEN 0 ELSE Max(is)

\* device_by_channel, of the Reolink cameras: of two with a channel the last one.
DeviceOf(c) == Last({i \in Ids : Exists(i) /\ device[i].channel = c /\ device[i].reolink})

\* compare_channels: ChannelSyncStatus.OK
InStep(c, n) == n = None \/ (DeviceOf(c) # 0 /\ device[DeviceOf(c)].name = n)

-----------------------------------------------------------------------------
(* The page and its posts. *)

\* query_nvr: the channels that are connected.
Query(p) ==
  /\ pc[p] \in {"closed", "open", "done", "failed"}
  /\ \E online \in SUBSET Channels :
       shown' = [shown EXCEPT ![p] = [c \in Channels |-> IF c \in online THEN nvr[c] ELSE None]]
  /\ ids' = [ids EXCEPT ![p] = [c \in Channels |-> DeviceOf(c)]]
  /\ pc' = [pc EXCEPT ![p] = "open"]
  /\ UNCHANGED <<nvr, device, next, all, todo, plan, copy, alone, changeVars>>

Post(p, cs, devices, isAll) ==
  /\ pc[p] \in {"open", "done", "failed"}
  /\ pc' = [pc EXCEPT ![p] = IF cs = {} THEN "refresh" ELSE "next"]
  /\ all' = [all EXCEPT ![p] = isAll]
  /\ todo' = [todo EXCEPT ![p] = cs] /\ plan' = [plan EXCEPT ![p] = IF cs = {} THEN Unknown ELSE devices]
  /\ alone' = [alone EXCEPT ![p] = TRUE]
  /\ UNCHANGED <<nvr, device, next, pageVars, copy, changeVars>>

\* nvr_sync_all reads the devices and compares them with the page's data.
PostAll(p) ==
  Post(p, {c \in Channels : ~InStep(c, shown[p][c])}, [c \in Channels |-> DeviceOf(c)], TRUE)

\* nvr_sync_create, nvr_sync_update: the row and its device as they are shown.
PostRow(p) ==
  \E c \in Channels : shown[p][c] # None /\ Post(p, {c}, ids[p], FALSE)

\* An IntegrityError: a toast if it is one row's create, else the request fails and the page
\* stays as it was.
Fail(p) ==
  /\ pc' = [pc EXCEPT ![p] = "failed"]
  /\ todo' = [todo EXCEPT ![p] = {}] /\ plan' = [plan EXCEPT ![p] = Unknown]
  /\ copy' = [copy EXCEPT ![p] = NoRow]

Finish(p, c) ==
  /\ todo' = [todo EXCEPT ![p] = @ \ {c}] /\ copy' = [copy EXCEPT ![p] = NoRow]
  /\ pc' = [pc EXCEPT ![p] = IF todo[p] # {c} THEN "next" ELSE IF all[p] THEN "refresh" ELSE "done"]
  /\ plan' = IF todo[p] = {c} THEN [plan EXCEPT ![p] = Unknown] ELSE plan

\* create_device_from_channel; one row's post answers with the row and its device.
Create(p) ==
  LET c == Min(todo[p]) IN
  /\ pc[p] = "next" /\ plan[p][c] = 0
  /\ next \in Ids                                               \* bound: Ids
  /\ IF Taken(shown[p][c], 0)
     THEN Fail(p) /\ UNCHANGED <<device, next, ids, alone>>
     ELSE /\ device' = [device EXCEPT ![next] =
                          [channel |-> c, reolink |-> TRUE, name |-> shown[p][c], flag |-> TRUE]]
          /\ next' = next + 1
          /\ ids' = IF all[p] THEN ids ELSE [ids EXCEPT ![p][c] = next]
          /\ Finish(p, c) /\ OnlyIts(p)
  /\ UNCHANGED <<nvr, shown, all, changeVars>>

\* update_device_from_channel reads the row, if it is still there ...
Fetch(p) ==
  LET c == Min(todo[p])
      i == plan[p][c]
  IN
  /\ pc[p] = "next" /\ i # 0
  /\ IF Exists(i)
     THEN /\ pc' = [pc EXCEPT ![p] = "save"] /\ copy' = [copy EXCEPT ![p] = device[i]]
          /\ UNCHANGED <<todo, plan>>
     ELSE Finish(p, c)
  /\ UNCHANGED <<nvr, device, next, pageVars, all, alone, changeVars>>

SaveFlagged(p) ==  \* mutant: a camera that is found again is enabled
  LET c == Min(todo[p])
      i == plan[p][c]
      row == [copy[p] EXCEPT !.name = shown[p][c], !.flag = TRUE]
  IN
  /\ pc[p] = "save" /\ Exists(i) /\ ~Taken(row.name, i)
  /\ device' = [device EXCEPT ![i] = row]
  /\ Finish(p, c) /\ OnlyIts(p)
  /\ UNCHANGED <<nvr, next, pageVars, all, changeVars>>

SaveChannel(p) ==  \* mutant: the name is left out
  LET c == Min(todo[p])
      i == plan[p][c]
  IN
  /\ pc[p] = "save" /\ Exists(i)
  /\ device' = [device EXCEPT ![i] = copy[p]]
  /\ Finish(p, c) /\ OnlyIts(p)
  /\ UNCHANGED <<nvr, next, pageVars, all, changeVars>>

\* ... and saves all of it, its own fields changed; a row that is gone stays gone.
Save(p) ==
  LET c == Min(todo[p])
      i == plan[p][c]
      row == [copy[p] EXCEPT !.name = shown[p][c]]
  IN
  /\ pc[p] = "save"
  /\ IF Exists(i) /\ Taken(row.name, i)
     THEN Fail(p) /\ UNCHANGED <<device, alone>>
     ELSE /\ device' = IF Exists(i) THEN [device EXCEPT ![i] = row] ELSE device
          /\ Finish(p, c) /\ OnlyIts(p)
  /\ UNCHANGED <<nvr, next, pageVars, all, changeVars>>

\* A sync-all answers with the rows as they compare now.
Refresh(p) ==
  /\ pc[p] = "refresh" /\ pc' = [pc EXCEPT ![p] = "done"]
  /\ ids' = [ids EXCEPT ![p] = [c \in Channels |-> DeviceOf(c)]]
  /\ UNCHANGED <<nvr, device, next, shown, all, todo, plan, copy, alone, changeVars>>

PostStep(p) == Create(p) \/ Fetch(p) \/ Save(p) \/ Refresh(p)

-----------------------------------------------------------------------------
(* The rest of the world. *)

Change == changes < MaxChanges /\ changes' = changes + 1

\* Cameras get other names, at the NVR.
Rename(c) ==
  /\ Change
  /\ \E n \in Names : nvr' = [nvr EXCEPT ![c] = n]
  /\ moved' = moved \cup {c}
  /\ UNCHANGED <<device, next, pageVars, postVars, alone>>

\* device_create
Add ==
  /\ Change /\ next \in Ids                                     \* bound: Ids
  /\ \E row \in Rows :
       /\ ~Taken(row.name, 0)
       /\ device' = [device EXCEPT ![next] = row] /\ moved' = moved \cup {row.channel}
  /\ next' = next + 1
  /\ alone' = [p \in Pages |-> FALSE]
  /\ UNCHANGED <<nvr, pageVars, postVars>>

\* device_edit, device_ptz_settings, the zone masks: what the device's own pages save.
Edit(i) ==
  /\ Change /\ Exists(i)
  /\ \E row \in Rows :
       /\ row # device[i] /\ ~Taken(row.name, i)
       /\ device' = [device EXCEPT ![i] = row]
       /\ moved' = IF row = [device[i] EXCEPT !.flag = row.flag] THEN moved
                   ELSE moved \cup {row.channel, device[i].channel}
  /\ alone' = [p \in Pages |-> FALSE]
  /\ UNCHANGED <<nvr, next, pageVars, postVars>>

\* delete_device
Delete(i) ==
  /\ Change /\ Exists(i)
  /\ device' = [device EXCEPT ![i] = NoRow]
  /\ alone' = [p \in Pages |-> FALSE]
  /\ UNCHANGED <<nvr, next, pageVars, postVars, moved>>

Next ==
  \/ \E p \in Pages : Query(p) \/ PostAll(p) \/ PostRow(p) \/ PostStep(p)
  \/ \E c \in Channels : Rename(c)
  \/ Add \/ \E i \in Ids : Edit(i) \/ Delete(i)

Spec == Init /\ [][Next]_vars

-----------------------------------------------------------------------------
(* Properties. *)

\* The type invariant; a post holds a row only while it saves it.
TypeOK ==
  /\ nvr \in [Channels -> Names]
  /\ device \in [Ids -> Rows \cup {NoRow}]
  /\ shown \in [Pages -> [Channels -> Names \cup {None}]]
  /\ ids \in [Pages -> [Channels -> Ids \cup {0}]] /\ plan \in [Pages -> [Channels -> Ids \cup {0}]]
  /\ all \in [Pages -> BOOLEAN] /\ alone \in [Pages -> BOOLEAN]
  /\ pc \in [Pages -> {"closed", "open", "next", "save", "refresh", "done", "failed"}]
  /\ todo \in [Pages -> SUBSET Channels] /\ copy \in [Pages -> Rows \cup {NoRow}]
  /\ \A p \in Pages : Busy(p) = (todo[p] # {}) /\ (pc[p] = "save") = (copy[p] # NoRow)
  /\ next \in Nat \ {0} /\ \A i \in Ids : i >= next => ~Exists(i)
  /\ moved \subseteq Channels /\ changes \in Nat

\* A sync-all that ends, and that nobody disturbed, leaves every row of its page in step.
AllSynced ==
  \A p \in Pages : pc[p] = "done" /\ all[p] /\ alone[p] => \A c \in Channels : InStep(c, shown[p][c])

\* However stale the pages are, and however their posts overlap or break off, they give a
\* channel no second device: its name is taken.  A channel that has two had its camera or a
\* device renamed, or a form has brought one there or taken one away.
OnePerChannel ==
  \A i, j \in Ids :
    /\ Exists(i) /\ Exists(j) /\ device[i].reolink /\ device[j].reolink
    /\ device[i].channel = device[j].channel
    => i = j \/ device[i].channel \in moved

\* A sync changes no field it has no business with, unless somebody has written since it
\* began: its save writes the whole row it read, and takes such a change back.
FlagsKept ==
  [][\A p \in Pages : PostStep(p) /\ alone[p] =>
       \A i \in Ids : Exists(i) => device'[i] = [device[i] EXCEPT !.name = device'[i].name]]_vars
=============================================================================
