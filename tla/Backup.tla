------------------------------- MODULE Backup -------------------------------
(***************************************************************************)
(* Export and import of all data (services/data_export.py, data_import.py, *)
(* routes/data.py), beside what goes on meanwhile: the settings and their  *)
(* page (AppConfig), the forms that edit devices, tags, masks and buttons, *)
(* and a run that holds ids of devices (services/queue.py).                *)
(*                                                                         *)
(* An export reads one table after the other and writes names where the    *)
(* tables have ids; edits come in between.  An import wipes the tables,    *)
(* restores them one after the other with new ids, and looks the names up. *)
(* It is one transaction: nobody else gets at the database before it ends. *)
(*                                                                         *)
(* A row's data stands for its other columns that are exported: for a      *)
(* device the camera it is.  Columns that are not (a button's muting, a    *)
(* camera's ptz_calibration_required), and mute tags, are lost in every    *)
(* import and left out.  A camera has one bitmask assignment at most.      *)
(***************************************************************************)
EXTENDS AppConfig, FiniteSets

CONSTANTS
  Inputs,      \* name and data that the forms of each table save
  InitialDb,   \* the tables before anything happens, and
  InitialLast  \*   the last id each of them has given

Tables == {"mask", "tag", "device", "button"}
Ends == [tagged   |-> <<"device", "tag">>,            \* device_tag
         assigned |-> <<"device", "mask">>,           \* DeviceBitmaskAssignment
         rule     |-> <<"button", "tag", "mask">>]    \* DashboardButtonBitmaskRule
Links == DOMAIN Ends

PartsSwapped ==  \* mutant: the pairs before one of the tables they refer to
  <<"mask", "tag", "tagged", "device", "assigned", "button", "rule", "config">>

\* The order of export_data, which is that of apply_import, too.
Parts == <<"mask", "tag", "device", "tagged", "assigned", "button", "rule", "config">>

Has(d, t, i) == \E r \in d[t] : r.id = i
Row(d, t, i) == CHOOSE r \in d[t] : r.id = i
Label(d, l, x) ==
  [k \in DOMAIN x |-> IF Has(d, Ends[l][k], x[k]) THEN Row(d, Ends[l][k], x[k]).name ELSE "none"]
Called(d, t, n) == {r \in d[t] : r.name = n}
Mentions(l, x, t, i) == \E k \in DOMAIN x : Ends[l][k] = t /\ x[k] = i

\* The rows of a table: ids and, but for buttons, names are unique; "none" is no name.
Table(t, S) ==
  /\ IsFiniteSet(S)
  /\ \A r \in S : DOMAIN r = {"id", "name", "data"} /\ r.id \in Nat \ {0} /\ r.name # "none"
  /\ \A r, s \in S : r.id = s.id \/ (t # "button" /\ r.name = s.name) => r = s

\* Tables and links: the ends exist, but for the mask of an assignment; a button has one
\* rule for a tag.
Schema(d) ==
  /\ DOMAIN d = Tables \cup Links \cup {"command"}
  /\ \A t \in Tables : Table(t, d[t])
  /\ \A l \in Links :
       /\ IsFiniteSet(d[l]) /\ d[l] \subseteq [DOMAIN Ends[l] -> Nat]
       /\ \A x \in d[l] : \A k \in DOMAIN Ends[l] :
            Has(d, Ends[l][k], x[k]) \/ <<l, k, x[k]>> = <<"assigned", 2, 0>>
  /\ \A x, y \in d["rule"] : x[1] = y[1] /\ x[2] = y[2] => x = y

ASSUME BackupAssumption ==
  /\ DOMAIN Inputs = Tables /\ \A t \in Tables : \A in \in Inputs[t] : in.name # "none"
  /\ Schema(InitialDb) /\ InitialLast \in [Tables -> Nat]
  /\ \A t \in Tables : \A r \in InitialDb[t] : r.id <= InitialLast[t]

VARIABLES
  db,          \* the tables: rows by id and name, pairs and triples of ids; command: the
               \* button a command was issued from, or 0
  last,        \* sqlite_sequence: the last id of each table
  file, toRead,   \* the export: the parts it has read, those it has not
  origin, touched,\* history: the data when it began, and what changed until it ended
  toRestore,   \* the import: the parts it has not restored
  before,      \* what a rollback brings back; <<>>: no transaction
  run          \* a command and its run

backupVars == <<file, toRead, origin, touched, toRestore, before>>
vars == <<configVars, db, last, backupVars, run>>

NoRun == [pc |-> "none", todo |-> {}, held |-> 0, scope |-> {}, written |-> {}]

Init ==
  /\ ConfigInit
  /\ db = InitialDb /\ last = InitialLast
  /\ file = <<>> /\ toRead = <<>> /\ origin = <<>> /\ touched = {}
  /\ toRestore = <<>> /\ before = <<>>
  /\ run = NoRun

Free == before = <<>>  \* no transaction holds the database
Everything == [db |-> db, last |-> last, rows |-> rows, palette |-> palette]

-----------------------------------------------------------------------------
\* What of the data has changed since the export began.
Changed(p, d, e) ==
  {<<p, IF p \in Tables THEN x.id ELSE x>> : x \in (d[p] \ e[p]) \cup (e[p] \ d[p])}
Differ(d, e) == UNION {Changed(p, d, e) : p \in Tables \cup Links}

Exporting == toRead # <<>>
Touch == touched' = IF Exporting THEN touched \cup Differ(db, db') ELSE touched
TouchConfig ==
  touched' = IF Exporting /\ <<rows', palette'>> # <<rows, palette>>
             THEN touched \cup {<<"config", 0>>} ELSE touched

-----------------------------------------------------------------------------
(* The forms. *)

NextIdReused(t) ==  \* mutant: without AUTOINCREMENT the highest id that is free again
  1 + (IF db[t] = {} THEN 0 ELSE CHOOSE i \in {r.id : r \in db[t]} : \A r \in db[t] : r.id <= i)
NextId(t) == last[t] + 1

\* Names are unique, but for those of the buttons.
NameFree(t, n, i) == t = "button" \/ \A r \in Called(db, t, n) : r.id = i

Change(d) ==
  /\ Free /\ forms < MaxForms /\ forms' = forms + 1
  /\ db' = d /\ Touch
  /\ UNCHANGED <<rows, palette, cache, unread, post, file, toRead, origin, toRestore, before, run>>

\* create_tag, create_hour_bitmask, create_device, create_dashboard_button
Create(t) ==
  \E in \in Inputs[t] :
    /\ NameFree(t, in.name, 0)
    /\ last' = [last EXCEPT ![t] = NextId(t)]
    /\ Change([db EXCEPT ![t] = @ \cup {[id |-> NextId(t), name |-> in.name, data |-> in.data]}])

\* update_tag, update_hour_bitmask, update_device, update_dashboard_button: of a new name.  An
\* edit of other columns is left out: a device stays the camera it is, on its channel.
Rename(t) ==
  \E r \in db[t], in \in Inputs[t] :
    /\ in.name # r.name /\ NameFree(t, in.name, r.id)
    /\ Change([db EXCEPT ![t] = (@ \ {r}) \cup {[r EXCEPT !.name = in.name]}])
    /\ UNCHANGED last

\* delete_tag, delete_device, delete_dashboard_button, delete_hour_bitmask: what hangs on the
\* row goes with it; an assignment loses its mask and a command its button (SET_NULL); a
\* mask that a rule uses stays (RESTRICT).
Remove(t) ==
  \E r \in db[t] :
    LET kept(l) == {x \in db[l] : ~Mentions(l, x, t, r.id)} IN
    /\ t = "mask" => kept("rule") = db.rule
    /\ Change([db EXCEPT
         ![t] = @ \ {r},
         !.tagged = kept("tagged"), !.rule = kept("rule"),
         !.assigned = IF t = "mask" THEN {IF x[2] = r.id THEN <<x[1], 0>> ELSE x : x \in @}
                      ELSE kept("assigned"),
         !.command = IF t = "button" /\ @ = r.id THEN 0 ELSE @])
    /\ UNCHANGED last

\* add_tag_to_device, remove_tag_from_device; a rule of a form (save_button_rules).
Relink ==
  /\ \/ \E x \in {r.id : r \in db.device} \X {r.id : r \in db.tag} :
          Change([db EXCEPT !.tagged = (@ \ {x}) \cup ({x} \ @)])
     \/ \E b \in db.button, t \in db.tag, m \in db.mask :
          LET x == <<b.id, t.id, m.id>> IN
          Change([db EXCEPT !.rule = IF x \in @ THEN @ \ {x}
                                     ELSE {y \in @ : y[1] # x[1] \/ y[2] # x[2]} \cup {x}])
  /\ UNCHANGED last

-----------------------------------------------------------------------------
(* The export. *)

ExportBegin ==
  /\ Free /\ origin = <<>>                                      \* bound: one export
  /\ toRead' = Parts /\ origin' = Everything
  /\ UNCHANGED <<configVars, db, last, file, touched, toRestore, before, run>>

\* The rows of a part: tables by name, links by the names of their ends.  The position in
\* the list is that of the id, which is not exported.
Listed(t) ==
  CASE t \in Tables -> db[t]
    [] t \in Links  -> {[at |-> x, label |-> Label(db, t, x)] : x \in db[t]}
    [] OTHER        -> [rows |-> rows, palette |-> palette]

\* _export_hour_bitmasks ... _export_app_config: a query and its prefetches.
ExportPart ==
  /\ Free /\ Exporting
  /\ file' = [p \in DOMAIN file \cup {Head(toRead)} |->
                IF p = Head(toRead) THEN Listed(p) ELSE file[p]]
  /\ toRead' = Tail(toRead)
  /\ UNCHANGED <<configVars, db, last, origin, touched, toRestore, before, run>>

-----------------------------------------------------------------------------
(* The import. *)

\* _wipe_all, in the transaction.
ImportBegin ==
  /\ Free /\ file # <<>> /\ ~Exporting
  /\ before' = [data |-> Everything, unread |-> unread] /\ toRestore' = Parts
  /\ db' = [t \in DOMAIN db |-> IF t = "command" THEN 0 ELSE {}]
  /\ rows' = [f \in AllFields |-> Unset] /\ palette' = <<>> /\ unread' = Groups
  /\ UNCHANGED <<cache, post, forms, last, file, toRead, origin, touched, run>>

Restoring(t) == before # <<>> /\ toRestore # <<>> /\ Head(toRestore) = t

\* _restore_hour_bitmasks, _restore_tags, _restore_devices, _restore_dashboard_buttons: new
\* ids, in the order of the list.
RestoreTable(t) ==
  LET rank(r) == Cardinality({q \in file[t] : q.id <= r.id})
      first == NextId(t)
  IN
  /\ Restoring(t) /\ toRestore' = Tail(toRestore)
  /\ db' = [db EXCEPT ![t] = {[r EXCEPT !.id = first + rank(r) - 1] : r \in file[t]}]
  /\ last' = [last EXCEPT ![t] = first + Cardinality(file[t]) - 1]
  /\ UNCHANGED <<configVars, file, toRead, origin, touched, before, run>>

Found(t, n) == IF Called(db, t, n) = {} THEN 0 ELSE (CHOOSE r \in Called(db, t, n) : TRUE).id
Resolved(l, y) == [k \in DOMAIN y.label |-> Found(Ends[l][k], y.label[k])]

\* An assignment without its mask is kept; any other link that lacks an end is left out.
ToLink(l) ==
  {y \in file[l] : \A k \in DOMAIN y.label : Resolved(l, y)[k] = 0 => <<l, k>> = <<"assigned", 2>>}

\* get_or_none of a name that is there twice, or a second rule for a button and a tag.
Fails(l) ==
  /\ l = "rule"
  /\ \/ \E y \in file[l] : Cardinality(Called(db, "button", y.label[1])) > 1
     \/ \E y, z \in ToLink(l) : y # z /\ SubSeq(Resolved(l, y), 1, 2) = SubSeq(Resolved(l, z), 1, 2)

\* _restore_device_tags, _restore_device_bitmask_assignments, _restore_dashboard_button_rules
RestoreLinks(l) ==
  /\ Restoring(l) /\ ~Fails(l) /\ toRestore' = Tail(toRestore)
  /\ db' = [db EXCEPT ![l] = {Resolved(l, y) : y \in ToLink(l)}]
  /\ UNCHANGED <<configVars, last, file, toRead, origin, touched, before, run>>

\* _restore_app_config
RestoreConfig ==
  /\ Restoring("config") /\ toRestore' = Tail(toRestore)
  /\ rows' = file["config"].rows /\ palette' = file["config"].palette
  /\ UNCHANGED <<cache, unread, post, forms, db, last, file, toRead, origin, touched, before, run>>

\* The transaction ends well; nothing reloads the copies of the settings.
Commit ==
  /\ before # <<>> /\ toRestore = <<>> /\ before' = <<>>
  /\ file' = <<>>                                               \* bound: a file is imported once
  /\ post' = [p \in Posts |-> [post[p] EXCEPT !.stale = (@ \/ post[p].pc # "idle")]]
  /\ UNCHANGED <<rows, palette, cache, unread, forms, db, last, toRead, origin, touched, toRestore, run>>

RollbackNothing ==  \* mutant: every create is a transaction of its own
  /\ before' = <<>> /\ toRestore' = <<>>
  /\ UNCHANGED <<db, last, rows, palette>>

Rollback ==
  /\ before' = <<>> /\ toRestore' = <<>>
  /\ db' = before.data.db /\ last' = before.data.last
  /\ rows' = before.data.rows /\ palette' = before.data.palette

\* An exception in apply_import: ImportResult(success=False).
ImportFails ==
  /\ \E l \in Links : Restoring(l) /\ Fails(l)
  /\ Rollback /\ unread' = before.unread
  /\ UNCHANGED <<cache, post, forms, file, toRead, origin, touched, run>>

ImportStep ==
  \/ ImportBegin \/ RestoreConfig \/ Commit \/ ImportFails
  \/ \E t \in Tables : RestoreTable(t)
  \/ \E l \in Links : RestoreLinks(l)

-----------------------------------------------------------------------------
(* A command, from a button or from the page, and its run. *)

Issue ==
  /\ Free /\ run.pc = "none"                                    \* bound: one command
  /\ forms < MaxForms /\ forms' = forms + 1
  /\ \E b \in {0} \cup {r.id : r \in db.button} : db' = [db EXCEPT !.command = b]
  /\ run' = [run EXCEPT !.pc = "queued"]
  /\ UNCHANGED <<rows, palette, cache, unread, post, last, backupVars>>

\* run_workflow: the cameras of the button's rules, or all; its queries taken as one.
Start ==
  LET covered == {x[1] : x \in {y \in db.tagged : \E r \in db.rule :
                                                    r[1] = db.command /\ r[2] = y[2]}}
      scope == IF covered # {} THEN covered ELSE {r.id : r \in db.device}
  IN
  /\ Free /\ run.pc = "queued"
  /\ run' = [run EXCEPT !.pc = "read", !.todo = scope,
                        !.scope = {r.data : r \in {q \in db.device : q.id \in scope}}]
  /\ UNCHANGED <<configVars, db, last, backupVars>>

\* SetNotificationBitmasksNode: Device.get of each id, which raises if the row is gone; the
\* camera is written; the activity log refers to the row, and raises, too.
ReadCamera ==
  /\ Free /\ run.pc = "read"
  /\ IF run.todo = {} THEN run' = [run EXCEPT !.pc = "done"]
     ELSE \E i \in run.todo :
            /\ \A j \in run.todo : i <= j
            /\ run' = IF Has(db, "device", i)
                      THEN [run EXCEPT !.pc = "write", !.held = Row(db, "device", i).data]
                      ELSE [run EXCEPT !.pc = "failed"]
  /\ UNCHANGED <<configVars, db, last, backupVars>>

WriteCamera ==
  /\ run.pc = "write"
  /\ run' = [run EXCEPT !.pc = "log", !.written = @ \cup {run.held}]
  /\ UNCHANGED <<configVars, db, last, backupVars>>

LogCamera ==
  /\ Free /\ run.pc = "log"
  /\ \E i \in run.todo :
       /\ \A j \in run.todo : i <= j
       /\ run' = IF Has(db, "device", i)
                 THEN [run EXCEPT !.pc = "read", !.todo = @ \ {i}]
                 ELSE [run EXCEPT !.pc = "failed"]
  /\ UNCHANGED <<configVars, db, last, backupVars>>

RunStep == Issue \/ Start \/ ReadCamera \/ WriteCamera \/ LogCamera

-----------------------------------------------------------------------------
\* The process ends and starts: a transaction is rolled back, a request forgotten, a run
\* failed; a job that has not begun is still queued.
Restart ==
  /\ IF Free THEN RestartConfig /\ UNCHANGED <<db, last, toRestore, before>>
     ELSE /\ Rollback
          /\ post' = [p \in Posts |-> IF post[p].pc = "page" THEN post[p] ELSE NoPost]
          /\ cache' = Effective(rows') /\ unread' = {}
          /\ UNCHANGED forms
  /\ toRead' = <<>> /\ file' = (IF Exporting THEN <<>> ELSE file)
  /\ run' = [run EXCEPT !.pc = IF @ \in {"read", "write", "log"} THEN "failed" ELSE @]
  /\ UNCHANGED <<origin, touched>>

SettingsStep ==
  /\ Free /\ \E p \in Posts : PostStep(p)
  /\ TouchConfig
  /\ UNCHANGED <<db, last, file, toRead, origin, toRestore, before, run>>

FormStep == Relink \/ \E t \in Tables : Create(t) \/ Rename(t) \/ Remove(t)

Next ==
  \/ SettingsStep \/ FormStep
  \/ ExportBegin \/ ExportPart \/ ImportStep
  \/ RunStep \/ Restart

Spec == Init /\ [][Next]_vars

-----------------------------------------------------------------------------
(* Properties. *)

\* The type invariant.
TypeOK ==
  /\ ConfigTypeOK /\ Schema(db)
  /\ Free => toRestore = <<>>
  /\ run.pc \in {"none", "queued", "read", "write", "log", "done", "failed"}

Labels(d, p) ==
  IF p \in Tables THEN {[name |-> r.name, data |-> r.data] : r \in d[p]}
  ELSE {Label(d, p, x) : x \in d[p]}

\* What nobody touched while the export went through the tables.
Steady(p) ==
  IF p \in Tables THEN {r \in origin.db[p] : <<p, r.id>> \notin touched}
  ELSE {x \in origin.db[p] : /\ <<p, x>> \notin touched
                             /\ \A k \in DOMAIN x : <<Ends[p][k], x[k]>> \notin touched}

\* Of what an export has (the exported columns; a device's tags and mask, a button's rules),
\* an import brings back every row and every link that nobody touched during the export (the
\* pages' edits come between its tables), and all there was, no more, if nobody touched any;
\* the settings, too.  (data_export.py:3, references by name are portable.)
BackupIsWhole ==
  [][Commit =>
       /\ \A t \in Tables : Labels([origin.db EXCEPT ![t] = Steady(t)], t) \subseteq Labels(db, t)
       /\ \A l \in Links : {Label(origin.db, l, x) : x \in Steady(l)} \subseteq Labels(db, l)
       /\ touched = {} => \A p \in Tables \cup Links :
            Labels(db, p) = Labels(origin.db, p) /\ Cardinality(db[p]) = Cardinality(origin.db[p])
       /\ <<"config", 0>> \notin touched => rows = origin.rows /\ palette = origin.palette]_vars

\* An import that fails or is cut off leaves all as it was (data_import.py:132, "if anything
\* fails the database is left unchanged"), and a file nobody disturbed the making of fails
\* only if two buttons of one name had rules.
ImportIsAtomic ==
  [][before # <<>> /\ before' = <<>> /\ ~Commit =>
       /\ Everything' = before.data
       /\ ImportFails /\ touched = {} =>
            \E x \in origin.db.rule : Cardinality(Called(origin.db, "button", Label(origin.db, "rule", x)[1])) > 1]_vars

\* Whatever is deleted, created, or wiped and restored meanwhile, a run writes no camera
\* other than those it was started for: no id it holds becomes another camera's.  (A form that
\* gives a device another channel makes it another camera on purpose, and is not meant.)
RunKeepsItsCameras == run.written \subseteq run.scope
=============================================================================
