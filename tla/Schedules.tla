----------------------------- MODULE Schedules -----------------------------
(***************************************************************************)
(* From an hour mask on a page to the schedule in the camera               *)
(* (services/bitmask.py, solar.py, detection.py, routes/bitmasks.py).      *)
(*                                                                         *)
(* Pages create, edit and delete masks and choose a camera's detection     *)
(* types.  A command asks, when it is posted, whether the camera has a     *)
(* mask; its run later resolves one schedule per enabled type, read by     *)
(* read, and writes them to the NVR.                                       *)
(*                                                                         *)
(* One camera and the command's mode.  A schedule is its set of lit hours. *)
(* Times are half hours since midnight, local: 13 is 6:30 to 6:59.         *)
(***************************************************************************)
EXTENDS Integers

CONSTANTS
  Types, Masks,
  None,     \* no mask: no assignment row, or one whose mask was deleted
  Posts,    \* posts of the mask form
  Forms,    \* what they may carry
  Suns,     \* sunrise and sunset on a day
  MaxDays   \* bound: changes of date

Hours == 0..23

ASSUME SchedulesAssumption ==
  /\ None \notin Masks /\ MaxDays \in Nat
  /\ \A s \in Suns : s.rise \in Int /\ s.set \in Int
  /\ \A f \in Forms :
       /\ {f.dynamic, f.fill} \subseteq BOOLEAN /\ f.static \subseteq Nat
       /\ \A offset \in {f.rise, f.set} :  \* a blank field is the empty set
            offset \subseteq Int /\ \A x, y \in offset : x = y

VARIABLES
  masks, state,      \* hour_bitmask: the rows; "unused", "kept" or "deleted"
  enabled,           \* device_detection_type: the types with a row that is enabled
  assigned,          \* device_bitmask_assignment: each type's mask
  sun, days,         \* the sun's times today
  postPc, postMask, postForm, postRow,  \* posts of the mask form
  typesTodo,         \* the post of the types' form: the rows it has still to create
  pc, checked,       \* the command: where it is; its page has asked for a mask
  todo, at, want,    \*   the types still to do; the one at work and its mask
  resolved,          \*   the schedules resolved so far
  nvr,               \* the schedules in the camera
  shown,             \* history: the form last saved for a mask
  seen, steady,      \* history: what was due to a type during the run; types on since the post
  written, lost, retyped,  \* history: types written; masks deleted, types posted
  fault              \* history: what failed of the run, a read or a call of the NVR

maskVars == <<masks, state, shown>>
postVars == <<postPc, postMask, postForm, postRow>>
typeVars == <<enabled, typesTodo, retyped>>
dayVars  == <<sun, days>>
runVars  == <<pc, checked, todo, at, want, resolved, nvr, written, fault>>
memory   == <<seen, steady>>
vars == <<maskVars, postVars, typeVars, dayVars, runVars, assigned, lost, memory>>

-----------------------------------------------------------------------------
(* Dynamic masks: services/solar.py. *)

RoundDown(t) == (t \div 2) % 24  \* mutant: minutes are cut off

RoundToHour(t) == (IF t % 2 = 1 THEN t \div 2 + 1 ELSE t \div 2) % 24

LitBetweenSameDay(rise, set) ==  \* mutant: no branch for a window through midnight
  {h \in Hours : RoundToHour(rise) <= h /\ h < RoundToHour(set)}

\* compute_dynamic_bitmask, the hours that get the fill value.
LitBetween(rise, set) ==
  LET r == RoundToHour(rise)
      s == RoundToHour(set)
  IN  {h \in Hours : \/ r = s /\ set - rise > 24
                     \/ r < s /\ r <= h /\ h < s
                     \/ r > s /\ (h >= r \/ h < s)}

Filled(fill, lit) == IF fill THEN lit ELSE Hours \ lit

ResolveSwapped(m) ==  \* mutant: the two offsets are mixed up
  IF m.dynamic THEN Filled(m.fill, LitBetween(sun.rise + m.set, sun.set + m.rise))
               ELSE m.static

ResolveHourBitmask(m) ==
  IF m.dynamic THEN Filled(m.fill, LitBetween(sun.rise + m.rise, sun.set + m.set))
               ELSE m.static

\* The definition it is compared with: the hours counted from the rounded
\* sunrise up to the rounded sunset, or to that of the next day if the sunset
\* is the earlier one.
WindowHours(rise, set) ==
  LET a == (rise + 1) \div 2
      b == (set + 1) \div 2
      last == IF a <= b THEN b ELSE b + 24
  IN  {h \in Hours : \E k \in a..(last - 1) : h = k % 24}

DueOf(m) ==
  IF m.dynamic THEN Filled(m.fill, WindowHours(sun.rise + m.rise, sun.set + m.set))
               ELSE m.static

\* The form's own preview, computed in the browser from times of day.
Preview(f) ==
  LET off(o) == IF o = {} THEN 0 ELSE CHOOSE x \in o : TRUE
      rise == (sun.rise % 48) + off(f.rise)
      set  == (sun.set % 48) + off(f.set)
      r    == RoundToHour(rise)
      s    == RoundToHour(set)
      gap  == IF set >= rise THEN set - rise ELSE set - rise + 48
  IN  IF ~f.dynamic THEN f.static
      ELSE Filled(f.fill, {h \in Hours : \/ r = s /\ gap > 24
                                         \/ r < s /\ r <= h /\ h < s
                                         \/ r > s /\ (h >= r \/ h < s)})

-----------------------------------------------------------------------------
(* Posts of the mask form. *)

\* _validate_hour_bitmask_value
Valid(f) == f.dynamic \/ f.static \subseteq Hours

NewRow == [dynamic |-> FALSE, static |-> {}, rise |-> 0, set |-> 0, fill |-> TRUE]

Kept(offset, old) == IF offset = {} THEN old ELSE CHOOSE x \in offset : TRUE

\* A static form sends the hours only; a blank offset is not sent.
UpdatedNoSubtype(row, f) ==  \* mutant: the subtype is not taken over
  IF f.dynamic
  THEN [row EXCEPT !.rise = Kept(f.rise, @), !.set = Kept(f.set, @), !.fill = f.fill]
  ELSE [row EXCEPT !.static = f.static]

Updated(row, f) ==
  IF f.dynamic
  THEN [row EXCEPT !.dynamic = TRUE, !.rise = Kept(f.rise, @), !.set = Kept(f.set, @),
                   !.fill = f.fill]
  ELSE [row EXCEPT !.dynamic = FALSE, !.static = f.static]

Rows == {Updated(NewRow, f) : f \in {g \in Forms : Valid(g)}}

Init ==
  /\ state \in [Masks -> {"unused", "kept"}]
  /\ masks \in [Masks -> Rows] /\ \A m \in Masks : state[m] = "unused" => masks[m] = NewRow
  /\ enabled \in SUBSET Types
  /\ assigned \in [Types -> {m \in Masks : state[m] = "kept"} \cup {None}]
  /\ sun \in Suns /\ days = 0
  /\ postPc = [p \in Posts |-> "new"] /\ postMask = [p \in Posts |-> None]
  /\ postForm = [p \in Posts |-> {}] /\ postRow = [p \in Posts |-> NewRow]
  /\ typesTodo = {}
  /\ pc = "idle" /\ checked = FALSE
  /\ todo = {} /\ at = None /\ want = None /\ resolved = <<>>
  /\ nvr = [t \in Types |-> Hours]
  /\ shown = [m \in Masks |-> {}]
  /\ seen = [t \in Types |-> {}] /\ steady = {}
  /\ written = {} /\ lost = {} /\ retyped = FALSE /\ fault = "none"

PostElse == UNCHANGED <<typeVars, dayVars, runVars, assigned, lost>>

Store(m, row, f) ==
  /\ masks' = [masks EXCEPT ![m] = row]
  /\ state' = [state EXCEPT ![m] = "kept"]
  /\ shown' = [shown EXCEPT ![m] = {f}]

Create(p) ==
  /\ postPc[p] = "new"
  /\ \E m \in Masks, f \in Forms :
       /\ state[m] = "unused" /\ Valid(f)
       /\ Store(m, Updated(NewRow, f), f)
  /\ postPc' = [postPc EXCEPT ![p] = "done"]
  /\ UNCHANGED <<postMask, postForm, postRow>> /\ PostElse

\* update_hour_bitmask reads the row, refuses a static value that is not one,
\* and takes the form's fields over.
Edit(p) ==
  /\ postPc[p] = "new"
  /\ \E m \in Masks, f \in Forms :
       /\ state[m] = "kept"
       /\ IF Valid(f)
          THEN /\ postPc' = [postPc EXCEPT ![p] = "save"]
               /\ postMask' = [postMask EXCEPT ![p] = m]
               /\ postForm' = [postForm EXCEPT ![p] = {f}]
               /\ postRow' = [postRow EXCEPT ![p] = Updated(masks[m], f)]
          ELSE /\ postPc' = [postPc EXCEPT ![p] = "done"]
               /\ UNCHANGED <<postMask, postForm, postRow>>
  /\ UNCHANGED maskVars /\ PostElse

PostIdle(p) ==
  /\ postPc' = [postPc EXCEPT ![p] = "done"]
  /\ postMask' = [postMask EXCEPT ![p] = None]
  /\ postForm' = [postForm EXCEPT ![p] = {}]
  /\ postRow' = [postRow EXCEPT ![p] = NewRow]

\* The save of a row that was deleted meanwhile changes nothing.
Save(p) ==
  /\ postPc[p] = "save"
  /\ LET m == postMask[p]
     IN  IF state[m] = "kept"
         THEN \E f \in postForm[p] : Store(m, postRow[p], f)
         ELSE UNCHANGED maskVars
  /\ PostIdle(p) /\ PostElse

\* on_delete=SET_NULL; a mask that a button's rule uses is not deleted.
Delete(p) ==
  /\ postPc[p] = "new"
  /\ \E m \in Masks :
       /\ state[m] = "kept"
       /\ state' = [state EXCEPT ![m] = "deleted"]
       /\ assigned' = [t \in Types |-> IF assigned[t] = m THEN None ELSE assigned[t]]
  /\ postPc' = [postPc EXCEPT ![p] = "done"]
  /\ lost' = lost \cup {pc}
  /\ UNCHANGED <<masks, shown, postMask, postForm, postRow, typeVars, dayVars, runVars>>

-----------------------------------------------------------------------------
(* The form of detection types: set_detection_types, posted once. *)

TypesElse == UNCHANGED <<maskVars, postVars, dayVars, runVars, assigned, lost>>

TypesDelete ==
  /\ ~retyped
  /\ enabled' = {}
  /\ typesTodo' \in SUBSET Types
  /\ retyped' = TRUE
  /\ TypesElse

TypesCreate ==
  /\ \E t \in typesTodo :
       /\ enabled' = enabled \cup {t}
       /\ typesTodo' = typesTodo \ {t}
  /\ UNCHANGED retyped /\ TypesElse

\* get_sunrise_sunset: today's times.
NextDay ==
  /\ days < MaxDays /\ days' = days + 1
  /\ sun' \in Suns
  /\ UNCHANGED <<maskVars, postVars, typeVars, runVars, assigned, lost>>

-----------------------------------------------------------------------------
(* The command: its post, and SetNotificationBitmasksNode with             *)
(* resolve_bitmasks_for_device.                                            *)

RunElse == UNCHANGED <<maskVars, postVars, typeVars, dayVars, assigned>>

HasAssignmentRow == \E t \in Types : assigned[t] \in Masks \cup {None}  \* mutant: rows without a mask count

\* find_devices_missing_bitmasks looks at all types, enabled or not.
HasAssignment == \E t \in Types : assigned[t] # None

\* Set Away and Pause Recording ask for a mask; Set Home and buttons do not.
Submit ==
  /\ pc = "idle"
  /\ checked' \in BOOLEAN
  /\ checked' => HasAssignment
  /\ pc' = "queued" /\ lost' = {}
  /\ UNCHANGED <<todo, at, want, resolved, nvr, written, fault>> /\ RunElse

ReadTypes ==
  /\ pc = "queued"
  /\ pc' = IF enabled = {} THEN "done" ELSE "resolve"
  /\ todo' = enabled
  /\ UNCHANGED <<checked, at, want, resolved, nvr, written, fault, lost>> /\ RunElse

\* The schedule of a type is known: on to the next type, or to the writes.
Resolve(t, hours) ==
  LET all == [u \in DOMAIN resolved \cup {t} |-> IF u = t THEN hours ELSE resolved[u]]
  IN  /\ resolved' = all
      /\ todo' = IF todo = {t} THEN DOMAIN all ELSE todo \ {t}
      /\ pc' = IF todo = {t} THEN "write" ELSE "resolve"
      /\ at' = None /\ want' = None
      /\ UNCHANGED <<checked, nvr, written, fault, lost>>

LookupSkips ==  \* mutant: a type without a mask is left out
  /\ pc = "resolve" /\ want = None
  /\ \E t \in todo :
       IF assigned[t] = None
       THEN /\ todo' = todo \ {t}
            /\ pc' = IF todo = {t} THEN "done" ELSE pc
            /\ UNCHANGED <<checked, at, want, resolved, nvr, written, fault, lost>>
       ELSE /\ at' = t /\ want' = assigned[t]
            /\ UNCHANGED <<pc, checked, todo, resolved, nvr, written, fault, lost>>
  /\ RunElse

Lookup ==
  /\ pc = "resolve" /\ want = None
  /\ \E t \in todo :
       \/ assigned[t] = None /\ Resolve(t, {})
       \/ /\ assigned[t] # None
          /\ at' = t /\ want' = assigned[t]
          /\ UNCHANGED <<pc, checked, todo, resolved, nvr, written, fault, lost>>
  /\ RunElse

\* HourBitmask.get raises DoesNotExist.
Fetch ==
  /\ pc = "resolve" /\ want # None
  /\ IF state[want] = "kept"
     THEN Resolve(at, ResolveHourBitmask(masks[want]))
     ELSE /\ pc' = "failed" /\ todo' = {} /\ at' = None /\ want' = None
          /\ UNCHANGED <<checked, resolved, nvr, written, fault, lost>>
  /\ RunElse

\* Device.get of a camera that was deleted raises; so do the times of the sun for a time
\* zone that is not known, or a place where the sun does not set.
ReadFails ==
  /\ \/ pc = "queued"
     \/ pc = "resolve" /\ want # None /\ state[want] = "kept" /\ masks[want].dynamic
  /\ pc' = "failed" /\ todo' = {} /\ at' = None /\ want' = None /\ fault' = "read"
  /\ UNCHANGED <<checked, resolved, nvr, written, lost>> /\ RunElse

\* set_alarm_schedule; if it raises, the camera's other types are not written.
Write ==
  /\ pc = "write"
  /\ \E t \in todo :
       \/ /\ nvr' = [nvr EXCEPT ![t] = resolved[t]]
          /\ written' = written \cup {t} /\ todo' = todo \ {t}
          /\ pc' = IF todo = {t} THEN "done" ELSE pc
          /\ UNCHANGED fault
       \/ /\ nvr' \in {nvr, [nvr EXCEPT ![t] = resolved[t]]}
          /\ pc' = "failed" /\ todo' = {} /\ fault' = "call"
          /\ UNCHANGED written
  /\ UNCHANGED <<checked, at, want, resolved, lost>> /\ RunElse

-----------------------------------------------------------------------------
\* What a type ought to get now.
Due(t) == IF assigned[t] = None THEN {} ELSE DueOf(masks[assigned[t]])

Remember ==
  /\ seen' = [t \in Types |->
                IF pc' = "resolve" /\ t \in (todo \cup todo') \ DOMAIN resolved
                THEN seen[t] \cup {Due(t)'} ELSE seen[t]]
  /\ steady' = IF pc = "idle" THEN enabled' ELSE steady \cap enabled'

PostStep(p) == Create(p) \/ Edit(p) \/ Save(p) \/ Delete(p)
RunStep == Submit \/ ReadTypes \/ Lookup \/ Fetch \/ ReadFails \/ Write

Next ==
  /\ \/ \E p \in Posts : PostStep(p)
     \/ TypesDelete
     \/ TypesCreate
     \/ NextDay
     \/ RunStep
  /\ Remember

Spec == Init /\ [][Next]_vars

-----------------------------------------------------------------------------
(* Properties. *)

RowType == [dynamic: BOOLEAN, static: SUBSET Hours, rise: Int, set: Int, fill: BOOLEAN]

RowsOK == masks \in [Masks -> RowType] /\ postRow \in [Posts -> RowType]

\* Types of the variables.  Every row of hour_bitmask holds 24 hours, whatever
\* was posted, and an assignment names a row that exists.
TypeOK ==
  /\ RowsOK
  /\ state \in [Masks -> {"unused", "kept", "deleted"}]
  /\ enabled \subseteq Types
  /\ assigned \in [Types -> {m \in Masks : state[m] = "kept"} \cup {None}]
  /\ sun \in Suns /\ days \in 0..MaxDays
  /\ postPc \in [Posts -> {"new", "save", "done"}]
  /\ postMask \in [Posts -> Masks \cup {None}]
  /\ postForm \in [Posts -> SUBSET Forms]
  /\ typesTodo \subseteq Types /\ retyped \in BOOLEAN
  /\ pc \in {"idle", "queued", "resolve", "write", "done", "failed"}
  /\ checked \in BOOLEAN /\ fault \in {"none", "read", "call"}
  /\ {todo, written, steady, DOMAIN resolved} \subseteq SUBSET Types
  /\ at \in Types \cup {None} /\ want \in Masks \cup {None}
  /\ resolved \in [DOMAIN resolved -> SUBSET Hours]
  /\ nvr \in [Types -> SUBSET Hours]
  /\ shown \in [Masks -> SUBSET Forms]
  /\ seen \in [Types -> SUBSET SUBSET Hours]

\* Every dynamic mask, on every day, fills the hours from the rounded sunrise to
\* the rounded sunset, through midnight if the sunset is the earlier one.  A
\* window stretched by its offsets beyond 24 hours is the exception: it is cut
\* by 24.
WindowFilled ==
  \A m \in Masks :
    LET rise == sun.rise + masks[m].rise
        set  == sun.set + masks[m].set
    IN  set - rise \in -48..48 => LitBetween(rise, set) = WindowHours(rise, set)

\* What the form showed is what a run uses, on any day, but in two cases: a
\* field left blank keeps the row's old offset where the preview takes 0, and
\* when both times round to one hour, the preview only guesses how far apart
\* they are: it adds a day if the sunset is before the sunrise, where the
\* server does not (hour_form.html:141, solar.py:65), and it has the times of
\* day only, so that yesterday's sunset looks like today's.
PreviewAgrees ==
  \A m \in Masks : \A f \in shown[m] :
    LET row == masks[m]
        rise == sun.rise + row.rise
        set == sun.set + row.set
    IN  \/ Preview(f) = ResolveHourBitmask(row)
        \/ f.rise = {} /\ row.rise # 0
        \/ f.set = {} /\ row.set # 0
        \/ /\ RoundToHour(rise) = RoundToHour(set)
           /\ set < rise \/ ~({sun.rise, sun.set} \subseteq 0..47)

\* A schedule in the camera was due to its type at some moment of the run,
\* although types, assignments, masks and the date are read one by one and
\* change in between.
WroteDue == \A t \in written : nvr[t] \in seen[t]

\* A run that ends without error has written every type that was enabled all
\* along: only a type of a form under way can be missed.  A run that fails but
\* for a call of the NVR has not touched the camera, and if no read failed
\* either, a mask was deleted between the two reads of it.
WholeOrUntouched ==
  /\ pc = "done" => steady \subseteq written
  /\ pc = "failed" /\ fault # "call" => nvr = [t \in Types |-> Hours]
  /\ pc = "failed" /\ fault = "none" => "resolve" \in lost

\* A command whose page has asked for a mask, and that ends without error, has
\* written a mask, unless one was deleted or the types were posted, or the
\* only masks are those of types that are not enabled: the page does not ask
\* which types are.
CheckedIsArmed ==
  pc = "done" /\ checked /\ lost = {} /\ ~retyped =>
    \E t \in Types : assigned[t] # None /\ (t \in enabled => t \in written)

=============================================================================
