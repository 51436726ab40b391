--------------------------- MODULE SchedulesProofs ---------------------------
(***************************************************************************)
(* For any types, masks, posts, forms and days, the invariants of          *)
(* Schedules: dynamic masks fill their windows, a run writes whole         *)
(* cameras or none and only what was due, what the page asked holds for    *)
(* its run, and the form's preview shows what a run will use.              *)
(***************************************************************************)
EXTENDS Schedules, TLAPS

\* Rounding to the nearest hour of the day is rounding on the time line.
LEMMA Rounding ==
  ASSUME NEW t \in Int
  PROVE  RoundToHour(t) = ((t + 1) \div 2) % 24
<1>1. CASE t % 2 = 1
  <2>1. (t + 1) \div 2 = t \div 2 + 1
    BY <1>1
  <2> QED BY <1>1, <2>1 DEF RoundToHour
<1>2. CASE t % 2 # 1
  <2>1. (t + 1) \div 2 = t \div 2
    BY <1>2
  <2> QED BY <1>2, <2>1 DEF RoundToHour
<1> QED BY <1>1, <1>2

\* A window that starts at hour a and has at least one hour and at most 24: an
\* hour of the day h lies in it if h, on the first day or on the next, does.
LEMMA HoursOfWindow ==
  ASSUME NEW a \in Int, NEW last \in Int, a <= last, last <= a + 24, NEW h \in Hours
  PROVE  (\E k \in a..(last - 1) : h = k % 24)
           <=> \/ a <= 24 * (a \div 24) + h /\ 24 * (a \div 24) + h < last
               \/ 24 * (a \div 24) + h + 24 < last
<1> DEFINE q == 24 * (a \div 24)
<1>1. q \in Int /\ q <= a /\ a < q + 24
  OBVIOUS
<1>2. h \in 0..23
  BY DEF Hours
<1>3. (q + h) % 24 = h /\ (q + h + 24) % 24 = h
  BY <1>2
<1>4. ASSUME NEW k \in a..(last - 1), h = k % 24
      PROVE  k = q + h \/ k = q + h + 24
  BY <1>1, <1>2, <1>4
<1>5. ASSUME \E k \in a..(last - 1) : h = k % 24
      PROVE  (a <= q + h /\ q + h < last) \/ q + h + 24 < last
  BY <1>1, <1>2, <1>4, <1>5
<1>6. ASSUME (a <= q + h /\ q + h < last) \/ q + h + 24 < last
      PROVE  \E k \in a..(last - 1) : h = k % 24
  <2>1. CASE a <= q + h /\ q + h < last
    <3>1. q + h \in a..(last - 1)
      BY <2>1, <1>1, <1>2
    <3> WITNESS q + h \in a..(last - 1)
    <3> QED BY <1>3
  <2>2. CASE q + h + 24 < last
    <3>1. q + h + 24 \in a..(last - 1)
      BY <2>2, <1>1, <1>2
    <3> WITNESS q + h + 24 \in a..(last - 1)
    <3> QED BY <1>3
  <2> QED BY <1>6, <2>1, <2>2
<1> QED BY <1>5, <1>6

\* compute_dynamic_bitmask compares hours of the day and, if they are equal, the
\* distance of the two times; that is the window on the time line.  The window
\* is at most a day, in either direction.
LEMMA HourIsFilled ==
  ASSUME NEW rise \in Int, NEW set \in Int, set - rise \in -48..48, NEW h \in Hours
  PROVE  h \in LitBetween(rise, set) <=> h \in WindowHours(rise, set)
<1> DEFINE a == (rise + 1) \div 2
           b == (set + 1) \div 2
           last == IF a <= b THEN b ELSE b + 24
           qa == 24 * (a \div 24)
           qb == 24 * (b \div 24)
           r == a % 24
           s == b % 24
<1>1. a \in Int /\ b \in Int /\ last \in Int /\ h \in 0..23
  BY DEF Hours
<1>2. b - a \in -24..24 /\ (b - a = 24 => set - rise > 24) /\ (b - a < 24 => set - rise <= 47)
  OBVIOUS
<1>3. (b - a = 0 => set - rise <= 24) /\ (b - a = -24 => set - rise <= 24)
  OBVIOUS
<1>4. a = qa + r /\ b = qb + s /\ r \in 0..23 /\ s \in 0..23
  OBVIOUS
<1>5. qb \in {qa - 24, qa, qa + 24}
  BY <1>2
<1>6. h \in LitBetween(rise, set)
        <=> (r = s /\ set - rise > 24) \/ (r < s /\ r <= h /\ h < s) \/ (r > s /\ (h >= r \/ h < s))
  BY Rounding DEF LitBetween
<1>7. a <= last /\ last <= a + 24
  BY <1>2
<1>8. h \in WindowHours(rise, set) <=> \E k \in a..(last - 1) : h = k % 24
  BY DEF WindowHours
<1>9. (\E k \in a..(last - 1) : h = k % 24)
        <=> (a <= qa + h /\ qa + h < last) \/ qa + h + 24 < last
  <2> HIDE DEF a, last
  <2> QED BY <1>1, <1>7, HoursOfWindow
<1> HIDE DEF a, b, qa, qb, r, s
<1>10. (r = s /\ set - rise > 24) \/ (r < s /\ r <= h /\ h < s) \/ (r > s /\ (h >= r \/ h < s))
         <=> (a <= qa + h /\ qa + h < last) \/ qa + h + 24 < last
  <2>0. qa \in Int
    BY DEF qa, a
  <2>1. CASE qb = qa - 24
    BY <2>0, <2>1, <1>1, <1>2, <1>3, <1>4
  <2>2. CASE qb = qa
    BY <2>0, <2>2, <1>1, <1>2, <1>3, <1>4
  <2>3. CASE qb = qa + 24
    BY <2>0, <2>3, <1>1, <1>2, <1>3, <1>4
  <2> QED BY <2>1, <2>2, <2>3, <1>5
<1> QED BY <1>6, <1>8, <1>9, <1>10

\* Rows keep their types: what a form brings in is 24 hours and whole offsets.
LEMMA UpdatedRow ==
  ASSUME NEW f \in Forms, Valid(f), NEW row \in RowType
  PROVE  Updated(row, f) \in RowType
<1>1. f.dynamic \in BOOLEAN /\ f.fill \in BOOLEAN /\ f.rise \subseteq Int /\ f.set \subseteq Int
  <2>1. \A g \in Forms : /\ {g.dynamic, g.fill} \subseteq BOOLEAN
                         /\ \A offset \in {g.rise, g.set} : offset \subseteq Int
    BY SchedulesAssumption, Zenon DEF SchedulesAssumption
  <2> QED BY <2>1
<1>2. Kept(f.rise, row.rise) \in Int /\ Kept(f.set, row.set) \in Int
  BY <1>1 DEF Kept, RowType
<1>3. CASE f.dynamic
  BY <1>1, <1>2, <1>3 DEF Updated, RowType
<1>4. CASE ~f.dynamic
  BY <1>1, <1>4 DEF Updated, RowType, Valid
<1> QED BY <1>1, <1>3, <1>4

\* The sun's times are those of a day, and rows are rows.
SunAndRows == sun \in Suns /\ RowsOK

LEMMA InitSunAndRows == Init => SunAndRows
<1> SUFFICES ASSUME Init PROVE SunAndRows
  OBVIOUS
<1>1. NewRow \in RowType
  BY DEF NewRow, RowType, Hours
<1>2. Rows \subseteq RowType
  BY <1>1, UpdatedRow DEF Rows
<1> QED BY <1>1, <1>2 DEF Init, SunAndRows, RowsOK

LEMMA SunAndRowsHold == Spec => []SunAndRows
<1>1. Init => SunAndRows
  BY InitSunAndRows
<1>2. SunAndRows /\ [Next]_vars => SunAndRows'
  <2> SUFFICES ASSUME SunAndRows, [Next]_vars
               PROVE  SunAndRows'
    OBVIOUS
  <2> USE DEF SunAndRows, RowsOK
  <2>1. NewRow \in RowType
    BY DEF NewRow, RowType, Hours
  <2>2. ASSUME NEW p \in Posts, PostStep(p)
        PROVE  SunAndRows'
    <3>1. CASE Create(p)
      BY <3>1, <2>1, UpdatedRow DEF Create, Store, PostElse, dayVars
    <3>2. CASE Edit(p)
      BY <3>2, UpdatedRow DEF Edit, PostElse, dayVars, maskVars
    <3>3. CASE Save(p)
      BY <3>3, <2>1 DEF Save, Store, PostIdle, PostElse, dayVars, maskVars
    <3>4. CASE Delete(p)
      BY <3>4 DEF Delete, dayVars
    <3> QED BY <2>2, <3>1, <3>2, <3>3, <3>4 DEF PostStep
  <2>3. CASE TypesDelete \/ TypesCreate
    BY <2>3 DEF TypesDelete, TypesCreate, TypesElse, dayVars, maskVars, postVars
  <2>4. CASE NextDay
    BY <2>4 DEF NextDay, maskVars, postVars
  <2>5. CASE RunStep
    BY <2>5 DEF RunStep, Submit, ReadTypes, Lookup, Fetch, ReadFails, Write, RunElse, dayVars, maskVars, postVars
  <2>6. CASE UNCHANGED vars
    BY <2>6 DEF vars, dayVars, maskVars, postVars
  <2> QED BY <2>2, <2>3, <2>4, <2>5, <2>6 DEF Next
<1> QED BY <1>1, <1>2, PTL DEF Spec

LEMMA WindowIs ==
  ASSUME SunAndRows, NEW m \in Masks,
         (sun.set + masks[m].set) - (sun.rise + masks[m].rise) \in -48..48
  PROVE  LitBetween(sun.rise + masks[m].rise, sun.set + masks[m].set)
           = WindowHours(sun.rise + masks[m].rise, sun.set + masks[m].set)
<1>1. \A s \in Suns : s.rise \in Int /\ s.set \in Int
  BY SchedulesAssumption, Zenon DEF SchedulesAssumption
<1> DEFINE rise == sun.rise + masks[m].rise
           set  == sun.set + masks[m].set
<1>2. rise \in Int /\ set \in Int /\ set - rise \in -48..48
  BY <1>1 DEF SunAndRows, RowsOK, RowType
<1> HIDE DEF rise, set
<1>3. \A h \in Hours : h \in LitBetween(rise, set) <=> h \in WindowHours(rise, set)
  BY <1>2, HourIsFilled
<1>4. LitBetween(rise, set) \subseteq Hours /\ WindowHours(rise, set) \subseteq Hours
  BY DEF LitBetween, WindowHours
<1>5. LitBetween(rise, set) = WindowHours(rise, set)
  BY <1>3, <1>4
<1> QED BY <1>5 DEF rise, set

\* Every dynamic mask, on every day, lights the hours of its window, through
\* midnight too, if that is at most a day long: for any masks, forms and days.
THEOREM DynamicFillsWindow == Spec => []WindowFilled
<1>1. SunAndRows => WindowFilled
  <2> HAVE SunAndRows
  <2> USE DEF WindowFilled
  <2> TAKE m \in Masks
  <2> QED BY WindowIs
<1> QED BY <1>1, SunAndRowsHold, PTL

-----------------------------------------------------------------------------
(* What a run knows. *)

\* No type that is on all along gets lost on the way from `todo` through `resolved` to
\* `written`, and a mask at work that is gone was deleted meanwhile.
Whole ==
  /\ pc \in {"idle", "queued"} => todo = {} /\ DOMAIN resolved = {}
  /\ pc \in {"idle", "queued", "resolve"} => written = {} /\ nvr = [t \in Types |-> Hours]
  /\ pc = "resolve" => steady \subseteq todo \cup DOMAIN resolved
  /\ pc = "write" => steady \subseteq todo \cup written
  /\ want # None /\ state[want] # "kept" => "resolve" \in lost
  /\ WholeOrUntouched

\* Until a type is resolved, what is due to it is remembered as it changes, and the mask at
\* work is still the type's, or was deleted meanwhile.
Remembered ==
  /\ pc = "resolve" => todo \cap DOMAIN resolved = {} /\ \A t \in todo : Due(t) \in seen[t]
  /\ want # None => state[want] # "unused"
  /\ want # None /\ state[want] = "kept" => assigned[at] = want
  /\ \A t \in DOMAIN resolved : resolved[t] \in seen[t]
  /\ WroteDue

\* What the page checked still stands, if nobody has deleted a mask or posted types since.
PageKnew ==
  /\ pc # "idle" /\ checked /\ lost = {} => HasAssignment
  /\ pc = "idle" => ~checked
  /\ steady \subseteq enabled
  /\ ~retyped => typesTodo = {} /\ (pc # "idle" => steady = enabled)

\* A row whose form was saved has that form's fields; a blank offset has left the old one.
Matches(row, f) ==
  /\ row.dynamic = f.dynamic
  /\ f.dynamic => /\ row.fill = f.fill
                  /\ f.rise # {} => row.rise \in f.rise
                  /\ f.set # {} => row.set \in f.set
  /\ ~f.dynamic => row.static = f.static

FormsKept ==
  /\ \A m \in Masks : \A f \in shown[m] : Matches(masks[m], f)
  /\ \A p \in Posts : \A f \in postForm[p] : Matches(postRow[p], f)

\* The offsets of a row are its forms'.
RiseOffsets == {0} \cup UNION {f.rise : f \in Forms}
SetOffsets  == {0} \cup UNION {f.set : f \in Forms}

Offsets(row) == row.rise \in RiseOffsets /\ row.set \in SetOffsets

OffsetsKept == (\A m \in Masks : Offsets(masks[m])) /\ (\A p \in Posts : Offsets(postRow[p]))

\* No window is stretched by its offsets beyond a day, in either direction.
WindowsFit ==
  \A s \in Suns, x \in RiseOffsets, y \in SetOffsets : (s.set + y) - (s.rise + x) \in -48..48

-----------------------------------------------------------------------------
(* The types. *)

TableShape ==
  /\ state \in [Masks -> {"unused", "kept", "deleted"}]
  /\ assigned \in [Types -> {m \in Masks : state[m] = "kept"} \cup {None}]
  /\ shown \in [Masks -> SUBSET Forms]
  /\ enabled \subseteq Types /\ typesTodo \subseteq Types /\ retyped \in BOOLEAN
  /\ days \in 0..MaxDays

PostShape ==
  /\ postPc \in [Posts -> {"new", "save", "done"}]
  /\ postMask \in [Posts -> Masks \cup {None}]
  /\ postForm \in [Posts -> SUBSET Forms]

RunShape ==
  /\ pc \in {"idle", "queued", "resolve", "write", "done", "failed"}
  /\ checked \in BOOLEAN /\ fault \in {"none", "read", "call"}
  /\ todo \subseteq Types /\ written \subseteq Types /\ DOMAIN resolved \subseteq Types
  /\ at \in Types \cup {None} /\ want \in Masks \cup {None}
  /\ resolved \in [DOMAIN resolved -> SUBSET Hours] /\ nvr \in [Types -> SUBSET Hours]
  /\ pc = "write" => todo \subseteq DOMAIN resolved
  /\ want # None => pc = "resolve" /\ at \in todo

MemoryShape == steady \subseteq Types /\ seen \in [Types -> SUBSET SUBSET Hours]

Shapes == SunAndRows /\ TableShape /\ PostShape /\ RunShape /\ MemoryShape

\* A step of a post: it leaves the run alone.
LEMMA PostShapes ==
  ASSUME Shapes, NEW p \in Posts, PostStep(p)
  PROVE  TableShape' /\ PostShape' /\ RunShape'
<1>0. None \notin Masks
  BY SchedulesAssumption, Zenon DEF SchedulesAssumption
<1>1. RunShape'
  BY DEF PostStep, Create, Edit, Save, Delete, PostElse, runVars, Shapes, RunShape
<1>2. UNCHANGED <<enabled, typesTodo, retyped, days>>
  BY DEF PostStep, Create, Edit, Save, Delete, PostElse, typeVars, dayVars
<1>3. ASSUME NEW m, NEW row, NEW f \in Forms, Store(m, row, f), assigned' = assigned
      PROVE  TableShape'
  <2>1. /\ state' = [state EXCEPT ![m] = "kept"] /\ shown' = [shown EXCEPT ![m] = {f}]
    BY <1>3 DEF Store
  <2>2. /\ state' \in [Masks -> {"unused", "kept", "deleted"}]
        /\ shown' \in [Masks -> SUBSET Forms]
        /\ \A n \in Masks : state[n] = "kept" => state'[n] = "kept"
    BY <2>1 DEF Shapes, TableShape
  <2>3. {n \in Masks : state[n] = "kept"} \subseteq {n \in Masks : state'[n] = "kept"}
    BY <2>2
  <2>4. assigned' \in [Types -> {n \in Masks : state'[n] = "kept"} \cup {None}]
    BY <1>3, <2>3 DEF Shapes, TableShape
  <2> QED BY <1>2, <2>2, <2>4 DEF Shapes, TableShape
<1>4. CASE Create(p)
  <2>1. TableShape'
    BY <1>3, <1>4 DEF Create, PostElse
  <2>2. PostShape'
    BY <1>4 DEF Create, Shapes, PostShape
  <2> QED BY <1>1, <2>1, <2>2
<1>5. CASE Edit(p)
  <2>1. UNCHANGED <<state, shown, assigned>>
    BY <1>5 DEF Edit, maskVars, PostElse
  <2>2. TableShape'
    BY <1>2, <2>1 DEF Shapes, TableShape
  <2>3. PostShape'
    BY <1>5 DEF Edit, Shapes, PostShape
  <2> QED BY <1>1, <2>2, <2>3
<1>6. CASE Save(p)
  <2>1. TableShape'
    <3>1. CASE UNCHANGED maskVars
      BY <1>2, <1>6, <3>1 DEF Save, maskVars, PostElse, Shapes, TableShape
    <3>2. CASE \E f \in postForm[p] : Store(postMask[p], postRow[p], f)
      BY <1>3, <1>6, <3>2 DEF Save, PostElse, Shapes, PostShape
    <3> QED BY <1>6, <3>1, <3>2 DEF Save
  <2>2. PostShape'
    BY <1>6 DEF Save, PostIdle, Shapes, PostShape
  <2> QED BY <1>1, <2>1, <2>2
<1>7. CASE Delete(p)
  <2>1. PICK m \in Masks : /\ state' = [state EXCEPT ![m] = "deleted"]
                           /\ assigned' = [t \in Types |-> IF assigned[t] = m THEN None ELSE assigned[t]]
    BY <1>7 DEF Delete
  <2>2. shown' = shown
    BY <1>7 DEF Delete
  <2>3. state' \in [Masks -> {"unused", "kept", "deleted"}] /\ \A n \in Masks : n # m => state'[n] = state[n]
    BY <2>1 DEF Shapes, TableShape
  <2>4. ASSUME NEW t \in Types PROVE assigned'[t] \in {n \in Masks : state'[n] = "kept"} \cup {None}
    BY <2>1, <2>3 DEF Shapes, TableShape
  <2>5. assigned' \in [Types -> {n \in Masks : state'[n] = "kept"} \cup {None}]
    BY <2>1, <2>4
  <2>6. PostShape'
    BY <1>7 DEF Delete, Shapes, PostShape
  <2> QED BY <1>1, <1>2, <2>2, <2>3, <2>5, <2>6 DEF Shapes, TableShape
<1> QED BY <1>4, <1>5, <1>6, <1>7 DEF PostStep

\* What a mask lights is a set of hours.
LEMMA ResolvedHours ==
  ASSUME SunAndRows, NEW m \in Masks
  PROVE  ResolveHourBitmask(masks[m]) \in SUBSET Hours /\ DueOf(masks[m]) \in SUBSET Hours
<1>1. masks[m].static \subseteq Hours
  BY DEF SunAndRows, RowsOK, RowType
<1>2. ASSUME NEW a, NEW b, NEW x
      PROVE  Filled(x, LitBetween(a, b)) \subseteq Hours /\ Filled(x, WindowHours(a, b)) \subseteq Hours
  BY DEF Filled, LitBetween, WindowHours
<1> QED BY <1>1, <1>2 DEF ResolveHourBitmask, DueOf

LEMMA ResolveShape ==
  ASSUME Shapes, pc = "resolve", NEW t \in todo, NEW hours \in SUBSET Hours, Resolve(t, hours)
  PROVE  RunShape' /\ DOMAIN resolved' = DOMAIN resolved \cup {t}
<1>1. /\ resolved' = [u \in DOMAIN resolved \cup {t} |-> IF u = t THEN hours ELSE resolved[u]]
      /\ todo' = (IF todo = {t} THEN DOMAIN resolved' ELSE todo \ {t})
      /\ pc' = (IF todo = {t} THEN "write" ELSE "resolve")
      /\ at' = None /\ want' = None
      /\ UNCHANGED <<checked, nvr, written, fault>>
  BY DEF Resolve
<1>2. DOMAIN resolved' = DOMAIN resolved \cup {t} /\ t \in Types
  BY <1>1 DEF Shapes, RunShape
<1>3. resolved' \in [DOMAIN resolved' -> SUBSET Hours]
  BY <1>1, <1>2 DEF Shapes, RunShape
<1>4. todo' \subseteq Types /\ (pc' = "write" => todo' \subseteq DOMAIN resolved')
  BY <1>1, <1>2 DEF Shapes, RunShape
<1> HIDE DEF Resolve
<1> QED BY <1>1, <1>2, <1>3, <1>4 DEF Shapes, RunShape

LEMMA RunShapes ==
  ASSUME Shapes, RunStep
  PROVE  TableShape' /\ PostShape' /\ RunShape'
<1>1. TableShape' /\ PostShape'
  BY DEF RunStep, Submit, ReadTypes, Lookup, Fetch, ReadFails, Write, RunElse, maskVars, postVars, typeVars,
         dayVars, Shapes, TableShape, PostShape
<1> SUFFICES RunShape'
  BY <1>1
<1>2. CASE Submit
  BY <1>2 DEF Submit, Shapes, RunShape
<1>3. CASE ReadTypes
  BY <1>3 DEF ReadTypes, Shapes, RunShape, TableShape
<1>4. CASE Lookup
  <2>1. PICK t \in todo : \/ Resolve(t, {})
                          \/ /\ assigned[t] # None /\ at' = t /\ want' = assigned[t]
                             /\ UNCHANGED <<pc, checked, todo, resolved, nvr, written, fault>>
    BY <1>4 DEF Lookup
  <2>2. CASE Resolve(t, {})
    BY <1>4, <2>2, ResolveShape DEF Lookup
  <2>3. CASE /\ assigned[t] # None /\ at' = t /\ want' = assigned[t]
             /\ UNCHANGED <<pc, checked, todo, resolved, nvr, written, fault>>
    BY <1>4, <2>3 DEF Lookup, Shapes, RunShape, TableShape
  <2> QED BY <2>1, <2>2, <2>3
<1>5. CASE Fetch
  <2>1. pc = "resolve" /\ want \in Masks /\ at \in todo
    BY <1>5 DEF Fetch, Shapes, RunShape
  <2>2. CASE state[want] = "kept"
    <3>1. Resolve(at, ResolveHourBitmask(masks[want]))
      BY <1>5, <2>2 DEF Fetch
    <3> QED BY <2>1, <3>1, ResolvedHours, ResolveShape DEF Shapes
  <2>3. CASE state[want] # "kept"
    BY <1>5, <2>3 DEF Fetch, Shapes, RunShape
  <2> QED BY <2>2, <2>3
<1>7. CASE ReadFails
  BY <1>7 DEF ReadFails, Shapes, RunShape
<1>6. CASE Write
  <2>1. PICK t \in todo : \/ /\ nvr' = [nvr EXCEPT ![t] = resolved[t]]
                             /\ written' = written \cup {t} /\ todo' = todo \ {t}
                             /\ pc' = IF todo = {t} THEN "done" ELSE pc
                             /\ UNCHANGED fault
                          \/ /\ nvr' \in {nvr, [nvr EXCEPT ![t] = resolved[t]]}
                             /\ pc' = "failed" /\ todo' = {} /\ fault' = "call"
                             /\ UNCHANGED written
    BY <1>6 DEF Write
  <2>2. pc = "write" /\ UNCHANGED <<checked, at, want, resolved>>
    BY <1>6 DEF Write
  <2>3. t \in Types /\ resolved[t] \in SUBSET Hours
    BY <2>2 DEF Shapes, RunShape
  <2>4. nvr' \in [Types -> SUBSET Hours]
    BY <2>1, <2>3 DEF Shapes, RunShape
  <2> QED BY <2>1, <2>2, <2>3, <2>4 DEF Shapes, RunShape
<1> QED BY <1>2, <1>3, <1>4, <1>5, <1>6, <1>7 DEF RunStep

LEMMA DueHours ==
  ASSUME SunAndRows', TableShape', NEW t \in Types
  PROVE  Due(t)' \in SUBSET Hours
<1>1. CASE assigned'[t] = None
  BY <1>1 DEF Due
<1>2. CASE assigned'[t] # None
  <2>1. assigned'[t] \in Masks
    BY <1>2 DEF TableShape
  <2>2. masks'[assigned'[t]].static \subseteq Hours
    BY <2>1 DEF SunAndRows, RowsOK, RowType
  <2>3. ASSUME NEW a, NEW b, NEW x
        PROVE  Filled(x, WindowHours(a, b)) \subseteq Hours
    BY DEF Filled, WindowHours
  <2> QED BY <1>2, <2>2, <2>3 DEF Due, DueOf
<1> QED BY <1>1, <1>2

LEMMA RememberShape ==
  ASSUME Shapes, Remember, SunAndRows', TableShape'
  PROVE  MemoryShape'
<1>1. seen' = [t \in Types |->
                 IF pc' = "resolve" /\ t \in (todo \cup todo') \ DOMAIN resolved
                 THEN seen[t] \cup {Due(t)'} ELSE seen[t]]
  BY DEF Remember
<1>2. ASSUME NEW t \in Types PROVE seen'[t] \in SUBSET SUBSET Hours
  <2>1. seen[t] \in SUBSET SUBSET Hours
    BY DEF Shapes, MemoryShape
  <2> QED BY <1>1, <2>1, DueHours
<1>3. seen' \in [Types -> SUBSET SUBSET Hours]
  BY <1>1, <1>2
<1>4. steady' \subseteq Types
  BY DEF Remember, Shapes, MemoryShape, TableShape
<1> QED BY <1>3, <1>4 DEF MemoryShape

\* The types hold.
THEOREM ShapesHold == Spec => []Shapes
<1>1. Init => Shapes
  <2> SUFFICES ASSUME Init PROVE TableShape /\ PostShape /\ RunShape /\ MemoryShape /\ SunAndRows
    BY DEF Shapes
  <2>1. TableShape /\ PostShape
    <3>1. MaxDays \in Nat
      BY SchedulesAssumption, Zenon DEF SchedulesAssumption
    <3>2. /\ state \in [Masks -> {"unused", "kept", "deleted"}]
          /\ shown \in [Masks -> SUBSET Forms]
      BY DEF Init
    <3>3. assigned \in [Types -> {m \in Masks : state[m] = "kept"} \cup {None}]
      BY DEF Init
    <3>4. /\ enabled \subseteq Types /\ typesTodo \subseteq Types /\ retyped \in BOOLEAN
          /\ days \in 0..MaxDays
      <4>1. enabled \subseteq Types /\ typesTodo = {} /\ retyped = FALSE /\ days = 0
        BY DEF Init
      <4>2. retyped \in BOOLEAN
        BY <4>1
      <4>3. days \in 0..MaxDays
        BY <3>1, <4>1
      <4> QED BY <4>1, <4>2, <4>3
    <3>5. PostShape
      BY DEF Init, PostShape
    <3> QED BY <3>2, <3>3, <3>4, <3>5 DEF TableShape
  <2>2. RunShape /\ MemoryShape
    <3>1. DOMAIN resolved = {} /\ resolved \in [{} -> SUBSET Hours]
      BY DEF Init
    <3>2. nvr \in [Types -> SUBSET Hours] /\ seen \in [Types -> SUBSET SUBSET Hours]
      BY DEF Init
    <3> QED BY <3>1, <3>2 DEF Init, RunShape, MemoryShape
  <2>3. SunAndRows
    BY InitSunAndRows
  <2> QED BY <2>1, <2>2, <2>3
<1>2. Shapes /\ SunAndRows' /\ [Next]_vars => Shapes'
  <2> SUFFICES ASSUME Shapes, SunAndRows', [Next]_vars PROVE Shapes'
    OBVIOUS
  <2>1. CASE UNCHANGED vars
    BY <2>1 DEF vars, maskVars, postVars, typeVars, dayVars, runVars, memory,
                Shapes, TableShape, PostShape, RunShape, MemoryShape
  <2>2. CASE Next
    <3>1. TableShape' /\ PostShape' /\ RunShape'
      <4>1. CASE \E p \in Posts : PostStep(p)
        BY <4>1, PostShapes
      <4>2. CASE TypesDelete \/ TypesCreate
        BY <4>2 DEF TypesDelete, TypesCreate, TypesElse, maskVars, postVars, dayVars, runVars,
                    Shapes, TableShape, PostShape, RunShape
      <4>3. CASE NextDay
        <5>1. days' \in 0..MaxDays
          <6>1. MaxDays \in Nat
            BY SchedulesAssumption, Zenon DEF SchedulesAssumption
          <6> QED BY <4>3, <6>1 DEF NextDay, Shapes, TableShape
        <5> QED BY <4>3, <5>1 DEF NextDay, maskVars, postVars, typeVars, runVars,
                                  Shapes, TableShape, PostShape, RunShape
      <4>4. CASE RunStep
        BY <4>4, RunShapes
      <4> QED BY <2>2, <4>1, <4>2, <4>3, <4>4 DEF Next
    <3>2. MemoryShape'
      BY <2>2, <3>1, RememberShape DEF Next
    <3> QED BY <3>1, <3>2 DEF Shapes
  <2> QED BY <2>1, <2>2
<1> QED BY <1>1, <1>2, SunAndRowsHold, PTL DEF Spec

-----------------------------------------------------------------------------
(* A run writes every type or none. *)

\* The steps that are not the run's.
Elsewhere == (\E p \in Posts : PostStep(p)) \/ TypesDelete \/ TypesCreate \/ NextDay

\* They leave the run alone, and a mask that goes is gone for good.
LEMMA ElsewhereIs ==
  ASSUME Shapes, Elsewhere
  PROVE  /\ UNCHANGED runVars
         /\ lost \subseteq lost'
         /\ \A m \in Masks : state[m] = "kept" => state'[m] = "kept" \/ (state'[m] = "deleted" /\ pc \in lost')
         /\ \A m \in Masks : state[m] = "deleted" => state'[m] = "deleted"
         /\ \A t \in Types : assigned'[t] = assigned[t]
                               \/ (assigned[t] \in Masks /\ state'[assigned[t]] = "deleted")
<1>1. ASSUME NEW p \in Posts, Delete(p)
      PROVE  /\ UNCHANGED runVars
             /\ lost' = lost \cup {pc}
             /\ \E m \in Masks : /\ state[m] = "kept"
                                 /\ state' = [state EXCEPT ![m] = "deleted"]
                                 /\ assigned' = [t \in Types |-> IF assigned[t] = m THEN None ELSE assigned[t]]
  BY <1>1 DEF Delete
<1>2. ASSUME NEW p \in Posts, Create(p) \/ Edit(p) \/ Save(p)
      PROVE  /\ UNCHANGED runVars /\ lost' = lost /\ assigned' = assigned
             /\ \/ state' = state
                \/ \E m : state[m] # "deleted" /\ state' = [state EXCEPT ![m] = "kept"]
  <2>1. UNCHANGED runVars /\ lost' = lost /\ assigned' = assigned
    BY <1>2 DEF Create, Edit, Save, PostElse
  <2> SUFFICES \/ state' = state
               \/ \E m : state[m] # "deleted" /\ state' = [state EXCEPT ![m] = "kept"]
    BY <2>1
  <2>2. CASE Create(p)
    BY <2>2 DEF Create, Store
  <2>3. CASE Edit(p)
    BY <2>3 DEF Edit, maskVars
  <2>4. CASE Save(p)
    <3>1. CASE state[postMask[p]] = "kept"
      BY <2>4, <3>1 DEF Save, Store
    <3>2. CASE state[postMask[p]] # "kept"
      BY <2>4, <3>2 DEF Save, maskVars
    <3> QED BY <3>1, <3>2
  <2> QED BY <1>2, <2>2, <2>3, <2>4
<1>3. CASE TypesDelete \/ TypesCreate \/ NextDay
  BY <1>3 DEF TypesDelete, TypesCreate, NextDay, TypesElse, maskVars
<1>4. CASE \E p \in Posts : Delete(p)
  <2>1. PICK m \in Masks : /\ state' = [state EXCEPT ![m] = "deleted"]
                           /\ assigned' = [t \in Types |-> IF assigned[t] = m THEN None ELSE assigned[t]]
    BY <1>1, <1>4
  <2>2. UNCHANGED runVars /\ lost' = lost \cup {pc}
    BY <1>1, <1>4
  <2> QED BY <2>1, <2>2 DEF Shapes, TableShape
<1>5. CASE \E p \in Posts : Create(p) \/ Edit(p) \/ Save(p)
  <2>1. /\ UNCHANGED runVars /\ lost' = lost /\ assigned' = assigned
        /\ \/ state' = state
           \/ \E m : state[m] # "deleted" /\ state' = [state EXCEPT ![m] = "kept"]
    BY <1>2, <1>5
  <2> QED BY <2>1 DEF Shapes, TableShape
<1> QED BY <1>3, <1>4, <1>5 DEF Elsewhere, PostStep

LEMMA SteadyShrinks ==
  ASSUME Remember, pc # "idle"
  PROVE  steady' \subseteq steady
  BY DEF Remember

LEMMA ElsewhereWhole ==
  ASSUME Shapes, Whole, Elsewhere, Remember
  PROVE  Whole'
<1>1. UNCHANGED <<pc, todo, at, want, resolved, nvr, written, fault>> /\ lost \subseteq lost'
  BY ElsewhereIs DEF runVars
<1>2. want # None /\ state'[want] # "kept" => "resolve" \in lost'
  <2>1. ASSUME want # None, state'[want] # "kept" PROVE "resolve" \in lost'
    <3>1. want \in Masks /\ pc = "resolve"
      BY <2>1 DEF Shapes, RunShape
    <3>2. CASE state[want] = "kept"
      BY <2>1, <3>1, <3>2, ElsewhereIs
    <3>3. CASE state[want] # "kept"
      BY <1>1, <2>1, <3>3 DEF Whole
    <3> QED BY <3>2, <3>3
  <2> QED BY <2>1
<1>3. pc # "idle" => steady' \subseteq steady
  BY SteadyShrinks
<1> QED BY <1>1, <1>2, <1>3 DEF Whole, WholeOrUntouched

\* The schedule of one more type is known.
LEMMA ResolveWhole ==
  ASSUME Shapes, Whole, pc = "resolve", NEW t \in todo, NEW hours \in SUBSET Hours, Resolve(t, hours),
         steady' \subseteq steady
  PROVE  Whole'
<1>1. /\ todo' = (IF todo = {t} THEN DOMAIN resolved' ELSE todo \ {t})
      /\ pc' = (IF todo = {t} THEN "write" ELSE "resolve")
      /\ want' = None /\ UNCHANGED <<nvr, written, fault>>
  BY DEF Resolve
<1>2. DOMAIN resolved' = DOMAIN resolved \cup {t}
  BY ResolveShape
<1>3. steady' \subseteq todo \cup DOMAIN resolved /\ written = {} /\ nvr = [u \in Types |-> Hours]
  BY DEF Whole
<1>4. CASE todo = {t}
  BY <1>1, <1>2, <1>3, <1>4 DEF Whole, WholeOrUntouched
<1>5. CASE todo # {t}
  BY <1>1, <1>2, <1>3, <1>5 DEF Whole, WholeOrUntouched
<1> QED BY <1>4, <1>5

LEMMA RunWhole ==
  ASSUME Shapes, Whole, RunStep, Remember, steady \subseteq enabled
  PROVE  Whole'
<1>1. pc # "idle" => steady' \subseteq steady
  BY SteadyShrinks
<1>2. UNCHANGED state
  BY DEF RunStep, Submit, ReadTypes, Lookup, Fetch, ReadFails, Write, RunElse, maskVars
<1>3. CASE Submit
  <2>1. pc = "idle" /\ pc' = "queued" /\ UNCHANGED <<todo, at, want, resolved, nvr, written, fault>>
    BY <1>3 DEF Submit
  <2>2. want = None
    BY <2>1 DEF Shapes, RunShape
  <2> QED BY <2>1, <2>2 DEF Whole, WholeOrUntouched
<1>4. CASE ReadTypes
  <2>1. /\ pc = "queued" /\ pc' = (IF enabled = {} THEN "done" ELSE "resolve") /\ todo' = enabled
        /\ UNCHANGED <<want, resolved, nvr, written, fault, lost>>
    BY <1>4 DEF ReadTypes
  <2>2. want = None /\ steady' \subseteq enabled
    BY <1>1, <2>1 DEF Shapes, RunShape
  <2> QED BY <2>1, <2>2 DEF Whole, WholeOrUntouched
<1>5. CASE Lookup
  <2>1. pc = "resolve" /\ want = None
    BY <1>5 DEF Lookup
  <2>2. PICK t \in todo : \/ Resolve(t, {})
                          \/ /\ assigned[t] # None /\ at' = t /\ want' = assigned[t]
                             /\ UNCHANGED <<pc, checked, todo, resolved, nvr, written, fault, lost>>
    BY <1>5 DEF Lookup
  <2>3. CASE Resolve(t, {})
    BY <1>1, <2>1, <2>3, ResolveWhole
  <2>4. CASE /\ assigned[t] # None /\ at' = t /\ want' = assigned[t]
             /\ UNCHANGED <<pc, checked, todo, resolved, nvr, written, fault, lost>>
    <3>1. state[want'] = "kept"
      BY <2>4 DEF Shapes, TableShape, RunShape
    <3> QED BY <1>1, <1>2, <2>1, <2>4, <3>1 DEF Whole, WholeOrUntouched
  <2> QED BY <2>2, <2>3, <2>4
<1>6. CASE Fetch
  <2>1. pc = "resolve" /\ want \in Masks /\ at \in todo /\ want # None
    BY <1>6 DEF Fetch, Shapes, RunShape
  <2>2. CASE state[want] = "kept"
    <3>1. Resolve(at, ResolveHourBitmask(masks[want]))
      BY <1>6, <2>2 DEF Fetch
    <3> QED BY <1>1, <2>1, <3>1, ResolvedHours, ResolveWhole DEF Shapes
  <2>3. CASE state[want] # "kept"
    <3>1. pc' = "failed" /\ want' = None /\ UNCHANGED <<resolved, nvr, written, fault, lost>>
      BY <1>6, <2>3 DEF Fetch
    <3>2. "resolve" \in lost /\ nvr = [t \in Types |-> Hours]
      BY <2>1, <2>3 DEF Whole
    <3> QED BY <3>1, <3>2 DEF Whole, WholeOrUntouched
  <2> QED BY <2>2, <2>3
<1>8. CASE ReadFails
  <2>1. /\ pc \in {"queued", "resolve"} /\ pc' = "failed" /\ want' = None /\ fault' = "read"
        /\ UNCHANGED <<resolved, nvr, written, lost>>
    BY <1>8 DEF ReadFails
  <2>2. nvr = [t \in Types |-> Hours]
    BY <2>1 DEF Whole
  <2> QED BY <2>1, <2>2 DEF Whole, WholeOrUntouched
<1>7. CASE Write
  <2>1. PICK t \in todo : \/ /\ written' = written \cup {t} /\ todo' = todo \ {t}
                             /\ pc' = IF todo = {t} THEN "done" ELSE pc
                          \/ pc' = "failed" /\ fault' = "call"
    BY <1>7 DEF Write
  <2>2. pc = "write" /\ want' = want /\ want = None
    BY <1>7 DEF Write, Shapes, RunShape
  <2>3. steady' \subseteq todo \cup written
    BY <1>1, <2>2 DEF Whole
  <2>4. CASE pc' = "failed" /\ fault' = "call"
    BY <2>2, <2>4 DEF Whole, WholeOrUntouched
  <2>5. CASE /\ written' = written \cup {t} /\ todo' = todo \ {t}
             /\ pc' = IF todo = {t} THEN "done" ELSE pc
    <3>1. steady' \subseteq todo' \cup written' /\ (pc' = "done" => steady' \subseteq written')
      BY <2>2, <2>3, <2>5
    <3>2. pc' \in {"write", "done"}
      BY <2>2, <2>5
    <3> QED BY <2>2, <3>1, <3>2 DEF Whole, WholeOrUntouched
  <2> QED BY <2>1, <2>4, <2>5
<1> QED BY <1>3, <1>4, <1>5, <1>6, <1>7, <1>8 DEF RunStep

-----------------------------------------------------------------------------
(* What the page asked. *)

LEMMA KnewNext ==
  ASSUME PageKnew, Next
  PROVE  PageKnew'
<1>1. steady' = (IF pc = "idle" THEN enabled' ELSE steady \cap enabled')
  BY DEF Next, Remember
<1>2. ~retyped' => ~retyped /\ enabled' = enabled /\ typesTodo' = typesTodo
  <2>1. CASE \E p \in Posts : PostStep(p)
    BY <2>1 DEF PostStep, Create, Edit, Save, Delete, PostElse, typeVars
  <2>2. CASE TypesDelete
    BY <2>2 DEF TypesDelete
  <2>3. CASE TypesCreate
    BY <2>3 DEF TypesCreate, PageKnew
  <2>4. CASE NextDay
    BY <2>4 DEF NextDay, typeVars
  <2>5. CASE RunStep
    BY <2>5 DEF RunStep, Submit, ReadTypes, Lookup, Fetch, ReadFails, Write, RunElse, typeVars
  <2> QED BY <2>1, <2>2, <2>3, <2>4, <2>5 DEF Next
<1>3. CASE Submit
  <2>1. /\ pc' = "queued" /\ assigned' = assigned /\ (checked' => HasAssignment)
    BY <1>3 DEF Submit, RunElse
  <2>2. HasAssignment' <=> HasAssignment
    BY <2>1 DEF HasAssignment
  <2> QED BY <1>1, <1>2, <2>1, <2>2 DEF PageKnew
<1>4. CASE ~Submit
  <2>1. (pc' = "idle" <=> pc = "idle") /\ checked' = checked
    <3>1. CASE \E p \in Posts : PostStep(p)
      BY <3>1 DEF PostStep, Create, Edit, Save, Delete, PostElse, runVars
    <3>2. CASE TypesDelete \/ TypesCreate \/ NextDay
      BY <3>2 DEF TypesDelete, TypesCreate, TypesElse, NextDay, runVars
    <3>3. CASE ReadTypes \/ Lookup \/ Fetch \/ ReadFails \/ Write
      BY <3>3 DEF ReadTypes, Lookup, Fetch, ReadFails, Write, Resolve
    <3> QED BY <1>4, <3>1, <3>2, <3>3 DEF Next, RunStep
  <2>2. lost' = {} => lost = {} /\ assigned' = assigned
    <3>1. CASE \E p \in Posts : PostStep(p)
      BY <3>1 DEF PostStep, Create, Edit, Save, Delete, PostElse
    <3>2. CASE TypesDelete \/ TypesCreate \/ NextDay
      BY <3>2 DEF TypesDelete, TypesCreate, TypesElse, NextDay
    <3>3. CASE ReadTypes \/ Lookup \/ Fetch \/ ReadFails \/ Write
      BY <3>3 DEF ReadTypes, Lookup, Fetch, ReadFails, Write, Resolve, RunElse
    <3> QED BY <1>4, <3>1, <3>2, <3>3 DEF Next, RunStep
  <2>3. assigned' = assigned => (HasAssignment' <=> HasAssignment)
    BY DEF HasAssignment
  <2> QED BY <1>1, <1>2, <2>1, <2>2, <2>3 DEF PageKnew
<1> QED BY <1>3, <1>4

\* Shapes, Whole and PageKnew are invariants together.
LEMMA WholeHolds == Spec => [](Whole /\ PageKnew)
<1>1. Init => Whole /\ PageKnew
  <2> SUFFICES ASSUME Init PROVE Whole /\ PageKnew
    OBVIOUS
  <2>1. /\ pc = "idle" /\ todo = {} /\ DOMAIN resolved = {} /\ want = None /\ written = {}
        /\ nvr = [t \in Types |-> Hours] /\ ~checked /\ steady = {} /\ typesTodo = {}
    BY DEF Init
  <2> QED BY <2>1 DEF Whole, WholeOrUntouched, PageKnew
<1>2. Shapes /\ Whole /\ PageKnew /\ [Next]_vars => Whole' /\ PageKnew'
  <2> SUFFICES ASSUME Shapes, Whole, PageKnew, [Next]_vars
               PROVE  Whole' /\ PageKnew'
    OBVIOUS
  <2>1. CASE Next
    <3>1. Remember /\ (Elsewhere \/ RunStep)
      BY <2>1 DEF Next, Elsewhere
    <3>2. Whole'
      BY <3>1, ElsewhereWhole, RunWhole DEF PageKnew
    <3> QED BY <2>1, <3>2, KnewNext
  <2>2. CASE UNCHANGED vars
    BY <2>2 DEF vars, maskVars, typeVars, runVars, memory, Whole, WholeOrUntouched, PageKnew,
                HasAssignment
  <2> QED BY <2>1, <2>2
<1> QED BY <1>1, <1>2, ShapesHold, PTL DEF Spec

\* SetNotificationBitmasksNode: a run that ends without error has written every type that was
\* on all along, and one that fails though no call did has met a mask that was deleted, and
\* has not touched the camera; whatever is posted in between.
THEOREM WholeRuns == Spec => []WholeOrUntouched
BY WholeHolds, PTL DEF Whole

\* find_devices_missing_bitmasks: what the page found when the command was posted still holds
\* for its run, unless a mask was deleted or the types were posted since.
THEOREM PageIsRight == Spec => []CheckedIsArmed
<1>1. Whole /\ PageKnew => CheckedIsArmed
  BY DEF Whole, WholeOrUntouched, PageKnew, HasAssignment, CheckedIsArmed
<1> QED BY <1>1, WholeHolds, PTL

-----------------------------------------------------------------------------
(* What is written was due. *)

LEMMA UpdatedOffsets ==
  ASSUME NEW f \in Forms, NEW row \in RowType, Offsets(row)
  PROVE  Offsets(Updated(row, f))
<1>1. /\ Kept(f.rise, row.rise) = row.rise \/ Kept(f.rise, row.rise) \in f.rise
      /\ Kept(f.set, row.set) = row.set \/ Kept(f.set, row.set) \in f.set
  BY DEF Kept
<1>2. Kept(f.rise, row.rise) \in RiseOffsets /\ Kept(f.set, row.set) \in SetOffsets
  BY <1>1 DEF Offsets, RiseOffsets, SetOffsets
<1>3. CASE f.dynamic
  <2>1. /\ Updated(row, f).rise = Kept(f.rise, row.rise)
        /\ Updated(row, f).set = Kept(f.set, row.set)
    BY <1>3 DEF Updated, RowType
  <2> QED BY <1>2, <2>1 DEF Offsets
<1>4. CASE ~f.dynamic
  BY <1>4 DEF Updated, RowType, Offsets
<1> QED BY <1>3, <1>4

LEMMA NewRowIs == NewRow \in RowType /\ Offsets(NewRow)
  BY DEF NewRow, RowType, Hours, Offsets, RiseOffsets, SetOffsets

LEMMA OffsetsHold == Spec => []OffsetsKept
<1>1. Init => OffsetsKept
  <2> SUFFICES ASSUME Init PROVE OffsetsKept
    OBVIOUS
  <2>1. \A row \in Rows : Offsets(row)
    BY NewRowIs, UpdatedOffsets DEF Rows
  <2> QED BY <2>1, NewRowIs DEF Init, OffsetsKept
<1>2. Shapes /\ OffsetsKept /\ [Next]_vars => OffsetsKept'
  <2> SUFFICES ASSUME Shapes, OffsetsKept, [Next]_vars
               PROVE  (\A m \in Masks : Offsets(masks'[m])) /\ (\A p \in Posts : Offsets(postRow'[p]))
    BY DEF OffsetsKept, Offsets
  <2>1. masks \in [Masks -> RowType] /\ postRow \in [Posts -> RowType]
    BY DEF Shapes, SunAndRows, RowsOK
  <2>2. ASSUME NEW p \in Posts, Create(p)
        PROVE  (\A m \in Masks : Offsets(masks'[m])) /\ postRow' = postRow
    <3>1. PICK m \in Masks, f \in Forms : masks' = [masks EXCEPT ![m] = Updated(NewRow, f)]
      BY <2>2 DEF Create, Store
    <3>2. postRow' = postRow
      BY <2>2 DEF Create
    <3> QED BY <2>1, <3>1, <3>2, NewRowIs, UpdatedOffsets DEF OffsetsKept
  <2>3. ASSUME NEW p \in Posts, Edit(p)
        PROVE  (\A q \in Posts : Offsets(postRow'[q])) /\ masks' = masks
    <3>1. masks' = masks
      BY <2>3 DEF Edit, maskVars
    <3>2. \/ postRow' = postRow
          \/ \E m \in Masks, f \in Forms : postRow' = [postRow EXCEPT ![p] = Updated(masks[m], f)]
      BY <2>3 DEF Edit
    <3>3. ASSUME NEW m \in Masks, NEW f \in Forms PROVE Offsets(Updated(masks[m], f))
      BY <2>1, UpdatedOffsets DEF OffsetsKept
    <3> QED BY <2>1, <3>1, <3>2, <3>3 DEF OffsetsKept
  <2>4. ASSUME NEW p \in Posts, Save(p)
        PROVE  (\A m \in Masks : Offsets(masks'[m])) /\ (\A q \in Posts : Offsets(postRow'[q]))
    <3>1. postRow' = [postRow EXCEPT ![p] = NewRow]
      BY <2>4 DEF Save, PostIdle
    <3>2. masks' = masks \/ \E m : masks' = [masks EXCEPT ![m] = postRow[p]]
      <4>1. CASE state[postMask[p]] = "kept"
        BY <2>4, <4>1 DEF Save, Store
      <4>2. CASE state[postMask[p]] # "kept"
        BY <2>4, <4>2 DEF Save, maskVars
      <4> QED BY <4>1, <4>2
    <3> QED BY <2>1, <3>1, <3>2, NewRowIs DEF OffsetsKept
  <2>5. ASSUME UNCHANGED <<masks, postRow>>
        PROVE  (\A m \in Masks : Offsets(masks'[m])) /\ (\A p \in Posts : Offsets(postRow'[p]))
    BY <2>5 DEF OffsetsKept
  <2>6. ASSUME NEW p \in Posts, Delete(p) PROVE UNCHANGED <<masks, postRow>>
    BY <2>6 DEF Delete
  <2>7. ASSUME TypesDelete \/ TypesCreate \/ NextDay \/ RunStep \/ UNCHANGED vars
        PROVE  UNCHANGED <<masks, postRow>>
    BY <2>7 DEF TypesDelete, TypesCreate, TypesElse, NextDay, RunStep, Submit, ReadTypes, Lookup, Fetch,
                ReadFails, Write, RunElse, vars, maskVars, postVars
  <2> QED BY <2>2, <2>3, <2>4, <2>5, <2>6, <2>7 DEF Next, PostStep, OffsetsKept
<1> QED BY <1>1, <1>2, ShapesHold, PTL DEF Spec

\* If no window is longer than a day, a mask resolves to what is due.
LEMMA ResolvesToDue ==
  ASSUME WindowsFit, SunAndRows, OffsetsKept, NEW m \in Masks
  PROVE  ResolveHourBitmask(masks[m]) = DueOf(masks[m])
<1>1. (sun.set + masks[m].set) - (sun.rise + masks[m].rise) \in -48..48
  BY DEF WindowsFit, SunAndRows, OffsetsKept, Offsets
<1> QED BY <1>1, WindowIs DEF ResolveHourBitmask, DueOf

\* What is remembered stays so, and what is due to a type not yet resolved is remembered at once.
LEMMA Remembering ==
  ASSUME Shapes, Remember, NEW t \in Types
  PROVE  /\ seen[t] \subseteq seen'[t]
         /\ pc' = "resolve" /\ t \in (todo \cup todo') \ DOMAIN resolved => Due(t)' \in seen'[t]
<1>1. seen' = [u \in Types |->
                 IF pc' = "resolve" /\ u \in (todo \cup todo') \ DOMAIN resolved
                 THEN seen[u] \cup {Due(u)'} ELSE seen[u]]
  BY DEF Remember
<1> QED BY <1>1

LEMMA ElsewhereRemembered ==
  ASSUME Shapes, Remembered, Elsewhere, Remember
  PROVE  Remembered'
<1>1. UNCHANGED <<pc, todo, at, want, resolved, nvr, written>>
  BY ElsewhereIs DEF runVars
<1>2. pc = "resolve" => \A t \in todo : Due(t)' \in seen'[t]
  BY <1>1, Remembering DEF Remembered, Shapes, RunShape
<1>3. ASSUME want # None
      PROVE  /\ state'[want] # "unused"
             /\ state'[want] = "kept" => assigned'[at] = want
  <2>1. want \in Masks /\ at \in Types /\ pc = "resolve"
    BY <1>3 DEF Shapes, RunShape
  <2>2. state[want] \in {"kept", "deleted"}
    BY <1>3, <2>1 DEF Remembered, Shapes, TableShape
  <2>3. state[want] = "kept" => state'[want] \in {"kept", "deleted"}
    BY <2>1, ElsewhereIs
  <2>4. state[want] = "deleted" => state'[want] = "deleted"
    BY <2>1, ElsewhereIs
  <2>5. assigned'[at] = assigned[at] \/ state'[assigned[at]] = "deleted"
    BY <2>1, ElsewhereIs
  <2> QED BY <1>3, <2>2, <2>3, <2>4, <2>5 DEF Remembered
<1>4. \A t \in DOMAIN resolved : resolved[t] \in seen'[t]
  BY Remembering DEF Remembered, Shapes, RunShape
<1>5. \A t \in written : nvr[t] \in seen'[t]
  BY Remembering DEF Remembered, WroteDue, Shapes, RunShape
<1> QED BY <1>1, <1>2, <1>3, <1>4, <1>5 DEF Remembered, WroteDue

\* A schedule that was due is kept for the writes.
LEMMA ResolveRemembered ==
  ASSUME Shapes, Remembered, Remember, pc = "resolve",
         NEW t \in todo, NEW hours \in SUBSET Hours, hours \in seen[t], Resolve(t, hours)
  PROVE  Remembered'
<1>1. /\ resolved' = [u \in DOMAIN resolved \cup {t} |-> IF u = t THEN hours ELSE resolved[u]]
      /\ pc' = (IF todo = {t} THEN "write" ELSE "resolve")
      /\ todo # {t} => todo' = todo \ {t}
      /\ want' = None /\ UNCHANGED <<nvr, written>>
  BY DEF Resolve
<1>2. DOMAIN resolved' = DOMAIN resolved \cup {t}
  BY ResolveShape
<1>3. pc' = "resolve" => todo' \cap DOMAIN resolved' = {} /\ \A u \in todo' : Due(u)' \in seen'[u]
  <2> SUFFICES ASSUME pc' = "resolve"
               PROVE  todo' \cap DOMAIN resolved' = {} /\ \A u \in todo' : Due(u)' \in seen'[u]
    OBVIOUS
  <2>1. todo' = todo \ {t} /\ todo \cap DOMAIN resolved = {}
    BY <1>1 DEF Remembered
  <2>2. \A u \in todo' : Due(u)' \in seen'[u]
    BY <2>1, Remembering DEF Shapes, RunShape
  <2> QED BY <1>2, <2>1, <2>2
<1>4. ASSUME NEW u \in DOMAIN resolved' PROVE resolved'[u] \in seen'[u]
  <2>1. u \in Types /\ seen[u] \subseteq seen'[u]
    BY <1>2, Remembering DEF Shapes, RunShape
  <2>2. resolved'[u] \in seen[u]
    BY <1>1, <1>2 DEF Remembered
  <2> QED BY <2>1, <2>2
<1>5. \A u \in written : nvr[u] \in seen'[u]
  BY Remembering DEF Remembered, WroteDue, Shapes, RunShape
<1> QED BY <1>1, <1>3, <1>4, <1>5 DEF Remembered, WroteDue

LEMMA RunRemembered ==
  ASSUME WindowsFit, Shapes, OffsetsKept, Whole, Remembered, RunStep, Remember
  PROVE  Remembered'
<1>1. UNCHANGED <<state, masks, assigned, sun>>
  BY DEF RunStep, Submit, ReadTypes, Lookup, Fetch, ReadFails, Write, RunElse, maskVars, dayVars
<1>2. \A t \in DOMAIN resolved : resolved[t] \in seen'[t]
  BY Remembering DEF Remembered, Shapes, RunShape
<1>3. \A t \in written : nvr[t] \in seen'[t]
  BY Remembering DEF Remembered, WroteDue, Shapes, RunShape
<1>4. CASE Submit
  <2>1. pc = "idle" /\ pc' = "queued" /\ UNCHANGED <<todo, want, resolved, nvr, written>>
    BY <1>4 DEF Submit
  <2>2. want = None
    BY <2>1 DEF Shapes, RunShape
  <2> QED BY <1>2, <1>3, <2>1, <2>2 DEF Remembered, WroteDue
<1>5. CASE ReadTypes
  <2>1. pc = "queued" /\ todo' = enabled /\ UNCHANGED <<want, resolved, nvr, written>>
    BY <1>5 DEF ReadTypes
  <2>2. want = None /\ DOMAIN resolved = {} /\ enabled \subseteq Types
    BY <2>1 DEF Whole, Shapes, RunShape, TableShape
  <2>3. pc' = "resolve" => \A t \in todo' : Due(t)' \in seen'[t]
    BY <2>1, <2>2, Remembering
  <2> QED BY <1>2, <1>3, <2>1, <2>2, <2>3 DEF Remembered, WroteDue
<1>6. CASE Lookup
  <2>1. pc = "resolve" /\ want = None
    BY <1>6 DEF Lookup
  <2>2. PICK t \in todo : \/ assigned[t] = None /\ Resolve(t, {})
                          \/ /\ assigned[t] # None /\ at' = t /\ want' = assigned[t]
                             /\ UNCHANGED <<pc, todo, resolved, nvr, written>>
    BY <1>6 DEF Lookup
  <2>3. CASE assigned[t] = None /\ Resolve(t, {})
    <3>1. {} \in seen[t]
      <4>1. Due(t) = {}
        BY <2>3 DEF Due
      <4> QED BY <2>1, <4>1 DEF Remembered
    <3> QED BY <2>1, <2>3, <3>1, ResolveRemembered
  <2>4. CASE /\ assigned[t] # None /\ at' = t /\ want' = assigned[t]
             /\ UNCHANGED <<pc, todo, resolved, nvr, written>>
    <3>1. state'[want'] = "kept" /\ assigned'[at'] = want'
      BY <1>1, <2>4 DEF Shapes, TableShape, RunShape
    <3>2. \A u \in todo' : Due(u)' \in seen'[u]
      BY <2>1, <2>4, Remembering DEF Remembered, Shapes, RunShape
    <3> QED BY <1>2, <1>3, <2>1, <2>4, <3>1, <3>2 DEF Remembered, WroteDue
  <2> QED BY <2>2, <2>3, <2>4
<1>7. CASE Fetch
  <2>1. pc = "resolve" /\ want \in Masks /\ at \in todo /\ want # None
    BY <1>7 DEF Fetch, Shapes, RunShape
  <2>2. CASE state[want] = "kept"
    <3>1. Resolve(at, ResolveHourBitmask(masks[want]))
      BY <1>7, <2>2 DEF Fetch
    <3>2. Due(at) = ResolveHourBitmask(masks[want])
      <4>1. assigned[at] = want
        BY <2>1, <2>2 DEF Remembered
      <4> QED BY <2>1, <4>1, ResolvesToDue DEF Due, Shapes
    <3>3. ResolveHourBitmask(masks[want]) \in seen[at]
      BY <2>1, <3>2 DEF Remembered
    <3> QED BY <2>1, <3>1, <3>3, ResolvedHours, ResolveRemembered DEF Shapes
  <2>3. CASE state[want] # "kept"
    <3>1. pc' = "failed" /\ want' = None /\ UNCHANGED <<resolved, nvr, written>>
      BY <1>7, <2>3 DEF Fetch
    <3> QED BY <1>2, <1>3, <3>1 DEF Remembered, WroteDue
  <2> QED BY <2>2, <2>3
<1>9. CASE ReadFails
  <2>1. pc' = "failed" /\ want' = None /\ UNCHANGED <<resolved, nvr, written>>
    BY <1>9 DEF ReadFails
  <2> QED BY <1>2, <1>3, <2>1 DEF Remembered, WroteDue
<1>8. CASE Write
  <2>1. PICK t \in todo :
          \/ /\ nvr' = [nvr EXCEPT ![t] = resolved[t]] /\ written' = written \cup {t}
             /\ pc' = IF todo = {t} THEN "done" ELSE pc
          \/ /\ nvr' \in {nvr, [nvr EXCEPT ![t] = resolved[t]]}
             /\ pc' = "failed" /\ written' = written
    BY <1>8 DEF Write
  <2>2. pc = "write" /\ UNCHANGED <<at, want, resolved>> /\ want = None
    BY <1>8 DEF Write, Shapes, RunShape
  <2>3. t \in DOMAIN resolved /\ resolved[t] \in seen'[t] /\ t \in Types /\ nvr \in [Types -> SUBSET Hours]
    BY <1>2, <2>2 DEF Shapes, RunShape
  <2>4. \A u \in written' : nvr'[u] \in seen'[u]
    BY <1>3, <2>1, <2>3 DEF Shapes, RunShape
  <2>5. pc' # "resolve"
    BY <2>1, <2>2
  <2> QED BY <1>2, <2>2, <2>4, <2>5 DEF Remembered, WroteDue
<1> QED BY <1>4, <1>5, <1>6, <1>7, <1>8, <1>9 DEF RunStep

\* SetNotificationBitmasksNode: the schedule written to the camera was due to its type at some
\* moment of the run, if the offsets stretch no window beyond a day.
THEOREM SchedulesWereDue ==
  ASSUME WindowsFit
  PROVE  Spec => []WroteDue
<1>1. Init => Remembered
  BY DEF Init, Remembered, WroteDue
<1>2. Shapes /\ OffsetsKept /\ Whole /\ Remembered /\ [Next]_vars => Remembered'
  <2> SUFFICES ASSUME Shapes, OffsetsKept, Whole, Remembered, [Next]_vars
               PROVE  Remembered'
    OBVIOUS
  <2>1. CASE Next
    <3>1. Remember /\ (Elsewhere \/ RunStep)
      BY <2>1 DEF Next, Elsewhere
    <3> QED BY <3>1, ElsewhereRemembered, RunRemembered
  <2>2. CASE UNCHANGED vars
    <3>1. UNCHANGED <<pc, todo, at, want, resolved, nvr, written, state, masks, assigned, sun, seen>>
      BY <2>2 DEF vars, maskVars, dayVars, runVars, memory
    <3>2. \A t : Due(t)' = Due(t)
      BY <3>1 DEF Due, DueOf
    <3> QED BY <3>1, <3>2 DEF Remembered, WroteDue
  <2> QED BY <2>1, <2>2
<1> QED BY <1>1, <1>2, ShapesHold, OffsetsHold, WholeHolds, PTL DEF Spec, Remembered

-----------------------------------------------------------------------------
(* What the form showed. *)

LEMMA UpdatedMatches ==
  ASSUME NEW f \in Forms, NEW row \in RowType
  PROVE  Matches(Updated(row, f), f)
<1>1. /\ f.rise # {} => Kept(f.rise, row.rise) \in f.rise
      /\ f.set # {} => Kept(f.set, row.set) \in f.set
  BY DEF Kept
<1>2. f.dynamic \in BOOLEAN
  <2>1. \A g \in Forms : {g.dynamic, g.fill} \subseteq BOOLEAN
    BY SchedulesAssumption, Zenon DEF SchedulesAssumption
  <2> QED BY <2>1
<1>3. CASE f.dynamic
  <2>1. /\ Updated(row, f).dynamic = TRUE /\ Updated(row, f).fill = f.fill
        /\ Updated(row, f).rise = Kept(f.rise, row.rise)
        /\ Updated(row, f).set = Kept(f.set, row.set)
    BY <1>3 DEF Updated, RowType
  <2> QED BY <1>1, <1>2, <1>3, <2>1 DEF Matches
<1>4. CASE ~f.dynamic
  <2>1. Updated(row, f).dynamic = FALSE /\ Updated(row, f).static = f.static
    BY <1>4 DEF Updated, RowType
  <2> QED BY <1>2, <1>4, <2>1 DEF Matches
<1> QED BY <1>3, <1>4

LEMMA FormsHold == Spec => []FormsKept
<1>1. Init => FormsKept
  BY DEF Init, FormsKept
<1>2. Shapes /\ FormsKept /\ [Next]_vars => FormsKept'
  <2> SUFFICES ASSUME Shapes, FormsKept, [Next]_vars
               PROVE  /\ \A m \in Masks : \A f \in shown'[m] : Matches(masks'[m], f)
                      /\ \A p \in Posts : \A f \in postForm'[p] : Matches(postRow'[p], f)
    BY DEF FormsKept, Matches
  <2>1. /\ masks \in [Masks -> RowType] /\ postRow \in [Posts -> RowType]
        /\ shown \in [Masks -> SUBSET Forms] /\ postForm \in [Posts -> SUBSET Forms]
    BY DEF Shapes, SunAndRows, RowsOK, TableShape, PostShape
  <2>2. ASSUME UNCHANGED <<masks, shown>> \/ \E m, row, f : Store(m, row, f) /\ Matches(row, f)
        PROVE  \A m \in Masks : \A f \in shown'[m] : Matches(masks'[m], f)
    <3>1. CASE UNCHANGED <<masks, shown>>
      BY <3>1 DEF FormsKept
    <3>2. CASE \E m, row, f : Store(m, row, f) /\ Matches(row, f)
      <4>1. PICK m, row, f : Store(m, row, f) /\ Matches(row, f)
        BY <3>2
      <4>2. masks' = [masks EXCEPT ![m] = row] /\ shown' = [shown EXCEPT ![m] = {f}]
        BY <4>1 DEF Store
      <4> QED BY <2>1, <4>1, <4>2 DEF FormsKept
    <3> QED BY <2>2, <3>1, <3>2
  <2>3. ASSUME NEW p \in Posts, Create(p)
        PROVE  UNCHANGED <<postForm, postRow>> /\ \E m, row, f : Store(m, row, f) /\ Matches(row, f)
    <3>1. PICK m \in Masks, f \in Forms : Store(m, Updated(NewRow, f), f)
      BY <2>3 DEF Create
    <3>2. Matches(Updated(NewRow, f), f)
      BY NewRowIs, UpdatedMatches
    <3>3. UNCHANGED <<postForm, postRow>>
      BY <2>3 DEF Create
    <3> QED BY <3>1, <3>2, <3>3
  <2>4. ASSUME NEW p \in Posts, Edit(p)
        PROVE  /\ UNCHANGED <<masks, shown>>
               /\ \A q \in Posts : \A f \in postForm'[q] : Matches(postRow'[q], f)
    <3>1. UNCHANGED <<masks, shown>>
      BY <2>4 DEF Edit, maskVars
    <3>2. \/ UNCHANGED <<postForm, postRow>>
          \/ \E m \in Masks, f \in Forms :
               postForm' = [postForm EXCEPT ![p] = {f}] /\ postRow' = [postRow EXCEPT ![p] = Updated(masks[m], f)]
      BY <2>4 DEF Edit
    <3>3. CASE UNCHANGED <<postForm, postRow>>
      BY <3>1, <3>3 DEF FormsKept
    <3>4. CASE \E m \in Masks, f \in Forms :
                 postForm' = [postForm EXCEPT ![p] = {f}] /\ postRow' = [postRow EXCEPT ![p] = Updated(masks[m], f)]
      <4>1. PICK m \in Masks, f \in Forms :
                 postForm' = [postForm EXCEPT ![p] = {f}] /\ postRow' = [postRow EXCEPT ![p] = Updated(masks[m], f)]
        BY <3>4
      <4>2. Matches(Updated(masks[m], f), f)
        BY <2>1, UpdatedMatches
      <4> QED BY <2>1, <3>1, <4>1, <4>2 DEF FormsKept
    <3> QED BY <3>2, <3>3, <3>4
  <2>5. ASSUME NEW p \in Posts, Save(p)
        PROVE  /\ UNCHANGED <<masks, shown>> \/ \E m, row, f : Store(m, row, f) /\ Matches(row, f)
               /\ \A q \in Posts : \A f \in postForm'[q] : Matches(postRow'[q], f)
    <3>1. UNCHANGED <<masks, shown>> \/ \E f \in postForm[p] : Store(postMask[p], postRow[p], f)
      BY <2>5 DEF Save, maskVars
    <3>2. \A f \in postForm[p] : Matches(postRow[p], f)
      BY DEF FormsKept
    <3>3. postForm' = [postForm EXCEPT ![p] = {}] /\ postRow' = [postRow EXCEPT ![p] = NewRow]
      BY <2>5 DEF Save, PostIdle
    <3>4. \A q \in Posts : \A f \in postForm'[q] : Matches(postRow'[q], f)
      BY <2>1, <3>3 DEF FormsKept
    <3> QED BY <3>1, <3>2, <3>4
  <2>6. ASSUME NEW p \in Posts, Delete(p) PROVE UNCHANGED <<masks, shown, postForm, postRow>>
    BY <2>6 DEF Delete
  <2>7. ASSUME TypesDelete \/ TypesCreate \/ NextDay \/ RunStep \/ UNCHANGED vars
        PROVE  UNCHANGED <<masks, shown, postForm, postRow>>
    BY <2>7 DEF TypesDelete, TypesCreate, TypesElse, NextDay, RunStep, Submit, ReadTypes, Lookup, Fetch,
                ReadFails, Write, RunElse, vars, maskVars, postVars
  <2>8. ASSUME UNCHANGED <<postForm, postRow>>
        PROVE  \A p \in Posts : \A f \in postForm'[p] : Matches(postRow'[p], f)
    BY <2>8 DEF FormsKept
  <2> QED BY <2>2, <2>3, <2>4, <2>5, <2>6, <2>7, <2>8 DEF Next, PostStep
<1> QED BY <1>1, <1>2, ShapesHold, PTL DEF Spec

\* The day does not matter for the hour of the day.
LEMMA RoundingPerDay ==
  ASSUME NEW t \in Int, NEW o \in Int
  PROVE  RoundToHour((t % 48) + o) = RoundToHour(t + o)
<1> DEFINE r == t % 48
           q == t \div 48
           b == (r + o + 1) \div 2
<1>1. t = 48 * q + r /\ q \in Int /\ r \in Int
  OBVIOUS
<1> HIDE DEF r, q
<1>2. (t + o + 1) \div 2 = 24 * q + b /\ b \in Int
  BY <1>1
<1>3. RoundToHour(t + o) = (24 * q + b) % 24
  BY <1>1, <1>2, Rounding
<1>4. RoundToHour(r + o) = b % 24
  BY <1>1, Rounding
<1> HIDE DEF b
<1>5. (24 * q + b) % 24 = b % 24
  BY <1>1, <1>2
<1> QED BY <1>3, <1>4, <1>5 DEF r

\* The preview of hour_form.html shows what a run will use on any day, but for blank offsets
\* over old ones and for two times in one hour: for any masks, forms and days.
THEOREM PreviewIsRight == Spec => []PreviewAgrees
<1>1. Shapes /\ FormsKept => PreviewAgrees
  <2> SUFFICES ASSUME Shapes, FormsKept, NEW m \in Masks, NEW f \in shown[m],
                      f.rise # {} \/ masks[m].rise = 0, f.set # {} \/ masks[m].set = 0,
                      \/ RoundToHour(sun.rise + masks[m].rise) # RoundToHour(sun.set + masks[m].set)
                      \/ /\ ~(sun.set + masks[m].set < sun.rise + masks[m].rise)
                         /\ {sun.rise, sun.set} \subseteq 0..47
               PROVE  Preview(f) = ResolveHourBitmask(masks[m])
    BY DEF PreviewAgrees
  <2> DEFINE row == masks[m]
             off(o) == IF o = {} THEN 0 ELSE CHOOSE x \in o : TRUE
  <2>1. f \in Forms /\ row \in RowType /\ Matches(row, f)
    BY DEF Shapes, SunAndRows, RowsOK, TableShape, FormsKept
  <2>2. /\ f.dynamic \in BOOLEAN /\ \A x, y \in f.rise : x = y
        /\ \A x, y \in f.set : x = y
    <3>1. \A g \in Forms : {g.dynamic, g.fill} \subseteq BOOLEAN
                           /\ \A offset \in {g.rise, g.set} : \A x, y \in offset : x = y
      BY SchedulesAssumption, Zenon DEF SchedulesAssumption
    <3> QED BY <2>1, <3>1
  <2>3. sun.rise \in Int /\ sun.set \in Int /\ row.rise \in Int /\ row.set \in Int
    <3>1. \A s \in Suns : s.rise \in Int /\ s.set \in Int
      BY SchedulesAssumption, Zenon DEF SchedulesAssumption
    <3> QED BY <2>1, <3>1 DEF Shapes, SunAndRows, RowType
  <2>4. CASE ~f.dynamic
    BY <2>1, <2>2, <2>4 DEF Matches, Preview, ResolveHourBitmask, RowType
  <2>5. CASE f.dynamic
    <3>1. row.dynamic /\ row.fill = f.fill
      BY <2>1, <2>5 DEF Matches
    <3>2. off(f.rise) = row.rise /\ off(f.set) = row.set
      BY <2>1, <2>2, <2>5 DEF Matches
    <3> DEFINE rise == (sun.rise % 48) + off(f.rise)
               set == (sun.set % 48) + off(f.set)
               r == RoundToHour(rise)
               s == RoundToHour(set)
               gap == IF set >= rise THEN set - rise ELSE set - rise + 48
               lit == {h \in Hours : \/ r = s /\ gap > 24
                                     \/ r < s /\ r <= h /\ h < s
                                     \/ r > s /\ (h >= r \/ h < s)}
    <3>3. Preview(f) = Filled(f.fill, lit)
      BY <2>5 DEF Preview
    <3>4. rise = (sun.rise % 48) + row.rise /\ set = (sun.set % 48) + row.set
      BY <3>2
    <3> HIDE DEF off, rise, set
    <3>5. r = RoundToHour(sun.rise + row.rise) /\ s = RoundToHour(sun.set + row.set)
      BY <2>3, <3>4, RoundingPerDay
    <3>6. r = s /\ gap > 24 <=> r = s /\ (sun.set + row.set) - (sun.rise + row.rise) > 24
      <4>1. \/ RoundToHour(sun.rise + row.rise) # RoundToHour(sun.set + row.set)
            \/ /\ sun.rise + row.rise <= sun.set + row.set
               /\ sun.rise \in 0..47 /\ sun.set \in 0..47
        BY <2>3
      <4>2. CASE r # s
        BY <4>2
      <4>3. CASE r = s
        <5>1. sun.rise % 48 = sun.rise /\ sun.set % 48 = sun.set /\ set >= rise
          BY <2>3, <3>4, <3>5, <4>1, <4>3
        <5>2. gap = (sun.set + row.set) - (sun.rise + row.rise)
          BY <2>3, <3>4, <5>1
        <5> QED BY <5>2
      <4> QED BY <4>2, <4>3
    <3> HIDE DEF gap, r, s
    <3>7. lit = LitBetween(sun.rise + row.rise, sun.set + row.set)
      BY <3>5, <3>6 DEF LitBetween
    <3> QED BY <3>1, <3>3, <3>7 DEF ResolveHourBitmask
  <2> QED BY <2>2, <2>4, <2>5
<1> QED BY <1>1, ShapesHold, FormsHold, PTL
=============================================================================
