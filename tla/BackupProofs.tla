---------------------------- MODULE BackupProofs ----------------------------
(***************************************************************************)
(* Theorems about Backup, for any tables, links, inputs, settings and      *)
(* number of edits, in three parts with an inductive invariant each:       *)
(* a run keeps its cameras (IInv), the settings are in effect and only     *)
(* edited ones change (SettingsInv), a backup is whole and an import       *)
(* atomic (BackupInv).                                                     *)
(*                                                                         *)
(* A run writes no camera but those it was started for:                    *)
(* RunKeepsItsCameras.  The argument: the table of devices never gives an  *)
(* id twice, not even to the rows an import restores, so an id the run     *)
(* holds is that of the row it was found in or of none; an import that is  *)
(* rolled back brings both the rows and the ids given back, hence the      *)
(* second conjunct of IInv.                                                *)
(***************************************************************************)
EXTENDS Backup, FiniteSetTheorems, TLAPS

\* A finite set of rows with numbers as ids.
IsTable(S) == IsFiniteSet(S) /\ \A r \in S : DOMAIN r = {"id", "name", "data"} /\ r.id \in Nat

\* The devices of tables d, which gave ids up to l, and what the run knows of them.
Known(d, l) ==
  /\ DOMAIN d = Tables \cup Links \cup {"command"}
  /\ DOMAIN l = Tables /\ l["device"] \in Nat
  /\ IsTable(d["device"]) /\ \A r \in d["device"] : r.id <= l["device"]
  /\ \A x \in d["tagged"] : 1 \in DOMAIN x /\ x[1] \in Nat /\ x[1] <= l["device"]
  /\ \A i \in run.todo :
       i <= l["device"] /\ \A r \in d["device"] : r.id = i => r.data \in run.scope

PartNames == {"mask", "tag", "device", "tagged", "assigned", "button", "rule", "config"}

\* The export's file has each part once it was read: devices that are rows, tags of devices.
FileKnown ==
  /\ toRead \in Seq(PartNames)
  /\ "device" \in DOMAIN file => IsTable(file["device"])
  /\ "tagged" \in DOMAIN file => \A y \in file["tagged"] : 1 \in DOMAIN y.label
  /\ \A t \in PartNames :
       \/ t \in DOMAIN file
       \/ \E i \in DOMAIN toRead : toRead[i] = t
       \/ toRead = <<>> /\ file = <<>>

RunKnown ==
  /\ run.todo \subseteq Nat /\ run.written \subseteq run.scope
  /\ run.pc = "write" => run.held \in run.scope
  /\ run.pc \in {"none", "queued"} => run.written = {}
  /\ DOMAIN run = {"pc", "todo", "held", "scope", "written"}

IInv ==
  /\ RunKnown /\ FileKnown
  /\ Known(db, last)
  /\ before # <<>> => /\ Known(before.data.db, before.data.last)
                      /\ toRead = <<>> /\ PartNames \subseteq DOMAIN file

-----------------------------------------------------------------------------

\* Without the rows of a transaction.
LEMMA FreeIInv ==
  ASSUME IInv, Free, UNCHANGED <<file, toRead, before, run>>, Known(db, last)'
  PROVE  IInv'
  BY DEF IInv, Free, RunKnown, FileKnown

\* A step that changes other tables than the devices, and no id they have given.
LEMMA OtherKnown ==
  ASSUME Known(db, last), UNCHANGED run, DOMAIN db' = DOMAIN db, db'["device"] = db["device"],
         db'["tagged"] \subseteq db["tagged"],
         DOMAIN last' = DOMAIN last, last'["device"] = last["device"]
  PROVE  Known(db, last)'
  BY DEF Known

LEMMA OtherTable ==
  ASSUME IInv, Free, UNCHANGED <<file, toRead, before, run>>,
         DOMAIN db' = DOMAIN db, db'["device"] = db["device"],
         db'["tagged"] \subseteq db["tagged"],
         DOMAIN last' = DOMAIN last, last'["device"] = last["device"]
  PROVE  IInv'
  BY OtherKnown, FreeIInv DEF IInv

LEMMA EndsAre ==
  /\ Links = {"tagged", "assigned", "rule"}
  /\ DOMAIN Ends["tagged"] = 1..2 /\ DOMAIN Ends["assigned"] = 1..2 /\ DOMAIN Ends["rule"] = 1..3
  /\ Ends["tagged"][1] = "device" /\ Ends["tagged"][2] = "tag"
  /\ Ends["assigned"][1] = "device" /\ Ends["assigned"][2] = "mask"
  /\ Ends["rule"][1] = "button" /\ Ends["rule"][2] = "tag" /\ Ends["rule"][3] = "mask"
  BY DEF Links, Ends

LEMMA InitIInv == Init => IInv
<1> SUFFICES ASSUME Init
             PROVE  IInv
  OBVIOUS
<1>1. "device" \in Tables
  BY DEF Tables
<1>2. Known(db, last)
  <2>1. /\ IsTable(InitialDb["device"])
        /\ \A r \in InitialDb["device"] : r.id \in Nat /\ r.id <= InitialLast["device"]
    BY <1>1, BackupAssumption DEF Schema, Table, IsTable
  <2>2. ASSUME NEW x \in InitialDb["tagged"]
        PROVE  1 \in DOMAIN x /\ x[1] \in Nat /\ x[1] <= InitialLast["device"]
    <3>1. Schema(InitialDb)
      BY BackupAssumption
    <3>2. x \in [DOMAIN Ends["tagged"] -> Nat] /\ Has(InitialDb, Ends["tagged"][1], x[1])
      BY <3>1, EndsAre DEF Schema
    <3> QED BY <2>1, <3>2, EndsAre DEF Has
  <2>3. DOMAIN InitialDb = Tables \cup Links \cup {"command"}
    BY BackupAssumption DEF Schema
  <2> QED BY <1>1, <2>1, <2>2, <2>3, BackupAssumption DEF Init, Known, NoRun
<1> QED BY <1>2 DEF Init, IInv, RunKnown, FileKnown, NoRun

\* A new row has an id no run can hold.
LEMMA CreateIInv ==
  ASSUME IInv, NEW t \in Tables, Create(t)
  PROVE  IInv'
<1>1. PICK in \in Inputs[t] :
        /\ last' = [last EXCEPT ![t] = NextId(t)]
        /\ db' = [db EXCEPT ![t] = @ \cup {[id |-> NextId(t), name |-> in.name, data |-> in.data]}]
        /\ Free /\ UNCHANGED <<file, toRead, before, run>>
  BY DEF Create, Change
<1> DEFINE new == [id |-> NextId(t), name |-> in.name, data |-> in.data]
<1>2. NextId("device") = last["device"] + 1 /\ last["device"] \in Nat
  BY DEF IInv, Known, NextId
<1>3. DOMAIN last' = Tables
  BY <1>1 DEF IInv, Known
<1>4. CASE t = "device"
  <2>1. /\ last'["device"] = last["device"] + 1 /\ db'["device"] = db["device"] \cup {new}
        /\ DOMAIN db' = DOMAIN db /\ db'["tagged"] = db["tagged"]
    BY <1>1, <1>2, <1>4 DEF IInv, Known, Tables
  <2>2. DOMAIN new = {"id", "name", "data"} /\ new.id = last["device"] + 1
    BY <1>2, <1>4
  <2> HIDE DEF new
  <2>3. IsTable(db["device"])'
    BY <2>1, <2>2, <1>2, <1>4, FS_AddElement DEF IInv, Known, IsTable
  <2>4. \A r \in db'["device"] : r.id <= last'["device"]
    BY <2>1, <2>2, <1>2, <1>4 DEF IInv, Known, IsTable
  <2>5. \A i \in run.todo : i <= last["device"] /\ i \in Nat
    BY DEF IInv, Known, RunKnown
  <2>6. \A i \in run.todo : i <= last'["device"] /\ \A q \in db'["device"] : q.id = i => q.data \in run.scope
    BY <1>2, <2>1, <2>2, <2>5 DEF IInv, Known
  <2>7. \A x \in db'["tagged"] : 1 \in DOMAIN x /\ x[1] \in Nat /\ x[1] <= last'["device"]
    BY <1>2, <2>1 DEF IInv, Known
  <2>8. Known(db, last)'
    BY <1>1, <1>2, <1>3, <2>1, <2>3, <2>4, <2>6, <2>7 DEF IInv, Known
  <2> QED BY <1>1, <2>8, FreeIInv
<1>5. CASE t # "device"
  <2>1. db'["device"] = db["device"] /\ db'["tagged"] = db["tagged"] /\ DOMAIN db' = DOMAIN db
    BY <1>1, <1>5 DEF IInv, Known, Tables
  <2> QED BY <1>1, <1>5, <2>1, OtherTable DEF IInv, Known
<1> QED BY <1>4, <1>5

\* A row keeps its id and its camera under another name.
LEMMA RenameIInv ==
  ASSUME IInv, NEW t \in Tables, Rename(t)
  PROVE  IInv'
<1>1. PICK r \in db[t], in \in Inputs[t] :
        /\ db' = [db EXCEPT ![t] = (@ \ {r}) \cup {[r EXCEPT !.name = in.name]}]
        /\ Free /\ UNCHANGED <<file, toRead, before, run, last>>
  BY DEF Rename, Change
<1> DEFINE new == [r EXCEPT !.name = in.name]
<1>2. CASE t = "device"
  <2>1. db'["device"] = (db["device"] \ {r}) \cup {new} /\ r \in db["device"]
    BY <1>1, <1>2 DEF IInv, Known
  <2>2. DOMAIN r = {"id", "name", "data"}
    BY <2>1 DEF IInv, Known, IsTable
  <2>3. DOMAIN new = {"id", "name", "data"} /\ new.id = r.id /\ new.data = r.data
    BY <2>2
  <2> HIDE DEF new
  <2>4. IsFiniteSet(db'["device"])
    <3>1. IsFiniteSet(db["device"] \ {r})
      BY FS_RemoveElement DEF IInv, Known, IsTable
    <3> QED BY <2>1, <3>1, FS_AddElement
  <2>5. ASSUME NEW q \in db'["device"]
        PROVE  DOMAIN q = {"id", "name", "data"} /\ q.id \in Nat /\ q.id <= last'["device"]
    <3>1. \E x \in db["device"] : DOMAIN q = {"id", "name", "data"} /\ q.id = x.id
      BY <2>1, <2>3 DEF IInv, Known, IsTable
    <3> QED BY <1>1, <3>1 DEF IInv, Known, IsTable
  <2>6. ASSUME NEW i \in run.todo, NEW q \in db'["device"], q.id = i
        PROVE  q.data \in run.scope
    BY <2>1, <2>3, <2>6 DEF IInv, Known
  <2>7. DOMAIN db' = DOMAIN db /\ db'["tagged"] = db["tagged"]
    BY <1>1, <1>2 DEF IInv, Known
  <2>8. Known(db, last)'
    BY <1>1, <2>4, <2>5, <2>6, <2>7 DEF IInv, Known, IsTable
  <2> QED BY <1>1, <2>8, FreeIInv
<1>3. CASE t # "device"
  <2>1. db'["device"] = db["device"] /\ db'["tagged"] = db["tagged"] /\ DOMAIN db' = DOMAIN db
    BY <1>1, <1>3 DEF IInv, Known, Tables
  <2> QED BY <1>1, <2>1, OtherTable DEF IInv, Known
<1> QED BY <1>2, <1>3

\* A row that goes takes no id back.
LEMMA RemoveIInv ==
  ASSUME IInv, NEW t \in Tables, Remove(t)
  PROVE  IInv'
<1> DEFINE kept(r, l) == {x \in db[l] : ~Mentions(l, x, t, r.id)}
<1>0. PICK r \in db[t] :
        /\ db' = [db EXCEPT
             ![t] = @ \ {r},
             !.tagged = kept(r, "tagged"), !.rule = kept(r, "rule"),
             !.assigned = IF t = "mask" THEN {IF x[2] = r.id THEN <<x[1], 0>> ELSE x : x \in @}
                          ELSE kept(r, "assigned"),
             !.command = IF t = "button" /\ @ = r.id THEN 0 ELSE @]
        /\ Free /\ UNCHANGED <<file, toRead, before, run, last>>
  BY DEF Remove, Change
<1>a. kept(r, "tagged") \subseteq db["tagged"]
  OBVIOUS
<1> HIDE DEF kept
<1>1. /\ db'["device"] \subseteq db["device"] /\ db'["tagged"] \subseteq db["tagged"]
      /\ DOMAIN db' = DOMAIN db
      /\ Free /\ UNCHANGED <<file, toRead, before, run, last>>
  <2>1. DOMAIN db' = DOMAIN db
    BY <1>0
  <2>2. db'["device"] = db["device"] \/ (t = "device" /\ db'["device"] = db["device"] \ {r})
    BY <1>0 DEF IInv, Known, Tables
  <2>3. db'["tagged"] = kept(r, "tagged")
    BY <1>0 DEF IInv, Known, Tables, Links, Ends
  <2> QED BY <1>0, <1>a, <2>1, <2>2, <2>3
<1>2. IsFiniteSet(db'["device"])
  BY <1>1, FS_Subset DEF IInv, Known, IsTable
<1>3. Known(db, last)'
  BY <1>1, <1>2 DEF IInv, Known, IsTable
<1> QED BY <1>1, <1>3, FreeIInv

LEMMA RelinkIInv ==
  ASSUME IInv, Relink
  PROVE  IInv'
<1>0. {"device", "tagged", "rule"} \subseteq DOMAIN db
  BY DEF IInv, Known, Tables, Links, Ends
<1>1. CASE \E x \in {r.id : r \in db.device} \X {r.id : r \in db.tag} :
             Change([db EXCEPT !.tagged = (@ \ {x}) \cup ({x} \ @)])
  <2>1. PICK x \in {r.id : r \in db.device} \X {r.id : r \in db.tag} :
          Change([db EXCEPT !.tagged = (@ \ {x}) \cup ({x} \ @)])
    BY <1>1
  <2>2. 1 \in DOMAIN x /\ x[1] \in Nat /\ x[1] <= last["device"]
    BY DEF IInv, Known, IsTable
  <2>3. /\ db'["device"] = db["device"] /\ DOMAIN db' = DOMAIN db
        /\ db'["tagged"] \subseteq db["tagged"] \cup {x}
        /\ Free /\ UNCHANGED <<file, toRead, before, run, last>>
    BY <1>0, <2>1 DEF Change, Relink
  <2>4. Known(db, last)'
    BY <2>2, <2>3 DEF IInv, Known
  <2> QED BY <2>3, <2>4, FreeIInv
<1>2. CASE \E b \in db.button, t \in db.tag, m \in db.mask :
             LET x == <<b.id, t.id, m.id>> IN
             Change([db EXCEPT !.rule = IF x \in @ THEN @ \ {x}
                                   ELSE {y \in @ : y[1] # x[1] \/ y[2] # x[2]} \cup {x}])
  <2>1. ASSUME NEW x, Change([db EXCEPT !.rule = x])
        PROVE  /\ db'["device"] = db["device"] /\ DOMAIN db' = DOMAIN db
               /\ db'["tagged"] = db["tagged"]
               /\ Free /\ UNCHANGED <<file, toRead, before, run>>
    BY <1>0, <2>1 DEF Change
  <2>2. UNCHANGED last
    BY DEF Relink
  <2> QED BY <1>2, <2>1, <2>2, OtherTable
<1> QED BY <1>1, <1>2 DEF Relink

-----------------------------------------------------------------------------
\* The export reads the devices before it ends.
LEMMA ExportIInv ==
  ASSUME IInv, ExportBegin \/ ExportPart
  PROVE  IInv'
<1>1. Free /\ UNCHANGED <<db, last, before, run>>
  BY DEF ExportBegin, ExportPart
<1>2. Known(db, last)' /\ RunKnown'
  BY <1>1 DEF IInv, Known, RunKnown
<1>3. CASE ExportBegin
  <2>1. /\ Parts \in Seq(PartNames) /\ Len(Parts) = 8
        /\ \A t \in PartNames : \E i \in 1..8 : Parts[i] = t
    BY DEF Parts, PartNames
  <2>2. toRead' = Parts /\ UNCHANGED file
    BY <1>3 DEF ExportBegin
  <2>3. \A t \in PartNames : \E i \in DOMAIN toRead' : toRead'[i] = t
    BY <2>1, <2>2
  <2>4. FileKnown'
    BY <2>1, <2>2, <2>3 DEF IInv, FileKnown
  <2> QED BY <1>1, <1>2, <2>4 DEF IInv, Free
<1>4. CASE ExportPart
  <2>1. toRead \in Seq(PartNames) /\ toRead # <<>> /\ toRead' = Tail(toRead)
    BY <1>4 DEF ExportPart, Exporting, IInv, FileKnown
  <2>2. file' = [p \in DOMAIN file \cup {Head(toRead)} |->
                   IF p = Head(toRead) THEN Listed(p) ELSE file[p]]
    BY <1>4 DEF ExportPart
  <2>3. IsTable(Listed("device")) /\ \A y \in Listed("tagged") : 1 \in DOMAIN y.label
    <3>1. Listed("device") = db["device"]
      BY DEF Listed, Tables, Links, Ends
    <3>2. Listed("tagged") = {[at |-> x, label |-> Label(db, "tagged", x)] : x \in db["tagged"]}
      BY DEF Listed, Tables, Links, Ends
    <3>3. \A x \in db["tagged"] : 1 \in DOMAIN Label(db, "tagged", x)
      BY DEF IInv, Known, Label
    <3> QED BY <3>1, <3>2, <3>3 DEF IInv, Known
  <2>4. toRead' \in Seq(PartNames)
    BY <2>1
  <2>5. /\ "device" \in DOMAIN file' => IsTable(file'["device"])
        /\ "tagged" \in DOMAIN file' => \A y \in file'["tagged"] : 1 \in DOMAIN y.label
    BY <2>2, <2>3 DEF IInv, FileKnown
  <2>6. ASSUME NEW t \in PartNames
        PROVE  t \in DOMAIN file' \/ \E j \in DOMAIN toRead' : toRead'[j] = t
    <3>1. CASE t \in DOMAIN file \/ t = Head(toRead)
      BY <2>2, <3>1
    <3>2. CASE t # Head(toRead) /\ \E i \in DOMAIN toRead : toRead[i] = t
      <4>1. PICK i \in DOMAIN toRead : toRead[i] = t
        BY <3>2
      <4>2. i - 1 \in DOMAIN toRead' /\ toRead'[i - 1] = toRead[i]
        BY <2>1, <3>2, <4>1
      <4> QED BY <4>1, <4>2
    <3> QED BY <2>1, <3>1, <3>2 DEF IInv, FileKnown
  <2>7. FileKnown'
    BY <2>4, <2>5, <2>6 DEF FileKnown
  <2> QED BY <1>1, <1>2, <2>7 DEF IInv, Free
<1> QED BY <1>3, <1>4

-----------------------------------------------------------------------------
LEMMA ImportBeginIInv ==
  ASSUME IInv, ImportBegin
  PROVE  IInv'
<1>1. /\ before'.data.db = db /\ before'.data.last = last
      /\ db' = [t \in DOMAIN db |-> IF t = "command" THEN 0 ELSE {}]
      /\ UNCHANGED <<last, file, toRead, run>>
      /\ file # <<>> /\ toRead = <<>>
  BY DEF ImportBegin, Everything, Exporting
<1>2. {"device", "tagged"} \subseteq DOMAIN db
  BY DEF IInv, Known, Tables, Links, Ends
<1>3. db'["device"] = {} /\ db'["tagged"] = {} /\ DOMAIN db' = DOMAIN db
  BY <1>1, <1>2
<1>4. Known(db, last)'
  BY <1>1, <1>3, FS_EmptySet DEF IInv, Known, IsTable
<1>5. Known(before.data.db, before.data.last)'
  BY <1>1 DEF IInv, Known
<1>6. PartNames \subseteq DOMAIN file /\ FileKnown' /\ RunKnown'
  BY <1>1 DEF IInv, FileKnown, RunKnown
<1> QED BY <1>1, <1>4, <1>5, <1>6 DEF IInv

Rank(S, r) == Cardinality({q \in S : q.id <= r.id})

\* Ranks are positive, and at most the number of rows.
LEMMA Ranks ==
  ASSUME NEW S, IsTable(S)
  PROVE  /\ Cardinality(S) \in Nat
         /\ \A r \in S : Rank(S, r) \in 1..Cardinality(S)
<1>1. ASSUME NEW r \in S
      PROVE  Rank(S, r) \in 1..Cardinality(S)
  <2> DEFINE U == {q \in S : q.id <= r.id}
  <2>1. U \in SUBSET S /\ r \in U
    BY DEF IsTable
  <2>2. IsFiniteSet(U) /\ Cardinality(U) <= Cardinality(S)
    BY <2>1, FS_Subset DEF IsTable
  <2>3. Cardinality(U) # 0
    BY <2>1, <2>2, FS_EmptySet
  <2> QED BY <2>2, <2>3, FS_CardinalityType DEF IsTable, Rank
<1> QED BY <1>1, FS_CardinalityType DEF IsTable

\* So the restored devices have ids that were never given.
LEMMA RestoreTableIInv ==
  ASSUME IInv, NEW t \in Tables, RestoreTable(t)
  PROVE  IInv'
<1>1. /\ before # <<>> /\ UNCHANGED <<file, toRead, before, run>>
      /\ last' = [last EXCEPT ![t] = NextId(t) + Cardinality(file[t]) - 1]
      /\ db' = [db EXCEPT ![t] = {[r EXCEPT !.id = NextId(t) + Rank(file[t], r) - 1] : r \in file[t]}]
  BY DEF RestoreTable, Restoring, Rank
<1>2. IsTable(file["device"])
  BY <1>1 DEF IInv, FileKnown, PartNames
<1>3. Known(before.data.db, before.data.last)' /\ RunKnown' /\ FileKnown'
  BY <1>1 DEF IInv, Known, RunKnown, FileKnown
<1>4. CASE t = "device"
  <2> DEFINE S == file["device"]
             f == [r \in S |-> [r EXCEPT !.id = NextId("device") + Rank(S, r) - 1]]
             T == {f[r] : r \in S}
             n == last["device"]
  <2>1. n \in Nat /\ NextId("device") = n + 1 /\ "device" \in DOMAIN db
    BY <1>4 DEF IInv, Known, NextId, Tables
  <2>2. db'["device"] = T /\ DOMAIN db' = DOMAIN db /\ db'["tagged"] = db["tagged"]
    <3>1. db'["device"] = T /\ DOMAIN db' = DOMAIN db
      BY <1>1, <1>4, <2>1
    <3>2. "tagged" \in DOMAIN db
      BY DEF IInv, Known, Links, Ends
    <3>3. db'["tagged"] = db["tagged"]
      BY <1>1, <1>4, <3>2
    <3> QED BY <3>1, <3>3
  <2>3. Cardinality(S) \in Nat /\ last'["device"] = n + Cardinality(S)
    BY <1>1, <1>2, <1>4, <2>1, Ranks DEF IInv, Known, Tables
  <2>4. DOMAIN last' = Tables /\ last'["device"] \in Nat
    BY <1>1, <1>4, <2>1, <2>3 DEF IInv, Known
  <2>5. ASSUME NEW r \in S
        PROVE  /\ DOMAIN f[r] = {"id", "name", "data"}
               /\ f[r].id \in Nat /\ f[r].id > n /\ f[r].id <= last'["device"]
    <3>1. DOMAIN r = {"id", "name", "data"} /\ Rank(S, r) \in 1..Cardinality(S)
      BY <1>2, Ranks DEF IsTable
    <3>2. DOMAIN f[r] = {"id", "name", "data"} /\ f[r].id = n + Rank(S, r)
      BY <2>1, <3>1
    <3> QED BY <2>1, <2>3, <3>1, <3>2
  <2>6. f \in Surjection(S, T)
    BY DEF Surjection
  <2>7. IsFiniteSet(T)
    BY <1>2, <2>6, FS_Surjection DEF IsTable
  <2> HIDE DEF f
  <2>8. \A i \in run.todo : i \in Nat /\ i <= n
    BY DEF IInv, Known, RunKnown
  <2>9. IsTable(T) /\ \A q \in T : q.id > n /\ q.id <= last'["device"]
    BY <2>5, <2>7 DEF IsTable
  <2> HIDE DEF T, S
  <2>10. DOMAIN db' = Tables \cup Links \cup {"command"}
    BY <2>2 DEF IInv, Known
  <2>11. \A q \in T : q.id \in Nat
    BY <2>9 DEF IsTable
  <2>12. \A i \in run.todo : i <= last'["device"] /\ \A q \in T : q.id # i
    BY <2>1, <2>3, <2>8, <2>9, <2>11
  <2>13. \A x \in db'["tagged"] : 1 \in DOMAIN x /\ x[1] \in Nat /\ x[1] <= last'["device"]
    BY <2>1, <2>2, <2>3 DEF IInv, Known
  <2>14. Known(db, last)'
    BY <1>1, <2>2, <2>4, <2>9, <2>10, <2>12, <2>13 DEF Known
  <2> QED BY <1>1, <1>3, <2>14 DEF IInv
<1>5. CASE t # "device"
  <2>1. /\ DOMAIN db' = DOMAIN db /\ db'["device"] = db["device"] /\ last'["device"] = last["device"]
        /\ db'["tagged"] = db["tagged"]
    BY <1>1, <1>5 DEF IInv, Known, Tables
  <2>2. DOMAIN last' = DOMAIN last
    BY <1>1
  <2> QED BY <1>1, <1>3, <2>1, <2>2, OtherKnown DEF IInv
<1> QED BY <1>4, <1>5

LEMMA ImportStepIInv ==
  ASSUME IInv, ImportStep
  PROVE  IInv'
<1>1. CASE RestoreConfig
  <2>1. UNCHANGED <<db, last, file, toRead, before, run>>
    BY <1>1 DEF RestoreConfig
  <2> QED BY <2>1 DEF IInv, Known, RunKnown, FileKnown
<1>2. CASE Commit
  <2>1. before' = <<>> /\ file' = <<>> /\ toRead = <<>> /\ UNCHANGED <<db, last, toRead, run>>
    BY <1>2 DEF Commit, IInv
  <2>2. FileKnown'
    BY <2>1 DEF IInv, FileKnown
  <2> QED BY <2>1, <2>2 DEF IInv, Known, RunKnown
<1>3. CASE ImportFails
  <2>1. /\ before # <<>> /\ before' = <<>> /\ db' = before.data.db /\ last' = before.data.last
        /\ UNCHANGED <<file, toRead, run>>
    BY <1>3 DEF ImportFails, Rollback, Restoring
  <2> QED BY <2>1 DEF IInv, Known, RunKnown, FileKnown
<1>4. ASSUME NEW l \in Links, RestoreLinks(l)
      PROVE  IInv'
  <2>1. /\ db' = [db EXCEPT ![l] = {Resolved(l, y) : y \in ToLink(l)}]
        /\ UNCHANGED <<last, file, toRead, before, run>>
    BY <1>4 DEF RestoreLinks
  <2>2. l # "device"
    BY DEF Links, Ends
  <2>3. DOMAIN db' = DOMAIN db /\ db'["device"] = db["device"]
    BY <2>1, <2>2
  <2>4. RunKnown' /\ FileKnown' /\ before # <<>>
    BY <1>4, <2>1 DEF IInv, RunKnown, FileKnown, RestoreLinks, Restoring
  <2>5. CASE l # "tagged"
    <3>1. db'["tagged"] = db["tagged"]
      BY <2>1, <2>5
    <3> QED BY <2>1, <2>3, <2>4, <3>1, OtherKnown DEF IInv, Known
  <2>6. CASE l = "tagged"
    <3>1. ASSUME NEW y \in ToLink("tagged")
          PROVE  /\ 1 \in DOMAIN Resolved("tagged", y)
                 /\ Resolved("tagged", y)[1] \in Nat /\ Resolved("tagged", y)[1] <= last["device"]
      <4>1. 1 \in DOMAIN y.label
        BY <2>4 DEF IInv, FileKnown, ToLink, PartNames
      <4>2. Resolved("tagged", y)[1] # 0 /\ Resolved("tagged", y)[1] = Found("device", y.label[1])
        BY <4>1 DEF ToLink, Resolved, Ends
      <4>3. Called(db, "device", y.label[1]) # {}
            /\ Found("device", y.label[1])
                 = (CHOOSE r \in Called(db, "device", y.label[1]) : TRUE).id
        BY <4>2 DEF Found
      <4>4. (CHOOSE r \in Called(db, "device", y.label[1]) : TRUE) \in db["device"]
        BY <4>3 DEF Called
      <4>5. 1 \in DOMAIN Resolved("tagged", y)
        BY <4>1 DEF Resolved
      <4> QED BY <4>2, <4>3, <4>4, <4>5 DEF IInv, Known, IsTable
    <3>2. db'["tagged"] = {Resolved("tagged", y) : y \in ToLink("tagged")}
      BY <2>1, <2>6 DEF IInv, Known, Links, Ends
    <3>3. Known(db, last)'
      BY <2>1, <2>3, <3>1, <3>2 DEF IInv, Known
    <3> QED BY <2>1, <2>4, <3>3 DEF IInv, Known
  <2> QED BY <2>5, <2>6
<1> QED BY <1>1, <1>2, <1>3, <1>4, ImportBeginIInv, RestoreTableIInv DEF ImportStep

-----------------------------------------------------------------------------
(* The run. *)

\* A run that starts holds devices that are there.
LEMMA StartIInv ==
  ASSUME IInv, Start
  PROVE  IInv'
<1> DEFINE covered == {x[1] : x \in {y \in db.tagged : \E r \in db.rule :
                                               r[1] = db.command /\ r[2] = y[2]}}
           scope == IF covered # {} THEN covered ELSE {r.id : r \in db.device}
<1>1. /\ run' = [run EXCEPT !.pc = "read", !.todo = scope,
                            !.scope = {r.data : r \in {q \in db.device : q.id \in scope}}]
      /\ Free /\ UNCHANGED <<db, last, file, toRead, before>>
  BY DEF Start, backupVars
<1>2. run.pc = "queued" /\ run.written = {} /\ DOMAIN run = {"pc", "todo", "held", "scope", "written"}
  BY DEF Start, IInv, RunKnown
<1>3. \A i \in scope : i \in Nat /\ i <= last["device"]
  BY DEF IInv, Known, IsTable
<1> HIDE DEF scope
<1>4. /\ run'.pc = "read" /\ run'.todo = scope /\ run'.written = {}
      /\ run'.scope = {r.data : r \in {q \in db.device : q.id \in scope}}
      /\ DOMAIN run' = {"pc", "todo", "held", "scope", "written"}
  BY <1>1, <1>2
<1>5. RunKnown'
  BY <1>3, <1>4 DEF RunKnown
<1>6. Known(db, last)'
  BY <1>1, <1>3, <1>4 DEF IInv, Known
<1>7. FileKnown'
  BY <1>1 DEF IInv, FileKnown
<1> QED BY <1>1, <1>5, <1>6, <1>7 DEF IInv, Free

\* What a run that goes on knows is what it knew.
LEMMA RunOnIInv ==
  ASSUME IInv, UNCHANGED <<file, toRead, before>>, RunKnown',
         run'.todo \subseteq run.todo, run'.scope = run.scope,
         UNCHANGED last, DOMAIN db' = DOMAIN db,
         db'["device"] = db["device"], db'["tagged"] = db["tagged"]
  PROVE  IInv'
<1>1. Known(db, last)'
  BY DEF IInv, Known
<1>2. before # <<>> => Known(before.data.db, before.data.last)'
  BY DEF IInv, Known
<1> QED BY <1>1, <1>2 DEF IInv, FileKnown

\* The camera that is read is one of those the run was started for.
LEMMA RunIInv ==
  ASSUME IInv, RunStep
  PROVE  IInv'
<1>1. DOMAIN run = {"pc", "todo", "held", "scope", "written"} /\ RunKnown
  BY DEF IInv, RunKnown
<1>2. CASE Issue
  <2>1. /\ \E b : db' = [db EXCEPT !.command = b]
        /\ run' = [run EXCEPT !.pc = "queued"] /\ run.pc = "none"
        /\ UNCHANGED <<last, file, toRead, before>>
    BY <1>2 DEF Issue, backupVars
  <2>2. RunKnown' /\ run'.todo = run.todo /\ run'.scope = run.scope
    BY <1>1, <2>1 DEF RunKnown
  <2>3. DOMAIN db' = DOMAIN db /\ db'["device"] = db["device"] /\ db'["tagged"] = db["tagged"]
    BY <2>1 DEF IInv, Known, Tables, Links, Ends
  <2> QED BY <2>1, <2>2, <2>3, RunOnIInv
<1>3. CASE ReadCamera
  <2>1. UNCHANGED <<db, last, file, toRead, before>>
    BY <1>3 DEF ReadCamera, backupVars
  <2>2. CASE run.todo = {}
    <3>1. run' = [run EXCEPT !.pc = "done"]
      BY <1>3, <2>2 DEF ReadCamera
    <3>2. RunKnown' /\ run'.todo = run.todo /\ run'.scope = run.scope
      BY <1>1, <3>1 DEF RunKnown
    <3> QED BY <2>1, <3>2, RunOnIInv
  <2>3. CASE run.todo # {}
    <3>1. PICK i \in run.todo :
            run' = IF Has(db, "device", i)
                   THEN [run EXCEPT !.pc = "write", !.held = Row(db, "device", i).data]
                   ELSE [run EXCEPT !.pc = "failed"]
      BY <1>3, <2>3 DEF ReadCamera
    <3>2. Has(db, "device", i) => Row(db, "device", i).data \in run.scope
      BY DEF IInv, Known, Has, Row
    <3>3. RunKnown' /\ run'.todo = run.todo /\ run'.scope = run.scope
      <4>1. CASE Has(db, "device", i)
        BY <1>1, <3>1, <3>2, <4>1 DEF RunKnown
      <4>2. CASE ~Has(db, "device", i)
        BY <1>1, <3>1, <4>2 DEF RunKnown
      <4> QED BY <4>1, <4>2
    <3> QED BY <2>1, <3>3, RunOnIInv
  <2> QED BY <2>2, <2>3
<1>4. CASE WriteCamera
  <2>1. /\ run.pc = "write" /\ run' = [run EXCEPT !.pc = "log", !.written = @ \cup {run.held}]
        /\ UNCHANGED <<db, last, file, toRead, before>>
    BY <1>4 DEF WriteCamera, backupVars
  <2>2. RunKnown' /\ run'.todo = run.todo /\ run'.scope = run.scope
    BY <1>1, <2>1 DEF RunKnown
  <2> QED BY <2>1, <2>2, RunOnIInv
<1>5. CASE LogCamera
  <2>1. UNCHANGED <<db, last, file, toRead, before>> /\ run.pc = "log"
    BY <1>5 DEF LogCamera, backupVars
  <2>2. PICK i \in run.todo :
          run' = IF Has(db, "device", i)
                 THEN [run EXCEPT !.pc = "read", !.todo = @ \ {i}]
                 ELSE [run EXCEPT !.pc = "failed"]
    BY <1>5 DEF LogCamera
  <2>3. RunKnown' /\ run'.todo \subseteq run.todo /\ run'.scope = run.scope
    <3>1. CASE Has(db, "device", i)
      BY <1>1, <2>2, <3>1 DEF RunKnown
    <3>2. CASE ~Has(db, "device", i)
      BY <1>1, <2>2, <3>2 DEF RunKnown
    <3> QED BY <3>1, <3>2
  <2> QED BY <2>1, <2>3, RunOnIInv
<1> QED BY <1>2, <1>3, <1>4, <1>5, StartIInv DEF RunStep

\* A transaction that was open is undone.
LEMMA RestartIInv ==
  ASSUME IInv, Restart
  PROVE  IInv'
<1>1. /\ toRead' = <<>> /\ file' = IF Exporting THEN <<>> ELSE file
      /\ run' = [run EXCEPT !.pc = IF @ \in {"read", "write", "log"} THEN "failed" ELSE @]
  BY DEF Restart
<1>2. FileKnown'
  <2>1. <<>> \in Seq(PartNames)
    OBVIOUS
  <2>2. CASE Exporting
    BY <1>1, <2>1, <2>2 DEF FileKnown
  <2>3. CASE ~Exporting
    BY <1>1, <2>1, <2>3 DEF IInv, FileKnown, Exporting
  <2> QED BY <2>2, <2>3
<1>3. RunKnown' /\ run'.todo = run.todo /\ run'.scope = run.scope
  BY <1>1 DEF IInv, RunKnown
<1>4. CASE Free
  <2>1. UNCHANGED <<db, last, before>>
    BY <1>4 DEF Restart
  <2>2. Known(db, last)'
    BY <1>3, <2>1 DEF IInv, Known
  <2> QED BY <1>2, <1>3, <1>4, <2>1, <2>2 DEF IInv, Free
<1>5. CASE ~Free
  <2>1. before' = <<>> /\ db' = before.data.db /\ last' = before.data.last
    BY <1>5 DEF Restart, Rollback
  <2>2. Known(db, last)'
    BY <1>3, <1>5, <2>1 DEF IInv, Known, Free
  <2> QED BY <1>2, <1>3, <2>1, <2>2 DEF IInv
<1> QED BY <1>4, <1>5

LEMMA NextIInv == IInv /\ [Next]_vars => IInv'
<1> SUFFICES ASSUME IInv, [Next]_vars
             PROVE  IInv'
  OBVIOUS
<1>1. CASE SettingsStep \/ UNCHANGED vars
  <2>1. UNCHANGED <<db, last, file, toRead, before, run>>
    BY <1>1 DEF SettingsStep, vars, backupVars
  <2> QED BY <2>1 DEF IInv, Known, RunKnown, FileKnown
<1>2. CASE FormStep
  BY <1>2, CreateIInv, RenameIInv, RemoveIInv, RelinkIInv DEF FormStep
<1> QED BY <1>1, <1>2, ExportIInv, ImportStepIInv, RunIInv, RestartIInv DEF Next

\* The inductive invariant: what the tables, the file, an open transaction and the run know
\* of each other's ids.
THEOREM Invariance == Spec => []IInv
  BY InitIInv, NextIInv, PTL DEF Spec

\* A run writes no camera but those it was started for, whatever is created, renamed and
\* deleted, and however often everything is wiped and restored, while it goes on.
THEOREM CamerasKept == Spec => []RunKeepsItsCameras
<1>1. IInv => RunKeepsItsCameras
  BY DEF IInv, RunKnown, RunKeepsItsCameras
<1> QED BY Invariance, <1>1, PTL

-----------------------------------------------------------------------------
(***************************************************************************)
(* The settings, beside imports and restarts, for any fields, values and   *)
(* posts: what was saved is in effect (SettingsInEffect), and a post       *)
(* changes what is in effect for the edited field only (OnlyEditedChange). *)
(*                                                                         *)
(* The argument: a page that nobody made stale holds what is in effect -   *)
(* which needs that a field without a row has its default in the copy, for *)
(* the core page shows the copy -, and what is true of the rows is true of *)
(* those a rollback would bring back (Settled).                            *)
(***************************************************************************)

IsPost(r) ==
  /\ DOMAIN r = {"pc", "group", "form", "at", "edited", "copy", "stale"}
  /\ r.group \in Groups /\ r.at \in Nat \ {0}
  /\ DOMAIN r.form = AllFields /\ \A f \in AllFields : r.form[f] # Unset

PostsTyped == DOMAIN post = Posts /\ \A p \in Posts : IsPost(post[p])

\* The copy c and the groups u whose copy is older than an import, beside rows r: any other
\* group is in effect but for posts that will reload it, and a field without a row has its
\* default.
Loaded(r, c, u) ==
  /\ DOMAIN r = AllFields
  /\ \A g \in Groups \ u :
       /\ (\E p \in Posts : WillLoad(p, g)) \/ \A f \in Fields(g) : c[f] = Effective(r)[f]
       /\ \A f \in Fields(g) : r[f] = Unset => c[f] = Default

\* A page that nobody has made stale, and its post, hold what is in effect, but for the
\* field its user changed.
Agrees(m, r) ==
  m.pc \in {"page", "save", "load"} /\ ~m.stale =>
    \A f \in Fields(m.group) :
      m.form[f] \in {Blank, Effective(r)[f]} \/ (m.pc # "page" /\ f = m.edited)

\* The rows outside a transaction, or those a rollback brings back.
Settled == IF before = <<>> THEN rows ELSE before.data.rows

SettingsInv ==
  /\ PostsTyped
  /\ "config" \in DOMAIN file => DOMAIN file["config"].rows = AllFields
  /\ Loaded(rows, cache, unread) /\ \A f \in AllFields : cache[f] # Unset
  /\ before # <<>> => unread = Groups /\ Loaded(before.data.rows, cache, before.unread)
  /\ \A p \in Posts : Agrees(post[p], Settled)

-----------------------------------------------------------------------------

\* Groups do not share fields.
LEMMA Sections ==
  /\ \A g \in Groups : Fields(g) \subseteq AllFields
  /\ \A g \in Groups : \A i \in Nat \ {0} : i <= Len(Section[g]) => Section[g][i] \in Fields(g)
  /\ \A g, h \in Groups : \A f \in Fields(g) \cap Fields(h) : g = h
<1>1. \A g \in Groups : Fields(g) \subseteq AllFields
  BY DEF AllFields
<1>2. ASSUME NEW g \in Groups, NEW i \in Nat \ {0}, i <= Len(Section[g])
      PROVE  Section[g][i] \in Fields(g)
  <2> DEFINE X == UNION {{Section[h][j] : j \in DOMAIN Section[h]} : h \in Groups}
  <2>1. Section \in [Groups -> Seq(X)]
    BY ConfigAssumption
  <2> HIDE DEF X
  <2>2. DOMAIN Section[g] = 1..Len(Section[g])
    BY <2>1
  <2> QED BY <1>2, <2>2 DEF Fields
<1>3. Fields("core") \cap Fields("plugin") = {}
  BY ConfigAssumption DEF Fields
<1> QED BY <1>1, <1>2, <1>3 DEF Groups

LEMMA NoPostIsPost == IsPost(NoPost) /\ NoPost.pc = "idle"
  BY ConfigAssumption DEF IsPost, NoPost, Groups

\* What is in effect, field by field.
LEMMA InEffect ==
  ASSUME NEW r, NEW f \in AllFields
  PROVE  Effective(r)[f] = IF r[f] = Unset THEN Default ELSE r[f]
  BY DEF Effective

\* Steps outside a transaction.
LEMMA FreeInv ==
  ASSUME SettingsInv, Free, UNCHANGED <<before, file>>, PostsTyped',
         Loaded(rows, cache, unread)', \A f \in AllFields : cache'[f] # Unset,
         \A p \in Posts : Agrees(post[p], rows)'
  PROVE  SettingsInv'
  BY DEF SettingsInv, Free, Settled

\* Steps that leave rows, copy and form of a post alone.
LEMMA PostInv ==
  ASSUME SettingsInv, Free, UNCHANGED <<before, file, rows, cache, unread>>, PostsTyped',
         \A p \in Posts, g \in Groups : WillLoad(p, g) => WillLoad(p, g)',
         \A p \in Posts : Agrees(post'[p], rows)
  PROVE  SettingsInv'
<1>1. Loaded(rows, cache, unread)'
  BY DEF SettingsInv, Loaded
<1>2. \A p \in Posts : Agrees(post[p], rows)'
  BY DEF Agrees
<1> QED BY <1>1, <1>2, FreeInv DEF SettingsInv

LEMMA InitInv == Init => SettingsInv
<1> SUFFICES ASSUME Init
             PROVE  SettingsInv
  OBVIOUS
<1>1. PostsTyped /\ \A p \in Posts : post[p].pc = "idle"
  BY NoPostIsPost DEF Init, ConfigInit, PostsTyped
<1>2. Loaded(rows, cache, unread)
  BY Sections DEF Init, ConfigInit, Loaded, Effective
<1>3. \A p \in Posts : Agrees(post[p], Settled)
  BY <1>1 DEF Agrees
<1>4. \A f \in AllFields : cache[f] # Unset
  BY ConfigAssumption DEF Init, ConfigInit, Effective
<1> QED BY <1>1, <1>2, <1>3, <1>4 DEF Init, SettingsInv

-----------------------------------------------------------------------------
(* The posts. *)

LEMMA OpenInv ==
  ASSUME SettingsInv, Free, UNCHANGED <<before, file>>,
         NEW p \in Posts, NEW g \in Groups, OpenPage(p, g)
  PROVE  SettingsInv'
<1> DEFINE shown(f) == IF rows[f] # Unset THEN rows[f]
                       ELSE IF g = "core" THEN cache[f] ELSE Default
           m == [NoPost EXCEPT !.pc = "page", !.group = g, !.stale = (g = "core" /\ g \in unread),
                               !.form = [f \in AllFields |-> IF f \in Fields(g) \ Secrets
                                                             THEN shown(f) ELSE Blank]]
<1>1. post' = [post EXCEPT ![p] = m] /\ post[p].pc = "idle" /\ UNCHANGED <<rows, cache, unread>>
  BY DEF OpenPage, Set
<1>2. DOMAIN m = {"pc", "group", "form", "at", "edited", "copy", "stale"}
      /\ m.pc = "page" /\ m.group = g /\ m.at = 1 /\ m.stale = (g = "core" /\ g \in unread)
  BY DEF NoPost
<1>3. m.form = [f \in AllFields |-> IF f \in Fields(g) \ Secrets THEN shown(f) ELSE Blank]
  BY DEF NoPost
<1>4. \A f \in AllFields : shown(f) # Unset
  BY ConfigAssumption DEF SettingsInv
<1>5. ~m.stale => \A f \in Fields(g) : shown(f) = Effective(rows)[f]
  <2> SUFFICES ASSUME ~m.stale, NEW f \in Fields(g)
               PROVE  shown(f) = Effective(rows)[f]
    OBVIOUS
  <2>1. f \in AllFields
    BY Sections
  <2>2. g = "core" /\ rows[f] = Unset => cache[f] = Default
    BY <1>2 DEF SettingsInv, Loaded
  <2> QED BY <2>1, <2>2, InEffect
<1> HIDE DEF m, shown
<1>6. IsPost(m)
  BY <1>2, <1>3, <1>4, ConfigAssumption DEF IsPost
<1>7. Agrees(m, rows)
  BY <1>2, <1>3, <1>5, Sections DEF Agrees
<1>8. PostsTyped'
  BY <1>1, <1>6 DEF SettingsInv, PostsTyped
<1>9. \A q \in Posts : Agrees(post'[q], rows)
  BY <1>1, <1>7 DEF SettingsInv, PostsTyped, Settled, Free
<1>10. \A q \in Posts, h \in Groups : WillLoad(q, h) => WillLoad(q, h)'
  BY <1>1, <1>2 DEF SettingsInv, PostsTyped, WillLoad
<1> QED BY <1>1, <1>8, <1>9, <1>10, PostInv

LEMMA SubmitInv ==
  ASSUME SettingsInv, Free, UNCHANGED <<before, file>>, NEW p \in Posts, Submit(p)
  PROVE  SettingsInv'
<1>1. PICK f \in Fields(post[p].group), v \in Values \cup {Blank} :
        post' = [post EXCEPT ![p] = [post[p] EXCEPT !.pc = "save", !.form[f] = v, !.edited = f]]
  BY DEF Submit, Set
<1>2. IsPost(post[p]) /\ post[p].pc = "page" /\ UNCHANGED <<rows, cache, unread>>
  BY DEF Submit, SettingsInv, PostsTyped
<1> DEFINE m == [post[p] EXCEPT !.pc = "save", !.form[f] = v, !.edited = f]
<1>3. /\ DOMAIN m = DOMAIN post[p] /\ m.pc = "save" /\ m.edited = f
      /\ m.group = post[p].group /\ m.at = post[p].at /\ m.stale = post[p].stale
      /\ m.form = [post[p].form EXCEPT ![f] = v]
  BY <1>2 DEF IsPost
<1>4. post' = [post EXCEPT ![p] = m]
  BY <1>1
<1> HIDE DEF m
<1>5. f \in AllFields /\ v # Unset
  BY <1>2, Sections, ConfigAssumption DEF IsPost
<1>6. IsPost(m)
  BY <1>2, <1>3, <1>5 DEF IsPost
<1>7. Agrees(m, rows)
  <2>1. Agrees(post[p], rows)
    BY DEF SettingsInv, Settled, Free
  <2>2. \A e \in Fields(m.group) : e # f => m.form[e] = post[p].form[e]
    BY <1>2, <1>3, Sections DEF IsPost
  <2> QED BY <1>2, <1>3, <2>1, <2>2 DEF Agrees
<1>8. PostsTyped'
  BY <1>4, <1>6 DEF SettingsInv, PostsTyped
<1>9. \A q \in Posts : Agrees(post'[q], rows)
  BY <1>4, <1>7 DEF SettingsInv, PostsTyped, Settled, Free
<1>10. \A q \in Posts, h \in Groups : WillLoad(q, h) => WillLoad(q, h)'
  BY <1>2, <1>4 DEF SettingsInv, PostsTyped, WillLoad
<1> QED BY <1>2, <1>8, <1>9, <1>10, PostInv

\* What is in effect is a value.
LEMMA EffectiveSet ==
  ASSUME NEW r, NEW f \in AllFields
  PROVE  Effective(r)[f] # Unset
  BY InEffect, ConfigAssumption

\* A field that is skipped.
LEMMA SkipInv ==
  ASSUME SettingsInv, Free, UNCHANGED <<before, file, rows, cache, unread>>, NEW p \in Posts,
         post[p].pc = "save", post' = [post EXCEPT ![p] = [post[p] EXCEPT !.at = @ + 1]]
  PROVE  SettingsInv'
<1> DEFINE m == [post[p] EXCEPT !.at = @ + 1]
<1>1. IsPost(post[p]) /\ Agrees(post[p], rows)
  BY DEF SettingsInv, PostsTyped, Settled, Free
<1>2. /\ DOMAIN m = DOMAIN post[p] /\ m.pc = "save" /\ m.edited = post[p].edited
      /\ m.group = post[p].group /\ m.at = post[p].at + 1 /\ m.stale = post[p].stale
      /\ m.form = post[p].form
  BY <1>1 DEF IsPost
<1>3. post' = [post EXCEPT ![p] = m]
  OBVIOUS
<1> HIDE DEF m
<1>4. IsPost(m) /\ Agrees(m, rows)
  BY <1>1, <1>2 DEF IsPost, Agrees
<1>5. PostsTyped' /\ \A q \in Posts : Agrees(post'[q], rows)
  BY <1>3, <1>4 DEF SettingsInv, PostsTyped, Settled, Free
<1>6. \A q \in Posts, h \in Groups : WillLoad(q, h) => WillLoad(q, h)'
  BY <1>2, <1>3 DEF SettingsInv, PostsTyped, WillLoad
<1> QED BY <1>5, <1>6, PostInv

\* A field that is written: the post will reload it, and whoever has read its group before
\* is stale.
LEMMA WriteInv ==
  ASSUME SettingsInv, Free, UNCHANGED <<before, file, cache, unread>>, NEW p \in Posts, NEW m,
         NEW f \in Fields(post[p].group), post[p].pc = "save",
         rows' = [rows EXCEPT ![f] = post[p].form[f]],
         DOMAIN m = DOMAIN post[p], m.at = post[p].at + 1,
         m.pc = IF post[p].group = "plugin" THEN "load" ELSE "save",
         m.group = post[p].group, m.form = post[p].form, m.edited = post[p].edited,
         m.stale = post[p].stale,
         post' = [q \in Posts |->
                    IF q = p THEN m
                    ELSE [post[q] EXCEPT !.stale =
                            @ \/ (post[q].group = m.group /\ post[q].pc \in {"page", "save", "load"}
                                  /\ rows' # rows)]]
  PROVE  SettingsInv'
<1>1. IsPost(post[p]) /\ \A q \in Posts : IsPost(post[q]) /\ Agrees(post[q], rows)
  BY DEF SettingsInv, PostsTyped, Settled, Free
<1>2. f \in AllFields /\ post[p].form[f] # Unset /\ DOMAIN rows = AllFields
  BY <1>1, Sections DEF IsPost, SettingsInv, Loaded
<1>3. /\ DOMAIN rows' = AllFields /\ rows'[f] = post[p].form[f]
      /\ Effective(rows')[f] = post[p].form[f]
      /\ \A e \in AllFields \ {f} : rows'[e] = rows[e] /\ Effective(rows')[e] = Effective(rows)[e]
  <2>1. DOMAIN rows' = AllFields /\ rows'[f] = post[p].form[f]
    BY <1>2
  <2>2. \A e \in AllFields \ {f} : rows'[e] = rows[e]
    BY <1>2
  <2>3. Effective(rows')[f] = post[p].form[f]
    BY <1>2, <2>1 DEF Effective
  <2>4. \A e \in AllFields \ {f} : Effective(rows')[e] = Effective(rows)[e]
    BY <1>2, <2>2 DEF Effective
  <2> QED BY <2>1, <2>2, <2>3, <2>4
<1>4. ASSUME NEW q \in Posts \ {p}
      PROVE  /\ DOMAIN post'[q] = DOMAIN post[q] /\ post'[q].pc = post[q].pc
             /\ post'[q].group = post[q].group /\ post'[q].form = post[q].form
             /\ post'[q].at = post[q].at /\ post'[q].edited = post[q].edited
             /\ ~post'[q].stale =>
                  /\ ~post[q].stale
                  /\ post[q].group # m.group \/ post[q].pc \notin {"page", "save", "load"} \/ rows' = rows
  BY <1>1, <1>4 DEF IsPost
<1>5. post'[p] = m
  OBVIOUS
<1>6. PostsTyped'
  <2>1. IsPost(m)
    BY <1>1 DEF IsPost
  <2>2. ASSUME NEW q \in Posts \ {p}
        PROVE  IsPost(post'[q])
    BY <1>1, <1>4 DEF IsPost
  <2> QED BY <1>5, <2>1, <2>2 DEF PostsTyped
<1>7. \A q \in Posts, h \in Groups : WillLoad(q, h) => WillLoad(q, h)'
  BY <1>4, <1>5 DEF WillLoad, Groups
<1>8. WillLoad(p, post[p].group)'
  BY <1>1, <1>5 DEF WillLoad, IsPost, Groups
<1>9. Loaded(rows, cache, unread)'
  <2>1. ASSUME NEW g \in Groups \ unread
        PROVE  /\ (\E q \in Posts : WillLoad(q, g)') \/ \A e \in Fields(g) : cache[e] = Effective(rows')[e]
               /\ \A e \in Fields(g) : rows'[e] = Unset => cache[e] = Default
    <3>1. \A e \in Fields(g) : rows'[e] = Unset => cache[e] = Default
      BY <1>2, <1>3, <2>1, Sections DEF SettingsInv, Loaded
    <3>2. CASE g = post[p].group
      BY <1>8, <3>1, <3>2
    <3>3. CASE g # post[p].group
      <4>1. \A e \in Fields(g) : e # f /\ e \in AllFields
        BY <1>1, <3>3, Sections DEF IsPost
      <4> QED BY <1>3, <1>7, <2>1, <3>1, <4>1 DEF SettingsInv, Loaded
    <3> QED BY <3>2, <3>3
  <2> QED BY <1>3, <2>1 DEF Loaded
<1>10. \A q \in Posts : Agrees(post'[q], rows')
  <2>1. Agrees(m, rows')
    <3> SUFFICES ASSUME ~m.stale, NEW e \in Fields(m.group)
                 PROVE  m.form[e] \in {Blank, Effective(rows')[e]} \/ (m.pc # "page" /\ e = m.edited)
      BY DEF Agrees
    <3>1. CASE e = f
      BY <1>3, <3>1
    <3>2. CASE e # f
      <4>1. e \in AllFields \ {f}
        BY <1>1, <3>2, Sections DEF IsPost
      <4>2. post[p].form[e] \in {Blank, Effective(rows)[e]} \/ e = post[p].edited
        BY <1>1 DEF Agrees
      <4> QED BY <1>3, <4>1, <4>2
    <3> QED BY <3>1, <3>2
  <2>2. ASSUME NEW q \in Posts \ {p}
        PROVE  Agrees(post'[q], rows')
    <3> SUFFICES ASSUME post'[q].pc \in {"page", "save", "load"}, ~post'[q].stale,
                        NEW e \in Fields(post'[q].group)
                 PROVE  post'[q].form[e] \in {Blank, Effective(rows')[e]}
                        \/ (post'[q].pc # "page" /\ e = post'[q].edited)
      BY DEF Agrees
    <3>0. post[q].form[e] \in {Blank, Effective(rows)[e]} \/ (post[q].pc # "page" /\ e = post[q].edited)
      BY <1>1, <1>4 DEF Agrees
    <3>1. CASE post[q].group # m.group
      <4>1. e \in AllFields \ {f}
        BY <1>1, <1>4, <3>1, Sections DEF IsPost
      <4> QED BY <1>3, <1>4, <3>0, <4>1
    <3>2. CASE post[q].group = m.group
      <4>1. rows' = rows
        BY <1>4, <3>2
      <4> QED BY <1>4, <3>0, <4>1
    <3> QED BY <3>1, <3>2
  <2> QED BY <1>5, <2>1, <2>2
<1>11. \A q \in Posts : Agrees(post[q], rows)'
  BY <1>10 DEF Agrees
<1> QED BY <1>6, <1>9, <1>11, FreeInv DEF SettingsInv

LEMMA SaveInv ==
  ASSUME SettingsInv, Free, UNCHANGED <<before, file>>, NEW p \in Posts, Save(p)
  PROVE  SettingsInv'
<1> DEFINE f == Section[post[p].group][post[p].at]
<1>1. IsPost(post[p])
  BY DEF SettingsInv, PostsTyped
<1>2. /\ post[p].pc = "save" /\ UNCHANGED <<cache, unread>>
      /\ f \in Fields(post[p].group)
  BY <1>1, Sections DEF Save, IsPost
<1>3. CASE post[p].form[f] = Blank
  BY <1>2, <1>3, SkipInv DEF Save, Set
<1>4. CASE post[p].form[f] # Blank
  <2> DEFINE m == [post[p] EXCEPT !.at = @ + 1,
                                  !.pc = IF post[p].group = "plugin" THEN "load" ELSE "save"]
  <2>1. rows' = [rows EXCEPT ![f] = post[p].form[f]]
    BY <1>4 DEF Save
  <2>2. post' = [q \in Posts |->
                    IF q = p THEN m
                    ELSE [post[q] EXCEPT !.stale =
                            @ \/ (post[q].group = post[p].group /\ post[q].pc \in {"page", "save", "load"}
                                  /\ rows' # rows)]]
    BY <1>4 DEF Save, SetAndStale
  <2>3. /\ DOMAIN m = DOMAIN post[p] /\ m.at = post[p].at + 1
        /\ m.pc = (IF post[p].group = "plugin" THEN "load" ELSE "save")
        /\ m.group = post[p].group /\ m.form = post[p].form /\ m.edited = post[p].edited
        /\ m.stale = post[p].stale
    BY <1>1 DEF IsPost
  <2> HIDE DEF m, f
  <2>4. post' = [q \in Posts |->
                    IF q = p THEN m
                    ELSE [post[q] EXCEPT !.stale =
                            @ \/ (post[q].group = m.group /\ post[q].pc \in {"page", "save", "load"}
                                  /\ rows' # rows)]]
    BY <2>2, <2>3
  <2> QED BY <1>2, <2>1, <2>3, <2>4, WriteInv
<1> QED BY <1>3, <1>4

\* The copy after Reload: what is not in effect is that of another group.
LEMMA ReloadLoads ==
  ASSUME NEW gs \in SUBSET Groups, Reload(gs), UNCHANGED rows,
         Loaded(rows, cache, unread), \A f \in AllFields : cache[f] # Unset,
         \A q \in Posts, h \in Groups \ gs : WillLoad(q, h) => WillLoad(q, h)'
  PROVE  Loaded(rows, cache, unread)' /\ \A f \in AllFields : cache'[f] # Unset
<1>1. unread' = unread \ gs
  BY DEF Reload
<1>2. ASSUME NEW g \in gs, NEW f \in Fields(g)
      PROVE  cache'[f] = Effective(rows)[f]
  BY <1>2, Sections DEF Reload
<1>3. ASSUME NEW g \in Groups \ gs, NEW f \in Fields(g)
      PROVE  cache'[f] = cache[f]
  BY <1>3, Sections DEF Reload
<1>4. \A f \in AllFields : cache'[f] # Unset
  BY EffectiveSet DEF Reload
<1>5. ASSUME NEW g \in Groups \ unread'
      PROVE  /\ (\E q \in Posts : WillLoad(q, g)') \/ \A f \in Fields(g) : cache'[f] = Effective(rows)[f]
             /\ \A f \in Fields(g) : rows[f] = Unset => cache'[f] = Default
  <2>1. CASE g \in gs
    BY <1>2, <2>1, InEffect, Sections
  <2>2. CASE g \notin gs
    <3>1. g \in Groups \ gs /\ g \notin unread
      BY <1>1, <1>5, <2>2
    <3>2. (\E q \in Posts : WillLoad(q, g)) \/ \A f \in Fields(g) : cache[f] = Effective(rows)[f]
      BY <3>1 DEF Loaded
    <3>3. \A f \in Fields(g) : rows[f] = Unset => cache[f] = Default
      BY <3>1 DEF Loaded
    <3> QED BY <1>3, <3>1, <3>2, <3>3
  <2> QED BY <2>1, <2>2
<1> QED BY <1>4, <1>5 DEF Loaded

LEMMA LoadInv ==
  ASSUME SettingsInv, Free, UNCHANGED <<before, file>>, NEW p \in Posts, Load(p)
  PROVE  SettingsInv'
<1> DEFINE g == post[p].group
           m == IF post[p].at > Len(Section[g]) THEN NoPost ELSE [post[p] EXCEPT !.pc = "save"]
<1>1. IsPost(post[p]) /\ Agrees(post[p], rows)
  BY DEF SettingsInv, PostsTyped, Settled, Free
<1>2. post' = [post EXCEPT ![p] = m] /\ UNCHANGED rows /\ Reload({g}) /\ post[p].pc \in {"save", "load"}
  BY DEF Load, Set
<1>3. IsPost(m) /\ Agrees(m, rows)
  <2>1. CASE m = NoPost
    BY <2>1, NoPostIsPost DEF Agrees
  <2>2. CASE m = [post[p] EXCEPT !.pc = "save"]
    <3>1. /\ DOMAIN m = DOMAIN post[p] /\ m.pc = "save" /\ m.edited = post[p].edited
          /\ m.group = post[p].group /\ m.at = post[p].at /\ m.stale = post[p].stale
          /\ m.form = post[p].form
      BY <1>1, <2>2 DEF IsPost
    <3> HIDE DEF m
    <3> QED BY <1>1, <1>2, <3>1 DEF IsPost, Agrees
  <2> QED BY <2>1, <2>2
<1> HIDE DEF m
<1>4. PostsTyped' /\ \A q \in Posts : Agrees(post'[q], rows)
  BY <1>2, <1>3 DEF SettingsInv, PostsTyped, Settled, Free
<1>5. \A q \in Posts, h \in Groups \ {g} : WillLoad(q, h) => WillLoad(q, h)'
  BY <1>2 DEF WillLoad, SettingsInv, PostsTyped
<1>6. g \in Groups
  BY <1>1 DEF IsPost
<1>7. Loaded(rows, cache, unread)' /\ \A f \in AllFields : cache'[f] # Unset
  BY <1>2, <1>5, <1>6, ReloadLoads DEF SettingsInv
<1>8. \A q \in Posts : Agrees(post[q], rows)'
  BY <1>2, <1>4 DEF Agrees
<1> QED BY <1>4, <1>7, <1>8, FreeInv

\* A post that ends without having to reload anything.
LEMMA EndInv ==
  ASSUME SettingsInv, Free, UNCHANGED <<before, file, rows, cache, unread>>, NEW p \in Posts,
         ~WillLoad(p, "core"), ~WillLoad(p, "plugin"), post' = [post EXCEPT ![p] = NoPost]
  PROVE  SettingsInv'
<1>1. PostsTyped' /\ \A q \in Posts : Agrees(post'[q], rows)
  BY NoPostIsPost DEF SettingsInv, PostsTyped, Settled, Free, Agrees
<1>2. \A q \in Posts, h \in Groups : WillLoad(q, h) => WillLoad(q, h)'
  BY DEF SettingsInv, PostsTyped, WillLoad, Groups
<1> QED BY <1>1, <1>2, PostInv

LEMMA EndPluginInv ==
  ASSUME SettingsInv, Free, UNCHANGED <<before, file>>, NEW p \in Posts, EndPlugin(p)
  PROVE  SettingsInv'
  BY EndInv DEF EndPlugin, Set, WillLoad

LEMMA ReadColoursInv ==
  ASSUME SettingsInv, Free, UNCHANGED <<before, file>>, NEW p \in Posts, ReadColours(p)
  PROVE  SettingsInv'
<1>1. PICK c \in Colours, to \in {"add", "remove"} :
        post' = [post EXCEPT ![p] = [NoPost EXCEPT !.pc = to, !.edited = c, !.copy = palette]]
  BY DEF ReadColours, Set
<1> DEFINE m == [NoPost EXCEPT !.pc = to, !.edited = c, !.copy = palette]
<1>2. IsPost(m) /\ m.pc = to
  BY ConfigAssumption DEF IsPost, NoPost, Groups
<1>3. post' = [post EXCEPT ![p] = m]
  BY <1>1
<1> HIDE DEF m
<1>4. PostsTyped' /\ \A q \in Posts : Agrees(post'[q], rows)
  BY <1>2, <1>3 DEF SettingsInv, PostsTyped, Settled, Free, Agrees
<1>5. \A q \in Posts, h \in Groups : WillLoad(q, h) => WillLoad(q, h)'
  BY <1>3 DEF ReadColours, SettingsInv, PostsTyped, WillLoad
<1> QED BY <1>4, <1>5, PostInv DEF ReadColours

LEMMA SaveColoursInv ==
  ASSUME SettingsInv, Free, UNCHANGED <<before, file>>, NEW p \in Posts, SaveColours(p)
  PROVE  SettingsInv'
<1>1. post' = [q \in Posts |->
                 IF q = p THEN NoPost
                 ELSE [post[q] EXCEPT !.stale =
                         @ \/ (post[q].pc \in {"add", "remove"} /\ palette' # palette)]]
      /\ post[p].pc \in {"add", "remove"} /\ UNCHANGED <<rows, cache, unread>>
  BY DEF SaveColours, SetAndStale
<1>2. ASSUME NEW q \in Posts \ {p}
      PROVE  /\ IsPost(post[q]) /\ Agrees(post[q], rows) /\ DOMAIN post'[q] = DOMAIN post[q]
             /\ post'[q].pc = post[q].pc /\ post'[q].group = post[q].group
             /\ post'[q].form = post[q].form /\ post'[q].at = post[q].at
             /\ post'[q].edited = post[q].edited /\ (~post'[q].stale => ~post[q].stale)
  BY <1>1 DEF SettingsInv, PostsTyped, IsPost, Settled, Free
<1>3. \A q \in Posts : IsPost(post'[q]) /\ Agrees(post'[q], rows)
  <2>1. post'[p] = NoPost
    BY <1>1
  <2>2. ASSUME NEW q \in Posts \ {p}
        PROVE  IsPost(post'[q]) /\ Agrees(post'[q], rows)
    BY <1>2 DEF IsPost, Agrees
  <2> QED BY <2>1, <2>2, NoPostIsPost DEF Agrees
<1>4. \A q \in Posts, h \in Groups : WillLoad(q, h) => WillLoad(q, h)'
  BY <1>1, <1>2 DEF WillLoad
<1> QED BY <1>1, <1>3, <1>4, PostInv DEF PostsTyped

LEMMA PostStepInv ==
  ASSUME SettingsInv, Free, UNCHANGED <<before, file>>, NEW p \in Posts, PostStep(p)
  PROVE  SettingsInv'
  BY OpenInv, SubmitInv, SaveInv, LoadInv, EndPluginInv, ReadColoursInv, SaveColoursInv DEF PostStep

\* What a restart leaves of the posts.
LEMMA RestartPosts ==
  ASSUME SettingsInv, post' = [p \in Posts |-> IF post[p].pc = "page" THEN post[p] ELSE NoPost]
  PROVE  PostsTyped' /\ \A p \in Posts : Agrees(post'[p], Settled)
  BY NoPostIsPost DEF SettingsInv, PostsTyped, Agrees

-----------------------------------------------------------------------------
(* Export, import and restart. *)

\* Steps that have nothing to do with the settings.
LEMMA ElseInv ==
  ASSUME SettingsInv, UNCHANGED <<before, file, rows, cache, unread, post>>
  PROVE  SettingsInv'
<1>1. \A p \in Posts : Agrees(post[p], Settled)'
  BY DEF SettingsInv, Settled, Agrees
<1>2. \A p \in Posts, g \in Groups : WillLoad(p, g)' = WillLoad(p, g)
  BY DEF WillLoad
<1>3. Loaded(rows, cache, unread)'
  BY <1>2 DEF SettingsInv, Loaded
<1>4. before' # <<>> => unread' = Groups /\ Loaded(before.data.rows, cache, before.unread)'
  BY <1>2 DEF SettingsInv, Loaded
<1>5. PostsTyped'
  BY DEF SettingsInv, PostsTyped
<1> QED BY <1>1, <1>3, <1>4, <1>5 DEF SettingsInv

LEMMA ExportInv ==
  ASSUME SettingsInv, ExportBegin \/ ExportPart
  PROVE  SettingsInv'
<1>1. CASE ExportBegin
  BY <1>1, ElseInv DEF ExportBegin, configVars
<1>2. CASE ExportPart
  <2>1. Free /\ UNCHANGED <<before, rows, cache, unread, post>>
    BY <1>2 DEF ExportPart, configVars
  <2>2. "config" \in DOMAIN file' => DOMAIN file'["config"].rows = AllFields
    <3>1. Listed("config") = [rows |-> rows, palette |-> palette]
      BY DEF Listed, Tables, Links, Ends
    <3>2. DOMAIN Listed("config").rows = AllFields
      BY <3>1 DEF SettingsInv, Loaded
    <3>3. file' = [p \in DOMAIN file \cup {Head(toRead)} |->
                     IF p = Head(toRead) THEN Listed(p) ELSE file[p]]
      BY <1>2 DEF ExportPart
    <3>4. SUFFICES ASSUME "config" \in DOMAIN file'
                   PROVE  DOMAIN file'["config"].rows = AllFields
      OBVIOUS
    <3>5. CASE Head(toRead) = "config"
      BY <3>2, <3>3, <3>4, <3>5
    <3>6. CASE Head(toRead) # "config"
      <4>1. "config" \in DOMAIN file /\ file'["config"] = file["config"]
        BY <3>3, <3>4, <3>6
      <4> QED BY <4>1 DEF SettingsInv
    <3> QED BY <3>5, <3>6
  <2>3. Loaded(rows, cache, unread)'
    BY <2>1 DEF SettingsInv, Loaded, WillLoad
  <2>4. \A p \in Posts : Agrees(post[p], Settled)'
    BY <2>1 DEF SettingsInv, Settled, Agrees
  <2> QED BY <2>1, <2>2, <2>3, <2>4 DEF SettingsInv, PostsTyped, Free
<1> QED BY <1>1, <1>2

LEMMA ImportInv ==
  ASSUME IInv, SettingsInv, ImportStep
  PROVE  SettingsInv'
<1>1. CASE ImportBegin
  <2>1. /\ before' = [data |-> Everything, unread |-> unread] /\ Free
        /\ UNCHANGED <<cache, post, file>> /\ unread' = Groups
        /\ rows' = [f \in AllFields |-> Unset]
    BY <1>1 DEF ImportBegin
  <2>2. before' # <<>> /\ before'.data.rows = rows /\ before'.unread = unread
    <3>1. DOMAIN before' = {"data", "unread"}
      BY <2>1
    <3> QED BY <2>1, <3>1 DEF Everything
  <2>3. Loaded(rows, cache, unread)'
    BY <2>1 DEF Loaded
  <2>4. Loaded(before.data.rows, cache, before.unread)'
    BY <2>1, <2>2 DEF SettingsInv, Loaded, WillLoad
  <2>5. \A p \in Posts : Agrees(post[p], Settled)'
    <3>1. Settled = rows /\ Settled' = rows
      BY <2>1, <2>2 DEF Settled, Free
    <3>2. \A p \in Posts : Agrees(post[p], rows) /\ post'[p] = post[p]
      BY <2>1, <3>1 DEF SettingsInv
    <3> QED BY <3>1, <3>2 DEF Agrees
  <2> QED BY <2>1, <2>3, <2>4, <2>5 DEF SettingsInv, PostsTyped
<1>2. CASE RestoreConfig
  <2>1. /\ rows' = file["config"].rows /\ UNCHANGED <<cache, unread, post, file, before>>
        /\ before # <<>>
    BY <1>2 DEF RestoreConfig, Restoring
  <2>2. DOMAIN rows' = AllFields
    BY <2>1 DEF IInv, SettingsInv, PartNames
  <2>3. unread' = Groups /\ Loaded(rows, cache, unread)'
    BY <2>1, <2>2 DEF SettingsInv, Loaded
  <2>4. Loaded(before.data.rows, cache, before.unread)'
    BY <2>1 DEF SettingsInv, Loaded, WillLoad
  <2>5. \A p \in Posts : Agrees(post[p], Settled)'
    BY <2>1 DEF SettingsInv, Settled, Agrees
  <2> QED BY <2>1, <2>3, <2>4, <2>5 DEF SettingsInv, PostsTyped
<1>3. CASE Commit
  <2>1. /\ before # <<>> /\ before' = <<>> /\ file' = <<>> /\ UNCHANGED <<rows, cache, unread>>
        /\ post' = [p \in Posts |-> [post[p] EXCEPT !.stale = (@ \/ post[p].pc # "idle")]]
    BY <1>3 DEF Commit
  <2>2. ASSUME NEW p \in Posts
        PROVE  IsPost(post'[p]) /\ Agrees(post'[p], Settled')
    <3>1. IsPost(post[p])
      BY DEF SettingsInv, PostsTyped
    <3>2. /\ DOMAIN post'[p] = DOMAIN post[p] /\ post'[p].group = post[p].group
          /\ post'[p].at = post[p].at /\ post'[p].form = post[p].form
          /\ post'[p].pc = post[p].pc /\ (~post'[p].stale => post[p].pc = "idle")
      BY <2>1, <3>1 DEF IsPost
    <3> QED BY <3>1, <3>2 DEF IsPost, Agrees
  <2>3. PostsTyped'
    BY <2>1, <2>2 DEF PostsTyped
  <2>4. \A p \in Posts : Agrees(post[p], Settled)'
    BY <2>2
  <2>5. Loaded(rows, cache, unread)'
    BY <2>1 DEF SettingsInv, Loaded
  <2> QED BY <2>1, <2>3, <2>4, <2>5 DEF SettingsInv
<1>4. CASE ImportFails
  <2>1. /\ before # <<>>
    BY <1>4 DEF ImportFails, Restoring
  <2>2. /\ before' = <<>> /\ rows' = before.data.rows /\ unread' = before.unread
        /\ UNCHANGED <<cache, post, file>>
    BY <1>4 DEF ImportFails, Rollback
  <2>3. Loaded(rows, cache, unread)'
    BY <2>1, <2>2 DEF SettingsInv, Loaded, WillLoad
  <2>4. \A p \in Posts : Agrees(post[p], Settled)'
    BY <2>1, <2>2 DEF SettingsInv, Settled, Agrees
  <2> QED BY <2>2, <2>3, <2>4 DEF SettingsInv, PostsTyped
<1>5. CASE (\E t \in Tables : RestoreTable(t)) \/ (\E l \in Links : RestoreLinks(l))
  BY <1>5, ElseInv DEF RestoreTable, RestoreLinks, configVars
<1> QED BY <1>1, <1>2, <1>3, <1>4, <1>5 DEF ImportStep

LEMMA RestartInv ==
  ASSUME SettingsInv, Restart
  PROVE  SettingsInv'
<1>1. post' = [p \in Posts |-> IF post[p].pc = "page" THEN post[p] ELSE NoPost]
  BY DEF Restart, RestartConfig
<1>2. PostsTyped' /\ \A p \in Posts : Agrees(post'[p], Settled)
  BY <1>1, RestartPosts
<1>3. "config" \in DOMAIN file' => DOMAIN file'["config"].rows = AllFields
  BY DEF Restart, SettingsInv
<1>4. before' = <<>> /\ rows' = Settled /\ cache' = Effective(rows')
  <2>1. CASE Free
    <3>1. before' = <<>> /\ UNCHANGED rows /\ Reload(Groups)
      BY <2>1 DEF Restart, RestartConfig, Free
    <3>2. \A f \in AllFields : \E g \in Groups : f \in Fields(g)
      BY DEF AllFields
    <3>3. cache' = Effective(rows)
      BY <3>1, <3>2 DEF Reload, Effective
    <3> QED BY <2>1, <3>1, <3>3 DEF Settled, Free
  <2>2. CASE ~Free
    BY <2>2 DEF Restart, Rollback, Settled, Free
  <2> QED BY <2>1, <2>2
<1>5. DOMAIN rows' = AllFields
  BY <1>4 DEF SettingsInv, Settled, Loaded
<1>6. Loaded(rows, cache, unread)' /\ \A f \in AllFields : cache'[f] # Unset
  <2>1. \A g \in Groups : \A f \in Fields(g) :
          f \in AllFields /\ cache'[f] = Effective(rows')[f]
          /\ (rows'[f] = Unset => cache'[f] = Default)
    BY <1>4, InEffect, Sections
  <2>2. \A f \in AllFields : cache'[f] # Unset
    BY <1>4, EffectiveSet
  <2> QED BY <1>5, <2>1, <2>2 DEF Loaded
<1>7. \A p \in Posts : Agrees(post[p], Settled)'
  <2>1. Settled' = Settled
    BY <1>4 DEF Settled
  <2> QED BY <1>2, <2>1 DEF Agrees
<1> QED BY <1>2, <1>3, <1>4, <1>6, <1>7 DEF SettingsInv

LEMMA NextInv == IInv /\ SettingsInv /\ [Next]_vars => SettingsInv'
<1> SUFFICES ASSUME IInv, SettingsInv, [Next]_vars
             PROVE  SettingsInv'
  OBVIOUS
<1>1. CASE SettingsStep
  BY <1>1, PostStepInv DEF SettingsStep
<1>2. CASE FormStep
  <2>1. UNCHANGED <<before, file, rows, cache, unread, post>>
    BY <1>2 DEF FormStep, Create, Rename, Remove, Relink, Change
  <2> QED BY <2>1, ElseInv
<1>3. CASE RunStep
  BY <1>3, ElseInv DEF RunStep, Issue, Start, ReadCamera, WriteCamera, LogCamera,
                       configVars, backupVars
<1>4. CASE UNCHANGED vars
  BY <1>4, ElseInv DEF vars, configVars, backupVars
<1> QED BY <1>1, <1>2, <1>3, <1>4, ExportInv, ImportInv, RestartInv DEF Next

\* The inductive invariant: what the copy, the rows and the open pages know of each other.
THEOREM Settings == Spec => []SettingsInv
  BY InitInv, NextInv, Invariance, PTL DEF Spec

\* A saved value is in effect, or a post is about to reload its group, or an import came
\* since: however posts, restarts and imports interleave.
THEOREM SavedIsLive == Spec => []SettingsInEffect
<1>1. SettingsInv => SettingsInEffect
  BY DEF SettingsInv, Loaded, SettingsInEffect
<1> QED BY Settings, <1>1, PTL

\* A post that was not made stale changes what is in effect for the edited field only.
LEMMA SaveChanges ==
  ASSUME SettingsInv, Free, NEW p \in Posts, Save(p), ~post[p].stale
  PROVE  \A f \in AllFields \ {post[p].edited} : Effective(rows')[f] = Effective(rows)[f]
<1> DEFINE e == Section[post[p].group][post[p].at]
<1>1. IsPost(post[p]) /\ Agrees(post[p], rows)
  BY DEF SettingsInv, PostsTyped, Settled, Free
<1>2. post[p].pc = "save" /\ e \in Fields(post[p].group) /\ e \in AllFields
  BY <1>1, Sections DEF Save, IsPost
<1>3. rows' = IF post[p].form[e] = Blank THEN rows ELSE [rows EXCEPT ![e] = post[p].form[e]]
  BY DEF Save
<1>4. DOMAIN rows = AllFields /\ post[p].form[e] # Unset
  BY <1>1, <1>2 DEF SettingsInv, Loaded, IsPost
<1>5. post[p].form[e] \in {Blank, Effective(rows)[e]} \/ e = post[p].edited
  BY <1>1, <1>2 DEF Agrees
<1> HIDE DEF e
<1> SUFFICES ASSUME NEW f \in AllFields, f # post[p].edited
             PROVE  Effective(rows')[f] = Effective(rows)[f]
  OBVIOUS
<1>6. CASE f # e \/ post[p].form[e] = Blank
  <2>1. rows'[f] = rows[f]
    BY <1>2, <1>3, <1>4, <1>6
  <2> QED BY <2>1 DEF Effective
<1>7. CASE f = e /\ post[p].form[e] # Blank
  <2>1. rows'[f] = Effective(rows)[f] /\ rows'[f] # Unset
    BY <1>2, <1>3, <1>4, <1>5, <1>7
  <2> QED BY <2>1 DEF Effective
<1> QED BY <1>6, <1>7

\* Nobody saves while an import has the database.
LEMMA NoSave ==
  ASSUME SettingsInv, [Next]_vars, ~Free, NEW p \in Posts, Save(p)
  PROVE  FALSE
<1>1. IsPost(post[p]) /\ p \in DOMAIN post
  BY DEF SettingsInv, PostsTyped
<1>2. post'[p].at = post[p].at + 1
  <2> DEFINE f == Section[post[p].group][post[p].at]
  <2>1. CASE post[p].form[f] = Blank
    BY <1>1, <2>1 DEF Save, Set, IsPost
  <2>2. CASE post[p].form[f] # Blank
    BY <1>1, <2>2 DEF Save, SetAndStale, IsPost
  <2> QED BY <2>1, <2>2
<1>3. post'[p].at \in {post[p].at, 1}
  <2>1. CASE Restart
    BY <1>1, <2>1 DEF Restart, RestartConfig, NoPost
  <2>2. CASE Commit
    <3>1. post' = [q \in Posts |-> [post[q] EXCEPT !.stale = (@ \/ post[q].pc # "idle")]]
      BY <2>2 DEF Commit
    <3> QED BY <1>1, <3>1 DEF IsPost
  <2>3. CASE ImportStep /\ ~Commit
    BY <2>3 DEF ImportStep, ImportBegin, RestoreConfig, ImportFails, RestoreTable, RestoreLinks,
                configVars
  <2>4. CASE RunStep
    BY <2>4 DEF RunStep, Issue, Start, ReadCamera, WriteCamera, LogCamera, configVars
  <2>5. CASE UNCHANGED vars
    BY <2>5 DEF vars, configVars
  <2>6. ~SettingsStep /\ ~FormStep /\ ~ExportBegin /\ ~ExportPart
    BY DEF SettingsStep, FormStep, ExportBegin, ExportPart, Relink, Create, Rename, Remove, Change
  <2> QED BY <2>1, <2>2, <2>3, <2>4, <2>5, <2>6 DEF Next
<1> QED BY <1>1, <1>2, <1>3 DEF IsPost

\* A post changes what is in effect for the field its user changed and for no other, unless
\* the group was written or imported since its page was opened.
THEOREM OnlyEdited == Spec => OnlyEditedChange
<1>1. SettingsInv /\ [Next]_vars =>
        [\A p \in Posts : Save(p) /\ ~post[p].stale =>
           \A f \in AllFields \ {post[p].edited} : Effective(rows')[f] = Effective(rows)[f]]_configVars
  BY SaveChanges, NoSave
<1> QED BY <1>1, Settings, PTL DEF Spec, OnlyEditedChange

-----------------------------------------------------------------------------
(***************************************************************************)
(* A backup brings back what was there, and an import does so whole or not *)
(* at all, for any tables, links, forms and settings: the action           *)
(* properties BackupIsWhole and ImportIsAtomic.                            *)
(*                                                                         *)
(* The argument: what nobody touched during the export is in the file as   *)
(* it was when the export began (Copied); an import goes through the parts *)
(* in their order, and a part that it has passed is the file's, with other *)
(* ids (Restored), so that the names of a later part's links are found.    *)
(***************************************************************************)

\* Tables d, which gave the ids up to l.
Sound(d, l) ==
  /\ Schema(d) /\ DOMAIN l = Tables
  /\ \A t \in Tables : l[t] \in Nat /\ \A r \in d[t] : r.id <= l[t]

Tidy ==
  /\ Sound(db, last)
  /\ before # <<>> => Sound(before.data.db, before.data.last)

Listing(l, x) == [at |-> x, label |-> Label(origin.db, l, x)]

\* The rows of a table, in which only what was touched differs from the table the export
\* began with.
SteadyRows(t, S) == \A r \in (S \ origin.db[t]) \cup (origin.db[t] \ S) : <<t, r.id>> \in touched

SteadyLinks(l, S) == \A x \in (S \ origin.db[l]) \cup (origin.db[l] \ S) : <<l, x>> \in touched

SteadyConfig(r, c) == <<"config", 0>> \notin touched => r = origin.rows /\ c = origin.palette

FileTable(t) == Table(t, file[t]) /\ SteadyRows(t, file[t])

FileLinks(l) ==
  /\ IsFiniteSet(file[l])
  /\ \A y \in file[l] : DOMAIN y.label = DOMAIN Ends[l]
  /\ \A x \in Steady(l) : Listing(l, x) \in file[l]
  /\ touched = {} => \A y \in file[l] : \E x \in origin.db[l] : y = Listing(l, x)

Copied ==
  /\ origin = <<>> => touched = {} /\ toRead = <<>> /\ file = <<>>
  /\ origin # <<>> => Schema(origin.db)
  /\ Exporting => /\ \A t \in Tables : SteadyRows(t, db[t])
                  /\ \A l \in Links : SteadyLinks(l, db[l])
                  /\ SteadyConfig(rows, palette)
  /\ \A t \in Tables \cap DOMAIN file : FileTable(t)
  /\ \A l \in Links \cap DOMAIN file : FileLinks(l)
  /\ "config" \in DOMAIN file => SteadyConfig(file["config"].rows, file["config"].palette)

\* A part of the file is in the tables again.
BroughtRows(t) ==
  \E f \in Bijection(file[t], db[t]) : \A r \in file[t] : f[r].name = r.name /\ f[r].data = r.data

BroughtLinks(l) == ~Fails(l) /\ db[l] = {Resolved(l, y) : y \in ToLink(l)}

Brought(p) == (p \in Tables => BroughtRows(p)) /\ (p \in Links => BroughtLinks(p))

Rest(k) == SubSeq(Parts, k, 8)

\* An import that has come to part k.
Restored(k) ==
  /\ toRestore = Rest(k)
  /\ \A i \in 1..7 : IF i < k THEN Brought(Parts[i]) ELSE db[Parts[i]] = {}
  /\ k = 9 => rows = file["config"].rows /\ palette = file["config"].palette

Importing ==
  before # <<>> =>
    /\ \E k \in 1..9 : Restored(k)
    /\ \E d, l, r, c : before.data = [db |-> d, last |-> l, rows |-> r, palette |-> c]

BackupInv == Tidy /\ Copied /\ Importing

-----------------------------------------------------------------------------
(* The schema. *)

LEMMA Parted == Tables \cap Links = {} /\ "command" \notin Tables \cup Links
  BY EndsAre DEF Tables

\* A link is a tuple.
LEMMA Tuples ==
  /\ \A a, b \in Nat : LET x == <<a, b>> IN x \in [1..2 -> Nat] /\ x[1] = a /\ x[2] = b
  /\ \A a, b, c \in Nat : LET x == <<a, b, c>> IN x \in [1..3 -> Nat] /\ x[1] = a /\ x[2] = b /\ x[3] = c
  OBVIOUS

EndFound(d, l, k, i) == Has(d, Ends[l][k], i) \/ <<l, k, i>> = <<"assigned", 2, 0>>

LinksOf(d, l) ==
  /\ IsFiniteSet(d[l]) /\ d[l] \subseteq [DOMAIN Ends[l] -> Nat]
  /\ \A x \in d[l] : \A k \in DOMAIN Ends[l] : EndFound(d, l, k, x[k])

OneRule(d) == \A x, y \in d["rule"] : x[1] = y[1] /\ x[2] = y[2] => x = y

LEMMA SchemaIs ==
  ASSUME NEW d
  PROVE  Schema(d) <=> /\ DOMAIN d = Tables \cup Links \cup {"command"}
                       /\ \A t \in Tables : Table(t, d[t])
                       /\ \A l \in Links : LinksOf(d, l)
                       /\ OneRule(d)
  BY DEF Schema, LinksOf, EndFound, OneRule

\* Tables e are d but for table t, whose rows are still there for the links to them.
LEMMA SchemaRows ==
  ASSUME NEW d, Schema(d), NEW t \in Tables, NEW e, DOMAIN e = DOMAIN d, Table(t, e[t]),
         \A p \in (Tables \cup Links) \ {t} : e[p] = d[p],
         \A l \in Links : \A x \in d[l] : \A k \in DOMAIN Ends[l] :
           Ends[l][k] = t /\ Has(d, t, x[k]) => Has(e, t, x[k])
  PROVE  Schema(e)
<1>1. \A s \in Tables : Table(s, e[s])
  BY SchemaIs
<1>2. ASSUME NEW l \in Links
      PROVE  LinksOf(e, l)
  <2>1. e[l] = d[l] /\ LinksOf(d, l)
    BY SchemaIs, Parted
  <2>2. ASSUME NEW k \in DOMAIN Ends[l]
        PROVE  Ends[l][k] \in Tables
    BY EndsAre DEF Tables
  <2>3. ASSUME NEW x \in e[l], NEW k \in DOMAIN Ends[l]
        PROVE  EndFound(e, l, k, x[k])
    <3>1. EndFound(d, l, k, x[k])
      BY <2>1 DEF LinksOf
    <3>2. CASE Ends[l][k] = t
      BY <2>1, <3>1, <3>2 DEF EndFound
    <3>3. CASE Ends[l][k] # t
      BY <2>1, <2>2, <3>1, <3>3 DEF EndFound, Has
    <3> QED BY <3>2, <3>3
  <2> QED BY <2>1, <2>3 DEF LinksOf
<1>3. OneRule(e)
  <2>1. e["rule"] = d["rule"]
    BY EndsAre, Parted
  <2> QED BY <2>1, SchemaIs DEF OneRule
<1> QED BY <1>1, <1>2, <1>3, SchemaIs

\* Tables e are d but for the links l.
LEMMA SchemaLinks ==
  ASSUME NEW d, Schema(d), NEW l \in Links, NEW e, DOMAIN e = DOMAIN d,
         \A p \in (Tables \cup Links) \ {l} : e[p] = d[p],
         IsFiniteSet(e[l]), e[l] \subseteq [DOMAIN Ends[l] -> Nat],
         \A x \in e[l] : \A k \in DOMAIN Ends[l] : EndFound(d, l, k, x[k]),
         l = "rule" => OneRule(e)
  PROVE  Schema(e)
<1>1. \A t \in Tables : e[t] = d[t]
  BY Parted
<1>2. \A t \in Tables : Table(t, e[t])
  BY <1>1, SchemaIs
<1>3. ASSUME NEW m \in Links, NEW k \in DOMAIN Ends[m], NEW i
      PROVE  EndFound(e, m, k, i) <=> EndFound(d, m, k, i)
  <2>1. Ends[m][k] \in Tables
    BY EndsAre DEF Tables
  <2> QED BY <1>1, <2>1 DEF EndFound, Has
<1>4. ASSUME NEW m \in Links
      PROVE  LinksOf(e, m)
  <2>1. CASE m = l
    BY <1>3, <2>1 DEF LinksOf
  <2>2. CASE m # l
    BY <1>3, <2>2, SchemaIs DEF LinksOf
  <2> QED BY <2>1, <2>2
<1>5. OneRule(e)
  <2>1. l # "rule" => e["rule"] = d["rule"] /\ OneRule(d)
    BY EndsAre, SchemaIs
  <2> QED BY <2>1 DEF OneRule
<1> QED BY <1>2, <1>4, <1>5, SchemaIs

\* Another row, with the next id.
LEMMA SoundCreate ==
  ASSUME Sound(db, last), NEW t \in Tables, Create(t)
  PROVE  Sound(db, last)'
<1>1. PICK in \in Inputs[t] :
        /\ NameFree(t, in.name, 0)
        /\ last' = [last EXCEPT ![t] = NextId(t)]
        /\ db' = [db EXCEPT ![t] = @ \cup {[id |-> NextId(t), name |-> in.name, data |-> in.data]}]
  BY DEF Create, Change
<1> DEFINE new == [id |-> NextId(t), name |-> in.name, data |-> in.data]
<1>2. /\ Table(t, db[t]) /\ last[t] \in Nat /\ \A r \in db[t] : r.id <= last[t]
      /\ t \in DOMAIN db /\ Schema(db) /\ DOMAIN last = Tables
  BY SchemaIs DEF Sound
<1>3. /\ DOMAIN new = {"id", "name", "data"} /\ new.id = last[t] + 1
      /\ new.name = in.name /\ in.name # "none"
  BY BackupAssumption DEF NextId
<1>4. t # "button" => \A r \in db[t] : r.name # new.name
  <2> SUFFICES ASSUME t # "button", NEW r \in db[t], r.name = new.name PROVE FALSE
    OBVIOUS
  <2>1. r.id = 0
    BY <1>1, <1>3 DEF NameFree, Called
  <2> QED BY <1>2, <2>1 DEF Table
<1>5. /\ DOMAIN db' = DOMAIN db /\ db'[t] = db[t] \cup {new}
      /\ \A p \in (Tables \cup Links) \ {t} : db'[p] = db[p]
  BY <1>1, <1>2 DEF Schema
<1> HIDE DEF new
<1>6. Table(t, db'[t])
  <2>1. IsFiniteSet(db'[t])
    BY <1>2, <1>5, FS_AddElement DEF Table
  <2>2. ASSUME NEW r \in db[t]
        PROVE  r.id \in Nat /\ r.id # new.id
    BY <1>2, <1>3 DEF Table
  <2>3. new.id \in Nat \ {0}
    BY <1>2, <1>3
  <2> QED BY <1>2, <1>3, <1>4, <1>5, <2>1, <2>2, <2>3 DEF Table
<1>7. Schema(db')
  <2>1. \A i : Has(db, t, i) => Has(db', t, i)
    BY <1>5 DEF Has
  <2> QED BY <1>2, <1>5, <1>6, <2>1, SchemaRows
<1>8. DOMAIN last' = Tables /\ last'[t] = last[t] + 1 /\ \A s \in Tables \ {t} : last'[s] = last[s]
  BY <1>1, <1>2 DEF NextId
<1>9. ASSUME NEW s \in Tables
      PROVE  last'[s] \in Nat /\ \A r \in db'[s] : r.id <= last'[s]
  <2>1. CASE s = t
    <3>1. \A r \in db[t] : r.id \in Nat
      BY <1>2 DEF Table
    <3> QED BY <1>2, <1>3, <1>5, <1>8, <2>1, <3>1
  <2>2. CASE s # t
    BY <1>5, <1>8, <2>2 DEF Sound
  <2> QED BY <2>1, <2>2
<1> QED BY <1>7, <1>8, <1>9 DEF Sound

\* A row under another name.
LEMMA SoundRename ==
  ASSUME Sound(db, last), NEW t \in Tables, Rename(t)
  PROVE  Sound(db, last)'
<1>1. PICK r \in db[t], in \in Inputs[t] :
        /\ NameFree(t, in.name, r.id)
        /\ db' = [db EXCEPT ![t] = (@ \ {r}) \cup {[r EXCEPT !.name = in.name]}]
        /\ last' = last
  BY DEF Rename, Change
<1> DEFINE new == [r EXCEPT !.name = in.name]
<1>2. /\ Table(t, db[t]) /\ last[t] \in Nat /\ \A q \in db[t] : q.id <= last[t]
      /\ t \in DOMAIN db /\ Schema(db) /\ DOMAIN last = Tables
  BY SchemaIs DEF Sound
<1>3. /\ DOMAIN new = {"id", "name", "data"} /\ new.id = r.id /\ r.id \in Nat \ {0}
      /\ new.name = in.name /\ in.name # "none"
  BY <1>2, BackupAssumption DEF Table
<1>4. \A q \in db[t] \ {r} : q.id # r.id /\ (t # "button" => q.name # new.name)
  <2> SUFFICES ASSUME NEW q \in db[t] \ {r}, q.id = r.id \/ (t # "button" /\ q.name = new.name) PROVE FALSE
    OBVIOUS
  <2>1. q.id = r.id
    BY <1>1, <1>3 DEF NameFree, Called
  <2> QED BY <1>2, <2>1 DEF Table
<1>5. /\ DOMAIN db' = DOMAIN db /\ db'[t] = (db[t] \ {r}) \cup {new}
      /\ \A p \in (Tables \cup Links) \ {t} : db'[p] = db[p]
  BY <1>1, <1>2 DEF Schema
<1> HIDE DEF new
<1>6. Table(t, db'[t])
  <2>1. IsFiniteSet(db'[t])
    <3>1. IsFiniteSet(db[t] \ {r})
      BY <1>2, FS_RemoveElement DEF Table
    <3> QED BY <1>5, <3>1, FS_AddElement
  <2> QED BY <1>2, <1>3, <1>4, <1>5, <2>1 DEF Table
<1>7. Schema(db')
  <2>1. \A i : Has(db, t, i) => Has(db', t, i)
    BY <1>3, <1>5 DEF Has
  <2> QED BY <1>2, <1>5, <1>6, <2>1, SchemaRows
<1>8. ASSUME NEW s \in Tables, NEW q \in db'[s]
      PROVE  q.id <= last'[s]
  BY <1>1, <1>2, <1>3, <1>5 DEF Sound
<1> QED BY <1>1, <1>2, <1>7, <1>8 DEF Sound

\* A row goes, and what hangs on it.
LEMMA SoundRemove ==
  ASSUME Sound(db, last), NEW t \in Tables, Remove(t)
  PROVE  Sound(db, last)'
<1> DEFINE kept(r, l) == {x \in db[l] : ~Mentions(l, x, t, r.id)}
           cut(r) == {IF x[2] = r.id THEN <<x[1], 0>> ELSE x : x \in db["assigned"]}
<1>1. PICK r \in db[t] :
        /\ t = "mask" => kept(r, "rule") = db.rule
        /\ db' = [db EXCEPT
             ![t] = @ \ {r},
             !.tagged = kept(r, "tagged"), !.rule = kept(r, "rule"),
             !.assigned = IF t = "mask" THEN cut(r) ELSE kept(r, "assigned"),
             !.command = IF t = "button" /\ @ = r.id THEN 0 ELSE @]
        /\ last' = last
  <2>1. PICK r \in db[t] :
          /\ t = "mask" => kept(r, "rule") = db.rule
          /\ db' = [db EXCEPT
               ![t] = @ \ {r},
               !.tagged = kept(r, "tagged"), !.rule = kept(r, "rule"),
               !.assigned = IF t = "mask" THEN {IF x[2] = r.id THEN <<x[1], 0>> ELSE x : x \in @}
                            ELSE kept(r, "assigned"),
               !.command = IF t = "button" /\ @ = r.id THEN 0 ELSE @]
          /\ last' = last
    BY DEF Remove, Change
  <2> HIDE DEF kept
  <2> QED BY <2>1
<1>2. Schema(db) /\ r.id \in Nat \ {0} /\ Table(t, db[t]) /\ last' = last
  BY <1>1, SchemaIs DEF Sound, Table
<1>3. \A l \in Links : kept(r, l) \subseteq db[l]
  OBVIOUS
<1>4. /\ DOMAIN db' = DOMAIN db
      /\ db'[t] = db[t] \ {r} /\ \A s \in Tables \ {t} : db'[s] = db[s]
      /\ db'["tagged"] = kept(r, "tagged") /\ db'["rule"] = kept(r, "rule")
      /\ db'["assigned"] = IF t = "mask" THEN cut(r) ELSE kept(r, "assigned")
  <2> HIDE DEF kept, cut
  <2>1. /\ {"tagged", "rule", "assigned", "command"} \cap Tables = {}
        /\ Tables \cup {"tagged", "rule", "assigned", "command"} \subseteq DOMAIN db
    BY <1>2, EndsAre, Parted DEF Schema
  <2> QED BY <1>1, <2>1
<1>5. \A s \in Tables : Table(s, db'[s]) /\ db'[s] \subseteq db[s]
  <2>1. IsFiniteSet(db[t] \ {r})
    BY <1>2, FS_RemoveElement DEF Table
  <2>2. Table(t, db[t] \ {r})
    BY <1>2, <2>1 DEF Table
  <2> QED BY <1>2, <1>4, <2>2, SchemaIs
<1>6. ASSUME NEW l \in Links, NEW k \in DOMAIN Ends[l], NEW i, EndFound(db, l, k, i),
             Ends[l][k] # t \/ i # r.id
      PROVE  EndFound(db', l, k, i)
  <2>1. Ends[l][k] \in Tables
    BY EndsAre DEF Tables
  <2> QED BY <1>4, <1>6, <2>1 DEF EndFound, Has
<1>7. ASSUME NEW l \in Links, db'[l] = kept(r, l)
      PROVE  LinksOf(db', l)
  <2>1. LinksOf(db, l) /\ kept(r, l) \subseteq db[l]
    BY <1>2, SchemaIs
  <2>2. IsFiniteSet(db'[l])
    BY <1>7, <2>1, FS_Subset DEF LinksOf
  <2>3. ASSUME NEW x \in db'[l], NEW k \in DOMAIN Ends[l]
        PROVE  EndFound(db', l, k, x[k])
    <3>1. EndFound(db, l, k, x[k]) /\ DOMAIN x = DOMAIN Ends[l] /\ ~Mentions(l, x, t, r.id)
      BY <1>7, <2>1 DEF LinksOf
    <3> QED BY <1>6, <3>1 DEF Mentions
  <2> QED BY <1>7, <2>1, <2>2, <2>3 DEF LinksOf
<1>8. ASSUME t = "mask"
      PROVE  LinksOf(db', "assigned")
  <2> DEFINE f == [x \in db["assigned"] |-> IF x[2] = r.id THEN <<x[1], 0>> ELSE x]
  <2>1. LinksOf(db, "assigned") /\ "assigned" \in Links
    BY <1>2, SchemaIs, EndsAre
  <2>2. db'["assigned"] = cut(r)
    BY <1>4, <1>8
  <2>3. f \in Surjection(db["assigned"], cut(r))
    BY DEF Surjection
  <2>4. IsFiniteSet(cut(r))
    BY <2>1, <2>3, FS_Surjection DEF LinksOf
  <2>5. ASSUME NEW y \in cut(r)
        PROVE  /\ y \in [1..2 -> Nat]
               /\ EndFound(db', "assigned", 1, y[1]) /\ EndFound(db', "assigned", 2, y[2])
    <3>1. PICK x \in db["assigned"] : y = IF x[2] = r.id THEN <<x[1], 0>> ELSE x
      OBVIOUS
    <3>2. /\ x \in [1..2 -> Nat] /\ EndFound(db, "assigned", 1, x[1])
          /\ EndFound(db, "assigned", 2, x[2])
      BY <2>1, EndsAre DEF LinksOf
    <3>3. EndFound(db', "assigned", 1, x[1])
      BY <1>6, <1>8, <2>1, <3>2, EndsAre
    <3>4. CASE x[2] = r.id
      BY <3>1, <3>2, <3>3, <3>4, Tuples DEF EndFound
    <3>5. CASE x[2] # r.id
      <4>1. EndFound(db', "assigned", 2, x[2])
        BY <1>6, <2>1, <3>2, <3>5, EndsAre
      <4> QED BY <3>1, <3>2, <3>3, <3>5, <4>1
    <3> QED BY <3>4, <3>5
  <2> HIDE DEF cut
  <2>6. \A x \in db'["assigned"] : \A k \in DOMAIN Ends["assigned"] : EndFound(db', "assigned", k, x[k])
    BY <2>2, <2>5, EndsAre
  <2>7. db'["assigned"] \subseteq [DOMAIN Ends["assigned"] -> Nat]
    BY <2>2, <2>5, EndsAre
  <2> QED BY <2>2, <2>4, <2>6, <2>7 DEF LinksOf
<1>9. \A l \in Links : LinksOf(db', l)
  BY <1>4, <1>7, <1>8, EndsAre
<1>10. OneRule(db')
  BY <1>2, <1>3, <1>4, SchemaIs, EndsAre DEF OneRule
<1>11. Schema(db')
  BY <1>2, <1>4, <1>5, <1>9, <1>10, SchemaIs
<1> QED BY <1>2, <1>5, <1>11 DEF Sound

LEMMA SoundRelink ==
  ASSUME Sound(db, last), Relink
  PROVE  Sound(db, last)'
<1>1. /\ Schema(db) /\ last' = last /\ DOMAIN db = Tables \cup Links \cup {"command"}
      /\ {"tagged", "rule"} \subseteq Links /\ {"device", "tag", "mask", "button"} \subseteq Tables
  BY EndsAre DEF Sound, Relink, Schema, Tables
<1>2. \A t \in Tables : \A r \in db[t] : r.id \in Nat /\ Has(db, t, r.id)
  BY <1>1, SchemaIs DEF Table, Has
<1>3. CASE \E x \in {r.id : r \in db.device} \X {r.id : r \in db.tag} :
             Change([db EXCEPT !.tagged = (@ \ {x}) \cup ({x} \ @)])
  <2>1. PICK x \in {r.id : r \in db.device} \X {r.id : r \in db.tag} :
          db' = [db EXCEPT !.tagged = (@ \ {x}) \cup ({x} \ @)]
    BY <1>3 DEF Change
  <2>2. PICK r \in db["device"], q \in db["tag"] : x = <<r.id, q.id>>
    OBVIOUS
  <2>3. x \in [1..2 -> Nat] /\ x[1] = r.id /\ x[2] = q.id
    BY <1>1, <1>2, <2>2, Tuples
  <2>4. \A k \in DOMAIN Ends["tagged"] : EndFound(db, "tagged", k, x[k])
    BY <1>1, <1>2, <2>3, EndsAre DEF EndFound
  <2>5. /\ DOMAIN db' = DOMAIN db /\ db'["tagged"] \subseteq db["tagged"] \cup {x}
        /\ \A p \in (Tables \cup Links) \ {"tagged"} : db'[p] = db[p]
    BY <1>1, <2>1
  <2>6. LinksOf(db, "tagged") /\ IsFiniteSet(db'["tagged"])
    <3>1. LinksOf(db, "tagged")
      BY <1>1, SchemaIs
    <3>2. IsFiniteSet(db["tagged"] \cup {x})
      BY <3>1, FS_AddElement DEF LinksOf
    <3> QED BY <2>5, <3>1, <3>2, FS_Subset
  <2>7. db'["tagged"] \subseteq [DOMAIN Ends["tagged"] -> Nat]
    BY <2>3, <2>5, <2>6, EndsAre DEF LinksOf
  <2>8. \A y \in db'["tagged"] : \A k \in DOMAIN Ends["tagged"] : EndFound(db, "tagged", k, y[k])
    BY <2>4, <2>5, <2>6 DEF LinksOf
  <2>9. Schema(db')
    BY <1>1, <2>5, <2>6, <2>7, <2>8, SchemaLinks
  <2> QED BY <1>1, <2>5, <2>9, Parted DEF Sound
<1>4. CASE \E b \in db.button, t \in db.tag, m \in db.mask :
             LET x == <<b.id, t.id, m.id>> IN
             Change([db EXCEPT !.rule = IF x \in @ THEN @ \ {x}
                                   ELSE {y \in @ : y[1] # x[1] \/ y[2] # x[2]} \cup {x}])
  <2>1. PICK b \in db["button"], t \in db["tag"], m \in db["mask"] :
          LET x == <<b.id, t.id, m.id>> IN
          db' = [db EXCEPT !.rule = IF x \in @ THEN @ \ {x}
                                   ELSE {y \in @ : y[1] # x[1] \/ y[2] # x[2]} \cup {x}]
    BY <1>4 DEF Change
  <2> DEFINE x == <<b.id, t.id, m.id>>
             others == {y \in db["rule"] : y[1] # x[1] \/ y[2] # x[2]}
  <2>2. x \in [1..3 -> Nat] /\ x[1] = b.id /\ x[2] = t.id /\ x[3] = m.id
    BY <1>1, <1>2, Tuples
  <2>3. db' = [db EXCEPT !.rule = IF x \in @ THEN @ \ {x}
                                   ELSE {y \in @ : y[1] # x[1] \/ y[2] # x[2]} \cup {x}]
    BY <2>1
  <2> HIDE DEF x
  <2>4. \A k \in DOMAIN Ends["rule"] : EndFound(db, "rule", k, x[k])
    BY <1>1, <1>2, <2>2, EndsAre DEF EndFound
  <2>5. /\ DOMAIN db' = DOMAIN db
        /\ db'["rule"] = db["rule"] \ {x} \/ db'["rule"] = others \cup {x}
        /\ \A p \in (Tables \cup Links) \ {"rule"} : db'[p] = db[p]
    BY <1>1, <2>3
  <2>6. LinksOf(db, "rule") /\ IsFiniteSet(db'["rule"]) /\ db'["rule"] \subseteq db["rule"] \cup {x}
    <3>1. LinksOf(db, "rule")
      BY <1>1, SchemaIs
    <3>2. IsFiniteSet(db["rule"] \cup {x})
      BY <3>1, FS_AddElement DEF LinksOf
    <3> QED BY <2>5, <3>1, <3>2, FS_Subset
  <2>7. db'["rule"] \subseteq [DOMAIN Ends["rule"] -> Nat]
    BY <2>2, <2>6, EndsAre DEF LinksOf
  <2>8. \A y \in db'["rule"] : \A k \in DOMAIN Ends["rule"] : EndFound(db, "rule", k, y[k])
    BY <2>4, <2>6 DEF LinksOf
  <2>9. OneRule(db')
    <3>1. OneRule(db)
      BY <1>1, SchemaIs
    <3> QED BY <2>5, <3>1 DEF OneRule
  <2>10. Schema(db')
    BY <1>1, <2>5, <2>6, <2>7, <2>8, <2>9, SchemaLinks
  <2> QED BY <1>1, <2>5, <2>10, Parted DEF Sound
<1> QED BY <1>3, <1>4 DEF Relink

-----------------------------------------------------------------------------
(* The order of the parts. *)

LEMMA PartsAre ==
  /\ Parts \in Seq(PartNames) /\ Len(Parts) = 8 /\ Parts[8] = "config"
  /\ \A i \in 1..8 : Parts[i] \in PartNames
  /\ \A i \in 1..7 : Parts[i] \in Tables \cup Links
  /\ \A i, j \in 1..8 : Parts[i] = Parts[j] => i = j
  /\ \A p \in Tables \cup Links : \E i \in 1..7 : Parts[i] = p
<1>1. /\ Parts[1] = "mask" /\ Parts[2] = "tag" /\ Parts[3] = "device" /\ Parts[4] = "tagged"
      /\ Parts[5] = "assigned" /\ Parts[6] = "button" /\ Parts[7] = "rule" /\ Parts[8] = "config"
      /\ Parts \in Seq(PartNames) /\ Len(Parts) = 8
  BY DEF Parts, PartNames
<1>2. \A i \in 1..8 : i = 1 \/ i = 2 \/ i = 3 \/ i = 4 \/ i = 5 \/ i = 6 \/ i = 7 \/ i = 8
  OBVIOUS
<1>3. \A i \in 1..7 : Parts[i] \in Tables \cup Links
  BY <1>1, <1>2, EndsAre DEF Tables
<1>4. \A i, j \in 1..8 : Parts[i] = Parts[j] => i = j
  BY <1>1, <1>2
<1>5. \A p \in Tables \cup Links : \E i \in 1..7 : Parts[i] = p
  BY <1>1, EndsAre DEF Tables
<1>6. \A i \in 1..8 : Parts[i] \in PartNames
  BY <1>1, <1>2 DEF PartNames
<1> QED BY <1>1, <1>3, <1>4, <1>5, <1>6

\* The tables that links refer to come before them.
LEMMA EndsFirst ==
  ASSUME NEW i \in 1..7, Parts[i] \in Links, NEW n \in DOMAIN Ends[Parts[i]]
  PROVE  Ends[Parts[i]][n] \in Tables /\ \E j \in 1..(i - 1) : Parts[j] = Ends[Parts[i]][n]
<1>1. /\ Parts[1] = "mask" /\ Parts[2] = "tag" /\ Parts[3] = "device" /\ Parts[4] = "tagged"
      /\ Parts[5] = "assigned" /\ Parts[6] = "button" /\ Parts[7] = "rule"
  BY DEF Parts
<1>2. i = 1 \/ i = 2 \/ i = 3 \/ i = 4 \/ i = 5 \/ i = 6 \/ i = 7
  OBVIOUS
<1>3. i = 4 \/ i = 5 \/ i = 7
  BY <1>1, <1>2, EndsAre
<1>4. CASE i = 4
  BY <1>1, <1>4, EndsAre DEF Tables
<1>5. CASE i = 5
  BY <1>1, <1>5, EndsAre DEF Tables
<1>6. CASE i = 7
  BY <1>1, <1>6, EndsAre DEF Tables
<1> QED BY <1>3, <1>4, <1>5, <1>6

\* Sequences of the same length and elements.
LEMMA SeqEqual ==
  ASSUME NEW S, NEW s \in Seq(S), NEW z \in Seq(S), Len(s) = Len(z),
         \A i \in 1..Len(s) : s[i] = z[i]
  PROVE  s = z
  OBVIOUS

LEMMA RestIs ==
  /\ Rest(1) = Parts /\ Rest(9) = <<>>
  /\ \A k \in 1..8 : Rest(k) # <<>> /\ Head(Rest(k)) = Parts[k] /\ Tail(Rest(k)) = Rest(k + 1)
<1>1. /\ Parts \in Seq(PartNames) /\ Len(Parts) = 8
  BY PartsAre
<1>a. \A i \in 1..8 : Parts[i] \in PartNames
  BY PartsAre
<1>2. ASSUME NEW k \in 1..9
      PROVE  /\ Rest(k) \in Seq(PartNames) /\ Len(Rest(k)) = 9 - k
             /\ \A i \in 1..(9 - k) : Rest(k)[i] = Parts[k + i - 1]
  BY <1>1, <1>a DEF Rest
<1>3. Rest(1) = Parts
  <2>1. Rest(1) \in Seq(PartNames) /\ Len(Rest(1)) = 8 /\ \A i \in 1..8 : Rest(1)[i] = Parts[i]
    BY <1>2
  <2> QED BY <1>1, <2>1, SeqEqual
<1>4. Rest(9) = <<>>
  BY <1>2
<1>5. ASSUME NEW k \in 1..8
      PROVE  Rest(k) # <<>> /\ Head(Rest(k)) = Parts[k] /\ Tail(Rest(k)) = Rest(k + 1)
  <2>1. /\ Rest(k) \in Seq(PartNames) /\ Len(Rest(k)) = 9 - k
        /\ \A i \in 1..(9 - k) : Rest(k)[i] = Parts[k + i - 1]
        /\ Rest(k + 1) \in Seq(PartNames) /\ Len(Rest(k + 1)) = 8 - k
        /\ \A i \in 1..(8 - k) : Rest(k + 1)[i] = Parts[k + i]
    <3>1. k + 1 \in 1..9 /\ 9 - (k + 1) = 8 - k /\ \A i \in Int : k + 1 + i - 1 = k + i
      OBVIOUS
    <3>2. /\ Rest(k + 1) \in Seq(PartNames) /\ Len(Rest(k + 1)) = 9 - (k + 1)
          /\ \A i \in 1..(9 - (k + 1)) : Rest(k + 1)[i] = Parts[(k + 1) + i - 1]
      BY <1>2, <3>1
    <3>3. ASSUME NEW i \in 1..(8 - k)
          PROVE  Rest(k + 1)[i] = Parts[k + i]
      <4>1. Rest(k + 1)[i] = Parts[(k + 1) + i - 1]
        BY <3>1, <3>2
      <4>2. (k + 1) + i - 1 = k + i
        OBVIOUS
      <4> QED BY <4>1, <4>2
    <3>4. /\ Rest(k) \in Seq(PartNames) /\ Len(Rest(k)) = 9 - k
          /\ \A i \in 1..(9 - k) : Rest(k)[i] = Parts[k + i - 1]
      <4>1. k \in 1..9
        OBVIOUS
      <4> QED BY <1>2, <4>1
    <3> QED BY <3>1, <3>2, <3>3, <3>4
  <2>2. Rest(k) # <<>> /\ Head(Rest(k)) = Parts[k]
    BY <2>1
  <2>3. /\ Tail(Rest(k)) \in Seq(PartNames) /\ Len(Tail(Rest(k))) = 8 - k
        /\ \A i \in 1..(8 - k) : Tail(Rest(k))[i] = Parts[k + i]
    BY <2>1, <2>2
  <2>4. Tail(Rest(k)) = Rest(k + 1)
    BY <2>1, <2>3, SeqEqual
  <2> QED BY <2>2, <2>4
<1> QED BY <1>3, <1>4, <1>5

\* The part an import restores next.
LEMMA NextPart ==
  ASSUME NEW k \in 1..9, Restored(k), NEW p, Restoring(p)
  PROVE  k \in 1..8 /\ Parts[k] = p /\ Tail(toRestore) = Rest(k + 1)
<1>1. toRestore = Rest(k) /\ toRestore # <<>> /\ Head(toRestore) = p
  BY DEF Restored, Restoring
<1>2. k # 9
  BY <1>1, RestIs
<1>3. k \in 1..8
  BY <1>2
<1> QED BY <1>1, <1>3, RestIs

-----------------------------------------------------------------------------
(* A table that is restored. *)

LEMMA RanksDiffer ==
  ASSUME NEW t, NEW S, Table(t, S), NEW r \in S, NEW s \in S, r # s
  PROVE  Rank(S, r) # Rank(S, s)
<1>1. ASSUME NEW a \in S, NEW b \in S, a.id < b.id
      PROVE  Rank(S, a) # Rank(S, b)
  <2> DEFINE U == {q \in S : q.id <= a.id}
             V == {q \in S : q.id <= b.id}
  <2>1. \A q \in S : q.id \in Nat
    BY DEF Table
  <2>2. U \in SUBSET V /\ b \in V /\ b \notin U
    BY <1>1, <2>1
  <2>3. IsFiniteSet(V)
    BY FS_Subset DEF Table
  <2>4. Cardinality(U) # Cardinality(V)
    BY <2>2, <2>3, FS_Subset
  <2> QED BY <2>4 DEF Rank
<1>2. r.id \in Nat /\ s.id \in Nat /\ r.id # s.id
  BY DEF Table
<1>3. r.id < s.id \/ s.id < r.id
  BY <1>2
<1> QED BY <1>1, <1>3

\* It has the file's rows, with ids after those given.
LEMMA RowsRestored ==
  ASSUME NEW t \in Tables, Table(t, file[t]), RestoreTable(t), t \in DOMAIN db, t \in DOMAIN last,
         last[t] \in Nat
  PROVE  /\ Table(t, db'[t]) /\ BroughtRows(t)'
         /\ last'[t] \in Nat /\ \A r \in db'[t] : r.id <= last'[t]
<1> DEFINE S == file[t]
           f == [r \in S |-> [r EXCEPT !.id = NextId(t) + Rank(S, r) - 1]]
<1>1. /\ file' = file
      /\ last' = [last EXCEPT ![t] = NextId(t) + Cardinality(S) - 1]
      /\ db' = [db EXCEPT ![t] = {[r EXCEPT !.id = NextId(t) + Rank(S, r) - 1] : r \in S}]
  BY DEF RestoreTable, Rank
<1>2. IsTable(S)
  BY DEF Table, IsTable
<1>3. Cardinality(S) \in Nat /\ \A r \in S : Rank(S, r) \in 1..Cardinality(S)
  BY <1>2, Ranks
<1>4. last'[t] = last[t] + Cardinality(S)
  BY <1>1, <1>3 DEF NextId
<1>5. db'[t] = {f[r] : r \in S}
  BY <1>1
<1>6. ASSUME NEW r \in S
      PROVE  /\ DOMAIN f[r] = {"id", "name", "data"}
             /\ f[r].id = last[t] + Rank(S, r) /\ f[r].name = r.name /\ f[r].data = r.data
  <2>1. DOMAIN r = {"id", "name", "data"} /\ Rank(S, r) \in 1..Cardinality(S)
    BY <1>3 DEF Table
  <2> QED BY <2>1 DEF NextId
<1>7. f \in Bijection(S, db'[t])
  <2>1. f \in [S -> db'[t]] /\ \A q \in db'[t] : \E r \in S : f[r] = q
    BY <1>5
  <2> HIDE DEF f, S
  <2>2. \A a, b \in S : f[a] = f[b] => a = b
    <3> SUFFICES ASSUME NEW a \in S, NEW b \in S, f[a].id = f[b].id, a # b PROVE FALSE
      OBVIOUS
    <3>1. Rank(S, a) # Rank(S, b)
      BY RanksDiffer DEF S
    <3>2. f[a].id = last[t] + Rank(S, a) /\ f[b].id = last[t] + Rank(S, b)
      BY <1>6
    <3>3. Rank(S, a) \in Nat /\ Rank(S, b) \in Nat
      BY <1>3
    <3>4. \A n, i, j \in Nat : n + i = n + j => i = j
      OBVIOUS
    <3>5. last[t] + Rank(S, a) = last[t] + Rank(S, b)
      BY <3>2
    <3> QED BY <3>1, <3>3, <3>4, <3>5
  <2>3. f \in Injection(S, db'[t])
    BY <2>1, <2>2 DEF Injection, IsInjective
  <2>4. f \in Surjection(S, db'[t])
    BY <2>1 DEF Surjection
  <2> QED BY <2>3, <2>4 DEF Bijection
<1>8. IsFiniteSet(db'[t])
  <2>1. ExistsBijection(S, db'[t])
    BY <1>7 DEF ExistsBijection
  <2> QED BY <2>1, FS_Bijection DEF Table
<1> HIDE DEF f
<1>9. \A q \in db'[t] : \E r \in S : q = f[r]
  BY <1>5
<1>10. ASSUME NEW q \in db'[t]
       PROVE  /\ DOMAIN q = {"id", "name", "data"} /\ q.id \in Nat \ {0} /\ q.name # "none"
              /\ q.id <= last'[t]
  <2>1. PICK r \in S : q = f[r]
    BY <1>9
  <2>2. r.name # "none"
    BY DEF Table
  <2> QED BY <1>3, <1>4, <1>6, <2>1, <2>2
<1>11. ASSUME NEW q \in db'[t], NEW z \in db'[t], q.id = z.id \/ (t # "button" /\ q.name = z.name)
       PROVE  q = z
  <2>1. PICK a \in S, b \in S : q = f[a] /\ z = f[b]
    BY <1>9
  <2>2. CASE q.id = z.id
    <3>1. Rank(S, a) = Rank(S, b)
      BY <1>3, <1>6, <2>1, <2>2
    <3>2. a = b
      BY <3>1, RanksDiffer
    <3> QED BY <2>1, <3>2
  <2>3. CASE t # "button" /\ q.name = z.name
    <3>1. a.name = b.name
      BY <1>6, <2>1, <2>3
    <3>2. a = b
      BY <2>3, <3>1 DEF Table
    <3> QED BY <2>1, <3>2
  <2> QED BY <1>11, <2>2, <2>3
<1>12. Table(t, db'[t])
  BY <1>8, <1>10, <1>11 DEF Table
<1>13. BroughtRows(t)'
  BY <1>1, <1>6, <1>7 DEF BroughtRows
<1> QED BY <1>3, <1>4, <1>10, <1>12, <1>13

\* The links to it are still to be restored.
LEMMA SoundRestoreTable ==
  ASSUME Sound(db, last), NEW k \in 1..9, Restored(k), NEW t \in Tables, Table(t, file[t]), RestoreTable(t)
  PROVE  Sound(db, last)'
<1>1. /\ DOMAIN db = Tables \cup Links \cup {"command"} /\ DOMAIN last = Tables
      /\ last[t] \in Nat /\ Schema(db)
  BY DEF Sound, Schema
<1>2. /\ Table(t, db'[t]) /\ last'[t] \in Nat /\ \A r \in db'[t] : r.id <= last'[t]
  BY <1>1, RowsRestored
<1>3. /\ DOMAIN db' = DOMAIN db /\ DOMAIN last' = DOMAIN last
      /\ \A p \in (Tables \cup Links) \ {t} : db'[p] = db[p]
      /\ \A s \in Tables \ {t} : last'[s] = last[s]
  BY <1>1 DEF RestoreTable
<1>4. k \in 1..8 /\ Parts[k] = t
  BY NextPart DEF RestoreTable
<1>5. ASSUME NEW l \in Links, NEW x \in db[l], NEW n \in DOMAIN Ends[l]
      PROVE  Ends[l][n] # t
  <2>1. PICK i \in 1..7 : Parts[i] = l
    BY PartsAre
  <2>2. PICK j \in 1..(i - 1) : Parts[j] = Ends[l][n]
    BY <2>1, EndsFirst
  <2>3. i < k
    BY <1>5, <2>1 DEF Restored
  <2>4. j \in 1..8 /\ j # k
    BY <1>4, <2>1, <2>2, <2>3
  <2> QED BY <1>4, <2>2, <2>4, PartsAre
<1>6. Schema(db')
  BY <1>1, <1>2, <1>3, <1>5, SchemaRows
<1> QED BY <1>1, <1>2, <1>3, <1>6 DEF Sound

-----------------------------------------------------------------------------
(* Links that are restored. *)

\* What a name is found as.
LEMMA FoundIs ==
  ASSUME NEW t \in Tables, Table(t, db[t]), NEW n
  PROVE  /\ Found(t, n) \in Nat /\ (Found(t, n) # 0 <=> Called(db, t, n) # {})
         /\ Found(t, n) # 0 => Has(db, t, Found(t, n))
         /\ Found(t, n) # 0 => \E r \in Called(db, t, n) : r.id = Found(t, n)
<1>1. CASE Called(db, t, n) = {}
  BY <1>1 DEF Found, Called
<1>2. CASE Called(db, t, n) # {}
  <2> DEFINE r == CHOOSE r \in Called(db, t, n) : TRUE
  <2>1. r \in Called(db, t, n) /\ Found(t, n) = r.id
    BY <1>2 DEF Found
  <2> HIDE DEF r
  <2>2. r \in db[t] /\ r.id \in Nat \ {0}
    BY <2>1 DEF Called, Table
  <2> QED BY <1>2, <2>1, <2>2 DEF Has, Called
<1> QED BY <1>1, <1>2

LEMMA TripleIsSeq ==
  ASSUME NEW x \in [1..3 -> Nat]
  PROVE  x \in Seq(Nat) /\ Len(x) = 3
<1>1. x = <<x[1], x[2], x[3]>>
  OBVIOUS
<1>2. <<x[1], x[2], x[3]>> \in Seq(Nat) /\ Len(<<x[1], x[2], x[3]>>) = 3
  OBVIOUS
<1> QED BY <1>1, <1>2

LEMMA FirstTwoOf ==
  ASSUME NEW z \in Seq(Nat), Len(z) = 3
  PROVE  /\ SubSeq(z, 1, 2) \in Seq(Nat) /\ Len(SubSeq(z, 1, 2)) = 2
         /\ \A i \in 1..2 : SubSeq(z, 1, 2)[i] = z[i]
<1>1. Len(SubSeq(z, 1, 2)) = 2
  OBVIOUS
<1>2. \A i \in 1..2 : SubSeq(z, 1, 2)[i] = z[i]
  OBVIOUS
<1>3. SubSeq(z, 1, 2) \in Seq(Nat)
  OBVIOUS
<1> QED BY <1>1, <1>2, <1>3

LEMMA FirstTwo ==
  ASSUME NEW x \in [1..3 -> Nat], NEW y \in [1..3 -> Nat], x[1] = y[1], x[2] = y[2]
  PROVE  SubSeq(x, 1, 2) = SubSeq(y, 1, 2)
<1>1. x \in Seq(Nat) /\ y \in Seq(Nat) /\ Len(x) = 3 /\ Len(y) = 3
  BY TripleIsSeq
<1>2. \A i \in 1..2 : x[i] = y[i]
  OBVIOUS
<1>3. \A i \in 1..2 : SubSeq(x, 1, 2)[i] = SubSeq(y, 1, 2)[i]
  BY <1>1, <1>2, FirstTwoOf
<1> QED BY <1>1, <1>3, FirstTwoOf, SeqEqual

\* Their ends are ids, those of rows but for the mask of an assignment.
LEMMA ResolvedIs ==
  ASSUME NEW l \in Links, \A t \in Tables : Table(t, db[t]), NEW y, DOMAIN y.label = DOMAIN Ends[l]
  PROVE  /\ Resolved(l, y) \in [DOMAIN Ends[l] -> Nat]
         /\ y \in ToLink(l) => \A k \in DOMAIN Ends[l] : EndFound(db, l, k, Resolved(l, y)[k])
<1>1. ASSUME NEW k \in DOMAIN Ends[l]
      PROVE  /\ Ends[l][k] \in Tables /\ Resolved(l, y)[k] = Found(Ends[l][k], y.label[k])
             /\ Resolved(l, y)[k] \in Nat
             /\ Resolved(l, y)[k] # 0 => Has(db, Ends[l][k], Resolved(l, y)[k])
  <2>1. Ends[l][k] \in Tables
    BY EndsAre DEF Tables
  <2>2. Resolved(l, y)[k] = Found(Ends[l][k], y.label[k])
    BY DEF Resolved
  <2> QED BY <2>1, <2>2, FoundIs
<1>2. Resolved(l, y) \in [DOMAIN Ends[l] -> Nat]
  BY <1>1 DEF Resolved
<1>3. ASSUME y \in ToLink(l), NEW k \in DOMAIN Ends[l]
      PROVE  EndFound(db, l, k, Resolved(l, y)[k])
  <2>1. Resolved(l, y)[k] = 0 => <<l, k>> = <<"assigned", 2>>
    BY <1>3 DEF ToLink
  <2>2. <<l, k>> = <<"assigned", 2>> => l = "assigned" /\ k = 2
    OBVIOUS
  <2> QED BY <1>1, <2>1, <2>2 DEF EndFound
<1> QED BY <1>2, <1>3

LEMMA SoundRestoreLinks ==
  ASSUME Sound(db, last), NEW l \in Links, RestoreLinks(l), IsFiniteSet(file[l]),
         \A y \in file[l] : DOMAIN y.label = DOMAIN Ends[l]
  PROVE  Sound(db, last)'
<1>1. /\ Schema(db) /\ DOMAIN db = Tables \cup Links \cup {"command"} /\ \A t \in Tables : Table(t, db[t])
      /\ last' = last
  BY SchemaIs DEF Sound, RestoreLinks
<1>2. /\ DOMAIN db' = DOMAIN db /\ db'[l] = {Resolved(l, y) : y \in ToLink(l)}
      /\ \A p \in (Tables \cup Links) \ {l} : db'[p] = db[p]
  BY <1>1 DEF RestoreLinks
<1>3. ToLink(l) \subseteq file[l]
  BY DEF ToLink
<1>4. IsFiniteSet(db'[l])
  <2> DEFINE f == [y \in ToLink(l) |-> Resolved(l, y)]
  <2>1. IsFiniteSet(ToLink(l))
    BY <1>3, FS_Subset
  <2>2. f \in Surjection(ToLink(l), db'[l])
    BY <1>2 DEF Surjection
  <2> QED BY <2>1, <2>2, FS_Surjection
<1>5. /\ db'[l] \subseteq [DOMAIN Ends[l] -> Nat]
      /\ \A x \in db'[l] : \A k \in DOMAIN Ends[l] : EndFound(db, l, k, x[k])
  BY <1>1, <1>2, <1>3, ResolvedIs
<1>6. ASSUME l = "rule"
      PROVE  OneRule(db')
  <2> SUFFICES ASSUME NEW x \in db'["rule"], NEW z \in db'["rule"], x[1] = z[1], x[2] = z[2]
               PROVE  x = z
    BY DEF OneRule
  <2>1. PICK a \in ToLink("rule"), b \in ToLink("rule") : x = Resolved("rule", a) /\ z = Resolved("rule", b)
    BY <1>2, <1>6
  <2>2. x \in [1..3 -> Nat] /\ z \in [1..3 -> Nat]
    BY <1>5, <1>6, EndsAre
  <2>3. SubSeq(x, 1, 2) = SubSeq(z, 1, 2)
    BY <2>2, FirstTwo
  <2>4. ~Fails("rule")
    BY <1>6 DEF RestoreLinks
  <2>5. a = b
    BY <2>1, <2>3, <2>4 DEF Fails
  <2> QED BY <2>1, <2>5
<1>7. Schema(db')
  BY <1>1, <1>2, <1>4, <1>5, <1>6, SchemaLinks
<1> QED BY <1>1, <1>2, <1>7, Parted DEF Sound

\* Empty tables.
LEMMA SoundWiped ==
  ASSUME Sound(db, last), ImportBegin
  PROVE  Sound(db, last)' /\ \A p \in Tables \cup Links : db'[p] = {}
<1>1. /\ DOMAIN db = Tables \cup Links \cup {"command"} /\ last' = last
      /\ db' = [t \in DOMAIN db |-> IF t = "command" THEN 0 ELSE {}]
  BY DEF Sound, Schema, ImportBegin
<1>2. DOMAIN db' = DOMAIN db /\ \A p \in Tables \cup Links : db'[p] = {}
  BY <1>1, Parted
<1>3. (\A t \in Tables : Table(t, db'[t])) /\ \A l \in Links : LinksOf(db', l)
  BY <1>2, FS_EmptySet DEF Table, LinksOf
<1>4. OneRule(db')
  BY <1>2, EndsAre DEF OneRule
<1>5. Schema(db')
  BY <1>1, <1>2, <1>3, <1>4, SchemaIs
<1> QED BY <1>1, <1>2, <1>5 DEF Sound

-----------------------------------------------------------------------------
(* The tables keep their schema, and what a rollback brings back has it. *)

\* Parts are in the file once an import began.
LEMMA FileOf ==
  ASSUME IInv, Copied, before # <<>>
  PROVE  /\ \A t \in Tables : t \in DOMAIN file /\ FileTable(t)
         /\ \A l \in Links : l \in DOMAIN file /\ FileLinks(l)
         /\ "config" \in DOMAIN file /\ ~Exporting
<1>1. PartNames \subseteq DOMAIN file /\ toRead = <<>>
  BY DEF IInv
<1>2. Tables \cup Links \cup {"config"} \subseteq PartNames
  BY EndsAre DEF Tables, PartNames
<1> QED BY <1>1, <1>2 DEF Copied, Exporting

LEMMA SameTidy ==
  ASSUME Tidy, UNCHANGED <<db, last>>, UNCHANGED before \/ before' = <<>>
  PROVE  Tidy'
  BY DEF Tidy

\* A command refers to a button, but no link does to a command.
LEMMA SoundIssue ==
  ASSUME Sound(db, last), Issue
  PROVE  Sound(db, last)' /\ \A p \in Tables \cup Links : db'[p] = db[p]
<1>1. PICK b : db' = [db EXCEPT !.command = b] /\ last' = last
  BY DEF Issue
<1>2. DOMAIN db = Tables \cup Links \cup {"command"} /\ Schema(db)
  BY DEF Sound, Schema
<1>3. DOMAIN db' = DOMAIN db /\ \A p \in Tables \cup Links : db'[p] = db[p]
  BY <1>1, <1>2, Parted
<1>4. \A t \in Tables : Table(t, db'[t])
  BY <1>2, <1>3, SchemaIs
<1>5. ASSUME NEW l \in Links
      PROVE  LinksOf(db', l)
  <2>1. \A k \in DOMAIN Ends[l] : Ends[l][k] \in Tables
    BY EndsAre DEF Tables
  <2>2. LinksOf(db, l)
    BY <1>2, SchemaIs
  <2> QED BY <1>3, <2>1, <2>2 DEF LinksOf, EndFound, Has
<1>6. OneRule(db')
  BY <1>2, <1>3, SchemaIs, EndsAre DEF OneRule
<1>7. Schema(db')
  BY <1>2, <1>3, <1>4, <1>5, <1>6, SchemaIs
<1> QED BY <1>1, <1>3, <1>7 DEF Sound

LEMMA TidyRollback ==
  ASSUME Tidy, before # <<>>, Rollback
  PROVE  Tidy'
  BY DEF Tidy, Rollback

LEMMA FormTidy ==
  ASSUME Tidy, FormStep
  PROVE  Tidy'
<1>1. Sound(db, last)'
  BY SoundCreate, SoundRename, SoundRemove, SoundRelink DEF Tidy, FormStep
<1>2. before = <<>> /\ before' = <<>>
  BY DEF FormStep, Relink, Create, Rename, Remove, Change, Free
<1> QED BY <1>1, <1>2 DEF Tidy

LEMMA ImportTidy ==
  ASSUME IInv, BackupInv, ImportStep
  PROVE  Tidy'
<1>1. CASE ImportBegin
  <2>1. before' = [data |-> Everything, unread |-> unread]
    BY <1>1 DEF ImportBegin
  <2>2. before'.data.db = db /\ before'.data.last = last
    BY <2>1 DEF Everything
  <2> QED BY <1>1, <2>2, SoundWiped DEF BackupInv, Tidy
<1>2. ASSUME NEW t \in Tables, RestoreTable(t)
      PROVE  Tidy'
  <2>1. before # <<>> /\ before' = before
    BY <1>2 DEF RestoreTable, Restoring
  <2>2. Table(t, file[t])
    BY <2>1, FileOf DEF BackupInv, FileTable
  <2>3. \E k \in 1..9 : Restored(k)
    BY <2>1 DEF BackupInv, Importing
  <2>4. Sound(db, last)'
    BY <1>2, <2>2, <2>3, SoundRestoreTable DEF BackupInv, Tidy
  <2> QED BY <2>1, <2>4 DEF BackupInv, Tidy
<1>3. ASSUME NEW l \in Links, RestoreLinks(l)
      PROVE  Tidy'
  <2>1. before # <<>> /\ before' = before
    BY <1>3 DEF RestoreLinks, Restoring
  <2>2. FileLinks(l)
    BY <2>1, FileOf DEF BackupInv
  <2>3. Sound(db, last)'
    BY <1>3, <2>2, SoundRestoreLinks DEF BackupInv, Tidy, FileLinks
  <2> QED BY <2>1, <2>3 DEF BackupInv, Tidy
<1>4. CASE RestoreConfig \/ Commit
  BY <1>4, SameTidy DEF BackupInv, RestoreConfig, Commit
<1>5. CASE ImportFails
  <2>1. before # <<>> /\ Rollback
    BY <1>5 DEF ImportFails, Restoring
  <2> QED BY <2>1, TidyRollback DEF BackupInv
<1> QED BY <1>1, <1>2, <1>3, <1>4, <1>5 DEF ImportStep

LEMMA TidyStep ==
  ASSUME IInv, BackupInv, [Next]_vars
  PROVE  Tidy'
<1>1. CASE SettingsStep \/ ExportBegin \/ ExportPart \/ UNCHANGED vars
  BY <1>1, SameTidy DEF BackupInv, SettingsStep, ExportBegin, ExportPart, vars, backupVars
<1>2. CASE RunStep
  <2>1. CASE Issue
    <3>1. before = <<>> /\ before' = <<>>
      BY <2>1 DEF Issue, Free, backupVars
    <3> QED BY <2>1, <3>1, SoundIssue DEF BackupInv, Tidy
  <2>2. CASE ~Issue
    BY <1>2, <2>2, SameTidy
       DEF BackupInv, RunStep, Start, ReadCamera, WriteCamera, LogCamera, backupVars
  <2> QED BY <2>1, <2>2
<1>3. CASE Restart
  <2>1. CASE Free
    BY <1>3, <2>1, SameTidy DEF BackupInv, Restart
  <2>2. CASE ~Free
    BY <1>3, <2>2, TidyRollback DEF BackupInv, Restart, Free
  <2> QED BY <2>1, <2>2
<1>4. CASE FormStep
  BY <1>4, FormTidy DEF BackupInv
<1>5. CASE ImportStep
  BY <1>5, ImportTidy
<1> QED BY <1>1, <1>2, <1>3, <1>4, <1>5 DEF Next

-----------------------------------------------------------------------------
(* The file has what nobody touched. *)

\* A step after which the tables still differ from those of the beginning by what was touched.
LEMMA MoreTouched ==
  ASSUME Copied, UNCHANGED <<file, origin, toRead>>, touched \subseteq touched',
         Exporting \/ touched' = touched,
         Exporting => /\ \A t \in Tables : SteadyRows(t, db[t])'
                      /\ \A l \in Links : SteadyLinks(l, db[l])'
                      /\ SteadyConfig(rows, palette)'
  PROVE  Copied'
<1>1. ASSUME NEW t \in Tables \cap DOMAIN file
      PROVE  FileTable(t)'
  BY DEF Copied, FileTable, SteadyRows
<1>2. ASSUME NEW l \in Links \cap DOMAIN file
      PROVE  FileLinks(l)'
  <2>1. FileLinks(l) /\ l \notin Tables
    BY Parted DEF Copied
  <2>2. Steady(l)' \subseteq Steady(l)
    BY <2>1 DEF Steady
  <2>3. \A x : Listing(l, x)' = Listing(l, x)
    BY DEF Listing, Label, Has, Row
  <2>4. /\ IsFiniteSet(file'[l]) /\ \A y \in file'[l] : DOMAIN y.label = DOMAIN Ends[l]
    BY <2>1 DEF FileLinks
  <2>5. \A x \in Steady(l)' : Listing(l, x)' \in file'[l]
    BY <2>1, <2>2, <2>3 DEF FileLinks
  <2>6. touched' = {} => \A y \in file'[l] : \E x \in origin'.db[l] : y = Listing(l, x)'
    BY <2>1, <2>3 DEF FileLinks
  <2> QED BY <2>4, <2>5, <2>6 DEF FileLinks
<1>3. "config" \in DOMAIN file' => SteadyConfig(file["config"].rows, file["config"].palette)'
  BY DEF Copied, SteadyConfig
<1>4. origin' = <<>> => touched' = {} /\ toRead' = <<>> /\ file' = <<>>
  BY DEF Copied, Exporting
<1>5. Exporting' <=> Exporting
  BY DEF Exporting
<1>6. origin' # <<>> => Schema(origin.db)'
  BY DEF Copied
<1> QED BY <1>1, <1>2, <1>3, <1>4, <1>5, <1>6 DEF Copied

LEMMA SameCopied ==
  ASSUME Copied, UNCHANGED <<file, origin, toRead, touched>>,
         Exporting => (\A p \in Tables \cup Links : db'[p] = db[p]) /\ UNCHANGED <<rows, palette>>
  PROVE  Copied'
<1>1. ASSUME Exporting
      PROVE  /\ \A t \in Tables : SteadyRows(t, db[t])'
             /\ \A l \in Links : SteadyLinks(l, db[l])'
             /\ SteadyConfig(rows, palette)'
  BY <1>1 DEF Copied, SteadyRows, SteadyLinks, SteadyConfig
<1> QED BY <1>1, MoreTouched

LEMMA DifferIs ==
  ASSUME NEW d, NEW e
  PROVE  /\ \A t \in Tables : \A r \in (d[t] \ e[t]) \cup (e[t] \ d[t]) : <<t, r.id>> \in Differ(d, e)
         /\ \A l \in Links : \A x \in (d[l] \ e[l]) \cup (e[l] \ d[l]) : <<l, x>> \in Differ(d, e)
<1>1. \A p \in Tables \cup Links : Changed(p, d, e) \subseteq Differ(d, e)
  BY DEF Differ
<1>2. ASSUME NEW p \in Tables \cup Links, NEW x \in (d[p] \ e[p]) \cup (e[p] \ d[p])
      PROVE  <<p, IF p \in Tables THEN x.id ELSE x>> \in Changed(p, d, e)
  BY DEF Changed
<1> QED BY <1>1, <1>2, Parted

\* What an edit changes is touched.
LEMMA ChangeCopied ==
  ASSUME Copied, NEW d, Change(d)
  PROVE  Copied'
<1>1. /\ db' = d /\ touched' = IF Exporting THEN touched \cup Differ(db, db') ELSE touched
      /\ UNCHANGED <<file, origin, toRead, rows, palette>>
  BY DEF Change, Touch
<1>2. ASSUME Exporting, NEW t \in Tables
      PROVE  SteadyRows(t, db[t])'
  <2>1. \A r \in (db[t] \ db'[t]) \cup (db'[t] \ db[t]) : <<t, r.id>> \in Differ(db, db')
    BY DifferIs
  <2> QED BY <1>1, <1>2, <2>1 DEF Copied, SteadyRows
<1>3. ASSUME Exporting, NEW l \in Links
      PROVE  SteadyLinks(l, db[l])'
  <2>1. \A x \in (db[l] \ db'[l]) \cup (db'[l] \ db[l]) : <<l, x>> \in Differ(db, db')
    BY DifferIs
  <2> QED BY <1>1, <1>3, <2>1 DEF Copied, SteadyLinks
<1>4. Exporting => SteadyConfig(rows, palette)'
  BY <1>1 DEF Copied, SteadyConfig
<1> QED BY <1>1, <1>2, <1>3, <1>4, MoreTouched

LEMMA SettingsCopied ==
  ASSUME Copied, SettingsStep
  PROVE  Copied'
<1>1. /\ touched' = IF Exporting /\ <<rows', palette'>> # <<rows, palette>>
                    THEN touched \cup {<<"config", 0>>} ELSE touched
      /\ UNCHANGED <<file, origin, toRead, db>>
  BY DEF SettingsStep, TouchConfig
<1>2. ASSUME Exporting
      PROVE  (\A t \in Tables : SteadyRows(t, db[t])') /\ \A l \in Links : SteadyLinks(l, db[l])'
  BY <1>1, <1>2 DEF Copied, SteadyRows, SteadyLinks
<1>3. ASSUME Exporting
      PROVE  SteadyConfig(rows, palette)'
  BY <1>1, <1>3 DEF Copied, SteadyConfig
<1> QED BY <1>1, <1>2, <1>3, MoreTouched

LEMMA ExportBeginCopied ==
  ASSUME Tidy, Copied, ExportBegin
  PROVE  Copied'
<1>1. origin = <<>> /\ origin' = Everything /\ UNCHANGED <<db, rows, palette, file, touched>>
  BY DEF ExportBegin, configVars
<1>2. origin'.db = db /\ origin'.rows = rows /\ origin'.palette = palette /\ origin' # <<>>
  <2>1. DOMAIN origin' = {"db", "last", "rows", "palette"}
    BY <1>1 DEF Everything
  <2> QED BY <1>1, <2>1 DEF Everything
<1>3. touched' = {} /\ DOMAIN file' = {}
  BY <1>1 DEF Copied
<1> QED BY <1>1, <1>2, <1>3 DEF Copied, Tidy, Sound, SteadyRows, SteadyLinks, SteadyConfig

-----------------------------------------------------------------------------
(* A part that the export reads. *)

LEMMA RowIs ==
  ASSUME NEW d, NEW t, Table(t, d[t]), NEW r \in d[t]
  PROVE  Has(d, t, r.id) /\ Row(d, t, r.id) = r
  BY DEF Table, Has, Row

\* An end that nobody touched has the name it had.
LEMMA SteadyEnd ==
  ASSUME Copied, Exporting, Schema(db), NEW t \in Tables, NEW i, <<t, i>> \notin touched
  PROVE  /\ Has(db, t, i) <=> Has(origin.db, t, i)
         /\ Has(db, t, i) => Row(db, t, i) = Row(origin.db, t, i)
<1>1. Table(t, db[t]) /\ Table(t, origin.db[t]) /\ SteadyRows(t, db[t])
  BY SchemaIs DEF Copied, Exporting
<1>2. \A r : r.id = i => (r \in db[t] <=> r \in origin.db[t])
  BY <1>1 DEF SteadyRows
<1>3. Has(db, t, i) <=> Has(origin.db, t, i)
  BY <1>2 DEF Has
<1>4. ASSUME Has(db, t, i)
      PROVE  Row(db, t, i) = Row(origin.db, t, i)
  <2>1. PICK r \in db[t] : r.id = i
    BY <1>4 DEF Has
  <2>2. r \in origin.db[t]
    BY <1>2, <2>1
  <2> QED BY <1>1, <2>1, <2>2, RowIs
<1> QED BY <1>3, <1>4

LEMMA SteadyLabel ==
  ASSUME Copied, Exporting, Schema(db), NEW l \in Links, NEW x \in Steady(l)
  PROVE  /\ x \in db[l] /\ x \in origin.db[l]
         /\ [at |-> x, label |-> Label(db, l, x)] = Listing(l, x)
<1>1. /\ x \in origin.db[l] /\ <<l, x>> \notin touched
      /\ \A k \in DOMAIN x : <<Ends[l][k], x[k]>> \notin touched
  BY Parted DEF Steady
<1>2. x \in db[l]
  BY <1>1 DEF Copied, SteadyLinks
<1>3. DOMAIN x = DOMAIN Ends[l] /\ \A k \in DOMAIN x : Ends[l][k] \in Tables
  <2>1. LinksOf(db, l)
    BY SchemaIs
  <2>2. DOMAIN x = DOMAIN Ends[l]
    BY <1>2, <2>1 DEF LinksOf
  <2> QED BY <2>2, EndsAre DEF Tables
<1>4. ASSUME NEW k \in DOMAIN x
      PROVE  /\ Has(db, Ends[l][k], x[k]) <=> Has(origin.db, Ends[l][k], x[k])
             /\ Has(db, Ends[l][k], x[k]) => Row(db, Ends[l][k], x[k]) = Row(origin.db, Ends[l][k], x[k])
  BY <1>1, <1>3, SteadyEnd
<1>5. Label(db, l, x) = Label(origin.db, l, x)
  BY <1>4 DEF Label
<1> QED BY <1>1, <1>2, <1>5 DEF Listing

\* Without edits every link is steady.
LEMMA AllSteady ==
  ASSUME Copied, Exporting, touched = {}, NEW l \in Links
  PROVE  db[l] = origin.db[l] /\ origin.db[l] = Steady(l)
  BY Parted DEF Copied, SteadyLinks, Steady

LEMMA LinksListed ==
  ASSUME Copied, Exporting, Schema(db), NEW l \in Links, file'[l] = Listed(l), UNCHANGED <<origin, touched>>
  PROVE  FileLinks(l)'
<1>1. file'[l] = {[at |-> x, label |-> Label(db, l, x)] : x \in db[l]} /\ LinksOf(db, l)
  BY Parted, SchemaIs DEF Listed
<1>2. IsFiniteSet(file'[l])
  <2> DEFINE f == [x \in db[l] |-> [at |-> x, label |-> Label(db, l, x)]]
  <2>1. f \in Surjection(db[l], file'[l])
    BY <1>1 DEF Surjection
  <2> QED BY <1>1, <2>1, FS_Surjection DEF LinksOf
<1>3. \A y \in file'[l] : DOMAIN y.label = DOMAIN Ends[l]
  BY <1>1 DEF LinksOf, Label
<1>4. Steady(l)' = Steady(l) /\ \A x : Listing(l, x)' = Listing(l, x)
  BY DEF Steady, Listing, Label, Has, Row
<1>5. \A x \in Steady(l) : Listing(l, x) \in file'[l]
  BY <1>1, SteadyLabel
<1>6. touched' = {} => \A y \in file'[l] : \E x \in origin'.db[l] : y = Listing(l, x)
  BY <1>1, SteadyLabel, AllSteady
<1> QED BY <1>2, <1>3, <1>4, <1>5, <1>6 DEF FileLinks

LEMMA ExportPartCopied ==
  ASSUME Tidy, Copied, ExportPart
  PROVE  Copied'
<1>1. /\ Exporting /\ toRead' = Tail(toRead)
      /\ file' = [p \in DOMAIN file \cup {Head(toRead)} |->
                    IF p = Head(toRead) THEN Listed(p) ELSE file[p]]
      /\ UNCHANGED <<db, rows, palette, origin, touched>>
  BY DEF ExportPart, configVars
<1>2. origin # <<>> /\ Schema(db) /\ Schema(origin.db)
  BY <1>1 DEF Copied, Exporting, Tidy, Sound
<1>3. ASSUME NEW t \in Tables \cap DOMAIN file'
      PROVE  FileTable(t)'
  <2>1. CASE t = Head(toRead)
    <3>1. file'[t] = db[t]
      BY <1>1, <2>1, Parted DEF Listed
    <3> QED BY <1>1, <1>2, <3>1, SchemaIs DEF FileTable, Copied, SteadyRows
  <2>2. CASE t # Head(toRead)
    <3>1. t \in DOMAIN file /\ file'[t] = file[t]
      BY <1>1, <2>2
    <3> QED BY <1>1, <3>1 DEF Copied, FileTable, SteadyRows
  <2> QED BY <2>1, <2>2
<1>4. ASSUME NEW l \in Links \cap DOMAIN file'
      PROVE  FileLinks(l)'
  <2>1. CASE l = Head(toRead)
    BY <1>1, <1>2, <2>1, LinksListed
  <2>2. CASE l # Head(toRead)
    <3>1. l \in DOMAIN file /\ file'[l] = file[l]
      BY <1>1, <2>2
    <3>2. Steady(l)' = Steady(l) /\ \A x : Listing(l, x)' = Listing(l, x)
      BY <1>1 DEF Steady, Listing, Label, Has, Row
    <3> QED BY <1>1, <3>1, <3>2 DEF Copied, FileLinks
  <2> QED BY <2>1, <2>2
<1>5. ASSUME "config" \in DOMAIN file'
      PROVE  SteadyConfig(file["config"].rows, file["config"].palette)'
  <2>1. CASE "config" = Head(toRead)
    <3>1. file'["config"] = [rows |-> rows, palette |-> palette]
      BY <1>1, <2>1, EndsAre DEF Listed, Tables
    <3> QED BY <1>1, <3>1 DEF Copied, SteadyConfig
  <2>2. CASE "config" # Head(toRead)
    <3>1. "config" \in DOMAIN file /\ file'["config"] = file["config"]
      BY <1>1, <1>5, <2>2
    <3> QED BY <1>1, <3>1 DEF Copied, SteadyConfig
  <2> QED BY <2>1, <2>2
<1>6. /\ \A t \in Tables : SteadyRows(t, db[t])'
      /\ \A l \in Links : SteadyLinks(l, db[l])'
      /\ SteadyConfig(rows, palette)'
  BY <1>1 DEF Copied, SteadyRows, SteadyLinks, SteadyConfig
<1> QED BY <1>1, <1>2, <1>3, <1>4, <1>5, <1>6 DEF Copied

-----------------------------------------------------------------------------
LEMMA RestartCopied ==
  ASSUME Copied, Restart
  PROVE  Copied'
<1>1. toRead' = <<>> /\ file' = (IF Exporting THEN <<>> ELSE file) /\ UNCHANGED <<origin, touched>>
  BY DEF Restart
<1>2. ~Exporting'
  BY <1>1 DEF Exporting
<1>3. CASE Exporting
  <2>1. DOMAIN file' = {}
    BY <1>1, <1>3
  <2> QED BY <1>1, <1>2, <1>3, <2>1 DEF Copied, Exporting
<1>4. CASE ~Exporting
  BY <1>1, <1>2, <1>4, SameCopied DEF Exporting
<1> QED BY <1>3, <1>4

LEMMA ImportCopied ==
  ASSUME IInv, Copied, ImportStep
  PROVE  Copied'
<1>1. ~Exporting
  <2>1. before = <<>> => ImportBegin
    BY DEF ImportStep, RestoreConfig, RestoreTable, RestoreLinks, Restoring, Commit, ImportFails
  <2>2. before # <<>> => ~Exporting
    BY FileOf
  <2> QED BY <2>1, <2>2 DEF ImportBegin
<1>2. UNCHANGED <<origin, touched, toRead>>
  BY DEF ImportStep, ImportBegin, RestoreConfig, RestoreTable, RestoreLinks, Commit, ImportFails
<1>3. CASE Commit
  <2>1. DOMAIN file' = {} /\ file' = <<>> /\ ~Exporting'
    BY <1>1, <1>2, <1>3 DEF Commit, Exporting
  <2> QED BY <1>2, <2>1 DEF Copied
<1>4. CASE ~Commit
  <2>1. file' = file
    BY <1>4 DEF ImportStep, ImportBegin, RestoreConfig, RestoreTable, RestoreLinks, ImportFails
  <2> QED BY <1>1, <1>2, <2>1, SameCopied
<1> QED BY <1>3, <1>4

LEMMA CopiedStep ==
  ASSUME IInv, BackupInv, [Next]_vars
  PROVE  Copied'
<1>1. Tidy /\ Copied
  BY DEF BackupInv
<1>2. CASE FormStep
  <2>1. \E d : Change(d)
    BY <1>2 DEF FormStep, Relink, Create, Rename, Remove
  <2> QED BY <1>1, <2>1, ChangeCopied
<1>3. CASE RunStep
  <2>1. UNCHANGED <<file, origin, toRead, touched, rows, palette>>
    BY <1>3 DEF RunStep, Issue, Start, ReadCamera, WriteCamera, LogCamera, backupVars, configVars
  <2>2. \A p \in Tables \cup Links : db'[p] = db[p]
    <3>1. CASE Issue
      BY <1>1, <3>1, SoundIssue DEF Tidy
    <3>2. CASE ~Issue
      BY <1>3, <3>2 DEF RunStep, Start, ReadCamera, WriteCamera, LogCamera
    <3> QED BY <3>1, <3>2
  <2> QED BY <1>1, <2>1, <2>2, SameCopied
<1>4. CASE UNCHANGED vars
  BY <1>1, <1>4, SameCopied DEF vars, backupVars, configVars
<1> QED BY <1>1, <1>2, <1>3, <1>4, SettingsCopied, ExportBeginCopied, ExportPartCopied,
           ImportCopied, RestartCopied DEF Next

-----------------------------------------------------------------------------
(* A part that was restored stays as it is while later ones are. *)

\* Links are found as what they were as long as the tables they refer to stay.
LEMMA SameResolved ==
  ASSUME NEW l \in Links, file' = file, \A y \in file[l] : DOMAIN y.label = DOMAIN Ends[l],
         \A n \in DOMAIN Ends[l] : db'[Ends[l][n]] = db[Ends[l][n]]
  PROVE  /\ \A y \in file[l] : Resolved(l, y)' = Resolved(l, y)
         /\ ToLink(l)' = ToLink(l) /\ Fails(l)' = Fails(l)
<1>1. ASSUME NEW t, db'[t] = db[t], NEW n
      PROVE  Called(db, t, n)' = Called(db, t, n) /\ Found(t, n)' = Found(t, n)
  <2>1. Called(db, t, n)' = Called(db, t, n)
    BY <1>1 DEF Called
  <2> QED BY <2>1 DEF Found
<1>2. ASSUME NEW y \in file[l]
      PROVE  Resolved(l, y)' = Resolved(l, y)
  <2>1. \A k \in DOMAIN y.label : Found(Ends[l][k], y.label[k])' = Found(Ends[l][k], y.label[k])
    BY <1>1
  <2> QED BY <2>1 DEF Resolved
<1>3. ToLink(l)' = ToLink(l)
  BY <1>2 DEF ToLink
<1>4. ASSUME l = "rule"
      PROVE  Fails(l)' = Fails(l)
  <2>1. db'["button"] = db["button"]
    BY <1>4, EndsAre
  <2>2. \A n : Called(db, "button", n)' = Called(db, "button", n)
    BY <1>1, <2>1
  <2>3. ToLink(l) \subseteq file[l]
    BY DEF ToLink
  <2>4. (\E y \in file[l] : Cardinality(Called(db, "button", y.label[1])) > 1)'
          = \E y \in file[l] : Cardinality(Called(db, "button", y.label[1])) > 1
    BY <2>2
  <2>5. (\E y, z \in ToLink(l) : y # z /\ SubSeq(Resolved(l, y), 1, 2) = SubSeq(Resolved(l, z), 1, 2))'
          = \E y, z \in ToLink(l) : y # z /\ SubSeq(Resolved(l, y), 1, 2) = SubSeq(Resolved(l, z), 1, 2)
    BY <1>2, <1>3, <2>3
  <2> QED BY <2>4, <2>5 DEF Fails
<1>5. l # "rule" => Fails(l)' = Fails(l)
  BY DEF Fails
<1> QED BY <1>2, <1>3, <1>4, <1>5

LEMMA BroughtStays ==
  ASSUME NEW k \in 1..9, file' = file, NEW i \in 1..7, i < k,
         \A j \in 1..7 : j < k => db'[Parts[j]] = db[Parts[j]],
         Parts[i] \in Links => FileLinks(Parts[i]), Brought(Parts[i])
  PROVE  Brought(Parts[i])'
<1>1. db'[Parts[i]] = db[Parts[i]]
  OBVIOUS
<1>2. ASSUME Parts[i] \in Links
      PROVE  BroughtLinks(Parts[i])'
  <2> DEFINE l == Parts[i]
  <2>1. \A n \in DOMAIN Ends[l] : db'[Ends[l][n]] = db[Ends[l][n]]
    <3> SUFFICES ASSUME NEW n \in DOMAIN Ends[l] PROVE db'[Ends[l][n]] = db[Ends[l][n]]
      OBVIOUS
    <3>1. PICK j \in 1..(i - 1) : Parts[j] = Ends[l][n]
      BY <1>2, EndsFirst
    <3>2. j \in 1..7 /\ j < k
      OBVIOUS
    <3> QED BY <3>1, <3>2
  <2>2. \A y \in file[l] : DOMAIN y.label = DOMAIN Ends[l]
    BY <1>2 DEF FileLinks
  <2>3. BroughtLinks(l) /\ l \in Links
    BY <1>2 DEF Brought
  <2>4. ToLink(l) \subseteq file[l]
    BY DEF ToLink
  <2> HIDE DEF l
  <2>5. /\ \A y \in file[l] : Resolved(l, y)' = Resolved(l, y)
        /\ ToLink(l)' = ToLink(l) /\ Fails(l)' = Fails(l)
    BY <2>1, <2>2, <2>3, SameResolved
  <2>6. db'[l] = db[l]
    BY <1>1 DEF l
  <2>7. BroughtLinks(l)'
    BY <2>3, <2>4, <2>5, <2>6 DEF BroughtLinks
  <2> QED BY <2>7 DEF l
<1>3. ASSUME Parts[i] \in Tables
      PROVE  BroughtRows(Parts[i])'
  BY <1>1, <1>3 DEF Brought, BroughtRows
<1> QED BY <1>2, <1>3 DEF Brought

\* A step of the import that restores part k.
LEMMA RestoredOn ==
  ASSUME NEW k \in 1..8, Restored(k), UNCHANGED <<file, before>>, before # <<>>, toRestore' = Rest(k + 1),
         \A l \in Links : FileLinks(l),
         \A j \in 1..7 : j # k => db'[Parts[j]] = db[Parts[j]],
         k # 8 => Brought(Parts[k])',
         k = 8 => rows' = file["config"].rows /\ palette' = file["config"].palette,
         Importing
  PROVE  Importing'
<1>1. ASSUME NEW i \in 1..7
      PROVE  IF i < k + 1 THEN Brought(Parts[i])' ELSE db'[Parts[i]] = {}
  <2>1. CASE i < k
    <3>1. Brought(Parts[i]) /\ k \in 1..9
      BY <2>1 DEF Restored
    <3> QED BY <2>1, <3>1, BroughtStays
  <2>2. CASE i = k
    BY <2>2
  <2>3. CASE i > k
    BY <2>3 DEF Restored
  <2> QED BY <2>1, <2>2, <2>3
<1>2. k + 1 \in 1..9 /\ (k + 1 = 9 => k = 8)
  OBVIOUS
<1>3. Restored(k + 1)'
  BY <1>1, <1>2 DEF Restored, Rest
<1> QED BY <1>2, <1>3 DEF Importing

LEMMA ImportingSame ==
  ASSUME Importing, UNCHANGED <<db, rows, palette, file, toRestore, before>>
  PROVE  Importing'
<1>1. \A l \in Links : BroughtLinks(l)' = BroughtLinks(l)
  BY DEF BroughtLinks, Fails, ToLink, Resolved, Found, Called
<1>2. \A p : Brought(p)' = Brought(p)
  BY <1>1 DEF Brought, BroughtRows
<1>3. \A k \in 1..9 : Restored(k)' = Restored(k)
  BY <1>2 DEF Restored, Rest
<1> QED BY <1>3 DEF Importing

LEMMA ImportImporting ==
  ASSUME IInv, BackupInv, ImportStep
  PROVE  Importing'
<1>1. CASE ImportBegin
  <2>1. toRestore' = Rest(1) /\ \A i \in 1..7 : db'[Parts[i]] = {}
    BY <1>1, SoundWiped, PartsAre, RestIs DEF BackupInv, Tidy, ImportBegin
  <2>2. Restored(1)'
    BY <2>1 DEF Restored, Rest
  <2>3. before'.data = [db |-> db, last |-> last, rows |-> rows, palette |-> palette]
    <3>1. before' = [data |-> Everything, unread |-> unread]
      BY <1>1 DEF ImportBegin
    <3> QED BY <3>1 DEF Everything
  <2>4. \E d, l, r, c : before'.data = [db |-> d, last |-> l, rows |-> r, palette |-> c]
    BY <2>3
  <2>5. \E k \in 1..9 : Restored(k)'
    BY <2>2
  <2> QED BY <2>4, <2>5 DEF Importing
<1>2. CASE Commit \/ ImportFails
  BY <1>2 DEF Commit, ImportFails, Rollback, Importing
<1>3. ASSUME before # <<>>
      PROVE  /\ \A t \in Tables : FileTable(t)
             /\ \A l \in Links : FileLinks(l)
             /\ DOMAIN db = Tables \cup Links \cup {"command"} /\ DOMAIN last = Tables
             /\ \A t \in Tables : last[t] \in Nat
  BY <1>3, FileOf DEF BackupInv, Tidy, Sound, Schema
<1>4. ASSUME NEW t \in Tables, RestoreTable(t)
      PROVE  Importing'
  <2>1. /\ Restoring(t) /\ toRestore' = Tail(toRestore) /\ before # <<>>
        /\ UNCHANGED <<file, before>>
    BY <1>4 DEF RestoreTable, Restoring
  <2>2. PICK k \in 1..9 : Restored(k)
    BY <2>1 DEF BackupInv, Importing
  <2>3. k \in 1..8 /\ Parts[k] = t /\ toRestore' = Rest(k + 1)
    BY <2>1, <2>2, NextPart
  <2>4. k # 8
    BY <2>3, PartsAre DEF Tables
  <2>5. Brought(t)'
    BY <1>3, <1>4, <2>1, RowsRestored, Parted DEF FileTable, Brought
  <2>6. \A j \in 1..7 : j # k => db'[Parts[j]] = db[Parts[j]]
    <3>1. \A j \in 1..7 : j # k => Parts[j] # t
      BY <2>3, PartsAre
    <3>2. \A p \in (Tables \cup Links) \ {t} : db'[p] = db[p]
      BY <1>3, <1>4, <2>1 DEF RestoreTable
    <3> QED BY <3>1, <3>2, PartsAre
  <2> QED BY <1>3, <2>1, <2>2, <2>3, <2>4, <2>5, <2>6, RestoredOn DEF BackupInv
<1>5. ASSUME NEW l \in Links, RestoreLinks(l)
      PROVE  Importing'
  <2>1. /\ Restoring(l) /\ toRestore' = Tail(toRestore) /\ before # <<>> /\ ~Fails(l)
        /\ UNCHANGED <<file, before>>
    BY <1>5 DEF RestoreLinks, Restoring
  <2>2. PICK k \in 1..9 : Restored(k)
    BY <2>1 DEF BackupInv, Importing
  <2>3. k \in 1..8 /\ Parts[k] = l /\ toRestore' = Rest(k + 1)
    BY <2>1, <2>2, NextPart
  <2>4. k # 8
    BY <2>3, PartsAre, EndsAre
  <2>5. db'[l] = {Resolved(l, y) : y \in ToLink(l)} /\ \A p \in (Tables \cup Links) \ {l} : db'[p] = db[p]
    BY <1>3, <1>5, <2>1 DEF RestoreLinks
  <2>6. Brought(l)'
    <3>1. \A n \in DOMAIN Ends[l] : db'[Ends[l][n]] = db[Ends[l][n]]
      BY <2>5, EndsAre, Parted DEF Tables
    <3>2. \A y \in file[l] : DOMAIN y.label = DOMAIN Ends[l]
      BY <1>3, <2>1 DEF FileLinks
    <3>3. /\ \A y \in file[l] : Resolved(l, y)' = Resolved(l, y)
          /\ ToLink(l)' = ToLink(l) /\ Fails(l)' = Fails(l)
      BY <2>1, <3>1, <3>2, SameResolved
    <3>4. ToLink(l) \subseteq file[l]
      BY DEF ToLink
    <3>5. BroughtLinks(l)'
      BY <2>1, <2>5, <3>3, <3>4 DEF BroughtLinks
    <3> QED BY <3>5, Parted DEF Brought
  <2>7. \A j \in 1..7 : j # k => db'[Parts[j]] = db[Parts[j]]
    <3>1. \A j \in 1..7 : j # k => Parts[j] # l
      BY <2>3, PartsAre
    <3> QED BY <2>5, <3>1, PartsAre
  <2> QED BY <1>3, <2>1, <2>2, <2>3, <2>4, <2>6, <2>7, RestoredOn DEF BackupInv
<1>6. CASE RestoreConfig
  <2>1. /\ Restoring("config") /\ toRestore' = Tail(toRestore) /\ before # <<>>
        /\ UNCHANGED <<file, before, db>>
        /\ rows' = file["config"].rows /\ palette' = file["config"].palette
    BY <1>6 DEF RestoreConfig, Restoring
  <2>2. PICK k \in 1..9 : Restored(k)
    BY <2>1 DEF BackupInv, Importing
  <2>3. k \in 1..8 /\ Parts[k] = "config" /\ toRestore' = Rest(k + 1)
    BY <2>1, <2>2, NextPart
  <2>4. k = 8
    BY <2>3, PartsAre
  <2> QED BY <1>3, <2>1, <2>2, <2>3, <2>4, RestoredOn DEF BackupInv
<1> QED BY <1>1, <1>2, <1>4, <1>5, <1>6 DEF ImportStep

LEMMA ImportingStep ==
  ASSUME IInv, BackupInv, [Next]_vars
  PROVE  Importing'
<1>1. CASE SettingsStep \/ FormStep \/ ExportBegin \/ ExportPart
  <2>1. before' = <<>>
    BY <1>1 DEF SettingsStep, FormStep, Relink, Create, Rename, Remove, Change, ExportBegin, ExportPart, Free
  <2> QED BY <2>1 DEF Importing
<1>2. CASE RunStep
  <2>1. CASE Issue
    <3>1. before' = <<>>
      BY <2>1 DEF Issue, Free, backupVars
    <3> QED BY <3>1 DEF Importing
  <2>2. CASE ~Issue
    BY <1>2, <2>2, ImportingSame
       DEF BackupInv, RunStep, Start, ReadCamera, WriteCamera, LogCamera, backupVars, configVars
  <2> QED BY <2>1, <2>2
<1>3. CASE Restart
  <2>1. before' = <<>>
    BY <1>3 DEF Restart, Rollback, Free
  <2> QED BY <2>1 DEF Importing
<1>4. CASE UNCHANGED vars
  BY <1>4, ImportingSame DEF BackupInv, vars, backupVars, configVars
<1> QED BY <1>1, <1>2, <1>3, <1>4, ImportImporting DEF Next

LEMMA InitBackup == Init => BackupInv
<1> SUFFICES ASSUME Init
             PROVE  BackupInv
  OBVIOUS
<1>1. Sound(db, last)
  <2>1. Schema(InitialDb)
    BY BackupAssumption
  <2>2. /\ DOMAIN InitialLast = Tables
        /\ \A t \in Tables : InitialLast[t] \in Nat /\ \A r \in InitialDb[t] : r.id <= InitialLast[t]
    BY BackupAssumption
  <2> QED BY <2>1, <2>2 DEF Init, Sound
<1>2. DOMAIN file = {}
  BY DEF Init
<1> QED BY <1>1, <1>2 DEF Init, BackupInv, Tidy, Copied, Importing, Exporting

\* The inductive invariant: the schema, what the file has, what of it is back.
THEOREM BackupInvariance == Spec => []BackupInv
<1>1. IInv /\ BackupInv /\ [Next]_vars => BackupInv'
  BY TidyStep, CopiedStep, ImportingStep DEF BackupInv
<1> QED BY <1>1, InitBackup, Invariance, PTL DEF Spec

-----------------------------------------------------------------------------
(* An import that does not end well. *)

\* The tables of the file, once an import began, in terms of those the export began with.
LEMMA FromOrigin ==
  ASSUME IInv, BackupInv, before # <<>>
  PROVE  /\ origin # <<>> /\ Schema(origin.db) /\ Schema(db)
         /\ \A t \in Tables : FileTable(t) /\ (touched = {} => file[t] = origin.db[t])
         /\ \A l \in Links : FileLinks(l)
<1>1. /\ \A t \in Tables : t \in DOMAIN file /\ FileTable(t)
      /\ \A l \in Links : FileLinks(l)
  BY FileOf DEF BackupInv
<1>2. file # <<>>
  <2>1. "mask" \in DOMAIN file
    BY <1>1 DEF Tables
  <2> QED BY <2>1
<1>3. origin # <<>> /\ Schema(origin.db) /\ Schema(db)
  BY <1>2 DEF BackupInv, Copied, Tidy, Sound
<1>4. ASSUME NEW t \in Tables, touched = {}
      PROVE  file[t] = origin.db[t]
  BY <1>1, <1>4 DEF FileTable, SteadyRows
<1> QED BY <1>1, <1>3, <1>4

LEMMA TwoRows ==
  ASSUME NEW S, IsFiniteSet(S), NEW a \in S, NEW b \in S, a # b
  PROVE  Cardinality(S) > 1
<1>1. IsFiniteSet({a}) /\ Cardinality({a}) = 1
  BY FS_Singleton
<1>2. {a} \in SUBSET S /\ {a} # S
  OBVIOUS
<1>3. Cardinality({a}) <= Cardinality(S) /\ Cardinality(S) # Cardinality({a})
  BY <1>2, FS_Subset
<1> QED BY <1>1, <1>3, FS_CardinalityType

\* No more buttons of a name are back than there were.
LEMMA CalledBrought ==
  ASSUME NEW t \in Tables, Table(t, file[t]), BroughtRows(t), NEW n
  PROVE  Cardinality(Called(db, t, n)) <= Cardinality(Called(file, t, n)) /\ IsFiniteSet(Called(file, t, n))
<1>1. PICK f \in Bijection(file[t], db[t]) : \A r \in file[t] : f[r].name = r.name
  BY DEF BroughtRows
<1> DEFINE S == Called(file, t, n)
           T == Called(db, t, n)
           g == [r \in S |-> f[r]]
<1>2. IsFiniteSet(S)
  BY FS_Subset DEF Called, Table
<1>3. f \in [file[t] -> db[t]] /\ \A q \in db[t] : \E r \in file[t] : f[r] = q
  BY <1>1 DEF Bijection, Surjection
<1>4. g \in [S -> T] /\ \A q \in T : \E r \in S : g[r] = q
  BY <1>1, <1>3 DEF Called
<1>5. g \in Surjection(S, T)
  BY <1>4 DEF Surjection
<1> QED BY <1>2, <1>5, FS_Surjection

\* The ends of a link, and their names.
LEMMA EndsOf ==
  ASSUME NEW d, Schema(d), NEW l \in Links, NEW x \in d[l]
  PROVE  /\ DOMAIN x = DOMAIN Ends[l] /\ x \in [DOMAIN Ends[l] -> Nat]
         /\ DOMAIN Label(d, l, x) = DOMAIN Ends[l]
         /\ \A k \in DOMAIN Ends[l] :
              \/ \E r \in d[Ends[l][k]] : r.id = x[k] /\ r.name = Label(d, l, x)[k] /\ r.name # "none"
              \/ <<l, k, x[k]>> = <<"assigned", 2, 0>> /\ Label(d, l, x)[k] = "none"
<1>1. LinksOf(d, l)
  BY SchemaIs
<1>2. DOMAIN x = DOMAIN Ends[l] /\ x \in [DOMAIN Ends[l] -> Nat]
  BY <1>1 DEF LinksOf
<1>3. ASSUME NEW k \in DOMAIN Ends[l]
      PROVE  \/ \E r \in d[Ends[l][k]] : r.id = x[k] /\ r.name = Label(d, l, x)[k] /\ r.name # "none"
             \/ <<l, k, x[k]>> = <<"assigned", 2, 0>> /\ Label(d, l, x)[k] = "none"
  <2>1. Ends[l][k] \in Tables /\ EndFound(d, l, k, x[k])
    BY <1>1, EndsAre DEF LinksOf, Tables
  <2>2. Table(Ends[l][k], d[Ends[l][k]])
    BY <2>1, SchemaIs
  <2>3. CASE Has(d, Ends[l][k], x[k])
    <3>1. PICK r \in d[Ends[l][k]] : r.id = x[k]
      BY <2>3 DEF Has
    <3>2. Label(d, l, x)[k] = r.name
      BY <1>2, <2>2, <2>3, <3>1, RowIs DEF Label
    <3> QED BY <2>2, <3>1, <3>2 DEF Table
  <2>4. CASE ~Has(d, Ends[l][k], x[k])
    BY <1>2, <2>1, <2>4 DEF EndFound, Label
  <2> QED BY <2>3, <2>4
<1> QED BY <1>2, <1>3 DEF Label

\* Links of the same names are the same, unless buttons share one.
LEMMA LabelsDiffer ==
  ASSUME NEW d, Schema(d), NEW l \in Links, NEW x \in d[l], NEW y \in d[l],
         NEW k \in DOMAIN Ends[l], Ends[l][k] # "button", Label(d, l, x)[k] = Label(d, l, y)[k]
  PROVE  x[k] = y[k]
<1>1. Ends[l][k] \in Tables
  BY EndsAre DEF Tables
<1>2. Table(Ends[l][k], d[Ends[l][k]])
  BY <1>1, SchemaIs
<1>3. CASE \E r \in d[Ends[l][k]] : r.id = x[k] /\ r.name = Label(d, l, x)[k] /\ r.name # "none"
  <2>1. PICK r \in d[Ends[l][k]] : r.id = x[k] /\ r.name = Label(d, l, x)[k] /\ r.name # "none"
    BY <1>3
  <2>2. PICK q \in d[Ends[l][k]] : q.id = y[k] /\ q.name = Label(d, l, y)[k]
    BY <2>1, EndsOf
  <2>3. r = q
    BY <1>2, <2>1, <2>2 DEF Table
  <2> QED BY <2>1, <2>2, <2>3
<1>4. CASE <<l, k, x[k]>> = <<"assigned", 2, 0>> /\ Label(d, l, x)[k] = "none"
  <2>1. x[k] = 0 /\ Label(d, l, y)[k] = "none"
    BY <1>4
  <2>2. y[k] = 0
    BY <2>1, EndsOf
  <2> QED BY <2>1, <2>2
<1> QED BY <1>3, <1>4, EndsOf

\* The rules of a file that nobody disturbed the making of cannot be restored.
LEMMA FailsFor ==
  ASSUME IInv, BackupInv, ImportFails, touched = {}
  PROVE  \E x \in origin.db.rule :
           Cardinality(Called(origin.db, "button", Label(origin.db, "rule", x)[1])) > 1
<1>1. Restoring("rule") /\ Fails("rule")
  BY DEF ImportFails, Fails
<1>2. before # <<>>
  BY <1>1 DEF Restoring
<1>3. PICK k \in 1..9 : Restored(k)
  BY <1>2 DEF BackupInv, Importing
<1>4. k \in 1..8 /\ Parts[k] = "rule"
  BY <1>1, <1>3, NextPart
<1>5. {"button", "tag", "mask"} \subseteq Tables /\ "rule" \in Links
  BY EndsAre DEF Tables
<1>6. ASSUME NEW n \in DOMAIN Ends["rule"]
      PROVE  BroughtRows(Ends["rule"][n])
  <2>1. k \in 1..7
    BY <1>4, PartsAre
  <2>2. Ends["rule"][n] \in Tables /\ \E j \in 1..(k - 1) : Parts[j] = Ends["rule"][n]
    BY <1>4, <1>5, <2>1, EndsFirst
  <2>3. PICK j \in 1..(k - 1) : Parts[j] = Ends["rule"][n]
    BY <2>2
  <2>4. j \in 1..7 /\ j < k
    BY <2>1
  <2> QED BY <1>3, <2>2, <2>3, <2>4 DEF Restored, Brought
<1>7. /\ Schema(origin.db) /\ \A t \in Tables : Table(t, db[t])
      /\ Table("button", file["button"]) /\ file["button"] = origin.db["button"]
      /\ FileLinks("rule")
  BY <1>2, <1>5, FromOrigin, SchemaIs DEF FileTable
<1>8. \A y \in file["rule"] : \E x \in origin.db["rule"] : y = Listing("rule", x)
  BY <1>7 DEF FileLinks
<1>9. \A n : /\ Cardinality(Called(db, "button", n)) <= Cardinality(Called(origin.db, "button", n))
             /\ IsFiniteSet(Called(origin.db, "button", n))
  <2>1. BroughtRows("button")
    BY <1>6, EndsAre
  <2>2. \A n : Called(file, "button", n) = Called(origin.db, "button", n)
    BY <1>7 DEF Called
  <2> QED BY <1>5, <1>7, <2>1, <2>2, CalledBrought
<1>10. CASE \E y \in file["rule"] : Cardinality(Called(db, "button", y.label[1])) > 1
  <2>1. PICK y \in file["rule"] : Cardinality(Called(db, "button", y.label[1])) > 1
    BY <1>10
  <2>2. PICK x \in origin.db["rule"] : y = Listing("rule", x)
    BY <1>8
  <2> DEFINE n == Label(origin.db, "rule", x)[1]
  <2>3. y.label[1] = n
    BY <2>2 DEF Listing
  <2>4. IsFiniteSet(Called(db, "button", n))
    BY <1>5, <1>7, FS_Subset DEF Called, Table
  <2>5. Cardinality(Called(db, "button", n)) \in Nat /\ Cardinality(Called(origin.db, "button", n)) \in Nat
    BY <1>9, <2>4, FS_CardinalityType
  <2>6. Cardinality(Called(origin.db, "button", n)) > 1
    BY <1>9, <2>1, <2>3, <2>5
  <2> QED BY <2>6
<1>11. CASE \E y, z \in ToLink("rule") :
              y # z /\ SubSeq(Resolved("rule", y), 1, 2) = SubSeq(Resolved("rule", z), 1, 2)
  <2>1. PICK y \in ToLink("rule"), z \in ToLink("rule") :
          y # z /\ SubSeq(Resolved("rule", y), 1, 2) = SubSeq(Resolved("rule", z), 1, 2)
    BY <1>11
  <2>2. y \in file["rule"] /\ z \in file["rule"]
    BY DEF ToLink
  <2>3. PICK x \in origin.db["rule"], w \in origin.db["rule"] :
          y = Listing("rule", x) /\ z = Listing("rule", w)
    BY <1>8, <2>2
  <2>4. x # w /\ y.label = Label(origin.db, "rule", x) /\ z.label = Label(origin.db, "rule", w)
    BY <2>1, <2>3 DEF Listing
  <2>5. ASSUME NEW i \in 1..2
        PROVE  y.label[i] = z.label[i]
    <3> DEFINE t == Ends["rule"][i]
    <3>1. DOMAIN y.label = 1..3 /\ DOMAIN z.label = 1..3 /\ t \in Tables
      BY <1>5, <1>7, <2>2, EndsAre DEF FileLinks
    <3>2. Resolved("rule", y) \in [1..3 -> Nat] /\ Resolved("rule", z) \in [1..3 -> Nat]
      BY <1>5, <1>7, <3>1, EndsAre, ResolvedIs
    <3>3. Resolved("rule", y)[i] = Resolved("rule", z)[i]
      BY <2>1, <3>2, TripleIsSeq, FirstTwoOf
    <3>4. /\ Resolved("rule", y)[i] = Found(t, y.label[i]) /\ Found(t, y.label[i]) # 0
          /\ Resolved("rule", z)[i] = Found(t, z.label[i])
      BY <3>1 DEF ToLink, Resolved
    <3>5. PICK r \in Called(db, t, y.label[i]), q \in Called(db, t, z.label[i]) : r.id = q.id
      BY <1>7, <3>1, <3>3, <3>4, FoundIs
    <3>6. r = q
      BY <1>7, <3>1, <3>5 DEF Table, Called
    <3> QED BY <3>6 DEF Called
  <2>6. x[2] = w[2]
    BY <1>5, <1>7, <2>4, <2>5, LabelsDiffer, EndsAre
  <2>7. x[1] # w[1]
    BY <1>7, <2>4, <2>6, SchemaIs DEF OneRule
  <2> DEFINE n == Label(origin.db, "rule", x)[1]
  <2>8. PICK r \in origin.db["button"] : r.id = x[1] /\ r.name = n
    BY <1>5, <1>7, EndsOf, EndsAre
  <2>9. PICK q \in origin.db["button"] : q.id = w[1] /\ q.name = Label(origin.db, "rule", w)[1]
    BY <1>5, <1>7, EndsOf, EndsAre
  <2>10. r \in Called(origin.db, "button", n) /\ q \in Called(origin.db, "button", n) /\ r # q
    BY <2>4, <2>5, <2>7, <2>8, <2>9 DEF Called
  <2>11. Cardinality(Called(origin.db, "button", n)) > 1
    BY <1>9, <2>10, TwoRows
  <2> QED BY <2>11
<1> QED BY <1>1, <1>10, <1>11 DEF Fails

\* What a rollback brings back is what there was.
LEMMA RolledBack ==
  ASSUME BackupInv, [Next]_vars, before # <<>>, before' = <<>>, ~Commit
  PROVE  Everything' = before.data
<1>1. Rollback
  <2>1. ~Free
    BY DEF Free
  <2>2. CASE ImportStep
    <3>1. ImportFails
      BY <2>1, <2>2 DEF ImportStep, ImportBegin, RestoreConfig, RestoreTable, RestoreLinks
    <3> QED BY <3>1 DEF ImportFails
  <2>3. CASE Restart
    BY <2>1, <2>3 DEF Restart
  <2>4. CASE ~ImportStep /\ ~Restart
    BY <2>1, <2>4 DEF Next, SettingsStep, FormStep, Relink, Create, Rename, Remove, Change, ExportBegin,
         ExportPart, RunStep, Issue, Start, ReadCamera, WriteCamera, LogCamera, vars, backupVars
  <2> QED BY <2>2, <2>3, <2>4
<1>2. PICK d, l, r, c : before.data = [db |-> d, last |-> l, rows |-> r, palette |-> c]
  BY DEF BackupInv, Importing
<1>3. db' = d /\ last' = l /\ rows' = r /\ palette' = c
  BY <1>1, <1>2 DEF Rollback
<1> QED BY <1>2, <1>3 DEF Everything

\* An import that fails or is cut off leaves all as it was, and a file that nobody disturbed
\* the making of fails only if two buttons of one name had rules.
THEOREM Atomic == Spec => ImportIsAtomic
<1>1. IInv /\ BackupInv /\ [Next]_vars =>
        [before # <<>> /\ before' = <<>> /\ ~Commit =>
           /\ Everything' = before.data
           /\ ImportFails /\ touched = {} =>
                \E x \in origin.db.rule :
                  Cardinality(Called(origin.db, "button", Label(origin.db, "rule", x)[1])) > 1]_vars
  BY RolledBack, FailsFor
<1> QED BY <1>1, Invariance, BackupInvariance, PTL DEF Spec, ImportIsAtomic

-----------------------------------------------------------------------------
(* An import that ends well. *)

\* The rows of the file are there again, and no others.
LEMMA RowsBack ==
  ASSUME NEW t \in Tables, Table(t, file[t]), BroughtRows(t)
  PROVE  /\ \A r \in file[t] : \E q \in db[t] : q.name = r.name /\ q.data = r.data
         /\ \A q \in db[t] : \E r \in file[t] : q.name = r.name /\ q.data = r.data
         /\ Cardinality(db[t]) = Cardinality(file[t])
<1>1. PICK f \in Bijection(file[t], db[t]) : \A r \in file[t] : f[r].name = r.name /\ f[r].data = r.data
  BY DEF BroughtRows
<1>2. f \in [file[t] -> db[t]] /\ \A q \in db[t] : \E r \in file[t] : f[r] = q
  BY DEF Bijection, Surjection
<1>3. ExistsBijection(file[t], db[t])
  BY DEF ExistsBijection
<1>4. Cardinality(db[t]) = Cardinality(file[t])
  BY <1>3, FS_Bijection DEF Table
<1> QED BY <1>1, <1>2, <1>4

\* A link whose ends have their names again is restored, with those names.
LEMMA LinkBack ==
  ASSUME Schema(db), Schema(origin.db), NEW l \in Links, NEW x \in origin.db[l], Listing(l, x) \in file[l],
         \A k \in DOMAIN Ends[l] : \A r \in origin.db[Ends[l][k]] :
           r.id = x[k] => Called(db, Ends[l][k], r.name) # {}
  PROVE  /\ Listing(l, x) \in ToLink(l)
         /\ Label(db, l, Resolved(l, Listing(l, x))) = Label(origin.db, l, x)
<1> DEFINE y == Listing(l, x)
           z == Resolved(l, y)
           n == Label(origin.db, l, x)
<1>1. y.label = n /\ DOMAIN n = DOMAIN Ends[l] /\ DOMAIN z = DOMAIN Ends[l]
  BY EndsOf DEF Listing, Resolved
<1>2. ASSUME NEW k \in DOMAIN Ends[l]
      PROVE  /\ Ends[l][k] \in Tables /\ Table(Ends[l][k], db[Ends[l][k]])
             /\ z[k] = Found(Ends[l][k], n[k])
  <2>1. Ends[l][k] \in Tables
    BY EndsAre DEF Tables
  <2> QED BY <1>1, <2>1, SchemaIs DEF Resolved
<1>3. ASSUME NEW k \in DOMAIN Ends[l]
      PROVE  \/ \E q \in db[Ends[l][k]] : q.id = z[k] /\ q.name = n[k] /\ z[k] # 0
             \/ <<l, k>> = <<"assigned", 2>> /\ z[k] = 0 /\ n[k] = "none"
  <2>1. CASE \E r \in origin.db[Ends[l][k]] : r.id = x[k] /\ r.name = n[k] /\ r.name # "none"
    <3>1. Called(db, Ends[l][k], n[k]) # {}
      BY <2>1
    <3>2. \E q \in Called(db, Ends[l][k], n[k]) : q.id = z[k]
      BY <1>2, <3>1, FoundIs
    <3>3. z[k] # 0
      BY <1>2, <3>1, FoundIs
    <3> QED BY <3>2, <3>3 DEF Called
  <2>2. CASE <<l, k, x[k]>> = <<"assigned", 2, 0>> /\ n[k] = "none"
    <3>1. Called(db, Ends[l][k], n[k]) = {}
      BY <1>2, <2>2 DEF Called, Table
    <3>2. z[k] = 0
      BY <1>2, <3>1, FoundIs
    <3>3. l = "assigned" /\ k = 2
      BY <2>2
    <3> QED BY <2>2, <3>2, <3>3
  <2> QED BY <2>1, <2>2, EndsOf
<1>4. y \in ToLink(l)
  <2>1. \A k \in DOMAIN y.label : z[k] = 0 => <<l, k>> = <<"assigned", 2>>
    BY <1>1, <1>3
  <2> QED BY <2>1 DEF ToLink
<1>5. ASSUME NEW k \in DOMAIN Ends[l]
      PROVE  Label(db, l, z)[k] = n[k]
  <2>1. Label(db, l, z)[k] = IF Has(db, Ends[l][k], z[k]) THEN Row(db, Ends[l][k], z[k]).name ELSE "none"
    BY <1>1 DEF Label
  <2>2. CASE \E q \in db[Ends[l][k]] : q.id = z[k] /\ q.name = n[k]
    BY <1>2, <2>1, <2>2, RowIs
  <2>3. CASE z[k] = 0 /\ n[k] = "none"
    <3>1. ~Has(db, Ends[l][k], z[k])
      BY <1>2, <2>3 DEF Has, Table
    <3> QED BY <2>1, <2>3, <3>1
  <2> QED BY <1>3, <2>2, <2>3
<1>6. Label(db, l, z) = n
  <2>1. DOMAIN Label(db, l, z) = DOMAIN n
    BY <1>1 DEF Label
  <2>2. \A k \in DOMAIN n : Label(db, l, z)[k] = n[k]
    BY <1>1, <1>5
  <2> HIDE DEF z
  <2>3. /\ n = [k \in DOMAIN n |-> n[k]]
        /\ Label(db, l, z) = [k \in DOMAIN Label(db, l, z) |-> Label(db, l, z)[k]]
    BY DEF Label
  <2> HIDE DEF n
  <2> QED BY <2>1, <2>2, <2>3
<1> QED BY <1>4, <1>6

\* What an import that is about to end has brought back.
LEMMA AllBack ==
  ASSUME BackupInv, before # <<>>, toRestore = <<>>
  PROVE  /\ \A t \in Tables : BroughtRows(t)
         /\ \A l \in Links : BroughtLinks(l)
         /\ rows = file["config"].rows /\ palette = file["config"].palette
<1>1. PICK k \in 1..9 : Restored(k)
  BY DEF BackupInv, Importing
<1>2. k = 9
  <2>1. Rest(k) = <<>>
    BY <1>1 DEF Restored
  <2>2. k \notin 1..8
    BY <2>1, RestIs
  <2> QED BY <2>2
<1>3. \A i \in 1..7 : Brought(Parts[i])
  BY <1>1, <1>2 DEF Restored
<1>4. \A p \in Tables \cup Links : Brought(p)
  BY <1>3, PartsAre
<1> QED BY <1>1, <1>2, <1>4 DEF Brought, Restored

\* Rows and links that nobody touched.
LEMMA SteadyBack ==
  ASSUME IInv, BackupInv, before # <<>>, toRestore = <<>>
  PROVE  /\ \A t \in Tables : \A r \in Steady(t) : \E q \in db[t] : q.name = r.name /\ q.data = r.data
         /\ \A l \in Links : \A x \in Steady(l) :
              /\ x \in origin.db[l] /\ Listing(l, x) \in ToLink(l)
              /\ Label(db, l, Resolved(l, Listing(l, x))) = Label(origin.db, l, x)
<1>1. Schema(db) /\ Schema(origin.db)
  BY FromOrigin
<1>2. ASSUME NEW t \in Tables, NEW r \in origin.db[t], <<t, r.id>> \notin touched
      PROVE  \E q \in db[t] : q.name = r.name /\ q.data = r.data
  <2>1. FileTable(t) /\ BroughtRows(t)
    BY FromOrigin, AllBack
  <2>2. r \in file[t]
    BY <1>2, <2>1 DEF FileTable, SteadyRows
  <2> QED BY <2>1, <2>2, RowsBack DEF FileTable
<1>3. ASSUME NEW l \in Links, NEW x \in Steady(l)
      PROVE  /\ x \in origin.db[l] /\ Listing(l, x) \in ToLink(l)
             /\ Label(db, l, Resolved(l, Listing(l, x))) = Label(origin.db, l, x)
  <2>1. x \in origin.db[l] /\ \A k \in DOMAIN x : <<Ends[l][k], x[k]>> \notin touched
    BY Parted DEF Steady
  <2>2. DOMAIN x = DOMAIN Ends[l]
    BY <1>1, <2>1, EndsOf
  <2>3. ASSUME NEW k \in DOMAIN Ends[l], NEW r \in origin.db[Ends[l][k]], r.id = x[k]
        PROVE  Called(db, Ends[l][k], r.name) # {}
    <3>1. Ends[l][k] \in Tables
      BY EndsAre DEF Tables
    <3>2. <<Ends[l][k], r.id>> \notin touched
      BY <2>1, <2>2, <2>3
    <3> QED BY <1>2, <3>1, <3>2 DEF Called
  <2>4. Listing(l, x) \in file[l]
    BY FromOrigin DEF FileLinks
  <2> QED BY <1>1, <2>1, <2>3, <2>4, LinkBack
<1>4. \A t \in Tables : \A r \in Steady(t) : r \in origin.db[t] /\ <<t, r.id>> \notin touched
  BY DEF Steady
<1> QED BY <1>2, <1>3, <1>4

\* All there was and no more, if nobody touched any.
LEMMA TableBack ==
  ASSUME IInv, BackupInv, before # <<>>, toRestore = <<>>, touched = {}, NEW t \in Tables
  PROVE  Labels(db, t) = Labels(origin.db, t) /\ Cardinality(db[t]) = Cardinality(origin.db[t])
<1>1. FileTable(t) /\ BroughtRows(t) /\ file[t] = origin.db[t]
  BY FromOrigin, AllBack
<1>2. /\ \A r \in file[t] : \E q \in db[t] : q.name = r.name /\ q.data = r.data
      /\ \A q \in db[t] : \E r \in file[t] : q.name = r.name /\ q.data = r.data
      /\ Cardinality(db[t]) = Cardinality(file[t])
  BY <1>1, RowsBack DEF FileTable
<1> QED BY <1>1, <1>2 DEF Labels

LEMMA LinksBack ==
  ASSUME IInv, BackupInv, before # <<>>, toRestore = <<>>, touched = {}, NEW l \in Links
  PROVE  Labels(db, l) = Labels(origin.db, l) /\ Cardinality(db[l]) = Cardinality(origin.db[l])
<1> DEFINE R(x) == Resolved(l, Listing(l, x))
<1>1. Schema(db) /\ Schema(origin.db) /\ FileLinks(l) /\ BroughtLinks(l) /\ IsFiniteSet(origin.db[l])
  BY FromOrigin, AllBack, SchemaIs DEF LinksOf
<1>2. ASSUME NEW x \in origin.db[l]
      PROVE  Listing(l, x) \in ToLink(l) /\ Label(db, l, R(x)) = Label(origin.db, l, x) /\ R(x) \in db[l]
  <2>1. x \in Steady(l)
    BY Parted DEF Steady
  <2>2. Listing(l, x) \in ToLink(l) /\ Label(db, l, R(x)) = Label(origin.db, l, x)
    BY <2>1, SteadyBack
  <2> QED BY <1>1, <2>2 DEF BroughtLinks
<1>3. ASSUME NEW z \in db[l]
      PROVE  \E x \in origin.db[l] : z = R(x)
  <2>1. PICK y \in ToLink(l) : z = Resolved(l, y)
    BY <1>1 DEF BroughtLinks
  <2>2. \E x \in origin.db[l] : y = Listing(l, x)
    BY <1>1, <2>1 DEF FileLinks, ToLink
  <2> QED BY <2>1, <2>2
<1>4. ASSUME NEW x \in origin.db[l], NEW w \in origin.db[l], R(x) = R(w)
      PROVE  x = w
  <2>1. CASE l = "rule"
    <3>1. Listing(l, x) = Listing(l, w)
      BY <1>1, <1>2, <1>4, <2>1 DEF BroughtLinks, Fails
    <3> QED BY <3>1 DEF Listing
  <2>2. CASE l # "rule"
    <3>1. Label(origin.db, l, x) = Label(origin.db, l, w)
      BY <1>2, <1>4
    <3>2. \A k \in DOMAIN Ends[l] : Ends[l][k] # "button"
      BY <2>2, EndsAre
    <3>3. \A k \in DOMAIN Ends[l] : x[k] = w[k]
      BY <1>1, <3>1, <3>2, LabelsDiffer
    <3>4. x \in [DOMAIN Ends[l] -> Nat] /\ w \in [DOMAIN Ends[l] -> Nat]
      BY <1>1, EndsOf
    <3> QED BY <3>3, <3>4
  <2> QED BY <2>1, <2>2
<1> HIDE DEF R
<1>5. Cardinality(db[l]) = Cardinality(origin.db[l])
  <2> DEFINE f == [x \in origin.db[l] |-> R(x)]
  <2>1. f \in [origin.db[l] -> db[l]] /\ \A z \in db[l] : \E x \in origin.db[l] : f[x] = z
    BY <1>2, <1>3
  <2>2. \A x, w \in origin.db[l] : f[x] = f[w] => x = w
    BY <1>4
  <2> HIDE DEF f
  <2>3. f \in Bijection(origin.db[l], db[l])
    BY <2>1, <2>2 DEF Bijection, Injection, Surjection, IsInjective
  <2>4. ExistsBijection(origin.db[l], db[l])
    BY <2>3 DEF ExistsBijection
  <2> QED BY <1>1, <2>4, FS_Bijection
<1>6. /\ \A z \in db[l] : \E x \in origin.db[l] : Label(db, l, z) = Label(origin.db, l, x)
      /\ \A x \in origin.db[l] : \E z \in db[l] : Label(db, l, z) = Label(origin.db, l, x)
  BY <1>2, <1>3
<1>7. Labels(db, l) = Labels(origin.db, l)
  BY <1>6, Parted DEF Labels
<1> QED BY <1>5, <1>7

LEMMA CommitWhole ==
  ASSUME IInv, BackupInv, Commit
  PROVE  /\ \A t \in Tables : Labels([origin.db EXCEPT ![t] = Steady(t)], t) \subseteq Labels(db, t)
         /\ \A l \in Links : {Label(origin.db, l, x) : x \in Steady(l)} \subseteq Labels(db, l)
         /\ touched = {} => \A p \in Tables \cup Links :
              Labels(db, p) = Labels(origin.db, p) /\ Cardinality(db[p]) = Cardinality(origin.db[p])
         /\ <<"config", 0>> \notin touched => rows = origin.rows /\ palette = origin.palette
<1>1. before # <<>> /\ toRestore = <<>>
  BY DEF Commit
<1>2. ASSUME NEW t \in Tables
      PROVE  Labels([origin.db EXCEPT ![t] = Steady(t)], t) \subseteq Labels(db, t)
  <2>1. t \in DOMAIN origin.db
    BY <1>1, FromOrigin DEF Schema
  <2>2. [origin.db EXCEPT ![t] = Steady(t)][t] = Steady(t)
    BY <2>1
  <2>3. Labels([origin.db EXCEPT ![t] = Steady(t)], t)
          = {[name |-> r.name, data |-> r.data] : r \in Steady(t)}
    BY <2>2 DEF Labels
  <2>4. \A r \in Steady(t) : \E q \in db[t] : q.name = r.name /\ q.data = r.data
    BY <1>1, SteadyBack
  <2> QED BY <2>3, <2>4 DEF Labels
<1>3. ASSUME NEW l \in Links
      PROVE  {Label(origin.db, l, x) : x \in Steady(l)} \subseteq Labels(db, l)
  <2>1. ASSUME NEW x \in Steady(l)
        PROVE  \E z \in db[l] : Label(db, l, z) = Label(origin.db, l, x)
    <3>1. Listing(l, x) \in ToLink(l) /\ Label(db, l, Resolved(l, Listing(l, x))) = Label(origin.db, l, x)
      BY <1>1, SteadyBack
    <3>2. Resolved(l, Listing(l, x)) \in db[l]
      BY <1>1, <3>1, AllBack DEF BroughtLinks
    <3> QED BY <3>1, <3>2
  <2> QED BY <2>1, Parted DEF Labels
<1>4. touched = {} => \A p \in Tables \cup Links :
        Labels(db, p) = Labels(origin.db, p) /\ Cardinality(db[p]) = Cardinality(origin.db[p])
  BY <1>1, TableBack, LinksBack
<1>5. <<"config", 0>> \notin touched => rows = origin.rows /\ palette = origin.palette
  <2>1. SteadyConfig(file["config"].rows, file["config"].palette)
    BY <1>1, FileOf DEF BackupInv, Copied
  <2> QED BY <1>1, <2>1, AllBack DEF SteadyConfig
<1> QED BY <1>2, <1>3, <1>4, <1>5

\* An import brings back every row and every link that nobody touched during the export, and
\* all there was, no more, if nobody touched any; the settings, too.
THEOREM Whole == Spec => BackupIsWhole
<1>1. IInv /\ BackupInv /\ [Next]_vars =>
        [Commit =>
           /\ \A t \in Tables : Labels([origin.db EXCEPT ![t] = Steady(t)], t) \subseteq Labels(db, t)
           /\ \A l \in Links : {Label(origin.db, l, x) : x \in Steady(l)} \subseteq Labels(db, l)
           /\ touched = {} => \A p \in Tables \cup Links :
                Labels(db, p) = Labels(origin.db, p) /\ Cardinality(db[p]) = Cardinality(origin.db[p])
           /\ <<"config", 0>> \notin touched => rows = origin.rows /\ palette = origin.palette]_vars
  BY CommitWhole
<1> QED BY <1>1, Invariance, BackupInvariance, PTL DEF Spec, BackupIsWhole
=============================================================================
