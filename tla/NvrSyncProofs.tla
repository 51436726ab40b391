---------------------------- MODULE NvrSyncProofs ----------------------------
(***************************************************************************)
(* What the NVR page leaves in the device table: the invariants AllSynced  *)
(* and OnePerChannel and the action property FlagsKept of NvrSync, for any *)
(* pages, posts, edits and changes of the cameras' names.                  *)
(***************************************************************************)
EXTENDS NvrSync, FiniteSetTheorems, TLAPS

\* Only channels that were connected are worked off.
Connected == \A p \in Pages : \A c \in todo[p] : shown[p][c] # None

AtWork(p) == Busy(p) \/ pc[p] = "refresh"

\* A post that nobody disturbed works on the rows as they are.
Undisturbed ==
  \A p \in Pages : alone[p] /\ AtWork(p) =>
    /\ pc[p] = "save" => LET i == plan[p][Min(todo[p])] IN Exists(i) /\ copy[p] = device[i]
    /\ all[p] => \A c \in Channels :
         IF c \in todo[p] THEN plan[p][c] = DeviceOf(c) ELSE InStep(c, shown[p][c])

\* What is not a step of a page: Next's last disjuncts.
World ==
  \/ \E c \in Channels : Rename(c)
  \/ Add \/ \E i \in Ids : Edit(i) \/ Delete(i)

IInv == TypeOK /\ Connected /\ Undisturbed /\ AllSynced

-----------------------------------------------------------------------------
(* The least and the last of a set of naturals. *)

\* A set of naturals with an element has a least one.
LEMMA LeastOf ==
  ASSUME NEW S, S \subseteq Nat, S # {}
  PROVE  \E x \in S : \A y \in S : x <= y
<1> DEFINE Below(n) == {m \in Nat : m < n}
           T == {Below(n) : n \in S}
           R == StrictSubsetOrdering(Nat)
<1>1. IsWellFoundedOn(R, FiniteSubsetsOf(Nat))
  BY FS_StrictSubsetOrderingWellFounded
<1>2. \A n \in S : Below(n) \in SUBSET Nat /\ IsFiniteSet(Below(n))
  <2> SUFFICES ASSUME NEW n \in S PROVE IsFiniteSet(Below(n))
    OBVIOUS
  <2>1. n \in Nat /\ \A m \in Below(n) : m <= n
    OBVIOUS
  <2> QED
    BY <2>1, Below(n) \in SUBSET Nat, FS_BoundedSetOfNaturals
<1>3. T \subseteq FiniteSubsetsOf(Nat) /\ T # {}
  BY <1>2 DEF FiniteSubsetsOf
<1> HIDE DEF R
<1>4. \E t \in T : \A u \in T : <<u, t>> \notin R
  <2> HIDE DEF T
  <2> QED
    BY <1>1, <1>3, WFMin
<1>5. PICK x \in S : \A y \in S : <<Below(y), Below(x)>> \notin R
  BY <1>4
<1>6. ASSUME NEW y \in S, y < x PROVE FALSE
  <2>1. Below(y) \subseteq Below(x) /\ y \in Below(x) /\ y \notin Below(y)
    BY <1>6
  <2>2. <<Below(y), Below(x)>> \in R
    BY <2>1 DEF R, StrictSubsetOrdering
  <2> QED
    BY <1>5, <2>2
<1> QED
  BY <1>5, <1>6

\* Min(S), the channel a post does next, is one of S.
LEMMA MinIn ==
  ASSUME NEW S, S \subseteq Nat, S # {}
  PROVE  Min(S) \in S
<1>1. \E x \in S : \A y \in S : x =< y
  BY LeastOf
<1> QED
  BY <1>1 DEF Min

\* Last(S) is 0 for no elements and else the greatest, if S is bounded.
LEMMA LastOf ==
  ASSUME NEW S, S \subseteq Nat, NEW n \in Nat, \A x \in S : x <= n, S # {}
  PROVE  Last(S) \in S /\ \A x \in S : x <= Last(S)
<1> DEFINE R == {n - x : x \in S}
<1>1. R \subseteq Nat /\ R # {}
  <2>1. ASSUME NEW x \in S PROVE n - x \in Nat
    <3>1. x \in Nat /\ x <= n
      OBVIOUS
    <3> QED
      BY <3>1
  <2> QED
    BY <2>1
<1>2. PICK r \in R : \A y \in R : r <= y
  BY <1>1, LeastOf
<1>3. PICK x \in S : r = n - x
  BY <1>2
<1>4. \A y \in S : x >= y
  <2> SUFFICES ASSUME NEW y \in S PROVE x >= y
    OBVIOUS
  <2>1. n - x <= n - y
    BY <1>2, <1>3
  <2> QED
    BY <2>1
<1>5. Max(S) \in S /\ \A y \in S : Max(S) >= y
  BY <1>4 DEF Max
<1> QED
  BY <1>5 DEF Last

-----------------------------------------------------------------------------
(* The device of a channel. *)

On(c) == {i \in Ids : Exists(i) /\ device[i].channel = c /\ device[i].reolink}

\* DeviceOf is 0 for a channel without devices and else the last of them.
LEMMA DeviceOfIs ==
  ASSUME TypeOK, NEW c
  PROVE  /\ On(c) = {} => DeviceOf(c) = 0
         /\ On(c) # {} => DeviceOf(c) \in On(c) /\ \A i \in On(c) : i <= DeviceOf(c)
<1>1. DeviceOf(c) = Last(On(c))
  BY DEF DeviceOf, On
<1>2. On(c) \subseteq Nat /\ next \in Nat /\ \A i \in On(c) : i <= next
  <2>1. ASSUME NEW i \in On(c) PROVE i \in Nat /\ i <= next
    <3>1. i \in Ids /\ Exists(i) /\ i \in Nat /\ next \in Nat
      BY SyncAssumption DEF On, TypeOK
    <3> QED
      BY <3>1 DEF TypeOK
  <2> QED
    BY <2>1 DEF TypeOK
<1>3. CASE On(c) = {}
  BY <1>1, <1>3 DEF Last
<1>4. CASE On(c) # {}
  BY <1>1, <1>2, <1>4, LastOf
<1> QED
  BY <1>3, <1>4

\* A type of its own for 0.
LEMMA DeviceOfZero ==
  ASSUME TypeOK, NEW c
  PROVE  /\ DeviceOf(c) \in Ids \cup {0}
         /\ DeviceOf(c) # 0 => Exists(DeviceOf(c)) /\ device[DeviceOf(c)].channel = c
  BY DeviceOfIs DEF On

\* The channel that is next is one of those to do.
LEMMA NextTodo ==
  ASSUME TypeOK, NEW p \in Pages, Busy(p)
  PROVE  Min(todo[p]) \in todo[p] /\ Min(todo[p]) \in Channels
<1>1. todo[p] \subseteq Channels /\ todo[p] # {}
  BY DEF TypeOK
<1> QED
  BY <1>1, MinIn, SyncAssumption

LEMMA NoRowIsNone == NoRow \notin Rows
  BY SyncAssumption DEF NoRow, Rows

-----------------------------------------------------------------------------
(* The types. *)

LEMMA InitTypes == Init => TypeOK
<1> SUFFICES ASSUME Init PROVE TypeOK
  OBVIOUS
<1>1. /\ nvr \in [Channels -> Names] /\ next \in Nat \ {0}
      /\ moved \subseteq Channels /\ changes \in Nat
  BY DEF Init
<1>2. device \in [Ids -> Rows \cup {NoRow}] /\ \A i \in Ids : ~Exists(i)
  BY DEF Init, Exists
<1>3. /\ shown \in [Pages -> [Channels -> Names \cup {None}]]
      /\ ids \in [Pages -> [Channels -> Ids \cup {0}]] /\ plan \in [Pages -> [Channels -> Ids \cup {0}]]
      /\ all \in [Pages -> BOOLEAN] /\ alone \in [Pages -> BOOLEAN]
  BY DEF Init, Unknown
<1>4. /\ pc \in [Pages -> {"closed"}] /\ todo \in [Pages -> {{}}] /\ copy \in [Pages -> {NoRow}]
      /\ \A p \in Pages : pc[p] = "closed" /\ todo[p] = {} /\ copy[p] = NoRow
  BY DEF Init
<1> QED
  BY <1>1, <1>2, <1>3, <1>4 DEF TypeOK, Busy

\* The shape of what a page's post is about.
PostTypes ==
  /\ pc \in [Pages -> {"closed", "open", "next", "save", "refresh", "done", "failed"}]
  /\ todo \in [Pages -> SUBSET Channels] /\ copy \in [Pages -> Rows \cup {NoRow}]
  /\ plan \in [Pages -> [Channels -> Ids \cup {0}]]
  /\ \A p \in Pages : Busy(p) = (todo[p] # {}) /\ (pc[p] = "save") = (copy[p] # NoRow)

\* The shape of everything else.
TableTypes ==
  /\ nvr \in [Channels -> Names]
  /\ device \in [Ids -> Rows \cup {NoRow}]
  /\ shown \in [Pages -> [Channels -> Names \cup {None}]]
  /\ ids \in [Pages -> [Channels -> Ids \cup {0}]]
  /\ all \in [Pages -> BOOLEAN] /\ alone \in [Pages -> BOOLEAN]
  /\ next \in Nat \ {0} /\ \A i \in Ids : i >= next => ~Exists(i)
  /\ moved \subseteq Channels /\ changes \in Nat

LEMMA TypesAre == TypeOK <=> PostTypes /\ TableTypes
  BY DEF TypeOK, PostTypes, TableTypes

LEMMA TypesAreNext == TypeOK' <=> PostTypes' /\ TableTypes'
  BY DEF TypeOK, PostTypes, TableTypes

LEMMA FailTypes ==
  ASSUME PostTypes, NEW p \in Pages, Fail(p)
  PROVE  PostTypes'
<1>1. /\ pc' \in [Pages -> {"closed", "open", "next", "save", "refresh", "done", "failed"}]
      /\ todo' \in [Pages -> SUBSET Channels] /\ copy' \in [Pages -> Rows \cup {NoRow}]
      /\ plan' \in [Pages -> [Channels -> Ids \cup {0}]]
  BY DEF PostTypes, Fail, Unknown
<1>2. ASSUME NEW q \in Pages
      PROVE  Busy(q)' = (todo'[q] # {}) /\ (pc'[q] = "save") = (copy'[q] # NoRow)
  <2>1. CASE q = p
    <3>1. pc'[q] = "failed" /\ todo'[q] = {} /\ copy'[q] = NoRow
      BY <2>1 DEF PostTypes, Fail
    <3> QED
      BY <3>1 DEF Busy
  <2>2. CASE q # p
    <3>1. pc'[q] = pc[q] /\ todo'[q] = todo[q] /\ copy'[q] = copy[q]
      BY <2>2 DEF PostTypes, Fail
    <3> QED
      BY <3>1 DEF PostTypes, Busy
  <2> QED
    BY <2>1, <2>2
<1> QED
  BY <1>1, <1>2 DEF PostTypes

LEMMA FinishTypes ==
  ASSUME PostTypes, NEW p \in Pages, NEW c \in Channels, c \in todo[p], Finish(p, c)
  PROVE  PostTypes'
<1>1. /\ pc' \in [Pages -> {"closed", "open", "next", "save", "refresh", "done", "failed"}]
      /\ todo' \in [Pages -> SUBSET Channels] /\ copy' \in [Pages -> Rows \cup {NoRow}]
      /\ plan' \in [Pages -> [Channels -> Ids \cup {0}]]
  BY DEF PostTypes, Finish, Unknown
<1>2. ASSUME NEW q \in Pages
      PROVE  Busy(q)' = (todo'[q] # {}) /\ (pc'[q] = "save") = (copy'[q] # NoRow)
  <2>1. CASE q = p
    <3>1. /\ pc'[q] = (IF todo[p] # {c} THEN "next" ELSE IF all[p] THEN "refresh" ELSE "done")
          /\ todo'[q] = todo[p] \ {c} /\ copy'[q] = NoRow
      BY <2>1 DEF PostTypes, Finish
    <3>2. (todo[p] = {c}) <=> (todo[p] \ {c} = {})
      OBVIOUS
    <3> QED
      BY <3>1, <3>2 DEF Busy
  <2>2. CASE q # p
    <3>1. pc'[q] = pc[q] /\ todo'[q] = todo[q] /\ copy'[q] = copy[q]
      BY <2>2 DEF PostTypes, Finish
    <3> QED
      BY <3>1 DEF PostTypes, Busy
  <2> QED
    BY <2>1, <2>2
<1> QED
  BY <1>1, <1>2 DEF PostTypes

LEMMA PostingTypes ==
  ASSUME PostTypes, NEW p \in Pages, NEW cs \in SUBSET Channels,
         NEW ds \in [Channels -> Ids \cup {0}], NEW b, Post(p, cs, ds, b)
  PROVE  PostTypes'
<1>1. /\ pc' \in [Pages -> {"closed", "open", "next", "save", "refresh", "done", "failed"}]
      /\ todo' \in [Pages -> SUBSET Channels] /\ copy' \in [Pages -> Rows \cup {NoRow}]
      /\ plan' \in [Pages -> [Channels -> Ids \cup {0}]]
  BY DEF PostTypes, Post, Unknown
<1>2. ASSUME NEW q \in Pages
      PROVE  Busy(q)' = (todo'[q] # {}) /\ (pc'[q] = "save") = (copy'[q] # NoRow)
  <2>1. CASE q = p
    <3>1. /\ pc'[q] = (IF cs = {} THEN "refresh" ELSE "next")
          /\ todo'[q] = cs /\ copy'[q] = copy[q] /\ pc[q] # "save"
      BY <2>1 DEF PostTypes, Post
    <3> QED
      BY <3>1 DEF PostTypes, Busy
  <2>2. CASE q # p
    <3>1. pc'[q] = pc[q] /\ todo'[q] = todo[q] /\ copy'[q] = copy[q]
      BY <2>2 DEF PostTypes, Post
    <3> QED
      BY <3>1 DEF PostTypes, Busy
  <2> QED
    BY <2>1, <2>2
<1> QED
  BY <1>1, <1>2 DEF PostTypes

\* Every device's id is one that has been given.
LEMMA KnownStays ==
  ASSUME TableTypes, next' \in Nat \ {0}, next' >= next,
         \A i \in Ids : device'[i] = NoRow \/ device[i] # NoRow \/ i < next'
  PROVE  \A i \in Ids : i >= next' => ~Exists(i)'
  BY SyncAssumption DEF TableTypes, Exists

LEMMA QueryTypes ==
  ASSUME TypeOK, NEW p \in Pages, Query(p)
  PROVE  TypeOK'
<1>1. UNCHANGED <<nvr, device, next, all, todo, plan, copy, alone, moved, changes>>
  BY DEF Query, changeVars
<1>2. shown' \in [Pages -> [Channels -> Names \cup {None}]]
  <2>1. PICK online \in SUBSET Channels :
          shown' = [shown EXCEPT ![p] = [c \in Channels |-> IF c \in online THEN nvr[c] ELSE None]]
    BY DEF Query
  <2>2. [c \in Channels |-> IF c \in online THEN nvr[c] ELSE None] \in [Channels -> Names \cup {None}]
    BY DEF TypeOK
  <2> QED
    BY <2>1, <2>2 DEF TypeOK
<1>3. ids' \in [Pages -> [Channels -> Ids \cup {0}]]
  <2>1. [c \in Channels |-> DeviceOf(c)] \in [Channels -> Ids \cup {0}]
    BY DeviceOfZero
  <2> QED
    BY <2>1 DEF Query, TypeOK
<1>4. pc' = [pc EXCEPT ![p] = "open"] /\ ~Busy(p)
  BY DEF Query, Busy
<1>5. PostTypes'
  <2>1. ASSUME NEW q \in Pages
        PROVE  Busy(q)' = (todo'[q] # {}) /\ (pc'[q] = "save") = (copy'[q] # NoRow)
    <3>1. CASE q = p
      <4>1. pc'[q] = "open" /\ todo[q] = {} /\ pc[q] # "save" /\ copy[q] = NoRow
        BY <1>4, <3>1 DEF TypeOK, Busy
      <4> QED
        BY <1>1, <4>1 DEF Busy
    <3>2. CASE q # p
      BY <1>1, <1>4, <3>2 DEF TypeOK, Busy
    <3> QED
      BY <3>1, <3>2
  <2> QED
    BY <1>1, <1>4, <2>1 DEF PostTypes, TypeOK
<1>6. TableTypes'
  BY <1>1, <1>2, <1>3 DEF TableTypes, TypeOK, Exists
<1> QED
  BY <1>5, <1>6, TypesAreNext

LEMMA PostAllTypes ==
  ASSUME TypeOK, NEW p \in Pages, PostAll(p) \/ PostRow(p)
  PROVE  TypeOK'
<1>1. PICK cs \in SUBSET Channels, ds \in [Channels -> Ids \cup {0}], b \in BOOLEAN :
        Post(p, cs, ds, b)
  <2>1. CASE PostAll(p)
    <3>1. [c \in Channels |-> DeviceOf(c)] \in [Channels -> Ids \cup {0}]
      BY DeviceOfZero
    <3> QED
      BY <2>1, <3>1 DEF PostAll
  <2>2. CASE PostRow(p)
    BY <2>2 DEF PostRow, TypeOK
  <2> QED
    BY <2>1, <2>2
<1>2. PostTypes'
  BY <1>1, PostingTypes, TypesAre
<1>3. TableTypes'
  <2>1. UNCHANGED <<nvr, device, next, shown, ids, moved, changes>> /\ all' = [all EXCEPT ![p] = b]
        /\ alone' = [alone EXCEPT ![p] = TRUE]
    BY <1>1 DEF Post, pageVars, changeVars
  <2>2. all' \in [Pages -> BOOLEAN] /\ alone' \in [Pages -> BOOLEAN]
    BY <2>1 DEF TypeOK
  <2> QED
    BY <2>1, <2>2 DEF TableTypes, TypeOK, Exists
<1> QED
  BY <1>2, <1>3, TypesAreNext

LEMMA OnlyItsType ==
  ASSUME TypeOK, NEW p \in Pages, OnlyIts(p)
  PROVE  alone' \in [Pages -> BOOLEAN] /\ \A q \in Pages : alone'[q] => q = p /\ alone[q]
  BY DEF OnlyIts, TypeOK

LEMMA RowToSave ==
  ASSUME TypeOK, Connected, NEW p \in Pages, NEW c \in todo[p]
  PROVE  /\ shown[p][c] \in Names
         /\ [channel |-> c, reolink |-> TRUE, name |-> shown[p][c], flag |-> TRUE] \in Rows
         /\ pc[p] = "save" => [copy[p] EXCEPT !.name = shown[p][c]] \in Rows
<1>1. c \in Channels /\ shown[p][c] \in Names
  BY DEF TypeOK, Connected
<1>2. pc[p] = "save" => copy[p] \in Rows
  BY DEF TypeOK
<1> QED
  BY <1>1, <1>2 DEF Rows

LEMMA CreateTypes ==
  ASSUME TypeOK, Connected, NEW p \in Pages, Create(p)
  PROVE  TypeOK'
<1> DEFINE c == Min(todo[p])
<1>1. Busy(p) /\ c \in todo[p] /\ c \in Channels
  BY NextTodo DEF Create, Busy
<1>2. UNCHANGED <<nvr, shown, all, moved, changes>>
  BY DEF Create, changeVars
<1>3. CASE Taken(shown[p][c], 0)
  <2>1. Fail(p) /\ UNCHANGED <<device, next, ids, alone>>
    BY <1>3 DEF Create
  <2>2. TableTypes'
    BY <1>2, <2>1 DEF TableTypes, TypeOK, Exists
  <2> QED
    BY <2>1, <2>2, FailTypes, TypesAre, TypesAreNext
<1>4. CASE ~Taken(shown[p][c], 0)
  <2>1. /\ device' = [device EXCEPT ![next] = [channel |-> c, reolink |-> TRUE, name |-> shown[p][c], flag |-> TRUE]]
        /\ next' = next + 1 /\ (ids' = ids \/ ids' = [ids EXCEPT ![p][c] = next])
        /\ Finish(p, c) /\ OnlyIts(p) /\ next \in Ids
    BY <1>4 DEF Create
  <2>2. PostTypes'
    BY <1>1, <2>1, FinishTypes, TypesAre
  <2>3. [channel |-> c, reolink |-> TRUE, name |-> shown[p][c], flag |-> TRUE] \in Rows
    BY <1>1, RowToSave
  <2> HIDE DEF c
  <2>4. device' \in [Ids -> Rows \cup {NoRow}]
    BY <2>1, <2>3 DEF TypeOK
  <2>5. ids' \in [Pages -> [Channels -> Ids \cup {0}]]
    <3>1. CASE ids' = ids
      BY <3>1 DEF TypeOK
    <3>2. CASE ids' = [ids EXCEPT ![p][c] = next]
      BY <2>1, <3>2 DEF TypeOK
    <3> QED
      BY <2>1, <3>1, <3>2
  <2>6. next' \in Nat \ {0} /\ \A i \in Ids : i >= next' => ~Exists(i)'
    <3>1. next \in Nat \ {0} /\ next' = next + 1
      BY <2>1 DEF TypeOK
    <3>2. ASSUME NEW i \in Ids, i >= next' PROVE ~Exists(i)'
      <4>1. i \in Nat /\ i # next /\ i >= next
        BY <3>1, <3>2, SyncAssumption
      <4>2. device'[i] = device[i]
        BY <2>1, <4>1 DEF TypeOK
      <4> QED
        BY <4>1, <4>2 DEF TypeOK, Exists
    <3> QED
      BY <3>1, <3>2
  <2>7. TableTypes'
    BY <1>2, <2>1, <2>4, <2>5, <2>6, OnlyItsType DEF TableTypes, TypeOK
  <2> QED
    BY <2>2, <2>7, TypesAreNext
<1> QED
  BY <1>3, <1>4

LEMMA FetchTypes ==
  ASSUME TypeOK, NEW p \in Pages, Fetch(p)
  PROVE  TypeOK'
<1> DEFINE c == Min(todo[p])
           i == plan[p][c]
<1>1. Busy(p) /\ c \in todo[p] /\ c \in Channels
  BY NextTodo DEF Fetch, Busy
<1>2. UNCHANGED <<nvr, device, next, shown, ids, all, alone, moved, changes>>
  BY DEF Fetch, pageVars, changeVars
<1>3. TableTypes'
  BY <1>2 DEF TableTypes, TypeOK, Exists
<1>4. PostTypes'
  <2>1. CASE ~Exists(i)
    <3>1. Finish(p, c)
      BY <2>1 DEF Fetch
    <3> QED
      BY <1>1, <3>1, FinishTypes, TypesAre
  <2>2. CASE Exists(i)
    <3>1. /\ pc[p] = "next" /\ pc' = [pc EXCEPT ![p] = "save"] /\ copy' = [copy EXCEPT ![p] = device[i]]
          /\ todo' = todo /\ plan' = plan
      BY <2>2 DEF Fetch
    <3>2. device[i] \in Rows \cup {NoRow} /\ device[i] # NoRow
      BY <2>2 DEF Exists, TypeOK
    <3> HIDE DEF i
    <3>3. ASSUME NEW q \in Pages
          PROVE  Busy(q)' = (todo'[q] # {}) /\ (pc'[q] = "save") = (copy'[q] # NoRow)
      <4>1. CASE q = p
        <5>1. pc'[q] = "save" /\ copy'[q] = device[i] /\ todo'[q] # {}
          BY <1>1, <3>1, <4>1 DEF TypeOK
        <5> QED
          BY <3>2, <5>1 DEF Busy
      <4>2. CASE q # p
        BY <3>1, <4>2 DEF TypeOK, Busy
      <4> QED
        BY <4>1, <4>2
    <3> QED
      BY <3>1, <3>2, <3>3 DEF PostTypes, TypeOK
  <2> QED
    BY <2>1, <2>2
<1> QED
  BY <1>3, <1>4, TypesAreNext

LEMMA SaveTypes ==
  ASSUME TypeOK, Connected, NEW p \in Pages, Save(p)
  PROVE  TypeOK'
<1> DEFINE c == Min(todo[p])
           i == plan[p][c]
           row == [copy[p] EXCEPT !.name = shown[p][c]]
<1>1. Busy(p) /\ c \in todo[p] /\ c \in Channels
  BY NextTodo DEF Save, Busy
<1>2. UNCHANGED <<nvr, next, shown, ids, all, moved, changes>>
  BY DEF Save, pageVars, changeVars
<1>3. CASE Exists(i) /\ Taken(row.name, i)
  <2>1. Fail(p) /\ UNCHANGED <<device, alone>>
    BY <1>3 DEF Save
  <2>2. TableTypes'
    BY <1>2, <2>1 DEF TableTypes, TypeOK, Exists
  <2> QED
    BY <2>1, <2>2, FailTypes, TypesAre, TypesAreNext
<1>4. CASE ~(Exists(i) /\ Taken(row.name, i))
  <2>1. /\ device' = (IF Exists(i) THEN [device EXCEPT ![i] = row] ELSE device)
        /\ Finish(p, c) /\ OnlyIts(p)
    BY <1>4 DEF Save
  <2>2. PostTypes'
    BY <1>1, <2>1, FinishTypes, TypesAre
  <2>3. row \in Rows
    BY <1>1, RowToSave DEF Save
  <2> HIDE DEF row, i, c
  <2>4. device' \in [Ids -> Rows \cup {NoRow}]
    BY <2>1, <2>3 DEF TypeOK, Exists
  <2>5. \A j \in Ids : j >= next => ~Exists(j)'
    <3>1. ASSUME NEW j \in Ids, j >= next PROVE ~Exists(j)'
      <4>1. ~Exists(j)
        BY <3>1 DEF TypeOK
      <4>2. device'[j] = device[j]
        BY <2>1, <4>1 DEF TypeOK
      <4> QED
        BY <4>1, <4>2 DEF Exists
    <3> QED
      BY <3>1
  <2>6. TableTypes'
    BY <1>2, <2>1, <2>4, <2>5, OnlyItsType DEF TableTypes, TypeOK
  <2> QED
    BY <2>2, <2>6, TypesAreNext
<1> QED
  BY <1>3, <1>4

LEMMA RefreshTypes ==
  ASSUME TypeOK, NEW p \in Pages, Refresh(p)
  PROVE  TypeOK'
<1>1. /\ UNCHANGED <<nvr, device, next, shown, all, todo, plan, copy, alone, moved, changes>>
      /\ pc[p] = "refresh" /\ pc' = [pc EXCEPT ![p] = "done"]
  BY DEF Refresh, changeVars
<1>2. ids' \in [Pages -> [Channels -> Ids \cup {0}]]
  <2>1. [c \in Channels |-> DeviceOf(c)] \in [Channels -> Ids \cup {0}]
    BY DeviceOfZero
  <2> QED
    BY <2>1 DEF Refresh, TypeOK
<1>3. PostTypes'
  <2>1. ASSUME NEW q \in Pages
        PROVE  Busy(q)' = (todo'[q] # {}) /\ (pc'[q] = "save") = (copy'[q] # NoRow)
    <3>1. CASE q = p
      <4>1. pc'[q] = "done" /\ todo[q] = {} /\ copy[q] = NoRow
        BY <1>1, <3>1 DEF TypeOK, Busy
      <4> QED
        BY <1>1, <4>1 DEF Busy
    <3>2. CASE q # p
      BY <1>1, <3>2 DEF TypeOK, Busy
    <3> QED
      BY <3>1, <3>2
  <2> QED
    BY <1>1, <2>1 DEF PostTypes, TypeOK
<1>4. TableTypes'
  BY <1>1, <1>2 DEF TableTypes, TypeOK, Exists
<1> QED
  BY <1>3, <1>4, TypesAreNext

\* What the rest of the world does to the types: a camera, or one row.
LEMMA WorldTypes ==
  ASSUME TypeOK, World
  PROVE  TypeOK'
<1>1. UNCHANGED <<shown, ids, pc, all, todo, plan, copy>>
  BY DEF World, Rename, Add, Edit, Delete, pageVars, postVars
<1>2. nvr' \in [Channels -> Names] /\ alone' \in [Pages -> BOOLEAN]
  BY DEF World, Rename, Add, Edit, Delete, TypeOK
<1>3. /\ device' \in [Ids -> Rows \cup {NoRow}] /\ \A j \in Ids : j >= next' => ~Exists(j)'
      /\ next' \in Nat \ {0}
  <2>1. CASE \E c \in Channels : Rename(c)
    BY <2>1 DEF Rename, TypeOK, Exists
  <2>2. ASSUME NEW i \in Ids, NEW row \in Rows \cup {NoRow}, device' = [device EXCEPT ![i] = row],
               i < next', next' >= next, next' \in Nat \ {0}
        PROVE  device' \in [Ids -> Rows \cup {NoRow}] /\ \A j \in Ids : j >= next' => ~Exists(j)'
    <3>1. ASSUME NEW j \in Ids, j >= next' PROVE ~Exists(j)'
      <4>1. i \in Nat /\ j \in Nat /\ next \in Nat
        BY SyncAssumption DEF TypeOK
      <4>2. ~Exists(j) /\ j # i
        BY <2>2, <3>1, <4>1 DEF TypeOK
      <4>3. device'[j] = device[j]
        BY <2>2, <4>2 DEF TypeOK
      <4> QED
        BY <4>2, <4>3 DEF Exists
    <3> QED
      BY <2>2, <3>1 DEF TypeOK
  <2>3. CASE Add
    <3>1. PICK row \in Rows : device' = [device EXCEPT ![next] = row]
      BY <2>3 DEF Add
    <3>2. next \in Ids /\ next' = next + 1 /\ next \in Nat
      BY <2>3 DEF Add, TypeOK
    <3>3. next < next' /\ next' >= next /\ next' \in Nat \ {0}
      BY <3>2
    <3> QED
      BY <2>2, <3>1, <3>2, <3>3
  <2>4. ASSUME NEW i \in Ids, Edit(i) \/ Delete(i)
        PROVE  \E row \in Rows \cup {NoRow} : device' = [device EXCEPT ![i] = row]
    BY <2>4 DEF Edit, Delete
  <2>5. ASSUME NEW i \in Ids, Edit(i) \/ Delete(i)
        PROVE  next' = next /\ next \in Nat \ {0} /\ i < next
    <3>1. next' = next /\ Exists(i)
      BY <2>5 DEF Edit, Delete
    <3>2. next \in Nat \ {0} /\ i \in Nat
      BY SyncAssumption DEF TypeOK
    <3> QED
      BY <3>1, <3>2 DEF TypeOK
  <2>6. ASSUME NEW i \in Ids, Edit(i) \/ Delete(i)
        PROVE  /\ device' \in [Ids -> Rows \cup {NoRow}] /\ \A j \in Ids : j >= next' => ~Exists(j)'
               /\ next' \in Nat \ {0}
    BY <2>2, <2>4, <2>5, <2>6
  <2> QED
    BY <2>1, <2>3, <2>2, <2>6 DEF World, Add, TypeOK
<1>4. moved' \subseteq Channels /\ changes' \in Nat
  <2>1. \A row \in Rows : row.channel \in Channels
    BY DEF Rows
  <2>2. \A i \in Ids : Exists(i) => device[i].channel \in Channels
    BY <2>1 DEF TypeOK, Exists
  <2>3. CASE \E c \in Channels : Rename(c)
    BY <2>3 DEF Rename, Change, TypeOK
  <2>4. CASE Add
    BY <2>1, <2>4 DEF Add, Change, TypeOK
  <2>5. ASSUME NEW i \in Ids, Edit(i) PROVE moved' \subseteq Channels /\ changes' \in Nat
    BY <2>1, <2>2, <2>5 DEF Edit, Change, TypeOK
  <2>6. ASSUME NEW i \in Ids, Delete(i) PROVE moved' \subseteq Channels /\ changes' \in Nat
    BY <2>6 DEF Delete, Change, TypeOK
  <2> QED
    BY <2>3, <2>4, <2>5, <2>6 DEF World
<1>5. PostTypes /\ TableTypes
  BY TypesAre
<1>6. PostTypes'
  BY <1>1, <1>5 DEF PostTypes, Busy
<1>7. TableTypes'
  BY <1>1, <1>2, <1>3, <1>4, <1>5 DEF TableTypes
<1> QED
  BY <1>6, <1>7, TypesAreNext

LEMMA Types ==
  ASSUME TypeOK, Connected, [Next]_vars
  PROVE  TypeOK'
<1>1. CASE UNCHANGED vars
  <2>1. PostTypes /\ TableTypes
    BY TypesAre
  <2>2. PostTypes' /\ TableTypes'
    BY <1>1, <2>1 DEF PostTypes, TableTypes, vars, pageVars, postVars, changeVars, Busy, Exists
  <2> QED
    BY <2>2, TypesAreNext
<1>2. CASE Next
  BY <1>2, QueryTypes, PostAllTypes, CreateTypes, FetchTypes, SaveTypes, RefreshTypes, WorldTypes
     DEF Next, PostStep, World
<1> QED
  BY <1>1, <1>2

-----------------------------------------------------------------------------
(* What a post knows. *)

\* Connected, Undisturbed and AllSynced, for one page.
PageOK(p) ==
  /\ \A c \in todo[p] : shown[p][c] # None
  /\ alone[p] /\ pc[p] = "save" =>
       Exists(plan[p][Min(todo[p])]) /\ copy[p] = device[plan[p][Min(todo[p])]]
  /\ alone[p] /\ all[p] /\ AtWork(p) => \A c \in Channels :
       IF c \in todo[p] THEN plan[p][c] = DeviceOf(c) ELSE InStep(c, shown[p][c])
  /\ alone[p] /\ all[p] /\ pc[p] = "done" => \A c \in Channels : InStep(c, shown[p][c])

LEMMA PagesOK == Connected /\ Undisturbed /\ AllSynced <=> \A p \in Pages : PageOK(p)
  BY DEF Connected, Undisturbed, AllSynced, PageOK, AtWork, Busy

LEMMA PagesOKNext == Connected' /\ Undisturbed' /\ AllSynced' <=> \A p \in Pages : PageOK(p)'
  BY DEF Connected, Undisturbed, AllSynced, PageOK, AtWork, Busy

\* A page that does nothing, and whose post is disturbed by any change of the table.
LEMMA AtRest ==
  ASSUME NEW q \in Pages, PageOK(q),
         pc'[q] = pc[q], all'[q] = all[q], todo'[q] = todo[q], plan'[q] = plan[q],
         copy'[q] = copy[q], shown'[q] = shown[q],
         alone'[q] => alone[q] /\ device' = device
  PROVE  PageOK(q)'
<1>1. CASE ~alone'[q]
  BY <1>1 DEF PageOK
<1>2. CASE alone'[q]
  <2>1. alone[q] /\ device' = device
    BY <1>2
  <2>2. ASSUME NEW c
        PROVE  /\ DeviceOf(c)' = DeviceOf(c)
               /\ InStep(c, shown[q][c])' = InStep(c, shown[q][c]) /\ Exists(c)' = Exists(c)
    BY <2>1 DEF DeviceOf, InStep, Exists
  <2>3. AtWork(q)' = AtWork(q)
    BY DEF AtWork, Busy
  <2>4. Exists(plan[q][Min(todo[q])])' = Exists(plan[q][Min(todo[q])])
    BY <2>1 DEF Exists
  <2> QED
    BY <2>1, <2>2, <2>3, <2>4 DEF PageOK
<1> QED
  BY <1>1, <1>2

\* A page whose post is not at work.
LEMMA Stopped ==
  ASSUME NEW p \in Pages, todo'[p] = {}, pc'[p] \in {"open", "failed"}
  PROVE  PageOK(p)'
  BY DEF PageOK, AtWork, Busy

\* A page whose post has done a channel, if it is undisturbed and the others are as they were.
LEMMA Finished ==
  ASSUME TypeOK, NEW p \in Pages, PageOK(p), Busy(p), NEW c \in todo[p], Finish(p, c),
         shown' = shown, all' = all, alone'[p] => alone[p],
         alone[p] /\ all[p] =>
           /\ InStep(c, shown[p][c])'
           /\ \A d \in Channels \ {c} :
                /\ DeviceOf(d)' = DeviceOf(d)
                /\ DeviceOf(d) # 0 => device'[DeviceOf(d)].name = device[DeviceOf(d)].name
  PROVE  PageOK(p)'
<1>1. /\ todo'[p] = todo[p] \ {c}
      /\ pc'[p] = (IF todo[p] # {c} THEN "next" ELSE IF all[p] THEN "refresh" ELSE "done")
      /\ todo[p] # {c} => plan'[p] = plan[p]
  BY DEF Finish, TypeOK
<1>2. \A d \in todo'[p] : shown'[p][d] # None
  BY <1>1 DEF PageOK
<1>3. ASSUME alone'[p], all'[p], NEW d \in Channels, d \notin todo'[p]
      PROVE  InStep(d, shown[p][d])'
  <2>1. alone[p] /\ all[p]
    BY <1>3
  <2>2. CASE d = c
    BY <2>1, <2>2
  <2>3. CASE d # c
    <3>1. InStep(d, shown[p][d])
      BY <1>1, <1>3, <2>1, <2>3 DEF PageOK, AtWork
    <3>2. /\ DeviceOf(d)' = DeviceOf(d)
          /\ DeviceOf(d) # 0 => device'[DeviceOf(d)].name = device[DeviceOf(d)].name
      BY <2>1, <2>3
    <3> QED
      BY <3>1, <3>2 DEF InStep
  <2> QED
    BY <2>2, <2>3
<1>4. ASSUME alone'[p], all'[p], NEW d \in todo'[p]
      PROVE  plan'[p][d] = DeviceOf(d)'
  <2>1. alone[p] /\ all[p] /\ d \in todo[p] /\ d \in Channels \ {c} /\ todo[p] # {c}
    BY <1>1, <1>4 DEF TypeOK
  <2> QED
    BY <1>1, <2>1 DEF PageOK, AtWork
<1>5. pc'[p] # "save" /\ (pc'[p] = "done" => todo'[p] = {})
  BY <1>1
<1> QED
  BY <1>2, <1>3, <1>4, <1>5 DEF PageOK

-----------------------------------------------------------------------------
(* Each action keeps it. *)

LEMMA QueryPages ==
  ASSUME TypeOK, \A q \in Pages : PageOK(q), NEW p \in Pages, Query(p)
  PROVE  \A q \in Pages : PageOK(q)'
<1>1. /\ UNCHANGED <<nvr, device, next, all, todo, plan, copy, alone>>
      /\ pc' = [pc EXCEPT ![p] = "open"] /\ ~Busy(p)
  BY DEF Query, Busy
<1>2. ASSUME NEW q \in Pages PROVE PageOK(q)'
  <2>1. CASE q = p
    <3>1. pc'[q] = "open" /\ todo'[q] = {}
      BY <1>1, <2>1 DEF TypeOK
    <3> QED
      BY <3>1, Stopped
  <2>2. CASE q # p
    <3>1. pc'[q] = pc[q] /\ shown'[q] = shown[q]
      BY <1>1, <2>2 DEF Query, TypeOK
    <3> QED
      BY <1>1, <3>1, AtRest
  <2> QED
    BY <2>1, <2>2
<1> QED
  BY <1>2

LEMMA PostedPages ==
  ASSUME TypeOK, \A q \in Pages : PageOK(q), NEW p \in Pages,
         NEW cs \in SUBSET Channels, NEW ds, NEW b \in BOOLEAN,
         Post(p, cs, ds, b),
         \A c \in cs : shown[p][c] # None,
         b => \A c \in Channels : IF c \in cs THEN ds[c] = DeviceOf(c) ELSE InStep(c, shown[p][c])
  PROVE  \A q \in Pages : PageOK(q)'
<1>1. /\ UNCHANGED <<nvr, device, next, shown, copy>>
      /\ all' = [all EXCEPT ![p] = b] /\ alone' = [alone EXCEPT ![p] = TRUE]
      /\ pc' = [pc EXCEPT ![p] = IF cs = {} THEN "refresh" ELSE "next"]
      /\ todo' = [todo EXCEPT ![p] = cs]
      /\ plan' = [plan EXCEPT ![p] = IF cs = {} THEN Unknown ELSE ds]
  BY DEF Post, pageVars
<1>2. ASSUME NEW q \in Pages PROVE PageOK(q)'
  <2>1. CASE q = p
    <3>1. /\ pc'[q] = (IF cs = {} THEN "refresh" ELSE "next") /\ todo'[q] = cs
          /\ all'[q] = b /\ shown'[q] = shown[p] /\ (cs # {} => plan'[q] = ds)
      BY <1>1, <2>1 DEF TypeOK
    <3>2. \A c \in Channels : /\ DeviceOf(c)' = DeviceOf(c)
                              /\ InStep(c, shown[q][c])' = InStep(c, shown[p][c])
      BY <1>1, <2>1 DEF DeviceOf, InStep, Exists
    <3> QED
      BY <3>1, <3>2 DEF PageOK, AtWork, Busy
  <2>2. CASE q # p
    <3>1. /\ pc'[q] = pc[q] /\ all'[q] = all[q] /\ todo'[q] = todo[q] /\ plan'[q] = plan[q]
          /\ alone'[q] = alone[q]
      BY <1>1, <2>2 DEF TypeOK
    <3> QED
      BY <1>1, <3>1, AtRest
  <2> QED
    BY <2>1, <2>2
<1> QED
  BY <1>2

LEMMA PostPages ==
  ASSUME TypeOK, \A q \in Pages : PageOK(q), NEW p \in Pages, PostAll(p) \/ PostRow(p)
  PROVE  \A q \in Pages : PageOK(q)'
<1>1. CASE PostAll(p)
  <2> DEFINE cs == {c \in Channels : ~InStep(c, shown[p][c])}
             ds == [c \in Channels |-> DeviceOf(c)]
  <2>1. Post(p, cs, ds, TRUE)
    BY <1>1 DEF PostAll
  <2>2. \A c \in cs : shown[p][c] # None
    BY DEF InStep
  <2>3. \A c \in Channels : IF c \in cs THEN ds[c] = DeviceOf(c) ELSE InStep(c, shown[p][c])
    OBVIOUS
  <2> HIDE DEF ds
  <2> QED
    BY <2>1, <2>2, <2>3, PostedPages
<1>2. CASE PostRow(p)
  <2>1. PICK c \in Channels : shown[p][c] # None /\ Post(p, {c}, ids[p], FALSE)
    BY <1>2 DEF PostRow
  <2>2. {c} \in SUBSET Channels /\ \A d \in {c} : shown[p][d] # None
    BY <2>1
  <2> QED
    BY <2>1, <2>2, PostedPages
<1> QED
  BY <1>1, <1>2

\* The other pages, when one of them writes.
LEMMA Others ==
  ASSUME TypeOK, \A q \in Pages : PageOK(q), NEW p \in Pages, NEW q \in Pages, q # p,
         PostStep(p)
  PROVE  PageOK(q)'
<1>1. shown' = shown /\ all' = all
  BY DEF PostStep, Create, Fetch, Save, Refresh, pageVars
<1>2. pc'[q] = pc[q] /\ todo'[q] = todo[q] /\ plan'[q] = plan[q] /\ copy'[q] = copy[q]
  <2>1. ASSUME NEW c, Finish(p, c)
        PROVE  pc'[q] = pc[q] /\ todo'[q] = todo[q] /\ plan'[q] = plan[q] /\ copy'[q] = copy[q]
    BY <2>1 DEF Finish, TypeOK
  <2>2. CASE Fail(p)
    BY <2>2 DEF Fail, TypeOK
  <2>3. CASE Create(p)
    BY <2>1, <2>2, <2>3 DEF Create
  <2>4. CASE Save(p)
    BY <2>1, <2>2, <2>4 DEF Save
  <2>5. CASE Fetch(p)
    <3>1. CASE Exists(plan[p][Min(todo[p])])
      BY <2>5, <3>1 DEF Fetch, TypeOK
    <3>2. CASE ~Exists(plan[p][Min(todo[p])])
      BY <2>1, <2>5, <3>2 DEF Fetch
    <3> QED
      BY <3>1, <3>2
  <2>6. CASE Refresh(p)
    BY <2>6 DEF Refresh, TypeOK
  <2> QED
    BY <2>3, <2>4, <2>5, <2>6 DEF PostStep
<1>3. (alone' = alone /\ device' = device) \/ OnlyIts(p)
  BY DEF PostStep, Create, Fetch, Save, Refresh
<1>4. alone'[q] => alone[q] /\ device' = device
  BY <1>3, OnlyItsType
<1> QED
  BY <1>1, <1>2, <1>4, AtRest

LEMMA FailPage ==
  ASSUME TypeOK, NEW p \in Pages, Fail(p)
  PROVE  PageOK(p)'
<1>1. todo'[p] = {} /\ pc'[p] = "failed"
  BY DEF Fail, TypeOK
<1> QED
  BY <1>1, Stopped

LEMMA CreatePage ==
  ASSUME TypeOK, TypeOK', NEW p \in Pages, PageOK(p), Create(p)
  PROVE  PageOK(p)'
<1>1. PICK c \in todo[p] : c \in Channels /\ c = Min(todo[p]) /\ Busy(p)
  BY NextTodo DEF Create, Busy
<1>2. CASE Taken(shown[p][c], 0)
  BY <1>1, <1>2, FailPage DEF Create
<1>3. CASE ~Taken(shown[p][c], 0)
  <2>1. /\ device' = [device EXCEPT ![next] = [channel |-> c, reolink |-> TRUE, name |-> shown[p][c], flag |-> TRUE]]
        /\ Finish(p, c) /\ OnlyIts(p) /\ next \in Ids /\ shown' = shown /\ all' = all
        /\ next' = next + 1
    BY <1>1, <1>3 DEF Create
  <2>2. /\ device'[next] = [channel |-> c, reolink |-> TRUE, name |-> shown[p][c], flag |-> TRUE]
        /\ \A i \in Ids : i # next => device'[i] = device[i]
    BY <2>1 DEF TypeOK
  <2>3. ~Exists(next) /\ next \in Nat /\ \A i \in Ids : Exists(i) => i < next
    <3>1. next \in Nat /\ \A i \in Ids : i \in Nat /\ (i >= next => ~Exists(i))
      BY SyncAssumption DEF TypeOK
    <3> QED
      BY <2>1, <3>1
  <2>4. /\ device'[next] # NoRow /\ device'[next].channel = c /\ device'[next].name = shown[p][c]
        /\ device'[next].reolink
    <3>1. shown[p][c] # None
      BY <1>1 DEF PageOK
    <3> QED
      BY <2>2, <3>1 DEF NoRow
  <2>5. On(c)' = On(c) \cup {next}
    <3>1. \A i \in Ids : Exists(i)' <=> (i = next \/ Exists(i))
      BY <2>2, <2>4 DEF Exists
    <3>2. On(c)' = {i \in Ids : Exists(i)' /\ device'[i].channel = c /\ device'[i].reolink}
      BY DEF On
    <3> QED
      BY <2>1, <2>2, <2>3, <2>4, <3>1, <3>2 DEF On
  <2>6. DeviceOf(c)' = next
    <3>1. DeviceOf(c)' = Last(On(c)')
      BY DEF DeviceOf, On
    <3>2. On(c)' \subseteq Nat /\ \A i \in On(c)' : i <= next
      <4>1. ASSUME NEW i \in On(c) PROVE i \in Nat /\ i <= next
        <5>1. i \in Ids /\ Exists(i) /\ i \in Nat
          BY SyncAssumption DEF On
        <5> QED
          BY <2>3, <5>1
      <4> QED
        BY <2>3, <2>5, <4>1
    <3>3. Last(On(c)') \in On(c)' /\ \A i \in On(c)' : i <= Last(On(c)')
      BY <2>3, <2>5, <3>2, LastOf
    <3> QED
      BY <2>3, <2>5, <3>1, <3>2, <3>3
  <2>7. InStep(c, shown[p][c])'
    <3>1. device'[DeviceOf(c)'].name = shown'[p][c] /\ DeviceOf(c)' # 0
      BY <2>1, <2>4, <2>6, SyncAssumption
    <3> QED
      BY <3>1 DEF InStep
  <2>8. ASSUME NEW d \in Channels, d # c
        PROVE  /\ DeviceOf(d)' = DeviceOf(d)
               /\ DeviceOf(d) # 0 => device'[DeviceOf(d)].name = device[DeviceOf(d)].name
    <3>1. On(d)' = On(d)
      BY <2>1, <2>2, <2>3, <2>4, <2>8 DEF On, Exists
    <3>2. DeviceOf(d)' = DeviceOf(d)
      BY <3>1 DEF DeviceOf, On
    <3>3. DeviceOf(d) # 0 => Exists(DeviceOf(d)) /\ DeviceOf(d) \in Ids
      BY DeviceOfZero
    <3> QED
      BY <2>2, <2>3, <3>2, <3>3
  <2>9. alone'[p] => alone[p]
    BY <2>1, OnlyItsType
  <2> QED
    BY <1>1, <2>1, <2>7, <2>8, <2>9, Finished
<1> QED
  BY <1>2, <1>3

LEMMA FetchPage ==
  ASSUME TypeOK, NEW p \in Pages, PageOK(p), Fetch(p)
  PROVE  PageOK(p)'
<1> DEFINE c == Min(todo[p])
           i == plan[p][c]
<1>1. Busy(p) /\ c \in todo[p] /\ c \in Channels /\ i # 0
  BY NextTodo DEF Fetch, Busy
<1>2. UNCHANGED <<device, shown, all, alone>>
  BY DEF Fetch, pageVars
<1>3. CASE ~Exists(i)
  <2>1. Finish(p, c)
    BY <1>3 DEF Fetch
  <2>2. ~(alone[p] /\ all[p])
    BY <1>1, <1>3, DeviceOfZero DEF PageOK, AtWork
  <2> QED
    BY <1>1, <1>2, <2>1, <2>2, Finished
<1>4. CASE Exists(i)
  <2>1. /\ pc'[p] = "save" /\ copy'[p] = device[i]
        /\ todo' = todo /\ plan' = plan
    BY <1>4 DEF Fetch, TypeOK
  <2>2. \A d : /\ DeviceOf(d)' = DeviceOf(d)
               /\ InStep(d, shown[p][d])' = InStep(d, shown[p][d]) /\ Exists(d)' = Exists(d)
    BY <1>2 DEF DeviceOf, InStep, Exists
  <2>3. Exists(plan[p][Min(todo[p])])'
    BY <1>2, <1>4, <2>1 DEF Exists
  <2> QED
    BY <1>1, <1>2, <2>1, <2>2, <2>3 DEF PageOK, AtWork
<1> QED
  BY <1>3, <1>4

\* The rows are as they were, and there is none left to do.
LEMMA RefreshPage ==
  ASSUME TypeOK, NEW p \in Pages, PageOK(p), Refresh(p)
  PROVE  PageOK(p)'
<1>1. /\ UNCHANGED <<device, shown, all, todo, plan, copy, alone>>
      /\ pc[p] = "refresh" /\ pc'[p] = "done"
  BY DEF Refresh, TypeOK
<1>2. todo[p] = {}
  BY <1>1 DEF TypeOK, Busy
<1>3. \A c : InStep(c, shown[p][c])' = InStep(c, shown[p][c])
  BY <1>1 DEF DeviceOf, InStep, Exists
<1> QED
  BY <1>1, <1>2, <1>3 DEF PageOK, AtWork, Busy

LEMMA SavePage ==
  ASSUME TypeOK, NEW p \in Pages, PageOK(p), Save(p)
  PROVE  PageOK(p)'
<1>1. PICK c \in todo[p] : c \in Channels /\ c = Min(todo[p]) /\ Busy(p)
  BY NextTodo DEF Save, Busy
<1>2. PICK i : i = plan[p][c]
  OBVIOUS
<1>3. PICK row : row = [copy[p] EXCEPT !.name = shown[p][c]]
  OBVIOUS
<1>4. shown' = shown /\ all' = all /\ pc[p] = "save"
  BY DEF Save, pageVars
<1>5. CASE Exists(i) /\ Taken(row.name, i)
  BY <1>1, <1>2, <1>3, <1>5, FailPage DEF Save
<1>6. CASE ~(Exists(i) /\ Taken(row.name, i))
  <2>1. /\ device' = (IF Exists(i) THEN [device EXCEPT ![i] = row] ELSE device)
        /\ Finish(p, c) /\ OnlyIts(p)
    BY <1>1, <1>2, <1>3, <1>6 DEF Save
  <2>2. alone'[p] => alone[p]
    BY <2>1, OnlyItsType
  <2>3. ASSUME alone[p], all[p]
        PROVE  /\ InStep(c, shown[p][c])'
               /\ \A d \in Channels \ {c} :
                    /\ DeviceOf(d)' = DeviceOf(d)
                    /\ DeviceOf(d) # 0 => device'[DeviceOf(d)].name = device[DeviceOf(d)].name
    <3>1. Exists(i) /\ copy[p] = device[i] /\ i = DeviceOf(c) /\ i \in Ids /\ i # 0
      <4>1. Exists(i) /\ copy[p] = device[i] /\ i = DeviceOf(c)
        BY <1>1, <1>2, <1>4, <2>3 DEF PageOK, AtWork
      <4> QED
        BY <4>1, SyncAssumption DEF Exists
    <3>2. device[i] \in Rows /\ device[i].channel = c
      BY <3>1, DeviceOfZero DEF TypeOK, Exists
    <3>3. shown[p][c] \in Names \cup {None} /\ shown[p][c] # None
      BY <1>1 DEF PageOK, TypeOK
    <3>4. /\ row \in Rows /\ row.channel = c /\ row.name = shown[p][c]
          /\ row.reolink = device[i].reolink
      BY <1>1, <1>3, <3>1, <3>2, <3>3 DEF Rows
    <3>5. device'[i] = row /\ row # NoRow /\ \A j \in Ids : j # i => device'[j] = device[j]
      BY <2>1, <3>1, <3>4, NoRowIsNone DEF TypeOK
    <3>6. ASSUME NEW d
          PROVE  DeviceOf(d)' = DeviceOf(d)
      <4>1. \A j \in Ids : /\ Exists(j)' <=> Exists(j)
                           /\ device'[j].channel = device[j].channel
                           /\ device'[j].reolink = device[j].reolink
        BY <3>1, <3>2, <3>4, <3>5 DEF Exists
      <4>2. On(d)' = On(d)
        BY <4>1 DEF On
      <4> QED
        BY <4>2 DEF DeviceOf, On
    <3>7. InStep(c, shown[p][c])'
      <4>1. DeviceOf(c)' = i /\ device'[i].name = shown'[p][c] /\ i # 0
        BY <1>4, <3>1, <3>4, <3>5, <3>6
      <4> QED
        BY <4>1 DEF InStep
    <3>8. ASSUME NEW d \in Channels \ {c}, DeviceOf(d) # 0
          PROVE  device'[DeviceOf(d)].name = device[DeviceOf(d)].name
      <4>1. DeviceOf(d) \in Ids /\ device[DeviceOf(d)].channel = d
        BY <3>8, DeviceOfZero
      <4>2. DeviceOf(d) # i
        BY <3>2, <3>8, <4>1
      <4> QED
        BY <3>5, <4>1, <4>2
    <3> QED
      BY <3>6, <3>7, <3>8
  <2> QED
    BY <1>1, <1>4, <2>1, <2>2, <2>3, Finished
<1> QED
  BY <1>5, <1>6

LEMMA WorldPages ==
  ASSUME TypeOK, \A q \in Pages : PageOK(q), World
  PROVE  \A q \in Pages : PageOK(q)'
<1>1. /\ UNCHANGED <<shown, ids, pc, all, todo, plan, copy>>
      /\ (alone' = alone /\ device' = device) \/ alone' = [q \in Pages |-> FALSE]
  BY DEF World, Rename, Add, Edit, Delete, pageVars, postVars
<1> QED
  BY <1>1, AtRest

\* IInv is preserved by every step.
LEMMA InvariantKept == IInv /\ [Next]_vars => IInv'
<1> SUFFICES ASSUME IInv, [Next]_vars PROVE IInv'
  OBVIOUS
<1>1. TypeOK /\ Connected /\ \A q \in Pages : PageOK(q)
  BY PagesOK DEF IInv
<1>2. TypeOK'
  BY <1>1, Types
<1>3. \A q \in Pages : PageOK(q)'
  <2>1. CASE UNCHANGED vars
    BY <1>1, <2>1, AtRest DEF vars, pageVars, postVars
  <2>2. CASE World
    BY <1>1, <2>2, WorldPages
  <2>3. ASSUME NEW p \in Pages, Query(p) PROVE \A q \in Pages : PageOK(q)'
    BY <1>1, <2>3, QueryPages
  <2>4. ASSUME NEW p \in Pages, PostAll(p) \/ PostRow(p) PROVE \A q \in Pages : PageOK(q)'
    BY <1>1, <2>4, PostPages
  <2>5. ASSUME NEW p \in Pages, PostStep(p) PROVE \A q \in Pages : PageOK(q)'
    <3>1. PageOK(p)'
      BY <1>1, <1>2, <2>5, CreatePage, FetchPage, SavePage, RefreshPage DEF PostStep
    <3> QED
      BY <1>1, <2>5, <3>1, Others
  <2> QED
    BY <2>1, <2>2, <2>3, <2>4, <2>5 DEF Next, World
<1> QED
  BY <1>2, <1>3, PagesOKNext DEF IInv

\* The inductive invariant: the types, and what a post that nobody disturbed knows
\* of the rows it has still to do and of those it has done.
THEOREM Invariance == Spec => []IInv
<1>1. Init => IInv
  <2> SUFFICES ASSUME Init PROVE IInv
    OBVIOUS
  <2>1. \A p \in Pages : pc[p] = "closed" /\ todo[p] = {}
    BY DEF Init
  <2> QED
    BY <2>1, InitTypes DEF IInv, Connected, Undisturbed, AllSynced, AtWork, Busy
<1> QED
  BY <1>1, InvariantKept, PTL DEF Spec

\* nvr_sync_all: when it has ended, and nobody else has written since it began, every
\* channel of its page has a device with the name that the page showed, whatever the
\* pages, the edits and the collisions of names on the way.
THEOREM Synced == Spec => []AllSynced
BY Invariance, PTL DEF IInv

-----------------------------------------------------------------------------
(* The fields a sync has no business with. *)

LEMMA RowStays ==
  ASSUME IInv, NEW p \in Pages, PostStep(p), alone[p], NEW i \in Ids, Exists(i)
  PROVE  device'[i] = [device[i] EXCEPT !.name = device'[i].name]
<1>1. device[i] \in Rows
  BY DEF IInv, TypeOK, Exists
<1>2. device[i] = [device[i] EXCEPT !.name = device[i].name]
  BY <1>1 DEF Rows
<1>3. CASE Fetch(p) \/ Refresh(p)
  BY <1>2, <1>3 DEF Fetch, Refresh
<1>4. CASE Create(p)
  <2>1. i # next
    BY SyncAssumption DEF IInv, TypeOK
  <2>2. device' = device \/ \E row : device' = [device EXCEPT ![next] = row]
    BY <1>4 DEF Create
  <2>3. device'[i] = device[i]
    BY <2>1, <2>2 DEF IInv, TypeOK
  <2> QED
    BY <1>2, <2>3
<1>5. CASE Save(p)
  <2>1. PICK j : Exists(j) /\ copy[p] = device[j] /\ j = plan[p][Min(todo[p])]
    BY <1>5 DEF Save, IInv, Undisturbed, AtWork, Busy
  <2>2. CASE device' = device
    BY <1>2, <2>2
  <2>3. CASE \E n : device' = [device EXCEPT ![j] = [copy[p] EXCEPT !.name = n]]
    <3>1. PICK n : device' = [device EXCEPT ![j] = [copy[p] EXCEPT !.name = n]]
      BY <2>3
    <3>2. PICK row : row = [device[j] EXCEPT !.name = n]
      OBVIOUS
    <3>3. device'[i] = IF i = j THEN row ELSE device[i]
      BY <2>1, <3>1, <3>2 DEF IInv, TypeOK
    <3>4. CASE i = j
      <4>1. row.name = n
        BY <1>1, <3>2, <3>4 DEF Rows
      <4> QED
        BY <3>2, <3>3, <3>4, <4>1
    <3>5. CASE i # j
      BY <1>2, <3>3, <3>5
    <3> QED
      BY <3>4, <3>5
  <2> QED
    BY <1>5, <2>1, <2>2, <2>3 DEF Save
<1> QED
  BY <1>3, <1>4, <1>5 DEF PostStep

\* update_device_from_channel: the save of a whole row gives no field but the camera's
\* own another value, unless somebody else wrote between its read and its save.
THEOREM OwnFieldsOnly == Spec => FlagsKept
<1>1. IInv /\ [Next]_vars =>
        [\A p \in Pages : PostStep(p) /\ alone[p] =>
           \A i \in Ids : Exists(i) => device'[i] = [device[i] EXCEPT !.name = device'[i].name]]_vars
  BY RowStays
<1> QED
  BY <1>1, Invariance, PTL DEF Spec, FlagsKept

-----------------------------------------------------------------------------
(* A channel's devices. *)

\* Names are unique, and the devices of a channel where nothing has moved have the name
\* of its camera, which is the one that the pages show.
Named ==
  /\ \A i, j \in Ids : Exists(i) /\ Exists(j) /\ device[i].name = device[j].name => i = j
  /\ \A i \in Ids : Exists(i) /\ device[i].reolink /\ device[i].channel \notin moved =>
       device[i].name = nvr[device[i].channel]
  /\ \A p \in Pages : \A c \in Channels \ moved : shown[p][c] \in {None, nvr[c]}

\* An id for each channel, of the right device: one that has not been given later, and
\* that is on another channel only if it has been moved.
Right(f) ==
  \A c \in Channels :
    /\ f[c] < next
    /\ Exists(f[c]) /\ device[f[c]].reolink => device[f[c]].channel \in moved \cup {c}

\* Two rows of which one may be written over the other.
Alike(r, s) ==
  \/ r.channel = s.channel /\ r.reolink = s.reolink
  \/ r.channel \in moved /\ s.channel \in moved

\* The device that a post is saving, and its copy.
Saving(p) == plan[p][Min(todo[p])]
Fits(p) == pc[p] = "save" /\ Exists(Saving(p)) => Alike(copy[p], device[Saving(p)])

\* Stale as its page may be, a post has the right devices.
Posting(p) == Right(ids[p]) /\ Right(plan[p]) /\ Fits(p)

\* The same after a step, for an id for each channel that is given before it.
RightNext(f) ==
  \A c \in Channels :
    /\ f[c] < next'
    /\ f[c] \in Ids /\ device'[f[c]] # NoRow /\ device'[f[c]].reolink
         => device'[f[c]].channel \in moved' \cup {c}

\* A step that leaves the devices there were as they were, or between channels that have moved.
Gentle ==
  /\ next \in Nat /\ next' \in Nat /\ next <= next' /\ moved \subseteq moved'
  /\ \A i \in Ids : i < next /\ device'[i] # NoRow =>
       /\ Exists(i)
       /\ \/ device'[i].channel = device[i].channel /\ device'[i].reolink = device[i].reolink
          \/ device'[i].channel \in moved' /\ device[i].channel \in moved'

LEMMA GentleRight ==
  ASSUME TypeOK, Gentle, NEW f \in [Channels -> Ids \cup {0}], Right(f)
  PROVE  RightNext(f)
<1> SUFFICES ASSUME NEW c \in Channels
             PROVE  /\ f[c] < next'
                    /\ f[c] \in Ids /\ device'[f[c]] # NoRow /\ device'[f[c]].reolink
                         => device'[f[c]].channel \in moved' \cup {c}
  BY DEF RightNext
<1>1. PICK i : i = f[c]
  OBVIOUS
<1>2. i \in Nat /\ i < next /\ (Exists(i) /\ device[i].reolink => device[i].channel \in moved \cup {c})
  BY <1>1, SyncAssumption DEF Right
<1>3. i < next'
  BY <1>2 DEF Gentle
<1>4. ASSUME i \in Ids, device'[i] # NoRow, device'[i].reolink
      PROVE  device'[i].channel \in moved' \cup {c}
  <2>1. Exists(i) /\ moved \subseteq moved'
    BY <1>2, <1>4 DEF Gentle
  <2>2. CASE device'[i].channel = device[i].channel /\ device'[i].reolink = device[i].reolink
    BY <1>2, <1>4, <2>1, <2>2
  <2>3. CASE device'[i].channel \in moved'
    BY <2>3
  <2> QED
    BY <1>2, <1>4, <2>2, <2>3 DEF Gentle
<1> QED
  BY <1>1, <1>3, <1>4

LEMMA RightIs ==
  ASSUME NEW p \in Pages
  PROVE  /\ Right(ids[p])' <=> RightNext(ids'[p])
         /\ Right(plan[p])' <=> RightNext(plan'[p])
  BY DEF Right, RightNext, Exists

\* No device, and the device of each channel, are right.
LEMMA FreshRight ==
  ASSUME TypeOK, device' = device, next' = next, moved' = moved
  PROVE  /\ Unknown \in [Channels -> Ids \cup {0}]
         /\ RightNext([c \in Channels |-> DeviceOf(c)])
<1>1. Unknown \in [Channels -> Ids \cup {0}]
  BY DEF Unknown
<1>2. ASSUME NEW c \in Channels
      PROVE  /\ DeviceOf(c) < next'
             /\ DeviceOf(c) \in Ids /\ device'[DeviceOf(c)] # NoRow => device'[DeviceOf(c)].channel = c
  <2>1. CASE DeviceOf(c) = 0
    BY <2>1, SyncAssumption DEF TypeOK
  <2>2. CASE DeviceOf(c) # 0
    <3>1. DeviceOf(c) \in Ids /\ Exists(DeviceOf(c)) /\ device[DeviceOf(c)].channel = c
      BY <2>2, DeviceOfZero
    <3>2. DeviceOf(c) \in Nat /\ next \in Nat /\ ~(DeviceOf(c) >= next)
      BY <3>1, SyncAssumption DEF TypeOK
    <3> QED
      BY <3>1, <3>2
  <2> QED
    BY <2>1, <2>2
<1> QED
  BY <1>1, <1>2 DEF RightNext

LEMMA UnknownRight ==
  ASSUME TypeOK, next' \in Nat, next' >= next
  PROVE  RightNext(Unknown)
<1>1. \A c \in Channels : Unknown[c] = 0 /\ 0 \notin Ids
  BY SyncAssumption DEF Unknown
<1>2. 0 < next'
  BY DEF TypeOK
<1> QED
  BY <1>1, <1>2 DEF RightNext

\* Every write of a page is gentle: a copy is written over the row it is of.
LEMMA PagesGentle ==
  ASSUME TypeOK, Connected, NEW p \in Pages, Posting(p),
         Query(p) \/ PostAll(p) \/ PostRow(p) \/ PostStep(p)
  PROVE  Gentle
<1> USE DEF Gentle
<1>1. next \in Nat /\ \A i \in Ids : Exists(i) <=> device[i] # NoRow
  BY DEF TypeOK, Exists
<1>2. moved' = moved
  BY DEF Query, PostAll, PostRow, Post, PostStep, Create, Fetch, Save, Refresh, changeVars
<1>3. CASE device' = device /\ next' = next
  BY <1>1, <1>2, <1>3
<1>4. CASE Create(p)
  <2>1. CASE ~(device' = device /\ next' = next)
    <3>1. PICK row : device' = [device EXCEPT ![next] = row]
      BY <1>4, <2>1 DEF Create
    <3>2. next' = next + 1
      BY <1>4, <2>1 DEF Create
    <3>3. \A i \in Ids : i < next => device'[i] = device[i]
      BY <1>1, <3>1, SyncAssumption DEF TypeOK
    <3> QED
      BY <1>1, <1>2, <3>2, <3>3
  <2> QED
    BY <1>3, <2>1
<1>5. CASE Save(p)
  <2>1. next' = next /\ pc[p] = "save"
    BY <1>5 DEF Save
  <2>2. CASE device' # device
    <3>1. PICK i : i = Saving(p)
      OBVIOUS
    <3>2. Exists(i)
      BY <1>5, <2>2, <3>1 DEF Save, Saving
    <3>3. PICK row : /\ device' = [device EXCEPT ![i] = row]
                     /\ row = [copy[p] EXCEPT !.name = shown[p][Min(todo[p])]]
      BY <1>5, <2>2, <3>1 DEF Save, Saving
    <3>4. row.channel = copy[p].channel /\ row.reolink = copy[p].reolink
      BY <2>1, <3>3 DEF TypeOK, Rows
    <3>5. Alike(copy[p], device[i])
      BY <2>1, <3>1, <3>2 DEF Posting, Fits
    <3>6. \A j \in Ids : device'[j] = IF j = i THEN row ELSE device[j]
      BY <3>3 DEF TypeOK
    <3>7. \/ row.channel = device[i].channel /\ row.reolink = device[i].reolink
          \/ row.channel \in moved' /\ device[i].channel \in moved'
      BY <1>2, <3>4, <3>5 DEF Alike
    <3>8. ASSUME NEW j \in Ids, device'[j] # NoRow
          PROVE  /\ Exists(j)
                 /\ \/ device'[j].channel = device[j].channel /\ device'[j].reolink = device[j].reolink
                    \/ device'[j].channel \in moved' /\ device[j].channel \in moved'
      <4>1. CASE j = i
        BY <3>2, <3>6, <3>7, <4>1
      <4>2. CASE j # i
        BY <1>1, <3>6, <3>8, <4>2
      <4> QED
        BY <4>1, <4>2
    <3> QED
      BY <1>1, <1>2, <2>1, <3>8
  <2> QED
    BY <1>3, <2>1, <2>2
<1>6. CASE Query(p) \/ PostAll(p) \/ PostRow(p) \/ Fetch(p) \/ Refresh(p)
  BY <1>3, <1>6 DEF Query, PostAll, PostRow, Post, Fetch, Refresh
<1> QED
  BY <1>4, <1>5, <1>6 DEF PostStep

\* So is what the forms do, by what it means that a channel has moved.
LEMMA WorldGentle ==
  ASSUME TypeOK, World
  PROVE  Gentle
<1> USE DEF Gentle
<1>1. next \in Nat /\ \A i \in Ids : Exists(i) <=> device[i] # NoRow
  BY DEF TypeOK, Exists
<1>2. CASE \E c \in Channels : Rename(c)
  BY <1>1, <1>2 DEF Rename
<1>3. CASE Add
  <2>1. PICK row \in Rows : device' = [device EXCEPT ![next] = row]
    BY <1>3 DEF Add
  <2>2. next' = next + 1 /\ moved \subseteq moved'
    BY <1>3 DEF Add
  <2>3. \A i \in Ids : i < next => device'[i] = device[i]
    BY <1>1, <2>1, SyncAssumption DEF TypeOK
  <2> QED
    BY <1>1, <2>2, <2>3
<1>4. ASSUME NEW i \in Ids, Edit(i) PROVE Gentle
  <2>1. PICK row \in Rows :
          /\ device' = [device EXCEPT ![i] = row]
          /\ moved' = (IF row = [device[i] EXCEPT !.flag = row.flag] THEN moved
                       ELSE moved \cup {row.channel, device[i].channel})
    BY <1>4 DEF Edit
  <2>2. Exists(i) /\ device[i] \in Rows /\ next' = next
    BY <1>4 DEF Edit, Exists, TypeOK
  <2>3. \/ row.channel = device[i].channel /\ row.reolink = device[i].reolink
        \/ row.channel \in moved' /\ device[i].channel \in moved'
    BY <2>1, <2>2 DEF Rows
  <2>4. \A j \in Ids : device'[j] = IF j = i THEN row ELSE device[j]
    BY <2>1 DEF TypeOK
  <2>5. moved \subseteq moved'
    BY <2>1
  <2>6. ASSUME NEW j \in Ids, device'[j] # NoRow
        PROVE  /\ Exists(j)
               /\ \/ device'[j].channel = device[j].channel /\ device'[j].reolink = device[j].reolink
                  \/ device'[j].channel \in moved' /\ device[j].channel \in moved'
    <3>1. CASE j = i
      BY <2>2, <2>3, <2>4, <3>1
    <3>2. CASE j # i
      BY <1>1, <2>4, <2>6, <3>2
    <3> QED
      BY <3>1, <3>2
  <2> QED
    BY <1>1, <2>2, <2>5, <2>6
<1>5. ASSUME NEW i \in Ids, Delete(i) PROVE Gentle
  BY <1>1, <1>5 DEF Delete, TypeOK
<1> QED
  BY <1>2, <1>3, <1>4, <1>5 DEF World

\* A page that does nothing while another step is made.
LEMMA RestKnows ==
  ASSUME TypeOK, Gentle, NEW q \in Pages, Posting(q),
         ids'[q] = ids[q], plan'[q] = plan[q], pc'[q] = pc[q], todo'[q] = todo[q], copy'[q] = copy[q]
  PROVE  Posting(q)'
<1>1. RightNext(ids[q]) /\ RightNext(plan[q])
  BY GentleRight DEF TypeOK, Posting
<1>2. Right(ids[q])' /\ Right(plan[q])'
  BY <1>1, RightIs
<1>3. Fits(q)'
  <2> SUFFICES ASSUME pc[q] = "save", Exists(Saving(q))' PROVE Alike(copy[q], device[Saving(q)])'
    BY DEF Fits
  <2>1. PICK i : i = Saving(q)
    OBVIOUS
  <2>2. Saving(q)' = i /\ i \in Ids /\ device'[i] # NoRow
    BY <2>1 DEF Saving, Exists
  <2>3. i < next
    <3>1. Min(todo[q]) \in Channels
      BY NextTodo DEF Busy
    <3> QED
      BY <2>1, <3>1 DEF Posting, Right, Saving
  <2>4. /\ Exists(i) /\ moved \subseteq moved'
        /\ \/ device'[i].channel = device[i].channel /\ device'[i].reolink = device[i].reolink
           \/ device'[i].channel \in moved' /\ device[i].channel \in moved'
    BY <2>2, <2>3 DEF Gentle
  <2>5. Alike(copy[q], device[i])
    BY <2>1, <2>4 DEF Posting, Fits
  <2>6. \/ copy[q].channel = device'[i].channel /\ copy[q].reolink = device'[i].reolink
        \/ copy[q].channel \in moved' /\ device'[i].channel \in moved'
    BY <2>4, <2>5 DEF Alike
  <2> QED
    BY <2>2, <2>6 DEF Alike
<1> QED
  BY <1>2, <1>3 DEF Posting

\* A page that goes on to another row, or stops.
LEMMA MovesOn ==
  ASSUME TypeOK, Gentle, NEW p \in Pages, Posting(p),
         plan'[p] = plan[p] \/ plan'[p] = Unknown, pc'[p] # "save", RightNext(ids'[p])
  PROVE  Posting(p)'
<1>1. RightNext(plan'[p])
  <2>1. CASE plan'[p] = plan[p]
    BY <2>1, GentleRight DEF TypeOK, Posting
  <2>2. CASE plan'[p] = Unknown
    BY <2>2, UnknownRight DEF Gentle
  <2> QED
    BY <2>1, <2>2
<1>2. Fits(p)'
  BY DEF Fits
<1> QED
  BY <1>1, <1>2, RightIs DEF Posting

LEMMA FinishMovesOn ==
  ASSUME TypeOK, NEW p \in Pages, Fail(p) \/ \E c : Finish(p, c)
  PROVE  (plan'[p] = plan[p] \/ plan'[p] = Unknown) /\ pc'[p] # "save"
  BY DEF Fail, Finish, TypeOK

LEMMA PageKnows ==
  ASSUME TypeOK, Connected, NEW p \in Pages, Posting(p),
         Query(p) \/ PostAll(p) \/ PostRow(p) \/ PostStep(p)
  PROVE  Posting(p)'
<1>1. Gentle
  BY PagesGentle
<1>2. RightNext(ids[p]) /\ RightNext(plan[p])
  BY <1>1, GentleRight DEF TypeOK, Posting
<1>3. CASE Query(p) \/ Refresh(p)
  <2>1. /\ device' = device /\ next' = next /\ moved' = moved /\ plan' = plan
        /\ ids'[p] = [c \in Channels |-> DeviceOf(c)] /\ pc'[p] \in {"open", "done"}
    BY <1>3 DEF Query, Refresh, changeVars, TypeOK
  <2>2. RightNext(ids'[p])
    BY <2>1, FreshRight
  <2> QED
    BY <1>1, <2>1, <2>2, MovesOn
<1>4. ASSUME NEW cs, NEW ds, NEW b, Post(p, cs, ds, b), RightNext(ds) PROVE Posting(p)'
  <2>1. /\ ids' = ids /\ pc'[p] # "save"
        /\ plan'[p] = Unknown \/ plan'[p] = ds
    BY <1>4 DEF Post, pageVars, TypeOK
  <2>2. RightNext(plan'[p])
    BY <1>1, <1>4, <2>1, UnknownRight DEF Gentle
  <2>3. Fits(p)'
    BY <2>1 DEF Fits
  <2> QED
    BY <1>2, <2>1, <2>2, <2>3, RightIs DEF Posting
<1>5. CASE PostAll(p)
  <2>1. RightNext([c \in Channels |-> DeviceOf(c)])
    BY <1>5, FreshRight DEF PostAll, Post, changeVars
  <2> QED
    BY <1>4, <1>5, <2>1 DEF PostAll
<1>6. CASE PostRow(p)
  BY <1>2, <1>4, <1>6 DEF PostRow
<1>7. CASE Create(p)
  <2>1. PICK c \in todo[p] : c \in Channels /\ c = Min(todo[p])
    BY <1>7, NextTodo DEF Create, Busy
  <2>2. (plan'[p] = plan[p] \/ plan'[p] = Unknown) /\ pc'[p] # "save"
    BY <1>7, FinishMovesOn DEF Create
  <2>3. RightNext(ids'[p])
    <3>1. CASE ids' = ids
      BY <1>2, <3>1
    <3>2. CASE ids' # ids
      <4>1. PICK n \in Ids : n = next
        BY <1>7 DEF Create
      <4>2. /\ device' = [device EXCEPT ![n] =
                  [channel |-> c, reolink |-> TRUE, name |-> shown[p][c], flag |-> TRUE]]
            /\ next' = n + 1 /\ ids' = [ids EXCEPT ![p][c] = n]
        BY <1>7, <2>1, <3>2, <4>1 DEF Create
      <4>3. device'[n].channel = c
        BY <4>2 DEF TypeOK
      <4>4. ids'[p] = [ids[p] EXCEPT ![c] = n] /\ ids[p] \in [Channels -> Ids \cup {0}]
        BY <4>2 DEF TypeOK
      <4>5. ASSUME NEW d \in Channels
            PROVE  /\ ids'[p][d] < next'
                   /\ ids'[p][d] \in Ids /\ device'[ids'[p][d]] # NoRow /\ device'[ids'[p][d]].reolink
                        => device'[ids'[p][d]].channel \in moved' \cup {d}
        <5>1. CASE d = c
          <6>1. ids'[p][d] = n /\ n < next'
            BY <2>1, <4>2, <4>4, <5>1, SyncAssumption
          <6> QED
            BY <4>3, <5>1, <6>1
        <5>2. CASE d # c
          <6>1. ids'[p][d] = ids[p][d]
            BY <4>4, <5>2
          <6> QED
            BY <1>2, <6>1 DEF RightNext
        <5> QED
          BY <5>1, <5>2
      <4> QED
        BY <4>5 DEF RightNext
    <3> QED
      BY <3>1, <3>2
  <2> QED
    BY <1>1, <2>2, <2>3, MovesOn
<1>8. CASE Fetch(p)
  <2>1. UNCHANGED <<device, next, ids, moved>>
    BY <1>8 DEF Fetch, pageVars, changeVars
  <2>2. CASE Exists(Saving(p))
    <3>1. /\ copy'[p] = device[Saving(p)] /\ todo' = todo /\ plan' = plan
      BY <1>8, <2>2 DEF Fetch, Saving, TypeOK
    <3>2. Saving(p)' = Saving(p)
      BY <3>1 DEF Saving
    <3>3. Fits(p)'
      BY <2>1, <3>1, <3>2 DEF Fits, Alike
    <3> QED
      BY <1>2, <2>1, <3>1, <3>3, RightIs DEF Posting
  <2>3. CASE ~Exists(Saving(p))
    <3>1. \E c : Finish(p, c)
      BY <1>8, <2>3 DEF Fetch, Saving
    <3> QED
      BY <1>1, <1>2, <2>1, <3>1, FinishMovesOn, MovesOn
  <2> QED
    BY <2>2, <2>3
<1>9. CASE Save(p)
  <2>1. (plan'[p] = plan[p] \/ plan'[p] = Unknown) /\ pc'[p] # "save"
    BY <1>9, FinishMovesOn DEF Save
  <2>2. ids' = ids
    BY <1>9 DEF Save, pageVars
  <2> QED
    BY <1>1, <1>2, <2>1, <2>2, MovesOn
<1> QED
  BY <1>3, <1>5, <1>6, <1>7, <1>8, <1>9 DEF PostStep

\* The pages that stand by.
LEMMA OthersKnow ==
  ASSUME TypeOK, NEW p \in Pages, NEW q \in Pages, q # p,
         Query(p) \/ PostAll(p) \/ PostRow(p) \/ PostStep(p)
  PROVE  /\ ids'[q] = ids[q] /\ plan'[q] = plan[q] /\ pc'[q] = pc[q] /\ todo'[q] = todo[q]
         /\ copy'[q] = copy[q]
<1>1. CASE Query(p) \/ Refresh(p)
  BY <1>1 DEF Query, Refresh, TypeOK
<1>2. CASE PostAll(p) \/ PostRow(p)
  BY <1>2 DEF PostAll, PostRow, Post, pageVars, TypeOK
<1>3. ASSUME Fail(p) \/ \E c : Finish(p, c)
      PROVE  plan'[q] = plan[q] /\ pc'[q] = pc[q] /\ todo'[q] = todo[q] /\ copy'[q] = copy[q]
  BY <1>3 DEF Fail, Finish, TypeOK
<1>4. CASE Create(p)
  <2>1. ids'[q] = ids[q]
    BY <1>4 DEF Create, TypeOK
  <2> QED
    BY <1>3, <1>4, <2>1 DEF Create
<1>5. CASE Save(p)
  BY <1>3, <1>5 DEF Save, pageVars
<1>6. CASE Fetch(p)
  <2>1. ids' = ids
    BY <1>6 DEF Fetch, pageVars
  <2>2. CASE Exists(plan[p][Min(todo[p])])
    BY <1>6, <2>1, <2>2 DEF Fetch, TypeOK
  <2>3. CASE ~Exists(plan[p][Min(todo[p])])
    BY <1>3, <1>6, <2>1, <2>3 DEF Fetch
  <2> QED
    BY <2>2, <2>3
<1> QED
  BY <1>1, <1>2, <1>4, <1>5, <1>6 DEF PostStep

-----------------------------------------------------------------------------
(* The names. *)

\* A row whose name nobody has, and which is of its camera unless its channel has moved.
LEMMA WriteNamed ==
  ASSUME TypeOK, Named, NEW i \in Ids, NEW row \in Rows,
         device' = [device EXCEPT ![i] = row], ~Taken(row.name, i),
         nvr' = nvr, shown' = shown, moved \subseteq moved',
         row.reolink /\ row.channel \notin moved' => row.name = nvr[row.channel]
  PROVE  Named'
<1>1. \A j \in Ids : device'[j] = IF j = i THEN row ELSE device[j]
  BY DEF TypeOK
<1>2. \A j \in Ids \ {i} : Exists(j)' => Exists(j) /\ device'[j] = device[j] /\ device[j].name # row.name
  BY <1>1 DEF Exists, Taken
<1>3. \A j, k \in Ids : Exists(j)' /\ Exists(k)' /\ device'[j].name = device'[k].name => j = k
  <2> SUFFICES ASSUME NEW j \in Ids, NEW k \in Ids, Exists(j)', Exists(k)',
                      device'[j].name = device'[k].name, j # k
               PROVE  FALSE
    OBVIOUS
  <2>1. CASE j = i
    BY <1>1, <1>2, <2>1
  <2>2. CASE k = i
    BY <1>1, <1>2, <2>2
  <2>3. CASE j # i /\ k # i
    BY <1>2, <2>3 DEF Named
  <2> QED
    BY <2>1, <2>2, <2>3
<1>4. ASSUME NEW j \in Ids, Exists(j)', device'[j].reolink, device'[j].channel \notin moved'
      PROVE  device'[j].name = nvr[device'[j].channel]
  <2>1. CASE j = i
    BY <1>1, <1>4, <2>1
  <2>2. CASE j # i
    BY <1>2, <1>4, <2>2 DEF Named
  <2> QED
    BY <2>1, <2>2
<1>5. \A p \in Pages : \A c \in Channels \ moved' : shown'[p][c] \in {None, nvr'[c]}
  BY DEF Named
<1> QED
  BY <1>3, <1>4, <1>5 DEF Named

LEMMA PageNamed ==
  ASSUME TypeOK, Connected, Named, NEW p \in Pages, Posting(p),
         Query(p) \/ PostAll(p) \/ PostRow(p) \/ PostStep(p)
  PROVE  Named'
<1>1. nvr' = nvr /\ moved' = moved
  BY DEF Query, PostAll, PostRow, Post, PostStep, Create, Fetch, Save, Refresh, changeVars
<1>2. CASE device' = device /\ shown' = shown
  BY <1>1, <1>2 DEF Named, Exists
<1>3. CASE Query(p)
  <2>1. device' = device
    BY <1>3 DEF Query
  <2>2. ASSUME NEW q \in Pages, NEW c \in Channels \ moved PROVE shown'[q][c] \in {None, nvr[c]}
    <3>1. CASE q = p
      BY <1>3, <3>1 DEF Query, TypeOK
    <3>2. CASE q # p
      BY <1>3, <3>2 DEF Query, TypeOK, Named
    <3> QED
      BY <3>1, <3>2
  <2> QED
    BY <1>1, <2>1, <2>2 DEF Named, Exists
<1>4. CASE Create(p)
  <2>1. shown' = shown
    BY <1>4 DEF Create
  <2>2. PICK c \in todo[p] : c \in Channels /\ c = Min(todo[p])
    BY <1>4, NextTodo DEF Create, Busy
  <2>3. CASE device' # device
    <3>1. PICK row : row = [channel |-> c, reolink |-> TRUE, name |-> shown[p][c], flag |-> TRUE]
      OBVIOUS
    <3>2. device' = [device EXCEPT ![next] = row] /\ ~Taken(row.name, 0) /\ next \in Ids
      BY <1>4, <2>2, <2>3, <3>1 DEF Create
    <3>3. row \in Rows
      BY <2>2, <3>1, RowToSave
    <3>4. ~Taken(row.name, next)
      BY <3>2, SyncAssumption DEF Taken
    <3>5. row.channel \notin moved => row.name = nvr[row.channel]
      BY <2>2, <3>1 DEF Named, Connected
    <3> QED
      BY <1>1, <2>1, <3>2, <3>3, <3>4, <3>5, WriteNamed
  <2> QED
    BY <1>2, <2>1, <2>3
<1>5. CASE Save(p)
  <2>1. shown' = shown /\ pc[p] = "save"
    BY <1>5 DEF Save, pageVars
  <2>2. PICK c \in todo[p] : c \in Channels /\ c = Min(todo[p])
    BY <1>5, NextTodo DEF Save, Busy
  <2>3. CASE device' # device
    <3>1. PICK row : row = [copy[p] EXCEPT !.name = shown[p][c]]
      OBVIOUS
    <3>2. PICK i : i = Saving(p)
      OBVIOUS
    <3>3. device' = [device EXCEPT ![i] = row] /\ ~Taken(row.name, i) /\ Exists(i)
      BY <1>5, <2>2, <2>3, <3>1, <3>2 DEF Save, Saving
    <3>4. row \in Rows
      BY <2>1, <2>2, <3>1, RowToSave
    <3>5. row.name = shown[p][c] /\ row.channel = copy[p].channel /\ row.reolink = copy[p].reolink
      BY <2>1, <3>1 DEF TypeOK, Rows
    <3>6. ASSUME row.reolink, row.channel \notin moved PROVE row.name = nvr[row.channel]
      <4>1. Alike(copy[p], device[i])
        BY <2>1, <3>2, <3>3 DEF Posting, Fits
      <4>2. device[i].channel = row.channel /\ device[i].reolink
        BY <3>5, <3>6, <4>1 DEF Alike
      <4>3. device[i].channel \in moved \cup {c}
        BY <2>2, <3>2, <3>3, <4>2 DEF Posting, Right, Saving
      <4>4. row.channel = c
        BY <3>6, <4>2, <4>3
      <4> QED
        BY <2>2, <3>5, <3>6, <4>4 DEF Named, Connected
    <3>7. i \in Ids
      BY <3>3 DEF Exists
    <3> QED
      BY <1>1, <2>1, <3>3, <3>4, <3>6, <3>7, WriteNamed
  <2> QED
    BY <1>2, <2>1, <2>3
<1>6. CASE PostAll(p) \/ PostRow(p) \/ Fetch(p) \/ Refresh(p)
  BY <1>2, <1>6 DEF PostAll, PostRow, Post, Fetch, Refresh, pageVars
<1> QED
  BY <1>3, <1>4, <1>5, <1>6 DEF PostStep

LEMMA WorldNamed ==
  ASSUME TypeOK, Named, World
  PROVE  Named'
<1>1. CASE \E c \in Channels : Rename(c)
  <2>1. PICK c \in Channels, n \in Names : nvr' = [nvr EXCEPT ![c] = n] /\ moved' = moved \cup {c}
    BY <1>1 DEF Rename
  <2>2. device' = device /\ shown' = shown
    BY <1>1 DEF Rename, pageVars
  <2>3. \A d : d \notin moved' => d \notin moved /\ nvr'[d] = nvr[d]
    BY <2>1 DEF TypeOK
  <2> QED
    BY <2>2, <2>3 DEF Named, Exists
<1>2. CASE Add
  <2>1. PICK row \in Rows : /\ ~Taken(row.name, 0) /\ device' = [device EXCEPT ![next] = row]
                            /\ moved' = moved \cup {row.channel}
    BY <1>2 DEF Add
  <2>2. next \in Ids /\ nvr' = nvr /\ shown' = shown
    BY <1>2 DEF Add, pageVars
  <2>3. ~Taken(row.name, next)
    BY <2>1, SyncAssumption DEF Taken
  <2> QED
    BY <2>1, <2>2, <2>3, WriteNamed
<1>3. ASSUME NEW i \in Ids, Edit(i) PROVE Named'
  <2>1. PICK row \in Rows :
          /\ ~Taken(row.name, i) /\ device' = [device EXCEPT ![i] = row]
          /\ moved' = (IF row = [device[i] EXCEPT !.flag = row.flag] THEN moved
                       ELSE moved \cup {row.channel, device[i].channel})
    BY <1>3 DEF Edit
  <2>2. nvr' = nvr /\ shown' = shown /\ Exists(i) /\ device[i] \in Rows
    BY <1>3 DEF Edit, pageVars, Exists, TypeOK
  <2>3. ASSUME row.reolink, row.channel \notin moved' PROVE row.name = nvr[row.channel]
    <3>1. row = [device[i] EXCEPT !.flag = row.flag] /\ row.channel \notin moved
      BY <2>1, <2>3
    <3>2. row.reolink = device[i].reolink /\ row.channel = device[i].channel /\ row.name = device[i].name
      BY <2>2, <3>1 DEF Rows
    <3> QED
      BY <2>2, <2>3, <3>1, <3>2 DEF Named
  <2>4. moved \subseteq moved'
    BY <2>1
  <2> QED
    BY <2>1, <2>2, <2>3, <2>4, WriteNamed
<1>4. ASSUME NEW i \in Ids, Delete(i) PROVE Named'
  <2>1. nvr' = nvr /\ shown' = shown /\ moved' = moved
    BY <1>4 DEF Delete, pageVars
  <2>2. \A j \in Ids : Exists(j)' => Exists(j) /\ device'[j] = device[j]
    BY <1>4 DEF Delete, TypeOK, Exists
  <2> QED
    BY <2>1, <2>2 DEF Named
<1> QED
  BY <1>1, <1>2, <1>3, <1>4 DEF World

\* compare_channels, create_device_from_channel: whatever is posted, from however many
\* and however stale pages, a channel has two devices only if its camera or one of them
\* was renamed, or a form brought a device there or took one away.  The invariant: the
\* devices of the other channels have the names of their cameras, which are unique, and
\* what a page or a post takes for a channel's device is that or gone.
THEOREM OnlyDevice == Spec => []OnePerChannel
<1> DEFINE Known == Named /\ \A p \in Pages : Posting(p)
<1>1. Init => Known
  <2> SUFFICES ASSUME Init PROVE Known
    OBVIOUS
  <2>1. \A i : ~Exists(i)
    BY DEF Init, Exists
  <2>2. Named
    BY <2>1 DEF Init, Named
  <2>3. ASSUME NEW p \in Pages PROVE Posting(p)
    <3>1. /\ pc[p] = "closed" /\ next = 1
          /\ \A c \in Channels : ids[p][c] = 0 /\ plan[p][c] = 0
      BY DEF Init, Unknown
    <3> QED
      BY <2>1, <3>1 DEF Posting, Right, Fits
  <2> QED
    BY <2>2, <2>3
<1>2. IInv /\ Known /\ [Next]_vars => Known'
  <2> SUFFICES ASSUME IInv, Named, \A q \in Pages : Posting(q), [Next]_vars PROVE Known'
    OBVIOUS
  <2>1. TypeOK /\ Connected
    BY DEF IInv
  <2>2. CASE UNCHANGED vars
    <3>1. Named'
      BY <2>2 DEF vars, pageVars, postVars, changeVars, Named, Exists
    <3>2. Gentle
      BY <2>1, <2>2 DEF Gentle, vars, changeVars, TypeOK, Exists
    <3> QED
      BY <2>1, <2>2, <3>1, <3>2, RestKnows DEF vars, pageVars, postVars
  <2>3. CASE World
    <3>1. Gentle /\ Named'
      BY <2>1, <2>3, WorldGentle, WorldNamed
    <3>2. UNCHANGED <<ids, plan, pc, todo, copy>>
      BY <2>3 DEF World, Rename, Add, Edit, Delete, pageVars, postVars
    <3> QED
      BY <2>1, <3>1, <3>2, RestKnows
  <2>4. ASSUME NEW p \in Pages, Query(p) \/ PostAll(p) \/ PostRow(p) \/ PostStep(p)
        PROVE  Known'
    <3>1. Gentle /\ Named' /\ Posting(p)'
      BY <2>1, <2>4, PagesGentle, PageNamed, PageKnows
    <3>2. ASSUME NEW q \in Pages, q # p PROVE Posting(q)'
      <4>1. /\ ids'[q] = ids[q] /\ plan'[q] = plan[q] /\ pc'[q] = pc[q] /\ todo'[q] = todo[q]
            /\ copy'[q] = copy[q]
        BY <2>1, <2>4, <3>2, OthersKnow
      <4> QED
        BY <2>1, <3>1, <4>1, RestKnows
    <3> QED
      BY <3>1, <3>2
  <2> QED
    BY <2>2, <2>3, <2>4 DEF Next, World
<1>3. Known => OnePerChannel
  BY DEF Named, OnePerChannel
<1> HIDE DEF Known
<1> QED
  BY <1>1, <1>2, <1>3, Invariance, PTL DEF Spec
=============================================================================
