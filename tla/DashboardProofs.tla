-------------------------- MODULE DashboardProofs --------------------------
(***************************************************************************)
(* The forms of the dashboard, for any people, browsers, posts, cameras,   *)
(* tags and buttons: the invariants SessionIsOwn and UsedOnce of Accounts, *)
(* and RulesOfOneForm, NoConflict and OneGuestHome of ButtonRules.         *)
(*                                                                         *)
(* Accounts: the table never gives an id twice, so a session's id is       *)
(* either that of the row its owner signed in with or of no row at all,    *)
(* and an invitation, once used, is one that no later check lets through.  *)
(*                                                                         *)
(* Buttons: what a post has found valid stays so but for the cameras that  *)
(* move; a button's posts create rules of its last form only, unless two   *)
(* are at it at once (mixed); a guest button that a post did not find is   *)
(* one whose own post had passed the check, too (rivals).                  *)
(***************************************************************************)
EXTENDS Accounts, ButtonRules, FiniteSetTheorems, TLAPS

-----------------------------------------------------------------------------
(* Accounts. *)

\* A set of users in which an id names one of them, and so does an address.
IsTable(S) == S \subseteq Rows /\ \A u, v \in S : u.id = v.id \/ u.email = v.email => u = v

OldRows == [id: Ids \cup {0}, email: People \cup {Nobody},
            hash: BOOLEAN, active: BOOLEAN, admin: BOOLEAN]

Posting == [Posts -> [pc: {"idle", "create", "save"}, kind: Kinds, row: OldRows]]

\* What a post has read: the row that it is to create has no id yet, and the row that it is to
\* save had its id from the table, which names nobody else since.
ReadRow(p) ==
  /\ post[p].pc = "create" =>
       post[p].row.email \in People /\ post[p].row.id = 0 /\ post[p].kind # "accept"
  /\ post[p].pc = "save" =>
       /\ post[p].row.id <= last
       /\ \A u \in users : u.id = post[p].row.id => u.email = post[p].row.email

\* What the argument needs to know of the state: the types, and that rows, posts and sessions
\* have ids that were given.
IInv ==
  /\ IsTable(users) /\ IsTable(backup) /\ last \in 0..MaxId
  /\ session \in [Browsers -> Ids \cup {0}] /\ person \in [Browsers -> People \cup {Nobody}]
  /\ post \in Posting
  /\ \A p \in Posts : ReadRow(p)
  /\ \A u \in users : u.id <= last
  /\ \A b \in Browsers : session[b] <= last
  /\ SessionIsOwn

\* A table is finite: its rows have different ids.
LEMMA TableFinite ==
  ASSUME NEW S, IsTable(S)
  PROVE  IsFiniteSet(S)
<1> DEFINE f == [u \in S |-> u.id]
<1>1. f \in Injection(S, Ids)
  BY DEF IsTable, Rows, Injection, IsInjective
<1>2. IsFiniteSet(Ids)
  BY AccountAssumption, FS_Interval DEF Ids
<1> QED BY <1>1, <1>2, FS_Injection

Rank(S, u) == Cardinality({v \in S : v.id <= u.id})

\* The rank of a row lies between 1 and the number of rows, and a higher id ranks higher.
LEMMA Ranks ==
  ASSUME NEW S, IsTable(S), NEW u \in S, NEW v \in S
  PROVE  /\ Rank(S, u) \in 1..Cardinality(S)
         /\ Cardinality(S) \in Nat
         /\ Rank(S, u) = Rank(S, v) => u = v
<1> DEFINE Up(w) == {x \in S : x.id <= w.id}
<1>0. \A w \in S : w.id \in Nat
  BY AccountAssumption DEF IsTable, Rows, Ids
<1>1. IsFiniteSet(S)
  BY TableFinite
<1>2. ASSUME NEW w \in S
      PROVE  IsFiniteSet(Up(w)) /\ Cardinality(Up(w)) \in 1..Cardinality(S)
  <2>1. Up(w) \in SUBSET S /\ w \in Up(w)
    BY <1>0
  <2>2. IsFiniteSet(Up(w)) /\ Cardinality(Up(w)) <= Cardinality(S)
    BY <1>1, <2>1, FS_Subset
  <2>3. Cardinality(Up(w)) # 0
    BY <2>1, <2>2, FS_EmptySet
  <2> QED BY <1>1, <2>2, <2>3, FS_CardinalityType
<1>3. ASSUME NEW x \in S, NEW y \in S, x.id < y.id
      PROVE  Cardinality(Up(x)) # Cardinality(Up(y))
  <2>1. Up(x) \in SUBSET Up(y) /\ y \in Up(y) /\ y \notin Up(x)
    BY <1>0, <1>3
  <2>2. IsFiniteSet(Up(y))
    BY <1>2
  <2> QED BY <2>1, <2>2, FS_Subset
<1>4. Cardinality(Up(u)) = Cardinality(Up(v)) => u.id = v.id
  BY <1>0, <1>3
<1>5. u.id = v.id => u = v
  BY DEF IsTable
<1> QED BY <1>1, <1>2, <1>4, <1>5, FS_CardinalityType DEF Rank

LEMMA NoPostType ==
  NoPost \in [pc: {"idle", "create", "save"}, kind: Kinds, row: OldRows] /\ NoPost.pc = "idle"
  BY DEF NoPost, NoUser, Kinds, OldRows

LEMMA InitIInv == Init => IInv
<1> SUFFICES ASSUME Init
             PROVE  IInv
  OBVIOUS
<1>1. IsTable(users)
  BY DEF Init, IsTable
<1>2. IsTable(backup)
  <2>1. ASSUME NEW e \in People
        PROVE  IsTable({[id |-> 1, email |-> e, hash |-> TRUE, active |-> TRUE, admin |-> TRUE]})
    BY AccountAssumption DEF IsTable, Rows, Ids
  <2>2. IsTable({})
    BY DEF IsTable
  <2> QED BY <2>1, <2>2 DEF Init, Elsewhere
<1>3. post \in Posting /\ \A p \in Posts : post[p].pc = "idle"
  BY NoPostType DEF Init, Posting, NoPost
<1> QED BY <1>1, <1>2, <1>3, AccountAssumption DEF Init, IInv, ReadRow, SessionIsOwn

\* A post that begins writes nothing.
LEMMA BeginIInv ==
  ASSUME IInv, NEW p \in Posts, NEW kind \in Kinds, NEW row \in OldRows, Begin(p, kind, row),
         kind \in {"setup", "create"} => row.email \in People /\ row.id = 0,
         kind \notin {"setup", "create"} => row \in users
  PROVE  IInv'
<1>1. /\ post'[p] = [pc |-> IF kind \in {"setup", "create"} THEN "create" ELSE "save",
                     kind |-> kind, row |-> row]
      /\ \A q \in Posts : q # p => post'[q] = post[q]
      /\ post' \in Posting /\ UNCHANGED <<users, last, session, backup, person>>
  BY DEF Begin, IInv, Posting
<1>2. ReadRow(p)'
  BY <1>1 DEF ReadRow, IInv, IsTable
<1>3. \A q \in Posts : q # p => ReadRow(q)'
  BY <1>1 DEF ReadRow, IInv
<1> QED BY <1>1, <1>2, <1>3 DEF IInv, SessionIsOwn, IsTable

\* Posts that end, when the rows that are left or come keep what their ids stood for.
LEMMA Ends ==
  ASSUME IInv, \A q \in Posts : post'[q] = post[q] \/ post'[q].pc = "idle",
         last \in Nat, last' \in Nat, last <= last',
         \A v \in users' : v.id \in Nat /\ (v.id > last \/ \E u \in users : v.id = u.id /\ v.email = u.email)
  PROVE  \A q \in Posts : ReadRow(q)'
<1> SUFFICES ASSUME NEW q \in Posts, post'[q] = post[q]
             PROVE  ReadRow(q)'
  BY DEF ReadRow
<1>1. post[q].row.id \in Nat
  BY AccountAssumption DEF IInv, Posting, OldRows, Ids
<1>2. ReadRow(q)
  BY DEF IInv
<1> QED BY <1>1, <1>2 DEF ReadRow

\* A new user's id is higher than all that were given.
LEMMA CreateIInv ==
  ASSUME IInv, NEW p \in Posts, CreateUser(p)
  PROVE  IInv'
<1> DEFINE u == [post[p].row EXCEPT !.id = NextId(users)]
<1>1. post[p].row \in OldRows /\ post[p].kind \in Kinds /\ post[p].row.email \in People
  BY DEF IInv, ReadRow, Posting, CreateUser
<1>2. u.id = last + 1 /\ u.id \in Ids /\ NextId(users) \in Ids /\ last \in Nat
  BY <1>1 DEF CreateUser, NextId, OldRows, IInv
<1>3. CASE \E v \in users : v.email = u.email
  <2>1. post' = [post EXCEPT ![p] = NoPost] /\ UNCHANGED <<users, last, session, backup, person>>
    BY <1>3 DEF CreateUser, End
  <2>2. post' \in Posting /\ \A q \in Posts : post'[q] = post[q] \/ post'[q].pc = "idle"
    BY <2>1, NoPostType DEF IInv, Posting
  <2>3. \A q \in Posts : ReadRow(q)'
    BY <2>1, <2>2 DEF IInv, ReadRow
  <2> QED BY <2>1, <2>2, <2>3 DEF IInv, SessionIsOwn, IsTable
<1>4. CASE ~\E v \in users : v.email = u.email
  <2>1. users' = users \cup {u} /\ last' = u.id /\ UNCHANGED <<session, backup, person>>
    BY <1>4 DEF CreateUser
  <2>2. u \in OldRows /\ u \in Rows
    <3>1. ASSUME NEW r \in OldRows, r.email \in People, NEW i \in Ids
          PROVE  [r EXCEPT !.id = i] \in OldRows /\ [r EXCEPT !.id = i] \in Rows
      BY <3>1 DEF OldRows, Rows
    <3> QED BY <1>1, <1>2, <3>1
  <2>3. /\ post' \in Posting /\ \A q \in Posts : q # p => post'[q] = post[q]
        /\ post'[p].pc = "idle" \/ (post'[p].pc = "save" /\ post'[p].row = u)
    <3>1. post[p] \in [pc: {"idle", "create", "save"}, kind: Kinds, row: OldRows]
      BY DEF IInv, Posting
    <3>2. [post[p] EXCEPT !.pc = "save", !.row = u]
            \in [pc: {"idle", "create", "save"}, kind: Kinds, row: OldRows]
          /\ [post[p] EXCEPT !.pc = "save", !.row = u].pc = "save"
          /\ [post[p] EXCEPT !.pc = "save", !.row = u].row = u
      BY <2>2, <3>1
    <3>3. \/ post' = [post EXCEPT ![p] = [post[p] EXCEPT !.pc = "save", !.row = u]]
          \/ post' = [post EXCEPT ![p] = NoPost]
      BY <1>4 DEF CreateUser, End
    <3> HIDE DEF u
    <3>4. PICK x \in [pc: {"idle", "create", "save"}, kind: Kinds, row: OldRows] :
            /\ post' = [post EXCEPT ![p] = x]
            /\ x.pc = "idle" \/ (x.pc = "save" /\ x.row = u)
      BY <3>2, <3>3, NoPostType
    <3> QED BY <3>4 DEF IInv, Posting
  <2> HIDE DEF u
  <2>4. last \in Nat /\ last' \in 0..MaxId /\ last < last'
    BY <1>2, <2>1, AccountAssumption DEF IInv, Ids
  <2>5. \A v \in users : v.id \in Nat /\ v.id < u.id
    BY <1>2, <2>1, <2>4 DEF IInv, IsTable, Rows, Ids
  <2>6. \A b \in Browsers : session[b] \in Nat /\ session[b] < u.id
    BY <1>2, <2>4 DEF IInv, Ids
  <2>7. IsTable(users)'
    <3>1. \A v, w \in users' : v.id = w.id \/ v.email = w.email => v = w
      BY <1>4, <2>1, <2>5 DEF IInv, IsTable
    <3> QED BY <2>1, <2>2, <3>1 DEF IInv, IsTable
  <2>8. /\ \A v \in users' : v.id <= last'
        /\ \A b \in Browsers : session'[b] <= last'
        /\ SessionIsOwn'
    BY <1>2, <2>1, <2>5, <2>6 DEF IInv, SessionIsOwn
  <2>9. ReadRow(p)'
    BY <1>2, <2>1, <2>3, <2>5 DEF ReadRow
  <2>10. ASSUME NEW q \in Posts, q # p
         PROVE  ReadRow(q)'
    <3>1. post[q].row.id \in Nat /\ ReadRow(q)
      BY AccountAssumption DEF IInv, Posting, OldRows, Ids
    <3> QED BY <1>2, <2>1, <2>3, <2>4, <2>10, <3>1 DEF ReadRow
  <2> QED BY <2>1, <2>3, <2>4, <2>7, <2>8, <2>9, <2>10 DEF IInv, IsTable
<1> QED BY <1>3, <1>4

\* A column that is written leaves the row's id and address alone.
LEMMA WrittenType ==
  ASSUME NEW m \in [pc: {"idle", "create", "save"}, kind: Kinds, row: OldRows], NEW u \in Rows
  PROVE  Written(m, u) \in Rows /\ Written(m, u).id = u.id /\ Written(m, u).email = u.email
<1>1. m.row.active \in BOOLEAN /\ m.row.admin \in BOOLEAN
  BY DEF OldRows
<1>2. ASSUME NEW x \in BOOLEAN
      PROVE  /\ [u EXCEPT !.active = x] \in Rows /\ [u EXCEPT !.active = x].id = u.id
             /\ [u EXCEPT !.active = x].email = u.email
             /\ [u EXCEPT !.admin = x] \in Rows /\ [u EXCEPT !.admin = x].id = u.id
             /\ [u EXCEPT !.admin = x].email = u.email
             /\ [u EXCEPT !.hash = TRUE] \in Rows /\ [u EXCEPT !.hash = TRUE].id = u.id
             /\ [u EXCEPT !.hash = TRUE].email = u.email
  BY DEF Rows
<1> QED BY <1>1, <1>2 DEF Written

LEMMA SaveIInv ==
  ASSUME IInv, NEW p \in Posts, SaveUser(p)
  PROVE  IInv'
<1> DEFINE m == post[p]
<1> DEFINE found == {u \in users : u.id = m.row.id}
<1>1. m \in [pc: {"idle", "create", "save"}, kind: Kinds, row: OldRows]
  BY DEF IInv, Posting
<1>2. /\ users' = (users \ found) \cup {Written(m, u) : u \in found}
      /\ post' = [post EXCEPT ![p] = NoPost] /\ UNCHANGED <<last, session, backup, person>>
  BY DEF SaveUser, End
<1>3. post' \in Posting /\ \A q \in Posts : post'[q] = post[q] \/ post'[q].pc = "idle"
  BY <1>2, NoPostType DEF IInv, Posting
<1>4. ASSUME NEW v \in users'
      PROVE  /\ v \in Rows
             /\ \E u \in users : v.id = u.id /\ v.email = u.email /\ (v = u \/ v = Written(m, u))
             /\ v \in users \/ v.id = m.row.id
             /\ v \in users => v.id # m.row.id \/ (\E u \in found : v = Written(m, u))
  BY <1>1, <1>2, WrittenType DEF IInv, IsTable
<1>5. ASSUME NEW v \in users', NEW w \in users', v.id = w.id \/ v.email = w.email
      PROVE  v = w
  <2>0. v.id = w.id
    BY <1>4, <1>5 DEF IInv, IsTable
  <2>1. CASE v.id = m.row.id
    <3>1. PICK u \in found : v = Written(m, u)
      BY <1>4, <2>1
    <3>2. PICK x \in found : w = Written(m, x)
      BY <1>4, <2>0, <2>1
    <3>3. u = x
      BY DEF IInv, IsTable
    <3> QED BY <3>1, <3>2, <3>3
  <2>2. CASE v.id # m.row.id
    BY <1>4, <2>0, <2>2 DEF IInv, IsTable
  <2> QED BY <2>1, <2>2
<1>6. IsTable(users)'
  BY <1>4, <1>5 DEF IsTable
<1>7. (\A v \in users' : v.id <= last') /\ SessionIsOwn'
  BY <1>2, <1>4 DEF IInv, SessionIsOwn
<1>8. \A q \in Posts : ReadRow(q)'
  <2>1. \A v \in users' : v.id \in Nat
    BY <1>4, AccountAssumption DEF Rows, Ids
  <2>2. last \in Nat /\ last <= last'
    BY <1>2 DEF IInv
  <2> QED BY <1>2, <1>3, <1>4, <2>1, <2>2, Ends
<1> QED BY <1>2, <1>3, <1>6, <1>7, <1>8 DEF IInv, IsTable

\* The restored users have ids no session can hold.
LEMMA ImportIInv ==
  ASSUME IInv, NEW file, IsTable(file), Import(file)
  PROVE  IInv'
<1> DEFINE R(u) == [u EXCEPT !.id = last + Rank(file, u)]
<1>1. /\ users' = {R(u) : u \in file} /\ last' = last + Cardinality(file) /\ last' <= MaxId
      /\ UNCHANGED <<session, post, backup, person>>
  <2>1. users' = {[u EXCEPT !.id = NextId({}) + Rank(file, u) - 1] : u \in file}
    BY DEF Import, Rank
  <2>2. \A u \in file : NextId({}) + Rank(file, u) - 1 = last + Rank(file, u)
    BY Ranks DEF IInv, NextId
  <2>3. users' = {R(u) : u \in file}
    BY <2>1, <2>2
  <2> QED BY <2>3 DEF Import, histVars
<1>2. ASSUME NEW u \in file
      PROVE  /\ R(u) \in Rows /\ R(u).id = last + Rank(file, u)
             /\ R(u).id > last /\ R(u).id <= last'
  <2>1. Rank(file, u) \in 1..Cardinality(file) /\ Cardinality(file) \in Nat
    BY Ranks DEF IInv
  <2>2. last + Rank(file, u) \in Ids /\ last \in Nat
    BY <1>1, <2>1, AccountAssumption DEF IInv, Ids
  <2>3. u \in Rows
    BY DEF IInv, IsTable
  <2>4. R(u).id = last + Rank(file, u) /\ R(u) \in Rows
    BY <2>2, <2>3 DEF Rows
  <2> QED BY <1>1, <2>1, <2>2, <2>4
<1>3. ASSUME NEW u \in file, NEW v \in file, R(u).id = R(v).id \/ R(u).email = R(v).email
      PROVE  R(u) = R(v)
  <2>0. CASE R(u).email = R(v).email
    BY <2>0 DEF IsTable, Rows
  <2>1. Rank(file, u) \in Nat /\ Rank(file, v) \in Nat /\ last \in Nat
    BY Ranks DEF IInv
  <2>2. CASE R(u).id = R(v).id
    <3>1. Rank(file, u) = Rank(file, v)
      BY <1>2, <2>1, <2>2
    <3> QED BY <3>1, Ranks
  <2> QED BY <1>3, <2>0, <2>2
<1>4. last' \in 0..MaxId /\ last <= last'
  <2>1. IsFiniteSet(file)
    BY TableFinite DEF IInv
  <2> QED BY <1>1, <2>1, FS_CardinalityType, AccountAssumption DEF IInv
<1> HIDE DEF R
<1>5. IsTable(users)'
  BY <1>1, <1>2, <1>3 DEF IsTable
<1>6. \A b \in Browsers : session[b] \in Nat /\ session[b] <= last
  BY AccountAssumption DEF IInv, Ids
<1>7. \A v \in users' : v.id \in Nat /\ v.id > last /\ v.id <= last'
  BY <1>1, <1>2 DEF Rows, Ids
<1>8. SessionIsOwn' /\ \A b \in Browsers : session'[b] <= last'
  BY <1>1, <1>4, <1>6, <1>7 DEF SessionIsOwn, IInv
<1>9. \A q \in Posts : ReadRow(q)'
  BY <1>1, <1>4, <1>7, Ends DEF IInv
<1> QED BY <1>1, <1>4, <1>5, <1>7, <1>8, <1>9 DEF IInv, IsTable

LEMMA PostIInv ==
  ASSUME IInv, NEW p \in Posts, PostStep(p)
  PROVE  IInv'
<1>1. ASSUME NEW u \in users
      PROVE  u \in OldRows
  BY DEF IInv, IsTable, Rows, OldRows
<1>2. ASSUME NEW e \in People, NEW isAdmin \in BOOLEAN
      PROVE  NewUser(e, isAdmin) \in OldRows /\ NewUser(e, isAdmin).email = e /\ NewUser(e, isAdmin).id = 0
  BY DEF NewUser, NoUser, OldRows
<1>3. ASSUME NEW e \in People, SetUp(p, e)
      PROVE  IInv'
  BY <1>2, <1>3, BeginIInv DEF SetUp, Kinds
<1>4. ASSUME NEW e \in People, UserCreate(p, e)
      PROVE  IInv'
  BY <1>2, <1>4, BeginIInv DEF UserCreate, Kinds
<1>5. ASSUME NEW e \in People, AcceptInvite(p, e)
      PROVE  IInv'
  BY <1>1, <1>5, BeginIInv DEF AcceptInvite, Active, Kinds
<1>6. ASSUME NEW e \in People, ResetPassword(p, e)
      PROVE  IInv'
  BY <1>1, <1>6, BeginIInv DEF ResetPassword, ResetLink, Active, Kinds
<1>7. ASSUME Toggle(p)
      PROVE  IInv'
  BY <1>1, <1>7, BeginIInv DEF Toggle, Kinds
<1> QED BY <1>3, <1>4, <1>5, <1>6, <1>7, CreateIInv, SaveIInv DEF PostStep

\* The inductive step, action by action.
LEMMA NextIInv == IInv /\ [Next]_vars => IInv'
<1> SUFFICES ASSUME IInv, [Next]_vars
             PROVE  IInv'
  OBVIOUS
<1>1. ASSUME NEW p \in Posts, PostStep(p)
      PROVE  IInv'
  BY <1>1, PostIInv
<1>2. ASSUME NEW e \in People, ResendInvite(e)
      PROVE  IInv'
  BY <1>2 DEF ResendInvite, histVars, IInv, ReadRow, IsTable, SessionIsOwn
<1>3. ASSUME NEW b \in Browsers, Login(b)
      PROVE  IInv'
  <2>1. PICK u \in users : /\ session' = [session EXCEPT ![b] = u.id]
                           /\ person' = [person EXCEPT ![b] = u.email]
    BY <1>3 DEF Login, Active
  <2>2. u.id \in Ids /\ u.email \in People /\ u.id <= last
    BY DEF IInv, IsTable, Rows
  <2>3. UNCHANGED <<users, last, post, backup>>
    BY <1>3 DEF Login
  <2>4. \A v \in users : v.id = u.id => v.email = u.email
    BY DEF IInv, IsTable
  <2> QED BY <2>1, <2>2, <2>3, <2>4 DEF IInv, ReadRow, IsTable, SessionIsOwn
<1>4. ASSUME NEW b \in Browsers, Logout(b)
      PROVE  IInv'
  <2>1. /\ session' = [session EXCEPT ![b] = 0] /\ person' = [person EXCEPT ![b] = Nobody]
        /\ UNCHANGED <<users, last, post, backup>>
    BY <1>4 DEF Logout
  <2>2. \A u \in users : u.id # 0
    BY AccountAssumption DEF IInv, IsTable, Rows, Ids
  <2> QED BY <2>1, <2>2 DEF IInv, ReadRow, IsTable, SessionIsOwn
<1>5. CASE Export
  BY <1>5 DEF Export, histVars, IInv, ReadRow, IsTable, SessionIsOwn
<1>6. CASE Restart
  <2>1. post' \in Posting /\ \A q \in Posts : post'[q].pc = "idle"
    BY <1>6, NoPostType DEF Restart, Posting
  <2> QED BY <1>6, <2>1 DEF Restart, histVars, IInv, ReadRow, IsTable, SessionIsOwn
<1>7. CASE UNCHANGED vars
  BY <1>7 DEF vars, histVars, IInv, ReadRow, IsTable, SessionIsOwn
<1>8. ASSUME NEW file \in {{}, backup}, Import(file)
      PROVE  IInv'
  <2>1. IsTable(file)
    BY DEF IInv, IsTable
  <2> QED BY <1>8, <2>1, ImportIInv
<1> QED BY <1>1, <1>2, <1>3, <1>4, <1>5, <1>6, <1>7, <1>8 DEF Next

\* A session is never somebody else's: whatever posts overlap, whoever is created, and
\* however often all users are replaced by those of a file.
THEOREM SessionsAreOwn == Spec => []SessionIsOwn
<1>1. IInv => SessionIsOwn
  BY DEF IInv
<1> QED BY InitIInv, NextIInv, <1>1, PTL DEF Spec

-----------------------------------------------------------------------------
(* An invitation sets a password once, and the set-up makes one user. *)

Underway(p, kind) == post[p].pc # "idle" /\ post[p].kind = kind

\* An address whose invitation was accepted has a row with a password, so no further post
\* passes the check; one that had passed it before has met the other, or its row is gone.
InviteOnce ==
  /\ \A e \in accepted : \E u \in users : u.email = e /\ u.hash
  /\ \A p \in Posts, u \in users :
       Underway(p, "accept") /\ u.id = post[p].row.id /\ u.email \in accepted => u.email \in raced
  /\ \A p, q \in Posts :
       p # q /\ Underway(p, "accept") /\ Underway(q, "accept") /\ post[p].row.id = post[q].row.id
         => post[p].row.email \in raced
  /\ again \subseteq raced

\* Once there is a user there is one till an import leaves none, so no further set-up passes
\* the check.
SetUpOnce ==
  /\ made # {} => users # {}
  /\ \A p \in Posts : post[p].pc = "create" /\ post[p].kind = "setup" /\ made # {} => Nobody \in raced
  /\ \A p, q \in Posts :
       /\ p # q /\ post[p].pc = "create" /\ post[p].kind = "setup"
       /\ post[q].pc = "create" /\ post[q].kind = "setup"
       => Nobody \in raced
  /\ made = {} \/ (\E i \in Ids : made = {i}) \/ Nobody \in raced

LEMMA InitOnce == Init => InviteOnce /\ SetUpOnce
  BY DEF Init, InviteOnce, SetUpOnce, Underway, NoPost

\* A post that makes its check: it meets those that have made theirs.
LEMMA BeginOnce ==
  ASSUME IInv, InviteOnce, SetUpOnce,
         NEW p \in Posts, NEW kind \in Kinds, NEW row \in OldRows, Begin(p, kind, row),
         kind = "accept" => row \in users /\ ~row.hash,
         kind = "setup" => users = {} /\ row.id = 0
  PROVE  InviteOnce' /\ SetUpOnce'
<1>1. /\ post'[p] = [pc |-> IF kind \in {"setup", "create"} THEN "create" ELSE "save",
                     kind |-> kind, row |-> row]
      /\ \A q \in Posts : q # p => post'[q] = post[q]
      /\ UNCHANGED <<users, last, made, accepted, again>>
  BY DEF Begin, IInv, Posting
<1>2. /\ raced \subseteq raced'
      /\ \A q \in Posts : kind = "accept" /\ Underway(q, "accept") /\ post[q].row.id = row.id
                            => row.email \in raced'
      /\ \A q \in Posts : kind = "setup" /\ Underway(q, "setup") /\ post[q].row.id = row.id
                            => Nobody \in raced'
  BY DEF Begin, Underway, Whose
<1>3. /\ \A q \in Posts, k \in Kinds : q # p => (Underway(q, k)' <=> Underway(q, k))
      /\ \A k \in Kinds : Underway(p, k)' <=> k = kind
      /\ post'[p].row = row /\ post'[p].kind = kind
  BY <1>1 DEF Underway
<1>4. "accept" \in Kinds /\ "setup" \in Kinds /\ post[p].pc = "idle"
  BY DEF Kinds, Begin
<1>5. kind = "accept" => row.email \notin accepted
  BY DEF InviteOnce, IInv, IsTable
<1>6. InviteOnce'
  <2>1. ASSUME NEW q \in Posts, NEW u \in users, Underway(q, "accept")', u.id = post'[q].row.id,
               u.email \in accepted
        PROVE  u.email \in raced'
    <3>1. CASE q = p
      BY <1>1, <1>3, <1>4, <1>5, <2>1, <3>1 DEF IInv, IsTable
    <3>2. CASE q # p
      BY <1>1, <1>2, <1>3, <1>4, <2>1, <3>2 DEF InviteOnce
    <3> QED BY <3>1, <3>2
  <2>2. ASSUME NEW q \in Posts, q # p, kind = "accept", Underway(q, "accept"),
               post[q].row.id = row.id
        PROVE  post[q].row.email = row.email /\ row.email \in raced'
    BY <1>2, <2>2 DEF IInv, ReadRow, Underway, Posting
  <2>3. ASSUME NEW q \in Posts, NEW r \in Posts, q # r,
               Underway(q, "accept")', Underway(r, "accept")', post'[q].row.id = post'[r].row.id
        PROVE  post'[q].row.email \in raced'
    <3>1. CASE q # p /\ r # p
      BY <1>1, <1>2, <1>3, <1>4, <2>3, <3>1 DEF InviteOnce
    <3>2. CASE q = p
      BY <1>1, <1>3, <1>4, <2>2, <2>3, <3>2
    <3>3. CASE r = p
      BY <1>1, <1>3, <1>4, <2>2, <2>3, <3>3
    <3> QED BY <3>1, <3>2, <3>3
  <2> QED BY <1>1, <1>2, <2>1, <2>3 DEF InviteOnce
<1>7. SetUpOnce'
  <2>1. ASSUME NEW q \in Posts, post'[q].pc = "create", post'[q].kind = "setup", made # {}
        PROVE  Nobody \in raced'
    BY <1>1, <1>2, <1>3, <2>1 DEF SetUpOnce
  <2>2. ASSUME NEW q \in Posts, kind = "setup", post[q].pc = "create", post[q].kind = "setup"
        PROVE  Nobody \in raced'
    BY <1>2, <2>2 DEF IInv, ReadRow, Underway
  <2>3. ASSUME NEW q \in Posts, NEW r \in Posts, q # r,
               post'[q].pc = "create", post'[q].kind = "setup",
               post'[r].pc = "create", post'[r].kind = "setup"
        PROVE  Nobody \in raced'
    <3>1. CASE q # p /\ r # p
      BY <1>1, <1>2, <2>3, <3>1 DEF SetUpOnce
    <3>2. CASE q = p
      BY <1>1, <1>3, <2>2, <2>3, <3>2
    <3>3. CASE r = p
      BY <1>1, <1>3, <2>2, <2>3, <3>3
    <3> QED BY <3>1, <3>2, <3>3
  <2> QED BY <1>1, <1>2, <2>1, <2>3 DEF SetUpOnce
<1> QED BY <1>6, <1>7

\* A step in which posts only end, no password is lost, an id that was given stands for nobody
\* else, and the table is not emptied but with the set-up's count.
LEMMA CalmOnce ==
  ASSUME IInv, InviteOnce, SetUpOnce,
         \A q \in Posts : post'[q] = post[q] \/ post'[q].pc = "idle",
         UNCHANGED <<again, raced>>, accepted' \subseteq accepted,
         \A e \in accepted' : \E u \in users' : u.email = e /\ u.hash,
         \A v \in users' : v.id \in Nat /\ (v.id > last \/ \E u \in users : v.id = u.id /\ v.email = u.email),
         made' = {} \/ (made' = made /\ users' # {})
  PROVE  InviteOnce' /\ SetUpOnce'
<1>1. \A q \in Posts : \A k : Underway(q, k)' => Underway(q, k) /\ post'[q] = post[q]
  BY DEF Underway
<1>2. \A q \in Posts : post'[q].pc = "create" => post'[q] = post[q]
  OBVIOUS
<1>3. ASSUME NEW q \in Posts, NEW v \in users', Underway(q, "accept")', v.id = post'[q].row.id
      PROVE  \E u \in users : u.id = post[q].row.id /\ v.email = u.email
  <2>1. post[q].row.id <= last /\ post[q].row.id \in Nat /\ last \in Nat
    BY <1>1, <1>3, AccountAssumption DEF IInv, ReadRow, Underway, Posting, OldRows, Ids
  <2>2. ~(v.id > last)
    BY <1>1, <1>3, <2>1
  <2> QED BY <1>1, <1>3, <2>2
<1>4. InviteOnce'
  <2>1. ASSUME NEW q \in Posts, NEW v \in users', Underway(q, "accept")', v.id = post'[q].row.id,
               v.email \in accepted'
        PROVE  v.email \in raced
    BY <1>1, <1>3, <2>1 DEF InviteOnce
  <2> QED BY <1>1, <2>1 DEF InviteOnce
<1>5. SetUpOnce'
  BY <1>1, <1>2 DEF SetUpOnce
<1> QED BY <1>4, <1>5

LEMMA CreateOnce ==
  ASSUME IInv, IInv', InviteOnce, SetUpOnce, NEW p \in Posts, CreateUser(p)
  PROVE  InviteOnce' /\ SetUpOnce'
<1>0. PICK u : u = [post[p].row EXCEPT !.id = NextId(users)]
  OBVIOUS
<1>1. u.id = last + 1 /\ u.id \in Ids /\ last \in Nat /\ u.id \in Nat
  BY <1>0, AccountAssumption DEF CreateUser, NextId, IInv, Posting, OldRows, Ids
<1>2. post[p].pc = "create" /\ UNCHANGED <<accepted, again, raced>>
  BY DEF CreateUser
<1>3. \A v \in users : v.id \in Nat
  BY AccountAssumption DEF IInv, IsTable, Rows, Ids
<1>4. CASE \E v \in users : v.email = u.email
  <2>1. UNCHANGED <<users, last, made>> /\ post' = [post EXCEPT ![p] = NoPost]
    BY <1>0, <1>4 DEF CreateUser, End
  <2>2. \A q \in Posts : post'[q] = post[q] \/ post'[q].pc = "idle"
    BY <2>1, NoPostType DEF IInv, Posting
  <2>3. users' # {}
    BY <1>4, <2>1
  <2>4. \A e \in accepted' : \E v \in users' : v.email = e /\ v.hash
    BY <1>2, <2>1 DEF InviteOnce
  <2> QED BY <1>2, <1>3, <2>1, <2>2, <2>3, <2>4, CalmOnce
<1>5. CASE ~\E v \in users : v.email = u.email
  <2>1. users' = users \cup {u} /\ last' = u.id
    BY <1>0, <1>5 DEF CreateUser
  <2>2. \A e \in accepted' : \E v \in users' : v.email = e /\ v.hash
    BY <1>2, <2>1 DEF InviteOnce
  <2>3. CASE post[p].kind # "setup"
    <3>1. post' = [post EXCEPT ![p] = NoPost] /\ made' = made
      BY <1>0, <1>5, <2>3 DEF CreateUser, End
    <3>2. \A q \in Posts : post'[q] = post[q] \/ post'[q].pc = "idle"
      BY <3>1, NoPostType DEF IInv, Posting
    <3>3. \A v \in users' : v.id \in Nat /\ (v.id > last \/ \E w \in users : v.id = w.id /\ v.email = w.email)
      BY <1>1, <1>3, <2>1
    <3> QED BY <1>2, <2>1, <2>2, <3>1, <3>2, <3>3, CalmOnce
  <2>4. CASE post[p].kind = "setup"
    <3>1. /\ post' = [post EXCEPT ![p] = [post[p] EXCEPT !.pc = "save", !.row = u]]
          /\ made' = made \cup {u.id}
      BY <1>0, <1>5, <2>4 DEF CreateUser
    <3>2. /\ post'[p].pc = "save" /\ post'[p].kind = "setup"
          /\ \A q \in Posts : q # p => post'[q] = post[q]
      BY <2>4, <3>1 DEF IInv, Posting
    <3>3. \A q \in Posts : Underway(q, "accept")' => q # p /\ Underway(q, "accept") /\ post'[q] = post[q]
      BY <1>2, <2>4, <3>2 DEF Underway
    <3>4. ASSUME NEW q \in Posts, NEW v \in users', Underway(q, "accept")', v.id = post'[q].row.id
          PROVE  v \in users
      <4>1. post[q].row.id <= last /\ post[q].row.id \in Nat
        BY <3>3, <3>4, AccountAssumption DEF IInv, ReadRow, Underway, Posting, OldRows, Ids
      <4> QED BY <1>1, <2>1, <3>3, <3>4, <4>1
    <3>5. ASSUME NEW q \in Posts, NEW v \in users', Underway(q, "accept")', v.id = post'[q].row.id,
                 v.email \in accepted'
          PROVE  v.email \in raced'
      BY <1>2, <3>3, <3>4, <3>5 DEF InviteOnce
    <3>6. InviteOnce'
      BY <1>2, <2>2, <3>3, <3>5 DEF InviteOnce
    <3>7. made = {} \/ Nobody \in raced
      BY <1>2, <2>4 DEF SetUpOnce
    <3>8. made' = {u.id} \/ Nobody \in raced
      BY <3>1, <3>7
    <3>9. \A q \in Posts : post'[q].pc = "create" /\ post'[q].kind = "setup" => Nobody \in raced
      BY <1>2, <2>4, <3>2 DEF SetUpOnce
    <3>10. SetUpOnce'
      BY <1>1, <1>2, <2>1, <3>8, <3>9 DEF SetUpOnce
    <3> QED BY <3>6, <3>10
  <2> QED BY <2>3, <2>4
<1> QED BY <1>4, <1>5

\* What a post writes takes nobody's password away, and an accepted invitation sets it.
LEMMA WrittenHash ==
  ASSUME NEW m \in [pc: {"idle", "create", "save"}, kind: Kinds, row: OldRows], NEW u \in Rows
  PROVE  (u.hash \/ m.kind = "accept") => Written(m, u).hash
  BY DEF Written, Rows

LEMMA SaveOnce ==
  ASSUME IInv, InviteOnce, SetUpOnce, NEW p \in Posts, SaveUser(p)
  PROVE  InviteOnce' /\ SetUpOnce'
<1>0. PICK m : m = post[p]
  OBVIOUS
<1> DEFINE found == {u \in users : u.id = m.row.id}
<1>1. m \in [pc: {"idle", "create", "save"}, kind: Kinds, row: OldRows]
  BY <1>0 DEF IInv, Posting
<1>2. /\ users' = (users \ found) \cup {Written(m, u) : u \in found}
      /\ post' = [post EXCEPT ![p] = NoPost] /\ UNCHANGED <<last, made, raced>>
      /\ m.pc = "save"
  BY <1>0 DEF SaveUser, End
<1>3. \A q \in Posts : (q = p /\ post'[q].pc = "idle") \/ (q # p /\ post'[q] = post[q])
  BY <1>2, NoPostType DEF IInv, Posting
<1>4. made' = {} \/ (made' = made /\ users' # {})
  BY <1>2 DEF SetUpOnce
<1>5. ASSUME NEW v \in users'
      PROVE  /\ v.id \in Nat
             /\ \E u \in users : v.id = u.id /\ v.email = u.email
  <2>1. \E u \in users : v.id = u.id /\ v.email = u.email
    BY <1>1, <1>2, WrittenType DEF IInv, IsTable
  <2> QED BY <2>1, AccountAssumption DEF IInv, IsTable, Rows, Ids
<1>6. ASSUME NEW u \in users
      PROVE  \E v \in users' : /\ v.email = u.email /\ (u.hash => v.hash)
                               /\ m.kind = "accept" /\ u.id = m.row.id => v.hash
  <2>1. CASE u \in found
    <3>1. Written(m, u) \in users' /\ u \in Rows
      BY <1>2, <2>1 DEF IInv, IsTable
    <3> QED BY <1>1, <3>1, WrittenType, WrittenHash
  <2>2. CASE u \notin found
    BY <1>2, <2>2
  <2> QED BY <2>1, <2>2
<1>7. CASE m.kind = "accept" /\ found # {}
  <2>1. /\ accepted' = accepted \cup {m.row.email}
        /\ again' = IF m.row.email \in accepted THEN again \cup {m.row.email} ELSE again
    BY <1>0, <1>7 DEF SaveUser
  <2>2. Underway(p, "accept")
    BY <1>0, <1>2, <1>7 DEF Underway
  <2>3. \A q \in Posts : \A k : Underway(q, k)' => q # p /\ Underway(q, k) /\ post'[q] = post[q]
    BY <1>3 DEF Underway
  <2>4. PICK w \in users : w.id = m.row.id /\ w.email = m.row.email
    BY <1>0, <1>2, <1>7 DEF IInv, ReadRow
  <2>5. again' \subseteq raced
    BY <1>0, <2>1, <2>2, <2>4 DEF InviteOnce
  <2>6. \A e \in accepted' : \E v \in users' : v.email = e /\ v.hash
    <3>1. ASSUME NEW e \in accepted PROVE \E v \in users' : v.email = e /\ v.hash
      BY <1>6 DEF InviteOnce
    <3>2. \E v \in users' : v.email = m.row.email /\ v.hash
      BY <1>6, <1>7, <2>4
    <3> QED BY <2>1, <3>1, <3>2
  <2>7. ASSUME NEW q \in Posts, NEW v \in users', Underway(q, "accept")', v.id = post'[q].row.id,
               v.email \in accepted'
        PROVE  v.email \in raced
    <3>1. q # p /\ Underway(q, "accept") /\ post'[q] = post[q]
      BY <2>3, <2>7
    <3>2. PICK u \in users : v.id = u.id /\ v.email = u.email
      BY <1>5
    <3>3. CASE u.email \in accepted
      BY <2>7, <3>1, <3>2, <3>3 DEF InviteOnce
    <3>4. CASE u.email = m.row.email
      <4>1. u = w
        BY <2>4, <3>4 DEF IInv, IsTable
      <4>2. post[p].row.id = post[q].row.id
        BY <1>0, <2>4, <2>7, <3>1, <3>2, <4>1
      <4> QED BY <1>0, <2>2, <3>1, <3>2, <3>4, <4>2 DEF InviteOnce
    <3> QED BY <2>1, <2>7, <3>2, <3>3, <3>4
  <2>8. ASSUME NEW q \in Posts, NEW r \in Posts, q # r, Underway(q, "accept")', Underway(r, "accept")',
               post'[q].row.id = post'[r].row.id
        PROVE  post'[q].row.email \in raced
    BY <2>3, <2>8 DEF InviteOnce
  <2>9. InviteOnce'
    BY <1>2, <2>5, <2>6, <2>7, <2>8 DEF InviteOnce
  <2>10. \A q \in Posts : post'[q].pc = "create" => post'[q] = post[q]
    BY <1>3
  <2>11. SetUpOnce'
    BY <1>2, <1>4, <2>10 DEF SetUpOnce
  <2> QED BY <2>9, <2>11
<1>8. CASE ~(m.kind = "accept" /\ found # {})
  <2>1. UNCHANGED <<accepted, again>>
    BY <1>0, <1>8 DEF SaveUser
  <2>2. \A e \in accepted' : \E v \in users' : v.email = e /\ v.hash
    BY <1>6, <2>1 DEF InviteOnce
  <2> HIDE DEF found
  <2> QED BY <1>2, <1>3, <1>4, <1>5, <2>1, <2>2, CalmOnce
<1> QED BY <1>7, <1>8

LEMMA PostOnce ==
  ASSUME IInv, IInv', InviteOnce, SetUpOnce, NEW p \in Posts, PostStep(p)
  PROVE  InviteOnce' /\ SetUpOnce'
<1>1. ASSUME NEW u \in users
      PROVE  u \in OldRows
  BY DEF IInv, IsTable, Rows, OldRows
<1>2. ASSUME NEW e \in People, NEW isAdmin \in BOOLEAN
      PROVE  NewUser(e, isAdmin) \in OldRows /\ NewUser(e, isAdmin).id = 0
  BY DEF NewUser, NoUser, OldRows
<1>3. ASSUME NEW e \in People, SetUp(p, e)
      PROVE  InviteOnce' /\ SetUpOnce'
  BY <1>2, <1>3, BeginOnce DEF SetUp, Kinds
<1>4. ASSUME NEW e \in People, UserCreate(p, e)
      PROVE  InviteOnce' /\ SetUpOnce'
  <2>1. PICK isAdmin \in BOOLEAN : Begin(p, "create", NewUser(e, isAdmin))
    BY <1>4 DEF UserCreate
  <2> QED BY <1>2, <2>1, BeginOnce DEF Kinds
<1>5. ASSUME NEW e \in People, AcceptInvite(p, e)
      PROVE  InviteOnce' /\ SetUpOnce'
  <2>1. PICK u \in users : ~u.hash /\ Begin(p, "accept", u)
    BY <1>5 DEF AcceptInvite, Active
  <2> QED BY <1>1, <2>1, BeginOnce DEF Kinds
<1>6. ASSUME NEW e \in People, ResetPassword(p, e)
      PROVE  InviteOnce' /\ SetUpOnce'
  <2>1. PICK u \in users : Begin(p, "reset", u)
    BY <1>6 DEF ResetPassword, Active
  <2> QED BY <1>1, <2>1, BeginOnce DEF Kinds
<1>7. ASSUME Toggle(p)
      PROVE  InviteOnce' /\ SetUpOnce'
  <2>1. PICK u \in users, k \in {"active", "admin"} : Begin(p, k, u)
    BY <1>7 DEF Toggle
  <2> QED BY <1>1, <2>1, BeginOnce DEF Kinds
<1> QED BY <1>3, <1>4, <1>5, <1>6, <1>7, CreateOnce, SaveOnce DEF PostStep

\* The restored users have ids that no post has read; who has no password of the file counts
\* as not having accepted, and with no users the set-up counts anew.
LEMMA ImportOnce ==
  ASSUME IInv, InviteOnce, SetUpOnce, NEW file, IsTable(file), Import(file)
  PROVE  InviteOnce' /\ SetUpOnce'
<1>1. /\ users' = {[u EXCEPT !.id = last + 1 + Rank(file, u) - 1] : u \in file}
      /\ UNCHANGED <<post, again, raced>>
      /\ accepted' = {e \in accepted : \E u \in users' : u.email = e /\ u.hash}
      /\ made' = {} \/ (made' = made /\ users' # {})
  BY DEF Import, Rank, NextId
<1>2. ASSUME NEW v \in users'
      PROVE  v.id \in Nat /\ v.id > last
  <2>1. PICK u \in file : v = [u EXCEPT !.id = last + 1 + Rank(file, u) - 1]
    BY <1>1
  <2>2. Rank(file, u) \in Nat /\ Rank(file, u) >= 1 /\ last \in Nat
    BY Ranks DEF IInv
  <2>3. v.id = last + 1 + Rank(file, u) - 1
    BY <2>1 DEF IsTable, Rows
  <2> QED BY <2>2, <2>3
<1>3. \A e \in accepted' : \E u \in users' : u.email = e /\ u.hash
  BY <1>1
<1>4. accepted' \subseteq accepted
  BY <1>1
<1> QED BY <1>1, <1>2, <1>3, <1>4, CalmOnce

LEMMA NextOnce == IInv /\ IInv' /\ InviteOnce /\ SetUpOnce /\ [Next]_vars => InviteOnce' /\ SetUpOnce'
<1> SUFFICES ASSUME IInv, IInv', InviteOnce, SetUpOnce, [Next]_vars
             PROVE  InviteOnce' /\ SetUpOnce'
  OBVIOUS
<1>1. \A v \in users : v.id \in Nat
  BY AccountAssumption DEF IInv, IsTable, Rows, Ids
<1>2. CASE \E p \in Posts : PostStep(p)
  BY <1>2, PostOnce
<1>3. CASE \/ \E e \in People : ResendInvite(e)
           \/ \E b \in Browsers : Login(b) \/ Logout(b)
           \/ Export \/ Restart \/ UNCHANGED vars
  <2>1. UNCHANGED <<users, last, made, accepted, again, raced>>
    BY <1>3 DEF ResendInvite, Login, Logout, Export, Restart, vars, histVars
  <2>2. \A q \in Posts : post'[q] = post[q] \/ post'[q].pc = "idle"
    BY <1>3, NoPostType DEF ResendInvite, Login, Logout, Export, Restart, vars, histVars
  <2>3. made' = {} \/ (made' = made /\ users' # {})
    BY <2>1 DEF SetUpOnce
  <2>4. \A e \in accepted' : \E u \in users' : u.email = e /\ u.hash
    BY <2>1 DEF InviteOnce
  <2> QED BY <1>1, <2>1, <2>2, <2>3, <2>4, CalmOnce
<1>4. ASSUME NEW file \in {{}, backup}, Import(file)
      PROVE  InviteOnce' /\ SetUpOnce'
  <2>1. IsTable(file)
    BY DEF IInv, IsTable
  <2> QED BY <1>4, <2>1, ImportOnce
<1> QED BY <1>2, <1>3, <1>4 DEF Next

\* An invitation sets the password of an address once, and the set-up makes one user, whatever
\* else is posted or cut off: unless two of these very posts had both made their check, or an
\* import has taken the password, or all users, away.
THEOREM OnlyOnce == Spec => []UsedOnce
<1>1. InviteOnce /\ SetUpOnce => UsedOnce
  <2>1. ASSUME NEW i, made = {i} PROVE Cardinality(made) <= 1
    <3>1. Cardinality({i}) = 1
      BY FS_Singleton
    <3> QED BY <2>1, <3>1
  <2>2. ASSUME made = {} PROVE Cardinality(made) <= 1
    BY <2>2, FS_EmptySet
  <2> QED BY <2>1, <2>2 DEF InviteOnce, SetUpOnce, UsedOnce
<1> QED BY InitIInv, NextIInv, InitOnce, NextOnce, <1>1, PTL DEF Spec

-----------------------------------------------------------------------------
(* The buttons' form. *)

Busy(e) == pc[e] \notin {"new", "done"}

\* A post under way has a form.
PostInv == \A e \in Edits : Busy(e) => form[e] \in Forms

\* A guest button that another post will save or has saved is a rival, or was not there yet.
GuestInv ==
  /\ \A b, c \in guest : b = c \/ {b, c} \in rivals
  /\ \A e \in Edits : pc[e] = "update" /\ form[e].guest =>
       /\ \A c \in guest : c = form[e].button \/ {form[e].button, c} \in rivals
       /\ \A f \in Edits : pc[f] = "update" /\ form[f].guest =>
            form[f].button = form[e].button \/ {form[e].button, form[f].button} \in rivals

\* A button has rules of its last form only, and its posts have only such rules to create.
FormInv ==
  \A b \in Buttons \ mixed :
    /\ rules[b] \subseteq intent[b]
    /\ \A e \in Edits : pc[e] = "create" /\ form[e].button = b => left[e] \subseteq intent[b]

\* What was found valid conflicts in the cameras that moved since, and in no others.
ValidInv ==
  /\ \A b \in Buttons : Conflict(intent[b]) \subseteq moved[b]
  /\ \A e \in Edits :
       pc[e] \in {"check", "update", "delete"} => Conflict(form[e].rules) \subseteq moved[e]

\* What the argument needs to know of the buttons' state.
ButtonInv == RulesTypeOK /\ PostInv /\ GuestInv /\ FormInv /\ ValidInv

Stages == {"new", "check", "update", "delete", "create", "done"}

\* A post that was never validated has no button.
LEMMA FormTypes ==
  /\ NoForm.button \notin Buttons
  /\ \A f \in Forms : /\ f.button \in Buttons /\ f.rules \in RuleSets /\ f.guest \in BOOLEAN
                      /\ f.create \in BOOLEAN
  /\ \A f \in Forms : f.rules \in SUBSET (Tags \X Masks)
  BY ButtonAssumption DEF NoForm, Forms, RuleSets

\* A step of a request keeps the requests' types.
LEMMA GotoTypes ==
  ASSUME RulesTypeOK, NEW e \in Edits, NEW from, NEW to \in Stages, Goto(e, from, to)
  PROVE  /\ pc' \in [Edits -> Stages] /\ form' \in [Edits -> Forms \cup {NoForm}]
         /\ left' \in [Edits -> SUBSET (Tags \X Masks)]
<1>1. pc' \in [Edits -> Stages]
  BY DEF RulesTypeOK, Goto, Stages
<1>2. form' \in [Edits -> Forms \cup {NoForm}]
  BY DEF RulesTypeOK, Goto
<1>3. left' \in [Edits -> SUBSET (Tags \X Masks)]
  BY DEF RulesTypeOK, Goto
<1> QED BY <1>1, <1>2, <1>3

\* A request goes on: the others are where they were, and it keeps its form or is over.
LEMMA GoesOn ==
  ASSUME RulesTypeOK, NEW e \in Edits, NEW from, NEW to \in Stages, Goto(e, from, to)
  PROVE  /\ pc[e] = from /\ pc'[e] = to
         /\ \A g \in Edits : g # e => pc'[g] = pc[g]
         /\ \A g \in Edits : g # e \/ to # "done" => form'[g] = form[g] /\ left'[g] = left[g]
<1>1. pc \in [Edits -> Stages] /\ form \in [Edits -> Forms \cup {NoForm}]
      /\ left \in [Edits -> SUBSET (Tags \X Masks)]
  BY DEF RulesTypeOK, Stages
<1> QED BY <1>1 DEF Goto

LEMMA ConflictGrows ==
  ASSUME NEW rs, NEW ss, rs \subseteq ss
  PROVE  Conflict(rs) \subseteq Conflict(ss)
  BY DEF Conflict

LEMMA NoRulesNoConflict == Conflict({}) = {}
  BY DEF Conflict

LEMMA RulesInitInv == RulesInit => ButtonInv
<1> SUFFICES ASSUME RulesInit
             PROVE  ButtonInv
  OBVIOUS
<1>1. RulesTypeOK
  BY DEF RulesInit, RulesTypeOK
<1>2. \A e \in Edits : pc[e] = "new"
  BY DEF RulesInit
<1>3. PostInv /\ GuestInv /\ FormInv
  BY <1>2 DEF RulesInit, PostInv, Busy, GuestInv, FormInv
<1>4. ValidInv
  BY <1>2, NoRulesNoConflict DEF RulesInit, ValidInv
<1> QED BY <1>1, <1>3, <1>4 DEF ButtonInv

\* A post that is found valid conflicts in no camera.
LEMMA ValidateInv ==
  ASSUME ButtonInv, NEW e \in Edits, Validate(e)
  PROVE  ButtonInv'
<1> USE DEF ButtonInv
<1>0. UNCHANGED <<enabled, tags, tagged, moves, saved, guest, rules, intent, mixed, left, rivals>>
  BY DEF Validate, buttonVars
<1>1. \A rs : Conflict(rs)' = Conflict(rs)
  BY <1>0 DEF Conflict, Of
<1>2. PICK f \in Forms :
        /\ pc[e] = "new"
        /\ IF Accept(f.rules)
           THEN /\ pc' = [pc EXCEPT ![e] = "check"] /\ form' = [form EXCEPT ![e] = f]
                /\ moved' = [moved EXCEPT ![e] = {}]
           ELSE pc' = [pc EXCEPT ![e] = "done"] /\ UNCHANGED <<form, moved>>
  BY DEF Validate
<1>3. RulesTypeOK'
  BY <1>0, <1>2 DEF RulesTypeOK
<1>4. \A g \in Edits : g # e => pc'[g] = pc[g] /\ form'[g] = form[g] /\ moved'[g] = moved[g]
  BY <1>2 DEF RulesTypeOK
<1>5. pc'[e] = "done" \/ (pc'[e] = "check" /\ form'[e] = f /\ Conflict(f.rules) = {})
  BY <1>2 DEF RulesTypeOK, Accept
<1>6. PostInv'
  BY <1>4, <1>5 DEF PostInv, Busy
<1>7. GuestInv'
  <2>1. \A g \in Edits : pc'[g] = "update" => pc[g] = "update" /\ form'[g] = form[g]
    BY <1>4, <1>5
  <2> QED BY <1>0, <2>1 DEF GuestInv
<1>8. FormInv'
  BY <1>0, <1>4, <1>5 DEF FormInv
<1>9. ValidInv'
  <2>1. \A b \in Buttons : moved'[b] = moved[b]
    BY <1>2, ButtonAssumption DEF RulesTypeOK
  <2>2. \A b \in Buttons : (Conflict(intent[b]) \subseteq moved[b])'
    BY <1>0, <1>1, <2>1 DEF ValidInv
  <2>3. \A g \in Edits : (pc[g] \in {"check", "update", "delete"}
                            => Conflict(form[g].rules) \subseteq moved[g])'
    BY <1>1, <1>4, <1>5 DEF ValidInv
  <2> QED BY <2>2, <2>3 DEF ValidInv
<1> QED BY <1>3, <1>6, <1>7, <1>8, <1>9

\* A post that passes finds no other guest button, and is a rival of those that passed before.
LEMMA GuestCheckInv ==
  ASSUME ButtonInv, NEW e \in Edits, GuestCheck(e)
  PROVE  ButtonInv'
<1> USE DEF ButtonInv
<1> DEFINE b == form[e].button
           to == IF form[e].guest /\ GuestTaken(e) THEN "done" ELSE "update"
           new == {{b, form[o].button} : o \in
                    {o \in Edits : form[e].guest /\ pc'[e] = "update"
                                   /\ form[o].guest /\ pc[o] = "update"}}
<1>0. /\ to \in Stages /\ Goto(e, "check", to)
      /\ rivals' = rivals \cup new
      /\ UNCHANGED <<enabled, tags, tagged, moved, moves, saved, guest, rules, intent, mixed>>
  BY DEF GuestCheck, deviceVars, buttonVars, Stages
<1>1. \A rs : Conflict(rs)' = Conflict(rs)
  BY <1>0 DEF Conflict, Of
<1>2. /\ pc[e] = "check" /\ pc'[e] = to
      /\ \A g \in Edits : g # e => pc'[g] = pc[g]
      /\ \A g \in Edits : g # e \/ to # "done" => form'[g] = form[g] /\ left'[g] = left[g]
  BY <1>0, GoesOn
<1>3. form[e] \in Forms /\ b \in Buttons
  BY <1>2, FormTypes DEF PostInv, Busy
<1>4. RulesTypeOK'
  <2>1. \A o \in Edits : pc[o] = "update" => form[o].button \in Buttons
    BY FormTypes DEF PostInv, Busy
  <2>2. new \subseteq SUBSET Buttons
    BY <1>3, <2>1
  <2> QED BY <1>0, <2>2, GotoTypes DEF RulesTypeOK, Stages
<1>5. PostInv'
  BY <1>2, <1>3 DEF PostInv, Busy
<1>6. GuestInv'
  <2>1. rivals \subseteq rivals'
    BY <1>0
  <2>2. ASSUME pc'[e] = "update", form[e].guest
        PROVE  /\ guest \subseteq {b}
               /\ \A f \in Edits : pc[f] = "update" /\ form[f].guest
                    => {b, form[f].button} \in rivals'
    <3>1. guest \subseteq {b}
      BY <1>2, <2>2 DEF GuestTaken
    <3> QED BY <1>0, <2>2, <3>1
  <2>3. \A g \in Edits : pc'[g] = "update" => form'[g] = form[g] /\ (g = e \/ pc[g] = "update")
    BY <1>2
  <2>4. ASSUME NEW g \in Edits, pc'[g] = "update", form'[g].guest, NEW c \in guest'
        PROVE  c = form'[g].button \/ {form'[g].button, c} \in rivals'
    BY <1>0, <2>1, <2>2, <2>3, <2>4 DEF GuestInv
  <2>5. ASSUME NEW g \in Edits, pc'[g] = "update", form'[g].guest,
               NEW f \in Edits, pc'[f] = "update", form'[f].guest
        PROVE  form'[f].button = form'[g].button \/ {form'[g].button, form'[f].button} \in rivals'
    <3>1. CASE g = e /\ f = e
      BY <3>1
    <3>2. CASE g = e /\ f # e
      BY <2>2, <2>3, <2>5, <3>2
    <3>3. CASE g # e /\ f = e
      <4>1. {b, form[g].button} \in rivals'
        BY <2>2, <2>3, <2>5, <3>3
      <4>2. {b, form[g].button} = {form[g].button, b}
        OBVIOUS
      <4> QED BY <2>3, <2>5, <3>3, <4>1, <4>2
    <3>4. CASE g # e /\ f # e
      BY <2>1, <2>3, <2>5, <3>4 DEF GuestInv
    <3> QED BY <3>1, <3>2, <3>3, <3>4
  <2>6. \A x, c \in guest' : x = c \/ {x, c} \in rivals'
    BY <1>0, <2>1 DEF GuestInv
  <2> QED BY <2>4, <2>5, <2>6 DEF GuestInv
<1>7. FormInv'
  BY <1>0, <1>2 DEF FormInv
<1>8. ValidInv'
  BY <1>0, <1>1, <1>2 DEF ValidInv
<1> QED BY <1>4, <1>5, <1>6, <1>7, <1>8

LEMMA UpdateInv ==
  ASSUME ButtonInv, NEW e \in Edits, Update(e)
  PROVE  ButtonInv'
<1> USE DEF ButtonInv
<1> DEFINE b == form[e].button
<1>0. /\ Goto(e, "update", "delete") /\ "delete" \in Stages
      /\ UNCHANGED <<enabled, tags, tagged, moved, moves, rules, intent, mixed, rivals>>
      /\ saved' = IF form[e].create THEN saved \cup {b} ELSE saved
      /\ guest' = IF form[e].guest THEN guest \cup ({b} \cap saved') ELSE guest \ {b}
  BY DEF Update, deviceVars, Stages
<1>1. \A rs : Conflict(rs)' = Conflict(rs)
  BY <1>0 DEF Conflict, Of
<1>2. /\ pc[e] = "update" /\ pc'[e] = "delete"
      /\ \A g \in Edits : g # e => pc'[g] = pc[g]
      /\ \A g \in Edits : form'[g] = form[g] /\ left'[g] = left[g]
  BY <1>0, GoesOn
<1>3. form[e] \in Forms /\ b \in Buttons
  BY <1>2, FormTypes DEF PostInv, Busy
<1>4. RulesTypeOK'
  BY <1>0, <1>3, GotoTypes DEF RulesTypeOK, Stages
<1>5. PostInv'
  BY <1>2, <1>3 DEF PostInv, Busy
<1>6. GuestInv'
  <2>1. \A c \in guest' : c \in guest \/ (c = b /\ form[e].guest)
    BY <1>0
  <2>2. \A x, c : {x, c} = {c, x}
    OBVIOUS
  <2>3. ASSUME NEW x \in guest', NEW c \in guest'
        PROVE  x = c \/ {x, c} \in rivals'
    <3>1. CASE x \in guest /\ c \in guest
      BY <1>0, <3>1 DEF GuestInv
    <3>2. CASE x = b /\ form[e].guest /\ c \in guest
      BY <1>0, <1>2, <3>2 DEF GuestInv
    <3>3. CASE c = b /\ form[e].guest /\ x \in guest
      <4>1. x = b \/ {b, x} \in rivals
        BY <1>2, <3>3 DEF GuestInv
      <4> QED BY <1>0, <2>2, <3>3, <4>1
    <3>4. CASE x = b /\ c = b
      BY <3>4
    <3> QED BY <2>1, <3>1, <3>2, <3>3, <3>4
  <2>4. ASSUME NEW g \in Edits, pc'[g] = "update", form'[g].guest, NEW c \in guest'
        PROVE  c = form'[g].button \/ {form'[g].button, c} \in rivals'
    BY <1>0, <1>2, <2>1, <2>4 DEF GuestInv
  <2>5. ASSUME NEW g \in Edits, pc'[g] = "update", form'[g].guest,
               NEW f \in Edits, pc'[f] = "update", form'[f].guest
        PROVE  form'[f].button = form'[g].button \/ {form'[g].button, form'[f].button} \in rivals'
    BY <1>0, <1>2, <2>5 DEF GuestInv
  <2> QED BY <2>3, <2>4, <2>5 DEF GuestInv
<1>7. FormInv'
  BY <1>0, <1>2 DEF FormInv
<1>8. ValidInv'
  BY <1>0, <1>1, <1>2 DEF ValidInv
<1> QED BY <1>4, <1>5, <1>6, <1>7, <1>8

\* The old rules go, and what the form was validated with is what the button has now.
LEMMA DeleteRulesInv ==
  ASSUME ButtonInv, NEW e \in Edits, DeleteRules(e)
  PROVE  ButtonInv'
<1> USE DEF ButtonInv
<1> DEFINE b == form[e].button
<1>1. /\ pc[e] = "delete" /\ pc' = [pc EXCEPT ![e] = "create"]
      /\ rules' = [rules EXCEPT ![b] = {}]
      /\ left' = [left EXCEPT ![e] = form[e].rules]
      /\ intent' = [intent EXCEPT ![b] = form[e].rules]
      /\ moved' = [moved EXCEPT ![b] = moved[e]]
      /\ mixed' = IF At(b, "create") # {} THEN mixed \cup {b} ELSE mixed \ {b}
      /\ UNCHANGED <<enabled, tags, tagged, moves, saved, guest, form, rivals>>
  BY DEF DeleteRules, Replace
<1>2. /\ form[e] \in Forms /\ b \in Buttons
      /\ form[e].rules \in RuleSets /\ form[e].rules \in SUBSET (Tags \X Masks)
  BY <1>1, FormTypes DEF PostInv, Busy
<1>3. \A rs : Conflict(rs)' = Conflict(rs)
  BY <1>1 DEF Conflict, Of
<1>4. \A g \in Edits : pc'[g] = IF g = e THEN "create" ELSE pc[g]
  BY <1>1 DEF RulesTypeOK
<1>5. RulesTypeOK'
  <2>1. rules' \in [Buttons -> SUBSET (tags \X Masks)]
        /\ \A c \in Buttons : \A r, s \in rules'[c] : r[1] = s[1] => r = s
    BY <1>1, <1>2 DEF RulesTypeOK
  <2>2. pc' \in [Edits -> Stages] /\ left' \in [Edits -> SUBSET (Tags \X Masks)]
    BY <1>1, <1>2 DEF RulesTypeOK, Stages
  <2>3. intent' \in [Buttons -> RuleSets \cup {{}}] /\ moved' \in [Buttons \cup Edits -> SUBSET Devices]
    BY <1>1, <1>2 DEF RulesTypeOK
  <2>4. mixed' \subseteq Buttons
    BY <1>1, <1>2 DEF RulesTypeOK
  <2> QED BY <1>1, <2>1, <2>2, <2>3, <2>4 DEF RulesTypeOK, Stages
<1>6. PostInv'
  BY <1>1, <1>2, <1>4 DEF PostInv, Busy
<1>7. GuestInv'
  BY <1>1, <1>4 DEF GuestInv
<1>8. FormInv'
  <2>1. ASSUME NEW c \in Buttons, c \notin mixed'
        PROVE  /\ rules'[c] \subseteq intent'[c]
               /\ \A g \in Edits : pc'[g] = "create" /\ form'[g].button = c => left'[g] \subseteq intent'[c]
    <3>1. CASE c = b
      <4>1. At(b, "create") = {}
        BY <1>1, <2>1, <3>1
      <4>2. \A g \in Edits : pc'[g] = "create" /\ form'[g].button = c => g = e
        BY <1>1, <1>4, <3>1, <4>1 DEF At
      <4> QED BY <1>1, <1>2, <3>1, <4>2 DEF RulesTypeOK
    <3>2. CASE c # b
      <4>1. c \notin mixed /\ rules'[c] = rules[c] /\ intent'[c] = intent[c]
        BY <1>1, <2>1, <3>2 DEF RulesTypeOK
      <4>2. \A g \in Edits : pc'[g] = "create" /\ form'[g].button = c =>
              pc[g] = "create" /\ form[g].button = c /\ left'[g] = left[g]
        BY <1>1, <1>4, <3>2 DEF RulesTypeOK
      <4> QED BY <4>1, <4>2 DEF FormInv
    <3> QED BY <3>1, <3>2
  <2> QED BY <2>1 DEF FormInv
<1>9. ValidInv'
  <2>1. ASSUME NEW c \in Buttons
        PROVE  (Conflict(intent[c]) \subseteq moved[c])'
    <3>1. CASE c = b
      <4>1. intent'[c] = form[e].rules /\ moved'[c] = moved[e]
        BY <1>1, <3>1 DEF RulesTypeOK
      <4> QED BY <1>1, <1>3, <4>1 DEF ValidInv
    <3>2. CASE c # b
      BY <1>1, <1>3, <3>2 DEF ValidInv, RulesTypeOK
    <3> QED BY <3>1, <3>2
  <2>2. ASSUME NEW g \in Edits, pc'[g] \in {"check", "update", "delete"}
        PROVE  (Conflict(form[g].rules) \subseteq moved[g])'
    <3>1. pc[g] \in {"check", "update", "delete"} /\ form'[g] = form[g]
      BY <1>1, <1>4, <2>2
    <3>2. moved'[g] = moved[g]
      BY <1>1, <1>2, ButtonAssumption DEF RulesTypeOK
    <3> QED BY <1>3, <3>1, <3>2 DEF ValidInv
  <2> QED BY <2>1, <2>2 DEF ValidInv
<1> QED BY <1>5, <1>6, <1>7, <1>8, <1>9

\* A post that ends leaves the rest as it is.
LEMMA PostEnds ==
  ASSUME ButtonInv, NEW e \in Edits, Goto(e, "create", "done"),
         UNCHANGED <<enabled, tags, tagged, moved, moves, saved, guest, rules, intent, mixed, rivals>>
  PROVE  ButtonInv'
<1> USE DEF ButtonInv
<1>1. \A rs : Conflict(rs)' = Conflict(rs)
  BY DEF Conflict, Of
<1>2. /\ pc'[e] = "done"
      /\ \A g \in Edits : g # e => pc'[g] = pc[g] /\ form'[g] = form[g] /\ left'[g] = left[g]
  BY GoesOn DEF Stages
<1>3. RulesTypeOK'
  BY GotoTypes DEF RulesTypeOK, Stages
<1>4. PostInv' /\ FormInv'
  BY <1>2 DEF PostInv, Busy, FormInv
<1>5. GuestInv'
  <2>1. \A g \in Edits : pc'[g] = "update" => pc[g] = "update" /\ form'[g] = form[g]
    BY <1>2
  <2> QED BY <2>1 DEF GuestInv
<1>6. ValidInv'
  BY <1>1, <1>2 DEF ValidInv
<1> QED BY <1>3, <1>4, <1>5, <1>6

\* A rule that is created is one of the form's, for a tag that has none.
LEMMA CreateRuleInv ==
  ASSUME ButtonInv, NEW e \in Edits, CreateRule(e)
  PROVE  ButtonInv'
<1> USE DEF ButtonInv
<1> DEFINE b == form[e].button
<1>0. PICK r \in left[e] :
        /\ IF r[1] \in tags /\ b \in saved /\ \A s \in rules[b] : s[1] # r[1]
           THEN /\ pc[e] = "create" /\ left' = [left EXCEPT ![e] = @ \ {r}]
                /\ rules' = [rules EXCEPT ![b] = @ \cup {r}]
                /\ UNCHANGED <<pc, form>>
           ELSE Goto(e, "create", "done") /\ UNCHANGED rules
        /\ UNCHANGED <<deviceVars, saved, guest, intent, mixed, rivals>>
  BY DEF CreateRule
<1>1. /\ pc[e] = "create" /\ form[e] \in Forms /\ b \in Buttons
      /\ UNCHANGED <<enabled, tags, tagged, moved, moves, saved, guest, intent, mixed, rivals>>
  <2>1. pc[e] = "create"
    BY <1>0 DEF Goto
  <2> QED BY <1>0, <2>1, FormTypes DEF Busy, PostInv, deviceVars
<1>2. \A rs : Conflict(rs)' = Conflict(rs)
  BY <1>1 DEF Conflict, Of
<1>3. r \in Tags \X Masks /\ (b \notin mixed => left[e] \subseteq intent[b])
  BY <1>1 DEF RulesTypeOK, FormInv
<1>4. CASE r[1] \in tags /\ b \in saved /\ \A s \in rules[b] : s[1] # r[1]
  <2>1. /\ left' = [left EXCEPT ![e] = left[e] \ {r}] /\ rules' = [rules EXCEPT ![b] = rules[b] \cup {r}]
        /\ UNCHANGED <<pc, form>>
    BY <1>0, <1>4
  <2>2. rules' \in [Buttons -> SUBSET (tags \X Masks)] /\ left' \in [Edits -> SUBSET (Tags \X Masks)]
    <3>1. r \in tags \X Masks
      BY <1>3, <1>4
    <3> QED BY <1>1, <2>1, <3>1 DEF RulesTypeOK
  <2>3. \A c \in Buttons : \A x, y \in rules'[c] : x[1] = y[1] => x = y
    BY <1>1, <1>4, <2>1 DEF RulesTypeOK
  <2>4. RulesTypeOK'
    BY <1>1, <2>1, <2>2, <2>3 DEF RulesTypeOK
  <2>5. PostInv' /\ GuestInv'
    BY <1>1, <2>1 DEF PostInv, Busy, GuestInv
  <2>6. FormInv'
    BY <1>1, <1>3, <2>1 DEF FormInv, RulesTypeOK
  <2>7. ValidInv'
    BY <1>1, <1>2, <2>1 DEF ValidInv
  <2> QED BY <2>4, <2>5, <2>6, <2>7
<1>5. CASE ~(r[1] \in tags /\ b \in saved /\ \A s \in rules[b] : s[1] # r[1])
  <2>1. Goto(e, "create", "done") /\ UNCHANGED rules
    BY <1>0, <1>5
  <2> QED BY <1>1, <1>2, <2>1, PostEnds
<1> QED BY <1>4, <1>5

LEMMA FinishInv ==
  ASSUME ButtonInv, NEW e \in Edits, Finish(e)
  PROVE  ButtonInv'
<1>1. /\ Goto(e, "create", "done")
      /\ UNCHANGED <<enabled, tags, tagged, moved, moves, saved, guest, rules, intent, mixed, rivals>>
  BY DEF Finish, deviceVars, buttonVars
<1> QED BY <1>1, PostEnds

\* A button's rules go with it; its posts fail when they create theirs.
LEMMA DeleteButtonInv ==
  ASSUME ButtonInv, NEW b \in Buttons, DeleteButton(b)
  PROVE  ButtonInv'
<1> USE DEF ButtonInv
<1>0. /\ UNCHANGED <<enabled, tags, tagged, moved, pc, form, left, intent, mixed, rivals>>
      /\ saved' = saved \ {b} /\ guest' = guest \ {b} /\ moves' = moves + 1
      /\ rules' = [rules EXCEPT ![b] = {}]
  BY DEF DeleteButton, postVars, Move
<1>1. \A rs : Conflict(rs)' = Conflict(rs)
  BY <1>0 DEF Conflict, Of
<1>2. RulesTypeOK'
  BY <1>0 DEF RulesTypeOK
<1>3. PostInv' /\ GuestInv'
  BY <1>0 DEF PostInv, Busy, GuestInv
<1>4. FormInv'
  BY <1>0 DEF FormInv, RulesTypeOK
<1>5. ValidInv'
  BY <1>0, <1>1 DEF ValidInv
<1> QED BY <1>2, <1>3, <1>4, <1>5

\* Tags and cameras change: each set of rules conflicts in no other cameras than before, but
\* for those that moved.
LEMMA CamerasMove ==
  ASSUME ButtonInv, NEW new \in SUBSET Devices,
         UNCHANGED <<guest, pc, form, left, intent, mixed, rivals>>,
         \A b \in Buttons : rules'[b] \subseteq rules[b],
         \A rs : Conflict(rs)' \subseteq Conflict(rs) \cup new,
         \A x \in Buttons \cup Edits : moved'[x] = moved[x] \cup new
  PROVE  PostInv' /\ GuestInv' /\ FormInv' /\ ValidInv'
<1> USE DEF ButtonInv
<1>1. PostInv' /\ GuestInv'
  BY DEF PostInv, Busy, GuestInv
<1>2. FormInv'
  BY DEF FormInv
<1>3. ValidInv'
  <2>1. ASSUME NEW c \in Buttons
        PROVE  (Conflict(intent[c]) \subseteq moved[c])'
    <3>1. Conflict(intent[c])' \subseteq Conflict(intent[c]) \cup new
      OBVIOUS
    <3> QED BY <3>1 DEF ValidInv
  <2>2. ASSUME NEW g \in Edits, pc'[g] \in {"check", "update", "delete"}
        PROVE  (Conflict(form[g].rules) \subseteq moved[g])'
    <3>1. Conflict(form[g].rules)' \subseteq Conflict(form[g].rules) \cup new
      OBVIOUS
    <3> QED BY <2>2, <3>1 DEF ValidInv
  <2> QED BY <2>1, <2>2 DEF ValidInv
<1> QED BY <1>1, <1>2, <1>3

\* A set of rules conflicts in other cameras only where a tag has got some.
LEMMA ConflictMoves ==
  ASSUME NEW new, \A t : Of(t)' \subseteq Of(t) \cup new
  PROVE  \A rs : Conflict(rs)' \subseteq Conflict(rs) \cup new
  BY DEF Conflict

\* The same when none moved.
LEMMA CamerasStay ==
  ASSUME ButtonInv,
         UNCHANGED <<guest, pc, form, left, intent, mixed, rivals, moved>>,
         \A b \in Buttons : rules'[b] \subseteq rules[b],
         \A t : Of(t)' \subseteq Of(t)
  PROVE  PostInv' /\ GuestInv' /\ FormInv' /\ ValidInv'
<1>1. PICK none \in SUBSET Devices : none = {}
  OBVIOUS
<1>2. \A t : Of(t)' \subseteq Of(t) \cup none
  OBVIOUS
<1>3. \A rs : Conflict(rs)' \subseteq Conflict(rs) \cup none
  BY <1>2, ConflictMoves
<1>4. \A x \in Buttons \cup Edits : moved'[x] = moved[x] \cup none
  BY <1>1
<1> QED BY <1>3, <1>4, CamerasMove

LEMMA AddTagInv ==
  ASSUME ButtonInv, NEW d \in Devices, NEW t \in Tags, AddTag(d, t)
  PROVE  ButtonInv'
<1> USE DEF ButtonInv
<1>0. /\ moves' = moves + 1
      /\ tagged' = [tagged EXCEPT ![t] = tagged[t] \cup {d}]
      /\ moved' = [x \in Buttons \cup Edits |-> moved[x] \cup {d}]
      /\ UNCHANGED <<enabled, tags, saved, guest, rules, pc, form, left, intent, mixed, rivals>>
  BY DEF AddTag, Move, Moves, buttonVars, postVars
<1>1. \A s : Of(s)' \subseteq Of(s) \cup {d}
  BY <1>0 DEF Of, RulesTypeOK
<1>2. RulesTypeOK'
  BY <1>0 DEF RulesTypeOK
<1>3. \A rs : Conflict(rs)' \subseteq Conflict(rs) \cup {d}
  BY <1>1, ConflictMoves
<1> QED BY <1>0, <1>2, <1>3, CamerasMove

LEMMA RemoveTagInv ==
  ASSUME ButtonInv, NEW d \in Devices, NEW t \in Tags, RemoveTag(d, t)
  PROVE  ButtonInv'
<1> USE DEF ButtonInv
<1>0. /\ moves' = moves + 1
      /\ tagged' = [tagged EXCEPT ![t] = tagged[t] \ {d}]
      /\ UNCHANGED <<enabled, tags, moved, saved, guest, rules, pc, form, left, intent, mixed, rivals>>
  BY DEF RemoveTag, Move, buttonVars, postVars
<1>1. \A s : Of(s)' \subseteq Of(s)
  BY <1>0 DEF Of, RulesTypeOK
<1>2. RulesTypeOK'
  BY <1>0 DEF RulesTypeOK
<1> QED BY <1>0, <1>1, <1>2, CamerasStay

\* The rules for a tag go with it.
LEMMA DeleteTagInv ==
  ASSUME ButtonInv, NEW t \in Tags, DeleteTag(t)
  PROVE  ButtonInv'
<1> USE DEF ButtonInv
<1>0. /\ moves' = moves + 1
      /\ tags' = tags \ {t} /\ tagged' = [tagged EXCEPT ![t] = {}]
      /\ rules' = [b \in Buttons |-> {r \in rules[b] : r[1] # t}]
      /\ UNCHANGED <<enabled, moved, saved, guest, pc, form, left, intent, mixed, rivals>>
  BY DEF DeleteTag, Move, postVars
<1>1. \A s : Of(s)' \subseteq Of(s)
  BY <1>0 DEF Of, RulesTypeOK
<1>2. RulesTypeOK'
  <2>1. rules' \in [Buttons -> SUBSET (tags' \X Masks)]
    <3>1. ASSUME NEW b \in Buttons, NEW r \in rules[b], r[1] # t
          PROVE  r \in tags' \X Masks
      BY <1>0, <3>1 DEF RulesTypeOK
    <3> QED BY <1>0, <3>1
  <2>3. \A c \in Buttons : \A x, y \in rules'[c] : x[1] = y[1] => x = y
    BY <1>0 DEF RulesTypeOK
  <2> QED BY <1>0, <2>1, <2>3 DEF RulesTypeOK
<1>3. \A b \in Buttons : rules'[b] \subseteq rules[b]
  BY <1>0
<1> QED BY <1>0, <1>1, <1>2, <1>3, CamerasStay

LEMMA SetEnabledInv ==
  ASSUME ButtonInv, NEW d \in Devices, SetEnabled(d)
  PROVE  ButtonInv'
<1> USE DEF ButtonInv
<1>0. /\ UNCHANGED <<tags, tagged, saved, guest, rules, pc, form, left, intent, mixed, rivals>>
      /\ moves' = moves + 1
  BY DEF SetEnabled, Move, buttonVars, postVars
<1>1. CASE d \in enabled
  <2>1. enabled' = enabled \ {d} /\ UNCHANGED moved
    BY <1>1 DEF SetEnabled
  <2>2. \A s : Of(s)' \subseteq Of(s)
    BY <1>0, <2>1 DEF Of
  <2>3. RulesTypeOK'
    BY <1>0, <2>1 DEF RulesTypeOK
  <2> QED BY <1>0, <2>1, <2>2, <2>3, CamerasStay
<1>2. CASE d \notin enabled
  <2>1. enabled' = enabled \cup {d} /\ moved' = [x \in Buttons \cup Edits |-> moved[x] \cup {d}]
    BY <1>2 DEF SetEnabled, Moves
  <2>2. \A s : Of(s)' \subseteq Of(s) \cup {d}
    BY <1>0, <2>1 DEF Of
  <2>3. RulesTypeOK'
    BY <1>0, <2>1 DEF RulesTypeOK
  <2>4. \A rs : Conflict(rs)' \subseteq Conflict(rs) \cup {d}
    BY <2>2, ConflictMoves
  <2> QED BY <1>0, <2>1, <2>3, <2>4, CamerasMove
<1> QED BY <1>1, <1>2

LEMMA RulesNextInv ==
  ASSUME ButtonInv, [RulesNext]_rulesVars
  PROVE  ButtonInv'
<1>1. CASE \E e \in Edits : Edit(e)
  BY <1>1, ValidateInv, GuestCheckInv, UpdateInv, DeleteRulesInv, CreateRuleInv, FinishInv
     DEF Edit
<1>2. CASE \E b \in Buttons : DeleteButton(b)
  BY <1>2, DeleteButtonInv
<1>3. CASE \E d \in Devices : SetEnabled(d) \/ \E t \in Tags : AddTag(d, t) \/ RemoveTag(d, t)
  BY <1>3, SetEnabledInv, AddTagInv, RemoveTagInv
<1>4. CASE \E t \in Tags : DeleteTag(t)
  BY <1>4, DeleteTagInv
<1>5. CASE UNCHANGED rulesVars
  <2>1. UNCHANGED <<enabled, tags, tagged, moved, moves, saved, guest, rules, pc, form, left,
                    intent, mixed, rivals>>
    BY <1>5 DEF rulesVars, deviceVars, buttonVars, postVars
  <2>2. RulesTypeOK'
    BY <2>1 DEF ButtonInv, RulesTypeOK
  <2>3. \A rs : Conflict(rs)' = Conflict(rs)
    BY <2>1 DEF Conflict, Of
  <2>4. PostInv' /\ GuestInv' /\ FormInv' /\ ValidInv'
    BY <2>1, <2>3 DEF ButtonInv, PostInv, Busy, GuestInv, FormInv, ValidInv
  <2> QED BY <2>2, <2>4 DEF ButtonInv
<1> QED BY <1>1, <1>2, <1>3, <1>4, <1>5 DEF RulesNext

\* The invariant holds however posts, deletions and changes to tags and cameras interleave.
THEOREM ButtonInvariance == RulesSpec => []ButtonInv
<1>1. ButtonInv /\ [RulesNext]_rulesVars => ButtonInv'
  BY RulesNextInv
<1> QED BY RulesInitInv, <1>1, PTL DEF RulesSpec

\* At every moment the rules of a button are those of one form (save_button_rules), until two
\* posts replace them at once.
THEOREM OneForm == RulesSpec => []RulesOfOneForm
<1>1. ButtonInv => RulesOfOneForm
  BY DEF ButtonInv, FormInv, RulesOfOneForm
<1> QED BY ButtonInvariance, <1>1, PTL

\* No camera has two of a button's rules (validate_button_rules), but for those tagged or
\* enabled after the post was validated, until two posts replace the rules at once.
THEOREM NoTwoSchedules == RulesSpec => []NoConflict
<1>1. ButtonInv => NoConflict
  BY ConflictGrows DEF ButtonInv, FormInv, ValidInv, NoConflict
<1> QED BY ButtonInvariance, <1>1, PTL

\* Two Home buttons are on the guest dashboard only if their posts passed
\* _check_guest_home_conflict before either was saved.
THEOREM OneGuest == RulesSpec => []OneGuestHome
<1>1. ButtonInv => OneGuestHome
  BY DEF ButtonInv, GuestInv, OneGuestHome
<1> QED BY ButtonInvariance, <1>1, PTL
=============================================================================
