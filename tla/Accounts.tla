------------------------------ MODULE Accounts ------------------------------
(***************************************************************************)
(* User accounts: the first set-up, invitations, password resets, sign-in  *)
(* and the admin's page of users (routes/auth.py, routes/users.py,         *)
(* services/user.py, auth.py).                                             *)
(*                                                                         *)
(* A post reads the row it is about, or counts the rows, checks, and saves *)
(* after another await; other posts come in between, an import of a backup *)
(* (services/data_import.py) that replaces all users, or the process ends. *)
(* A session is a cookie with the id of a user; links by e-mail name the   *)
(* address, are valid for a time, and survive all of this.                 *)
(***************************************************************************)
EXTENDS Naturals, FiniteSets

CONSTANTS
  People,      \* e-mail addresses
  Browsers,
  Posts,       \* requests that may be under way at once
  Nobody,
  MaxId,       \* bound: users that ever get an id
  MaxPosts, MaxImports  \* bounds: posts, imports

ASSUME AccountAssumption ==
  Nobody \notin People /\ {MaxId, MaxPosts, MaxImports} \subseteq Nat /\ MaxId # 0

VARIABLES
  users,       \* the table: id, email, whether there is a password_hash, is_active, is_admin
  last,        \* the last id it has given
  invited,     \* who was sent an invitation; an expired one is one nobody uses again
  session,     \* user_id in the cookie of each browser, or 0
  post,        \* each request
  backup,      \* the users of an exported file
  person,      \* history: who has signed in at each browser
  made,        \* history: the users that the set-up made, since an import last left none
  accepted,    \* history: people whose password an invitation has set, and no import has
               \* taken away since
  again,       \* history: people of accepted whose password an invitation has set once more
  raced,       \* history: people (Nobody: the set-up) two of whose posts were between check
               \* and save at once
  begun, imports  \* how many posts and imports there were

histVars == <<person, made, accepted, again, raced>>
vars == <<users, last, invited, session, post, backup, histVars, begun, imports>>

Ids == 1..MaxId
Rows == [id: Ids, email: People, hash: BOOLEAN, active: BOOLEAN, admin: BOOLEAN]
Kinds == {"setup", "create", "accept", "reset", "active", "admin"}
NoUser == [id |-> 0, email |-> Nobody, hash |-> FALSE, active |-> FALSE, admin |-> FALSE]

\* pc: what comes next; row: the row it has read, or is about to create.
NoPost == [pc |-> "idle", kind |-> "setup", row |-> NoUser]

\* A file of another installation may be at hand (data_export.py:4, "portable").
Elsewhere ==
  {{}} \cup {{[id |-> 1, email |-> e, hash |-> TRUE, active |-> TRUE, admin |-> TRUE]} : e \in People}

Init ==
  /\ users = {} /\ last = 0 /\ invited = {} /\ backup \in Elsewhere
  /\ session = [b \in Browsers |-> 0] /\ person = [b \in Browsers |-> Nobody]
  /\ post = [p \in Posts |-> NoPost]
  /\ made = {} /\ accepted = {} /\ again = {} /\ raced = {}
  /\ begun = 0 /\ imports = 0

\* get_user_by_email, get_current_user: inactive users do not count.
Active == {u \in users : u.active}

\* require_admin
AdminActs == \E b \in Browsers, u \in Active : u.id = session[b] /\ u.admin

-----------------------------------------------------------------------------
(* A post reads and checks ... *)

Whose(kind, row) == IF kind = "setup" THEN Nobody ELSE row.email

Begin(p, kind, row) ==
  /\ post[p].pc = "idle" /\ begun < MaxPosts /\ begun' = begun + 1
  /\ post' = [post EXCEPT ![p] = [pc |-> IF kind \in {"setup", "create"} THEN "create" ELSE "save",
                                  kind |-> kind, row |-> row]]
  /\ raced' = IF kind \in {"setup", "accept"} /\ \E q \in Posts :
                   post[q].pc # "idle" /\ post[q].kind = kind /\ post[q].row.id = row.id
              THEN raced \cup {Whose(kind, row)} ELSE raced
  /\ UNCHANGED <<users, last, invited, session, backup, person, made, accepted, again, imports>>

NewUser(e, isAdmin) == [NoUser EXCEPT !.email = e, !.active = TRUE, !.admin = isAdmin]

\* setup_submit: _no_users_exist
SetUp(p, e) == users = {} /\ Begin(p, "setup", NewUser(e, TRUE))

\* user_create, by an admin
UserCreate(p, e) ==
  /\ AdminActs /\ \A u \in users : u.email # e
  /\ \E isAdmin \in BOOLEAN : Begin(p, "create", NewUser(e, isAdmin))

\* set_password_submit
AcceptInvite(p, e) ==
  /\ e \in invited
  /\ \E u \in Active : u.email = e /\ ~u.hash /\ Begin(p, "accept", u)

\* forgot_password_submit: whoever has an active account may be sent a link at any time.
ResetLink(e) == \E u \in Active : u.email = e

\* reset_password_submit
ResetPassword(p, e) == ResetLink(e) /\ \E u \in Active : u.email = e /\ Begin(p, "reset", u)

\* user_toggle_active, user_toggle_admin
Toggle(p) == AdminActs /\ \E u \in users, k \in {"active", "admin"} : Begin(p, k, u)

-----------------------------------------------------------------------------
(* ... and then writes. *)

NextIdReused(us) ==  \* mutant: without AUTOINCREMENT the highest id that is free again
  1 + (IF us = {} THEN 0 ELSE (CHOOSE u \in us : \A v \in us : v.id <= u.id).id)
NextId(us) == last + 1

End(p) == post' = [post EXCEPT ![p] = NoPost]

\* create_user: an address that has come since is an IntegrityError.  The set-up goes on with
\* the password; the admin's post sends the invitation.
CreateUser(p) ==
  LET m == post[p]
      u == [m.row EXCEPT !.id = NextId(users)]
  IN
  /\ m.pc = "create" /\ u.id \in Ids
  /\ IF \E v \in users : v.email = u.email
     THEN End(p) /\ UNCHANGED <<users, last, invited, made>>
     ELSE /\ users' = users \cup {u} /\ last' = u.id
          /\ IF m.kind = "setup"
             THEN /\ post' = [post EXCEPT ![p] = [m EXCEPT !.pc = "save", !.row = u]]
                  /\ made' = made \cup {u.id} /\ UNCHANGED invited
             ELSE End(p) /\ invited' = invited \cup {u.email} /\ UNCHANGED made
  /\ UNCHANGED <<session, backup, person, accepted, again, raced, begun, imports>>

WrittenWhole(m, u) ==  \* mutant: save() without update_fields
  CASE m.kind = "active" -> [m.row EXCEPT !.active = ~@]
    [] m.kind = "admin"  -> [m.row EXCEPT !.admin = ~@]
    [] OTHER             -> [m.row EXCEPT !.hash = TRUE]

\* user.save(update_fields=...): the column the post is about, of the row as it is now.
Written(m, u) ==
  CASE m.kind = "active" -> [u EXCEPT !.active = ~m.row.active]
    [] m.kind = "admin"  -> [u EXCEPT !.admin = ~m.row.admin]
    [] OTHER             -> [u EXCEPT !.hash = TRUE]

\* set_password and the toggles; a row that is gone stays gone.
SaveUser(p) ==
  LET m == post[p]
      i == m.row.id
      set == {u \in users : u.id = i}
  IN
  /\ m.pc = "save" /\ End(p)
  /\ users' = (users \ set) \cup {Written(m, u) : u \in set}
  /\ IF m.kind = "accept" /\ set # {}
     THEN /\ accepted' = accepted \cup {m.row.email}
          /\ again' = IF m.row.email \in accepted THEN again \cup {m.row.email} ELSE again
     ELSE UNCHANGED <<accepted, again>>
  /\ UNCHANGED <<last, invited, session, backup, person, made, raced, begun, imports>>

PostStep(p) ==
  \/ \E e \in People : SetUp(p, e) \/ UserCreate(p, e) \/ AcceptInvite(p, e) \/ ResetPassword(p, e)
  \/ Toggle(p) \/ CreateUser(p) \/ SaveUser(p)

-----------------------------------------------------------------------------
(* Links and sessions. *)

\* user_resend_invite
ResendInvite(e) ==
  /\ AdminActs /\ \E u \in users : u.email = e /\ ~u.hash
  /\ invited' = invited \cup {e}
  /\ UNCHANGED <<users, last, session, post, backup, histVars, begun, imports>>

\* login_submit, with the right password
Login(b) ==
  /\ \E u \in Active :
       /\ u.hash
       /\ session' = [session EXCEPT ![b] = u.id] /\ person' = [person EXCEPT ![b] = u.email]
  /\ UNCHANGED <<users, last, invited, post, backup, made, accepted, again, raced, begun, imports>>

\* logout, or get_current_user finds no active user of that id.
Logout(b) ==
  /\ session[b] # 0 /\ session' = [session EXCEPT ![b] = 0]
  /\ person' = [person EXCEPT ![b] = Nobody]
  /\ UNCHANGED <<users, last, invited, post, backup, made, accepted, again, raced, begun, imports>>

-----------------------------------------------------------------------------
(* Backup, and restart. *)

\* _export_users
Export ==
  /\ AdminActs /\ backup = {} /\ backup' = users               \* bound: one file
  /\ UNCHANGED <<users, last, invited, session, post, histVars, begun, imports>>

\* apply_import, a transaction: the users of the file, with new ids.  A file need not have
\* any (migrate_to_current_format).
Import(file) ==
  LET rank(u) == Cardinality({v \in file : v.id <= u.id}) IN
  /\ AdminActs /\ imports < MaxImports /\ imports' = imports + 1
  /\ users' = {[u EXCEPT !.id = NextId({}) + rank(u) - 1] : u \in file}
  /\ last' = last + Cardinality(file) /\ last' <= MaxId         \* bound: MaxId
  /\ made' = IF users' = {} THEN {} ELSE made
  /\ accepted' = {e \in accepted : \E u \in users' : u.email = e /\ u.hash}
  /\ UNCHANGED <<invited, session, post, backup, person, again, raced, begun>>

\* The process ends and starts: requests are gone, cookies and links are not.
Restart ==
  /\ post' = [p \in Posts |-> NoPost]
  /\ UNCHANGED <<users, last, invited, session, backup, histVars, begun, imports>>

Next ==
  \/ \E p \in Posts : PostStep(p)
  \/ \E e \in People : ResendInvite(e)
  \/ \E b \in Browsers : Login(b) \/ Logout(b)
  \/ Export \/ (\E file \in {{}, backup} : Import(file)) \/ Restart

Spec == Init /\ [][Next]_vars

-----------------------------------------------------------------------------
(* Properties. *)

\* The type invariant.
TypeOK ==
  /\ users \subseteq Rows /\ backup \subseteq Rows /\ last \in 0..MaxId
  /\ invited \subseteq People
  /\ session \in [Browsers -> Ids \cup {0}] /\ person \in [Browsers -> People \cup {Nobody}]
  /\ post \in [Posts -> [pc: {"idle", "create", "save"}, kind: Kinds,
                        row: [id: Ids \cup {0}, email: People \cup {Nobody},
                              hash: BOOLEAN, active: BOOLEAN, admin: BOOLEAN]]]
  /\ \A u, v \in users : u.id = v.id \/ u.email = v.email => u = v
  /\ made \subseteq Ids /\ accepted \subseteq People /\ again \subseteq People
  /\ raced \subseteq People \cup {Nobody} /\ {begun, imports} \subseteq Nat

\* An invitation sets the password of an address once - "this ensures an invite link can only
\* be used once" (docs/authentication.md:187) - and the set-up makes one user, whatever else is
\* posted or cut off meanwhile, unless two of these very posts both made their check before
\* either wrote.  Only an import starts the count anew: when its file has the address without a
\* password, or not at all, the same link works again, and when it has no users the set-up does.
UsedOnce ==
  /\ again \subseteq raced
  /\ Cardinality(made) <= 1 \/ Nobody \in raced

\* The user a session's cookie stands for is the one who signed in: an import that replaces
\* the users ends the sessions, it never hands one to somebody else.
SessionIsOwn ==
  \A b \in Browsers, u \in users : u.id = session[b] => u.email = person[b]
=============================================================================
