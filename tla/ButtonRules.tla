---------------------------- MODULE ButtonRules ----------------------------
(***************************************************************************)
(* Dashboard buttons: the rules that give a tag's cameras a schedule, the  *)
(* form that saves them (routes/dashboard_buttons.py, services/            *)
(* dashboard_button.py), the tags they lean on (services/tag.py,           *)
(* bulk_tag.py), and what run_workflow makes of a button (queue.py).       *)
(*                                                                         *)
(* A form is validated, the button saved, its rules deleted and created    *)
(* one by one: other posts, also of the same button, deletions, tags and   *)
(* the worker come in between.  The reads of one validation are one step.  *)
(* A button of Buttons is a Home button; one that was not saved does not   *)
(* exist yet.  Mute tags are left out: their save is a post's last step.   *)
(***************************************************************************)
EXTENDS Naturals

CONSTANTS
  Devices, Tags, Masks,  \* cameras, tags, hour bitmasks
  Buttons,               \* the Home buttons
  Edits,                 \* posts of the create or edit form
  MaxMoves               \* bound: changes to tags and cameras, and deletions

ASSUME ButtonAssumption ==
  MaxMoves \in Nat /\ "none" \notin Buttons /\ Buttons \cap Edits = {}

VARIABLES
  enabled,     \* Device.is_enabled
  tags,        \* the tags that exist
  tagged,      \* the devices with each tag
  saved,       \* the buttons that exist
  guest,       \* those shown on the guest dashboard (show_on_guest, is_enabled)
  rules,       \* DashboardButtonBitmaskRule: pairs of tag and hour bitmask
  pc, form,    \* each post: where it is, and what was submitted
  left,        \* the rules a post has not created yet
  intent,      \* history: the rules of the last post that replaced those of the button
  moved,       \* history: cameras tagged or enabled since a post was validated, and, for
               \* a button, since the post its rules come from was
  mixed,       \* history: buttons whose rules one post began to replace while another
               \* was at it
  rivals,      \* history: two buttons whose posts stood between the check for another
               \* guest button and the save at once
  moves

deviceVars == <<enabled, tags, tagged, moved, moves>>
buttonVars == <<saved, guest, rules, intent, mixed>>
postVars   == <<pc, form, left, rivals>>
rulesVars == <<deviceVars, buttonVars, postVars>>

\* _parse_rules: at least one pair; nothing stops two of one tag.
RuleSets == SUBSET (Tags \X Masks) \ {{}}

Forms == [button: Buttons, create: BOOLEAN, rules: RuleSets, guest: BOOLEAN]
NoForm == [button |-> "none", create |-> FALSE, rules |-> {}, guest |-> FALSE]

RulesInit ==
  /\ enabled = Devices /\ tags = Tags /\ tagged \in [Tags -> SUBSET Devices]
  /\ saved = {} /\ guest = {}
  /\ rules = [b \in Buttons |-> {}] /\ intent = [b \in Buttons |-> {}]
  /\ pc = [e \in Edits |-> "new"] /\ form = [e \in Edits |-> NoForm]
  /\ left = [e \in Edits |-> {}]
  /\ moved = [x \in Buttons \cup Edits |-> {}] /\ moves = 0
  /\ mixed = {} /\ rivals = {}

-----------------------------------------------------------------------------
(* The form. *)

Of(t) == IF t \in tags THEN tagged[t] \cap enabled ELSE {}

\* A camera with two rules' tags.
Conflict(rs) == {d \in Devices : \E r, s \in rs : r[1] # s[1] /\ d \in Of(r[1]) \cap Of(s[1])}

\* The posts of a button that are at some stage.
At(b, stage) == {e \in Edits : pc[e] = stage /\ form[e].button = b}

Goto(e, from, to) ==
  /\ pc[e] = from /\ pc' = [pc EXCEPT ![e] = to]
  /\ form' = IF to = "done" THEN [form EXCEPT ![e] = NoForm] ELSE form
  /\ left' = IF to = "done" THEN [left EXCEPT ![e] = {}] ELSE left

AcceptAny(rs) == TRUE  \* mutant: overlaps are only warned of
Accept(rs) == Conflict(rs) = {}

\* validate_button_rules: an overlap is an error (cameras left out are a warning that
\* force_save passes by).
Validate(e) ==
  /\ \E f \in Forms :
       /\ f.create = (f.button \notin saved)
       /\ f.create => \A o \in Edits : form[o].button # f.button  \* a new id
       /\ pc[e] = "new"
       /\ IF Accept(f.rules)
          THEN /\ pc' = [pc EXCEPT ![e] = "check"] /\ form' = [form EXCEPT ![e] = f]
               /\ moved' = [moved EXCEPT ![e] = {}]
          ELSE pc' = [pc EXCEPT ![e] = "done"] /\ UNCHANGED <<form, moved>>
  /\ UNCHANGED <<enabled, tags, tagged, moves, buttonVars, left, rivals>>

GuestTakenBySelf(e) == guest \cap {form[e].button} # {}  \* mutant: the wrong button excluded
GuestTaken(e) == guest \ {form[e].button} # {}

\* _check_guest_home_conflict
GuestCheck(e) ==
  /\ Goto(e, "check", IF form[e].guest /\ GuestTaken(e) THEN "done" ELSE "update")
  /\ rivals' = rivals \cup {{form[e].button, form[o].button} : o \in
                  {o \in Edits : form[e].guest /\ pc'[e] = "update"
                                 /\ form[o].guest /\ pc[o] = "update"}}
  /\ UNCHANGED <<deviceVars, buttonVars>>

\* create_dashboard_button, or update_dashboard_button: nothing if the button is gone.
Update(e) ==
  LET b == form[e].button IN
  /\ Goto(e, "update", "delete")
  /\ saved' = IF form[e].create THEN saved \cup {b} ELSE saved
  /\ guest' = IF form[e].guest THEN guest \cup ({b} \cap saved') ELSE guest \ {b}
  /\ UNCHANGED <<deviceVars, rules, intent, mixed, rivals>>

\* The post replaces the rules: from now on they are meant to be those it submitted.
Replace(e) ==
  LET b == form[e].button IN
  /\ pc[e] = "delete" /\ pc' = [pc EXCEPT ![e] = "create"]
  /\ left' = [left EXCEPT ![e] = form[e].rules]
  /\ intent' = [intent EXCEPT ![b] = form[e].rules]
  /\ moved' = [moved EXCEPT ![b] = moved[e]]
  /\ mixed' = IF At(b, "create") # {} THEN mixed \cup {b} ELSE mixed \ {b}
  /\ UNCHANGED <<enabled, tags, tagged, moves, saved, guest, form, rivals>>

DeleteNone(e) == Replace(e) /\ UNCHANGED rules  \* mutant: the old rules stay

\* save_button_rules: the old rules go ...
DeleteRules(e) == Replace(e) /\ rules' = [rules EXCEPT ![form[e].button] = {}]

\* ... and the new ones come one by one; an IntegrityError (the tag has a rule, or is gone,
\* or the button is) ends the post.
CreateRule(e) ==
  LET b == form[e].button IN
  \E r \in left[e] :
    /\ IF r[1] \in tags /\ b \in saved /\ \A s \in rules[b] : s[1] # r[1]
       THEN /\ pc[e] = "create" /\ left' = [left EXCEPT ![e] = @ \ {r}]
            /\ rules' = [rules EXCEPT ![b] = @ \cup {r}]
            /\ UNCHANGED <<pc, form>>
       ELSE Goto(e, "create", "done") /\ UNCHANGED rules
    /\ UNCHANGED <<deviceVars, saved, guest, intent, mixed, rivals>>

\* save_button_mute_tags, which may fail as well, and the redirect.
Finish(e) ==
  /\ Goto(e, "create", "done") /\ left[e] = {}
  /\ UNCHANGED <<deviceVars, buttonVars, rivals>>

Move == moves < MaxMoves /\ moves' = moves + 1

\* delete_dashboard_button; its rules and mute tags go with it.
DeleteButton(b) ==
  /\ Move /\ b \in saved
  /\ saved' = saved \ {b} /\ guest' = guest \ {b}
  /\ rules' = [rules EXCEPT ![b] = {}]
  /\ UNCHANGED <<enabled, tags, tagged, moved, intent, mixed, postVars>>

-----------------------------------------------------------------------------
(* Tags and cameras. *)

Moves(d) == moved' = [x \in Buttons \cup Edits |-> moved[x] \cup {d}]

\* add_tag_to_device, bulk_tag_devices
AddTag(d, t) ==
  /\ Move /\ t \in tags /\ d \notin tagged[t]
  /\ tagged' = [tagged EXCEPT ![t] = @ \cup {d}]
  /\ Moves(d)
  /\ UNCHANGED <<enabled, tags, buttonVars, postVars>>

\* remove_tag_from_device, bulk_untag_devices
RemoveTag(d, t) ==
  /\ Move /\ t \in tags /\ d \in tagged[t]
  /\ tagged' = [tagged EXCEPT ![t] = @ \ {d}]
  /\ UNCHANGED <<enabled, tags, moved, buttonVars, postVars>>

\* delete_tag; its rules and mute tags go with it.
DeleteTag(t) ==
  /\ Move /\ t \in tags
  /\ tags' = tags \ {t} /\ tagged' = [tagged EXCEPT ![t] = {}]
  /\ rules' = [b \in Buttons |-> {r \in rules[b] : r[1] # t}]
  /\ UNCHANGED <<enabled, moved, saved, guest, intent, mixed, postVars>>

\* update_device; a camera that is deleted (delete_device) is one that stays disabled.
SetEnabled(d) ==
  /\ Move
  /\ IF d \in enabled
     THEN enabled' = enabled \ {d} /\ UNCHANGED moved
     ELSE enabled' = enabled \cup {d} /\ Moves(d)
  /\ UNCHANGED <<tags, tagged, buttonVars, postVars>>

-----------------------------------------------------------------------------
(* run_workflow: the cameras of a command that a button issued, if the     *)
(* worker runs it now.                                                     *)

Covered(rs) == UNION {Of(r[1]) : r \in rs}

Scope(b) == LET map == Covered(rules[b])  \* override_bitmask_map
            IN  IF map # {} THEN map ELSE enabled

Edit(e) == \/ Validate(e) \/ GuestCheck(e) \/ Update(e) \/ DeleteRules(e) \/ CreateRule(e)
           \/ Finish(e)

RulesNext ==
  \/ \E e \in Edits : Edit(e)
  \/ \E b \in Buttons : DeleteButton(b)
  \/ \E d \in Devices : SetEnabled(d) \/ \E t \in Tags : AddTag(d, t) \/ RemoveTag(d, t)
  \/ \E t \in Tags : DeleteTag(t)

RulesSpec == RulesInit /\ [][RulesNext]_rulesVars

-----------------------------------------------------------------------------
(* Properties. *)

\* The type invariant.
RulesTypeOK ==
  /\ enabled \subseteq Devices /\ tags \subseteq Tags /\ tagged \in [Tags -> SUBSET Devices]
  /\ saved \subseteq Buttons /\ guest \subseteq saved /\ moves \in Nat
  /\ rules \in [Buttons -> SUBSET (tags \X Masks)]
  /\ \A b \in Buttons : \A r, s \in rules[b] : r[1] = s[1] => r = s  \* unique_together
  /\ pc \in [Edits -> {"new", "check", "update", "delete", "create", "done"}]
  /\ form \in [Edits -> Forms \cup {NoForm}] /\ left \in [Edits -> SUBSET (Tags \X Masks)]
  /\ intent \in [Buttons -> RuleSets \cup {{}}]
  /\ moved \in [Buttons \cup Edits -> SUBSET Devices]
  /\ mixed \subseteq Buttons /\ rivals \subseteq SUBSET Buttons

\* At every moment - half way through a save, after a save that failed - the rules of a
\* button are those of the last form that began to replace them, never some of an earlier
\* one: but from two posts that replaced them at once until a post does so alone.
RulesOfOneForm == \A b \in Buttons \ mixed : rules[b] \subseteq intent[b]

\* No camera has two of a button's rules, unless it was tagged or enabled after the post
\* they come from was validated, with the same exception of two posts at once.
NoConflict == \A b \in Buttons \ mixed : Conflict(rules[b]) \subseteq moved[b]

\* "Only one Home button can be assigned to the Guest Dashboard" (routes/
\* dashboard_buttons.py:210): two are only if the posts of just these two stood between
\* check and save at once.
OneGuestHome == \A b, c \in guest : b = c \/ {b, c} \in rivals

-----------------------------------------------------------------------------
(* What the code's words say, and the code does not do. *)

\* queue.py:164: a run touches no "cameras that aren't part of this button's configuration".
RunStaysInRules ==
  \A b \in saved : intent[b] # {} => Scope(b) \subseteq Covered(intent[b])
=============================================================================
