----------------------------- MODULE AppConfig -----------------------------
(***************************************************************************)
(* The settings: rows of the table app_config over the defaults, and the   *)
(* copy in memory that the program reads (services/app_config.py,          *)
(* config.py); the settings page, whose posts save a section field by      *)
(* field (routes/admin.py); the row with the colours users have picked.    *)
(*                                                                         *)
(* The page posts every field it showed.  Other posts, a restart and an    *)
(* import of a backup (module Backup) come between any two of its awaits.  *)
(*                                                                         *)
(* Two groups: a section of core settings, whose post reloads the copy at  *)
(* its end, and those of a plugin, where it is reloaded after each field.  *)
(***************************************************************************)
EXTENDS Naturals, Sequences

CONSTANTS
  Section,     \* the fields of each group, in the order in which they are saved
  Secrets,     \* the fields a page never shows
  Values,
  Default,     \* what a setting is without a row (.env, or the plugin's default)
  Unset,       \* no row
  Blank,       \* an input the post skips: an empty secret, a number that is none
  Colours, MaxColours,
  Posts,       \* requests of browsers
  MaxForms     \* bound: pages opened and colours picked

Groups == {"core", "plugin"}

ASSUME ConfigAssumption ==
  /\ Section \in [Groups -> Seq(UNION {{Section[g][i] : i \in DOMAIN Section[g]} : g \in Groups})]
  /\ \A i \in DOMAIN Section["core"], j \in DOMAIN Section["plugin"] :   \* "plugin." keys
       Section["core"][i] # Section["plugin"][j]
  /\ Default \in Values /\ Unset \notin Values /\ Blank \notin Values \cup {Unset}
  /\ MaxColours \in Nat /\ MaxForms \in Nat

VARIABLES
  rows,        \* app_config: the value of each field, or Unset
  palette,     \* app_config: custom_colors, the last one used first
  cache,       \* what get_settings() and get_plugin_setting() answer
  unread,      \* history: groups the copy of which is older than an import
  post,        \* the page or the post of each request
  forms        \* MaxForms

configVars == <<rows, palette, cache, unread, post, forms>>

Fields(g) == {Section[g][i] : i \in DOMAIN Section[g]}
AllFields == UNION {Fields(g) : g \in Groups}
Rows == [AllFields -> Values \cup {Unset}]

Effective(r) == [f \in AllFields |-> IF r[f] = Unset THEN Default ELSE r[f]]

\* pc, and the group; form: what the page holds; at: the field that is next; edited: the
\* field its user has changed, or the colour; copy: the list of colours it has read;
\* stale (history): somebody has written since what it has read was read.
NoPost == [pc |-> "idle", group |-> "core", form |-> [f \in AllFields |-> Blank], at |-> 1,
           edited |-> Blank, copy |-> <<>>, stale |-> FALSE]

Palettes ==
  {s \in UNION {[1..n -> Colours] : n \in 0..MaxColours} : \A i, j \in DOMAIN s : s[i] = s[j] => i = j}

ConfigInit ==
  /\ rows = [f \in AllFields |-> Unset] /\ palette \in Palettes
  /\ cache = Effective(rows) /\ unread = {}
  /\ post = [p \in Posts |-> NoPost] /\ forms = 0

Set(p, r) == post' = [post EXCEPT ![p] = r]

\* What the others have read no longer holds.
SetAndStale(p, r, Reader(_)) ==
  post' = [q \in Posts |->
             IF q = p THEN r ELSE [post[q] EXCEPT !.stale = @ \/ Reader(post[q])]]

-----------------------------------------------------------------------------
(* The settings page. *)

OpenCached(p, g) ==  \* mutant: the page shows the copy in memory
  /\ post[p].pc = "idle" /\ forms < MaxForms /\ forms' = forms + 1
  /\ Set(p, [NoPost EXCEPT !.pc = "page", !.group = g, !.stale = (g = "core" /\ g \in unread),
                           !.form = [f \in AllFields |-> IF f \in Fields(g) \ Secrets
                                                         THEN cache[f] ELSE Blank]])
  /\ UNCHANGED <<rows, palette, cache, unread>>

\* admin_settings: the row; without one the copy in memory, or a plugin's default.
OpenPage(p, g) ==
  /\ post[p].pc = "idle" /\ forms < MaxForms /\ forms' = forms + 1
  /\ LET shown(f) == IF rows[f] # Unset THEN rows[f]
                     ELSE IF g = "core" THEN cache[f] ELSE Default
     IN Set(p, [NoPost EXCEPT !.pc = "page", !.group = g, !.stale = (g = "core" /\ g \in unread),
                              !.form = [f \in AllFields |-> IF f \in Fields(g) \ Secrets
                                                            THEN shown(f) ELSE Blank]])
  /\ UNCHANGED <<rows, palette, cache, unread>>

\* The user changes one field.
Submit(p) ==
  /\ post[p].pc = "page"
  /\ \E f \in Fields(post[p].group), v \in Values \cup {Blank} :
       Set(p, [post[p] EXCEPT !.pc = "save", !.form[f] = v, !.edited = f])
  /\ UNCHANGED <<rows, palette, cache, unread, forms>>

SaveUnread(p) ==  \* mutant: a plugin's copy is not reloaded
  LET m == post[p]
      f == Section[m.group][m.at]
  IN
  /\ m.pc = "save" /\ m.at <= Len(Section[m.group])
  /\ rows' = IF m.form[f] = Blank THEN rows ELSE [rows EXCEPT ![f] = m.form[f]]
  /\ Set(p, [m EXCEPT !.at = @ + 1])
  /\ UNCHANGED <<palette, cache, unread, forms>>

\* save_core_settings, save_plugin_settings: one turn of the loop.
Save(p) ==
  LET m == post[p]
      f == Section[m.group][m.at]
      reader(q) == q.group = m.group /\ q.pc \in {"page", "save", "load"} /\ rows' # rows
  IN
  /\ m.pc = "save" /\ m.at <= Len(Section[m.group])
  /\ IF m.form[f] = Blank
     THEN UNCHANGED rows /\ Set(p, [m EXCEPT !.at = @ + 1])
     ELSE /\ rows' = [rows EXCEPT ![f] = m.form[f]]
          /\ SetAndStale(p, [m EXCEPT !.at = @ + 1,
                                      !.pc = IF m.group = "plugin" THEN "load" ELSE "save"], reader)
  /\ UNCHANGED <<palette, cache, unread, forms>>

Reload(gs) ==
  /\ cache' = [f \in AllFields |-> IF \E g \in gs : f \in Fields(g) THEN Effective(rows)[f]
                                   ELSE cache[f]]
  /\ unread' = unread \ gs

\* load_core_config at the end of the loop, load_plugin_config after each field: the rows
\* over the defaults, not over what was there.
Load(p) ==
  LET m == post[p]
      done == m.at > Len(Section[m.group])
  IN
  /\ \/ m.pc = "load"
     \/ m.pc = "save" /\ done /\ m.group = "core"
  /\ Reload({m.group})
  /\ Set(p, IF done THEN NoPost ELSE [m EXCEPT !.pc = "save"])
  /\ UNCHANGED <<rows, palette, forms>>

\* A plugin's loop whose last fields were skipped.
EndPlugin(p) ==
  /\ post[p].pc = "save" /\ post[p].group = "plugin"
  /\ post[p].at > Len(Section["plugin"])
  /\ Set(p, NoPost)
  /\ UNCHANGED <<rows, palette, cache, unread, forms>>

-----------------------------------------------------------------------------
(* The colours. *)

Without(s, c) == SelectSeq(s, LAMBDA x : x # c)

FrontAgain(s, c) ==  \* mutant: a colour that is picked again is there twice
  SubSeq(<<c>> \o s, 1, IF Len(s) < MaxColours THEN Len(s) + 1 ELSE MaxColours)

Front(s, c) ==
  LET rest == Without(s, c) IN
  SubSeq(<<c>> \o rest, 1, IF Len(rest) < MaxColours THEN Len(rest) + 1 ELSE MaxColours)

\* add_custom_color (a tag or a button saved with a colour that is not in PALETTE) and
\* remove_custom_color read the list ...
ReadColours(p) ==
  /\ post[p].pc = "idle" /\ forms < MaxForms /\ forms' = forms + 1
  /\ \E c \in Colours, to \in {"add", "remove"} :
       Set(p, [NoPost EXCEPT !.pc = to, !.edited = c, !.copy = palette])
  /\ UNCHANGED <<rows, palette, cache, unread>>

\* ... and write it.
SaveColours(p) ==
  LET m == post[p] IN
  /\ m.pc \in {"add", "remove"}
  /\ palette' = IF m.pc = "add" THEN Front(m.copy, m.edited) ELSE Without(m.copy, m.edited)
  /\ SetAndStale(p, NoPost, LAMBDA q : q.pc \in {"add", "remove"} /\ palette' # palette)
  /\ UNCHANGED <<rows, cache, unread, forms>>

PostStep(p) ==
  \/ \E g \in Groups : OpenPage(p, g)
  \/ Submit(p) \/ Save(p) \/ Load(p) \/ EndPlugin(p)
  \/ ReadColours(p) \/ SaveColours(p)

-----------------------------------------------------------------------------
(* The process ends and starts: its posts are gone, pages stay open; lifespan loads both. *)
RestartConfig ==
  /\ post' = [p \in Posts |-> IF post[p].pc = "page" THEN post[p] ELSE NoPost]
  /\ Reload(Groups)
  /\ UNCHANGED <<rows, palette, forms>>

ConfigNext == RestartConfig \/ \E p \in Posts : PostStep(p)

ConfigSpec == ConfigInit /\ [][ConfigNext]_configVars

-----------------------------------------------------------------------------
(* Properties. *)

\* The type invariant.
ConfigTypeOK ==
  /\ rows \in Rows /\ cache \in [AllFields -> Values]
  /\ unread \subseteq Groups /\ forms \in 0..MaxForms
  /\ palette \in Seq(Colours)
  /\ \A p \in Posts :
       /\ post[p].pc \in {"idle", "page", "save", "load", "add", "remove"}
       /\ post[p].group \in Groups
       /\ post[p].form \in [AllFields -> Values \cup {Blank}]
       /\ post[p].at \in Nat \ {0}
       /\ post[p].edited \in AllFields \cup Colours \cup {Blank}
       /\ post[p].copy \in Seq(Colours) /\ post[p].stale \in BOOLEAN

\* A post that will reload the group's copy before it ends.
WillLoad(p, g) ==
  post[p].group = g /\ (post[p].pc = "load" \/ (g = "core" /\ post[p].pc = "save"))

\* A saved value is in effect (README.md:80, "the new value is immediately live"): however
\* posts interleave, wherever the process was restarted, the copy differs from the rows only
\* while a post is about to reload it or since an import, which reloads nothing.
SettingsInEffect ==
  \A g \in Groups :
    \/ g \in unread
    \/ \E p \in Posts : WillLoad(p, g)
    \/ \A f \in Fields(g) : cache[f] = Effective(rows)[f]

\* A post changes what is in effect for the field its user changed and for no other, though
\* it writes them all - a secret that was left empty stays -, unless the group was written,
\* or imported, since its page was opened.
OnlyEditedChange ==
  [][\A p \in Posts : Save(p) /\ ~post[p].stale =>
       \A f \in AllFields \ {post[p].edited} : Effective(rows')[f] = Effective(rows)[f]]_configVars

\* A colour that is picked comes first, one that is removed is gone, and the others stay in
\* their order: none but the last is dropped, and only if there are too many.  A post that
\* read the list before another one wrote it takes that one's colour back.
PaletteStep ==
  [][\A p \in Posts : SaveColours(p) /\ ~post[p].stale =>
       LET c == post[p].edited
           kept == Without(palette', c)
       IN /\ (post[p].pc = "add") = (\E i \in DOMAIN palette' : palette'[i] = c)
          /\ \A i, j \in DOMAIN palette' : palette'[i] = palette'[j] => i = j
          /\ kept = SubSeq(Without(palette, c), 1, Len(kept))
          /\ kept # Without(palette, c) => Len(palette') = MaxColours]_configVars
=============================================================================
