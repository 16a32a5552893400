--------------------------- MODULE ClaudeTakeover ---------------------------
(***************************************************************************)
(* The takeover of Claude Code (route/takeover.rs): one key of the user's  *)
(* settings.json, env.ANTHROPIC_BASE_URL, is pointed at the local router   *)
(* and back.  A copy of the file, or a marker that there was none, is made *)
(* first and removed after the restoration.  The commands run one at a     *)
(* time; each of their steps may fail, the process may die between two of  *)
(* them, and the user edits the file whenever he likes.                    *)
(***************************************************************************)
EXTENDS Naturals

CONSTANTS Urls       \* what the user may have in ANTHROPIC_BASE_URL

VARIABLES
    settings,        \* settings.json
    backup,          \* settings.json.lub-takeover-backup
    absent,          \* whether settings.json.lub-takeover-absent exists
    step             \* of the command that runs

vars == <<settings, backup, absent, step>>

Router == "router"
File(state, url) == [state |-> state, url |-> url]
Missing == File("missing", "none")

Init ==
    /\ settings \in {Missing} \cup {File("json", u) : u \in Urls \cup {"none"}}
    /\ backup = Missing /\ absent = FALSE
    /\ step = "idle"

Saved == backup # Missing \/ absent
Goto(s) == step' = s
Fails == step' = "idle"

-----------------------------------------------------------------------------
(* write_claude_base_url.                                                  *)

\* apply_claude(true) or set_claude_subscription_proxy_at(true): nothing to do when
\* the file points at the router already.
Enable ==
    /\ step = "idle" /\ ~ (settings.state = "json" /\ settings.url = Router)
    /\ Goto("save")
    /\ UNCHANGED <<settings, backup, absent>>

\* What is there already is kept.  A copy is taken of the bytes, whatever they are,
\* and one that fails may leave an empty file, which reads as no settings.
EnsureBackup ==
    /\ step = "save"
    /\ \/ Saved /\ Goto("write") /\ UNCHANGED <<backup, absent>>
       \/ /\ ~ Saved /\ settings # Missing /\ UNCHANGED absent
          /\ \/ backup' = settings /\ Goto("write")
             \/ backup' \in {Missing, File("json", "none")} /\ Fails
       \/ /\ ~ Saved /\ settings = Missing /\ UNCHANGED backup
          /\ \/ absent' = TRUE /\ Goto("write")
             \/ UNCHANGED absent /\ Fails
    /\ UNCHANGED settings

\* Read, merge, rename.  The terms are recorded afterwards, in the database.
WriteUrl ==
    /\ step = "write"
    /\ \/ settings.state # "broken" /\ settings' = File("json", Router)
       \/ UNCHANGED settings
    /\ Goto("idle")
    /\ UNCHANGED <<backup, absent>>

-----------------------------------------------------------------------------
(* restore_claude_base_url.                                                *)

Disable ==
    /\ step = "idle" /\ Saved
    /\ Goto("restore")
    /\ UNCHANGED <<settings, backup, absent>>

Original == IF absent THEN "none" ELSE backup.url

\* Mutant: the failure of this step does not keep the next from being taken.
RestoreAnyway ==
    /\ step = "restore" /\ Goto("forget")
    /\ settings' = IF settings.state # "json" \/ backup.state = "broken" THEN settings
                   ELSE File("json", Original)
    /\ UNCHANGED <<backup, absent>>

\* Only the URL is put back.  A file that the takeover made, and in which nothing
\* else is left, is removed.
Restore ==
    /\ step = "restore"
    /\ \/ /\ settings.state # "broken" /\ (absent \/ backup.state # "broken")
          /\ Goto("forget")
          /\ \/ /\ settings' = IF settings = Missing /\ Original = "none" THEN Missing
                               ELSE File("json", Original)
             \/ absent /\ settings' = Missing
       \/ Fails /\ UNCHANGED settings
    /\ UNCHANGED <<backup, absent>>

\* The copy, and then the marker.
Forget ==
    /\ step = "forget" /\ Goto("idle")
    /\ \/ backup' = Missing /\ absent' = FALSE
       \/ UNCHANGED <<backup, absent>>
    /\ UNCHANGED settings

-----------------------------------------------------------------------------
(* The user and the process.                                               *)

Edit ==
    /\ \/ \E state \in {"json", "broken"}, url \in Urls \cup {"none", settings.url} :
              settings' = File(state, url)
       \/ settings' = Missing
    /\ UNCHANGED <<backup, absent, step>>

Crash ==
    /\ step # "idle" /\ Goto("idle")
    /\ UNCHANGED <<settings, backup, absent>>

Next ==
    \/ Enable \/ EnsureBackup \/ WriteUrl \/ Disable \/ Restore \/ Forget
    \/ Edit \/ Crash

Spec == Init /\ [][Next]_vars

-----------------------------------------------------------------------------
(* Properties.                                                             *)

\* As long as the settings point at the router, there is something to restore them
\* from: a copy or the marker, whatever failed or was interrupted before.
TakeoverSaved == settings.url = Router => Saved

\* "Disable restores only env.ANTHROPIC_BASE_URL": whenever the settings point at
\* the router, what they are to be restored from can be read.
DisableCanRestore ==
    settings.url = Router /\ step = "idle" => absent \/ backup.state = "json"
=============================================================================
