---------------------------- MODULE CodexPointer ----------------------------
(***************************************************************************)
(* The pointer in the user's Codex configuration (route/pointer.rs): the   *)
(* commands that point config.toml at the local router and away from it,   *)
(* which back the file up, write a copy, rename it and read it back.  The  *)
(* commands are asynchronous and may overlap (api/commands/router.rs, and  *)
(* the takeover of route/takeover.rs); the user edits the file whenever he *)
(* likes; the process may die between any two steps.                       *)
(*                                                                         *)
(* Of the file's content the model keeps which Provider it selects and     *)
(* whether all is in it that the user had there when he last wrote to it   *)
(* while no command was running.  Ports are left out: whether the router   *)
(* listens, and whether the file names the port that is configured, only   *)
(* decides whether a command goes on, and may be either way here.          *)
(***************************************************************************)
EXTENDS Naturals, Sequences

CONSTANTS
    Commands,
    Selections,      \* Providers of the user's own
    MaxBackups       \* bound: copies the application makes

VARIABLES
    config,          \* config.toml
    backups,         \* config.toml.bak-*-before-router, oldest first
    unrouted,        \* whether config.toml.before-unroute has all the user had
    scripted,        \* whether a config.toml.bak-*-before-unroute has
    cmd,             \* [Commands -> where a command stands, and its locals]
    before           \* for a property: what was selected when the file was pointed, and
                     \* whether the newest backup of another selection is from then

vars == <<config, backups, unrouted, scripted, cmd, before>>

Router == "router"
File(state, sel, whole) == [state |-> state, sel |-> sel, whole |-> whole]
Missing(whole) == File("missing", "none", whole)
Empty == File("toml", "none", FALSE)

\* What a command will write, and which backup it has made.
Idle == [pc |-> "idle", doc |-> Missing(FALSE), copy |-> 0]

Init ==
    /\ config \in {File("toml", s, TRUE) : s \in Selections \cup {"none"}}
    /\ backups = <<>> /\ unrouted = FALSE /\ scripted = FALSE
    /\ cmd = [c \in Commands |-> Idle]
    /\ before = [sel |-> "none", backed |-> FALSE]

Quiet == \A c \in Commands : cmd[c].pc = "idle"
At(c, place) == cmd[c].pc = place
Goto(c, place) == cmd' = [cmd EXCEPT ![c].pc = place]
Return(c) == cmd' = [cmd EXCEPT ![c] = Idle]

\* Not pointed at the router, or not readable.
Other(file) == file.state = "toml" => file.sel # Router

-----------------------------------------------------------------------------
(* point_codex_at_router_inner.                                            *)

\* enable_pointer, if the router listens; apply_codex(true), if the file does not
\* point there already.
Point(c) ==
    /\ At(c, "idle")
    /\ Goto(c, "read")
    /\ UNCHANGED <<config, backups, unrouted, scripted, before>>

\* Mutant: a file that cannot be parsed counts as none.
ReadConfigAnyway(c) ==
    /\ At(c, "read")
    /\ cmd' = [cmd EXCEPT ![c].pc = IF config.state = "toml" THEN "copy" ELSE "replace",
                          ![c].doc = File("toml", Router, config.state # "broken" /\ config.whole)]
    /\ UNCHANGED <<config, backups, unrouted, scripted, before>>

\* Not there: the first write.  Not readable, or not of the expected form: an error.
ReadConfig(c) ==
    /\ At(c, "read")
    /\ IF config.state = "broken"
       THEN Return(c)
       ELSE cmd' = [cmd EXCEPT ![c].pc = IF config.state = "toml" THEN "copy" ELSE "replace",
                               ![c].doc = File("toml", Router, config.whole)]
    /\ UNCHANGED <<config, backups, unrouted, scripted, before>>

\* The copy is of what the file is now.  A copy that fails may leave a name with
\* nothing in it.
Copy(c) ==
    /\ At(c, "copy")
    /\ \/ /\ config.state # "missing" /\ Len(backups) < MaxBackups
          /\ backups' = Append(backups, config)
          /\ cmd' = [cmd EXCEPT ![c].pc = "replace", ![c].copy = Len(backups')]
          /\ before' = [before EXCEPT !.backed = @ /\ ~ Other(config)]
       \/ /\ Len(backups) < MaxBackups
          /\ backups' = Append(backups, Empty)
          /\ before' = [before EXCEPT !.backed = FALSE]
          /\ Return(c)
       \/ UNCHANGED <<backups, before>> /\ Return(c)
    /\ UNCHANGED <<config, unrouted, scripted>>

NewestIs(file) == backups # <<>> /\ backups[Len(backups)] = file

\* The temporary file and the rename.
Replace(c) ==
    /\ At(c, "replace")
    /\ \/ /\ config' = cmd[c].doc
          /\ Goto(c, "verify")
          /\ before' = IF config.sel = Router THEN before
                       ELSE [sel |-> config.sel, backed |-> NewestIs(config)]
       \/ Return(c) /\ UNCHANGED <<config, before>>
    /\ UNCHANGED <<backups, unrouted, scripted>>

\* Reading back may fail for a reason of its own.
Verify(c) ==
    /\ At(c, "verify")
    /\ \/ config.state = "toml" /\ config.sel = Router /\ Return(c)
       \/ Goto(c, "restore")
    /\ UNCHANGED <<config, backups, unrouted, scripted, before>>

\* restore_from_backup; without a backup the new file is removed.
Restore(c) ==
    /\ At(c, "restore")
    /\ \/ config' = IF cmd[c].copy = 0 THEN Missing(cmd[c].doc.whole) ELSE backups[cmd[c].copy]
       \/ UNCHANGED config
    /\ Return(c)
    /\ UNCHANGED <<backups, unrouted, scripted, before>>

-----------------------------------------------------------------------------
(* disconnect_codex_inner.                                                 *)

\* disconnect_router_pointer; apply_codex(false), if the file points at the
\* configured port.
Disconnect(c) ==
    /\ At(c, "idle")
    /\ Goto(c, "look")
    /\ UNCHANGED <<config, backups, unrouted, scripted, before>>

Others == {i \in 1..Len(backups) : Other(backups[i])}

\* Mutant: the backups are looked through from the oldest on.
PreviousOldest == CHOOSE i \in Others : \A j \in Others : i <= j

\* The newest backup that is not of a file pointed at the router already.
Previous == CHOOSE i \in Others : \A j \in Others : j <= i

\* A backup that cannot be parsed is an error, none is no selection.
Look(c) ==
    /\ At(c, "look")
    /\ IF \/ config.state # "toml" \/ config.sel # Router
          \/ Others # {} /\ backups[Previous].state = "broken"
       THEN Return(c)
       ELSE cmd' = [cmd EXCEPT ![c].pc = "leave", ![c].doc =
                      [config EXCEPT !.sel = IF Others = {} THEN "none" ELSE backups[Previous].sel]]
    /\ UNCHANGED <<config, backups, unrouted, scripted, before>>

\* The copy of the file as it is now takes the place of the copy made before, of
\* which nothing may be left when it fails.
Leave(c) ==
    /\ At(c, "leave")
    /\ \/ Return(c) /\ unrouted' \in {unrouted, FALSE}
       \/ /\ config.state # "missing" /\ unrouted' = config.whole
          /\ Goto(c, "unpoint")
    /\ UNCHANGED <<config, backups, scripted, before>>

\* Only the top-level key changes; the section of the router stays.
Unpoint(c) ==
    /\ At(c, "unpoint")
    /\ \/ config.state # "missing" /\ config' = cmd[c].doc
       \/ UNCHANGED config
    /\ Return(c)
    /\ UNCHANGED <<backups, unrouted, scripted, before>>

-----------------------------------------------------------------------------
(* The user, the script for emergencies, and the process.                  *)

\* Any edit may select another Provider, or leave the file broken or mend it.  What
\* he writes while no command runs is what must be kept from then on.
Edit(sel, state) ==
    /\ IF Quiet
       THEN /\ config' = File(state, sel, TRUE)
            /\ backups' = [i \in 1..Len(backups) |-> [backups[i] EXCEPT !.whole = FALSE]]
            /\ unrouted' = FALSE /\ scripted' = FALSE
       ELSE config' = File(state, sel, config.whole) /\ UNCHANGED <<backups, unrouted, scripted>>
    /\ UNCHANGED <<cmd, before>>

\* The user deletes the file, and with it all that would have to be kept.
Delete ==
    /\ Quiet /\ config.state # "missing"
    /\ config' = Missing(TRUE)
    /\ UNCHANGED <<backups, unrouted, scripted, cmd, before>>

\* codex-unroute.sh restores the newest backup as it is, after a copy of the file
\* under a name of that second.
UnrouteScript ==
    /\ config.state # "missing"
    /\ scripted' = (scripted \/ config.whole)
    /\ \/ backups # <<>> /\ config' = backups[Len(backups)]
       \/ backups = <<>> /\ \E s \in Selections : config' = [config EXCEPT !.sel = s]
    /\ UNCHANGED <<backups, unrouted, cmd, before>>

\* At its start the application reads the pointer and never writes it.
Restart ==
    /\ ~ Quiet
    /\ cmd' = [c \in Commands |-> Idle]
    /\ UNCHANGED <<config, backups, unrouted, scripted, before>>

Next ==
    \/ \E c \in Commands :
        \/ Point(c) \/ ReadConfig(c) \/ Copy(c) \/ Replace(c) \/ Verify(c) \/ Restore(c)
        \/ Disconnect(c) \/ Look(c) \/ Leave(c) \/ Unpoint(c)
    \/ \E sel \in Selections \cup {config.sel} : Edit(sel, "toml")
    \/ Edit("none", "broken")
    \/ Delete \/ UnrouteScript \/ Restart

Spec == Init /\ [][Next]_vars

-----------------------------------------------------------------------------
(* Properties.                                                             *)

\* Whatever is done to the file, and wherever it is interrupted, all that the user
\* had in it when the application began to work on it is in one file: the
\* configuration itself or one of its copies.
UserSettingsKept ==
    config.whole \/ unrouted \/ scripted \/ \E i \in 1..Len(backups) : backups[i].whole

\* "Restore the previous provider selection": whoever was selected when the file
\* was pointed at the router is selected again after it was pointed away.  Not
\* promised for a file that did not exist then, that the user changed while it was
\* being replaced, or of which there is a newer backup with another selection.
SelectionRestored ==
    [][\A c \in Commands :
         At(c, "look") /\ cmd'[c].pc = "leave" /\ before.backed => cmd'[c].doc.sel = before.sel]_vars
=============================================================================
