--------------------------- MODULE UsageIngestion ---------------------------
(***************************************************************************)
(* How a session log of Codex becomes usage records (ingest/mod.rs,        *)
(* ingest/codex.rs, usage/ingestion.rs, store/dao/usage_sync_cursors.rs).  *)
(* A pass looks whether the file was written to since its cursor, reads    *)
(* all of it, stores what the lines above the cursor's watermark add to    *)
(* the running total, each in a transaction of its own, and then moves the *)
(* cursor.  Two kinds of pass exist: the bound one, for the account that   *)
(* the source is bound to, one at a time; and the unbound one of the       *)
(* command sync_session_usage, beside it.                                  *)
(*                                                                         *)
(* One path is modelled, in a date partition old enough to be pruned; the  *)
(* file it names may be replaced.  A cursor belongs to the file, not the   *)
(* path.  Left out: cursors of older versions under the path, renames,     *)
(* prices, links to requests seen by a proxy (nothing in the program       *)
(* stores such requests any more).  No two writes share a modification     *)
(* time.                                                                   *)
(***************************************************************************)
EXTENDS Naturals, Sequences, FiniteSets, FiniteSetsExt

CONSTANTS
    Owners,          \* usage accounts the source can be bound to
    MaxLines,        \* bound: lines of a file
    MaxTotal,        \* bound: running total of a line
    MaxFiles,        \* bound: files the path names one after the other
    MaxWrites,       \* bound: writes and replacements
    MaxCommands,     \* bound: unbound passes
    MaxBindings      \* bound: changes of the binding

Passes == {"bound", "unbound"}
Files == 1..MaxFiles

VARIABLES
    files,           \* [Files -> [session, lines, mtime]]
    path,            \* the file the path names
    clock,           \* the time of the last write
    dirtime,         \* when the directory was last changed
    cursors,         \* usage_sync_cursors: [Files -> [modified, offset]]
    events,          \* usage_events, by session and number, with owner
    logs,            \* proxy_request_logs, by session and number
    owner,           \* usage_source_bindings
    bindings,        \* changes of it so far
    commands,        \* unbound passes so far
    pass,            \* [Passes -> where a pass stands, and its locals]
    lost             \* remembered: lines a cursor moved over without a record

vars == <<files, path, clock, dirtime, cursors, events, logs, owner, bindings, commands, pass, lost>>

NoCursor == [modified |-> 0, offset |-> 0]
NoFile == [session |-> 0, lines |-> <<>>, mtime |-> 0]

NoCursors == [f \in Files |-> NoCursor]

\* known are the cursors a pass has listed; offset the watermark of the file it has
\* opened; todo the records it has yet to store; count the lines it read; missed
\* those of them it will have no record of.
Idle == [pc |-> "idle", known |-> NoCursors, file |-> 1, mtime |-> 0, offset |-> 0,
         todo |-> {}, count |-> 0, missed |-> {}]

Init ==
    /\ files = [f \in Files |-> IF f = 1 THEN [session |-> 1, lines |-> <<>>, mtime |-> 1] ELSE NoFile]
    /\ path = 1 /\ clock = 1 /\ dirtime = 1
    /\ cursors = NoCursors
    /\ events = {} /\ logs = {}
    /\ owner \in Owners /\ bindings = 0 /\ commands = 0
    /\ pass = [w \in Passes |-> Idle]
    /\ lost = {}

At(w, place) == pass[w].pc = place
Stop(w) == pass' = [pass EXCEPT ![w] = Idle]
world == <<files, path, clock, dirtime>>
tables == <<cursors, events, logs>>

-----------------------------------------------------------------------------
(* parse_codex_log_file.  A line has the running total of the session; one *)
(* that is not about usage repeats it.  An unfinished line is not JSON.    *)

Before(lines, i) ==
    LET whole == {j \in 1..(i - 1) : lines[j].whole}
    IN  IF whole = {} THEN 0 ELSE lines[Max(whole)].total

\* compute_delta: a total that has dropped counts for nothing, and is the next base.
Delta(lines, i) ==
    IF lines[i].whole /\ lines[i].total > Before(lines, i) THEN lines[i].total - Before(lines, i) ELSE 0

Uses(lines) == {i \in DOMAIN lines : Delta(lines, i) > 0}

Record(session, lines, i) ==
    [line |-> i, session |-> session, number |-> Cardinality({j \in Uses(lines) : j <= i}),
     delta |-> Delta(lines, i)]

\* Mutant: lines below the watermark are skipped before the totals are built up.
ParseAbove(session, lines, offset) ==
    LET above == SubSeq(lines, offset + 1, Len(lines))
    IN  {[Record(session, lines, i + offset) EXCEPT !.delta = Delta(above, i)] : i \in Uses(above)}

Parse(session, lines, offset) == {Record(session, lines, i) : i \in {u \in Uses(lines) : u > offset}}

Key(r) == <<r.session, r.number>>
Keys(table) == {Key(r) : r \in table}

-----------------------------------------------------------------------------
(* sync_with_parser and sync_file_with_parser.                             *)

\* list_usage_sync_cursors, for the bound pass under the lock of the binding.
List(w) ==
    /\ At(w, "idle")
    /\ IF w = "bound" THEN UNCHANGED commands
       ELSE commands < MaxCommands /\ commands' = commands + 1
    /\ pass' = [pass EXCEPT ![w] = [Idle EXCEPT !.pc = "listed", !.known = cursors]]
    /\ UNCHANGED <<world, tables, owner, bindings, lost>>

\* Mutant: the partition is judged by its directory alone.
PrunableByDirectory(known) ==
    \E f \in Files : known[f].modified > 0 /\ dirtime <= known[f].modified

\* try_prune_codex_partition.  All cursors are of the one path; which of them is
\* taken for it depends on the order of their keys.
Prunable(known) ==
    \E f \in Files :
        /\ known[f].modified > 0
        /\ files[path].mtime <= known[f].modified
        /\ dirtime <= known[f].modified

\* Mutant: the cursor belongs to the path.
CursorOfPath(known, f) == known[Max({1} \cup {g \in Files : known[g].modified > 0})]

\* resolve_cursor: by the identity of the file that was opened.
CursorOf(known, f) == known[f]

\* The partition is pruned, or the file is opened, and left if it has not changed.
Open(w) ==
    LET known == pass[w].known IN
    /\ At(w, "listed")
    /\ IF Prunable(known) \/ files[path].mtime <= CursorOf(known, path).modified
       THEN Stop(w)
       ELSE pass' = [pass EXCEPT ![w] = [Idle EXCEPT
                !.pc = "open", !.file = path, !.mtime = files[path].mtime,
                !.offset = CursorOf(known, path).offset]]
    /\ UNCHANGED <<world, tables, owner, bindings, commands, lost>>

\* read_whole_file, through the handle: the path may name another file by now.
Read(w) ==
    LET f == pass[w].file  log == files[f] IN
    /\ At(w, "open")
    /\ pass' = [pass EXCEPT
          ![w].pc = "insert",
          ![w].todo = Parse(log.session, log.lines, pass[w].offset),
          ![w].offset = 0,
          ![w].count = Len(log.lines),
          ![w].missed = {<<f, i>> : i \in {j \in DOMAIN log.lines : ~ log.lines[j].whole}}]
    /\ UNCHANGED <<world, tables, owner, bindings, commands, lost>>

Next1(w) == CHOOSE r \in pass[w].todo : \A s \in pass[w].todo : r.line <= s.line
Row(r) == [session |-> r.session, number |-> r.number, delta |-> r.delta]

\* insert_bound_usage_record: usage_event_ownership_conflict.
Foreign(r) == \E e \in events : Key(e) = Key(r) /\ e.owner # owner

\* insert_usage_record: a record is stored once, in one transaction.
Insert(w) ==
    LET r == Next1(w) IN
    /\ At(w, "insert") /\ pass[w].todo # {}
    /\ w = "bound" => ~ Foreign(r)
    /\ IF w = "bound" /\ Key(r) \notin Keys(events)
       THEN events' = events \cup {[session |-> r.session, number |-> r.number, delta |-> r.delta, owner |-> owner]}
       ELSE UNCHANGED events
    /\ IF (w = "bound" /\ Key(r) \in Keys(events)) \/ Key(r) \in Keys(logs)
       THEN UNCHANGED logs
       ELSE logs' = logs \cup {Row(r)}
    /\ pass' = [pass EXCEPT ![w].todo = @ \ {r}]
    /\ UNCHANGED <<world, cursors, owner, bindings, commands, lost>>

\* Mutant: the bound pass goes on after a failure, as the unbound one does.
GoesOnAlways(w) == TRUE

\* Only the unbound pass goes on after a failure.
GoesOn(w) == w = "unbound"

InsertFails(w) ==
    LET r == Next1(w) IN
    /\ At(w, "insert") /\ pass[w].todo # {}
    /\ IF GoesOn(w)
       THEN pass' = [pass EXCEPT ![w].todo = @ \ {r},
                     ![w].missed = IF w = "unbound" THEN @ \cup {<<pass[w].file, r.line>>} ELSE @]
       ELSE Stop(w)
    /\ UNCHANGED <<world, tables, owner, bindings, commands, lost>>

\* Mutant: the modification time is looked up when the cursor is written.
SeenAtNow(w) == files[pass[w].file].mtime

\* The modification time that the cursor gets is the one seen before the file was read.
SeenAt(w) == pass[w].mtime

\* update_sync_state_for_resource.
Advance(w) ==
    LET f == pass[w].file IN
    /\ At(w, "insert") /\ pass[w].todo = {}
    /\ cursors' = [cursors EXCEPT ![f] = [modified |-> SeenAt(w), offset |-> pass[w].count]]
    /\ lost' = lost \cup pass[w].missed
    /\ Stop(w)
    /\ UNCHANGED <<world, events, logs, owner, bindings, commands>>

\* The file cannot be opened or read, or the cursor cannot be written.
Fails(w) ==
    /\ At(w, "open") \/ (At(w, "insert") /\ pass[w].todo = {})
    /\ Stop(w)
    /\ UNCHANGED <<world, tables, owner, bindings, commands, lost>>

\* set_usage_source_binding, which waits for a bound pass to end.
Bind(a) ==
    /\ At("bound", "idle") /\ bindings < MaxBindings /\ a # owner
    /\ owner' = a /\ bindings' = bindings + 1
    /\ UNCHANGED <<world, tables, commands, pass, lost>>

Crash ==
    /\ \E w \in Passes : ~ At(w, "idle")
    /\ pass' = [w \in Passes |-> Idle]
    /\ UNCHANGED <<world, tables, owner, bindings, commands, lost>>

-----------------------------------------------------------------------------
(* Codex, and whoever else touches its log.                                *)

Write(lines) ==
    /\ clock <= MaxWrites /\ clock' = clock + 1
    /\ files' = [files EXCEPT ![path].lines = lines, ![path].mtime = clock']
    /\ UNCHANGED <<path, dirtime, tables, owner, bindings, commands, pass, lost>>

Append1(total, whole) ==
    LET lines == files[path].lines IN
    /\ Len(lines) < MaxLines
    /\ lines # <<>> => lines[Len(lines)].whole
    /\ Write(Append(lines, [total |-> total, whole |-> whole]))

\* The rest of an unfinished line is written.
Finish ==
    LET lines == files[path].lines IN
    /\ lines # <<>> /\ ~ lines[Len(lines)].whole
    /\ Write([lines EXCEPT ![Len(lines)].whole = TRUE])

\* Another file takes the path: a new session, or a copy of the old file, which may
\* keep its modification time.
Replace ==
    /\ path < MaxFiles /\ clock <= MaxWrites
    /\ path' = path + 1 /\ clock' = clock + 1 /\ dirtime' = clock'
    /\ \/ files' = [files EXCEPT ![path'] = [session |-> path', lines |-> <<>>, mtime |-> clock']]
       \/ \E time \in {files[path].mtime, clock'} :
              files' = [files EXCEPT ![path'] = [files[path] EXCEPT !.mtime = time]]
    /\ UNCHANGED <<tables, owner, bindings, commands, pass, lost>>

Next ==
    \/ \E w \in Passes : List(w) \/ Open(w) \/ Read(w) \/ Insert(w) \/ InsertFails(w) \/ Advance(w) \/ Fails(w)
    \/ \E a \in Owners : Bind(a)
    \/ Crash
    \/ \E total \in 1..MaxTotal, whole \in BOOLEAN : Append1(total, whole)
    \/ Finish
    \/ Replace

Spec == Init /\ [][Next]_vars

\* The watcher syncs again and again, and neither the process nor the database fails
\* at the same place every time.
Fairness ==
    /\ WF_vars(List("bound")) /\ SF_vars(Open("bound"))
    /\ SF_vars(Read("bound")) /\ SF_vars(Insert("bound")) /\ SF_vars(Advance("bound"))

FairSpec == Spec /\ Fairness

-----------------------------------------------------------------------------
(* Properties.                                                             *)

Covered(f) == {i \in Uses(files[f].lines) : i <= cursors[f].offset}
Stored(f, i) == Key(Record(files[f].session, files[f].lines, i)) \in Keys(logs)

\* "游标里记的行号水位线;`<=` 它的行已经入过库" (ingest/mod.rs:63): what a line at or below
\* the watermark used has been stored.
WatermarkIsStored == \A f \in Files : \A i \in Covered(f) : Stored(f, i)

\* The same, but for lines that were unfinished when they were counted, and for
\* records that the unbound pass failed to store: no crash, replacement of the file,
\* failure of the bound pass or pass beside it makes the cursor run ahead.
NothingElseSkipped == \A f \in Files : \A i \in Covered(f) : Stored(f, i) \/ <<f, i>> \in lost

\* What is stored under a number is what the line with that number in the session
\* added to the total, in which pass and from which copy of the file it was read.
AmountsAreRight ==
    \A r \in logs \cup {Row(e) : e \in events} :
        \E f \in Files : \E i \in Uses(files[f].lines) : r = Row(Record(files[f].session, files[f].lines, i))

\* A record of another account in the way: every bound pass stops at it.
Blocked == \E i \in Uses(files[path].lines) \ Covered(path) :
              Foreign(Record(files[path].session, files[path].lines, i))

\* What is written is stored in the end, whatever fails now and then, unless it is
\* skipped as above, its file is replaced, or another account's record is in the way.
EveryUseIsStored ==
    \A f \in Files, i \in 1..MaxLines :
        (path = f /\ i \in Uses(files[f].lines))
            ~> ((i \in Uses(files[f].lines) /\ Stored(f, i)) \/ <<f, i>> \in lost \/ Blocked \/ path # f)
=============================================================================
