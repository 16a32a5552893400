---------------------------- MODULE UsageRollups ----------------------------
(***************************************************************************)
(* The three tables in which a request is counted: the details, kept for   *)
(* some days, the daily totals the details are folded into when they are   *)
(* pruned (store/dao/usage_rollup.rs), and the hourly totals, kept for     *)
(* longer and written along with every detail                              *)
(* (store/dao/hourly_rollup.rs); the filling in of costs that were not     *)
(* known (store/usage_stats.rs); and the retention a license grants        *)
(* (store/dao/license_retention.rs).                                       *)
(*                                                                         *)
(* Time is counted in half hours, since that is how finely the offsets of  *)
(* time zones cut.  A total is a sum over rows, so what matters of it is   *)
(* how often, and with what cost, each row is in it.                       *)
(*                                                                         *)
(* A use of a model may be recorded twice, by the router and from the log  *)
(* of a session.  Nothing in the rows tells which of them are of one use:  *)
(* a record of the router hides the records of sessions with the same      *)
(* application, model and numbers of tokens within ten minutes of it, the  *)
(* ones of other uses included.                                            *)
(***************************************************************************)
EXTENDS Naturals, FiniteSets

CONSTANTS
    None,
    Routed,       \* records of the router
    Logged,       \* lines of the logs of sessions
    Alike,        \* {p, s}: p was a success and is like s, ten minutes from it at most
    Models,       \* the records of each model
    Offset,       \* how far local days are from hours, in half hours
    HoursPerDay,
    DetailDays,   \* detail_retention_days
    Community,    \* hourly days of the community build
    Targets,      \* hourly days of licenses
    MaxTime       \* bound: half hours that pass

VARIABLES
    now,
    record,     \* [Rows -> when and as what a row was recorded, or None]
    cost,       \* proxy_request_logs: [Rows -> cost, or None]
    hourly,     \* usage_hourly_rollups: [Rows -> the cost it is in there with, or None]
    daily,      \* usage_daily_rollups: [Rows -> how often it is in there]
    dirty,      \* rollup_dirty_hours
    prices,     \* the models that have a price
    repaired,   \* guard_hold_hourly_repaired_v1
    highWater, pending,   \* retention_high_water_days, retention_pending_target
    policy,     \* hourly days of the license in force
    granted,    \* the most that a license has granted
    work        \* where the holder of the connection stands

tables == <<record, cost, hourly, daily>>
retention == <<highWater, pending, policy, granted>>
vars == <<now, tables, dirty, prices, repaired, retention, work>>

Rows == Routed \cup Logged
HourOf(t) == t \div 2
DayOf(t) == (t + Offset) \div (2 * HoursPerDay)
Hour(r) == HourOf(record[r].at)
Stored == {r \in Rows : cost[r] # None}

Highest(S) == CHOOSE n \in S : \A m \in S : m <= n
Lowest(S) == CHOOSE n \in S : \A m \in S : n <= m

Idle == [pc |-> "idle", then |-> "idle", only |-> Models, todo |-> {}, cutoff |-> 0, days |-> 0]
At(place) == work.pc = place
Goto(place) == work' = [work EXCEPT !.pc = place]
Return == work' = IF work.then = "idle" THEN Idle ELSE [work EXCEPT !.pc = work.then, !.todo = {}]

\* A database of an older version may have counted a hold.
Init ==
    /\ now = 0
    /\ \E old \in SUBSET Routed :
         /\ record = [r \in Rows |-> IF r \in old THEN [at |-> 0, audit |-> TRUE] ELSE None]
         /\ cost = [r \in Rows |-> IF r \in old THEN 0 ELSE None]
         /\ hourly = cost
    /\ daily = [r \in Rows |-> 0]
    /\ dirty = {} /\ prices = {} /\ repaired = FALSE
    /\ highWater = 0 /\ pending = None /\ policy = Community /\ granted = Community
    /\ work = Idle

-----------------------------------------------------------------------------
(* Recording.                                                              *)

\* p looks like s, a record of the time t.  Ten minutes may reach into the next half
\* hour; a record of the same half hour that is further away is not Alike.
LooksLike(p, s, t) ==
    /\ {p, s} \in Alike /\ record[p] # None
    /\ record[p].at <= t + 1 /\ t <= record[p].at + 1

\* Mutant: what the gate has denied or held hides the session's record.
MatchesAny(s, t) == \E p \in Routed \cap Stored : LooksLike(p, s, t)

\* has_matching_proxy_usage_log, and the filter on what is aggregated.
Matches(s, t) == \E p \in Routed \cap Stored : LooksLike(p, s, t) /\ ~ record[p].audit

Store(r, at, audit, amount) ==
    /\ record' = [record EXCEPT ![r] = [at |-> at, audit |-> audit]]
    /\ cost' = [cost EXCEPT ![r] = amount]
    /\ hourly' = IF audit THEN hourly ELSE [hourly EXCEPT ![r] = amount]
    /\ UNCHANGED <<now, daily, dirty, prices, repaired, retention, work>>

\* insert_proxy_settlement: no cost yet.
RecordProxy(p, audit) ==
    /\ At("idle") /\ record[p] = None
    /\ Store(p, now, audit, 0)

Priced(r, models) == \E m \in models : r \in m

\* A line of a session log, which may be old.
RecordSession(s, t) ==
    /\ At("idle") /\ record[s] = None /\ ~ Matches(s, t)
    /\ Store(s, t, FALSE, IF Priced(s, prices) THEN 1 ELSE 0)

-----------------------------------------------------------------------------
(* Costs that become known.                                                *)

\* A price is added, or a synchronisation begins, or details will be pruned.
ImportPrice(m) ==
    /\ At("idle") /\ m \notin prices
    /\ prices' = prices \cup {m}
    /\ work' = [Idle EXCEPT !.pc = "costs", !.only = {m}]
    /\ UNCHANGED <<now, tables, dirty, repaired, retention>>

FillAll ==
    /\ At("idle")
    /\ work' = [Idle EXCEPT !.pc = "costs"]
    /\ UNCHANGED <<now, tables, dirty, prices, repaired, retention>>

Unpaid(r) == cost[r] = 0 /\ Priced(r, prices \cap work.only)

\* backfill_missing_usage_costs_on_conn, up to its commit.
FillCosts ==
    /\ At("costs")
    /\ LET paid == {r \in Rows : Unpaid(r)}
           marked == dirty \cup {Hour(r) : r \in paid}
       IN  /\ cost' = [r \in Rows |-> IF r \in paid THEN 1 ELSE cost[r]]
           /\ dirty' = marked
           /\ IF paid = {} THEN Return
              ELSE work' = [work EXCEPT !.pc = "delete", !.todo = marked]
    /\ UNCHANGED <<now, record, hourly, daily, prices, repaired, retention>>

\* backfill_dirty_hours outside of a transaction: hour by hour, in three steps.
NextHour == Lowest(work.todo)

In(r, hours) == record[r] # None /\ Hour(r) \in hours

DeleteHour ==
    /\ At("delete") /\ work.todo # {}
    /\ hourly' = [r \in Rows |-> IF In(r, {NextHour}) THEN None ELSE hourly[r]]
    /\ Goto("sum")
    /\ UNCHANGED <<now, record, cost, daily, dirty, prices, repaired, retention>>

\* Mutant: a detail the gate has refused is counted.
SumAll(hours) == [r \in Rows |-> IF In(r, hours) THEN cost[r] ELSE hourly[r]]

\* aggregate_logs and contribute, after the rows of these hours have been deleted.
Sum(hours) ==
    [r \in Rows |-> IF ~ In(r, hours) THEN hourly[r]
                    ELSE IF record[r].audit THEN None ELSE cost[r]]

SumHour ==
    /\ At("sum")
    /\ hourly' = Sum({NextHour})
    /\ Goto("unmark")
    /\ UNCHANGED <<now, record, cost, daily, dirty, prices, repaired, retention>>

UnmarkHour ==
    /\ At("unmark")
    /\ dirty' = dirty \ {NextHour}
    /\ work' = [work EXCEPT !.pc = "delete", !.todo = @ \ {NextHour}]
    /\ UNCHANGED <<now, tables, prices, repaired, retention>>

HoursDone ==
    /\ At("delete") /\ work.todo = {}
    /\ Return
    /\ UNCHANGED <<now, tables, dirty, prices, repaired, retention>>

\* A failure is logged; pruning goes on.
CostsFail ==
    /\ work.pc \in {"costs", "delete", "sum", "unmark"}
    /\ Return
    /\ UNCHANGED <<now, tables, dirty, prices, repaired, retention>>

-----------------------------------------------------------------------------
(* Maintenance, under one lock of the connection.                          *)

\* Mutant: what is granted now replaces what was granted before.
RaisedToNow(days) == days

\* raise_retention_high_water_on_conn
Raised(days) == Highest({highWater, days})

\* rollup_and_prune_with_policy
BeginMaintenance ==
    /\ At("idle") /\ pending = None
    /\ highWater' = Raised(policy)
    /\ work' = [Idle EXCEPT !.pc = "repair", !.then = "prune",
                            !.cutoff = IF DayOf(now) < DetailDays THEN 0 ELSE DayOf(now) - DetailDays + 1,
                            !.days = Raised(policy)]
    /\ UNCHANGED <<now, tables, dirty, prices, repaired, pending, policy, granted>>

Holds == {r \in Stored : record[r].audit}
Old(r) == r \in Stored /\ DayOf(record[r].at) < work.cutoff

\* One transaction.
Repair ==
    /\ At("repair")
    /\ hourly' = Sum(dirty \cup IF repaired THEN {} ELSE {Hour(r) : r \in Holds})
    /\ dirty' = {} /\ repaired' = TRUE
    /\ Goto(IF \E r \in Rows : Old(r) THEN "costs" ELSE "hourly")
    /\ UNCHANGED <<now, record, cost, daily, prices, retention>>

\* effective_usage_log_filter
Effective(r) == ~ record[r].audit /\ (r \in Logged => ~ Matches(r, record[r].at))

\* do_rollup_and_prune, under a savepoint.
Prune ==
    /\ At("prune")
    /\ daily' = [r \in Rows |-> IF Old(r) /\ Effective(r) THEN daily[r] + 1 ELSE daily[r]]
    /\ cost' = [r \in Rows |-> IF Old(r) THEN None ELSE cost[r]]
    /\ Goto("hourly")
    /\ UNCHANGED <<now, record, hourly, dirty, prices, repaired, retention>>

Expired(r) == record[r] # None /\ Hour(r) + work.days * HoursPerDay < HourOf(now)

\* prune_hourly_rollups_before deletes in batches and may stop between two.
PruneHourly ==
    /\ At("hourly")
    /\ \E gone \in SUBSET {r \in Rows : hourly[r] # None /\ Expired(r)} :
         hourly' = [r \in Rows |-> IF r \in gone THEN None ELSE hourly[r]]
    /\ work' = Idle
    /\ UNCHANGED <<now, record, cost, daily, dirty, prices, repaired, retention>>

\* A statement fails and rolls its transaction back, or the process dies.
Stop ==
    /\ ~ At("idle")
    /\ work' = Idle
    /\ UNCHANGED <<now, tables, dirty, prices, repaired, retention>>

-----------------------------------------------------------------------------
(* Licenses.                                                               *)

\* write_pending_retention: pending survives when the high water is not raised, and
\* only an activation that succeeds publishes its tier.
Activate(days) ==
    /\ At("idle")
    /\ LET target == IF pending = None THEN days ELSE Highest({pending, days}) IN
         \/ /\ highWater' = Raised(target) /\ pending' = None
            /\ policy' = days /\ granted' = Highest({granted, days})
         \/ /\ pending' = target
            /\ UNCHANGED <<highWater, policy, granted>>
    /\ UNCHANGED <<now, tables, dirty, prices, repaired, work>>

\* retry_pending_retention, at the start.
RetryPending ==
    /\ At("idle") /\ pending # None
    /\ highWater' = Raised(pending) /\ pending' = None
    /\ UNCHANGED <<now, tables, dirty, prices, repaired, policy, granted, work>>

Downgrade ==
    /\ At("idle") /\ policy # Community
    /\ policy' = Community
    /\ UNCHANGED <<now, tables, dirty, prices, repaired, highWater, pending, granted, work>>

\* Half an hour is long for whoever holds the connection.
Tick ==
    /\ At("idle") /\ now < MaxTime
    /\ now' = now + 1
    /\ UNCHANGED <<tables, dirty, prices, repaired, retention, work>>

Undisturbed ==
    \/ \E p \in Routed, audit \in BOOLEAN : RecordProxy(p, audit)
    \/ \E s \in Logged, t \in 0..now : RecordSession(s, t)
    \/ \E m \in Models : ImportPrice(m)
    \/ FillAll \/ FillCosts \/ DeleteHour \/ SumHour \/ UnmarkHour \/ HoursDone
    \/ BeginMaintenance \/ Repair \/ Prune \/ PruneHourly
    \/ \E days \in Targets : Activate(days)
    \/ RetryPending \/ Downgrade \/ Tick

Next == Undisturbed \/ CostsFail \/ Stop

\* Nothing fails.
UndisturbedSpec == Init /\ [][Undisturbed]_vars

Spec == Init /\ [][Next]_vars

-----------------------------------------------------------------------------
(* Properties.                                                             *)

IsCounted(r) == daily[r] = 1 \/ (r \in Stored /\ Effective(r))

\* However details are aggregated, pruned and hidden by one another, a record is
\* counted, by a detail that is in effect or in its day, unless the router has
\* recorded what looks like it, and then that is counted; and no record is counted
\* in both places.
RecordsCount ==
    \A r \in Rows : record[r] # None /\ ~ record[r].audit =>
        /\ IsCounted(r) \/ \E p \in Routed : LooksLike(p, r, record[r].at) /\ IsCounted(p)
        /\ daily[r] + (IF r \in Stored THEN 1 ELSE 0) <= 1

\* A detail is in its hour with the cost it has, unless the hour is marked to be
\* summed again, wherever the summing was interrupted; what the gate refused is not.
HourlyMatchesDetails ==
    repaired => \A r \in Stored : Hour(r) \in dirty \/ hourly[r] = IF record[r].audit THEN None ELSE cost[r]

\* Pruning takes no hour that a license has ever granted, whatever has failed and
\* whichever license is in force now.
GrantedIsKept ==
    [][At("hourly") => \A r \in Rows : hourly[r] # None /\ hourly'[r] = None =>
                           Hour(r) + granted * HoursPerDay < HourOf(now)]_vars

\* "Never full-rebuild: older hourly history may no longer have details": a request
\* stays in its hour until the hour has expired, though its detail has been pruned.
HourlyKeepsHistory ==
    \A r \in Rows :
        record[r] # None /\ ~ record[r].audit /\ Hour(r) \notin dirty =>
            hourly[r] # None \/ Hour(r) + Community * HoursPerDay < HourOf(now)
=============================================================================
