---------------------------- MODULE QuotaMonitor ----------------------------
(***************************************************************************)
(* Subscriptions, the cached state of their quotas, and the two writers of *)
(* that cache: the scheduler's poll (service/scheduler.go), which alerts   *)
(* the owner when a quota changes, and the refresh handler                 *)
(* (api/handlers.go), which does not.  Both work from a snapshot of the    *)
(* subscriptions while the owner creates, edits and deletes them.          *)
(*                                                                         *)
(* The database runs on a single connection (db/db.go), so each statement  *)
(* is one atomic step and everything between two statements interleaves.   *)
(***************************************************************************)
EXTENDS Naturals

CONSTANTS
    Ids,            \* subscription ids that AUTOINCREMENT can hand out
    Users,
    Services,       \* values of a subscription's service field
    Polled,         \* services the poll finds a provider for (ServiceMatch)
    Refreshable,    \* services the refresh handler has a provider for
    Tokens,         \* non-empty auth tokens, each of one provider account
    NoToken,        \* the empty auth token
    NoRow,          \* "there is no such subscription"
    NoJob,          \* "nothing has been fetched"
    Reqs,           \* refresh requests that may be served at once
    ForeignKeys,    \* does the connection enforce the schema's references?
    DbFaults        \* may a statement of the poll or of a refresh fail?

Rows    == [user : Users, service : Services, token : Tokens \cup {NoToken}]
Answers == {"free", "blocked"}
Levels  == Answers \cup {"absent"}
Alerts  == Answers \cup {"nothing"}

\* A row of a snapshot, and a row together with what its provider answered.
Tasks == [id : Ids, row : Rows]
Jobs  == [task : Tasks, seen : Answers]

ASSUME ServicesAssumption == Polled \subseteq Services /\ Refreshable \subseteq Services
ASSUME NoRowAssumption == NoRow \notin Rows
ASSUME NoJobAssumption == NoJob \notin Jobs
ASSUME SettingsAssumption ==
    ForeignKeys \in BOOLEAN /\ DbFaults \in BOOLEAN

VARIABLES
    subs,           \* table subscriptions: a row or NoRow, by id
    used,           \* ids that were ever handed out (sqlite_sequence)
    usage,          \* table subscription_usage: is_blocked, or "absent"
    acct,           \* what the provider answers for a token right now
    pollPc,         \* where pollQuota is
    pollTodo,       \* rows of its snapshot it has not come to
    pollJob,        \* the row it is working on, with the provider's answer
    req,            \* the refresh handlers at work
    told,           \* history: the last quota alert sent about an id
    disturbed,      \* history: ids whose stored state changed without an alert,
                    \*   by a refresh, or was not read or stored when it was due
    interrupted     \* history: ids whose alert was sent, and then the process
                    \*   exited before the new state was stored

db      == <<subs, used, usage>>
poll    == <<pollPc, pollTodo, pollJob>>
history == <<told, disturbed, interrupted>>
vars    == <<db, acct, poll, req, history>>

IdleReq == [todo |-> {}, job |-> NoJob]

Init ==
    /\ subs = [s \in Ids |-> NoRow]
    /\ used = {}
    /\ usage = [s \in Ids |-> "absent"]
    /\ acct = [t \in Tokens |-> "free"]
    /\ pollPc = "idle" /\ pollTodo = {} /\ pollJob = NoJob
    /\ req = [q \in Reqs |-> IdleReq]
    /\ told = [s \in Ids |-> "nothing"] /\ disturbed = {} /\ interrupted = {}

Live == {s \in Ids : subs[s] # NoRow}

-----------------------------------------------------------------------------
(* The owner's requests and the accounts behind the tokens.                *)

CreateSubscription(u, sv, t) ==
    /\ \E s \in Ids \ used :
          /\ subs' = [subs EXCEPT ![s] = [user |-> u, service |-> sv, token |-> t]]
          /\ used' = used \cup {s}
    /\ UNCHANGED <<usage, acct, poll, req, history>>

UpdateSubscription(s, sv, t) ==
    /\ s \in Live
    /\ subs' = [subs EXCEPT ![s] = [user |-> subs[s].user, service |-> sv, token |-> t]]
    /\ UNCHANGED <<used, usage, acct, poll, req, history>>

\* Mutant: without AUTOINCREMENT the id of a deleted row is free again.
DeleteFreesId(s) ==
    /\ s \in Live
    /\ subs' = [subs EXCEPT ![s] = NoRow]
    /\ used' = used \ {s}
    /\ UNCHANGED <<usage, acct, poll, req, history>>

\* ON DELETE CASCADE takes the usage row along if references are enforced.
DeleteSubscription(s) ==
    /\ s \in Live
    /\ subs' = [subs EXCEPT ![s] = NoRow]
    /\ usage' = IF ForeignKeys THEN [usage EXCEPT ![s] = "absent"] ELSE usage
    /\ disturbed' = disturbed \ {s} /\ interrupted' = interrupted \ {s}
    /\ UNCHANGED <<used, acct, poll, req, told>>

\* An account runs into its limit, is reset, or stops answering.
ProviderChanges(t, a) ==
    /\ acct[t] # a
    /\ acct' = [acct EXCEPT ![t] = a]
    /\ UNCHANGED <<db, poll, req, history>>

\* UpsertSubscriptionUsage: refused when the id it refers to is gone.
Upsert(s, level) ==
    IF ForeignKeys /\ s \notin Live THEN usage ELSE [usage EXCEPT ![s] = level]

\* Mutant: ON CONFLICT DO NOTHING.
SaveOnlyFirst(job) ==
    usage' = IF usage[job.task.id] = "absent" THEN Upsert(job.task.id, job.seen) ELSE usage

SaveAnswer(job) == usage' = Upsert(job.task.id, job.seen)

\* Both callers log or ignore the error of a failed upsert and go on.
SaveFails == DbFaults /\ UNCHANGED usage

\* Does the answer differ from what is stored as to being blocked?
Crosses(job) == (usage[job.task.id] = "blocked") # (job.seen = "blocked")
CrossedBy(job) == {s \in Live \cap {job.task.id} : Crosses(job)}

\* The rows of these users that have a token and a provider to ask.
Snapshot(services, users) ==
    {[id |-> s, row |-> subs[s]] : s \in
        {x \in Live : /\ subs[x].user \in users
                      /\ subs[x].token # NoToken
                      /\ subs[x].service \in services}}

-----------------------------------------------------------------------------
(* pollQuota.  Names, by which the snapshot is ordered, are abstracted, so *)
(* the rows come in any order.                                             *)

PollTick ==
    /\ pollPc = "idle"
    /\ pollPc' = "fetch"
    /\ pollTodo' = Snapshot(Polled, Users)
    /\ UNCHANGED <<db, acct, pollJob, req, history>>

PollFetch(task) ==
    /\ pollPc = "fetch"
    /\ task \in pollTodo
    /\ pollTodo' = pollTodo \ {task}
    /\ \/ acct[task.row.token] = "error" /\ UNCHANGED <<pollPc, pollJob>>
       \/ /\ acct[task.row.token] \in Answers
          /\ pollPc' = "decide"
          /\ pollJob' = [task |-> task, seen |-> acct[task.row.token]]
    /\ UNCHANGED <<db, acct, req, history>>

\* GetSubscriptionUsage; a missing row and an error both count as "not blocked".
WasBlocked(s) == {usage[s] = "blocked"} \cup (IF DbFaults THEN {FALSE} ELSE {})

\* Mutants: every answer is announced; only unblocking is; only blocking is.
DecideAlways ==
    /\ pollPc = "decide"
    /\ pollPc' = "save"
    /\ told' = [told EXCEPT ![pollJob.task.id] = pollJob.seen]
    /\ UNCHANGED <<db, acct, pollTodo, pollJob, req, disturbed, interrupted>>

DecideOnly(level) ==
    /\ pollPc = "decide"
    /\ pollPc' = "save"
    /\ told' = IF Crosses(pollJob) /\ pollJob.seen = level
               THEN [told EXCEPT ![pollJob.task.id] = level] ELSE told
    /\ UNCHANGED <<db, acct, pollTodo, pollJob, req, disturbed, interrupted>>

DecideUnblockOnly == DecideOnly("free")
DecideBlockOnly == DecideOnly("blocked")

\* The transition is detected and its alert handed to SendAll.
PollDecide ==
    /\ pollPc = "decide"
    /\ pollPc' = "save"
    /\ \E was \in WasBlocked(pollJob.task.id) :
          /\ told' = IF was # (pollJob.seen = "blocked")
                     THEN [told EXCEPT ![pollJob.task.id] = pollJob.seen] ELSE told
          /\ disturbed' = IF was # (usage[pollJob.task.id] = "blocked")
                          THEN disturbed \cup (Live \cap {pollJob.task.id}) ELSE disturbed
    /\ UNCHANGED <<db, acct, pollTodo, pollJob, req, interrupted>>

\* Mutant: the answer stays behind after it is saved.
SaveKeepsJob ==
    /\ pollPc = "save"
    /\ SaveAnswer(pollJob)
    /\ pollPc' = "fetch"
    /\ UNCHANGED <<subs, used, acct, pollTodo, pollJob, req, history>>

PollSave ==
    /\ pollPc = "save"
    /\ \/ SaveAnswer(pollJob) /\ UNCHANGED disturbed
       \/ SaveFails /\ disturbed' = disturbed \cup CrossedBy(pollJob)
    /\ pollPc' = "fetch"
    /\ pollJob' = NoJob
    /\ UNCHANGED <<subs, used, acct, pollTodo, req, told, interrupted>>

PollEnd ==
    /\ pollPc = "fetch" /\ pollTodo = {}
    /\ pollPc' = "idle"
    /\ UNCHANGED <<db, acct, pollTodo, pollJob, req, history>>

Poll == PollTick \/ (\E task \in pollTodo : PollFetch(task)) \/ PollDecide \/ PollSave \/ PollEnd

-----------------------------------------------------------------------------
(* refreshSubscriptionsUsage, one process for each request.                *)

RefreshStart(q, u) ==
    /\ req[q] = IdleReq
    /\ req' = [req EXCEPT ![q].todo = Snapshot(Refreshable, {u})]
    /\ UNCHANGED <<db, acct, poll, history>>

RefreshFetch(q, task) ==
    /\ req[q].job = NoJob
    /\ task \in req[q].todo
    /\ \/ /\ acct[task.row.token] = "error"
          /\ req' = [req EXCEPT ![q].todo = @ \ {task}]
       \/ /\ acct[task.row.token] \in Answers
          /\ req' = [req EXCEPT ![q].todo = @ \ {task},
                       ![q].job = [task |-> task, seen |-> acct[task.row.token]]]
    /\ UNCHANGED <<db, acct, poll, history>>

RefreshSave(q) ==
    /\ req[q].job # NoJob
    /\ \/ SaveAnswer(req[q].job) /\ disturbed' = disturbed \cup CrossedBy(req[q].job)
       \/ SaveFails /\ UNCHANGED disturbed
    /\ req' = [req EXCEPT ![q].job = NoJob]
    /\ UNCHANGED <<subs, used, acct, poll, told, interrupted>>

\* The response is written, or the client went away and its context with it.
RefreshEnd(q) ==
    /\ req[q] # IdleReq
    /\ req' = [req EXCEPT ![q] = IdleReq]
    /\ UNCHANGED <<db, acct, poll, history>>

-----------------------------------------------------------------------------
\* The process exits and starts again; only the database survives.
Restart ==
    /\ pollPc' = "idle" /\ pollTodo' = {} /\ pollJob' = NoJob
    /\ req' = [q \in Reqs |-> IdleReq]
    /\ interrupted' = IF pollPc = "save" THEN interrupted \cup CrossedBy(pollJob)
                                         ELSE interrupted
    /\ UNCHANGED <<db, acct, told, disturbed>>

Owner ==
    \E sv \in Services, t \in Tokens \cup {NoToken} :
        \/ \E u \in Users : CreateSubscription(u, sv, t)
        \/ \E s \in Ids : UpdateSubscription(s, sv, t)

Refresh ==
    \E q \in Reqs :
        \/ \E u \in Users : RefreshStart(q, u)
        \/ \E task \in req[q].todo : RefreshFetch(q, task)
        \/ RefreshSave(q)
        \/ RefreshEnd(q)

Next ==
    \/ Owner
    \/ \E s \in Ids : DeleteSubscription(s)
    \/ \E t \in Tokens, a \in Answers \cup {"error"} : ProviderChanges(t, a)
    \/ Poll
    \/ Refresh
    \/ Restart

Spec == Init /\ [][Next]_vars

\* Neither a restart nor a failing save of the poll.  The end of a poll, or of
\* a request, on an idle process is no restart, though it looks like one.
Undisturbed == (Restart => Poll \/ Refresh) /\ (PollSave => SaveAnswer(pollJob))

\* The poll's goroutine runs and the calls it makes return; the process is not
\* restarted, and saves do not fail, for ever.  Nothing else is owed.
FairSpec == Spec /\ WF_vars(Poll) /\ <>[][Undisturbed]_vars
-----------------------------------------------------------------------------
(* Properties.                                                             *)

TaskOf(job) == IF job = NoJob THEN {} ELSE {job.task}

\* Rows that someone still works from, whatever became of them since.
HeldByPoll == pollTodo \cup TaskOf(pollJob)
HeldByReq(q) == req[q].todo \cup TaskOf(req[q].job)
Held == HeldByPoll \cup UNION {HeldByReq(q) : q \in Reqs}

\* Types, and what the poll holds at each place in its loop.
TypeOK ==
    /\ subs \in [Ids -> Rows \cup {NoRow}]
    /\ used \subseteq Ids
    /\ usage \in [Ids -> Levels]
    /\ acct \in [Tokens -> Answers \cup {"error"}]
    /\ pollPc \in {"idle", "fetch", "decide", "save"}
    /\ pollTodo \subseteq Tasks
    /\ pollJob \in Jobs \cup {NoJob}
    /\ pollJob = NoJob <=> pollPc \in {"idle", "fetch"}
    /\ pollPc = "idle" => pollTodo = {}
    /\ req \in [Reqs -> [todo : SUBSET Tasks, job : Jobs \cup {NoJob}]]
    /\ told \in [Ids -> Alerts]
    /\ disturbed \subseteq Ids /\ interrupted \subseteq Ids

\* Subscriptions with which nobody but the poll and its owner has meddled.
Quiet == Live \ (disturbed \cup interrupted)

(***************************************************************************)
(* Whoever works from an old snapshot acts for the right person: if the id *)
(* it holds still names a subscription, that subscription has the owner it *)
(* had.  An alert (scheduler.go:155, 159) is addressed from the snapshot,  *)
(* so it can come late or for a deleted row, never to a stranger.          *)
(***************************************************************************)
SnapshotKeepsOwner ==
    \A task \in Held : task.id \in Live => subs[task.id].user = task.row.user

(***************************************************************************)
(* An id that was never handed out has no trace anywhere: a subscription   *)
(* starts without a cached quota or an alert, even where deleted rows left *)
(* theirs behind (migrations/001: AUTOINCREMENT).                          *)
(***************************************************************************)
NewStartsClean ==
    \A s \in Ids \ used :
        /\ s \notin Live
        /\ usage[s] = "absent" /\ told[s] = "nothing"
        /\ \A task \in Held : task.id # s

(***************************************************************************)
(* "REFERENCES subscriptions(id) ON DELETE CASCADE" (migrations/006:3):    *)
(* every cached quota belongs to a subscription that exists.               *)
(***************************************************************************)
NoOrphanUsage == \A s \in Ids : usage[s] # "absent" => s \in Live

(***************************************************************************)
(* As long as an owner stands as told "You will be notified when it        *)
(* unblocks" (scheduler.go:158), the database remembers it, or is about to *)
(* - unless a refresh, a failed statement or an exit came between the      *)
(* alert and the store.                                                    *)
(***************************************************************************)
PromiseRemembered ==
    \A s \in Quiet :
        told[s] = "blocked" =>
            \/ usage[s] = "blocked"
            \/ pollPc = "save" /\ pollJob.task.id = s

(***************************************************************************)
(* The poll never repeats itself: where it is about to announce a crossing *)
(* (scheduler.go:153-160), the owner was last told the opposite, or        *)
(* nothing and the quota is blocked.                                       *)
(***************************************************************************)
AlertsAlternate ==
    (pollPc = "decide" /\ pollJob.task.id \in Quiet /\ Crosses(pollJob)) =>
        ((told[pollJob.task.id] = "blocked") <=> (pollJob.seen = "free"))

(***************************************************************************)
(* Whenever the poll's write takes the stored state of a quota across the  *)
(* line between usable and blocked, the owner has been told of the new     *)
(* state already: the alert precedes the write (scheduler.go:153-163), so  *)
(* an exit between the two may repeat an alert but not lose one.           *)
(***************************************************************************)
FlipIsAnnounced ==
    \A s \in (Live \cap Live') \ disturbed' :
        (usage[s] = "blocked") # (usage'[s] = "blocked") =>
            told'[s] = usage'[s]
FlipsAnnounced == [][FlipIsAnnounced]_vars

\* The subscription is this row, the program supports it, its account answers a.
Settled(s, row, a) ==
    /\ subs[s] = row
    /\ row.service \in Refreshable
    /\ row.token # NoToken /\ acct[row.token] = a

(***************************************************************************)
(* While the database has a quota as blocked and its account is usable,    *)
(* the owner will be told so, whatever was fetched before and however      *)
(* often the process restarts (scheduler.go:153-155), unless a refresh     *)
(* stores the new state first.                                             *)
(***************************************************************************)
UnblockTold ==
    \A s \in Ids, row \in Rows :
        (usage[s] = "blocked" /\ Settled(s, row, "free"))
            ~> (told[s] = "free" \/ ~ Settled(s, row, "free") \/ s \in disturbed)

(***************************************************************************)
(* "Your quota has been reached. You will be notified when it unblocks."   *)
(* (scheduler.go:158): when an account becomes usable and stays so, its    *)
(* owner does not stand as told it is blocked for ever.                    *)
(***************************************************************************)
PromiseKept ==
    \A s \in Ids, row \in Rows :
        <>[]Settled(s, row, "free") => <>[](told[s] # "blocked")

\* The same, for subscriptions with which nobody but the poll has meddled.
QuietPromiseKept ==
    \A s \in Ids, row \in Rows :
        <>[](Settled(s, row, "free") /\ s \in Quiet) => <>[](told[s] # "blocked")

(***************************************************************************)
(* The cached quota follows the account: stale answers of other writers    *)
(* (handlers.go:372) are overwritten in the end (README.md:15-19).         *)
(***************************************************************************)
CacheConverges ==
    \A s \in Ids, row \in Rows, a \in Answers :
        <>[]Settled(s, row, a) => <>[](usage[s] = a)

(***************************************************************************)
(* The poll implements QuotaAlerts: an answer counts as observed when its  *)
(* alert goes out, that is, before it is stored.  Refreshes, failed        *)
(* statements and exits are its disturbances.                              *)
(***************************************************************************)
Stored(s) == IF usage[s] = "blocked" THEN "blocked" ELSE "free"
Observed ==
    [s \in Ids |-> IF pollPc = "save" /\ pollJob.task.id = s
                   THEN pollJob.seen ELSE Stored(s)]

A == INSTANCE QuotaAlerts WITH
        level <- Observed, gone <- used \ Live, disturbed <- disturbed \cup interrupted

\* Each step of the system, seen through Observed, is one of QuotaAlerts or none.
ImplementsQuotaAlerts == A!Spec
=============================================================================
