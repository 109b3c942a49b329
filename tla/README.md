# SubsTracker in TLA+

TLA+ specifications of [SubsTracker](../src/README.md), a small Go server that
keeps its users' subscriptions, polls the providers behind them for quotas, and
notifies the owners by web push and Telegram when a quota is reached or free
again and when a billing cycle resets.  The modules are translated from the
source; TLC checks them on small instances and TLAPS proves the most important
properties for all.  Paths below are relative to `src/internal/` unless they
start with `README.md`, `cmd/` or `web/`.

## 1. The system

| component | state | operations | who touches it |
|---|---|---|---|
| quota poll (`service/scheduler.go:64-174`) | a snapshot of subscriptions, the row it is at, the provider's answer | snapshot, fetch, compare with the cached state and alert, save | one goroutine; first poll at startup, then at every tick |
| billing check (`service/scheduler.go:44-62, 176-199`) | a timer for 00:05 of the next day | check today and tomorrow against each billing day, alert, sleep | a second goroutine |
| notification service (`service/notification.go`) | none but the list at hand | list browsers, push, log; list chats, send, log | poll, billing check and the test-notification handler, at the same time |
| requests on subscriptions (`api/handlers.go:170-301`) | - | create, update, delete | HTTP, one goroutine per request |
| usage refresh (`api/handlers.go:323-386`) | the caller's rows | fetch each row's usage and store it | HTTP |
| registrations (`api/handlers.go:394-514`) | - | subscribe and unsubscribe a browser, add and remove a chat | HTTP |
| storage (`repository/queries.go`, `db/`) | SQLite, one connection | one statement at a time | everybody |
| providers (`provider/*`) | HTTP clients with a time limit of 10 s | `FetchUsageInfo` | poll, refresh |
| start and stop (`cmd/server/main.go`) | configuration | start the goroutines, shut down | - |
| login and sessions (`auth/`, `api/auth_handlers.go`, `web/login.html`) | a signed cookie in the browser, nothing on the server | login, logout, check, redirect | HTTP |
| rate limiter (`middleware/ratelimit.go`) | a limiter per address | limit, add | HTTP |
| web interface (`web/`) | a service worker, the push button, local lists | check the session, set up and click the button, load, edit, show dates | the browser |

The components meet in the database and nowhere else: the poll and the refresh
handler both write `subscription_usage`, whose `is_blocked` is the only memory
of what an owner was told; the requests change `subscriptions` under the
snapshot of the poll and under the list of the billing check; registrations
change the destinations under a delivery that has listed them.  No transaction
spans two statements and no lock is held over a call to a peer.  The page and
the server meet in requests only: the page keeps its own idea of the push
subscription and of the calendar, and both can differ from the server's.

What is hard in it, and hard to test:

* **two writers of one cache, one of which alerts.**  The poll derives "the
  quota has changed" from what is stored; the refresh handler stores too.
* **work from a snapshot** while rows are edited, deleted and created, with
  network calls of many seconds in between.
* **alert, then save**: a crash, or a failing statement, between the two.
* **a clock that is read several times** by the billing check, with sends of
  any length in between, months of different length, and restarts.
* **deliveries in parallel** to destinations that change hands, some of which
  fail or cannot even be parsed.
* **a button between two owners of one fact**: the browser has the push
  subscription, the server the row; the page is told by the browser, and a
  click changes both, one after the other, over a session that may end.
* **the same service mapped to a provider twice**, by different rules.

What makes each part correct: the poll never acts for the wrong owner, announces
each change of a quota, does not repeat itself, and does not leave an owner
waiting for an "unblocked" it promised; the cache follows the account in the
end; the billing check looks at every day once, and no reset comes without its
reminder, on the date the page shows; a message reaches its user's destinations
only, and all of them; a provider's numbers and its verdict agree; nobody is
served on a stale login, no tab goes round in circles, and the push button tells
the truth and leads to notifications in the end.  `PROJECT.json` lists the hazards at
their lines.

## 2. The modules

| module | what it is |
|---|---|
| `QuotaMonitor` | subscriptions, cached quotas, poll, refresh handlers, restarts |
| `QuotaAlerts` | abstract: what the poll promises to an owner |
| `QuotaRounds` | `QuotaMonitor` with a history: what a whole round of the poll achieves |
| `ServiceMatch` | which services the poll and the refresh handler know |
| `Billing` | the billing check against the calendar and the clock, and the page's calendar |
| `Notification` | `SendAll`, the registrations and the delivery log |
| `ProviderAnswers` | the four providers as functions of the replies they get |
| `Sessions` | logins, cookies and their ages; a tab between the page and the login page |
| `PushButton` | the push button over `Sessions`: page, browser and server's row |
| `MCQuotaMonitor`, `MCQuotaRounds`, `MCBilling`, `MCNotification`, `MCProviderAnswers`, `MCPushButton` | instances for TLC |
| `QuotaMonitorProofs`, `QuotaPromiseProofs`, `QuotaAlertsProofs`, `QuotaRoundsProofs`, `BillingProofs`, `NotificationProofs`, `ProviderAnswersProofs`, `PushButtonProofs` | theorems |

`MCQuotaMonitor` composes `QuotaMonitor` with `ServiceMatch`: which services
the poll and the refresh handler serve is computed from the rules in the code,
not chosen; `ProviderAnswers` compares the two rules with each other.
`QuotaMonitor` contains the instance of `QuotaAlerts` it is shown
to implement.  `PushButton` extends `Sessions`: each of its requests is served
for the user whom the cookie names at that moment, and leaving the page resets
the button.  The definitions marked "Mutant" are plausible slips of the code
(a dropped guard, a wrong order) that no specification uses; each property is
confronted with one of them and fails.

### QuotaMonitor

| TLA+ | code |
|---|---|
| `subs`, `used`, `usage` | tables `subscriptions` (with its `AUTOINCREMENT` counter) and `subscription_usage`, of which `is_blocked` is kept |
| `acct` | what the account behind a token would answer now: free, blocked, error |
| `pollPc`, `pollTodo`, `pollJob` | the local variables of `pollQuota`: the rows left, the row at hand with its answer |
| `req` | one record for each refresh request that is being served |
| `told` | history: the last quota alert about an id that was handed to `SendAll` |
| `disturbed`, `interrupted` | histories: subscriptions whose stored state a refresh or a failing statement changed or hid; those whose alert was sent and then the process exited |
| `PollTick` | `ListAllSubscriptions`, at startup and at each tick |
| `PollFetch` | the loop's head: an answer, or an error that skips the row |
| `PollDecide` | `GetSubscriptionUsage`, the transition, the alert |
| `PollSave`, `RefreshSave` | `UpsertSubscriptionUsage`, whose error is only logged |
| `RefreshStart`, `RefreshFetch`, `RefreshEnd` | `refreshSubscriptionsUsage` |
| `CreateSubscription`, `UpdateSubscription`, `DeleteSubscription` | the handlers and their statements |
| `Restart` | the process exits at any step and starts again |

Each statement is one action, since `db/db.go` allows one connection; everything
between two statements interleaves.  Skipping rows that have no token or no
provider changes nothing, so the snapshot is filtered at once.  Left out: names
(and with them the order of rows: they come in any order), seconds used and
limits, the fields of the JSON answer, the request's "relogin" flag, and the
rows of a snapshot that are read while it is fetched (it is one statement).
A refresh's request context may be cancelled at any row (`RefreshEnd`).
A graceful shutdown cancels the context first, so that statements fail and
nothing is stored after it: it looks like a crash and is not a case of its own.
`main.go` never passes a poll interval that is not positive, so the early
return of `runQuotaPoll` is out of reach.

**References.**  `db/db.go` opens the database with `_foreign_keys=on`, which is
a parameter of another SQLite driver; the one in `go.mod` takes
`_pragma=foreign_keys(1)` and ignores what it does not know.  As SQLite does not
enforce references unless told to, `ON DELETE CASCADE` in `migrations/006` has
no effect today.  The driver is not part of this repository, so the model takes
`ForeignKeys` as a constant: FALSE is the program as it runs, and every run has it so;
`QuotaOrphans` shows the rows that it leaves behind.  TRUE is what the schema means.
The theorems hold for both.

### QuotaAlerts and the refinement

`QuotaAlerts` knows no database, no snapshot and no steps: a subscription is
observed, a crossing between usable and blocked is told at once, a deleted
subscription loses its observation now or later.  The mapping takes as observed
what is stored, except between alert and save, where it is the answer at hand:
the alert is the moment at which an answer counts.  What the code does not
promise is part of the abstraction too: `Disturb` is somebody else's change of
one subscription's state, and only that subscription leaves the promise.

### QuotaRounds

A round of the poll goes from its list (`PollTick`) to its last row, over
minutes and network calls, while everybody else goes on.  `steady` remembers
which rows of the list had an account that answered, and drops one at the first
step that does not leave it alone (`LeftAlone`): its owner edits or deletes it,
the account changes its mind, somebody else stores another answer, or the save
of its own answer fails.  The history guards nothing: it is computed from the
step, `steady'` being a function of the state and of what the step does.  `RoundSettles` and `RoundTells` say what the round
has then done for what is left of it, however many of the other rows failed;
they are the safety half of `CacheConverges` and `QuietPromiseKept`, which add
that rounds begin and end, and that answers fetched too early run out.

### Billing

The days of a window of the calendar are numbered; `DayOfMonth` and `MonthOf`
give the local calendar, so that `time.Date(..., day+1, ...)` and
`AddDate(0, 0, 1)`, which normalise, are the next number.  `ReadClock`,
`ListSubs`, `CheckRow`, `Sleep` and `Wake` are the steps of `check` and of the
loop around it; `read` is `now` in `check`, `wake` the day of the timer.
`FiveMinutes` (00:05 is reached) and `Midnight` are the clock.  Midnight waits
for what takes no time worth speaking of (a timer that is due, a check that is
about to read the clock); lists and sends may take any time.  A suspended or
reset clock, and daylight saving, are left out.  `reset` and `reminded` are
histories of the two alerts since the row was last edited; `calm` counts the
midnights since something disturbed the check (an edit, a crash, a failed list,
a midnight during a check).

`NextResetDate` and `DaysUntilReset` are the page's own calendar
(`web/js/app.js:27-45`).  `new Date(year, month, 31)` of a shorter month is a day
of the next one, which in numbered days is the first of the month plus 30; the
candidate is a midnight, so today's is always past.  The page is evaluated on
every day rather than given state: it computes when it draws.

### Notification

`on` says which channels work since startup (keys are set, the bot was
reached).  A caller lists one channel's destinations, takes them one by one
(`Send`: the peer takes the message, or fails and the loop goes on), writes the
log row if the message concerns a subscription (`Log`, whose error is dropped),
and goes to the other channel.  `owner` is both tables of destinations: the
unique key makes a destination somebody's or nobody's, and only its user can
remove it.  A browser's endpoint goes
over to whoever registers it last, a chat stays with whoever was first; a
chat id that is no integer is stored all the same and fails when it is used.
"sent" means handed to the peer: `sendWebPush` does not look at the status.
Three histories.  `since` is what a call's user has had at some time since it
began.  `kept` is what he had when it began, less what he has removed himself and
the browsers that another user has registered since; it is written by who acts,
not by what is in the tables, so a request of another user that took something
away by mistake would not be excused by it.  `spoiled` are the callers whose last
call met a failing statement or the end of the process.  `ReturnsDone` looks at a
call when it returns: whatever was kept on a working channel was tried, and what
was sent about a subscription is in the log.  It fails for a `DELETE` without
`AND user_id=?` (`RemoveAnybodys`), for chats that go over as browsers do
(`TakeOverChat`), and for a loop that ends at an error (`SendUntilError`).

### ProviderAnswers

A reply is reduced to how its call ended and the numbers the code computes
with.  The module is one step over all replies in the bounds.  Reset dates and
percentages, which nothing stores, are left out.

### Sessions

| TLA+ | code |
|---|---|
| `login` | the link that Telegram signed, with the age of its `auth_date`; the browser can follow it again |
| `cookie` | `auth_session`: user, age of the token, and, as history, the age of the login it was made from |
| `page` | the tab: closed, on its way to `/`, waiting for `/api/auth/me` there, at rest on the page, waiting for it on the login page, at rest there |
| `TelegramCallback`, `Logout` | `api/auth_handlers.go`; in this tab or in another of the same browser |
| `OpenRoot`, `CheckAuthAndInit`, `CheckLogin` | the guard of `/` (`api/handlers.go:116-125`), `web/js/app.js:608-631`, `web/login.html:37-56` |
| `RequestUser` | `AuthMiddleware`: the user a request is served for, if any |

Signatures and the parsing of tokens are abstracted to "what was signed", with
the user and the time in it.  Ages stop counting once they are past every limit.
The server's clock and the browser's are not the same: `CookieExpires` is the
browser's and may come late or never.

`MovesLeft` counts the moves that the tab can still make by itself: at most four,
from a login page that finds a session which expires on the way.  That each move
lowers it (`NavigationIsShort`) is what keeps the two pages from playing the tab
back and forth; fairness adds in `NavigationSettles` that it moves.

### PushButton

| TLA+ | code |
|---|---|
| `browser` | the browser's push subscription (`pushManager`) |
| `owner` | `webpush_subscriptions.user_id` by endpoint |
| `held`, `label` | `pushSubscription` and the button's text |
| `setup`, `FetchKey`, `SetUp` | `initPushButton` on each visit to the tab: key, then `getSubscription`; it may run during a click |
| `click`, `target` | how far `btn.onclick` is, and the endpoint in its request |
| `Subscribe`, `ServePost`, `Posted` | the branch that enables |
| `Click` with a `pushSubscription`, `Unsubscribed`, `ServeDelete`, `Deleted` | the branch that disables; `unsubscribe()` may leave the browser's subscription where it is, and `pushSubscription` is read again after it |
| `Fail`, `Refused`, `Alert` | a step that fails at any point, the `catch` and the `finally` |
| `Revoke` | the browser's settings: permission or site data are taken away |

A request is served while its page is open, or is lost; one that is served after
its page was left is not modelled.  A browser without web push and a server
without keys hide the button and are left out.

Two histories.  `subscriber` is whose session it was when a click made the
browser's subscription.  `troubled` is written by events only: it is set by a
step of a click that fails (`Fail`, and an `unsubscribe()` that gives nothing up),
by the browser taking the subscription back, and when the page is left, or the
session becomes another's, while a subscription is being registered; a click that
makes the subscription, or gives it up, starts afresh.  What page and server know
of each other is in neither.  `ButtonIsTrue` is for the user who enabled: for him
the button stays right through visits, logins and logouts of others and set-ups
in the middle of a click.  For another user of the same browser, and after
trouble, it need not be right at all: that is the run `PushButtonStranger`.

`StepsLeft` counts the steps of clicks until the server has this browser
registered for the user of the session, whatever the label says: three in the
plain case, nine where an enabling click goes on with a subscription that the
browser has lost.  `EnablingIsNear` says that the steps of a click lower it, and
that only a failure, a revoked permission or a set-up that finds a subscription
raises it; fairness adds the person in `EnablingSucceeds`, which ends in a
registered browser.

## 3. What TLC checks

| run | question | bounds | states |
|---|---|---|---|
| `QuotaSafety` | Can old snapshots act for the wrong owner, or leave traces in a new row? Is everything announced, once and before it is stored? Does a round do its work? `TypeOK`, `SnapshotKeepsOwner`, `NewStartsClean`, `PromiseRemembered`, `AlertsAlternate`, `RoundSettles`, `RoundTells`, `FlipsAnnounced` | 2 ids, 2 users, 1 token, 1 refresh, any number of restarts, failing statements | 2 175 000 |
| `QuotaLiveness` | Does the poll keep its promise, and does the cache follow the account? `ImplementsQuotaAlerts`, `UnblockTold`, `QuietPromiseKept`, `CacheConverges` | 1 id, 2 tokens, a service with and one without provider, 1 refresh, restarts, failing statements | 108 000 |
| `BillingChecks` | Is every day checked once, every reset reminded, announced and dated right? `TypeOK`, `OncePerRun`, `CalmDaysChecked`, `RemindersPrecedeResets`, `MonthlyReset`, `DatesAreKept` | 1 subscription, days 1, 14, 28; 29 January to 2 March; 1 crash, failing lists | 1 090 000 |
| `NotificationChecks` | Whom does a message reach, is everything tried and logged when a call returns? `TypeOK`, `ReachesOwnOnly`, `LogKeepsUp`, `ReturnsDone`, `AllAreTried` | 2 users, 1 caller, 1 endpoint, a good and a bad chat, failing statements, restarts | 68 000 |
| `ProviderVerdicts` | Do numbers and verdict agree, and poll and refresh on whom to ask? `FullMeansBlocked`, `MoreUseStaysBlocked`, `PathsAgree` | shares 0, 1, 50, 100, 120 %, limits 0, 60, 1000 s | 5 700 |
| `PushButtonChecks` | Is a session as recent as it should be, does the tab come to rest, does the button tell the truth and work in the end? `TypeOK`, `SessionIsRecent`, `NavigationIsShort`, `NavigationSettles`, `ButtonIsTrue`, `EnablingIsNear`, `EnablingSucceeds` | 2 users, 2 endpoints, lives of 1 | 260 000 |

Why the bounds are enough to be interesting.  Two ids make a deleted and a new
row possible at the same time, two users somebody it could go wrong for, two
tokens an edit that moves a row to an account in another state.  One refresh
next to the poll gives every order of two writers.  The window of `Billing`
holds two ends of months and a whole February, so a subscription can stand
undisturbed for a month, which is what `MonthlyReset` asks.  A share of 1 % of
60 s rounds to 0, which is where the two windows of OpenAI are mixed.  Two
endpoints let a click give one up while a set-up finds another; with lives of 1
a login and a session are fresh, at their limit and past it.  A second caller in
`Notification` is too much for the liveness check; the theorems about it hold for
any number of callers.

The liveness runs are without symmetry.  In `QuotaSafety`, which has symmetry, no
property or constant tells the permuted values apart.
`CHECK_DEADLOCK FALSE` stands where the model ends: at the last day of the
calendar, and after a provider's one call.

**Fairness.**  `QuotaMonitor!FairSpec`: the poll goes on (weak fairness on all
of its steps together).  The goroutine runs for as long as the process, the
ticker ticks, provider clients give up after 10 s.  It also takes for granted
that Telegram and push services answer or refuse, for which the code has no
time limit.  Nothing is assumed of owners, accounts or refresh requests: a
refresh may stay half done.  `Billing!FairSpec` lets the check go on and time
pass; `Notification!FairSpec` lets every call that was begun go on.
`PushButton!FairSpec` lets the tab's own navigation and a click's next step go
on (a request is answered or fails), and has a person who clicks as long as the
button offers to enable; it asks nothing of the set-ups.

Restarts, failing saves and failing requests may come any number of times, but
not for ever: `<>[][Undisturbed]_vars` in the two specifications says that they
end, as nothing can be owed by a process that is killed again and again.  A step
that is also an ordinary step of the poll, a request or the tab is not a
disturbance, though it has the form of one; the definitions of `Undisturbed` and
`LeavesAlone` say so.

**Events that the properties except.**  Refreshes, failing statements, exits and
revoked permissions are part of every run.  Where the code does not claim to
repair what they do, a history remembers exactly whom they met, and the property
excepts only those:

* `disturbed`: a refresh stored a crossing that was not announced (finding 1),
  the last state could not be read and counted as "not blocked" (accepted in the
  comment at `service/scheduler.go:149`), or an answer that crosses could not be
  stored;
* `interrupted`: the alert was sent and the process exited before the save, so
  the alert will be repeated or its counterpart lost;
* `steady` (`QuotaRounds`): the other way round, the rows that a round's promise
  is about, as nobody meddled with them from its list to its end;
* `calm` (`Billing`): a failed list, an exit, an edit, a check over midnight;
* `spoiled` (`Notification`), `troubled` (`PushButton`).

So the properties bound the damage of such an event and do not forbid it: an exit
between alert and save costs its subscription a repeated or a missing alert, a
failed list costs the day its messages, a failed delivery counts as tried.  That
nothing else suffers, and that the next round, day or call is right again, is
what they say.

### Findings

The first six are runs that end in a counterexample, the last two theorems.

1. `QuotaRefreshSwallows`: **a refresh swallows the alert.**  The poll has told
   the owner "Your quota has been reached. You will be notified when it
   unblocks." (`service/scheduler.go:158`); the account becomes usable; the owner
   opens the page, and the refresh handler stores "not blocked"
   (`api/handlers.go:372`); the next poll finds no transition.  The promised
   message never comes.  (`PromiseKept`; `QuietPromiseKept` is what holds.)
2. `QuotaOrphans`: **a deleted subscription leaves its quota behind.**  The
   schema says `REFERENCES subscriptions(id) ON DELETE CASCADE`
   (`db/migrations/006_subscription_usage.sql:3`), but the connection enforces no
   references (`db/db.go:16`, see above): the row outlives a deletion, and a save
   that was under way can bring it in after one.  Nobody is alerted by it, as ids
   are not used again.  (`NoOrphanUsage`; `NewStartsClean` is what holds.)
3. `BillingDaySkipped`: **a day without its check.**  The timer is computed from
   the clock after the sends (`service/scheduler.go:50`); if they end after
   midnight, the day they end in is never checked, against "Automatic daily
   check" (`README.md:8`).  (`DailyCheck`; `CalmDaysChecked` is what holds.)
4. `BillingMonthEnd`: **days 29 to 31** are accepted and equal no day of a
   shorter month, so that such a month passes without a message
   (`service/scheduler.go:190` against `README.md:8`).  (`MonthlyReset`; it holds
   for days that every month has.)
5. `PushButtonOpposite`: **a button that does the opposite.**  The new
   subscription is kept in `pushSubscription` before the request that registers
   it (`web/js/app.js:484-488`); if that fails the button still reads "Enable
   Push Notifications", and the next click unsubscribes.  (`EnableEnables`;
   `EnablingSucceeds` is what holds: the click after that one enables.)
6. `PushButtonStranger`: **a button that promises what the server does not
   know.**  A set-up asks the browser whether it has a push subscription and shows
   "Disable Push Notifications" if so (`web/js/app.js:463-466`).  A second user of
   the same browser reads that although nothing is registered for him and nothing
   has failed, and so does a user who comes back to the tab after the request
   that registers was lost; neither receives anything (`web/index.html:53`).
   (`DisableMeansRegistered`; `ButtonIsTrue` is what holds.)

Two more need no run, since they do not depend on any behaviour, and are
theorems:

7. `ProviderAnswersProofs!ZaiIsNeverPolled`: **Z.ai is never polled.**  The
   provider's name is "Z.ai"; the poll looks for "zai" in "z.ai"
   (`service/scheduler.go:116`), so its quota moves only when somebody refreshes,
   against `README.md:15-19`.
8. `BillingProofs!PageNeverSaysToday`: **the page never says "Today!"**.  The
   candidate for the next reset is the midnight that the day begins with, so on
   the billing day it is past (`web/js/app.js:34`), and the page shows the date a
   month later on the very day on which the owner is told that the subscription
   has reset; `web/js/app.js:135-136` is never reached.

Read in the code only: two comments of `openaiprovider.go` (114, 115) say
something else than the code at 128 and 156; a push service's refusal is not
noticed; adding a chat that is another user's is answered with "added"
(`api/handlers.go:508`).

## 4. What is proved

For any sets of ids, users, services, tokens, callers, destinations, endpoints,
shares and limits, any lives of logins and sessions, any
calendar and any bounds; the only assumptions on constants are the named
`ASSUME`s of the modules, plus what the table says.

| theorem | states | needs |
|---|---|---|
| `QuotaMonitorProofs!TypeCorrect` | `[]TypeOK` | - |
| `QuotaMonitorProofs!SnapshotsKeepOwner` | `[]SnapshotKeepsOwner` | - (refreshes, restarts and faults included) |
| `QuotaMonitorProofs!NewOnesStartClean` | `[]NewStartsClean` | - |
| `QuotaPromiseProofs!EveryFlipAnnounced` | `FlipsAnnounced` | - |
| `QuotaAlertsProofs!PollImplementsQuotaAlerts` | `ImplementsQuotaAlerts` | - (refreshes, restarts and faults included) |
| `QuotaAlertsProofs!PromisesRemembered` | `[]PromiseRemembered` | - |
| `QuotaAlertsProofs!AlertsAlternating` | `[]AlertsAlternate` | - |
| `QuotaAlertsProofs!PromiseIsSound` | `[](TypeOK /\ ToldIsLevel)` of `QuotaAlerts` | - |
| `QuotaRoundsProofs!RoundsSettle` | `[]RoundSettles` | - |
| `QuotaRoundsProofs!RoundsTell` | `[]RoundTells` | - |
| `BillingProofs!TypeCorrect` | `[]TypeOK` | - |
| `BillingProofs!CheckedOncePerRun` | `[]OncePerRun` | - |
| `BillingProofs!CalmDaysAreChecked` | `CalmDaysChecked` | - |
| `BillingProofs!ResetsAreReminded` | `RemindersPrecedeResets` | - |
| `BillingProofs!EveryMonthHasReset` | `MonthlyReset` | billing days 1 to 28 |
| `BillingProofs!PageDatesAreKept` | `DatesAreKept` | billing days 1 to 28 |
| `BillingProofs!PageNeverSaysToday` | `DaysUntilReset(today, b) > 0` | - |
| `NotificationProofs!TypeCorrect` | `[]TypeOK` | - |
| `NotificationProofs!MessagesReachOwnOnly` | `[]ReachesOwnOnly` | - |
| `NotificationProofs!TheLogKeepsUp` | `[]LogKeepsUp` | - |
| `NotificationProofs!CallsReturnDone` | `[]ReturnsDone` | - |
| `ProviderAnswersProofs!FullIsBlocked` | `[]FullMeansBlocked` | - |
| `ProviderAnswersProofs!MoreUseBlocks` | `[]MoreUseStaysBlocked` | - |
| `ProviderAnswersProofs!PathsAlwaysAgree` | `[]PathsAgree` | - |
| `ProviderAnswersProofs!ZaiIsNeverPolled` | `"zai"` is refreshed and not polled | - |
| `PushButtonProofs!SessionsTypeCorrect`, `SessionsAreRecent` | `[]SessionTypeOK`, `[]SessionIsRecent` of `SessionSpec` | - |
| `PushButtonProofs!NavigationEnds`, `ButtonNavigationEnds` | `NavigationIsShort` of `SessionSpec`, and of `PushButton` | - |
| `PushButtonProofs!ButtonKeepsSessions` | `Spec => SessionSpec` | - |
| `PushButtonProofs!ButtonUserIsRecent` | `[]SessionIsRecent` of `PushButton` | - |
| `PushButtonProofs!ButtonTypeCorrect` | `[]TypeOK` | - |
| `PushButtonProofs!ButtonTellsTruth` | `[]ButtonIsTrue` | - |
| `PushButtonProofs!EnablingStaysNear` | `EnablingIsNear` | - |

The arguments.

* **Ids** (`IdsInv`).  That a snapshot keeps its owner is not inductive by
  itself: a created row could take the id of one in a snapshot.  What makes it
  so is `NewStartsClean`, that nobody holds an id that was never handed out,
  together with `AUTOINCREMENT` and an update that cannot change the owner
  (`UPDATE ... WHERE user_id = ?`).  The two are proved as one invariant.
* **Alert before save** (`AlertBeforeSave`).  While an answer waits to be saved,
  its alert is out, it crosses nothing, or its subscription is disturbed.  A
  refresh that stores under it disturbs the subscription at that moment; so a
  crossing of an undisturbed subscription has always been told.
* **Refinement**.  `PollDecide` maps to `Observe`; the save maps to a stutter, or
  to `Forget` where the row has gone and the reference is refused; a deletion
  maps to `Retire`, with or without the observation, as references are enforced
  or not; a refresh, a failing statement or an exit that changes what counts as
  observed maps to `Disturb`; all else stutters.  That an undisturbed owner stands
  as told what was last observed is proved of `QuotaAlerts` alone
  (`PromiseIsSound`), where it is a matter of four small actions, and carried
  over by the refinement (`ToldIsObserved`); `PromisesRemembered`,
  `AlertsAlternating` and half of `RoundsTell` are its consequences.
* **Rounds** (`RoundInv`).  `RoundSettles` looks at the end of a round only.
  Until then each steady row is still in the list, or is the job at hand, or
  is stored as its account answers; and the copies that the poll works from
  are the row as it is and the answer as it is (`InHand`).  The second part
  is what makes the first inductive: without it the poll could fetch by an
  old token, or save an older answer over the one just stored.
* **Timer** (`TimerInv`).  A sleeping goroutine's timer is for today or tomorrow
  and later than its last check; in an undisturbed process a check in progress
  is about today, and one that sleeps until tomorrow has read today.
* **Reminders** (`RemindInv`).  Three places in a day: a check in progress has
  reminded the rows it is done with, a finished one all that reset tomorrow, and
  past midnight those are the rows that reset today.
* **Months.**  A day on which a row resets and that was not disturbed is noted in
  `reset` when it ends (`DayIsOver`, from the timer).  A month of at least 28
  days, undisturbed, contains the row's day; `MonthsAssumption`, which says that
  months have no gaps and at least 28 days, is all the calendar that is needed.
  For the page, the least first-of-month after today exists (`LeastExists`) and
  has the billing day in its month (`DateHasBillingDay`).
* **Calls** (`CallInv`).  What a caller has listed or tried its user had since
  the call began, and at most one delivery waits for its log row.
* **Returns** (`KeptInv`).  Of what the user has kept, what a loop has not tried
  is still in its list, and a channel that is done with has left nothing, unless
  it is off.  What makes this inductive is that all that is kept is still the
  user's in the tables when it is listed: removing goes by destination and user,
  a chat is added only if nobody has it, and a browser that goes over leaves
  `kept` of its old owner's calls (`RegistrationsKeep`); `CallInv` adds the log.
* **Measures.**  `MovesLeft` falls with every redirect, and time can only lower
  it: a cookie never becomes valid again by itself (`TimeBeginsNoSession`), and
  the tab is no further from rest without a session than with one.
  `StepsLeft` is defined and falls in every state that `ButtonTypeCorrect`
  allows, not only where page, browser and server agree; that the button exists
  on its own page only is all it needs.
* **Names** (`NoOtherMatches`).  A name that contains another has the fragment
  which that one begins with.  No service and no other provider's name have each
  other's first fragment, so the loop's "first match" is its only one and the
  order in which `cmd/server/main.go` lists the providers is immaterial for the
  services that the refresh handler knows.
* **Sessions** (`RecentInv`).  A cookie's login is older than the cookie by at
  most the life of a login, at every age, the caps included; `SessionIsRecent`
  by itself says nothing of a cookie that is too old, and is not inductive.
  `ButtonKeepsSessions` carries it over to the page.
* **The button** (`ButtonInv`).  Without trouble, page or no page, what the
  browser has is registered for whoever made it, unless the request that
  registers it is just under way (`ServerKnows`); and at each place of a click the
  page knows the browser's side, or which of the next steps has still to tell it
  (`PageKnows`).  The first half is what survives the page being left and other
  users coming: a set-up needs no more than the browser's word to be right for
  the subscriber.
* **Numbers.**  A share below 100 of a positive limit, rounded down, stays below
  the limit (`PartBelow`), from which either window of OpenAI follows.

Every invariant and action property of a passing run is proved.  Only
model-checked are the six with fairness (`QuietPromiseKept`, `UnblockTold`,
`CacheConverges`, `AllAreTried`, `NavigationSettles`, `EnablingSucceeds`), which
are beyond this prover.  What they need besides fairness is proved for
five of them: `RoundSettles` and `RoundTells` for the two about the cache and
the promise, `ReturnsDone`, `NavigationIsShort` and `EnablingIsNear` for the
last three.  That a round, a call, a redirect and a click go on is assumed
there, and argued for in section 3, not proved.

## 5. Not modelled, and why

* The rate limiter: its token bucket is a library's; what is left is a map that
  gets one entry per remote address and port and never loses one, of which the
  repository claims nothing.
* Lists, dialogs and loads of the page, and the GET handlers behind them: they
  show what was answered last and store nothing.  Two loads that overlap can leave
  the older answer on the page until the next load, five minutes later at most.
* The name of the Telegram bot, fetched once at startup; signatures: the server is
  taken to have the bot's token, so that a link is what Telegram signed.
* A peer that never answers: the clients for Telegram and web push have no
  time limit, and fairness assumes an answer.
* Request logging, the test provider, migrations as such: no state of interest.
* `usage_cache` and `provider_credentials`: no code but tests uses them.
* What a destination is told (texts, titles), and the JSON the API returns.

## 6. Plan

1. A composition of poll, billing check and test handler as the callers of
   `Notification`, so that an alert is followed to the destination: `told` now
   ends where `SendAll` begins.
2. The page's lists with overlapping loads, and the edit dialog that writes back
   a whole row it read some time ago.
3. A request of the push button that is served after its page was left.
