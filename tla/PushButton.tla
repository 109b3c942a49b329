------------------------------ MODULE PushButton ------------------------------
(***************************************************************************)
(* The button that turns push notifications on and off (web/js/app.js),    *)
(* between the browser's own push subscription and the server's row for it *)
(* (api/handlers.go, repository/queries.go), over the sessions of module   *)
(* Sessions.  The page knows the browser's side only; the server knows its *)
(* own only.                                                               *)
(*                                                                         *)
(* An endpoint's name may be used again once neither browser nor page has  *)
(* it: its row stays in the table, out of sight.                           *)
(***************************************************************************)
EXTENDS Sessions

CONSTANTS Endpoints, NoEndpoint

ASSUME EndpointsAssumption == NoEndpoint \notin Endpoints

VARIABLES
    browser,    \* the browser's push subscription
    owner,      \* table webpush_subscriptions: user_id by endpoint
    held,       \* the page's pushSubscription
    label,      \* what the button offers, "none" before it was set up
    setup,      \* does a set-up have its key and wait for the browser?
    click,      \* how far a click is; the button is disabled meanwhile
    target,     \* the endpoint in the body of its request
    troubled,   \* history: since a click last made or gave up the browser's
                \*   subscription, something failed, or changed meanwhile
    subscriber  \* history: whose session it was when it was made

button  == <<held, label, setup, click, target>>
history == <<troubled, subscriber>>
push    == <<browser, owner, button, history>>
vars    == <<sessionVars, push>>

Labels == {"none", "Enable", "Disable"}
Clicks == {"idle", "subscribe", "post", "posted",
           "unsubscribe", "delete", "deleted", "failed"}

\* The user of the session is the one whose row this browser has.
Registered ==
    browser # NoEndpoint /\ RequestUser # Nobody /\ owner[browser] = RequestUser

Init ==
    /\ SessionInit
    /\ browser = NoEndpoint /\ owner = [e \in Endpoints |-> Nobody]
    /\ held = NoEndpoint /\ label = "none" /\ setup = FALSE
    /\ click = "idle" /\ target = NoEndpoint
    /\ troubled = FALSE /\ subscriber = Nobody

-----------------------------------------------------------------------------
(* initPushButton, on every visit to the notifications tab.                *)

\* The server is asked for its key; without an answer nothing else happens.
FetchKey ==
    /\ page = "app" /\ RequestUser # Nobody
    /\ setup' = TRUE
    /\ UNCHANGED <<sessionVars, browser, owner, held, label, click, target, history>>

LabelFor(sub) == IF sub # NoEndpoint THEN "Disable" ELSE "Enable"

\* The browser is asked for its subscription, and believed.
SetUp ==
    /\ setup /\ setup' = FALSE
    /\ held' = browser
    /\ label' = LabelFor(browser)
    /\ UNCHANGED <<sessionVars, browser, owner, click, target, history>>

-----------------------------------------------------------------------------
(* A click on the button.                                                  *)

\* What the click does depends on pushSubscription, not on the label.  The
\* browser gives its subscription up, or unsubscribe() leaves it in place.
Click ==
    /\ page = "app" /\ label # "none" /\ click = "idle"
    /\ \/ /\ held # NoEndpoint /\ click' = "unsubscribe"
          /\ browser' \in {browser, IF browser = held THEN NoEndpoint ELSE browser}
          /\ troubled' = (browser' # NoEndpoint)
          /\ subscriber' = IF browser' = NoEndpoint THEN Nobody ELSE subscriber
       \/ held = NoEndpoint /\ click' = "subscribe" /\ UNCHANGED <<browser, history>>
    /\ UNCHANGED <<sessionVars, owner, held, label, setup, target>>

\* The browser has a subscription already, or makes a new one.
Subscribe ==
    /\ click = "subscribe" /\ click' = "post"
    /\ \/ browser # NoEndpoint /\ UNCHANGED <<browser, owner>>
       \/ /\ browser = NoEndpoint
          /\ \E e \in Endpoints \ {held} :
                /\ browser' = e
                /\ owner' = [owner EXCEPT ![e] = Nobody]
    /\ held' = browser' /\ target' = browser'
    /\ troubled' = FALSE /\ subscriber' = RequestUser
    /\ UNCHANGED <<sessionVars, label, setup>>

\* Mutant: ON CONFLICT(endpoint) DO NOTHING.
InsertWebPushSubscription(e, u) ==
    IF owner[e] = Nobody THEN [owner EXCEPT ![e] = u] ELSE owner

\* ON CONFLICT(endpoint) DO UPDATE: the row goes over to the user.
UpsertWebPushSubscription(e, u) == [owner EXCEPT ![e] = u]

\* webpushSubscribe
ServePost ==
    /\ click = "post" /\ RequestUser # Nobody
    /\ owner' = UpsertWebPushSubscription(target, RequestUser)
    /\ click' = "posted"
    /\ UNCHANGED <<sessionVars, browser, held, label, setup, target, history>>

Posted ==
    /\ click = "posted" /\ click' = "idle"
    /\ label' = "Disable"
    /\ UNCHANGED <<sessionVars, browser, owner, held, setup, target, history>>

\* Mutant: the request goes out with whatever pushSubscription is by now.
UnsubscribedAnyway ==
    /\ click = "unsubscribe"
    /\ click' = "delete" /\ target' = held
    /\ UNCHANGED <<sessionVars, browser, owner, held, label, setup, history>>

\* By now pushSubscription may be another than the one that was given up.
Unsubscribed ==
    /\ click = "unsubscribe" /\ held # NoEndpoint
    /\ click' = "delete" /\ target' = held
    /\ UNCHANGED <<sessionVars, browser, owner, held, label, setup, history>>

\* DELETE ... WHERE endpoint = ? AND user_id = ?
DeleteWebPushSubscription(e, u) ==
    IF owner[e] = u THEN [owner EXCEPT ![e] = Nobody] ELSE owner

\* webpushUnsubscribe
ServeDelete ==
    /\ click = "delete" /\ RequestUser # Nobody
    /\ owner' = DeleteWebPushSubscription(target, RequestUser)
    /\ click' = "deleted"
    /\ UNCHANGED <<sessionVars, browser, held, label, setup, target, history>>

\* Mutant: pushSubscription is not forgotten.
DeletedKeepsHeld ==
    /\ click = "deleted" /\ click' = "idle"
    /\ label' = "Enable"
    /\ UNCHANGED <<sessionVars, browser, owner, held, setup, target, history>>

Deleted ==
    /\ click = "deleted" /\ click' = "idle"
    /\ held' = NoEndpoint /\ label' = "Enable"
    /\ UNCHANGED <<sessionVars, browser, owner, setup, target, history>>

\* The browser declines, or the request or its answer is lost or refused.
Fail ==
    /\ click \in Clicks \ {"idle", "failed"}
    /\ click' = "failed" /\ troubled' = TRUE
    /\ UNCHANGED <<sessionVars, browser, owner, held, label, setup, target, subscriber>>

\* The session is over, or a set-up has taken pushSubscription away.
Refused ==
    /\ \/ click \in {"post", "delete"} /\ RequestUser = Nobody
       \/ click = "unsubscribe" /\ held = NoEndpoint
    /\ Fail

\* Mutant: the error leaves the button disabled.
StayDisabled ==
    /\ click = "failed"
    /\ UNCHANGED vars

\* alert, and finally { btn.disabled = false }
Alert ==
    /\ click = "failed" /\ click' = "idle"
    /\ UNCHANGED <<sessionVars, browser, owner, held, label, setup, target, history>>

ClickGoesOn ==
    \/ Subscribe \/ ServePost \/ Posted
    \/ Unsubscribed \/ ServeDelete \/ Deleted
    \/ Refused \/ Alert

-----------------------------------------------------------------------------
(* Around the page.                                                        *)

\* Permission is taken back, or site data cleared: the subscription is gone.
Revoke ==
    /\ browser # NoEndpoint /\ browser' = NoEndpoint
    /\ troubled' = TRUE /\ subscriber' = Nobody
    /\ UNCHANGED <<sessionVars, owner, button>>

\* A subscription is being registered, and the page is left or the session
\* becomes another's.
CutsIn == click = "post" /\ (page' # page \/ RequestUser' # RequestUser)

\* A tab that leaves the page forgets the button.
Around ==
    /\ UNCHANGED <<browser, owner, subscriber>>
    /\ troubled' = (troubled \/ CutsIn)
    /\ IF page' = page
       THEN UNCHANGED button
       ELSE /\ held' = NoEndpoint /\ label' = "none" /\ setup' = FALSE
            /\ click' = "idle" /\ target' = NoEndpoint

Session == SessionNext /\ Around

Next ==
    \/ Session
    \/ FetchKey \/ SetUp
    \/ Click \/ ClickGoesOn \/ Fail
    \/ Revoke

Spec == Init /\ [][Next]_vars

\* Pages and requests are answered or fail, and a click goes on; whoever is
\* offered notifications clicks.  Failures, and comings and goings, end.
Undisturbed == LeavesAlone /\ ~ Revoke /\ (Fail => Refused)
FairSpec ==
    /\ Spec
    /\ WF_vars(Navigate /\ Around) /\ WF_vars(ClickGoesOn)
    /\ WF_vars(Click /\ label = "Enable")
    /\ <>[][Undisturbed]_vars

-----------------------------------------------------------------------------
(* Properties.                                                             *)

TypeOK ==
    /\ SessionTypeOK
    /\ browser \in Endpoints \cup {NoEndpoint} /\ held \in Endpoints \cup {NoEndpoint}
    /\ owner \in [Endpoints -> Users \cup {Nobody}]
    /\ label \in Labels /\ setup \in BOOLEAN
    /\ troubled \in BOOLEAN /\ subscriber \in Users \cup {Nobody}
    /\ click \in Clicks
    /\ target \in Endpoints \cup {NoEndpoint}
    /\ click \in {"post", "posted", "delete", "deleted"} => target # NoEndpoint
    /\ page # "app" => label = "none" /\ click = "idle" /\ ~ setup

AtRest == click = "idle" /\ label # "none"

(***************************************************************************)
(* Told by the browser what only the server knows, the button is right all *)
(* the same for whoever enabled it: from the click that made the browser's *)
(* subscription on, over any number of visits, logins of others and        *)
(* set-ups in the middle of a click, it offers to disable exactly what is  *)
(* registered for the user of the session, and a click will do what it     *)
(* offers (app.js:462-498) - unless a step of that or a later click        *)
(* failed, or was cut off while it registered, or the browser took the     *)
(* subscription back.                                                      *)
(***************************************************************************)
ButtonIsTrue ==
    AtRest /\ ~ troubled /\ (browser = NoEndpoint \/ RequestUser = subscriber) =>
        /\ label = "Disable" <=> Registered
        /\ label = "Disable" <=> held # NoEndpoint

\* Steps of this click, and of the next one if this is the wrong one, until the
\* server knows the browser; whatever the label says.
StepsLeft ==
    IF Registered THEN 0
    ELSE CASE click = "post" /\ browser = target -> 1
           [] click = "subscribe"   -> 2
           [] click = "idle"        -> IF held = NoEndpoint THEN 3 ELSE 7
           [] click = "deleted"     -> 4
           [] click \in {"posted", "failed"} -> IF held = NoEndpoint THEN 4 ELSE 8
           [] click = "delete"      -> 5
           [] click = "unsubscribe" -> IF held = NoEndpoint THEN 5 ELSE 6
           [] click = "post" /\ browser # target -> IF held = NoEndpoint THEN 5 ELSE 9

(***************************************************************************)
(* Wherever failures and set-ups in the middle of a click have left page,  *)
(* browser and server, a registered browser is never more than two clicks  *)
(* away: each step of a click of a user with a session brings it nearer,   *)
(* and only another failure, a permission taken back, or a set-up that     *)
(* finds a subscription which the page had given up takes it further       *)
(* (app.js:462-498).                                                       *)
(***************************************************************************)
EnablingAdvances ==
    ~ Registered /\ label # "none" /\ page' = "app"
    /\ RequestUser # Nobody /\ RequestUser' = RequestUser =>
        /\ Click \/ ClickGoesOn => StepsLeft' < StepsLeft
        /\ StepsLeft' > StepsLeft => Fail \/ Revoke \/ (SetUp /\ browser # NoEndpoint)
EnablingIsNear == [][EnablingAdvances]_vars

(***************************************************************************)
(* Enabling can be had: whatever failed before, and even where the button  *)
(* did the opposite of what it offered, a user who clicks as long as it    *)
(* offers to enable has the browser registered in the end (app.js:475-500, *)
(* pushSubscription is null again and the button enabled after each        *)
(* attempt) - unless he leaves, the subscription is taken back while it is *)
(* being registered, or the tab is opened again while the browser has one  *)
(* that the server does not know (see DisableMeansRegistered).             *)
(***************************************************************************)
EnablingSucceeds ==
    \A u \in Users :
        (AtRest /\ label = "Enable" /\ RequestUser = u)
            ~> \/ Registered
               \/ page # "app" \/ RequestUser # u
               \/ click \in {"post", "posted"} /\ browser # target
               \/ setup /\ browser # NoEndpoint

(***************************************************************************)
(* "Disable Push Notifications" (app.js:466): where the page knows what    *)
(* the browser has, a button that says so to the user of a session has     *)
(* something of his to disable, so that he does "receive browser push      *)
(* notifications" (index.html:53).                                         *)
(***************************************************************************)
DisableMeansRegistered ==
    AtRest /\ held = browser /\ label = "Disable" /\ RequestUser # Nobody => Registered

(***************************************************************************)
(* "Enable Push Notifications" (app.js:469, 480, index.html:56): a click   *)
(* on the button that says so will not give up a subscription.             *)
(***************************************************************************)
EnableEnables == AtRest /\ label = "Enable" => held = NoEndpoint
=============================================================================
