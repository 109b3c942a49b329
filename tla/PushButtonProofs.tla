--------------------------- MODULE PushButtonProofs ---------------------------
(***************************************************************************)
(* Theorems about Sessions and PushButton, for any users, endpoints and    *)
(* lives of logins and sessions.                                           *)
(***************************************************************************)
EXTENDS PushButton, TLAPS

USE DEF Older, MaxConfirmed, NoLogin, NoCookie, sessionVars

-----------------------------------------------------------------------------
(* Sessions.                                                               *)

\* A cookie is never staler than its own age and the oldest login that is
\* accepted: this also holds while it is too old, where SessionIsRecent says
\* nothing.
RecentInv ==
    /\ SessionTypeOK
    /\ cookie.user # Nobody => cookie.confirmed <= cookie.age + LoginLife

LEMMA SessionStarts == SessionInit => RecentInv
  BY LivesAssumption DEF SessionInit, RecentInv, SessionTypeOK, Places

LEMMA SessionStep ==
  ASSUME RecentInv, SessionNext
  PROVE  RecentInv'
<1> USE LivesAssumption, NobodyAssumption DEF RecentInv, SessionTypeOK, Places
<1>1. ASSUME NEW u \in Users, Confirm(u) PROVE RecentInv'
  BY <1>1 DEF Confirm
<1>2. CASE TelegramCallback
  <2>1. CASE ValidateTelegramLogin(login)
    <3>1. cookie' = [user |-> login.user, age |-> 0, confirmed |-> login.age]
      BY <1>2, <2>1 DEF TelegramCallback
    <3>2. login.age <= LoginLife /\ login.age \in 0 .. MaxConfirmed
      BY <2>1 DEF ValidateTelegramLogin
    <3> QED
      BY <1>2, <2>1, <3>1, <3>2 DEF TelegramCallback
  <2>2. CASE ~ ValidateTelegramLogin(login)
    BY <1>2, <2>2 DEF TelegramCallback
  <2> QED
    BY <2>1, <2>2
<1>3. CASE Logout
  BY <1>3 DEF Logout
<1>4. CASE Visit
  BY <1>4 DEF Visit
<1>5. CASE Navigate
  BY <1>5 DEF Navigate, OpenRoot, CheckAuthAndInit, CheckLogin
<1>6. CASE Tick
  <2>1. login'.user = login.user /\ login'.age \in 0 .. LoginLife + 1
    BY <1>6 DEF Tick
  <2>2. login' \in [user : Users \cup {Nobody}, age : 0 .. LoginLife + 1]
    BY <1>6, <2>1 DEF Tick
  <2>3. /\ cookie'.user = cookie.user
        /\ cookie'.age = Older(cookie.age, SessionLife + 1)
        /\ cookie'.confirmed = Older(cookie.confirmed, MaxConfirmed)
    BY <1>6 DEF Tick
  <2>4. cookie' \in [user : Users \cup {Nobody}, age : 0 .. SessionLife + 1,
                    confirmed : 0 .. MaxConfirmed]
    <3>1. cookie' = [user |-> cookie.user, age |-> cookie'.age, confirmed |-> cookie'.confirmed]
      BY <1>6 DEF Tick
    <3>2. cookie'.age \in 0 .. SessionLife + 1 /\ cookie'.confirmed \in 0 .. MaxConfirmed
      BY <2>3
    <3> HIDE DEF Older, MaxConfirmed
    <3> QED
      BY <3>1, <3>2
  <2>5. cookie.user # Nobody => cookie'.confirmed <= cookie'.age + LoginLife
    BY <2>3
  <2>6. page' = page
    BY <1>6 DEF Tick
  <2>7. cookie'.user = cookie.user
    BY <2>3
  <2> QED
    BY <2>2, <2>4, <2>5, <2>6, <2>7
<1>7. CASE CookieExpires
  BY <1>7 DEF CookieExpires
<1> QED
  BY <1>1, <1>2, <1>3, <1>4, <1>5, <1>6, <1>7 DEF SessionNext, SignsInOrOut

LEMMA SessionInvariant == SessionSpec => []RecentInv
<1>1. RecentInv /\ UNCHANGED sessionVars => RecentInv'
  BY DEF RecentInv, SessionTypeOK
<1> QED
  BY SessionStarts, SessionStep, <1>1, PTL DEF SessionSpec

\* The values of the sessions stay what they are meant to be.
THEOREM SessionsTypeCorrect == SessionSpec => []SessionTypeOK
  BY SessionInvariant, PTL DEF RecentInv

\* No request is served for somebody whose confirmation is older than a login
\* and a session may live together (auth.go:72, 131), however often the link
\* is followed again.
THEOREM SessionsAreRecent == SessionSpec => []SessionIsRecent
<1>1. RecentInv => SessionIsRecent
  BY LivesAssumption
  DEF RecentInv, SessionTypeOK, SessionIsRecent, RequestUser, VerifySessionToken
<1> QED
  BY SessionInvariant, <1>1, PTL

\* Time, and a cookie that is dropped, end sessions but begin none; and a tab
\* is no further from rest without a session than with one.
LEMMA TimeBeginsNoSession ==
  ASSUME SessionTypeOK, Tick \/ CookieExpires
  PROVE  VerifySessionToken(cookie)' => VerifySessionToken(cookie)
<1> USE LivesAssumption DEF SessionTypeOK, VerifySessionToken
<1>1. CASE Tick
  <2>1. cookie'.user = cookie.user /\ cookie'.age = Older(cookie.age, SessionLife + 1)
    BY <1>1 DEF Tick
  <2> QED
    BY <2>1
<1>2. CASE CookieExpires
  BY <1>2 DEF CookieExpires
<1> QED
  BY <1>1, <1>2

LEMMA TabStep ==
  ASSUME SessionTypeOK, [SessionNext]_sessionVars
  PROVE  TabComesToRest
<1> USE DEF MovesLeft
<1>0. ASSUME UNCHANGED cookie PROVE VerifySessionToken(cookie)' = VerifySessionToken(cookie)
  BY <1>0 DEF VerifySessionToken
<1>1. Navigate => MovesLeft' < MovesLeft
  <2>1. OpenRoot => MovesLeft' < MovesLeft
    BY <1>0 DEF OpenRoot
  <2>2. CheckAuthAndInit => MovesLeft' < MovesLeft
    BY <1>0 DEF CheckAuthAndInit
  <2>3. CheckLogin => MovesLeft' < MovesLeft
    BY <1>0 DEF CheckLogin
  <2> QED
    BY <2>1, <2>2, <2>3 DEF Navigate
<1>2. MovesLeft \in Nat /\ MovesLeft' \in Nat
  OBVIOUS
<1>3. ASSUME NEW u \in Users, Confirm(u) PROVE MovesLeft' = MovesLeft
  BY <1>0, <1>3 DEF Confirm
<1>4. CASE Tick \/ CookieExpires
  <2>1. page' = page
    BY <1>4 DEF Tick, CookieExpires
  <2>2. ~ Navigate => MovesLeft' <= MovesLeft
    BY <2>1, <1>4, TimeBeginsNoSession
  <2> QED
    BY <1>1, <1>2, <2>2 DEF TabComesToRest
<1>5. CASE UNCHANGED sessionVars
  <2>1. MovesLeft' = MovesLeft
    BY <1>0, <1>5
  <2> QED
    BY <1>1, <1>2, <2>1 DEF TabComesToRest
<1> QED
  BY <1>1, <1>2, <1>3, <1>4, <1>5 DEF SessionNext, TabComesToRest

\* The redirects between the page and the login page (handlers.go:116-125,
\* app.js:609-611, login.html:38-41) cannot go round: whatever expires on the
\* way, each one lowers a number that is four at most, and only a visit, a
\* login or a logout raises it.
THEOREM NavigationEnds == SessionSpec => NavigationIsShort
  BY SessionsTypeCorrect, TabStep, PTL DEF SessionSpec, NavigationIsShort

-----------------------------------------------------------------------------
(* The button above the sessions.                                          *)

\* Nothing that the button does touches the session.
THEOREM ButtonKeepsSessions == Spec => SessionSpec
<1>1. Init => SessionInit
  BY DEF Init
<1>2. ASSUME [Next]_vars PROVE [SessionNext]_sessionVars
  BY <1>2 DEF Next, Session, FetchKey, SetUp, Click, ClickGoesOn, Subscribe, ServePost,
     Posted, Unsubscribed, ServeDelete, Deleted, Refused, Fail, Alert, Revoke, vars
<1> QED
  BY <1>1, <1>2, PTL DEF Spec, SessionSpec

\* With the button, too, whoever is served confirmed who they are in time.
THEOREM ButtonUserIsRecent == Spec => []SessionIsRecent
  BY ButtonKeepsSessions, SessionsAreRecent, PTL

\* Nor does it bring the tab into motion.
THEOREM ButtonNavigationEnds == Spec => NavigationIsShort
  BY ButtonKeepsSessions, NavigationEnds, PTL

LEMMA TypeStarts == Init => TypeOK
<1> SUFFICES ASSUME Init PROVE TypeOK
  OBVIOUS
<1>1. SessionTypeOK
  BY SessionStarts DEF Init, RecentInv
<1>2. page = "closed"
  BY DEF Init, SessionInit
<1> QED
  BY <1>1, <1>2 DEF Init, TypeOK, Labels, Clicks

LEMMA TypeStep ==
  ASSUME TypeOK, SessionTypeOK', [Next]_vars
  PROVE  TypeOK'
<1> USE EndpointsAssumption, NobodyAssumption DEF TypeOK, Labels, Clicks
<1>0. RequestUser \in Users \cup {Nobody}
  BY DEF SessionTypeOK, RequestUser
<1>1. CASE Session
  BY <1>1 DEF Session, Around, CutsIn, button
<1>2. CASE FetchKey
  BY <1>2 DEF FetchKey, history
<1>3. CASE SetUp
  BY <1>3 DEF SetUp, LabelFor, history
<1>4. CASE Click
  BY <1>4 DEF Click, history
<1>5. CASE Subscribe
  BY <1>0, <1>5 DEF Subscribe
<1>6. CASE ServePost
  BY <1>0, <1>6 DEF ServePost, UpsertWebPushSubscription, history
<1>7. CASE Posted
  BY <1>7 DEF Posted, history
<1>8. CASE Unsubscribed
  BY <1>8 DEF Unsubscribed, history
<1>9. CASE ServeDelete
  BY <1>9 DEF ServeDelete, DeleteWebPushSubscription, history
<1>10. CASE Deleted
  BY <1>10 DEF Deleted, history
<1>11. CASE Fail
  BY <1>11 DEF Fail
<1>12. CASE Alert
  BY <1>12 DEF Alert, history
<1>13. CASE Revoke
  BY <1>13 DEF Revoke, button
<1>14. CASE UNCHANGED vars
  BY <1>14 DEF vars, push, button, history
<1> QED
  BY <1>1, <1>2, <1>3, <1>4, <1>5, <1>6, <1>7, <1>8, <1>9, <1>10, <1>11, <1>12, <1>13,
     <1>14 DEF Next, ClickGoesOn, Refused

\* The page, the browser and the server keep to their values, and no request
\* goes out without an endpoint.
THEOREM ButtonTypeCorrect == Spec => []TypeOK
<1>1. Spec => []SessionTypeOK
  BY ButtonKeepsSessions, SessionsTypeCorrect, PTL
<1> QED
  BY <1>1, TypeStarts, TypeStep, PTL DEF Spec

(***************************************************************************)
(* What holds without trouble at each point of a click.  Page or not, a    *)
(* subscription that is not just being registered has the row of whoever   *)
(* made it; and where there is a button, it knows what the browser has, or *)
(* the next steps of its click have still to tell it.                      *)
(***************************************************************************)
Sent == browser = target /\ held = target /\ target # NoEndpoint

ServerKnows ==
    browser # NoEndpoint /\ click # "post" =>
        subscriber # Nobody /\ owner[browser] = subscriber

PageKnows ==
    /\ click = "idle" => held = browser /\ (label = "Disable" <=> browser # NoEndpoint)
    /\ click = "subscribe" => browser = NoEndpoint /\ held = NoEndpoint
    /\ click = "post" => Sent /\ RequestUser = subscriber
    /\ click = "posted" => Sent
    /\ click \in {"unsubscribe", "delete", "deleted"} => browser = NoEndpoint
    /\ click # "failed"

ButtonInv ==
    /\ label = "none" => click = "idle"
    /\ ~ troubled => ServerKnows /\ (label # "none" => PageKnows)

\* What the button does leaves the user of the session as it is.
LEMMA SameUser == UNCHANGED sessionVars => RequestUser' = RequestUser
BY DEF RequestUser, VerifySessionToken

LEMMA ButtonStep ==
  ASSUME TypeOK, ButtonInv, [Next]_vars
  PROVE  ButtonInv'
<1> USE EndpointsAssumption, NobodyAssumption, SameUser
    DEF TypeOK, Labels, Clicks, ButtonInv, ServerKnows, PageKnows, Sent, history
<1>1. CASE Session
  <2>1. UNCHANGED <<browser, owner, subscriber>> /\ troubled' = (troubled \/ CutsIn)
    BY <1>1 DEF Session, Around
  <2>2. CASE page' = page
    <3>1. UNCHANGED <<held, label, setup, click, target>>
      BY <1>1, <2>2 DEF Session, Around, button
    <3> QED
      BY <2>1, <2>2, <3>1 DEF CutsIn
  <2>3. CASE page' # page
    <3>1. label' = "none" /\ click' = "idle"
      BY <1>1, <2>3 DEF Session, Around
    <3> QED
      BY <2>1, <2>3, <3>1 DEF CutsIn
  <2> QED
    BY <2>2, <2>3
<1>2. CASE FetchKey
  BY <1>2 DEF FetchKey
<1>3. CASE SetUp
  BY <1>3 DEF SetUp, LabelFor
<1>4. CASE Click
  <2>1. label # "none" /\ click = "idle" /\ UNCHANGED <<owner, held, label, target>>
    BY <1>4 DEF Click
  <2>2. CASE held # NoEndpoint /\ click' = "unsubscribe"
    <3>1. troubled' = (browser' # NoEndpoint)
      BY <1>4, <2>2 DEF Click
    <3> QED
      BY <2>1, <2>2, <3>1
  <2>3. CASE held = NoEndpoint /\ click' = "subscribe"
    <3>1. UNCHANGED <<browser, troubled, subscriber>>
      BY <1>4, <2>3 DEF Click
    <3> QED
      BY <2>1, <2>3, <3>1
  <2> QED
    BY <1>4, <2>2, <2>3 DEF Click
<1>5. CASE Subscribe
  BY <1>5 DEF Subscribe
<1>6. CASE ServePost
  BY <1>6 DEF ServePost, UpsertWebPushSubscription
<1>7. CASE Posted
  BY <1>7 DEF Posted
<1>8. CASE Unsubscribed
  BY <1>8 DEF Unsubscribed
<1>9. CASE ServeDelete
  BY <1>9 DEF ServeDelete, DeleteWebPushSubscription
<1>10. CASE Deleted
  BY <1>10 DEF Deleted
<1>11. CASE Fail
  BY <1>11 DEF Fail
<1>12. CASE Alert
  BY <1>12 DEF Alert
<1>13. CASE Revoke
  BY <1>13 DEF Revoke, button
<1>14. CASE UNCHANGED vars
  BY <1>14 DEF vars, push, button
<1> QED
  BY <1>1, <1>2, <1>3, <1>4, <1>5, <1>6, <1>7, <1>8, <1>9, <1>10, <1>11, <1>12, <1>13,
     <1>14 DEF Next, ClickGoesOn, Refused

\* As long as no step of a click failed, was cut off or was undone behind the
\* page, the button at rest offers whoever enabled it to disable exactly what the
\* server has for them (app.js:462-498), whatever visits, sessions of others and
\* clicks came between.
THEOREM ButtonTellsTruth == Spec => []ButtonIsTrue
<1>1. Init => ButtonInv
  BY DEF Init, ButtonInv, ServerKnows
<1>2. ButtonInv => ButtonIsTrue
  BY DEF ButtonInv, ButtonIsTrue, AtRest, ServerKnows, PageKnows, Registered
<1> QED
  BY <1>1, <1>2, ButtonStep, ButtonTypeCorrect, PTL DEF Spec

-----------------------------------------------------------------------------
(* How far it is to notifications.                                         *)

\* The measure is a number in every state of the click.
LEMMA StepsAreNat == TypeOK => StepsLeft \in 0 .. 9
BY DEF TypeOK, Clicks, StepsLeft

\* A step of a click brings them nearer.
LEMMA ClickAdvances ==
  ASSUME TypeOK, ~ Registered, RequestUser # Nobody, RequestUser' = RequestUser,
         Click \/ ClickGoesOn
  PROVE  StepsLeft' < StepsLeft
<1> USE EndpointsAssumption DEF TypeOK, StepsLeft
<1>1. CASE Click
  BY <1>1 DEF Click, Registered
<1>2. CASE Subscribe
  BY <1>2 DEF Subscribe
<1>3. CASE ServePost
  <2>1. CASE browser = target
    <3>1. Registered'
      BY <1>3, <2>1 DEF ServePost, Registered, UpsertWebPushSubscription
    <3> QED
      BY <1>3, <2>1, <3>1 DEF ServePost
  <2>2. CASE browser # target
    BY <1>3, <2>2 DEF ServePost
  <2> QED
    BY <2>1, <2>2
<1>4. CASE Posted
  BY <1>4 DEF Posted
<1>5. CASE Unsubscribed
  BY <1>5 DEF Unsubscribed
<1>6. CASE ServeDelete
  BY <1>6 DEF ServeDelete
<1>7. CASE Deleted
  BY <1>7 DEF Deleted
<1>8. CASE Refused
  <2>1. click = "unsubscribe" /\ held = NoEndpoint
    BY <1>8 DEF Refused
  <2> QED
    BY <1>8, <2>1 DEF Refused, Fail
<1>9. CASE Alert
  BY <1>9 DEF Alert
<1> QED
  BY <1>1, <1>2, <1>3, <1>4, <1>5, <1>6, <1>7, <1>8, <1>9 DEF ClickGoesOn

\* Nothing else takes them further but a failure, a permission taken back, and a
\* set-up that finds a subscription of the browser.
LEMMA RestKeepsNear ==
  ASSUME TypeOK, ~ Registered, RequestUser' = RequestUser, label # "none", page' = "app",
         Session \/ FetchKey \/ (SetUp /\ browser = NoEndpoint) \/ UNCHANGED vars
  PROVE  StepsLeft' <= StepsLeft
<1> USE EndpointsAssumption DEF TypeOK, Clicks
<1>1. CASE Session \/ FetchKey \/ UNCHANGED vars
  <2>1. page' = page
    BY <1>1 DEF FetchKey, vars, sessionVars
  <2>2. UNCHANGED <<browser, owner, held, click, target>>
    BY <1>1, <2>1 DEF Session, Around, FetchKey, vars, push, button
  <2>3. Registered' <=> Registered
    BY <2>2 DEF Registered
  <2> QED
    BY <2>2, <2>3 DEF StepsLeft
<1>2. CASE SetUp /\ browser = NoEndpoint
  <2>1. UNCHANGED <<browser, owner, click, target>> /\ held' = NoEndpoint
    BY <1>2 DEF SetUp
  <2>2. ~ Registered'
    BY <1>2, <2>1 DEF Registered
  <2> QED
    BY <1>2, <2>1, <2>2 DEF StepsLeft
<1> QED
  BY <1>1, <1>2

\* From wherever failures, set-ups and other tabs have left the button, and
\* whatever it says, a user with a session is at most nine steps of two clicks
\* from having this browser registered (app.js:462-498).
THEOREM EnablingStaysNear == Spec => EnablingIsNear
<1>1. ASSUME TypeOK, TypeOK', [Next]_vars PROVE EnablingAdvances
  <2> SUFFICES ASSUME ~ Registered, label # "none", page' = "app",
                      RequestUser # Nobody, RequestUser' = RequestUser
               PROVE  /\ Click \/ ClickGoesOn => StepsLeft' < StepsLeft
                      /\ StepsLeft' > StepsLeft
                         => Fail \/ Revoke \/ (SetUp /\ browser # NoEndpoint)
    BY DEF EnablingAdvances
  <2>1. Click \/ ClickGoesOn => StepsLeft' < StepsLeft
    BY <1>1, ClickAdvances
  <2>2. StepsLeft \in 0 .. 9 /\ StepsLeft' \in 0 .. 9
    BY <1>1, StepsAreNat DEF TypeOK, Clicks, StepsLeft
  <2>3. Session \/ FetchKey \/ (SetUp /\ browser = NoEndpoint) \/ UNCHANGED vars
        => StepsLeft' <= StepsLeft
    BY <1>1, RestKeepsNear
  <2>4. StepsLeft' > StepsLeft => ~ (StepsLeft' <= StepsLeft) /\ ~ (StepsLeft' < StepsLeft)
    BY <2>2
  <2> QED
    BY <1>1, <2>1, <2>3, <2>4 DEF Next
<1> QED
  BY <1>1, ButtonTypeCorrect, PTL DEF Spec, EnablingIsNear
=============================================================================
