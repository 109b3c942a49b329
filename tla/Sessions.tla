------------------------------- MODULE Sessions -------------------------------
(***************************************************************************)
(* Telegram login and sessions (internal/auth/auth.go,                     *)
(* api/auth_handlers.go), and how a tab of the browser finds its way       *)
(* between the page and the login page (api/handlers.go, web/login.html,   *)
(* web/js/app.js).  A session lives in the browser's cookie alone: the     *)
(* server signs it and keeps nothing.                                      *)
(*                                                                         *)
(* One tab is followed.  What happens in other tabs of the same browser    *)
(* shows in the cookie they share.  Signatures are abstracted: a token is  *)
(* what was signed, and no other is accepted.  Times are kept as ages,     *)
(* which stop counting once they are past every limit.                     *)
(***************************************************************************)
EXTENDS Naturals

CONSTANTS
    Users, Nobody,
    LoginLife,      \* how old a login confirmed by Telegram may be: 24 hours
    SessionLife     \* how old a session token may be: 30 days

ASSUME LivesAssumption == LoginLife \in Nat /\ SessionLife \in Nat
ASSUME NobodyAssumption == Nobody \notin Users

VARIABLES
    login,      \* login data that Telegram signed, as the browser still has it
    cookie,     \* auth_session, with the age of the login it was made from
    page        \* what the tab shows or waits for

sessionVars == <<login, cookie, page>>

MaxConfirmed == LoginLife + SessionLife + 1
NoLogin  == [user |-> Nobody, age |-> LoginLife + 1]
NoCookie == [user |-> Nobody, age |-> SessionLife + 1, confirmed |-> MaxConfirmed]

Places == {"closed", "root", "checkRoot", "app", "checkLogin", "login"}

SessionInit == login = NoLogin /\ cookie = NoCookie /\ page = "closed"

-----------------------------------------------------------------------------
(* Tokens.                                                                 *)

\* VerifySessionToken, which the pages and AuthMiddleware share.
VerifySessionToken(c) == c.user # Nobody /\ c.age <= SessionLife

\* Mutant: only the signature of the login data is checked.
ValidateSignature(l) == l.user # Nobody

ValidateTelegramLogin(l) == l.user # Nobody /\ l.age <= LoginLife

\* The user whom a request of this browser is served for, if it is (AuthMiddleware).
RequestUser == IF VerifySessionToken(cookie) THEN cookie.user ELSE Nobody

-----------------------------------------------------------------------------
(* Logging in and out, in this tab or in another.                          *)

\* The person confirms to Telegram who they are.
Confirm(u) ==
    /\ login' = [user |-> u, age |-> 0]
    /\ UNCHANGED <<cookie, page>>

\* The browser follows the signed link, which may be an old one.
TelegramCallback ==
    /\ login # NoLogin
    /\ \/ /\ ValidateTelegramLogin(login)
          /\ cookie' = [user |-> login.user, age |-> 0, confirmed |-> login.age]
          /\ page' \in {page, "root"}
       \/ /\ ~ ValidateTelegramLogin(login)
          /\ page' \in {page, "closed"}
          /\ UNCHANGED cookie
    /\ UNCHANGED login

Logout ==
    /\ cookie' = NoCookie
    /\ page' \in {page, "checkLogin"}
    /\ UNCHANGED login

-----------------------------------------------------------------------------
(* The tab.                                                                *)

Visit ==
    /\ page' \in {"root", "checkLogin", "closed"}
    /\ UNCHANGED <<login, cookie>>

\* "/" is served to a session only, and everybody else sent to "/login".
OpenRoot ==
    /\ page = "root"
    /\ page' = IF VerifySessionToken(cookie) THEN "checkRoot" ELSE "checkLogin"
    /\ UNCHANGED <<login, cookie>>

\* checkAuthAndInit asks /api/auth/me; no answer leaves the page as it is.
CheckAuthAndInit ==
    /\ page = "checkRoot"
    /\ page' \in {IF VerifySessionToken(cookie) THEN "app" ELSE "checkLogin", "app"}
    /\ UNCHANGED <<login, cookie>>

\* Mutant: a cookie is enough for the login page.
CheckLoginByCookie ==
    /\ page = "checkLogin"
    /\ page' \in {IF cookie # NoCookie THEN "root" ELSE "login", "login"}
    /\ UNCHANGED <<login, cookie>>

\* So does the login page, which sends a session on to "/".
CheckLogin ==
    /\ page = "checkLogin"
    /\ page' \in {IF VerifySessionToken(cookie) THEN "root" ELSE "login", "login"}
    /\ UNCHANGED <<login, cookie>>

Navigate == OpenRoot \/ CheckAuthAndInit \/ CheckLogin

-----------------------------------------------------------------------------
(* Time.                                                                   *)

Older(age, limit) == IF age < limit THEN age + 1 ELSE limit

Tick ==
    /\ login' = [login EXCEPT !.age = Older(@, LoginLife + 1)]
    /\ cookie' = [cookie EXCEPT !.age = Older(@, SessionLife + 1),
                                !.confirmed = Older(@, MaxConfirmed)]
    /\ UNCHANGED page

\* The browser drops the cookie at its MaxAge, by its own clock.
CookieExpires ==
    /\ cookie.age >= SessionLife
    /\ cookie' = NoCookie
    /\ UNCHANGED <<login, page>>

SignsInOrOut == TelegramCallback \/ Logout

SessionNext ==
    \/ \E u \in Users : Confirm(u)
    \/ SignsInOrOut
    \/ Visit
    \/ Navigate
    \/ Tick
    \/ CookieExpires

SessionSpec == SessionInit /\ [][SessionNext]_sessionVars

-----------------------------------------------------------------------------
(* Properties.                                                             *)

SessionTypeOK ==
    /\ login \in [user : Users \cup {Nobody}, age : 0 .. LoginLife + 1]
    /\ cookie \in [user : Users \cup {Nobody}, age : 0 .. SessionLife + 1,
                   confirmed : 0 .. MaxConfirmed]
    /\ page \in Places

(***************************************************************************)
(* Whoever a request is served for confirmed to Telegram who they are      *)
(* within the life of a login and of a session together: a login link that *)
(* is followed again does not prolong what it gave (auth.go:72, 131).      *)
(***************************************************************************)
SessionIsRecent ==
    RequestUser # Nobody => cookie.confirmed <= LoginLife + SessionLife

\* Nobody opens a page, logs in or logs out: the tab moves by itself only.
LeavesAlone == Visit \/ SignsInOrOut => Navigate \/ UNCHANGED sessionVars

\* How often the tab may still move before it rests, if nobody signs in: even
\* a session that is about to expire is left behind once.
MovesLeft ==
    CASE page = "checkLogin" -> IF VerifySessionToken(cookie) THEN 4 ELSE 1
      [] page = "root"       -> IF VerifySessionToken(cookie) THEN 3 ELSE 2
      [] page = "checkRoot"  -> 2
      [] OTHER               -> 0

(***************************************************************************)
(* The two pages do not play the tab back and forth: each redirect and     *)
(* each answer (handlers.go:116-125, app.js:609-611, login.html:38-41)     *)
(* brings it nearer to rest, and only a visit, a login or a logout sets it *)
(* off again, so it moves four times at most.                              *)
(***************************************************************************)
TabComesToRest ==
    /\ Navigate => MovesLeft' < MovesLeft
    /\ MovesLeft' > MovesLeft => Visit \/ SignsInOrOut
NavigationIsShort == [][TabComesToRest]_sessionVars

(***************************************************************************)
(* "/" sends to "/login" and "/login" sends to "/" (handlers.go:116-125,   *)
(* app.js:609-611, login.html:38-41), but the tab comes to rest, even if   *)
(* the session expires on the way.                                         *)
(***************************************************************************)
NavigationSettles ==
    page \in {"root", "checkRoot", "checkLogin"} ~> page \in {"app", "login", "closed"}
=============================================================================
