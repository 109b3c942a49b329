---------------------------- MODULE Notification ----------------------------
(***************************************************************************)
(* Delivery of one message to every destination of a user                  *)
(* (service/notification.go), as called at the same time by the quota      *)
(* poll, the billing check and the test-notification handler, while users  *)
(* register and remove browsers and Telegram chats (api/handlers.go).      *)
(* Each statement on the database is one step; so is each call of a peer.  *)
(***************************************************************************)
EXTENDS Naturals

CONSTANTS
    Users, Nobody,
    Endpoints,      \* web push endpoints (unique in their table)
    Chats,          \* Telegram chat ids (unique in their table)
    BadChats,       \* those that are no integers: the handler stores any text
    NoDest,         \* "no delivery waits to be logged"
    Callers,        \* goroutines that may be inside SendAll
    DbFaults        \* may a statement fail?

Dests == Endpoints \cup Chats
Channels == {"push", "chats"}
Outcomes == {"none", "failed", "sent", "logged"}
Places == {"idle", "listPush", "push", "listChats", "chats"}

ASSUME DestsAssumption ==
    Endpoints \cap Chats = {} /\ BadChats \subseteq Chats /\ NoDest \notin Dests
ASSUME NobodyAssumption == Nobody \notin Users
ASSUME SettingsAssumption == DbFaults \in BOOLEAN

VARIABLES
    on,         \* channels that work since startup: keys are set, the bot started
    owner,      \* tables webpush_subscriptions and telegram_chats
    pc,         \* where each caller is in SendAll
    user,       \* whom its message is for
    tied,       \* does the message concern a subscription (subID > 0)?
    todo,       \* destinations it has listed and not come to
    unlogged,   \* a delivery whose log row is not written yet
    got,        \* history: what became of its message, by destination
    since,      \* history: destinations the user had since the call began ...
    kept,       \* ... and those he had then, did not give up himself and did not
                \*   lose to a later registration of the same browser
    spoiled     \* history: callers whose last call met a failing statement
                \*   or the end of the process

caller == <<pc, user, tied, todo, unlogged, got, spoiled>>
vars   == <<on, owner, caller, since, kept>>

Fresh == [d \in Dests |-> "none"]

Init ==
    /\ on \in SUBSET Channels
    /\ owner = [d \in Dests |-> Nobody]
    /\ pc = [c \in Callers |-> "idle"]
    /\ user \in [Callers -> Users] /\ tied = [c \in Callers |-> FALSE]
    /\ todo = [c \in Callers |-> {}] /\ unlogged = [c \in Callers |-> NoDest]
    /\ got = [c \in Callers |-> Fresh] /\ since = [c \in Callers |-> {}]
    /\ kept = [c \in Callers |-> {}] /\ spoiled = {}

OwnedBy(u) == {d \in Dests : owner[d] = u}

\* What the calls for u, or for everybody else, may no longer count on.
LostTo(u, d)   == [c \in Callers |-> IF user[c] = u THEN kept[c] ELSE kept[c] \ {d}]
GivenUp(u, d)  == [c \in Callers |-> IF user[c] = u THEN kept[c] \ {d} ELSE kept[c]]

-----------------------------------------------------------------------------
(* Requests that register and remove destinations.                         *)

Own(u, d) ==
    /\ owner' = [owner EXCEPT ![d] = u]
    /\ since' = [c \in Callers |-> IF user[c] = u THEN since[c] \cup {d} ELSE since[c]]
    /\ UNCHANGED <<on, caller>>

\* ON CONFLICT(endpoint) DO UPDATE: the endpoint goes over to the new user.
WebpushSubscribe(u, e) == Own(u, e) /\ kept' = LostTo(u, e)

\* Mutant: the chat goes over to the new user, as an endpoint does.
TakeOverChat(u, c) == Own(u, c) /\ UNCHANGED kept

\* ON CONFLICT(chat_id) DO NOTHING, answered with "added" all the same.
AddTelegramChat(u, c) == owner[c] = Nobody /\ Own(u, c) /\ UNCHANGED kept

\* Mutant: ... WHERE endpoint = ? (or chat_id = ?), whosever it is.
RemoveAnybodys(u, d) ==
    /\ owner[d] # Nobody
    /\ owner' = [owner EXCEPT ![d] = Nobody]
    /\ kept' = GivenUp(u, d)
    /\ UNCHANGED <<on, caller, since>>

\* DELETE ... WHERE endpoint = ? (or chat_id = ?) AND user_id = ?
Remove(u, d) ==
    /\ owner[d] = u
    /\ owner' = [owner EXCEPT ![d] = Nobody]
    /\ kept' = GivenUp(u, d)
    /\ UNCHANGED <<on, caller, since>>

WebpushUnsubscribe(u, e) == Remove(u, e)
DeleteTelegramChat(u, c) == Remove(u, c)

-----------------------------------------------------------------------------
(* SendAll.                                                                *)

SendAll(c, u, forSub) ==
    /\ pc[c] = "idle"
    /\ pc' = [pc EXCEPT ![c] = "listPush"]
    /\ user' = [user EXCEPT ![c] = u] /\ tied' = [tied EXCEPT ![c] = forSub]
    /\ got' = [got EXCEPT ![c] = Fresh] /\ since' = [since EXCEPT ![c] = OwnedBy(u)]
    /\ kept' = [kept EXCEPT ![c] = OwnedBy(u)]
    /\ spoiled' = spoiled \ {c}
    /\ UNCHANGED <<on, owner, todo, unlogged>>

\* Mutants: everybody's destinations are listed; a skipped channel ends the call.
ListEverybody(c, from, to, next, dests) ==
    /\ pc[c] = from /\ to \in on
    /\ todo' = [todo EXCEPT ![c] = {d \in dests : owner[d] # Nobody}]
    /\ pc' = [pc EXCEPT ![c] = to]
    /\ UNCHANGED <<on, owner, user, tied, unlogged, got, since, kept, spoiled>>

ListOrStop(c, from, to, next, dests) ==
    /\ pc[c] = from
    /\ IF to \in on THEN /\ todo' = [todo EXCEPT ![c] = OwnedBy(user[c]) \cap dests]
                        /\ pc' = [pc EXCEPT ![c] = to]
                   ELSE pc' = [pc EXCEPT ![c] = "idle"] /\ UNCHANGED todo
    /\ UNCHANGED <<on, owner, user, tied, unlogged, got, since, kept, spoiled>>

\* A channel that is off, or whose listing fails, is skipped.
List(c, from, to, next, dests) ==
    /\ pc[c] = from
    /\ \/ /\ to \in on
          /\ todo' = [todo EXCEPT ![c] = OwnedBy(user[c]) \cap dests]
          /\ pc' = [pc EXCEPT ![c] = to]
          /\ UNCHANGED spoiled
       \/ /\ to \notin on \/ DbFaults
          /\ pc' = [pc EXCEPT ![c] = next]
          /\ spoiled' = IF to \in on THEN spoiled \cup {c} ELSE spoiled
          /\ UNCHANGED todo
    /\ UNCHANGED <<on, owner, user, tied, unlogged, got, since, kept>>

ListPush(c)  == List(c, "listPush", "push", "listChats", Endpoints)
ListChats(c) == List(c, "listChats", "chats", "idle", Chats)

\* Mutant: no log entry is due.
SendUnlogged(c, d) ==
    /\ pc[c] \in {"push", "chats"} /\ d \in todo[c]
    /\ todo' = [todo EXCEPT ![c] = @ \ {d}]
    /\ got' = [got EXCEPT ![c][d] = "sent"]
    /\ UNCHANGED <<on, owner, pc, user, tied, unlogged, since, kept, spoiled>>

\* Mutant: an error ends the loop.
SendUntilError(c, d) ==
    /\ pc[c] \in {"push", "chats"} /\ unlogged[c] = NoDest
    /\ d \in todo[c]
    /\ \/ /\ d \notin BadChats
          /\ got' = [got EXCEPT ![c][d] = "sent"]
          /\ unlogged' = [unlogged EXCEPT ![c] = IF tied[c] THEN d ELSE NoDest]
          /\ todo' = [todo EXCEPT ![c] = @ \ {d}]
       \/ /\ got' = [got EXCEPT ![c][d] = "failed"] /\ UNCHANGED unlogged
          /\ todo' = [todo EXCEPT ![c] = {}]
    /\ UNCHANGED <<on, owner, pc, user, tied, since, kept, spoiled>>

\* One turn of either loop: the peer takes the message, or the error is
\* logged and the loop goes on.  A bad chat id never gets to the peer.
Send(c, d) ==
    /\ pc[c] \in {"push", "chats"} /\ unlogged[c] = NoDest
    /\ d \in todo[c]
    /\ todo' = [todo EXCEPT ![c] = @ \ {d}]
    /\ \/ /\ d \notin BadChats
          /\ got' = [got EXCEPT ![c][d] = "sent"]
          /\ unlogged' = [unlogged EXCEPT ![c] = IF tied[c] THEN d ELSE NoDest]
       \/ got' = [got EXCEPT ![c][d] = "failed"] /\ UNCHANGED unlogged
    /\ UNCHANGED <<on, owner, pc, user, tied, since, kept, spoiled>>

\* CreateNotificationLog; its error is dropped.
Log(c) ==
    /\ unlogged[c] # NoDest
    /\ unlogged' = [unlogged EXCEPT ![c] = NoDest]
    /\ \/ got' = [got EXCEPT ![c][unlogged[c]] = "logged"] /\ UNCHANGED spoiled
       \/ DbFaults /\ UNCHANGED got /\ spoiled' = spoiled \cup {c}
    /\ UNCHANGED <<on, owner, pc, user, tied, todo, since, kept>>

\* Mutant: a loop is left while something is still to be sent or logged.
LoopLeft(c) ==
    /\ pc[c] \in {"push", "chats"}
    /\ pc' = [pc EXCEPT ![c] = IF pc[c] = "push" THEN "listChats" ELSE "idle"]
    /\ UNCHANGED <<on, owner, user, tied, todo, unlogged, got, since, kept, spoiled>>

LoopDone(c) ==
    /\ pc[c] \in {"push", "chats"} /\ todo[c] = {} /\ unlogged[c] = NoDest
    /\ pc' = [pc EXCEPT ![c] = IF pc[c] = "push" THEN "listChats" ELSE "idle"]
    /\ UNCHANGED <<on, owner, user, tied, todo, unlogged, got, since, kept, spoiled>>

Deliver(c) ==
    ListPush(c) \/ ListChats(c) \/ (\E d \in todo[c] : Send(c, d)) \/ Log(c) \/ LoopDone(c)

\* The process exits and starts again: calls in progress are gone.
Restart ==
    /\ pc' = [c \in Callers |-> "idle"] /\ todo' = [c \in Callers |-> {}]
    /\ unlogged' = [c \in Callers |-> NoDest] /\ got' = [c \in Callers |-> Fresh]
    /\ on' \in SUBSET Channels
    /\ kept' = [c \in Callers |-> {}]
    /\ spoiled' = spoiled \cup {c \in Callers : pc[c] # "idle"}
    /\ UNCHANGED <<owner, user, tied, since>>

Next ==
    \/ \E u \in Users :
          \/ \E e \in Endpoints : WebpushSubscribe(u, e) \/ WebpushUnsubscribe(u, e)
          \/ \E t \in Chats : AddTelegramChat(u, t) \/ DeleteTelegramChat(u, t)
          \/ \E c \in Callers, forSub \in BOOLEAN : SendAll(c, u, forSub)
    \/ \E c \in Callers : Deliver(c)
    \/ Restart

Spec == Init /\ [][Next]_vars

\* A call that was begun goes on: goroutines run and peers answer or fail.
FairSpec == Spec /\ \A c \in Callers : WF_vars(Deliver(c))

-----------------------------------------------------------------------------
(* Properties.                                                             *)

NothingLeftOver ==
    \A c \in Callers :
        pc[c] \notin {"push", "chats"} => todo[c] = {} /\ unlogged[c] = NoDest

\* Types, and what a caller holds outside its two loops.
TypeOK ==
    /\ on \subseteq Channels
    /\ owner \in [Dests -> Users \cup {Nobody}]
    /\ pc \in [Callers -> Places]
    /\ user \in [Callers -> Users]
    /\ tied \in [Callers -> BOOLEAN]
    /\ todo \in [Callers -> SUBSET Dests]
    /\ unlogged \in [Callers -> Dests \cup {NoDest}]
    /\ NothingLeftOver
    /\ got \in [Callers -> [Dests -> Outcomes]]
    /\ since \in [Callers -> SUBSET Dests] /\ kept \in [Callers -> SUBSET Dests]
    /\ spoiled \subseteq Callers

(***************************************************************************)
(* A message reaches only destinations its user had at some moment since   *)
(* the call began: lists are made afresh and per user                      *)
(* (notification.go:55, 98), so what one delivery listed never serves      *)
(* another, though a destination may have changed hands on the way.        *)
(***************************************************************************)
ReachesOwnOnly ==
    \A c \in Callers, d \in Dests : got[c][d] # "none" => d \in since[c]

(***************************************************************************)
(* Delivery log: as long as no statement of a call fails, a message about  *)
(* a subscription is never taken to the next destination before the last   *)
(* delivery is in the log, and a test message never enters it              *)
(* (notification.go:83-89, 117-123).                                       *)
(***************************************************************************)
LogKeepsUp ==
    \A c \in Callers, d \in Dests :
        /\ got[c][d] = "sent" /\ tied[c] /\ c \notin spoiled => unlogged[c] = d
        /\ got[c][d] = "logged" => tied[c]

Reachable(d) == (IF d \in Endpoints THEN "push" ELSE "chats") \in on

(***************************************************************************)
(* A call that returns has done its work (notification.go:45-125): what    *)
(* its user had at its beginning, on a channel that works, was tried, and  *)
(* a message about a subscription that was sent is in the log.  Neither    *)
(* the failure of another destination nor any request of another user      *)
(* comes in between: removing goes by destination and user                 *)
(* (queries.go:134, 172), adding a chat that somebody has does nothing     *)
(* (queries.go:142; TestTelegramChatIsolation), and only a browser goes    *)
(* over to who registers it (queries.go:104).  Excepted are what the user  *)
(* himself removed, and calls of which a list could not be read, a log row *)
(* not be written, or that the end of the process cut off.                 *)
(***************************************************************************)
Settled(c, d) == got[c][d] \in {"failed", IF tied[c] THEN "logged" ELSE "sent"}
ReturnsDone ==
    \A c \in Callers :
        pc[c] = "idle" /\ c \notin spoiled =>
            \A d \in kept[c] : Reachable(d) => Settled(c, d)

(***************************************************************************)
(* One destination's failure is not another's: whatever the user has when  *)
(* the call begins is tried unless it is given up meanwhile, its channel   *)
(* is off, or the list itself cannot be read (notification.go:77-80,       *)
(* 105-115).                                                               *)
(***************************************************************************)
AllAreTried ==
    \A c \in Callers, d \in Dests :
        (pc[c] = "listPush" /\ owner[d] = user[c] /\ Reachable(d))
            ~> (got[c][d] # "none" \/ owner[d] # user[c] \/ c \in spoiled)
=============================================================================
