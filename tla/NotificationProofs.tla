-------------------------- MODULE NotificationProofs --------------------------
(***************************************************************************)
(* Theorems about Notification, for any users, destinations and callers.   *)
(***************************************************************************)
EXTENDS Notification, TLAPS

LEMMA TypeInit == Init => TypeOK
BY SettingsAssumption DEF Init, TypeOK, Fresh, Outcomes, Places, NothingLeftOver

\* Noting an outcome keeps the record well formed.
LEMMA NoteOutcome ==
    ASSUME TypeOK, NEW c \in Callers, NEW d \in Dests, NEW o \in Outcomes
    PROVE  [got EXCEPT ![c][d] = o] \in [Callers -> [Dests -> Outcomes]]
<1>1. [got[c] EXCEPT ![d] = o] \in [Dests -> Outcomes]
  BY DEF TypeOK
<1> QED
  BY <1>1 DEF TypeOK

\* A browser or a chat is registered for u.
Registers(u, d) ==
    \/ d \in Endpoints /\ WebpushSubscribe(u, d)
    \/ d \in Chats /\ AddTelegramChat(u, d)

LEMMA TypeStep == TypeOK /\ [Next]_vars => TypeOK'
<1> SUFFICES ASSUME TypeOK, [Next]_vars PROVE TypeOK'
  OBVIOUS
<1> USE DEF TypeOK
<1>1. ASSUME NEW u \in Users, NEW d \in Dests, Registers(u, d) PROVE TypeOK'
  <2>1. kept' \in [Callers -> SUBSET Dests]
    BY <1>1 DEF Registers, WebpushSubscribe, AddTelegramChat, LostTo
  <2>2. Own(u, d)
    BY <1>1 DEF Registers, WebpushSubscribe, AddTelegramChat
  <2> QED
    BY <2>1, <2>2 DEF Own, caller, NothingLeftOver
<1>2. ASSUME NEW u \in Users, NEW d \in Dests, Remove(u, d) PROVE TypeOK'
  BY <1>2 DEF Remove, caller, GivenUp, NothingLeftOver
<1>3. ASSUME NEW c \in Callers, NEW u \in Users, NEW forSub \in BOOLEAN, SendAll(c, u, forSub)
      PROVE  TypeOK'
  <2>1. tied' \in [Callers -> BOOLEAN]
    BY <1>3 DEF SendAll
  <2>2. pc' \in [Callers -> Places] /\ user' \in [Callers -> Users]
    BY <1>3 DEF SendAll, Places
  <2>3. Fresh \in [Dests -> Outcomes] /\ OwnedBy(u) \subseteq Dests
    BY DEF Fresh, Outcomes, OwnedBy
  <2>4. /\ got' \in [Callers -> [Dests -> Outcomes]] /\ since' \in [Callers -> SUBSET Dests]
        /\ kept' \in [Callers -> SUBSET Dests]
    BY <1>3, <2>3 DEF SendAll
  <2>5. /\ on' \subseteq Channels /\ owner' \in [Dests -> Users \cup {Nobody}]
        /\ todo' \in [Callers -> SUBSET Dests] /\ unlogged' \in [Callers -> Dests \cup {NoDest}]
        /\ spoiled' \subseteq Callers
    BY <1>3 DEF SendAll
  <2>6. NothingLeftOver'
    BY <1>3 DEF SendAll, NothingLeftOver
  <2> QED
    BY <2>1, <2>2, <2>4, <2>5, <2>6
<1>4. ASSUME NEW c \in Callers, ListPush(c) \/ ListChats(c) PROVE TypeOK'
  <2>1. /\ UNCHANGED <<on, owner, user, tied, unlogged, got, since, kept>>
        /\ pc' \in [Callers -> Places] /\ spoiled' \subseteq Callers
    BY <1>4 DEF ListPush, ListChats, List, Places
  <2>2. todo' \in [Callers -> SUBSET Dests]
    <3>1. OwnedBy(user[c]) \cap Endpoints \subseteq Dests
          /\ OwnedBy(user[c]) \cap Chats \subseteq Dests
      BY DEF OwnedBy
    <3>2. \/ UNCHANGED todo
          \/ todo' = [todo EXCEPT ![c] = OwnedBy(user[c]) \cap Endpoints]
          \/ todo' = [todo EXCEPT ![c] = OwnedBy(user[c]) \cap Chats]
      BY <1>4 DEF ListPush, ListChats, List
    <3> QED
      BY <3>1, <3>2
  <2>3. NothingLeftOver'
    <3>1. /\ pc[c] \notin {"push", "chats"}
          /\ \A x \in Callers \ {c} : pc'[x] = pc[x] /\ todo'[x] = todo[x]
          /\ pc'[c] \in {"push", "chats"} \/ todo' = todo
      BY <1>4 DEF ListPush, ListChats, List
    <3> QED
      BY <2>1, <3>1 DEF NothingLeftOver
  <2> QED
    BY <2>1, <2>2, <2>3
<1>5. ASSUME NEW c \in Callers, NEW d \in todo[c], Send(c, d) PROVE TypeOK'
  <2>1. d \in Dests
    OBVIOUS
  <2>2. UNCHANGED <<on, owner, pc, user, tied, since, kept, spoiled>> /\ todo' \in [Callers -> SUBSET Dests]
    BY <1>5 DEF Send
  <2>3. got' \in [Callers -> [Dests -> Outcomes]]
    <3>1. {"sent", "failed"} \subseteq Outcomes
      BY DEF Outcomes
    <3>2. [got EXCEPT ![c][d] = "sent"] \in [Callers -> [Dests -> Outcomes]]
      BY <2>1, <3>1, NoteOutcome
    <3>3. [got EXCEPT ![c][d] = "failed"] \in [Callers -> [Dests -> Outcomes]]
      BY <2>1, <3>1, NoteOutcome
    <3>4. got' = [got EXCEPT ![c][d] = "sent"] \/ got' = [got EXCEPT ![c][d] = "failed"]
      BY <1>5 DEF Send
    <3> QED
      BY <3>2, <3>3, <3>4
  <2>4. unlogged' \in [Callers -> Dests \cup {NoDest}]
    BY <1>5, <2>1 DEF Send
  <2>5. NothingLeftOver'
    BY <1>5 DEF Send, NothingLeftOver
  <2> QED
    BY <2>2, <2>3, <2>4, <2>5
<1>6. ASSUME NEW c \in Callers, Log(c) PROVE TypeOK'
  <2>1. "logged" \in Outcomes /\ unlogged[c] \in Dests
    BY <1>6 DEF Log, Outcomes
  <2>2. got' \in [Callers -> [Dests -> Outcomes]]
    <3>1. [got EXCEPT ![c][unlogged[c]] = "logged"] \in [Callers -> [Dests -> Outcomes]]
      BY <2>1, NoteOutcome
    <3>2. got' = [got EXCEPT ![c][unlogged[c]] = "logged"] \/ got' = got
      BY <1>6 DEF Log
    <3> QED
      BY <3>1, <3>2
  <2> QED
    BY <1>6, <2>2 DEF Log, NothingLeftOver
<1>7. ASSUME NEW c \in Callers, LoopDone(c) PROVE TypeOK'
  BY <1>7 DEF LoopDone, Places, NothingLeftOver
<1>8. CASE Restart
  BY <1>8 DEF Restart, Fresh, Outcomes, Places, NothingLeftOver
<1>9. CASE UNCHANGED vars
  BY <1>9 DEF vars, caller, NothingLeftOver
<1> HIDE DEF TypeOK
<1> QED
  BY <1>1, <1>2, <1>3, <1>4, <1>5, <1>6, <1>7, <1>8, <1>9
     DEF Next, Deliver, Registers, WebpushUnsubscribe, DeleteTelegramChat, Dests

(***************************************************************************)
(* The types of Notification.                                              *)
(***************************************************************************)
THEOREM TypeCorrect == Spec => []TypeOK
BY TypeInit, TypeStep, PTL DEF Spec

-----------------------------------------------------------------------------
(***************************************************************************)
(* The invariant behind ReachesOwnOnly and LogKeepsUp, for one caller:     *)
(* what it has listed or tried its user had since the call began, whatever *)
(* the user has now is on that record too, and nothing is left over        *)
(* between two loops.                                                      *)
(***************************************************************************)
CallInv(c) ==
    /\ pc[c] # "idle" => OwnedBy(user[c]) \subseteq since[c]
    /\ todo[c] \subseteq since[c]
    /\ \A d \in Dests : got[c][d] # "none" => d \in since[c]
    /\ pc[c] \in {"idle", "listPush", "listChats"} => todo[c] = {} /\ unlogged[c] = NoDest
    /\ unlogged[c] # NoDest => tied[c] = TRUE /\ got[c][unlogged[c]] = "sent"
    /\ \A d \in Dests :
          /\ got[c][d] = "sent" /\ tied[c] = TRUE /\ c \notin spoiled => unlogged[c] = d
          /\ got[c][d] = "logged" => tied[c] = TRUE

CallsInv == \A c \in Callers : CallInv(c)

(***************************************************************************)
(* A step of one caller leaves the others alone.                           *)
(***************************************************************************)
LEMMA OthersUnchanged ==
    ASSUME TypeOK, NEW c \in Callers, NEW x \in Callers \ {c},
           \/ \E u \in Users, forSub \in BOOLEAN : SendAll(c, u, forSub)
           \/ Deliver(c)
    PROVE  /\ pc'[x] = pc[x] /\ user'[x] = user[x] /\ tied'[x] = tied[x]
           /\ todo'[x] = todo[x] /\ unlogged'[x] = unlogged[x]
           /\ got'[x] = got[x] /\ since'[x] = since[x] /\ owner' = owner
           /\ x \in spoiled' <=> x \in spoiled
BY DEF SendAll, Deliver, ListPush, ListChats, List, Send, Log, LoopDone, TypeOK

LEMMA CallsStep == TypeOK /\ CallsInv /\ [Next]_vars => CallsInv'
<1> SUFFICES ASSUME TypeOK, CallsInv, [Next]_vars, NEW x \in Callers PROVE CallInv(x)'
  BY DEF CallsInv
<1>0. CallInv(x)
  BY DEF CallsInv
<1> USE DEF CallInv
<1>1. ASSUME NEW u \in Users, NEW d \in Dests, Registers(u, d) PROVE CallInv(x)'
  <2>0. Own(u, d)
    BY <1>1 DEF Registers, WebpushSubscribe, AddTelegramChat
  <2>1. UNCHANGED <<pc, user, tied, todo, unlogged, got, spoiled>>
    BY <2>0 DEF Own, caller
  <2>2. since'[x] = IF user[x] = u THEN since[x] \cup {d} ELSE since[x]
    BY <2>0 DEF Own
  <2>3. OwnedBy(user[x])' \subseteq IF user[x] = u THEN OwnedBy(u) \cup {d} ELSE OwnedBy(user[x])
    BY <2>0, <2>1 DEF Own, OwnedBy, TypeOK
  <2> QED
    BY <1>0, <2>1, <2>2, <2>3
<1>2. ASSUME NEW u \in Users, NEW d \in Dests, Remove(u, d) PROVE CallInv(x)'
  <2>1. UNCHANGED <<pc, user, tied, todo, unlogged, got, since, spoiled>>
    BY <1>2 DEF Remove, caller
  <2>2. OwnedBy(user[x])' \subseteq OwnedBy(user[x])
    BY <1>2, <2>1, NobodyAssumption DEF Remove, OwnedBy, TypeOK
  <2> QED
    BY <1>0, <2>1, <2>2
<1>3. ASSUME NEW c \in Callers, NEW u \in Users, NEW forSub \in BOOLEAN, SendAll(c, u, forSub)
      PROVE  CallInv(x)'
  <2>1. CASE x # c
    BY <1>0, <1>3, <2>1, OthersUnchanged DEF OwnedBy
  <2>2. CASE x = c
    <3>1. /\ pc[x] = "idle" /\ user'[x] = u /\ since'[x] = OwnedBy(u) /\ got'[x] = Fresh
          /\ UNCHANGED <<on, owner, todo, unlogged>>
      BY <1>3, <2>2 DEF SendAll, TypeOK
    <3>2. OwnedBy(user[x])' = OwnedBy(u)
      BY <3>1 DEF OwnedBy
    <3>3. \A d \in Dests : Fresh[d] = "none"
      BY DEF Fresh
    <3> QED
      BY <1>0, <3>1, <3>2, <3>3
  <2> QED
    BY <2>1, <2>2
<1>4. ASSUME NEW c \in Callers, Deliver(c), x # c PROVE CallInv(x)'
  BY <1>0, <1>4, OthersUnchanged DEF OwnedBy
<1>5. CASE ListPush(x) \/ ListChats(x)
  <2>1. /\ UNCHANGED <<on, owner, user, tied, unlogged, got, since>>
        /\ pc[x] \in {"listPush", "listChats"}
        /\ todo'[x] \in SUBSET OwnedBy(user[x]) /\ spoiled \subseteq spoiled'
        /\ pc'[x] \in {"idle", "listChats"} => todo'[x] = todo[x]
    BY <1>0, <1>5 DEF ListPush, ListChats, List, TypeOK
  <2>2. pc'[x] \in {"push", "chats", "listChats", "idle"}
    BY <1>5 DEF ListPush, ListChats, List, TypeOK
  <2>3. OwnedBy(user[x])' = OwnedBy(user[x])
    BY <2>1 DEF OwnedBy
  <2> QED
    BY <1>0, <2>1, <2>2, <2>3
<1>6. ASSUME NEW d \in todo[x], Send(x, d) PROVE CallInv(x)'
  <2>1. /\ UNCHANGED <<on, owner, pc, user, tied, since, spoiled>>
        /\ pc[x] \in {"push", "chats"} /\ unlogged[x] = NoDest /\ d \in since[x] /\ d \in Dests
        /\ todo'[x] = todo[x] \ {d}
    BY <1>0, <1>6 DEF Send, TypeOK
  <2>2. OwnedBy(user[x])' = OwnedBy(user[x])
    BY <2>1 DEF OwnedBy
  <2>3. CASE got' = [got EXCEPT ![x][d] = "sent"]
             /\ unlogged' = [unlogged EXCEPT ![x] = IF tied[x] THEN d ELSE NoDest]
    <3>1. got'[x][d] = "sent" /\ \A y \in Dests \ {d} : got'[x][y] = got[x][y]
      BY <2>1, <2>3 DEF TypeOK
    <3>2. unlogged'[x] = IF tied[x] THEN d ELSE NoDest
      BY <2>3 DEF TypeOK
    <3>3. tied[x] = TRUE \/ tied[x] = FALSE
      BY DEF TypeOK
    <3> QED
      BY <1>0, <2>1, <2>2, <3>1, <3>2, <3>3, DestsAssumption
  <2>4. CASE got' = [got EXCEPT ![x][d] = "failed"] /\ unlogged' = unlogged
    <3>1. got'[x][d] = "failed" /\ \A y \in Dests \ {d} : got'[x][y] = got[x][y]
      BY <2>1, <2>4 DEF TypeOK
    <3> QED
      BY <1>0, <2>1, <2>2, <2>4, <3>1
  <2> QED
    BY <1>6, <2>3, <2>4 DEF Send
<1>7. CASE Log(x)
  <2>1. /\ UNCHANGED <<on, owner, pc, user, tied, todo, since>>
        /\ unlogged[x] \in Dests /\ unlogged[x] # NoDest /\ unlogged'[x] = NoDest
        /\ spoiled \subseteq spoiled'
    BY <1>7 DEF Log, TypeOK
  <2>2. OwnedBy(user[x])' = OwnedBy(user[x])
    BY <2>1 DEF OwnedBy
  <2>3. CASE got' = [got EXCEPT ![x][unlogged[x]] = "logged"]
    <3>1. /\ got'[x][unlogged[x]] = "logged"
          /\ \A y \in Dests \ {unlogged[x]} : got'[x][y] = got[x][y]
      BY <2>1, <2>3 DEF TypeOK
    <3> QED
      BY <1>0, <2>1, <2>2, <3>1
  <2>4. CASE got' = got /\ x \in spoiled'
    BY <1>0, <2>1, <2>2, <2>4
  <2> QED
    BY <1>7, <2>3, <2>4 DEF Log
<1>8. CASE LoopDone(x)
  <2>1. /\ UNCHANGED <<on, owner, user, tied, todo, unlogged, got, since, spoiled>>
        /\ pc[x] # "idle" /\ todo[x] = {} /\ unlogged[x] = NoDest
    BY <1>8 DEF LoopDone
  <2>2. OwnedBy(user[x])' = OwnedBy(user[x])
    BY <2>1 DEF OwnedBy
  <2> QED
    BY <1>0, <2>1, <2>2
<1>9. CASE Restart
  <2>1. pc'[x] = "idle" /\ todo'[x] = {} /\ unlogged'[x] = NoDest /\ got'[x] = Fresh
    BY <1>9 DEF Restart
  <2> QED
    BY <2>1 DEF Fresh
<1>10. CASE UNCHANGED vars
  BY <1>0, <1>10 DEF vars, caller, OwnedBy
<1> QED
  BY <1>1, <1>2, <1>3, <1>4, <1>5, <1>6, <1>7, <1>8, <1>9, <1>10
     DEF Next, Deliver, Registers, WebpushUnsubscribe, DeleteTelegramChat, Dests

LEMMA CallsAlways == Spec => [](TypeOK /\ CallsInv)
<1>1. Init => CallsInv
  BY DEF Init, CallsInv, CallInv, Fresh
<1> QED
  BY <1>1, TypeInit, TypeStep, CallsStep, PTL DEF Spec

(***************************************************************************)
(* No message goes where its user never had a destination since the call   *)
(* began, whoever registers, removes or takes over destinations meanwhile. *)
(***************************************************************************)
THEOREM MessagesReachOwnOnly == Spec => []ReachesOwnOnly
<1>1. CallsInv => ReachesOwnOnly
  BY DEF CallsInv, CallInv, ReachesOwnOnly
<1> QED
  BY <1>1, CallsAlways, PTL

(***************************************************************************)
(* The delivery log keeps up with the deliveries.                          *)
(***************************************************************************)
THEOREM TheLogKeepsUp == Spec => []LogKeepsUp
<1>1. TypeOK /\ CallsInv => LogKeepsUp
  BY DEF TypeOK, CallsInv, CallInv, LogKeepsUp
<1> QED
  BY <1>1, CallsAlways, PTL

-----------------------------------------------------------------------------
(***************************************************************************)
(* The invariant behind ReturnsDone, for one caller: of what its user has  *)
(* had all the time, what a loop has not tried is still in its list, and   *)
(* nothing of a channel that is done with is left.  A call that met a      *)
(* failing statement or the end of the process is out of it.               *)
(***************************************************************************)
Tried(c, d) == got[c][d] # "none"

KeptInv(c) ==
    /\ kept[c] \subseteq OwnedBy(user[c])
    /\ c \notin spoiled =>
          /\ \A d \in kept[c] \cap Endpoints :
                /\ pc[c] = "push" => d \in todo[c] \/ Tried(c, d)
                /\ pc[c] \in {"listChats", "chats", "idle"} /\ "push" \in on => Tried(c, d)
          /\ \A d \in kept[c] \cap Chats :
                /\ pc[c] = "chats" => d \in todo[c] \/ Tried(c, d)
                /\ pc[c] = "idle" /\ "chats" \in on => Tried(c, d)

AllKept == \A c \in Callers : KeptInv(c)

\* Where a step of another takes away at most what is no longer counted on, the
\* caller's own record stands.
LEMMA RegistrationsKeep ==
    ASSUME TypeOK, NEW c \in Callers, KeptInv(c), UNCHANGED <<on, caller>>,
           kept'[c] \subseteq kept[c], kept'[c] \subseteq OwnedBy(user[c])'
    PROVE  KeptInv(c)'
BY DEF KeptInv, Tried, caller

\* A chat that is registered was nobody's, so no user loses it: endpoints may
\* go over, and then those who had them count on them no more.
LEMMA RegisteredKeep ==
    ASSUME TypeOK, NEW c \in Callers, KeptInv(c),
           NEW u \in Users, NEW d \in Dests, Registers(u, d)
    PROVE  /\ UNCHANGED <<on, caller>>
           /\ kept'[c] \subseteq kept[c] /\ kept'[c] \subseteq OwnedBy(user[c])'
<1>1. Own(u, d) /\ user' = user
  BY DEF Registers, WebpushSubscribe, AddTelegramChat, Own, caller
<1>2. owner'[d] = u /\ \A x \in Dests \ {d} : owner'[x] = owner[x]
  BY <1>1 DEF Own, TypeOK
<1>3. kept[c] \subseteq {x \in Dests : owner[x] = user[c]} /\ user[c] \in Users
  BY DEF KeptInv, OwnedBy, TypeOK
<1>4. CASE WebpushSubscribe(u, d)
  <2>1. kept'[c] = IF user[c] = u THEN kept[c] ELSE kept[c] \ {d}
    BY <1>4 DEF WebpushSubscribe, LostTo
  <2> QED
    BY <1>1, <1>2, <1>3, <2>1 DEF Own, OwnedBy
<1>5. CASE AddTelegramChat(u, d)
  <2>1. owner[d] = Nobody /\ kept' = kept
    BY <1>5 DEF AddTelegramChat
  <2>2. d \notin kept[c]
    BY <1>3, <2>1, NobodyAssumption
  <2> QED
    BY <1>1, <1>2, <1>3, <2>1, <2>2 DEF Own, OwnedBy
<1> QED
  BY <1>4, <1>5 DEF Registers

\* A user removes only what is his own, and then counts on it no more.
LEMMA RemovedKeep ==
    ASSUME TypeOK, NEW c \in Callers, KeptInv(c),
           NEW u \in Users, NEW d \in Dests, Remove(u, d)
    PROVE  /\ UNCHANGED <<on, caller>>
           /\ kept'[c] \subseteq kept[c] /\ kept'[c] \subseteq OwnedBy(user[c])'
<1>1. owner[d] = u /\ user' = user /\ UNCHANGED <<on, caller>>
  BY DEF Remove, caller
<1>2. \A x \in Dests \ {d} : owner'[x] = owner[x]
  BY DEF Remove, TypeOK
<1>3. kept[c] \subseteq {x \in Dests : owner[x] = user[c]}
  BY DEF KeptInv, OwnedBy
<1>4. kept'[c] = IF user[c] = u THEN kept[c] \ {d} ELSE kept[c]
  BY DEF Remove, GivenUp
<1> QED
  BY <1>1, <1>2, <1>3, <1>4 DEF OwnedBy

LEMMA KeptStep == TypeOK /\ AllKept /\ [Next]_vars => AllKept'
<1> SUFFICES ASSUME TypeOK, AllKept, [Next]_vars, NEW x \in Callers PROVE KeptInv(x)'
  BY DEF AllKept
<1>0. KeptInv(x)
  BY DEF AllKept
<1>1. ASSUME NEW u \in Users, NEW d \in Dests, Registers(u, d) \/ Remove(u, d)
      PROVE  KeptInv(x)'
  BY <1>0, <1>1, RegistrationsKeep, RegisteredKeep, RemovedKeep
<1> USE DEF KeptInv, Tried
<1>2. ASSUME NEW c \in Callers, NEW u \in Users, NEW forSub \in BOOLEAN, SendAll(c, u, forSub)
      PROVE  KeptInv(x)'
  <2>1. CASE x # c
    BY <1>0, <1>2, <2>1, OthersUnchanged DEF OwnedBy, SendAll, TypeOK
  <2>2. CASE x = c
    BY <1>2, <2>2 DEF SendAll, OwnedBy, TypeOK
  <2> QED
    BY <2>1, <2>2
<1>3. ASSUME NEW c \in Callers, Deliver(c) PROVE UNCHANGED <<on, kept, user, owner>>
  BY <1>3 DEF Deliver, ListPush, ListChats, List, Send, Log, LoopDone
<1>4. ASSUME NEW c \in Callers, Deliver(c), x # c PROVE KeptInv(x)'
  BY <1>0, <1>3, <1>4, OthersUnchanged DEF OwnedBy
<1>5. CASE ListPush(x)
  <2>1. OwnedBy(user[x])' = OwnedBy(user[x]) /\ UNCHANGED <<on, got, kept>>
    BY <1>5 DEF ListPush, List, OwnedBy
  <2>2. CASE pc' = [pc EXCEPT ![x] = "push"]
    BY <1>0, <1>5, <2>1, <2>2 DEF ListPush, List, TypeOK
  <2>3. CASE pc' = [pc EXCEPT ![x] = "listChats"]
    BY <1>0, <1>5, <2>1, <2>3 DEF ListPush, List, TypeOK
  <2> QED
    BY <1>5, <2>2, <2>3 DEF ListPush, List
<1>6. CASE ListChats(x)
  <2>1. OwnedBy(user[x])' = OwnedBy(user[x]) /\ UNCHANGED <<on, got, kept>>
    BY <1>6 DEF ListChats, List, OwnedBy
  <2>2. CASE pc' = [pc EXCEPT ![x] = "chats"]
    BY <1>0, <1>6, <2>1, <2>2 DEF ListChats, List, TypeOK
  <2>3. CASE pc' = [pc EXCEPT ![x] = "idle"]
    BY <1>0, <1>6, <2>1, <2>3 DEF ListChats, List, TypeOK
  <2> QED
    BY <1>6, <2>2, <2>3 DEF ListChats, List
<1>7. ASSUME NEW d \in todo[x], Send(x, d) PROVE KeptInv(x)'
  <2>1. OwnedBy(user[x])' = OwnedBy(user[x]) /\ UNCHANGED <<on, kept, pc, spoiled>>
    BY <1>7 DEF Send, OwnedBy
  <2>2. todo'[x] = todo[x] \ {d} /\ d \in Dests
    BY <1>7 DEF Send, TypeOK
  <2>3. got'[x][d] # "none" /\ \A y \in Dests \ {d} : got'[x][y] = got[x][y]
    BY <1>7, <2>2 DEF Send, TypeOK
  <2> QED
    BY <1>0, <2>1, <2>2, <2>3 DEF Dests
<1>8. CASE Log(x)
  <2>1. OwnedBy(user[x])' = OwnedBy(user[x]) /\ UNCHANGED <<on, kept, pc, todo>>
    BY <1>8 DEF Log, OwnedBy
  <2>2. \A y \in Dests : Tried(x, y) => Tried(x, y)'
    BY <1>8 DEF Log, TypeOK
  <2>3. spoiled \subseteq spoiled'
    BY <1>8 DEF Log
  <2> HIDE DEF Tried
  <2> QED
    BY <1>0, <2>1, <2>2, <2>3 DEF Dests
<1>9. CASE LoopDone(x)
  <2>1. OwnedBy(user[x])' = OwnedBy(user[x]) /\ UNCHANGED <<on, kept, todo, got, spoiled>>
    BY <1>9 DEF LoopDone, OwnedBy
  <2>2. /\ todo[x] = {} /\ pc[x] \in {"push", "chats"}
        /\ pc'[x] = IF pc[x] = "push" THEN "listChats" ELSE "idle"
    BY <1>9 DEF LoopDone, TypeOK
  <2> QED
    BY <1>0, <2>1, <2>2
<1>10. CASE Restart
  BY <1>10 DEF Restart
<1>11. CASE UNCHANGED vars
  BY <1>0, <1>11 DEF vars, caller, OwnedBy
<1> QED
  BY <1>1, <1>2, <1>4, <1>5, <1>6, <1>7, <1>8, <1>9, <1>10, <1>11
     DEF Next, Deliver, Registers, WebpushUnsubscribe, DeleteTelegramChat, Dests

(***************************************************************************)
(* A call that returns undisturbed has tried all its user had at its       *)
(* beginning and did not give up or lose to another's registration of the  *)
(* same browser, and logged what it sent about a subscription.             *)
(***************************************************************************)
THEOREM CallsReturnDone == Spec => []ReturnsDone
<1>1. Init => AllKept
  BY DEF Init, AllKept, KeptInv
<1>2. TypeOK /\ CallsInv /\ AllKept => ReturnsDone
  <2> SUFFICES ASSUME TypeOK, CallsInv, AllKept,
                      NEW c \in Callers, pc[c] = "idle", c \notin spoiled,
                      NEW d \in kept[c], Reachable(d)
               PROVE  Settled(c, d)
    BY DEF ReturnsDone
  <2>1. d \in Dests /\ got[c][d] \in Outcomes /\ tied[c] \in BOOLEAN
    BY DEF TypeOK
  <2>2. got[c][d] # "none"
    BY <2>1 DEF AllKept, KeptInv, Tried, Reachable, Dests
  <2>3. /\ got[c][d] = "sent" => tied[c] # TRUE
        /\ got[c][d] = "logged" => tied[c] = TRUE
    BY <2>1, DestsAssumption DEF CallsInv, CallInv
  <2> QED
    BY <2>1, <2>2, <2>3 DEF Settled, Outcomes
<1> QED
  BY <1>1, <1>2, KeptStep, CallsAlways, PTL DEF Spec
=============================================================================
