-------------------------- MODULE QuotaMonitorProofs --------------------------
(***************************************************************************)
(* Theorems about QuotaMonitor, for every value of its constants.          *)
(***************************************************************************)
EXTENDS QuotaMonitor, TLAPS

(***************************************************************************)
(* A snapshot consists of the rows that exist while it is taken.           *)
(***************************************************************************)
LEMMA SnapshotFacts ==
    ASSUME NEW services, NEW users, TypeOK
    PROVE  /\ Snapshot(services, users) \subseteq Tasks
           /\ \A task \in Snapshot(services, users) :
                 task.id \in Live /\ subs[task.id] = task.row
<1>1. ASSUME NEW s \in Live
      PROVE  [id |-> s, row |-> subs[s]] \in Tasks
  BY <1>1 DEF Live, TypeOK, Tasks
<1> QED
  BY <1>1 DEF Snapshot

(***************************************************************************)
(* Upserting an answer keeps the table well formed and touches one row.    *)
(***************************************************************************)
LEMMA SaveFacts ==
    ASSUME TypeOK, NEW job \in Jobs, SaveAnswer(job) \/ SaveFails
    PROVE  /\ usage' \in [Ids -> Levels]
           /\ \A s \in Ids \ {job.task.id} : usage'[s] = usage[s]
<1>1. job.task.id \in Ids /\ job.seen \in Levels
  BY DEF Jobs, Tasks, Levels
<1> QED
  BY <1>1 DEF TypeOK, SaveAnswer, SaveFails, Upsert

LEMMA TypeInit == Init => TypeOK
BY DEF Init, TypeOK, IdleReq, Levels, Answers, Alerts

LEMMA TypeStep == TypeOK /\ [Next]_vars => TypeOK'
<1> SUFFICES ASSUME TypeOK, [Next]_vars PROVE TypeOK'
  OBVIOUS
<1>1. ASSUME NEW u \in Users, NEW sv \in Services, NEW t \in Tokens \cup {NoToken},
             CreateSubscription(u, sv, t)
      PROVE  TypeOK'
  BY <1>1 DEF CreateSubscription, TypeOK, Rows, poll, history
<1>2. ASSUME NEW s \in Ids, NEW sv \in Services, NEW t \in Tokens \cup {NoToken},
             UpdateSubscription(s, sv, t)
      PROVE  TypeOK'
  BY <1>2 DEF UpdateSubscription, TypeOK, Rows, poll, history, Live
<1>3. ASSUME NEW s \in Ids, DeleteSubscription(s) PROVE TypeOK'
  BY <1>3 DEF DeleteSubscription, TypeOK, Levels, poll
<1>4. ASSUME NEW t \in Tokens, NEW a \in Answers \cup {"error"}, ProviderChanges(t, a)
      PROVE  TypeOK'
  BY <1>4 DEF ProviderChanges, TypeOK, poll, db, history
<1>5. CASE Poll
  <2>1. CASE PollTick
    BY <2>1, SnapshotFacts DEF PollTick, TypeOK, db, history
  <2>2. ASSUME NEW task \in pollTodo, PollFetch(task) PROVE TypeOK'
    BY <2>2, NoJobAssumption DEF PollFetch, TypeOK, db, history, Jobs
  <2>3. CASE PollDecide
    BY <2>3 DEF PollDecide, TypeOK, db, Alerts, Jobs, Tasks, Live
  <2>4. CASE PollSave
    BY <2>4, SaveFacts DEF PollSave, TypeOK, CrossedBy, Live
  <2>5. CASE PollEnd
    BY <2>5 DEF PollEnd, TypeOK, db, history
  <2> QED
    BY <1>5, <2>1, <2>2, <2>3, <2>4, <2>5 DEF Poll
<1>6. CASE Refresh
  <2>1. ASSUME NEW q \in Reqs, NEW u \in Users, RefreshStart(q, u) PROVE TypeOK'
    BY <2>1, SnapshotFacts DEF RefreshStart, TypeOK, db, poll, history
  <2>2. ASSUME NEW q \in Reqs, NEW task \in req[q].todo, RefreshFetch(q, task)
        PROVE  TypeOK'
    BY <2>2 DEF RefreshFetch, TypeOK, db, poll, Jobs, history
  <2>3. ASSUME NEW q \in Reqs, RefreshSave(q) PROVE TypeOK'
    BY <2>3, SaveFacts DEF RefreshSave, TypeOK, poll, CrossedBy, Live
  <2>4. ASSUME NEW q \in Reqs, RefreshEnd(q) PROVE TypeOK'
    BY <2>4 DEF RefreshEnd, TypeOK, IdleReq, db, poll, history
  <2> QED
    BY <1>6, <2>1, <2>2, <2>3, <2>4 DEF Refresh
<1>7. CASE Restart
  BY <1>7 DEF Restart, TypeOK, IdleReq, db, CrossedBy, Live
<1>8. CASE UNCHANGED vars
  BY <1>8 DEF vars, db, poll, history, TypeOK
<1> QED
  BY <1>1, <1>2, <1>3, <1>4, <1>5, <1>6, <1>7, <1>8 DEF Next, Owner

(***************************************************************************)
(* Types are kept by every handler, every step of the poll and a restart;  *)
(* in particular pollJob is set exactly while an answer is at hand.        *)
(***************************************************************************)
THEOREM TypeCorrect == Spec => []TypeOK
BY TypeInit, TypeStep, PTL DEF Spec

-----------------------------------------------------------------------------
(***************************************************************************)
(* What the poll and the refreshers hold after a step of theirs, they held *)
(* before or have just read from the table.                                *)
(***************************************************************************)
LEMMA PollHolds ==
    ASSUME TypeOK, Poll
    PROVE  /\ subs' = subs /\ used' = used /\ Live' = Live
           /\ \A task \in Held' :
                 \/ task \in Held
                 \/ task.id \in Live /\ subs[task.id] = task.row
<1> USE DEF Held, HeldByReq, HeldByPoll, TaskOf
<1>1. CASE PollTick
  <2>1. HeldByPoll' = Snapshot(Polled, Users)
    BY <1>1 DEF PollTick, TypeOK
  <2> QED
    BY <1>1, <2>1, SnapshotFacts DEF PollTick, db, Live
<1>2. ASSUME NEW task \in pollTodo, PollFetch(task)
      PROVE  subs' = subs /\ used' = used /\ Live' = Live /\ Held' \subseteq Held
  BY <1>2, NoJobAssumption DEF PollFetch, TypeOK, Jobs, db, Live
<1>3. CASE PollDecide
  BY <1>3 DEF PollDecide, db, Live
<1>4. CASE PollSave
  BY <1>4 DEF PollSave, Live
<1>5. CASE PollEnd
  BY <1>5 DEF PollEnd, db, Live
<1> QED
  BY <1>1, <1>2, <1>3, <1>4, <1>5 DEF Poll

LEMMA RefreshHolds ==
    ASSUME TypeOK, Refresh
    PROVE  /\ subs' = subs /\ used' = used /\ Live' = Live
           /\ \A task \in Held' :
                 \/ task \in Held
                 \/ task.id \in Live /\ subs[task.id] = task.row
<1> USE DEF Held, HeldByReq, HeldByPoll, TaskOf
<1>1. ASSUME NEW q \in Reqs, NEW u \in Users, RefreshStart(q, u)
      PROVE  /\ subs' = subs /\ used' = used /\ Live' = Live
             /\ Held' \subseteq Held \cup Snapshot(Refreshable, {u})
  BY <1>1 DEF RefreshStart, TypeOK, db, poll, Live
<1>2. ASSUME NEW q \in Reqs, NEW task \in req[q].todo, RefreshFetch(q, task)
      PROVE  subs' = subs /\ used' = used /\ Live' = Live /\ Held' \subseteq Held
  BY <1>2, NoJobAssumption DEF RefreshFetch, TypeOK, Jobs, db, poll, Live
<1>3. ASSUME NEW q \in Reqs, RefreshSave(q)
      PROVE  subs' = subs /\ used' = used /\ Live' = Live /\ Held' \subseteq Held
  BY <1>3 DEF RefreshSave, TypeOK, poll, Live
<1>4. ASSUME NEW q \in Reqs, RefreshEnd(q)
      PROVE  subs' = subs /\ used' = used /\ Live' = Live /\ Held' \subseteq Held
  BY <1>4 DEF RefreshEnd, TypeOK, IdleReq, db, poll, Live
<1> QED
  BY <1>1, <1>2, <1>3, <1>4, SnapshotFacts DEF Refresh

(***************************************************************************)
(* The inductive invariant about ids.  SnapshotKeepsOwner alone is not     *)
(* inductive: that a new row cannot take an id somebody still holds rests  *)
(* on NewStartsClean.                                                      *)
(***************************************************************************)
IdsInv == TypeOK /\ SnapshotKeepsOwner /\ NewStartsClean

(***************************************************************************)
(* A step changes the cached quota only of ids that were handed out.       *)
(***************************************************************************)
LEMMA SavesTouchUsed ==
    ASSUME IdsInv, Poll \/ Refresh, NEW s \in Ids \ used
    PROVE  usage'[s] = usage[s] /\ told'[s] = told[s]
<1>1. CASE Poll
  <2>1. pollJob # NoJob => pollJob \in Jobs /\ pollJob.task.id # s
    BY DEF IdsInv, TypeOK, NewStartsClean, Held, HeldByPoll, TaskOf
  <2>2. CASE PollDecide
    BY <2>1, <2>2 DEF PollDecide, IdsInv, TypeOK, db
  <2>3. CASE PollSave
    BY <2>1, <2>3, SaveFacts DEF PollSave, IdsInv, TypeOK
  <2> QED
    BY <1>1, <2>2, <2>3 DEF Poll, PollTick, PollFetch, PollEnd, db, history
<1>2. CASE Refresh
  <2>1. ASSUME NEW q \in Reqs, RefreshSave(q) PROVE usage'[s] = usage[s] /\ told'[s] = told[s]
    <3>1. req[q].job \in Jobs /\ req[q].job.task.id # s
      BY <2>1 DEF RefreshSave, IdsInv, TypeOK, NewStartsClean, Held, HeldByReq, TaskOf
    <3> QED
      BY <2>1, <3>1, SaveFacts DEF RefreshSave, IdsInv
  <2> QED
    BY <1>2, <2>1 DEF Refresh, RefreshStart, RefreshFetch, RefreshEnd, db, history
<1> QED
  BY <1>1, <1>2

LEMMA IdsInvInductive == IdsInv /\ [Next]_vars => IdsInv'
<1> SUFFICES ASSUME IdsInv, [Next]_vars PROVE IdsInv'
  OBVIOUS
<1>0. TypeOK'
  BY TypeStep DEF IdsInv
<1>1. ASSUME NEW u \in Users, NEW sv \in Services, NEW t \in Tokens \cup {NoToken},
             CreateSubscription(u, sv, t)
      PROVE  IdsInv'
  <2>1. PICK s \in Ids \ used :
            /\ subs' = [subs EXCEPT ![s] = [user |-> u, service |-> sv, token |-> t]]
            /\ used' = used \cup {s}
    BY <1>1 DEF CreateSubscription
  <2>2. Held' = Held /\ UNCHANGED <<usage, told>>
    BY <1>1 DEF CreateSubscription, Held, HeldByPoll, HeldByReq, TaskOf, poll, history
  <2>3. \A x \in Ids \ {s} : subs'[x] = subs[x]
    BY <2>1 DEF IdsInv, TypeOK
  <2>4. \A task \in Held : task.id # s
    BY DEF IdsInv, NewStartsClean
  <2>5. SnapshotKeepsOwner'
    BY <2>2, <2>3, <2>4 DEF IdsInv, SnapshotKeepsOwner, Live
  <2>6. NewStartsClean'
    BY <2>1, <2>2, <2>3 DEF IdsInv, NewStartsClean, Live
  <2> QED
    BY <1>0, <2>5, <2>6 DEF IdsInv
<1>2. ASSUME NEW s \in Ids, NEW sv \in Services, NEW t \in Tokens \cup {NoToken},
             UpdateSubscription(s, sv, t)
      PROVE  IdsInv'
  <2>1. /\ Held' = Held /\ UNCHANGED <<used, usage, told>>
        /\ \A x \in Ids : x \in Live' => x \in Live /\ subs'[x].user = subs[x].user
    BY <1>2 DEF UpdateSubscription, Held, HeldByPoll, HeldByReq, TaskOf, poll, history, Live, IdsInv, TypeOK
  <2> QED
    BY <1>0, <2>1 DEF IdsInv, SnapshotKeepsOwner, NewStartsClean, Live
<1>3. ASSUME NEW s \in Ids, DeleteSubscription(s) PROVE IdsInv'
  <2>1. /\ Held' = Held /\ UNCHANGED <<used, told>>
        /\ \A x \in Ids : /\ x \in Live' => x \in Live /\ subs'[x] = subs[x]
                          /\ usage[x] = "absent" => usage'[x] = "absent"
    BY <1>3 DEF DeleteSubscription, Held, HeldByPoll, HeldByReq, TaskOf, poll, Live, IdsInv, TypeOK
  <2> QED
    BY <1>0, <2>1 DEF IdsInv, SnapshotKeepsOwner, NewStartsClean, Live
<1>4. CASE Poll \/ Refresh
  <2>1. /\ subs' = subs /\ used' = used /\ Live' = Live
        /\ \A task \in Held' :
              \/ task \in Held
              \/ task.id \in Live /\ subs[task.id] = task.row
    BY <1>4, PollHolds, RefreshHolds DEF IdsInv
  <2>2. SnapshotKeepsOwner'
    BY <2>1 DEF IdsInv, SnapshotKeepsOwner
  <2>3. NewStartsClean'
    BY <1>4, <2>1, SavesTouchUsed DEF IdsInv, NewStartsClean, Live
  <2> QED
    BY <1>0, <2>2, <2>3 DEF IdsInv
<1>5. CASE Restart
  <2>1. Held' = {} /\ UNCHANGED <<subs, used, usage, told>>
    BY <1>5 DEF Restart, IdleReq, Held, HeldByPoll, HeldByReq, TaskOf, db
  <2> QED
    BY <1>0, <2>1 DEF IdsInv, SnapshotKeepsOwner, NewStartsClean, Live
<1>6. ASSUME NEW t \in Tokens, NEW a \in Answers \cup {"error"}, ProviderChanges(t, a)
      PROVE  IdsInv'
  BY <1>0, <1>6 DEF ProviderChanges, IdsInv, SnapshotKeepsOwner, NewStartsClean,
     Held, HeldByPoll, HeldByReq, TaskOf, Live, db, poll, history
<1>7. CASE UNCHANGED vars
  BY <1>0, <1>7 DEF vars, db, poll, history, IdsInv, SnapshotKeepsOwner, NewStartsClean,
     Held, HeldByPoll, HeldByReq, TaskOf, Live
<1> QED
  BY <1>1, <1>2, <1>3, <1>4, <1>5, <1>6, <1>7 DEF Next, Owner

LEMMA IdsInvInit == Init => IdsInv
BY TypeInit DEF Init, IdsInv, SnapshotKeepsOwner, NewStartsClean, IdleReq,
   Held, HeldByPoll, HeldByReq, TaskOf, Live

(***************************************************************************)
(* The ids' invariant holds throughout.                                    *)
(***************************************************************************)
THEOREM IdsSafe == Spec => []IdsInv
BY IdsInvInit, IdsInvInductive, PTL DEF Spec

(***************************************************************************)
(* No alert and no refresh acts for the wrong owner, in any interleaving   *)
(* with the owner's requests, with failing statements and restarts.        *)
(***************************************************************************)
THEOREM SnapshotsKeepOwner == Spec => []SnapshotKeepsOwner
<1>1. IdsInv => SnapshotKeepsOwner
  BY DEF IdsInv
<1> QED
  BY <1>1, IdsSafe, PTL

(***************************************************************************)
(* A subscription starts without traces of another one.                    *)
(***************************************************************************)
THEOREM NewOnesStartClean == Spec => []NewStartsClean
<1>1. IdsInv => NewStartsClean
  BY DEF IdsInv
<1> QED
  BY <1>1, IdsSafe, PTL
=============================================================================
