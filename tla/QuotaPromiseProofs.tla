-------------------------- MODULE QuotaPromiseProofs --------------------------
(***************************************************************************)
(* What the stored quotas owe to alerts, for any number of subscriptions,  *)
(* owners, accounts, refreshes and restarts.                               *)
(***************************************************************************)
EXTENDS QuotaMonitorProofs

(***************************************************************************)
(* A request that creates or edits a row leaves the others as they are,    *)
(* and a new row takes an id that was never handed out.                    *)
(***************************************************************************)
LEMMA OwnerStep ==
    ASSUME IdsInv, Owner
    PROVE  /\ UNCHANGED <<usage, history, pollPc, pollTodo, pollJob>>
           /\ \E s \in Ids :
                 /\ Live' = Live \cup {s}
                 /\ \/ s \in Live /\ used' = used
                    \/ s \notin used /\ used' = used \cup {s}
<1>1. ASSUME NEW u \in Users, NEW sv \in Services, NEW t \in Tokens \cup {NoToken},
             CreateSubscription(u, sv, t), NEW s \in Ids \ used,
             subs' = [subs EXCEPT ![s] = [user |-> u, service |-> sv, token |-> t]]
      PROVE  Live' = Live \cup {s}
  <2>1. [user |-> u, service |-> sv, token |-> t] # NoRow
    BY NoRowAssumption DEF Rows
  <2> QED
    BY <1>1, <2>1 DEF Live, IdsInv, TypeOK
<1>2. ASSUME NEW s \in Ids, NEW sv \in Services, NEW t \in Tokens \cup {NoToken},
             UpdateSubscription(s, sv, t)
      PROVE  Live' = Live \cup {s} /\ s \in Live
  <2>1. subs[s] \in Rows
    BY <1>2 DEF UpdateSubscription, Live, IdsInv, TypeOK
  <2>2. [user |-> subs[s].user, service |-> sv, token |-> t] # NoRow
    BY <2>1, NoRowAssumption DEF Rows
  <2> QED
    BY <1>2, <2>2 DEF UpdateSubscription, Live, IdsInv, TypeOK
<1> QED
  BY <1>1, <1>2 DEF Owner, CreateSubscription, UpdateSubscription, poll

-----------------------------------------------------------------------------
(***************************************************************************)
(* Only a cascade and the two saves change a cached quota, only PollDecide *)
(* sends an alert, and an answer waits to be stored only after PollDecide. *)
(***************************************************************************)
LEMMA QuietSteps ==
    ASSUME [Next]_vars
    PROVE  \/ Owner
           \/ \E s \in Ids : DeleteSubscription(s)
           \/ PollDecide
           \/ PollSave
           \/ \E q \in Reqs : RefreshSave(q)
           \/ Restart
           \/ UNCHANGED <<db, history>> /\ pollPc # "save" /\ pollPc' # "save"
           \/ UNCHANGED <<db, history, pollPc, pollJob>>
<1>1. CASE Refresh
  BY <1>1 DEF Refresh, RefreshStart, RefreshFetch, RefreshEnd, poll
<1>2. CASE Poll
  BY <1>2 DEF Poll, PollTick, PollFetch, PollEnd
<1> QED
  BY <1>1, <1>2 DEF Next, ProviderChanges, vars, poll

(***************************************************************************)
(* The invariant behind FlipsAnnounced: an answer that is about to change  *)
(* the stored state of a quota was announced before.                       *)
(***************************************************************************)
AlertBeforeSave ==
    (pollPc = "save" /\ pollJob.task.id \in Live \ disturbed /\ Crosses(pollJob)) =>
        told[pollJob.task.id] = pollJob.seen

\* What the poll is working on is a row it holds, hence an id that was handed out.
LEMMA JobFacts ==
    ASSUME IdsInv, pollPc \in {"decide", "save"}
    PROVE  /\ pollJob \in Jobs
           /\ pollJob.task.id \in used /\ pollJob.task.id \in Ids
           /\ pollJob.seen \in Answers
<1>1. pollJob \in Jobs /\ pollJob # NoJob
  BY NoJobAssumption DEF IdsInv, TypeOK
<1>2. pollJob.task \in Held
  BY <1>1 DEF Held, HeldByPoll, TaskOf
<1> QED
  BY <1>1, <1>2 DEF IdsInv, NewStartsClean, Jobs, Tasks

\* What deleting a row does to the tables.
LEMMA DeleteFacts ==
    ASSUME IdsInv, NEW s \in Ids, DeleteSubscription(s)
    PROVE  /\ s \in Live /\ Live' = Live \ {s}
           /\ usage' = IF ForeignKeys THEN [usage EXCEPT ![s] = "absent"] ELSE usage
           /\ disturbed' = disturbed \ {s} /\ interrupted' = interrupted \ {s}
           /\ UNCHANGED <<used, told, pollPc, pollJob>>
BY DEF DeleteSubscription, Live, IdsInv, TypeOK, poll

\* What a refresh that stores an answer does to the table and the histories.
LEMMA RefreshFacts ==
    ASSUME IdsInv, NEW q \in Reqs, RefreshSave(q)
    PROVE  /\ usage' \in [Ids -> Levels]
           /\ UNCHANGED <<subs, used, told, interrupted, pollPc, pollJob>>
           /\ disturbed \subseteq disturbed'
           /\ \A s \in Live \ disturbed' : (usage'[s] = "blocked") <=> (usage[s] = "blocked")
<1>1. req[q].job \in Jobs
  BY DEF RefreshSave, IdsInv, TypeOK
<1>2. SaveAnswer(req[q].job) \/ SaveFails
  BY DEF RefreshSave
<1>3. usage' \in [Ids -> Levels] /\ \A s \in Ids \ {req[q].job.task.id} : usage'[s] = usage[s]
  BY <1>1, <1>2, SaveFacts DEF IdsInv
<1>4. disturbed \subseteq disturbed' /\ UNCHANGED <<subs, used, told, interrupted, pollPc, pollJob>>
  BY DEF RefreshSave, poll
<1>5. ASSUME NEW s \in Live \ disturbed', s = req[q].job.task.id
      PROVE  (usage'[s] = "blocked") <=> (usage[s] = "blocked")
  <2>1. CASE SaveFails /\ UNCHANGED disturbed
    BY <2>1 DEF SaveFails
  <2>2. CASE SaveAnswer(req[q].job) /\ disturbed' = disturbed \cup CrossedBy(req[q].job)
    <3>1. ~ Crosses(req[q].job)
      BY <1>5, <2>2 DEF CrossedBy
    <3>2. usage' = [usage EXCEPT ![s] = req[q].job.seen]
      BY <1>5, <2>2 DEF SaveAnswer, Upsert
    <3> QED
      BY <1>5, <3>1, <3>2 DEF Crosses, IdsInv, TypeOK, Live
  <2> QED
    BY <2>1, <2>2 DEF RefreshSave
<1> QED
  BY <1>3, <1>4, <1>5 DEF Live

LEMMA LiveIsUsed == IdsInv => Live \subseteq used /\ used \subseteq Ids
BY DEF IdsInv, TypeOK, NewStartsClean, Live

LEMMA AlertBeforeSaveStep ==
    IdsInv /\ AlertBeforeSave /\ [Next]_vars => AlertBeforeSave'
<1> SUFFICES ASSUME IdsInv, AlertBeforeSave, [Next]_vars,
                    (pollPc = "save")', (pollJob.task.id \in Live \ disturbed)',
                    Crosses(pollJob)'
             PROVE  (told[pollJob.task.id] = pollJob.seen)'
  BY DEF AlertBeforeSave
<1> USE DEF AlertBeforeSave, Crosses
<1>1. CASE Owner
  <2>1. pollPc = "save" /\ pollJob.task.id \in used
    BY <1>1, OwnerStep, JobFacts
  <2>2. pollJob.task.id \in Live
    BY <1>1, <2>1, OwnerStep
  <2> QED
    BY <1>1, <2>1, <2>2, OwnerStep DEF history
<1>2. ASSUME NEW s \in Ids, DeleteSubscription(s)
      PROVE  (told[pollJob.task.id] = pollJob.seen)'
  <2>1. \A x \in Live' : usage'[x] = usage[x] /\ x \in Live /\ x # s
    BY <1>2, DeleteFacts DEF IdsInv, TypeOK, Live
  <2> QED
    BY <1>2, <2>1, DeleteFacts
<1>3. CASE PollDecide
  <2> DEFINE s == pollJob.task.id
  <2>1. s \in Live /\ UNCHANGED <<usage, pollJob>>
    BY <1>3 DEF PollDecide, db, Live
  <2>2. PICK was \in WasBlocked(s) :
            /\ told' = IF was # (pollJob.seen = "blocked")
                       THEN [told EXCEPT ![s] = pollJob.seen] ELSE told
            /\ disturbed' = IF was # (usage[s] = "blocked")
                            THEN disturbed \cup (Live \cap {s}) ELSE disturbed
    BY <1>3 DEF PollDecide
  <2>3. was = (usage[s] = "blocked")
    BY <2>1, <2>2
  <2> QED
    BY <2>1, <2>2, <2>3 DEF IdsInv, TypeOK, Live
<1>4. CASE PollSave
  BY <1>4 DEF PollSave
<1>5. CASE Restart
  BY <1>5 DEF Restart
<1>6. ASSUME NEW q \in Reqs, RefreshSave(q)
      PROVE  (told[pollJob.task.id] = pollJob.seen)'
  BY <1>6, RefreshFacts DEF Live
<1> QED
  BY <1>1, <1>2, <1>3, <1>4, <1>5, <1>6, QuietSteps DEF db, history, Live

(***************************************************************************)
(* No crossing of a stored quota goes unannounced unless somebody else     *)
(* made it, however often the process restarts and the owner edits.        *)
(***************************************************************************)
THEOREM EveryFlipAnnounced == Spec => FlipsAnnounced
<1>1. Init => AlertBeforeSave
  BY DEF Init, AlertBeforeSave
<1>2. IdsInv /\ AlertBeforeSave /\ [Next]_vars => [FlipIsAnnounced]_vars
  <2> SUFFICES ASSUME IdsInv, AlertBeforeSave, [Next]_vars,
                      NEW s \in (Live \cap Live') \ disturbed',
                      (usage[s] = "blocked") # (usage'[s] = "blocked")
               PROVE  told'[s] = usage'[s]
    BY DEF FlipIsAnnounced
  <2>1. s \in Ids
    BY DEF Live
  <2>2. PollSave
    BY <2>1, QuietSteps, OwnerStep, DeleteFacts, RefreshFacts
       DEF db, PollDecide, Restart, IdsInv, TypeOK
  <2>3. pollJob \in Jobs /\ pollPc = "save" /\ told' = told /\ disturbed \subseteq disturbed'
    BY <2>2, JobFacts DEF PollSave
  <2>4. SaveAnswer(pollJob) \/ SaveFails
    BY <2>2 DEF PollSave
  <2>5. s = pollJob.task.id /\ usage'[s] = pollJob.seen
    BY <2>1, <2>3, <2>4, SaveFacts DEF SaveFails, SaveAnswer, Upsert, IdsInv, TypeOK
  <2> QED
    BY <2>3, <2>5 DEF AlertBeforeSave, Crosses
<1> QED
  BY <1>1, <1>2, AlertBeforeSaveStep, IdsSafe, PTL DEF Spec, FlipsAnnounced
=============================================================================
