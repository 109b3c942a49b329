--------------------------- MODULE QuotaAlertsProofs ---------------------------
(***************************************************************************)
(* The poll implements QuotaAlerts, with refreshes, failing statements and *)
(* exits as its disturbances, and what follows from it.                    *)
(***************************************************************************)
EXTENDS QuotaPromiseProofs

LEMMA ObservedType ==
    ASSUME TypeOK PROVE Observed \in [Ids -> {"free", "blocked"}]
<1>1. pollPc = "save" => pollJob \in Jobs
  BY DEF TypeOK
<1> QED
  BY <1>1 DEF Observed, Stored, Jobs, Answers

LEMMA ObservedTypeNext ==
    ASSUME TypeOK' PROVE Observed' \in [Ids -> {"free", "blocked"}]
<1>1. pollPc' = "save" => pollJob' \in Jobs
  BY DEF TypeOK
<1> QED
  BY <1>1 DEF Observed, Stored, Jobs, Answers

(***************************************************************************)
(* A step that changes the state of at most one id, without an alert or    *)
(* with one of the new state, is a disturbance if it is counted as one, or *)
(* nobody's business if the id has gone.                                   *)
(***************************************************************************)
LEMMA ChangeOfOne ==
    ASSUME NEW s \in Ids, NEW b \in {"free", "blocked"},
           Observed' = [Observed EXCEPT ![s] = b],
           told' \in {told, [told EXCEPT ![s] = b]},
           UNCHANGED <<subs, used>>,
           \/ (disturbed \cup interrupted)' = (disturbed \cup interrupted) \cup {s}
           \/ /\ (disturbed \cup interrupted)' = disturbed \cup interrupted
              /\ s \in used \ Live
    PROVE  A!Disturb(s) \/ A!Forget(s)
<1>1. (used \ Live)' = used \ Live
  BY DEF Live
<1>2. A!Change(s)
  BY DEF A!Change, A!Answers
<1> QED
  BY <1>1, <1>2 DEF A!Disturb, A!Forget

(***************************************************************************)
(* PollDecide makes an observation: the answer counts, and is told if it   *)
(* crosses the line.  If the state could not be read, it is a disturbance. *)
(***************************************************************************)
LEMMA DecideObserves ==
    ASSUME IdsInv, PollDecide
    PROVE  [A!Next]_(A!vars)
<1> DEFINE s == pollJob.task.id
           b == pollJob.seen
<1>1. pollJob \in Jobs /\ s \in Ids /\ s \in used /\ b \in {"free", "blocked"}
  BY JobFacts DEF PollDecide, Answers
<1>2. /\ pollPc = "decide" /\ pollPc' = "save"
      /\ UNCHANGED <<subs, used, usage, pollJob, interrupted>>
  BY DEF PollDecide, db
<1>3. Observed = [x \in Ids |-> Stored(x)] /\ Observed' = [Observed EXCEPT ![s] = b]
  BY <1>1, <1>2 DEF Observed, Stored
<1>4. PICK was \in WasBlocked(s) :
          /\ told' = IF was # (b = "blocked") THEN [told EXCEPT ![s] = b] ELSE told
          /\ disturbed' = IF was # (usage[s] = "blocked")
                          THEN disturbed \cup (Live \cap {s}) ELSE disturbed
  BY DEF PollDecide
<1>5. CASE was = (usage[s] = "blocked")
  <2>1. (Observed[s] # b) <=> (was # (b = "blocked"))
    BY <1>1, <1>3, <1>5 DEF Stored
  <2>2. told' = (IF Observed[s] # b THEN [told EXCEPT ![s] = b] ELSE told)
    BY <1>4, <2>1, Zenon
  <2>3. UNCHANGED <<used \ Live, disturbed \cup interrupted>>
    BY <1>2, <1>4, <1>5 DEF Live
  <2>4. A!Observe(s, b)
    BY <1>3, <2>2, <2>3 DEF A!Observe
  <2> QED
    BY <1>1, <2>4 DEF A!Next, A!Answers
<1>6. CASE was # (usage[s] = "blocked")
  <2>1. disturbed' = disturbed \cup (Live \cap {s})
    BY <1>4, <1>6, Zenon
  <2>2. told' \in {told, [told EXCEPT ![s] = b]}
    BY <1>4
  <2>3. A!Disturb(s) \/ A!Forget(s)
    BY <1>1, <1>2, <1>3, <2>1, <2>2, ChangeOfOne
  <2> QED
    BY <1>1, <2>3 DEF A!Next
<1> QED
  BY <1>5, <1>6

(***************************************************************************)
(* Storing the answer changes nothing that can be observed, unless it      *)
(* fails or its row is gone.                                               *)
(***************************************************************************)
LEMMA SaveIsQuiet ==
    ASSUME IdsInv, PollSave
    PROVE  [A!Next]_(A!vars)
<1>0. PICK s \in Ids : s = pollJob.task.id
  BY JobFacts DEF PollSave
<1>1. pollJob \in Jobs /\ s \in Ids /\ s \in used /\ pollJob.seen \in {"free", "blocked"}
  BY <1>0, JobFacts DEF PollSave, Answers
<1>2. /\ pollPc = "save" /\ pollPc' = "fetch"
      /\ UNCHANGED <<subs, used, told, interrupted>>
  BY DEF PollSave
<1>3. Observed' = [x \in Ids |-> Stored(x)']
  BY <1>2 DEF Observed
<1>4. usage' \in [Ids -> Levels] /\ \A x \in Ids \ {s} : Stored(x)' = Stored(x)
  BY <1>0, <1>1, SaveFacts DEF PollSave, IdsInv, Stored
<1>5. Observed' = [Observed EXCEPT ![s] = Stored(s)']
  BY <1>0, <1>1, <1>2, <1>3, <1>4 DEF Observed
<1>6. Stored(s)' \in {"free", "blocked"} /\ UNCHANGED (used \ Live)
  BY <1>2 DEF Stored, Live
<1>7. CASE Stored(s)' = pollJob.seen /\ UNCHANGED disturbed
  <2>1. Observed' = Observed
    BY <1>0, <1>1, <1>2, <1>5, <1>7 DEF Observed
  <2> QED
    BY <1>2, <1>6, <1>7, <2>1 DEF A!vars
<1>8. CASE s \notin Live
  <2>1. UNCHANGED disturbed
    BY <1>0, <1>8 DEF PollSave, CrossedBy
  <2> QED
    BY <1>1, <1>2, <1>5, <1>6, <1>8, <2>1, ChangeOfOne DEF A!Next
<1>9. CASE s \in Live
  <2>1. CASE SaveAnswer(pollJob) /\ UNCHANGED disturbed
    <3>1. usage' = [usage EXCEPT ![s] = pollJob.seen]
      BY <1>0, <1>9, <2>1 DEF SaveAnswer, Upsert
    <3>2. Stored(s)' = pollJob.seen
      BY <1>1, <3>1 DEF Stored, IdsInv, TypeOK
    <3> QED
      BY <1>7, <2>1, <3>2
  <2>2. CASE SaveFails /\ disturbed' = disturbed \cup CrossedBy(pollJob)
    <3>1. Stored(s)' = Stored(s)
      BY <2>2 DEF SaveFails, Stored
    <3>2. CASE Crosses(pollJob)
      <4>1. disturbed' = disturbed \cup {s}
        BY <1>0, <1>9, <2>2, <3>2 DEF CrossedBy
      <4> QED
        BY <1>1, <1>2, <1>5, <1>6, <4>1, ChangeOfOne DEF A!Next
    <3>3. CASE ~ Crosses(pollJob)
      <4>1. Stored(s)' = pollJob.seen
        BY <1>0, <1>1, <3>1, <3>3 DEF Stored, Crosses
      <4>2. UNCHANGED disturbed
        BY <1>0, <2>2, <3>3 DEF CrossedBy
      <4> QED
        BY <1>7, <4>1, <4>2
    <3> QED
      BY <3>2, <3>3
  <2> QED
    BY <2>1, <2>2 DEF PollSave
<1> QED
  BY <1>8, <1>9

(***************************************************************************)
(* A refresh that stores a crossing disturbs the poll's bookkeeping, and   *)
(* one that stores no crossing is not noticed.                             *)
(***************************************************************************)
LEMMA RefreshDisturbs ==
    ASSUME IdsInv, NEW q \in Reqs, RefreshSave(q)
    PROVE  [A!Next]_(A!vars)
<1>11. req[q].job \in Jobs
  BY DEF RefreshSave, IdsInv, TypeOK
<1>0. PICK s \in Ids, b \in Answers : s = req[q].job.task.id /\ b = req[q].job.seen
  BY <1>11 DEF Jobs, Tasks
<1>1. req[q].job \in Jobs /\ s \in Ids /\ b \in {"free", "blocked"}
  BY <1>11, <1>0 DEF Answers
<1>2. s \in used
  BY <1>0, <1>1 DEF RefreshSave, IdsInv, NewStartsClean, Held, HeldByReq, TaskOf
<1>3. UNCHANGED <<subs, used, told, interrupted, pollPc, pollJob>> /\ UNCHANGED (used \ Live)
  BY DEF RefreshSave, poll, Live
<1>4. usage' \in [Ids -> Levels] /\ \A x \in Ids \ {s} : Stored(x)' = Stored(x)
  BY <1>0, <1>1, SaveFacts DEF RefreshSave, IdsInv, Stored
<1>9. TypeOK'
  BY TypeStep DEF IdsInv, Next, Refresh
<1>5. Observed' = [Observed EXCEPT ![s] = Observed'[s]] /\ Observed'[s] \in {"free", "blocked"}
  <2>1. \A x \in Ids \ {s} : Observed'[x] = Observed[x]
    BY <1>3, <1>4 DEF Observed
  <2> QED
    BY <1>1, <2>1, <1>9, ObservedType, ObservedTypeNext DEF IdsInv
<1>6. CASE Stored(s)' = Stored(s) /\ UNCHANGED disturbed
  <2>1. Observed' = Observed
    BY <1>3, <1>4, <1>6 DEF Observed
  <2> QED
    BY <1>3, <1>6, <2>1 DEF A!vars
<1>7. CASE s \notin Live
  <2>1. UNCHANGED disturbed
    BY <1>0, <1>7 DEF RefreshSave, CrossedBy
  <2> QED
    BY <1>1, <1>2, <1>3, <1>5, <1>7, <2>1, ChangeOfOne DEF A!Next
<1>8. CASE s \in Live /\ SaveAnswer(req[q].job) /\ disturbed' = disturbed \cup CrossedBy(req[q].job)
  <2>1. CASE Crosses(req[q].job)
    <3>1. disturbed' = disturbed \cup {s}
      BY <1>0, <1>8, <2>1 DEF CrossedBy
    <3> QED
      BY <1>1, <1>3, <1>5, <3>1, ChangeOfOne DEF A!Next
  <2>2. CASE ~ Crosses(req[q].job)
    <3>1. usage' = [usage EXCEPT ![s] = b]
      BY <1>0, <1>8 DEF SaveAnswer, Upsert
    <3>2. Stored(s)' = Stored(s)
      BY <1>0, <1>1, <2>2, <3>1 DEF Stored, Crosses, IdsInv, TypeOK
    <3>3. UNCHANGED disturbed
      BY <1>0, <1>8, <2>2 DEF CrossedBy
    <3> QED
      BY <1>6, <3>2, <3>3
  <2> QED
    BY <2>1, <2>2
<1>10. CASE SaveFails /\ UNCHANGED disturbed
  BY <1>6, <1>10 DEF SaveFails, Stored
<1> QED
  BY <1>7, <1>8, <1>10 DEF RefreshSave

(***************************************************************************)
(* An exit between alert and save takes the observation back.              *)
(***************************************************************************)
LEMMA RestartDisturbs ==
    ASSUME IdsInv, Restart
    PROVE  [A!Next]_(A!vars)
<1> DEFINE s == pollJob.task.id
<1>1. UNCHANGED <<subs, used, usage, told, disturbed>> /\ UNCHANGED (used \ Live)
  BY DEF Restart, db, Live
<1>2. Observed' = [x \in Ids |-> Stored(x)]
  BY <1>1 DEF Restart, Observed, Stored
<1>3. CASE pollPc # "save"
  <2>1. Observed' = Observed /\ UNCHANGED interrupted
    BY <1>2, <1>3 DEF Restart, Observed
  <2> QED
    BY <1>1, <2>1 DEF A!vars
<1>4. CASE pollPc = "save"
  <2>1. pollJob \in Jobs /\ s \in Ids /\ s \in used /\ pollJob.seen \in {"free", "blocked"}
    BY <1>4, JobFacts DEF Answers
  <2>2. Observed' = [Observed EXCEPT ![s] = Stored(s)] /\ Stored(s) \in {"free", "blocked"}
    BY <1>2, <1>4, <2>1 DEF Observed, Stored
  <2>3. interrupted' = interrupted \cup CrossedBy(pollJob)
    BY <1>4 DEF Restart
  <2>4. CASE s \in CrossedBy(pollJob)
    <3>1. interrupted' = interrupted \cup {s}
      BY <2>3, <2>4 DEF CrossedBy
    <3> QED
      BY <1>1, <2>1, <2>2, <3>1, ChangeOfOne DEF A!Next
  <2>5. CASE s \notin Live
    <3>1. interrupted' = interrupted
      BY <2>3, <2>5 DEF CrossedBy
    <3> QED
      BY <1>1, <2>1, <2>2, <2>5, <3>1, ChangeOfOne DEF A!Next
  <2>6. CASE s \in Live /\ s \notin CrossedBy(pollJob)
    <3>1. Stored(s) = pollJob.seen /\ UNCHANGED interrupted
      BY <2>1, <2>3, <2>6 DEF CrossedBy, Crosses, Stored
    <3>2. Observed' = Observed
      BY <1>4, <2>1, <2>2, <3>1 DEF Observed
    <3> QED
      BY <1>1, <3>1, <3>2 DEF A!vars
  <2> QED
    BY <2>4, <2>5, <2>6
<1> QED
  BY <1>3, <1>4

(***************************************************************************)
(* Deleting a subscription retires its id.                                 *)
(***************************************************************************)
LEMMA DeleteRetires ==
    ASSUME IdsInv, NEW s \in Ids, DeleteSubscription(s)
    PROVE  A!Retire(s)
<1>1. /\ s \in Live /\ Live' = Live \ {s}
      /\ usage' = IF ForeignKeys THEN [usage EXCEPT ![s] = "absent"] ELSE usage
      /\ disturbed' = disturbed \ {s} /\ interrupted' = interrupted \ {s}
      /\ UNCHANGED <<used, told, pollPc, pollJob>>
  BY DeleteFacts
<1>2. (used \ Live)' = (used \ Live) \cup {s}
  BY <1>1, LiveIsUsed
<1>3. \A x \in Ids \ {s} : Observed'[x] = Observed[x]
  BY <1>1 DEF Observed, Stored, IdsInv, TypeOK
<1>4. Observed' = [Observed EXCEPT ![s] = Observed'[s]] /\ Observed'[s] \in A!Answers
  <2>1. TypeOK'
    BY TypeStep DEF IdsInv, Next
  <2> QED
    BY <1>3, <2>1, ObservedType, ObservedTypeNext DEF IdsInv, A!Answers
<1> QED
  BY <1>1, <1>2, <1>4 DEF A!Retire

(***************************************************************************)
(* Every step of the system is a step of QuotaAlerts or invisible to it.   *)
(***************************************************************************)
LEMMA RefinesStep == IdsInv /\ [Next]_vars => [A!Next]_(A!vars)
<1> SUFFICES ASSUME IdsInv, [Next]_vars PROVE [A!Next]_(A!vars)
  OBVIOUS
<1>1. CASE Owner
  <2>1. (used \ Live)' = used \ Live
    BY <1>1, OwnerStep, LiveIsUsed
  <2>2. Observed' = Observed
    BY <1>1, OwnerStep DEF Observed, Stored
  <2> QED
    BY <1>1, <2>1, <2>2, OwnerStep DEF A!vars, history
<1>2. ASSUME NEW s \in Ids, DeleteSubscription(s) PROVE [A!Next]_(A!vars)
  BY <1>2, DeleteRetires DEF A!Next
<1>3. CASE UNCHANGED <<db, history>> /\ pollPc # "save" /\ pollPc' # "save"
  BY <1>3 DEF A!vars, Observed, Stored, db, history, Live
<1>4. CASE UNCHANGED <<db, history, pollPc, pollJob>>
  BY <1>4 DEF A!vars, Observed, Stored, db, history, Live
<1> QED
  BY <1>1, <1>2, <1>3, <1>4, DecideObserves, SaveIsQuiet, RefreshDisturbs, RestartDisturbs,
     QuietSteps

(***************************************************************************)
(* The poll implements QuotaAlerts, with and without enforced references,  *)
(* for any number of subscriptions, refreshes, failures and restarts.      *)
(***************************************************************************)
THEOREM PollImplementsQuotaAlerts == Spec => ImplementsQuotaAlerts
<1>1. Init => A!Init
  BY DEF Init, A!Init, Observed, Stored, Live
<1> QED
  BY <1>1, RefinesStep, IdsSafe, PTL DEF Spec, A!Spec, ImplementsQuotaAlerts

-----------------------------------------------------------------------------
(***************************************************************************)
(* The promise of QuotaAlerts, proved where it is made: among observations *)
(* and alerts, with no database, poll or process.                          *)
(***************************************************************************)
LEMMA PromiseStep ==
    ASSUME A!TypeOK, A!ToldIsLevel, [A!Next]_(A!vars)
    PROVE  A!TypeOK' /\ A!ToldIsLevel'
<1> USE DEF A!TypeOK, A!ToldIsLevel, A!Answers, A!Alerts
<1>1. ASSUME NEW s \in Ids, NEW b \in A!Answers, A!Observe(s, b)
      PROVE  A!TypeOK' /\ A!ToldIsLevel'
  BY <1>1 DEF A!Observe
<1>2. ASSUME NEW s \in Ids, A!Retire(s) PROVE A!TypeOK' /\ A!ToldIsLevel'
  BY <1>2 DEF A!Retire
<1>3. ASSUME NEW s \in Ids, A!Forget(s) PROVE A!TypeOK' /\ A!ToldIsLevel'
  BY <1>3 DEF A!Forget, A!Change
<1>4. ASSUME NEW s \in Ids, A!Disturb(s) PROVE A!TypeOK' /\ A!ToldIsLevel'
  BY <1>4 DEF A!Disturb, A!Change
<1>5. CASE UNCHANGED A!vars
  BY <1>5 DEF A!vars
<1> QED
  BY <1>1, <1>2, <1>3, <1>4, <1>5 DEF A!Next

THEOREM PromiseIsSound == A!Spec => [](A!TypeOK /\ A!ToldIsLevel)
<1>1. A!Init => A!TypeOK /\ A!ToldIsLevel
  BY DEF A!Init, A!TypeOK, A!ToldIsLevel, A!Answers, A!Alerts
<1> QED
  BY <1>1, PromiseStep, PTL DEF A!Spec

(***************************************************************************)
(* So the system has it too, since it implements QuotaAlerts: the owner of *)
(* a subscription nobody meddled with stands as told what was observed.    *)
(***************************************************************************)
ToldIsObserved ==
    \A s \in Quiet : (told[s] = "blocked") <=> (Observed[s] = "blocked")

LEMMA ToldIsObservedAlways == Spec => []ToldIsObserved
<1>1. TypeOK /\ A!ToldIsLevel => ToldIsObserved
  BY DEF TypeOK, A!ToldIsLevel, ToldIsObserved, Quiet, Live
<1> QED
  BY <1>1, PollImplementsQuotaAlerts, PromiseIsSound, TypeCorrect, PTL
     DEF ImplementsQuotaAlerts

(***************************************************************************)
(* An owner who was told the quota is reached is remembered as such.       *)
(***************************************************************************)
THEOREM PromisesRemembered == Spec => []PromiseRemembered
<1>1. ToldIsObserved => PromiseRemembered
  BY DEF ToldIsObserved, PromiseRemembered, Observed, Stored, Quiet, Live
<1> QED
  BY <1>1, ToldIsObservedAlways, PTL

(***************************************************************************)
(* No alert repeats the one before it and no "unblocked" comes unasked.    *)
(***************************************************************************)
THEOREM AlertsAlternating == Spec => []AlertsAlternate
<1>1. IdsInv /\ ToldIsObserved => AlertsAlternate
  <2> SUFFICES ASSUME IdsInv, ToldIsObserved, pollPc = "decide", Crosses(pollJob),
                      NEW s \in Quiet, s = pollJob.task.id
               PROVE  (told[s] = "blocked") <=> (pollJob.seen = "free")
    BY DEF AlertsAlternate
  <2>1. pollJob.seen \in {"free", "blocked"} /\ s \in Ids
    BY JobFacts DEF Answers
  <2>2. Observed[s] = Stored(s)
    BY <2>1 DEF Observed
  <2> QED
    BY <2>1, <2>2 DEF ToldIsObserved, Stored, Crosses
<1> QED
  BY <1>1, ToldIsObservedAlways, IdsSafe, PTL
=============================================================================
