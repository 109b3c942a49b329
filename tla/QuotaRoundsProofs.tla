-------------------------- MODULE QuotaRoundsProofs --------------------------
(***************************************************************************)
(* What a round of the poll achieves, for any number of subscriptions,     *)
(* accounts, refreshes, failures and restarts.                             *)
(***************************************************************************)
EXTENDS QuotaRounds, QuotaAlertsProofs

(***************************************************************************)
(* Without its history, a behaviour with rounds is one of QuotaMonitor:    *)
(* the invariants proved there may be used here.                           *)
(***************************************************************************)
LEMMA RoundsAreQuotaMonitor == RoundSpec => Spec
<1>1. RoundInit => Init
  BY DEF RoundInit
<1>2. [RoundNext]_roundVars => [Next]_vars
  BY DEF RoundNext, roundVars
<1> QED
  BY <1>1, <1>2, PTL DEF RoundSpec, Spec

-----------------------------------------------------------------------------
(***************************************************************************)
(* What the poll has in hand about a steady subscription is the row as it  *)
(* is and the answer its account gives, so that it cannot spoil later what *)
(* it has stored; and until it has stored it, it still has it in hand.     *)
(***************************************************************************)
JobFor(s) == pollPc \in {"decide", "save"} /\ pollJob.task.id = s
TodoFor(s) == \E task \in pollTodo : task.id = s

InHand(s) ==
    /\ s \in Live /\ subs[s].token \in Tokens /\ AccountOf(s) \in Answers
    /\ \A task \in pollTodo : task.id = s => task.row = subs[s]
    /\ JobFor(s) => pollJob.seen = AccountOf(s)
    /\ TodoFor(s) \/ JobFor(s) \/ usage[s] = AccountOf(s)

RoundInv ==
    /\ pollPc = "idle" => steady = {}
    /\ \A s \in steady : InHand(s)

\* The list of a round holds the rows as they are.
LEMMA RoundBegins ==
    ASSUME TypeOK, PollTick, NEW s \in Answering
    PROVE  InHand(s)'
<1>1. /\ pollTodo' = Snapshot(Polled, Users) /\ pollPc' = "fetch"
      /\ UNCHANGED <<subs, acct, usage>>
  BY DEF PollTick, db
<1>2. PICK task \in pollTodo' : task.id = s /\ acct[task.row.token] \in Answers
  BY DEF Answering
<1>3. s \in Live /\ subs[s] = task.row
  BY <1>1, <1>2, SnapshotFacts
<1>4. subs[s].token # NoToken /\ subs[s] \in Rows
  BY <1>1, <1>2, <1>3 DEF Snapshot, Live, TypeOK
<1>5. subs[s].token \in Tokens
  BY <1>4 DEF Rows
<1>6. \A t \in pollTodo' : t.id = s => t.row = subs[s]
  BY <1>1, SnapshotFacts
<1> QED
  BY <1>1, <1>2, <1>3, <1>5, <1>6 DEF InHand, AccountOf, JobFor, TodoFor, Live

\* A step that leaves a subscription alone keeps what the poll knows of it,
\* or brings it forward.
LEMMA RoundGoesOn ==
    ASSUME IdsInv, NEW s \in Ids, InHand(s), LeftAlone(s), [Next]_vars,
           pollPc # "idle", pollPc' # "idle"
    PROVE  InHand(s)'
<1>0. /\ s \in Live' /\ subs'[s] = subs[s] /\ AccountOf(s)' = AccountOf(s)
      /\ subs[s].token \in Tokens /\ AccountOf(s) \in Answers
  BY DEF LeftAlone, InHand, AccountOf, Live
<1>1. CASE UNCHANGED <<pollPc, pollTodo, pollJob>>
  BY <1>0, <1>1 DEF InHand, LeftAlone, JobFor, TodoFor
<1>2. CASE Poll
  <2>1. ASSUME NEW task \in pollTodo, PollFetch(task) PROVE InHand(s)'
    <3>1. /\ pollTodo' = pollTodo \ {task} /\ usage' = usage
          /\ pollPc = "fetch"
      BY <2>1 DEF PollFetch, db
    <3>2. task.id = s => acct[task.row.token] = AccountOf(s) /\ AccountOf(s) # "error"
      BY <1>0 DEF InHand, AccountOf, Answers
    <3>3. CASE acct[task.row.token] = "error" /\ UNCHANGED <<pollPc, pollJob>>
      BY <1>0, <3>1, <3>2, <3>3 DEF InHand, JobFor, TodoFor
    <3>4. CASE /\ pollPc' = "decide"
               /\ pollJob' = [task |-> task, seen |-> acct[task.row.token]]
      BY <1>0, <3>1, <3>2, <3>4 DEF InHand, JobFor, TodoFor
    <3> QED
      BY <2>1, <3>3, <3>4 DEF PollFetch
  <2>2. CASE PollDecide
    BY <1>0, <2>2 DEF PollDecide, db, InHand, JobFor, TodoFor
  <2>3. CASE PollSave
    <3>1. pollPc = "save" /\ pollPc' = "fetch" /\ pollTodo' = pollTodo
      BY <2>3 DEF PollSave
    <3>2. pollJob \in Jobs /\ (SaveAnswer(pollJob) \/ SaveFails)
      BY <2>3, <3>1, JobFacts DEF PollSave
    <3>3. CASE pollJob.task.id = s
      <4>1. SaveAnswer(pollJob) /\ pollJob.seen = AccountOf(s)
        BY <3>1, <3>3 DEF LeftAlone, InHand, JobFor
      <4>2. usage'[s] = AccountOf(s)
        BY <3>3, <4>1 DEF SaveAnswer, Upsert, InHand, IdsInv, TypeOK
      <4> QED
        BY <1>0, <3>1, <4>2 DEF InHand, JobFor, TodoFor
    <3>4. CASE pollJob.task.id # s
      <4>1. usage'[s] = usage[s]
        BY <3>2, <3>4, SaveFacts DEF IdsInv
      <4> QED
        BY <1>0, <3>1, <3>4, <4>1 DEF InHand, JobFor, TodoFor
    <3> QED
      BY <3>3, <3>4
  <2> QED
    BY <1>2, <2>1, <2>2, <2>3 DEF Poll, PollTick, PollEnd
<1>3. UNCHANGED <<pollPc, pollTodo, pollJob>> \/ Poll \/ Restart
  <2>1. Owner => UNCHANGED <<pollPc, pollTodo, pollJob>>
    BY OwnerStep
  <2> QED
    BY <2>1 DEF Next, DeleteSubscription, ProviderChanges, Refresh, RefreshStart,
       RefreshFetch, RefreshSave, RefreshEnd, vars, poll
<1> QED
  BY <1>1, <1>2, <1>3 DEF Restart

LEMMA RoundStep == IdsInv /\ RoundInv /\ [RoundNext]_roundVars => RoundInv'
<1> SUFFICES ASSUME IdsInv, RoundInv, [RoundNext]_roundVars PROVE RoundInv'
  OBVIOUS
<1>1. CASE RoundNext /\ pollPc' = "idle"
  BY <1>1 DEF RoundNext, RoundInv
<1>2. CASE RoundNext /\ pollPc' # "idle" /\ pollPc = "idle"
  <2>1. PollTick
    BY <1>2, OwnerStep DEF RoundNext, Next, DeleteSubscription, ProviderChanges, Poll, PollFetch,
       PollDecide, PollSave, PollEnd, Refresh, RefreshStart, RefreshFetch, RefreshSave,
       RefreshEnd, Restart, poll
  <2> QED
    BY <1>2, <2>1, RoundBegins DEF RoundNext, RoundInv, IdsInv
<1>3. CASE RoundNext /\ pollPc' # "idle" /\ pollPc # "idle"
  BY <1>3, RoundGoesOn DEF RoundNext, RoundInv, InHand, Live
<1>4. CASE UNCHANGED roundVars
  BY <1>4 DEF roundVars, vars, db, poll, RoundInv, InHand, JobFor, TodoFor, AccountOf, Live
<1> QED
  BY <1>1, <1>2, <1>3, <1>4

LEMMA RoundInvAlways == RoundSpec => [](IdsInv /\ RoundInv)
<1>1. RoundInit => RoundInv
  BY DEF RoundInit, RoundInv
<1>2. RoundSpec => []IdsInv
  BY RoundsAreQuotaMonitor, IdsSafe, PTL
<1> QED
  BY <1>1, <1>2, RoundStep, PTL DEF RoundSpec

LEMMA OverMeansStored == RoundInv /\ RoundOver => \A s \in steady : usage[s] = AccountOf(s)
BY DEF RoundInv, RoundOver, InHand, JobFor, TodoFor

(***************************************************************************)
(* When a round is over, each subscription that it found and nobody        *)
(* meddled with is stored as its account answers: no row is passed by and  *)
(* no older answer of the poll's own comes after a newer one.              *)
(***************************************************************************)
THEOREM RoundsSettle == RoundSpec => []RoundSettles
<1>1. RoundInv => RoundSettles
  BY OverMeansStored DEF RoundSettles
<1> QED
  BY <1>1, RoundInvAlways, PTL

(***************************************************************************)
(* And the owner of such a subscription was last told what the account     *)
(* answers: here the round meets the promise of QuotaAlerts.               *)
(***************************************************************************)
THEOREM RoundsTell == RoundSpec => []RoundTells
<1>1. RoundInv /\ ToldIsObserved => RoundTells
  <2> SUFFICES ASSUME RoundInv, ToldIsObserved, RoundOver, NEW s \in steady \cap Quiet
               PROVE  (told[s] = "blocked") <=> (AccountOf(s) = "blocked")
    BY DEF RoundTells
  <2>1. usage[s] = AccountOf(s) /\ pollPc = "fetch"
    BY OverMeansStored DEF RoundOver
  <2>2. (told[s] = "blocked") <=> (Observed[s] = "blocked")
    BY DEF ToldIsObserved
  <2>3. Observed[s] = Stored(s)
    BY <2>1 DEF Observed, Quiet, Live
  <2> QED
    BY <2>1, <2>2, <2>3 DEF Stored
<1>2. RoundSpec => []ToldIsObserved
  BY RoundsAreQuotaMonitor, ToldIsObservedAlways, PTL
<1> QED
  BY <1>1, <1>2, RoundInvAlways, PTL
=============================================================================
