----------------------------- MODULE QuotaAlerts -----------------------------
(***************************************************************************)
(* What the quota poll promises the owner of a subscription, without the   *)
(* database, the snapshot or the steps of service/scheduler.go: each time  *)
(* an observation crosses the line between usable and blocked, the owner   *)
(* is told of that crossing, once, and of nothing else.  Only what         *)
(* somebody else did to a subscription's state is beyond the promise.      *)
(***************************************************************************)
EXTENDS Naturals

CONSTANT Ids            \* subscriptions

VARIABLES level,        \* the last observation of a subscription's quota
          told,         \* the last alert its owner was sent
          gone,         \* subscriptions that were deleted
          disturbed     \* subscriptions whose state others have changed

vars == <<level, told, gone, disturbed>>

Answers == {"free", "blocked"}
Alerts  == Answers \cup {"nothing"}

Init ==
    /\ level = [s \in Ids |-> "free"]
    /\ told = [s \in Ids |-> "nothing"]
    /\ gone = {} /\ disturbed = {}

\* The subscription is seen in state b; a crossing is announced.
Observe(s, b) ==
    /\ told' = IF level[s] # b THEN [told EXCEPT ![s] = b] ELSE told
    /\ level' = [level EXCEPT ![s] = b]
    /\ UNCHANGED <<gone, disturbed>>

\* The subscription is deleted, with or without what was observed of it.
Retire(s) ==
    /\ gone' = gone \cup {s} /\ disturbed' = disturbed \ {s}
    /\ \E b \in Answers : level' = [level EXCEPT ![s] = b]
    /\ UNCHANGED told

\* The state changes in a way that the poll does not decide on.
Change(s) ==
    \E b \in Answers :
        /\ level' = [level EXCEPT ![s] = b]
        /\ told' \in {told, [told EXCEPT ![s] = b]}

\* Nothing is promised about what a deleted subscription left behind, ...
Forget(s) ==
    /\ s \in gone
    /\ Change(s)
    /\ UNCHANGED <<gone, disturbed>>

\* ... nor after somebody else changed a state, or hid it from the poll.
Disturb(s) ==
    /\ disturbed' = disturbed \cup {s}
    /\ Change(s)
    /\ UNCHANGED gone

Next ==
    \E s \in Ids :
        \/ \E b \in Answers : Observe(s, b)
        \/ Retire(s)
        \/ Forget(s)
        \/ Disturb(s)

Spec == Init /\ [][Next]_vars

TypeOK ==
    /\ level \in [Ids -> Answers]
    /\ told \in [Ids -> Alerts]
    /\ gone \subseteq Ids /\ disturbed \subseteq Ids

(***************************************************************************)
(* The owner of a subscription that still exists and was left alone stands *)
(* as told "quota reached" exactly while the last observation is blocked:  *)
(* no alert is repeated, none is skipped (the two messages of              *)
(* scheduler.go:153-160 alternate).                                        *)
(***************************************************************************)
ToldIsLevel ==
    \A s \in Ids \ (gone \cup disturbed) : (told[s] = "blocked") <=> (level[s] = "blocked")
=============================================================================
