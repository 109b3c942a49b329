----------------------------- MODULE QuotaRounds -----------------------------
(***************************************************************************)
(* QuotaMonitor with one history more: which subscriptions a round of the  *)
(* poll (service/scheduler.go, pollQuota) found and nobody has meddled     *)
(* with since.  It says what a whole round achieves, from its list to its  *)
(* last save, while requests, refreshes, failing statements and restarts   *)
(* come in between.  The history guards nothing.                           *)
(***************************************************************************)
EXTENDS QuotaMonitor

VARIABLE
    steady      \* history: subscriptions of this round with an account that
                \*   answers, as they were when the round read its list

roundVars == <<vars, steady>>

\* What the account behind a subscription answers right now.
AccountOf(s) == acct[subs[s].token]

\* The rows of the list that was just read whose account answers.
Answering == {task.id : task \in {t \in pollTodo' : acct[t.row.token] \in Answers}}

(***************************************************************************)
(* A step leaves a subscription alone: its owner does not touch the row,   *)
(* the account goes on answering the same, nobody but the poll stores      *)
(* another answer than that, and the poll's own save does not fail.        *)
(***************************************************************************)
LeftAlone(s) ==
    /\ subs'[s] = subs[s]
    /\ acct'[subs[s].token] = AccountOf(s)
    /\ pollPc' = pollPc => usage'[s] \in {usage[s], AccountOf(s)}
    /\ (pollPc = "save" /\ pollPc' # "save" /\ pollJob.task.id = s) => SaveAnswer(pollJob)

RoundInit == Init /\ steady = {}

\* A round begins with its list and ends with its last row, or with the process.
RoundNext ==
    /\ Next
    /\ steady' = IF pollPc' = "idle" THEN {}
                 ELSE IF pollPc = "idle" THEN Answering
                 ELSE {s \in steady : LeftAlone(s)}

RoundSpec == RoundInit /\ [][RoundNext]_roundVars

-----------------------------------------------------------------------------
(* Properties.                                                             *)

RoundOver == pollPc = "fetch" /\ pollTodo = {}

(***************************************************************************)
(* A round passes nobody by: whatever it found in its list and nobody      *)
(* meddled with is stored as its account answers when the round is over,   *)
(* whatever failed for the other rows (scheduler.go:95-174).               *)
(***************************************************************************)
RoundSettles == RoundOver => \A s \in steady : usage[s] = AccountOf(s)

(***************************************************************************)
(* And its owner knows: after the round he stands as told "Your quota has  *)
(* been reached" exactly if that is what the account answers               *)
(* (scheduler.go:153-160), unless a refresh, a failing statement or an     *)
(* exit hid a change from the poll before.                                 *)
(***************************************************************************)
RoundTells ==
    RoundOver => \A s \in steady \cap Quiet :
        (told[s] = "blocked") <=> (AccountOf(s) = "blocked")
=============================================================================
