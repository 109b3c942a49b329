--------------------------- MODULE ProviderAnswers ---------------------------
(***************************************************************************)
(* What FetchUsageInfo of each provider makes of the replies it gets       *)
(* (internal/provider): an error, or the consumption, limit and blocked    *)
(* flag that the poll and the refresh handler store.  Reset dates are left *)
(* out: nothing stores them.                                               *)
(***************************************************************************)
EXTENDS Integers

CONSTANTS
    Absent,     \* "the reply has no such field", and "no answer yet"
    Shares,     \* shares of a limit that are used, in hundredths
    Limits      \* limits, in seconds

ASSUME NumbersAssumption ==
    /\ Shares \subseteq Nat /\ Limits \subseteq Nat
    /\ Absent \notin Shares /\ Absent \notin Limits

\* How a call can end: a full reply, 401 or 403, another bad status or body,
\* or no reply at all.
Endings == {"ok", "denied", "failed", "unreachable"}

NoWindow == [used |-> Absent, limit |-> Absent]
Windows  == [used : Shares \cup {Absent}, limit : Limits \cup {Absent}]

\* An error: the session must be renewed, or anything else.
Relogin == [kind |-> "relogin"]
Failed  == [kind |-> "error"]
Info(current, limit, blocked) ==
    [kind |-> "info", current |-> current, limit |-> limit, blocked |-> blocked]

\* Only a denied call asks for a new login.
AfterCall(ending, answer) ==
    CASE ending = "ok"     -> answer
      [] ending = "denied" -> Relogin
      [] OTHER             -> Failed

-----------------------------------------------------------------------------
(* OpenAI: a primary and a secondary window, each of which may be missing  *)
(* (NoWindow) or lack a field.                                             *)

Reported(field) == field # Absent

Part(share, limit) == (share * limit) \div 100

\* Mutant: a window counts as exhausted only beyond its limit.
ExhaustedBeyond(w) == Reported(w.used) /\ w.used > 100
Exhausted(w) == Reported(w.used) /\ w.used >= 100

LimitOf(w) == IF Reported(w.limit) THEN w.limit ELSE 0
UseOf(w, limit) == IF Reported(w.used) /\ limit > 0 THEN Part(w.used, limit) ELSE 0

\* Mutant: only the window that the metrics come from is asked.
BlockedByMetrics(primary, secondary) ==
    IF UseOf(primary, LimitOf(primary)) > 0 THEN Exhausted(primary) ELSE Exhausted(secondary)

OpenAIBlocked(primary, secondary) ==
    (LimitOf(primary) > 0 /\ Exhausted(primary)) \/ Exhausted(secondary)

\* The secondary window stands in for a limit or a use that is 0.
OpenAIInfo(primary, secondary) ==
    LET limit   == IF LimitOf(primary) > 0 THEN LimitOf(primary) ELSE LimitOf(secondary)
        current == IF UseOf(primary, LimitOf(primary)) > 0
                   THEN UseOf(primary, LimitOf(primary)) ELSE UseOf(secondary, limit)
    IN  Info(current, limit, OpenAIBlocked(primary, secondary))

OpenAIAnswer(r) == AfterCall(r.ending, OpenAIInfo(r.primary, r.secondary))

\* Z.ai: numbers that are not scaled; "no data" is a failed call.
ZaiAnswer(r) ==
    AfterCall(r.ending, Info(r.current, r.limit, r.current >= r.limit /\ r.limit > 0))

\* Google One: a reply without a billing date is a failed call.
GoogleAnswer(r) == AfterCall(r.ending, Info(0, 0, FALSE))

\* Claude: organizations, billing, flags and usage limits, one after another;
\* the last reply only adds percentages that are not stored, so any will do.
ClaudeAnswer(r) ==
    AfterCall(r.calls[1], AfterCall(r.calls[2], AfterCall(r.calls[3],
        IF r.calls[4] = "unreachable" THEN Failed ELSE Info(0, 0, r.flagged))))

-----------------------------------------------------------------------------
VARIABLES
    provider,   \* whom the caller asks
    reply,      \* what its calls return
    answer      \* what FetchUsageInfo returns, or Absent while it runs

vars == <<provider, reply, answer>>

Replies(p) ==
    CASE p = "openai" -> [ending : Endings, primary : Windows, secondary : Windows]
      [] p = "zai"    -> [ending : Endings, current : Limits \cup {0}, limit : Limits]
      [] p = "google" -> [ending : Endings]
      [] p = "claude" -> [calls : [1 .. 4 -> Endings], flagged : BOOLEAN]

Init ==
    /\ provider \in {"openai", "zai", "google", "claude"}
    /\ reply \in Replies(provider)
    /\ answer = Absent

FetchUsageInfo ==
    /\ answer = Absent
    /\ answer' = CASE provider = "openai" -> OpenAIAnswer(reply)
                   [] provider = "zai"    -> ZaiAnswer(reply)
                   [] provider = "google" -> GoogleAnswer(reply)
                   [] provider = "claude" -> ClaudeAnswer(reply)
    /\ UNCHANGED <<provider, reply>>

Spec == Init /\ [][FetchUsageInfo]_vars

Informed == answer # Absent /\ answer.kind = "info"
UsedFurther(w, more) ==
    /\ more.limit = w.limit
    /\ IF Reported(w.used) THEN Reported(more.used) /\ more.used >= w.used
                          ELSE ~ Reported(more.used)

-----------------------------------------------------------------------------
(* Properties.                                                             *)

(***************************************************************************)
(* What is shown as used up counts as blocked: no provider returns a       *)
(* consumption that fills a positive limit without the blocked flag, from  *)
(* whichever windows the two numbers come (openaiprovider.go:117-164,      *)
(* zaiprovider.go:108).                                                    *)
(***************************************************************************)
FullMeansBlocked ==
    Informed /\ answer.limit > 0 /\ answer.current >= answer.limit => answer.blocked

(***************************************************************************)
(* More use never unblocks: had either window of an OpenAI reply been used *)
(* further, a blocked verdict would stand (openaiprovider.go:128-162), so  *)
(* an unblock alert always has a reset behind it.                          *)
(***************************************************************************)
MoreUseStaysBlocked ==
    provider = "openai" /\ Informed /\ answer.blocked =>
        \A more \in Replies("openai") :
            more.ending = "ok" /\ UsedFurther(reply.primary, more.primary)
                               /\ UsedFurther(reply.secondary, more.secondary)
                => OpenAIAnswer(more).blocked

SM == INSTANCE ServiceMatch

\* The names by which the poll finds the four providers.
Name == [claude |-> SM!ProviderNames[1], google |-> SM!ProviderNames[2],
         zai    |-> SM!ProviderNames[3], openai |-> SM!ProviderNames[4]]

(***************************************************************************)
(* The provider that answers a refresh of a service answers its poll too,  *)
(* if the poll knows the service (scheduler.go:101-120,                    *)
(* handlers.go:343-355).                                                   *)
(***************************************************************************)
PathsAgree == SM!PathsAgreeOn(Name[provider])
=============================================================================
