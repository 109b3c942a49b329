------------------------ MODULE ProviderAnswersProofs ------------------------
(* Theorems about ProviderAnswers, for any shares and limits.              *)
EXTENDS ProviderAnswers, Sequences, TLAPS

Providers == {"openai", "zai", "google", "claude"}

AnswerTo(p, r) ==
    CASE p = "openai" -> OpenAIAnswer(r)
      [] p = "zai"    -> ZaiAnswer(r)
      [] p = "google" -> GoogleAnswer(r)
      [] p = "claude" -> ClaudeAnswer(r)

\* An answer is the answer to the reply that was drawn.
AnswerInv ==
    /\ provider \in Providers
    /\ reply \in Replies(provider)
    /\ answer # Absent => answer = AnswerTo(provider, reply)

LEMMA AnswerInvariant == Spec => []AnswerInv
<1>1. Init => AnswerInv
  BY DEF Init, AnswerInv, Providers
<1>2. AnswerInv /\ [FetchUsageInfo]_vars => AnswerInv'
  BY DEF AnswerInv, FetchUsageInfo, AnswerTo, vars
<1> QED
  BY <1>1, <1>2, PTL DEF Spec

-----------------------------------------------------------------------------
(* The windows of OpenAI.                                                  *)

\* A share below 100 of a positive limit is below the limit, rounded or not.
LEMMA PartBelow ==
  ASSUME NEW share \in Nat, NEW limit \in Nat, limit > 0, Part(share, limit) >= limit
  PROVE  share >= 100
<1> SUFFICES ASSUME share < 100 PROVE FALSE
  OBVIOUS
<1>1. share * limit < 100 * limit
  <2>1. (100 - share) * limit > 0
    OBVIOUS
  <2> QED
    BY <2>1
<1>2. \A n \in Nat : n < 100 * limit => n \div 100 < limit
  OBVIOUS
<1>3. share * limit \in Nat
  OBVIOUS
<1> QED
  BY <1>1, <1>2, <1>3 DEF Part

LEMMA ReportedIsNumber ==
  ASSUME NEW w \in Windows, Reported(w.used)
  PROVE  w.used \in Nat
<1>1. w.used \in Shares \cup {Absent}
  BY DEF Windows
<1> QED
  BY <1>1, NumbersAssumption DEF Reported

\* The use that a window gives fills a limit only if its share does.
LEMMA FullWindow ==
  ASSUME NEW w \in Windows, NEW limit \in Nat, limit > 0, UseOf(w, limit) >= limit
  PROVE  Exhausted(w)
<1>1. Reported(w.used) /\ UseOf(w, limit) = Part(w.used, limit)
  BY DEF UseOf
<1>2. w.used \in Nat
  BY <1>1, ReportedIsNumber
<1> QED
  BY <1>1, <1>2, PartBelow DEF Exhausted

LEMMA LimitIsNumber == ASSUME NEW w \in Windows PROVE LimitOf(w) \in Nat
  BY NumbersAssumption DEF Windows, LimitOf, Reported

LEMMA OpenAIFull ==
  ASSUME NEW primary \in Windows, NEW secondary \in Windows,
         OpenAIInfo(primary, secondary).limit > 0,
         OpenAIInfo(primary, secondary).current >= OpenAIInfo(primary, secondary).limit
  PROVE  OpenAIBlocked(primary, secondary)
<1> DEFINE limit == IF LimitOf(primary) > 0 THEN LimitOf(primary) ELSE LimitOf(secondary)
           first == UseOf(primary, LimitOf(primary))
<1>1. limit \in Nat /\ LimitOf(primary) \in Nat
  BY LimitIsNumber
<1>2. /\ limit > 0
      /\ (IF first > 0 THEN first ELSE UseOf(secondary, limit)) >= limit
  BY DEF OpenAIInfo, Info
<1>3. CASE first > 0
  <2>1. LimitOf(primary) > 0
    BY <1>3, <1>1 DEF UseOf
  <2> QED
    BY <1>1, <1>2, <1>3, <2>1, FullWindow DEF OpenAIBlocked
<1>4. CASE ~ (first > 0)
  <2> HIDE DEF limit, first
  <2> QED
    BY <1>1, <1>2, <1>4, FullWindow DEF OpenAIBlocked
<1> QED
  BY <1>3, <1>4

LEMMA UsedFurtherExhausts ==
  ASSUME NEW w \in Windows, NEW more \in Windows, UsedFurther(w, more), Exhausted(w)
  PROVE  Exhausted(more)
<1>1. /\ Reported(w.used) /\ w.used >= 100
      /\ Reported(more.used) /\ more.used >= w.used
  BY DEF UsedFurther, Exhausted
<1>2. w.used \in Nat /\ more.used \in Nat
  BY <1>1, ReportedIsNumber
<1> QED
  BY <1>1, <1>2 DEF Exhausted

-----------------------------------------------------------------------------
(* The verdicts.                                                           *)

LEMMA OnlyOkInforms ==
  ASSUME NEW ending, NEW a, AfterCall(ending, a).kind = "info"
  PROVE  ending = "ok" /\ AfterCall(ending, a) = a
  BY DEF AfterCall, Relogin, Failed

\* No provider returns a consumption that fills a positive limit without the
\* blocked flag (openaiprovider.go:117-164, zaiprovider.go:108).
THEOREM FullIsBlocked == Spec => []FullMeansBlocked
<1>1. ASSUME AnswerInv, Informed, answer.limit > 0, answer.current >= answer.limit
      PROVE  answer.blocked
  <2>1. answer = AnswerTo(provider, reply) /\ answer.kind = "info"
    BY <1>1 DEF AnswerInv, Informed
  <2>2. CASE provider = "openai"
    <3>1. answer = OpenAIAnswer(reply) /\ reply.primary \in Windows /\ reply.secondary \in Windows
      BY <1>1, <2>1, <2>2 DEF AnswerTo, AnswerInv, Replies
    <3>2. answer = OpenAIInfo(reply.primary, reply.secondary)
      BY <2>1, <3>1, OnlyOkInforms DEF OpenAIAnswer
    <3>3. OpenAIBlocked(reply.primary, reply.secondary)
      BY <1>1, <3>1, <3>2, OpenAIFull
    <3> QED
      BY <3>2, <3>3 DEF OpenAIInfo, Info
  <2>3. CASE provider = "zai"
    <3>1. answer = ZaiAnswer(reply)
      BY <2>1, <2>3 DEF AnswerTo
    <3>2. answer = Info(reply.current, reply.limit,
                        reply.current >= reply.limit /\ reply.limit > 0)
      BY <2>1, <3>1, OnlyOkInforms DEF ZaiAnswer
    <3> QED
      BY <1>1, <3>2 DEF Info
  <2>4. CASE provider = "google"
    <3>1. answer = Info(0, 0, FALSE)
      BY <2>1, <2>4, OnlyOkInforms DEF AnswerTo, GoogleAnswer
    <3> QED
      BY <1>1, <3>1 DEF Info
  <2>5. CASE provider = "claude"
    <3>1. answer = ClaudeAnswer(reply)
      BY <2>1, <2>5 DEF AnswerTo
    <3>2. answer = Info(0, 0, reply.flagged)
      BY <2>1, <3>1 DEF ClaudeAnswer, AfterCall, Relogin, Failed
    <3> QED
      BY <1>1, <3>2 DEF Info
  <2> QED
    BY <1>1, <2>2, <2>3, <2>4, <2>5 DEF AnswerInv, Providers
<1>2. AnswerInv => FullMeansBlocked
  BY <1>1 DEF FullMeansBlocked
<1> QED
  BY AnswerInvariant, <1>2, PTL

\* A blocked verdict on an OpenAI account stands for every reply in which the
\* windows are used further (openaiprovider.go:128-162).
THEOREM MoreUseBlocks == Spec => []MoreUseStaysBlocked
<1>1. ASSUME AnswerInv, provider = "openai", Informed, answer.blocked,
             NEW more \in Replies("openai"), more.ending = "ok",
             UsedFurther(reply.primary, more.primary),
             UsedFurther(reply.secondary, more.secondary)
      PROVE  OpenAIAnswer(more).blocked
  <2>1. /\ answer = OpenAIAnswer(reply) /\ answer.kind = "info"
        /\ reply.primary \in Windows /\ reply.secondary \in Windows
        /\ more.primary \in Windows /\ more.secondary \in Windows
    BY <1>1 DEF AnswerInv, Informed, AnswerTo, Replies
  <2>2. answer = OpenAIInfo(reply.primary, reply.secondary)
    BY <2>1, OnlyOkInforms DEF OpenAIAnswer
  <2>3. OpenAIBlocked(reply.primary, reply.secondary)
    BY <1>1, <2>2 DEF OpenAIInfo, Info
  <2>4. LimitOf(more.primary) = LimitOf(reply.primary)
    BY <1>1 DEF UsedFurther, LimitOf, Reported
  <2>5. OpenAIBlocked(more.primary, more.secondary)
    BY <1>1, <2>1, <2>3, <2>4, UsedFurtherExhausts DEF OpenAIBlocked
  <2> QED
    BY <1>1, <2>5 DEF OpenAIAnswer, AfterCall, OpenAIInfo, Info
<1>2. AnswerInv => MoreUseStaysBlocked
  BY <1>1 DEF MoreUseStaysBlocked
<1> QED
  BY AnswerInvariant, <1>2, PTL

-----------------------------------------------------------------------------
(* Which provider answers for a service.                                   *)

\* What is contained in a name brings no fragment of its own.
LEMMA PartHasNothingNew ==
  ASSUME NEW S, NEW s \in Seq(S), NEW t, SM!HasPart(s, t), NEW i \in 1 .. Len(t)
  PROVE  \E j \in 1 .. Len(s) : s[j] = t[i]
<1>1. PICK a \in 0 .. Len(s), b \in 0 .. Len(s) : t = SubSeq(s, a + 1, b)
  BY DEF SM!HasPart, SM!SubSeqs
<1>2. Len(s) \in Nat
  OBVIOUS
<1>3. i \in 1 .. b - a /\ t[i] = s[a + i]
  BY <1>1, <1>2
<1> QED
  BY <1>2, <1>3

\* All that tells the names apart: how one begins, and what else is in it.
Fragments == {"claude", "google", " ", "one", "z", ".", "ai", "open", "other"}

Named(x, first, all) ==
    /\ x \in Seq(Fragments) /\ Len(x) >= 1
    /\ x[1] = first
    /\ \A j \in 1 .. Len(x) : x[j] \in all

LEMMA NamedThree ==
  ASSUME NEW a \in Fragments, NEW b \in Fragments, NEW c \in Fragments
  PROVE  Named(<<a, b, c>>, a, {a, b, c})
  BY DEF Named

\* Two names of which neither has the other's beginning have nothing to match.
Meet(x, y) == \E j \in 1 .. Len(x) : x[j] = y[1]

LEMMA NamesMeet ==
  ASSUME NEW x, NEW y, NEW f, NEW g, NEW a, NEW b,
         Named(x, f, a), Named(y, g, b), Meet(x, y) \/ Meet(y, x)
  PROVE  f \in b \/ g \in a
  BY DEF Named, Meet

LEMMA FourInARow ==
  ASSUME NEW a, NEW b, NEW c, NEW d
  PROVE  LET q == <<a, b, c, d>> IN
         DOMAIN q = 1 .. 4 /\ q[1] = a /\ q[2] = b /\ q[3] = c /\ q[4] = d
  OBVIOUS

LEMMA ProvidersNamed ==
  /\ DOMAIN SM!ProviderNames = 1 .. 4
  /\ Named(SM!ProviderNames[1], "claude", {"claude"})
  /\ Named(SM!ProviderNames[2], "google", {"google", " ", "one"})
  /\ Named(SM!ProviderNames[3], "z", {"z", ".", "ai"})
  /\ Named(SM!ProviderNames[4], "open", {"open", "ai"})
<1>0. DOMAIN SM!ProviderNames = 1 .. 4
  BY FourInARow DEF SM!ProviderNames
<1>1. Named(SM!ProviderNames[1], "claude", {"claude"})
  <2>1. SM!ProviderNames[1] = <<"claude">>
    BY FourInARow, Zenon DEF SM!ProviderNames
  <2>2. Named(<<"claude">>, "claude", {"claude"})
    BY DEF Named, Fragments
  <2> QED
    BY <2>1, <2>2
<1>2. Named(SM!ProviderNames[2], "google", {"google", " ", "one"})
  <2>1. SM!ProviderNames[2] = <<"google", " ", "one">>
    BY FourInARow, Zenon DEF SM!ProviderNames
  <2>2. Named(<<"google", " ", "one">>, "google", {"google", " ", "one"})
    BY NamedThree DEF Fragments
  <2> QED
    BY <2>1, <2>2
<1>3. Named(SM!ProviderNames[3], "z", {"z", ".", "ai"})
  <2>1. SM!ProviderNames[3] = <<"z", ".", "ai">>
    BY FourInARow, Zenon DEF SM!ProviderNames
  <2>2. Named(<<"z", ".", "ai">>, "z", {"z", ".", "ai"})
    BY DEF Named, Fragments
  <2> QED
    BY <2>1, <2>2
<1>4. Named(SM!ProviderNames[4], "open", {"open", "ai"})
  <2>1. SM!ProviderNames[4] = <<"open", "ai">>
    BY FourInARow, Zenon DEF SM!ProviderNames
  <2>2. Named(<<"open", "ai">>, "open", {"open", "ai"})
    BY DEF Named, Fragments
  <2> QED
    BY <2>1, <2>2
<1> QED
  BY <1>0, <1>1, <1>2, <1>3, <1>4

LEMMA ServicesNamed ==
  /\ Named(SM!ServiceName["claude"], "claude", {"claude"})
  /\ Named(SM!ServiceName["openai"], "open", {"open", "ai"})
  /\ Named(SM!ServiceName["googleone"], "google", {"google", "one"})
  /\ Named(SM!ServiceName["zai"], "z", {"z", "ai"})
<1>1. Named(SM!ServiceName["claude"], "claude", {"claude"})
  <2>1. SM!ServiceName["claude"] = <<"claude">>
    BY DEF SM!ServiceName
  <2>2. Named(<<"claude">>, "claude", {"claude"})
    BY DEF Named, Fragments
  <2> QED
    BY <2>1, <2>2
<1>2. Named(SM!ServiceName["openai"], "open", {"open", "ai"})
  <2>1. SM!ServiceName["openai"] = <<"open", "ai">>
    BY DEF SM!ServiceName
  <2>2. Named(<<"open", "ai">>, "open", {"open", "ai"})
    BY DEF Named, Fragments
  <2> QED
    BY <2>1, <2>2
<1>3. Named(SM!ServiceName["googleone"], "google", {"google", "one"})
  <2>1. SM!ServiceName["googleone"] = <<"google", "one">>
    BY DEF SM!ServiceName
  <2>2. Named(<<"google", "one">>, "google", {"google", "one"})
    BY DEF Named, Fragments
  <2> QED
    BY <2>1, <2>2
<1>4. Named(SM!ServiceName["zai"], "z", {"z", "ai"})
  <2>1. SM!ServiceName["zai"] = <<"z", "ai">>
    BY DEF SM!ServiceName
  <2>2. Named(<<"z", "ai">>, "z", {"z", "ai"})
    BY DEF Named, Fragments
  <2> QED
    BY <2>1, <2>2
<1> QED
  BY <1>1, <1>2, <1>3, <1>4

LEMMA SwitchNames ==
  /\ SM!RefreshSwitch["claude"] = SM!ProviderNames[1]
  /\ SM!RefreshSwitch["googleone"] = SM!ProviderNames[2]
  /\ SM!RefreshSwitch["zai"] = SM!ProviderNames[3]
  /\ SM!RefreshSwitch["openai"] = SM!ProviderNames[4]
<1>1. SM!RefreshSwitch["claude"] = <<"claude">> /\ SM!ProviderNames[1] = <<"claude">>
  <2>1. SM!RefreshSwitch["claude"] = <<"claude">>
    BY DEF SM!RefreshSwitch
  <2>2. SM!ProviderNames[1] = <<"claude">>
    BY FourInARow, Zenon DEF SM!ProviderNames
  <2> QED
    BY <2>1, <2>2
<1>2. SM!RefreshSwitch["googleone"] = <<"google", " ", "one">> /\ SM!ProviderNames[2] = <<"google", " ", "one">>
  <2>1. SM!RefreshSwitch["googleone"] = <<"google", " ", "one">>
    BY DEF SM!RefreshSwitch
  <2>2. SM!ProviderNames[2] = <<"google", " ", "one">>
    BY FourInARow, Zenon DEF SM!ProviderNames
  <2> QED
    BY <2>1, <2>2
<1>3. SM!RefreshSwitch["zai"] = <<"z", ".", "ai">> /\ SM!ProviderNames[3] = <<"z", ".", "ai">>
  <2>1. SM!RefreshSwitch["zai"] = <<"z", ".", "ai">>
    BY DEF SM!RefreshSwitch
  <2>2. SM!ProviderNames[3] = <<"z", ".", "ai">>
    BY FourInARow, Zenon DEF SM!ProviderNames
  <2> QED
    BY <2>1, <2>2
<1>4. SM!RefreshSwitch["openai"] = <<"open", "ai">> /\ SM!ProviderNames[4] = <<"open", "ai">>
  <2>1. SM!RefreshSwitch["openai"] = <<"open", "ai">>
    BY DEF SM!RefreshSwitch
  <2>2. SM!ProviderNames[4] = <<"open", "ai">>
    BY FourInARow, Zenon DEF SM!ProviderNames
  <2> QED
    BY <2>1, <2>2
<1> QED
  BY <1>1, <1>2, <1>3, <1>4

\* Where the refresh handler knows a service, the poll's loop can stop at the
\* provider of that name only: for no other one does either name have the
\* fragment the other begins with.
LEMMA NoOtherMatches ==
  ASSUME NEW s \in SM!RefreshedServices, NEW i \in SM!Candidates(s)
  PROVE  SM!ProviderNames[i] = SM!RefreshSwitch[s]
<1> DEFINE p == SM!ProviderNames[i]
           n == SM!ServiceName[s]
<1>1. s \in {"claude", "openai", "googleone", "zai"}
  BY DEF SM!RefreshedServices, SM!RefreshSwitch
<1>2. i \in 1 .. 4 /\ SM!Matches(p, s)
  BY ProvidersNamed DEF SM!Candidates
<1>3. PICK f, a : /\ Named(p, f, a)
                  /\ \/ i = 1 /\ f = "claude" /\ a = {"claude"}
                     \/ i = 2 /\ f = "google" /\ a = {"google", " ", "one"}
                     \/ i = 3 /\ f = "z" /\ a = {"z", ".", "ai"}
                     \/ i = 4 /\ f = "open" /\ a = {"open", "ai"}
  <2>1. i = 1 \/ i = 2 \/ i = 3 \/ i = 4
    BY <1>2
  <2> QED
    BY <2>1, ProvidersNamed, Zenon
<1>4. PICK g, b : /\ Named(n, g, b)
                  /\ \/ s = "claude" /\ g = "claude" /\ b = {"claude"}
                     \/ s = "googleone" /\ g = "google" /\ b = {"google", "one"}
                     \/ s = "zai" /\ g = "z" /\ b = {"z", "ai"}
                     \/ s = "openai" /\ g = "open" /\ b = {"open", "ai"}
  BY <1>1, ServicesNamed
<1>5. Meet(p, n) \/ Meet(n, p)
  <2>0. p \in Seq(Fragments) /\ n \in Seq(Fragments) /\ Len(p) >= 1 /\ Len(n) >= 1
    BY <1>3, <1>4 DEF Named
  <2>1. CASE SM!HasPart(p, n)
    BY <2>0, <2>1, PartHasNothingNew DEF Meet
  <2>2. CASE SM!HasPart(n, p)
    BY <2>0, <2>2, PartHasNothingNew DEF Meet
  <2>3. CASE s = "googleone" /\ SM!HasPart(p, <<"google">>)
    <3>1. \E j \in 1 .. Len(p) : p[j] = <<"google">>[1]
      BY <2>0, <2>3, PartHasNothingNew
    <3>2. n[1] = "google"
      BY <1>4, <2>3 DEF Named
    <3> QED
      BY <3>1, <3>2 DEF Meet
  <2>4. CASE s = "zai" /\ SM!HasPart(p, <<"z", "ai">>)
    <3>1. \E j \in 1 .. Len(p) : p[j] = <<"z", "ai">>[1]
      BY <2>0, <2>4, PartHasNothingNew
    <3>2. n[1] = "z"
      BY <1>4, <2>4 DEF Named
    <3> QED
      BY <3>1, <3>2 DEF Meet
  <2> QED
    BY <1>2, <2>1, <2>2, <2>3, <2>4 DEF SM!Matches
<1>6. f \in b \/ g \in a
  BY <1>3, <1>5, <1>4, NamesMeet
<1>7. \/ i = 1 /\ s = "claude"
      \/ i = 2 /\ s = "googleone"
      \/ i = 3 /\ s = "zai"
      \/ i = 4 /\ s = "openai"
  BY <1>3, <1>6, <1>4
<1> QED
  BY <1>7, SwitchNames

\* So its choice of the first match does not depend on the order in which
\* main.go lists the providers.
LEMMA ChoiceIsUnique ==
  ASSUME NEW s \in SM!PolledServices \cap SM!RefreshedServices
  PROVE  SM!PolledProvider(s) = SM!RefreshSwitch[s]
<1> DEFINE C == SM!Candidates(s)
<1>1. C \subseteq 1 .. 4 /\ C # {}
  BY ProvidersNamed DEF SM!Candidates, SM!PolledServices
<1>2. \A i \in C : SM!ProviderNames[i] = SM!RefreshSwitch[s]
  BY NoOtherMatches
<1>3. SM!Min(C) \in C
  <2>1. \E x \in C : \A y \in C : x <= y
    BY <1>1
  <2> QED
    BY <2>1 DEF SM!Min
<1> QED
  BY <1>2, <1>3 DEF SM!PolledProvider

(***************************************************************************)
(* Poll and refresh handler ask the same provider about a subscription     *)
(* that both of them serve.                                                *)
(***************************************************************************)
THEOREM PathsAlwaysAgree == Spec => []PathsAgree
<1>1. PathsAgree
  BY ChoiceIsUnique DEF PathsAgree, SM!PathsAgreeOn
<1> QED
  BY <1>1, PTL

\* Neither of two names is part of the other, though one ends like the other.
LEMMA ZaiIsNoPart ==
  /\ ~ SM!HasPart(<<"z", ".", "ai">>, <<"z", "ai">>)
  /\ ~ SM!HasPart(<<"z", "ai">>, <<"z", ".", "ai">>)
<1>1. ASSUME SM!HasPart(<<"z", ".", "ai">>, <<"z", "ai">>) PROVE FALSE
  <2> DEFINE p == <<"z", ".", "ai">>
  <2>1. PICK a \in 0 .. Len(p), b \in 0 .. Len(p) : <<"z", "ai">> = SubSeq(p, a + 1, b)
    BY <1>1 DEF SM!HasPart, SM!SubSeqs
  <2>2. b - a = 2 /\ p[a + 1] = "z" /\ p[a + 2] = "ai"
    BY <2>1
  <2>3. a = 0 \/ a = 1
    BY <2>1, <2>2
  <2> QED
    BY <2>2, <2>3
<1>2. ASSUME SM!HasPart(<<"z", "ai">>, <<"z", ".", "ai">>) PROVE FALSE
  <2> DEFINE p == <<"z", "ai">>
         t == <<"z", ".", "ai">>
  <2>1. p \in Seq({"z", "ai"}) /\ 2 \in 1 .. Len(t) /\ SM!HasPart(p, t)
    BY <1>2
  <2>2. \E j \in 1 .. Len(p) : p[j] = t[2]
    <3> HIDE DEF p, t
    <3> QED
      BY <2>1, PartHasNothingNew
  <2> QED
    BY <2>2
<1> QED
  BY <1>1, <1>2

(***************************************************************************)
(* The poll has no provider for Z.ai subscriptions: the provider calls     *)
(* itself "Z.ai" (zaiprovider.go:32), and scheduler.go:107-119 looks for   *)
(* "zai" in it.  Only the refresh handler ever fetches their quota, which  *)
(* README.md:15-19 lists under "automated usage tracking".                 *)
(***************************************************************************)
THEOREM ZaiIsNeverPolled ==
  /\ "zai" \in SM!RefreshedServices
  /\ "zai" \notin SM!PolledServices
<1>1. "zai" \in SM!RefreshedServices
  BY DEF SM!RefreshedServices, SM!RefreshSwitch
<1>2. ASSUME NEW i \in SM!Candidates("zai") PROVE FALSE
  <2>1. SM!ProviderNames[i] = <<"z", ".", "ai">>
    BY <1>1, NoOtherMatches DEF SM!RefreshSwitch
  <2>2. SM!ServiceName["zai"] = <<"z", "ai">>
    BY DEF SM!ServiceName
  <2>3. SM!Matches(<<"z", ".", "ai">>, "zai")
    BY <2>1 DEF SM!Candidates
  <2>4. \/ SM!HasPart(<<"z", ".", "ai">>, <<"z", "ai">>)
        \/ SM!HasPart(<<"z", "ai">>, <<"z", ".", "ai">>)
    BY <2>2, <2>3 DEF SM!Matches
  <2> QED
    BY <2>4, ZaiIsNoPart
<1> QED
  BY <1>1, <1>2 DEF SM!PolledServices
=============================================================================
