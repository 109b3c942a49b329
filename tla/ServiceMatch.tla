---------------------------- MODULE ServiceMatch ----------------------------
(***************************************************************************)
(* How a subscription's service is mapped to a provider, twice: by the     *)
(* quota poll (service/scheduler.go), which compares names, and by the     *)
(* refresh handler (api/handlers.go), which switches on the exact value.   *)
(*                                                                         *)
(* A name is the sequence of the fragments that the comparisons can tell   *)
(* apart ("Z.ai" is <<"z", ".", "ai">>), already in lower case, so that    *)
(* strings.Contains is containment of sequences.                           *)
(***************************************************************************)
EXTENDS Naturals, SequencesExt

\* Provider names in the order main.go hands them to the scheduler.
ProviderNames ==
    << <<"claude">>, <<"google", " ", "one">>, <<"z", ".", "ai">>, <<"open", "ai">> >>

\* Service values the UI offers, a free-text one, and what they spell.
ServiceName ==
    [claude    |-> <<"claude">>,
     openai    |-> <<"open", "ai">>,
     googleone |-> <<"google", "one">>,
     zai       |-> <<"z", "ai">>,
     other     |-> <<"other">>]

ServiceValues == DOMAIN ServiceName

\* strings.Contains(s, t)
HasPart(s, t) == t \in SubSeqs(s)

\* Mutant: one fragment in common is enough.
MatchesAnyPart(p, service) ==
    \E i \in DOMAIN ServiceName[service] : HasPart(p, <<ServiceName[service][i]>>)

\* Does the poll's loop stop at the provider named p for this service?
Matches(p, service) ==
    LET name == ServiceName[service] IN
    \/ HasPart(p, name)
    \/ HasPart(name, p)
    \/ service = "googleone" /\ HasPart(p, <<"google">>)
    \/ service = "zai" /\ HasPart(p, <<"z", "ai">>)

\* The providers the loop would stop at; it takes the first.
Candidates(service) ==
    {i \in DOMAIN ProviderNames : Matches(ProviderNames[i], service)}

\* Services whose subscriptions the poll fetches.
PolledServices == {s \in ServiceValues : Candidates(s) # {}}

PolledProvider(service) == ProviderNames[Min(Candidates(service))]

\* The exact switch of the refresh handler.
RefreshSwitch ==
    [claude    |-> <<"claude">>,
     openai    |-> <<"open", "ai">>,
     googleone |-> <<"google", " ", "one">>,
     zai       |-> <<"z", ".", "ai">>]

RefreshedServices == DOMAIN RefreshSwitch

(***************************************************************************)
(* Where both paths know a service that the refresh handler takes to the   *)
(* provider of this name, the poll goes to the same one, so the two        *)
(* writers of a usage row never disagree about the account behind it       *)
(* (scheduler.go:101-120 against handlers.go:343-355).                     *)
(***************************************************************************)
PathsAgreeOn(name) ==
    \A s \in PolledServices \cap RefreshedServices :
        RefreshSwitch[s] = name => PolledProvider(s) = name
=============================================================================
