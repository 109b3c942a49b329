--------------------------- MODULE MCQuotaMonitor ---------------------------
(* Instances of QuotaMonitor for TLC.  Which services are polled and       *)
(* refreshed is computed by ServiceMatch, not chosen.                      *)
EXTENDS QuotaMonitor, TLC

CONSTANTS s1, s2, u1, u2, t1, t2, r1

SM == INSTANCE ServiceMatch

\* No property or action of QuotaSafety tells these apart.
Interchangeable == Permutations({s1, s2}) \cup Permutations({u1, u2})

MCIds      == {s1, s2}
OneId      == {s1}
MCUsers    == {u1, u2}
OneUser    == {u1}
OneToken   == {t1}
TwoTokens  == {t1, t2}
OneReq     == {r1}

Claude        == {"claude"}
ClaudeOrOther == {"claude", "other"}

MCPolled      == SM!PolledServices \cap Services
MCRefreshable == SM!RefreshedServices \cap Services
=============================================================================
