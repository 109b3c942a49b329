-------------------------- MODULE MCProviderAnswers --------------------------
(* Instances of ProviderAnswers for TLC: nothing, a little, half, all and  *)
(* more than all of two limits, one of them too small for a little to show.*)
EXTENDS ProviderAnswers, TLC

MCShares == {0, 1, 50, 100, 120}
MCLimits == {0, 60, 1000}
=============================================================================
