---------------------------- MODULE MCQuotaRounds ----------------------------
(* Instances of QuotaRounds for TLC: those of QuotaMonitor.                *)
EXTENDS MCQuotaMonitor, QuotaRounds
=============================================================================
