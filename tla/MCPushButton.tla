----------------------------- MODULE MCPushButton -----------------------------
(* Instances of PushButton, and with it of Sessions, for TLC.              *)
EXTENDS PushButton, TLC

CONSTANTS u1, u2, e1, e2

OneUser      == {u1}
TwoUsers     == {u1, u2}
TwoEndpoints == {e1, e2}
=============================================================================
