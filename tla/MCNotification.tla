--------------------------- MODULE MCNotification ---------------------------
(* Instances of Notification for TLC.                                      *)
EXTENDS Notification, TLC

CONSTANTS u1, u2, e1, good, bad, c1

TwoUsers     == {u1, u2}
OneEndpoint  == {e1}
MCChats      == {good, bad}
MCBadChats   == {bad} \cap Chats
OneCaller    == {c1}
=============================================================================
