----------------------------- MODULE MCPushSource -----------------------------
(* Two sources; a channel fills up with one document more than a batch     *)
(* takes, and two requests can share a millisecond.                        *)
EXTENDS PushSource

CONSTANTS first, second
MCPushOrder == <<first, second>>
=============================================================================
