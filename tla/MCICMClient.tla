---------------------------- MODULE MCICMClient ----------------------------
(* Two concurrent calls of one client: one refreshes while the other waits,  *)
(* or one probes while the other is a straggler.                             *)
EXTENDS ICMClient
CONSTANTS c1, c2
MCCalls == {c1, c2}
=============================================================================
