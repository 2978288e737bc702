---------------------------- MODULE MCEventPush ----------------------------
(* A log of a few entries and a bot with two users. *)
EXTENDS EventPush
CONSTANTS u1, u2
=============================================================================
