---------------------------- MODULE MCTurnStream ----------------------------
(* A turn with two tool calls in the session the user follows, and a turn    *)
(* without calls beside it or in a session of another client.                *)
EXTENDS TurnStream
CONSTANTS t1, t2, s1, s2, a, b
MCHomes == {t1 :> s1 @@ t2 :> s1, t1 :> s1 @@ t2 :> s2}
MCAsks == t1 :> <<a, b>> @@ t2 :> <<>>
=============================================================================
