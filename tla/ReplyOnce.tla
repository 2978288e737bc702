------------------------------ MODULE ReplyOnce ------------------------------
(* What a chat turn with tools promises its user: the outcome arrives at     *)
(* most once, in the HTTP response or, after a placeholder said so, as a     *)
(* late event; and it does arrive while the program is able to tell it.      *)
VARIABLES promised, delivered, able

vars == <<promised, delivered, able>>

Init == promised = FALSE /\ delivered = "none" /\ able = TRUE

DeliverNow  == /\ able /\ delivered = "none" /\ ~promised
               /\ delivered' = "now" /\ UNCHANGED <<promised, able>>
Promise     == /\ able /\ delivered = "none" /\ ~promised
               /\ promised' = TRUE /\ UNCHANGED <<delivered, able>>
DeliverLate == /\ able /\ delivered = "none" /\ promised
               /\ delivered' = "late" /\ UNCHANGED <<promised, able>>

(* The process dies, the client is gone, or the late event cannot be written. *)
Lose == able /\ able' = FALSE /\ UNCHANGED <<promised, delivered>>

Next == DeliverNow \/ Promise \/ DeliverLate \/ Lose

Spec == Init /\ [][Next]_vars /\ WF_vars(DeliverNow \/ DeliverLate)
=============================================================================
