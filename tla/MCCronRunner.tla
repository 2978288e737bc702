---------------------------- MODULE MCCronRunner ----------------------------
(* One job; a one-shot at time 1, an interval of 1, a cron grid of 2. *)
EXTENDS CronRunner
CONSTANT j1
MCSchedules == {[kind |-> "at", n |-> 1], [kind |-> "every", n |-> 1], [kind |-> "cron", n |-> 2]}
=============================================================================
