-------------------------------- MODULE Alarms --------------------------------
(***************************************************************************)
(* What tm_run_after of src/src/timer_manager.c promises its callers: a    *)
(* job that was accepted runs once, not before its delay has passed, unless *)
(* the timer manager is destroyed first.  MqttClient counts on it for the  *)
(* retries of a connection.                                                *)
(***************************************************************************)
CONSTANT Jobs

VARIABLE state

TypeOK ==
    state \in [Jobs -> {"new", "waiting", "due", "ran", "dropped"}]

Init == state = [j \in Jobs |-> "new"]

Accept(j) == state[j] = "new" /\ state' = [state EXCEPT ![j] = "waiting"]

Elapse(j) == state[j] = "waiting" /\ state' = [state EXCEPT ![j] = "due"]

Run(j) == state[j] = "due" /\ state' = [state EXCEPT ![j] = "ran"]

(* The manager is destroyed, with all that has not run. *)
Destroy ==
    state' = [j \in Jobs |-> IF state[j] \in {"waiting", "due"} THEN "dropped"
                             ELSE state[j]]

Next == Destroy \/ \E j \in Jobs : Accept(j) \/ Elapse(j) \/ Run(j)

Spec == Init /\ [][Next]_state

=============================================================================
