----------------------------- MODULE MCTimerUsers -----------------------------
(* An instance of TimerManager for TLC in which a behaviour has one kind of  *)
(* user, calls of tm_run_after or a client with a timer, so that the states  *)
(* of the two add up and do not multiply.                                    *)
EXTENDS TimerManager

CONSTANT JobFDs   \* descriptors that only the calls of tm_run_after use
VARIABLE users

UsersInit == Init /\ users \in {"jobs", "client"}

UsersNext ==
    /\ Next /\ users' = users
    /\ users = "jobs" => \A t \in Timers : memory'[t] = "none"
    /\ users = "client" => UNCHANGED job /\ \A f \in JobFDs : clock'[f] = "closed"

UsersSpec == UsersInit /\ [][UsersNext]_<<vars, users>> /\ Fairness

=============================================================================
