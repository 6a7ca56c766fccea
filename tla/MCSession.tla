------------------------------- MODULE MCSession -------------------------------
(* Instances of Session for TLC: joins with a reply; registration with a    *)
(* reply, then a join without one; a registration without a reply; and      *)
(* requests that cannot be made.                                            *)
EXTENDS Session, TLC

MCConfigs ==
    {{"join", "joinReply", "leave"},
     {"register", "registerReply", "join", "leave"},
     {"register", "registerReply", "registerBad"},
     {"register", "join", "joinBad"}}

Symmetry == Permutations(Devices)

=============================================================================
