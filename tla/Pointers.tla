-------------------------------- MODULE Pointers --------------------------------
(* The NULL of C, one for the structures that are linked by pointers.       *)

CONSTANT NULL

=============================================================================
