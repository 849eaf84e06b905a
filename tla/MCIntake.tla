------------------------------ MODULE MCIntake ------------------------------
(* A report, the same content under a name that is refused, and a scan. *)
EXTENDS DocumentIntake, TLC

MCFiles ==
  {[sha |-> "report", allowed |-> TRUE,  text |-> "text"],
   [sha |-> "report", allowed |-> FALSE, text |-> "text"],
   [sha |-> "scan",   allowed |-> TRUE,  text |-> "blank"]}

ActorSymmetry == Permutations(Actors)
=============================================================================
