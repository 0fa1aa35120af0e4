---------------------------- MODULE MCSolutionDb ----------------------------
(***************************************************************************)
(* One method for TLC with two refinement files, whose limits the          *)
(* configuration may make the same.                                        *)
(***************************************************************************)
EXTENDS SolutionDb

MCMethods == {"nn"}

MCGoals ==
  {[file |-> Segment("nn"), phony |-> FALSE],
   [file |-> File("nn", "refinement", 0), phony |-> FALSE],
   [file |-> File("nn", "refinement", 60), phony |-> TRUE]}
=============================================================================
