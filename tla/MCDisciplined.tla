--------------------------- MODULE MCDisciplined ----------------------------
(***************************************************************************)
(* MCSession for the runs whose constants meet the assumption of the       *)
(* theorems of SessionSafetyProofs.                                        *)
(***************************************************************************)
EXTENDS MCSession

ASSUME DisciplineAssumption == Disciplined

(* The instance without signals also meets what the theorems about finish  *)
(* and next assume.                                                        *)
ASSUME UncrowdedAssumption == MaxSignals = 0 => Uncrowded

(* main calls f, and f calls g.                                            *)
Level3 == [i \in Insns |-> IF i < 9 THEN 2 ELSE IF i < 14 THEN 1 ELSE 0]

ASSUME LayersAssumption == Layered(Level3)
=============================================================================
