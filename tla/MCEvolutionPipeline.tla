------------------------- MODULE MCEvolutionPipeline -------------------------
(***************************************************************************)
(* Instances of self-evolution for TLC.                                    *)
(***************************************************************************)
EXTENDS EvolutionPipelineProps

CONSTANTS p1, p2, s1
=============================================================================
