----------------------------- MODULE MCPlatform -----------------------------
(***************************************************************************)
(* The parts of the platform in one run; the sheets are computed by the    *)
(* evaluator of formulas.                                                  *)
(***************************************************************************)
EXTENDS Platform, Formulas
=============================================================================
