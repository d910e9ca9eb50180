----------------------- MODULE MC_SystematicResample -----------------------
(* Four particles with weights from 0 to 3, and every start.                *)
EXTENDS SystematicResample
============================================================================
