------------------------- MODULE MCInferenceDispatch -------------------------
(* A streaming and a plain call that may share a provider attempt id. *)
EXTENDS InferenceDispatch
=============================================================================
