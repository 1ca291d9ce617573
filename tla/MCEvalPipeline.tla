--------------------------- MODULE MCEvalPipeline ---------------------------
(* Four questions of two samples, interleaved so that contexts are reused;  *)
(* two of them share a record file.                                        *)
EXTENDS EvalPipeline

CONSTANTS a, b, f, g, h

MCSampleOf == <<a, b, a, b>>

MCFileOf == <<f, g, f, h>>
=============================================================================
