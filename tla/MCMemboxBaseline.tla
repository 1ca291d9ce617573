-------------------------- MODULE MCMemboxBaseline --------------------------
(* Two questions of one sample; the first is so long that the evidence that *)
(* the encoding probe adds to it is not part of the key.                    *)
EXTENDS MemboxBaseline, TLC

CONSTANTS a, f, g, question, other, evidence, key, otherKey,
          caller, probe, box

MCSampleOf == <<a, a>>

MCFileOf == <<f, g>>

MCQuestionText == <<question, other>>

MCKeyOf == (question :> key) @@ (evidence :> key) @@ (other :> otherKey)
=============================================================================
