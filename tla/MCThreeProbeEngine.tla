------------------------- MODULE MCThreeProbeEngine -------------------------
(* Settings and adapters for model checking ThreeProbeEngine.              *)
EXTENDS ThreeProbeEngine

Set(s, n, m, w) ==
    [strictCall |-> s, needOnline |-> n, merge |-> m, maxWorkers |-> w]

Has(e, h, o, c) == [external |-> e, hybrid |-> h, online |-> o, context |-> c]

\* The default; a lenient profile on two workers that requires an online answer;
\* and the worker count that max(1, ...) corrects.
MCSettings == {Set(TRUE, FALSE, TRUE, 3), Set(FALSE, TRUE, TRUE, 2),
               Set(FALSE, FALSE, FALSE, 0)}

\* An adapter with every method, and the bare protocol.
MCAdapters == {Has(TRUE, TRUE, TRUE, TRUE), Has(FALSE, FALSE, FALSE, FALSE)}
=============================================================================
