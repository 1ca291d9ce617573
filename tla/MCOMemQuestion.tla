--------------------------- MODULE MCOMemQuestion ---------------------------
(* O-Mem's adapter, with all three probes asking for the same key.         *)
EXTENDS OMemQuestion

MCSettings == {[strictCall |-> s, needOnline |-> FALSE, merge |-> TRUE,
                maxWorkers |-> 3] : s \in BOOLEAN}

MCAdapters == {[external |-> FALSE, hybrid |-> TRUE, online |-> TRUE, context |-> TRUE]}

MCKeys == UNION {KeysOf(p) : p \in Probes}

MCRequests == [p \in Probes |-> KeysOf(p)]
=============================================================================
