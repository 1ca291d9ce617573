---------------------------- MODULE OMemQuestion ----------------------------
(***************************************************************************)
(* One question evaluated against a real O-Mem run context: the engine's   *)
(* probes, whose retrieval calls go through the native retrieval cache of  *)
(* the context.  A retrieval call is no longer one step: the probe looks   *)
(* its key up, and on a miss other probes run until the native call is     *)
(* back.  O-Mem has no external retriever, and is not driven by a trace.   *)
(***************************************************************************)
EXTENDS ThreeProbeEngine, NativeCache

CONSTANTS TopK,        \* PipelineConfig.top_k, --top-k
          EncTopK      \* EvaluatorConfig.encoding_native_retrieval_top_k

\* The generation probe asks for five items whatever TopK says.
GenTopK == 5

LargerOf(a, b) == IF a > b THEN a ELSE b

\* The cache key: the text asked for and int(top_k or 1).
Key(text, k) == <<text, IF k = 0 THEN 1 ELSE k>>

\* The key of each retrieval step of the probes.
KeyOf == [merge_query |-> Key("question", LargerOf(EncTopK, TopK)),
          merge_f_key |-> Key("f_key", LargerOf(EncTopK, TopK)),
          retrieve    |-> Key("question", TopK),
          online      |-> Key("question", GenTopK),
          context     |-> Key("question", GenTopK)]

StepsOf == [enc |-> {"merge_query", "merge_f_key"},
            ret |-> {"retrieve"},
            gen |-> {"online", "context"}]

KeysOf(p) == {KeyOf[s] : s \in StepsOf[p]}

ASSUME OMemAssumption ==
    /\ TopK \in Int /\ EncTopK \in Int
    /\ Threads = Probes
    /\ Keys = UNION {KeysOf(p) : p \in Probes}
    /\ Requests = [p \in Probes |-> KeysOf(p)]

allVars == <<vars, cacheVars>>

OMemInit == Init /\ ~direct /\ CacheInit

AtRetrieval(p) == status[p] = "running" /\ pc[p] \in StepsOf[p]

\* The step of the engine that a retrieval of p completes, once its result is
\* there; an online answer is generated from it and may still fail or be empty.
Completes(p, out) ==
    \/ p = "enc" /\ (MergeQuery(out) \/ MergeFKey(out))
    \/ p = "ret" /\ RetrieveOriginal(out)
    \/ p = "gen" /\ (OnlineAnswer(out) \/ RetrieveContext(out))

\* What can come of a native result: an answer or an exception when one is
\* generated from it, and records or none when it is only converted.
Outcomes(p) == IF pc[p] = "online" THEN {"some", "error"} ELSE {"some", "none"}

LookupHit(p) == /\ AtRetrieval(p)
                /\ Hit(p, KeyOf[pc[p]])
                /\ \E out \in Outcomes(p) : Completes(p, out)

LookupMiss(p) == /\ AtRetrieval(p)
                 /\ Miss(p, KeyOf[pc[p]])
                 /\ UNCHANGED vars

NativeReturns(p) == /\ NativeReturn(p)
                    /\ \E out \in Outcomes(p) : Completes(p, out)

\* Fault: a failing native call ends the probe, strict or not.
NativeFailsFatally(p) ==
    /\ NativeFail(p)
    /\ Note(pc[p], "error")
    /\ End(p, "failed")
    /\ UNCHANGED <<inputVars, mainVars, started, found, answered>>

NativeFails(p) == NativeFail(p) /\ Completes(p, "error")

\* The steps of the engine that are no retrieval.
OtherStep == /\ \/ MainStep
                \/ Start
                \/ \E out \in CallOutcomes :
                     \/ ExportMemory(out) \/ HybridRetrieve(out)
                     \/ FindRecords(out) \/ OracleAnswer(out)
                \/ CheckOnline
                \/ \E p \in Probes : Judge(p)
             /\ UNCHANGED cacheVars

OMemNext == \/ OtherStep
            \/ \E p \in Probes : \/ LookupHit(p) \/ LookupMiss(p)
                                 \/ NativeReturns(p) \/ NativeFails(p)

OMemSpec == OMemInit /\ [][OMemNext]_allVars

(* ----------------------------- Properties ------------------------------ *)

OMemTypeOK == TypeOK /\ CacheTypeOK

\* Seen from outside, the evaluation of an O-Mem question is an evaluation: with
\* the cache hidden it is a behaviour of ThreeProbeEngine.
ImplementsEngine == Spec
=============================================================================
