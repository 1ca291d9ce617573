-------------------------- MODULE ThreeProbeEngine --------------------------
(***************************************************************************)
(* ThreeProbeEvaluator: one question is evaluated by three probes that run *)
(* in a thread pool while the caller submits them, waits for them in order *)
(* and reconciles their verdicts.  A probe is the sequence of the adapter  *)
(* calls its agent makes, each of which may raise, and of its judgement.   *)
(* What is concluded is Judging's subject; here a judgement either reaches *)
(* a verdict or raises.                                                    *)
(***************************************************************************)
EXTENDS Integers, FiniteSets

CONSTANTS Settings,   \* the evaluator settings considered
          Adapters    \* the optional methods an adapter may have

Setting == [strictCall  : BOOLEAN,   \* strict_adapter_call
            needOnline  : BOOLEAN,   \* require_online_answer
            merge       : BOOLEAN,   \* encoding_merge_native_retrieval
            maxWorkers  : Int]       \* max_workers

Adapter == [external : BOOLEAN,      \* get_external_high_recall_retriever, which may answer
                             \* more than None
            hybrid   : BOOLEAN,      \* hybrid_retrieve_candidates
            online   : BOOLEAN,      \* generate_online_answer
            context  : BOOLEAN]      \* retrieve_original, on the generation adapter

ASSUME EngineAssumption ==
    /\ Settings \subseteq Setting
    /\ Adapters \subseteq Adapter

VARIABLES cfg, adapter,
          direct,      \* evaluate() on a trace, rather than evaluate_with_adapters()
          keyed,       \* the question has a non-empty f_key
          main,        \* where the calling thread is
          submitted, started, joined,  \* how many probes have been, in this order
          status,      \* of each probe's future
          pc,          \* the next step of each probe
          found,       \* collect_observations has candidates
          answered,    \* answer_online is not empty
          raisedAt,    \* the adapter calls that raised, a history variable
          error        \* what the caller will get or got

mainVars == <<main, submitted, joined, error>>
inputVars == <<cfg, adapter, direct, keyed>>
vars == <<inputVars, mainVars, started, status, pc, found, answered, raisedAt>>

Order == <<"enc", "ret", "gen">>

Probes == {"enc", "ret", "gen"}

PoolSize == IF cfg.maxWorkers < 1 THEN 1 ELSE cfg.maxWorkers

Running == {p \in Probes : status[p] = "running"}

Settled(p) == status[p] \in {"ok", "failed"}

FirstStep == [enc |-> IF direct THEN "judge" ELSE "export",
              ret |-> IF direct THEN "judge" ELSE "retrieve",
              gen |-> IF direct THEN "judge" ELSE "oracle"]

Init == /\ cfg \in Settings
        /\ adapter \in Adapters
        /\ direct \in BOOLEAN
        /\ keyed \in BOOLEAN
        /\ main = "submitting"
        /\ submitted = 0 /\ started = 0 /\ joined = 0
        /\ status = [p \in Probes |-> "waiting"]
        /\ pc = FirstStep
        /\ found = FALSE
        /\ answered = FALSE
        /\ raisedAt = {}
        /\ error = "none"

(* --------------------------- The calling thread ------------------------- *)

\* Fault: the caller looks whether it is done before it counts.
SubmitOneMore == /\ main = "submitting"
                 /\ submitted' = submitted + 1
                 /\ main' = IF submitted = 3 THEN "joining" ELSE main
                 /\ UNCHANGED <<inputVars, joined, error, started, status, pc,
                                found, answered, raisedAt>>

Submit == /\ main = "submitting"
          /\ submitted' = submitted + 1
          /\ main' = IF submitted' = 3 THEN "joining" ELSE main
          /\ UNCHANGED <<inputVars, joined, error, started, status, pc, found,
                         answered, raisedAt>>

\* Fault: the futures are taken as they complete.
JoinAsCompleted ==
    /\ main = "joining"
    /\ joined' = joined + 1
    /\ \E p \in Probes :
         /\ Settled(p)
         /\ error' = IF status[p] = "failed" THEN p ELSE error
         /\ main' = IF status[p] = "failed" \/ joined' = 3 THEN "exiting" ELSE main
    /\ UNCHANGED <<inputVars, submitted, started, status, pc, found, answered,
                   raisedAt>>

\* f.result() of the next future returns its verdict, or raises its exception
\* out of the with statement, whose exit still waits for the whole pool.
Join == /\ main = "joining"
        /\ LET p == Order[joined + 1]
           IN /\ Settled(p)
              /\ joined' = joined + 1
              /\ error' = IF status[p] = "failed" THEN p ELSE error
              /\ main' = IF status[p] = "failed" \/ joined' = 3 THEN "exiting"
                                                               ELSE main
        /\ UNCHANGED <<inputVars, submitted, started, status, pc, found,
                       answered, raisedAt>>

\* Fault: shutdown(wait=False).
ExitPoolAtOnce ==
    /\ main = "exiting"
    /\ main' = IF error = "none" THEN "attributing" ELSE "raised"
    /\ UNCHANGED <<inputVars, submitted, joined, error, started, status, pc, found,
                   answered, raisedAt>>

\* Fault: the exception is dropped, and what there is of verdicts attributed.
ExitPoolSwallowing ==
    /\ main = "exiting"
    /\ \A p \in Probes : Settled(p)
    /\ main' = "attributing"
    /\ UNCHANGED <<inputVars, submitted, joined, error, started, status, pc, found,
                   answered, raisedAt>>

\* shutdown(wait=True)
ExitPool == /\ main = "exiting"
            /\ \A p \in Probes : Settled(p)
            /\ main' = IF error = "none" THEN "attributing" ELSE "raised"
            /\ UNCHANGED <<inputVars, submitted, joined, error, started, status,
                           pc, found, answered, raisedAt>>

Attribute == /\ main = "attributing"
             /\ \/ main' = "returned" /\ UNCHANGED error
                \/ main' = "raised" /\ error' = "attribution"
             /\ UNCHANGED <<inputVars, submitted, joined, started, status, pc,
                            found, answered, raisedAt>>

(* ------------------------------ The pool -------------------------------- *)

\* Workers take the submitted probes in the order of submission.
Start == /\ started < submitted
         /\ Cardinality(Running) < PoolSize
         /\ started' = started + 1
         /\ status' = [status EXCEPT ![Order[started + 1]] = "running"]
         /\ UNCHANGED <<inputVars, mainVars, pc, found, answered, raisedAt>>

At(p, step) == status[p] = "running" /\ pc[p] = step

Continue(p, step) == /\ pc' = [pc EXCEPT ![p] = step]
                     /\ UNCHANGED status

End(p, s) == /\ status' = [status EXCEPT ![p] = s]
             /\ pc' = [pc EXCEPT ![p] = "end"]

\* What an adapter call may come back with: records or a text, nothing, or an
\* exception.
CallOutcomes == {"some", "none", "error"}

Note(step, out) ==
    raisedAt' = IF out = "error" THEN raisedAt \cup {step} ELSE raisedAt

\* A call outside any try block: an exception ends the probe.
Plain(p, step, out, next) ==
    /\ At(p, step)
    /\ Note(step, out)
    /\ IF out = "error" THEN End(p, "failed") ELSE Continue(p, next)
    /\ UNCHANGED <<inputVars, mainVars, started>>

\* Fault: the exception is swallowed whatever strict_adapter_call says.
GuardedLeniently(p, step, out, next) ==
    /\ At(p, step)
    /\ Note(step, out)
    /\ Continue(p, next)
    /\ UNCHANGED <<inputVars, mainVars, started>>

\* A call in a try block: strict_adapter_call decides what an exception does.
Guarded(p, step, out, next) ==
    /\ At(p, step)
    /\ Note(step, out)
    /\ IF out = "error" /\ cfg.strictCall THEN End(p, "failed")
                                          ELSE Continue(p, next)
    /\ UNCHANGED <<inputVars, mainVars, started>>

(* -------------------------- The encoding probe -------------------------- *)

MergeOrJudge == IF cfg.merge THEN "merge_query" ELSE "judge"

HybridOrFind(f) == IF f THEN MergeOrJudge
                   ELSE IF adapter.hybrid THEN "hybrid" ELSE "find"

ExportMemory(out) ==
    /\ Plain("enc", "export", out,
             IF adapter.external THEN "retriever" ELSE HybridOrFind(FALSE))
    /\ UNCHANGED <<found, answered>>

\* The retriever is asked for before the try block it is used in; there may be
\* none.
AskForRetriever(out) ==
    /\ Plain("enc", "retriever", out,
             IF out = "some" THEN "external" ELSE HybridOrFind(FALSE))
    /\ UNCHANGED <<found, answered>>

\* Candidate sources are tried in turn until one of them has some.
ExternalRetrieve(out) ==
    /\ Guarded("enc", "external", out, HybridOrFind(out = "some"))
    /\ found' = (out = "some")
    /\ UNCHANGED answered

HybridRetrieve(out) ==
    /\ Guarded("enc", "hybrid", out,
               IF out = "some" THEN MergeOrJudge ELSE "find")
    /\ found' = (out = "some")
    /\ UNCHANGED answered

FindRecords(out) ==
    /\ Plain("enc", "find", out, MergeOrJudge)
    /\ found' = (out = "some")
    /\ UNCHANGED answered

\* One try block holds both native retrievals, so that a failing first one
\* skips the second, while a failing second one keeps the first's records.
MergeQuery(out) ==
    /\ Guarded("enc", "merge_query", out,
               IF keyed /\ out # "error" THEN "merge_f_key" ELSE "judge")
    /\ found' = (found \/ out = "some")
    /\ UNCHANGED answered

MergeFKey(out) ==
    /\ Guarded("enc", "merge_f_key", out, "judge")
    /\ found' = (found \/ out = "some")
    /\ UNCHANGED answered

(* ------------------------- The retrieval probe -------------------------- *)

RetrieveOriginal(out) ==
    /\ Plain("ret", "retrieve", out, "judge")
    /\ UNCHANGED <<found, answered>>

(* ------------------------- The generation probe ------------------------- *)

OracleAnswer(out) ==
    /\ Plain("gen", "oracle", out, IF adapter.online THEN "online" ELSE "check")
    /\ UNCHANGED <<found, answered>>

OnlineAnswer(out) ==
    /\ Guarded("gen", "online", out, "check")
    /\ answered' = (out = "some")
    /\ UNCHANGED found

\* Fault: an empty answer is asked for again, without a limit.
CheckOnlineRetrying ==
    /\ At("gen", "check")
    /\ Continue("gen", IF cfg.needOnline /\ ~answered THEN "online"
                       ELSE IF adapter.context THEN "context" ELSE "judge")
    /\ UNCHANGED <<inputVars, mainVars, started, found, answered, raisedAt>>

\* require_online_answer rejects a missing method and an empty answer alike.
CheckOnline ==
    /\ At("gen", "check")
    /\ IF cfg.needOnline /\ ~answered THEN End("gen", "failed")
       ELSE Continue("gen", IF adapter.context THEN "context" ELSE "judge")
    /\ UNCHANGED <<inputVars, mainVars, started, found, answered, raisedAt>>

RetrieveContext(out) ==
    /\ Guarded("gen", "context", out, "judge")
    /\ UNCHANGED <<found, answered>>

(* ------------------------------ Judgement ------------------------------- *)

Judge(p) ==
    /\ At(p, "judge")
    /\ \E s \in {"ok", "failed"} : End(p, s)
    /\ UNCHANGED <<inputVars, mainVars, started, found, answered, raisedAt>>

(* ---------------------------- Specification ----------------------------- *)

EncStep == \/ \E out \in CallOutcomes :
                \/ ExportMemory(out)
                \/ AskForRetriever(out)
                \/ ExternalRetrieve(out)
                \/ HybridRetrieve(out)
                \/ FindRecords(out)
                \/ MergeQuery(out)
                \/ MergeFKey(out)
           \/ Judge("enc")

RetStep == (\E out \in CallOutcomes : RetrieveOriginal(out)) \/ Judge("ret")

GenStep == \/ \E out \in CallOutcomes :
                OracleAnswer(out) \/ OnlineAnswer(out) \/ RetrieveContext(out)
           \/ CheckOnline
           \/ Judge("gen")

MainStep == Submit \/ Join \/ ExitPool \/ Attribute

Next == MainStep \/ Start \/ EncStep \/ RetStep \/ GenStep

Spec == Init /\ [][Next]_vars

\* The interpreter runs every thread that can run, and every adapter and model
\* call comes back: each has a timeout of its own (llm_assist._chat_json,
\* OMemAdapter._run_awaitable) or computes on data in memory.
Fairness == /\ WF_vars(MainStep) /\ WF_vars(Start)
            /\ WF_vars(EncStep) /\ WF_vars(RetStep) /\ WF_vars(GenStep)

FairSpec == Spec /\ Fairness

(* ----------------------------- Properties ------------------------------ *)

Steps == {"export", "retriever", "external", "hybrid", "find", "merge_query", "merge_f_key",
          "retrieve", "oracle", "online", "check", "context", "judge", "end"}

Mains == {"submitting", "joining", "exiting", "attributing", "returned", "raised"}

TypeOK == /\ cfg \in Settings /\ adapter \in Adapters
          /\ direct \in BOOLEAN /\ keyed \in BOOLEAN
          /\ main \in Mains
          /\ submitted \in 0..3 /\ started \in 0..3 /\ joined \in 0..3
          /\ started <= submitted
          /\ status \in [Probes -> {"waiting", "running", "ok", "failed"}]
          /\ pc \in [Probes -> Steps]
          /\ found \in BOOLEAN /\ answered \in BOOLEAN
          /\ raisedAt \subseteq Steps
          /\ error \in Probes \cup {"none", "attribution"}

Over == main \in {"returned", "raised"}

\* No thread of the pool outlives the call: the caller never gets a result or
\* an exception, not even the one a first probe raised early, while a probe
\* still waits or uses the run context, which the next question reuses.
NoProbeOutlivesCall == main = "attributing" \/ Over => \A p \in Probes : Settled(p)

\* Which exception the caller gets is that of the first failing probe in the
\* order enc, ret, gen, whichever failed first in time; a result means that no
\* probe failed, and an attribution error too.
ErrorIsFirstInOrder ==
    Over => error = IF status["enc"] = "failed" THEN "enc"
                    ELSE IF status["ret"] = "failed" THEN "ret"
                    ELSE IF status["gen"] = "failed" THEN "gen"
                    ELSE IF main = "raised" THEN "attribution" ELSE "none"

\* With strict_adapter_call no result rests on an adapter call that raised;
\* without it only the calls outside a try block cost the question.
StrictSwallowsNothing ==
    main = "returned" =>
        raisedAt \subseteq IF cfg.strictCall THEN {}
                           ELSE {"external", "hybrid", "merge_query",
                                 "merge_f_key", "online", "context"}

\* Every evaluation ends, with a result or an exception, whatever the number
\* of workers and however the calls turn out.
EvaluationEnds == <>Over

\* The engine implements ThreeWayJoin.
Join3 == INSTANCE ThreeWayJoin WITH
            settled  <- [p \in Probes |-> IF Settled(p) THEN status[p] ELSE "open"],
            decision <- IF Over THEN main ELSE "none",
            blamed   <- IF main = "raised" THEN error ELSE "nobody"

ImplementsJoin == Join3!JoinSpec
=============================================================================
