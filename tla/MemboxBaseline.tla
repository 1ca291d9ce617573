--------------------------- MODULE MemboxBaseline ---------------------------
(***************************************************************************)
(* run_baseline over a Membox sample that has been built: per question an  *)
(* online answer, the context it is shown with, and a judgement of the     *)
(* answer; then the record, the index entry and the error path as in an    *)
(* evaluation run.  Answer and context each rank the boxes, over the       *)
(* vector store of the sample, while the probe threads of an evaluation    *)
(* of the same build do so too.                                            *)
(*                                                                         *)
(* The steps "answer", "show" and "judge" are what one evaluation is in    *)
(* EvalPipeline.                                                           *)
(***************************************************************************)
EXTENDS EvalPipeline, VectorStore

CONSTANTS QuestionText,   \* the text of each question
          Caller,         \* the thread of the baseline run
          None

\* A ranking may fail to write the store, so that an evaluation may raise.
ASSUME BaselineAssumption ==
    /\ DOMAIN QuestionText = 1..N
    /\ \A q \in 1..N : QuestionText[q] \in Texts
    /\ Caller \in Askers
    /\ "evaluate" \in Faults
    /\ \A t \in Texts : None \notin [DOMAIN Wanted(t) -> Texts \cup Boxes \cup {Zeros}]

VARIABLES answered,   \* the vectors the answer under way rests on, None if there is none
          shown,      \* those of the context it will be shown with
          blind,      \* questions with a "baseline_retrieve_context" error
          quiet       \* history: since the answer's load no ranking of the Caller has
                      \* met a file being written, and no write of another thread has
                      \* overlapped with another ranking, or failed

baselineVars == <<answered, shown, blind, quiet>>
allVars == <<vars, storeVars, baselineVars>>

pipelineVars == vars

BaselineInit == /\ Init /\ StoreInit
                /\ answered = None /\ shown = None /\ blind = {} /\ quiet = TRUE

Text == QuestionText[i]

\* The vectors a ranking for t sees.
Seen(a, t) == [k \in DOMAIN Wanted(t) |-> store[a][k]]

(* ----------------------------- One question ----------------------------- *)

Context == /\ BuildContext \/ ReuseContext
           /\ UNCHANGED <<storeVars, baselineVars>>

\* The announcement is outside the try block: if it raises the run is over.
StartQuestion == /\ pc = "start"
                 /\ \/ pc' = "answer" /\ UNCHANGED <<i, memoryVars, run, record, report>>
                    \/ Raises("print") /\ Kill
                 /\ UNCHANGED <<storeVars, baselineVars>>

\* No file is being written, that is, what a ranking now loads is a whole store.
Undisrupted == \A a \in Askers : step[a] # "write"

RankForAnswer == /\ pc = "answer"
                 /\ Rank(Caller, Text)
                 /\ quiet' = Undisrupted
                 /\ UNCHANGED <<pipelineVars, answered, shown, blind>>

CallerFlush == /\ FlushStep(Caller)
               /\ UNCHANGED <<pipelineVars, baselineVars>>

\* What may come of a call: a ranking that failed raises, and so may the export of
\* the boxes and traces that are looked up for its numbers.
Returns == step[Caller] = "ranked"
Fails == step[Caller] = "failed" \/ Raises("evaluate")

\* Fault: the ranking is outside the try block.
AnswerOnlineUncaught ==
    /\ pc = "answer"
    /\ Return(Caller)
    /\ \/ Returns /\ answered' = Seen(Caller, Text) /\ pc' = "show"
       \/ Fails /\ UNCHANGED answered /\ pc' = "aborted"
    /\ UNCHANGED <<i, memoryVars, run, record, report, shown, blind, quiet>>

\* A failing chat call answers with an empty text.
AnswerOnline == /\ pc = "answer"
                /\ Return(Caller)
                /\ \/ Returns /\ answered' = Seen(Caller, Text) /\ pc' = "show"
                   \/ Fails /\ UNCHANGED answered /\ pc' = "except"
                /\ UNCHANGED <<i, memoryVars, run, record, report, shown, blind, quiet>>

RankForContext == /\ pc = "show"
                  /\ Rank(Caller, Text)
                  /\ quiet' = (quiet /\ Undisrupted)
                  /\ UNCHANGED <<pipelineVars, answered, shown, blind>>

\* Fault: a question without a context is listed as failed.
ShowContextFailing ==
    /\ pc = "show"
    /\ Return(Caller)
    /\ \/ Returns /\ shown' = Seen(Caller, asked[Caller]) /\ UNCHANGED <<blind, errors>>
       \/ Fails /\ blind' = blind \cup {i} /\ errors' = errors \cup {i} /\ UNCHANGED shown
    /\ pc' = "judge"
    /\ UNCHANGED <<i, ctxs, builds, results, index, late, run, record, report, answered, quiet>>

\* A context that cannot be retrieved is left empty; its error has a stage of its
\* own, and is counted neither as a question nor as an error of the summary.
ShowContext == /\ pc = "show"
               /\ Return(Caller)
               /\ \/ Returns /\ shown' = Seen(Caller, asked[Caller]) /\ UNCHANGED blind
                  \/ Fails /\ blind' = blind \cup {i} /\ UNCHANGED shown
               /\ pc' = "judge"
               /\ UNCHANGED <<i, memoryVars, run, record, report, answered, quiet>>

\* The answer is judged, or that raises; a judged question is counted at once.
JudgeAnswer == /\ pc = "judge"
               /\ \/ results' = results \cup {i} /\ pc' = "write"
                  \/ Raises("evaluate") /\ pc' = "except" /\ UNCHANGED results
               /\ answered' = None /\ shown' = None /\ quiet' = TRUE
               /\ UNCHANGED <<i, ctxs, builds, errors, index, late, run, record, report>>
               /\ UNCHANGED <<storeVars, blind>>

\* The record, the index entry with its announcement, and the error path.
Account == /\ \/ WriteRecord \/ EnterIndex
              \/ RecordError \/ WriteErrorRecord \/ EnterErrorIndex
           /\ UNCHANGED <<storeVars, baselineVars>>

WriteReports == /\ \/ WriteReport("summary", "index")
                   \/ WriteReport("index", "bundle")
                   \/ WriteReport("bundle", "done")
                /\ UNCHANGED <<storeVars, baselineVars>>

\* Fault: the thread of the ranking outlives the run.
KillBaselineLingering == /\ Kill
                         /\ UNCHANGED <<storeVars, baselineVars>>

KillBaseline == /\ Kill
                /\ Vanish(Caller)
                /\ UNCHANGED baselineVars

(* ------------------------------ The probes ------------------------------ *)

NoAnswerYet == answered = None /\ step[Caller] = "idle"

\* The probe threads rank for questions and for questions with their evidence.
ProbeStep == /\ \E a \in Askers \ {Caller} :
                   \/ \E t \in Texts : Rank(a, t) /\ UNCHANGED quiet
                   \/ /\ FlushStep(a)
                      /\ quiet' = (NoAnswerYet \/ (quiet /\ ~disturbed /\ ~disturbed'))
                   \/ Return(a) /\ UNCHANGED quiet
             /\ UNCHANGED <<pipelineVars, answered, shown, blind>>

BaselineStep == \/ Context \/ StartQuestion
                \/ RankForAnswer \/ CallerFlush \/ AnswerOnline
                \/ RankForContext \/ ShowContext \/ JudgeAnswer
                \/ Account \/ WriteReports

BaselineNext == BaselineStep \/ KillBaseline \/ ProbeStep

BaselineSpec == BaselineInit /\ [][BaselineNext]_allVars

(* ----------------------------- Properties ------------------------------ *)

BaselineTypeOK == /\ StoreTypeOK
                  /\ pc \in Steps \cup {"answer", "show", "judge"}
                  /\ blind \subseteq Questions
                  /\ step[Caller] # "idle" => pc \in {"answer", "show"}

\* The summary's count exceeds the questions by exactly those that failed after they
\* had been counted; only these are both a result and an error; a question whose
\* context could not be retrieved is over as a result or as an error like any other;
\* and one that ended well has a single index entry.
BaselineAccounts ==
    /\ pc = "done" => Cardinality(results) + Cardinality(errors) = N + Cardinality(late)
    /\ \A q \in Questions :
          /\ q \in errors => q \notin results \/ q \in late
          /\ q \in blind \cap Finished => q \in results \cup errors
          /\ q \in results \ late /\ q \in Finished => index[q] = <<"ok">>

\* The context shown with an answer was ranked with the vectors the answer was
\* ranked with, also when others have rewritten the store in between, one after the
\* other: a write loses nothing that its ranking has not missed, and an embedding that
\* failed for the one is not tried again for the other. Only a ranking that another
\* one overlapped, or a failed write, may take a vector away.
ContextMatchesAnswer == pc = "judge" /\ shown # None /\ quiet => shown = answered

\* The boxes an answer rests on were ranked by the vector of the question itself.
RankedByQuestion == answered # None => answered[KeyOf[Text]] \in {Text, Zeros}

\* Every step of a baseline run is one of an evaluation run, whose evaluation ranks,
\* shows and judges, or none of its: both keep the same accounts.
Pipeline == INSTANCE EvalPipeline WITH
               pc <- IF pc \in {"answer", "show", "judge"} THEN "evaluate" ELSE pc

ImplementsPipeline == Pipeline!Init /\ [][Pipeline!Next]_(Pipeline!vars)
=============================================================================
