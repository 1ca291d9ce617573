---------------------------- MODULE EvalPipeline ----------------------------
(***************************************************************************)
(* ThreeProbeEvaluationPipeline.run: one run context per sample, built when *)
(* its first question comes up; one evaluation, one record file and one     *)
(* index entry per question, with an error path that records what raised;  *)
(* and three report files at the end.  Any of the writes and prints may    *)
(* fail, the process may be killed between two steps, and a user may run   *)
(* the command again into the same output directory.                       *)
(*                                                                         *)
(* Questions are numbered in the order the dataset builder gives them.      *)
(* _safe_segment turns every other sign than letters, digits, - and _ into *)
(* a _, so that two questions may have one record file.                    *)
(***************************************************************************)
EXTENDS Naturals, Sequences, FiniteSets

CONSTANTS N,          \* how many questions
          Samples,
          SampleOf,   \* the sample each question belongs to
          FileOf,     \* the record file each question's sanitised ids name
          Faults,     \* the kinds of operation that may raise
          MaxRuns     \* bound: how often the command is run

FaultKinds == {"context", "evaluate", "write", "print", "report"}

ASSUME PipelineAssumption == /\ N \in Nat
                             /\ SampleOf \in [1..N -> Samples]
                             /\ DOMAIN FileOf = 1..N
                             /\ Faults \subseteq FaultKinds
                             /\ MaxRuns \in Nat \ {0}

VARIABLES pc, i,      \* the step, and the question it is about
          ctxs,       \* run_ctx_cache
          builds,     \* history: contexts loaded or ingested in this run, per sample
          results, errors,    \* the questions in each list
          index,      \* the entries of question_index, per question
          late,       \* history: questions that failed after their result was kept
          run,        \* the number of this run
          record,     \* each record file: which run wrote what, about which question
          report      \* the run that last wrote each report file, 0 for none or torn

memoryVars == <<ctxs, builds, results, errors, index, late>>
vars == <<pc, i, memoryVars, run, record, report>>

Questions == 1..N

Files == {FileOf[q] : q \in Questions}

NoBuilds == [s \in Samples |-> 0]

NoEntries == [q \in Questions |-> <<>>]

NextUp(q) == IF q > N THEN "summary" ELSE "context"

Init == /\ pc = NextUp(1) /\ i = 1
        /\ ctxs = {} /\ builds = NoBuilds
        /\ results = {} /\ errors = {} /\ late = {}
        /\ index = NoEntries
        /\ run = 1
        /\ record = [f \in Files |-> [run |-> 0, kind |-> "none", of |-> 0]]
        /\ report = [f \in {"summary", "index", "bundle"} |-> 0]

Raises(kind) == kind \in Faults

Written(q, kind) ==
    [record EXCEPT ![FileOf[q]] = [run |-> run, kind |-> kind, of |-> q]]

\* A file that is being written has been truncated already: it is whole only if
\* the write comes to its end.
Torn(q) == Written(q, "torn")

(* ----------------------------- One question ----------------------------- *)

\* Fault: only the latest context is kept.
BuildContextEvicting ==
    /\ pc = "context"
    /\ SampleOf[i] \notin ctxs
    /\ builds' = [builds EXCEPT ![SampleOf[i]] = @ + 1]
    /\ \/ ctxs' = {SampleOf[i]} /\ pc' = "start"
       \/ Raises("context") /\ pc' = "aborted" /\ UNCHANGED ctxs
    /\ UNCHANGED <<i, results, errors, index, late, run, record, report>>

\* load_build_artifact or ingest_conversation, outside any try block: what it
\* raises ends the run.
BuildContext ==
    /\ pc = "context"
    /\ SampleOf[i] \notin ctxs
    /\ builds' = [builds EXCEPT ![SampleOf[i]] = @ + 1]
    /\ \/ ctxs' = ctxs \cup {SampleOf[i]} /\ pc' = "start"
       \/ Raises("context") /\ pc' = "aborted" /\ UNCHANGED ctxs
    /\ UNCHANGED <<i, results, errors, index, late, run, record, report>>

ReuseContext ==
    /\ pc = "context"
    /\ SampleOf[i] \in ctxs
    /\ pc' = "start"
    /\ UNCHANGED <<i, memoryVars, run, record, report>>

AnnounceStart ==
    /\ pc = "start"
    /\ \/ pc' = "evaluate"
       \/ Raises("print") /\ pc' = "except"
    /\ UNCHANGED <<i, memoryVars, run, record, report>>

\* Fault: a failed evaluation is written as an error, but not listed as one.
EvaluateUnlisted ==
    /\ pc = "evaluate"
    /\ \/ results' = results \cup {i} /\ pc' = "write"
       \/ Raises("evaluate") /\ pc' = "write_error" /\ UNCHANGED results
    /\ UNCHANGED <<i, ctxs, builds, errors, index, late, run, record, report>>

\* evaluate_with_adapters; its result is kept before anything is written.
Evaluate ==
    /\ pc = "evaluate"
    /\ \/ results' = results \cup {i} /\ pc' = "write"
       \/ Raises("evaluate") /\ pc' = "except" /\ UNCHANGED results
    /\ UNCHANGED <<i, ctxs, builds, errors, index, late, run, record, report>>

WriteRecord ==
    /\ pc = "write"
    /\ \/ /\ record' = Written(i, "ok")
          /\ pc' = "enter"
          /\ UNCHANGED late
       \/ /\ Raises("write")
          /\ pc' = "except"
          /\ late' = late \cup {i}
          /\ record' \in {record, Torn(i)}
    /\ UNCHANGED <<i, ctxs, builds, results, errors, index, run, report>>

\* The index entry, then the announcement that may raise behind it.
EnterIndex ==
    /\ pc = "enter"
    /\ index' = [index EXCEPT ![i] = Append(@, "ok")]
    /\ \/ pc' = NextUp(i + 1) /\ i' = i + 1 /\ UNCHANGED late
       \/ Raises("print") /\ pc' = "except" /\ late' = late \cup {i} /\ UNCHANGED i
    /\ UNCHANGED <<ctxs, builds, results, errors, run, record, report>>

\* Fault: the error is entered into the index here already.
RecordErrorTwice ==
    /\ pc = "except"
    /\ errors' = errors \cup {i}
    /\ index' = [index EXCEPT ![i] = Append(@, "error")]
    /\ pc' = "write_error"
    /\ UNCHANGED <<i, ctxs, builds, results, late, run, record, report>>

\* The except clause: whatever was kept for the question stays.
RecordError ==
    /\ pc = "except"
    /\ errors' = errors \cup {i}
    /\ pc' = "write_error"
    /\ UNCHANGED <<i, ctxs, builds, results, index, late, run, record, report>>

\* Fault: a record file that exists is left alone.
WriteErrorRecordOnce ==
    /\ pc = "write_error"
    /\ \/ /\ record' = IF record[FileOf[i]].run = 0 THEN Written(i, "error") ELSE record
          /\ pc' = "enter_error"
       \/ Raises("write") /\ pc' = "aborted" /\ record' \in {record, Torn(i)}
    /\ UNCHANGED <<i, memoryVars, run, report>>

\* Fault: what the except clause raises is handled by the except clause.
WriteErrorRecordRetrying ==
    /\ pc = "write_error"
    /\ \/ /\ record' = Written(i, "error")
          /\ pc' = "enter_error"
       \/ Raises("write") /\ pc' = "except" /\ record' \in {record, Torn(i)}
    /\ UNCHANGED <<i, memoryVars, run, report>>

\* An exception inside the except clause leaves run().
WriteErrorRecord ==
    /\ pc = "write_error"
    /\ \/ /\ record' = Written(i, "error")
          /\ pc' = "enter_error"
       \/ Raises("write") /\ pc' = "aborted" /\ record' \in {record, Torn(i)}
    /\ UNCHANGED <<i, memoryVars, run, report>>

\* Fault: failed questions have no index entry.
EnterErrorIndexSkipping ==
    /\ pc = "enter_error"
    /\ \/ pc' = NextUp(i + 1) /\ i' = i + 1
       \/ Raises("print") /\ pc' = "aborted" /\ UNCHANGED i
    /\ UNCHANGED <<ctxs, builds, results, errors, index, late, run, record, report>>

EnterErrorIndex ==
    /\ pc = "enter_error"
    /\ index' = [index EXCEPT ![i] = Append(@, "error")]
    /\ \/ pc' = NextUp(i + 1) /\ i' = i + 1
       \/ Raises("print") /\ pc' = "aborted" /\ UNCHANGED i
    /\ UNCHANGED <<ctxs, builds, results, errors, late, run, record, report>>

(* ------------------------------ The report ------------------------------ *)

\* Fault: a report file that cannot be written is passed over.
WriteReportPassing(file, next) ==
    /\ pc = file
    /\ pc' = next
    /\ \/ report' = [report EXCEPT ![file] = run]
       \/ Raises("report") /\ report' \in {report, [report EXCEPT ![file] = 0]}
    /\ UNCHANGED <<i, memoryVars, run, record>>

\* run_summary.json, question_index.json and the bundle, one after the other.
WriteReport(file, next) ==
    /\ pc = file
    /\ \/ report' = [report EXCEPT ![file] = run] /\ pc' = next
       \/ /\ Raises("report")
          /\ pc' = "aborted"
          /\ report' \in {report, [report EXCEPT ![file] = 0]}
    /\ UNCHANGED <<i, memoryVars, run, record>>

(* --------------------------- Kills and reruns --------------------------- *)

Over == pc \in {"done", "aborted", "killed"}

\* The process may die in the middle of a write.
Kill == /\ ~Over
        /\ pc' = "killed"
        /\ IF pc \in {"write", "write_error"}
           THEN record' \in {record, Torn(i)} ELSE UNCHANGED record
        /\ IF pc \in DOMAIN report
           THEN report' \in {report, [report EXCEPT ![pc] = 0]} ELSE UNCHANGED report
        /\ UNCHANGED <<i, memoryVars, run>>

\* The command again: what was in memory is gone, the files are still there.
Rerun == /\ Over
         /\ run < MaxRuns
         /\ run' = run + 1
         /\ pc' = NextUp(1) /\ i' = 1
         /\ ctxs' = {} /\ builds' = NoBuilds
         /\ results' = {} /\ errors' = {} /\ late' = {}
         /\ index' = NoEntries
         /\ UNCHANGED <<record, report>>

RunStep == \/ BuildContext \/ ReuseContext \/ AnnounceStart \/ Evaluate
           \/ WriteRecord \/ EnterIndex
           \/ RecordError \/ WriteErrorRecord \/ EnterErrorIndex
           \/ WriteReport("summary", "index")
           \/ WriteReport("index", "bundle")
           \/ WriteReport("bundle", "done")

Next == RunStep \/ Kill \/ Rerun

\* Evaluations end (ThreeProbeEngine), and so does whatever else a step waits for.
Spec == Init /\ [][Next]_vars /\ WF_vars(RunStep)

(* ----------------------------- Properties ------------------------------ *)

Steps == {"context", "start", "evaluate", "write", "enter", "except",
          "write_error", "enter_error", "summary", "index", "bundle",
          "done", "aborted", "killed"}

Entries == {<<>>, <<"ok">>, <<"error">>, <<"ok", "error">>}

TypeOK == /\ pc \in Steps
          /\ i \in 1..N+1
          /\ ctxs \subseteq Samples
          /\ builds \in [Samples -> Nat]
          /\ results \subseteq Questions /\ errors \subseteq Questions
          /\ late \subseteq Questions
          /\ index \in [Questions -> Entries]
          /\ run \in 1..MaxRuns
          /\ record \in [Files -> [run : 0..MaxRuns, of : 0..N,
                                 kind : {"none", "torn", "ok", "error"}]]
          /\ report \in [{"summary", "index", "bundle"} -> 0..MaxRuns]

Finished == 1..i-1

\* No question the loop has passed is missing from the lists or the index, and
\* the lists' lengths, whose sum is the reported total, exceed the number of
\* questions by exactly those that failed after their result had been kept.
ExactAccounts ==
    \A q \in Finished :
        /\ q \in results \cup errors
        /\ q \in results /\ q \in errors <=> q \in late
        /\ index[q] # <<>>

\* No question after q, up to the one under way, has q's record file.
Unshared(q) == \A r \in q+1..i : r \in Questions => FileOf[r] # FileOf[q]

\* The last index entry of a question, its record file and the error list agree
\* on how it ended, and the file is whole and of this run, whatever an earlier,
\* failed or killed run has left behind in the directory, torn files included;
\* of questions that share a file the last one has it to itself.
RecordsAgree ==
    \A q \in Finished :
        LET last == index[q][Len(index[q])]
        IN /\ last = "error" <=> q \in errors
           /\ Unshared(q) => record[FileOf[q]] = [run |-> run, kind |-> last, of |-> q]

\* A sample is loaded or ingested once per run, however many of its questions
\* fail, and no question is evaluated without its context.
OneContextPerSample ==
    /\ \A s \in Samples : builds[s] <= 1
    /\ pc \in {"start", "evaluate", "write", "enter"} => SampleOf[i] \in ctxs

\* Whoever finds a whole bundle beside a whole index or summary finds these of the
\* same or a later run, and a summary of this run only after all questions are
\* accounted for; a run that is done has left three whole files.
ReportsInOrder ==
    /\ \A files \in {<<"summary", "index">>, <<"summary", "bundle">>, <<"index", "bundle">>} :
          report[files[1]] # 0 => report[files[2]] <= report[files[1]]
    /\ report["summary"] = run => Finished = Questions
    /\ pc = "done" => \A f \in DOMAIN report : report[f] = run

\* Every run ends: completed, aborted or killed.
RunsEnd == ~Over ~> Over

\* The pipeline implements QuestionLedger, by the index it keeps.
Ledger == INSTANCE QuestionLedger WITH
             entry    <- [q \in Questions |->
                            IF index[q] = <<>> THEN "open" ELSE index[q][Len(index[q])]],
             reported <- (report["bundle"] = run)

ImplementsLedger == Ledger!LedgerSpec
=============================================================================
