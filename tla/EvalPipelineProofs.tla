------------------------- MODULE EvalPipelineProofs -------------------------
(***************************************************************************)
(* The accounts, records, contexts and reports of an evaluation run are as *)
(* EvalPipeline promises, and it implements QuestionLedger, for any number *)
(* of questions, samples, shared record files, faults and reruns.          *)
(***************************************************************************)
EXTENDS EvalPipeline, SequenceTheorems, TLAPS

InLoop == {"context", "start", "evaluate", "write", "enter", "except",
           "write_error", "enter_error"}

Reporting == {"summary", "index", "bundle", "done"}

Untouched(q) == q \notin results \cup errors \cup late /\ index[q] = <<>>

\* The question the loop is at, and those it has not come to.
Places == /\ pc \in InLoop => i \in Questions
          /\ pc \in Reporting => i = N + 1
          /\ \A q \in Questions : q > i => Untouched(q)

\* What each step of the loop finds of its own question.
Current ==
    /\ pc \in {"context", "start", "evaluate"} => Untouched(i)
    /\ pc \in {"write", "enter"} => /\ i \in results /\ i \notin errors /\ i \notin late
                                    /\ index[i] = <<>>
    /\ pc = "except" => i \notin errors
    /\ pc \in {"write_error", "enter_error"} => i \in errors
    /\ pc \in {"except", "write_error", "enter_error"} =>
          /\ i \in results <=> i \in late
          /\ index[i] \in {<<>>, <<"ok">>}
    /\ pc = "enter" => record[FileOf[i]] = [run |-> run, kind |-> "ok", of |-> i]
    /\ pc = "enter_error" => record[FileOf[i]] = [run |-> run, kind |-> "error", of |-> i]

\* A context that is not in the cache has not been built, unless building it was
\* the end of the run.
Contexts ==
    /\ \A s \in Samples : builds[s] <= 1
    /\ pc \in InLoop \cup Reporting => \A s \in Samples : s \notin ctxs => builds[s] = 0
    /\ pc \in {"start", "evaluate", "write", "enter"} => SampleOf[i] \in ctxs

\* No report is of a later run, one of this run comes after the loop, and each
\* step finds the files before it written by this run.
Reports ==
    /\ \A f \in DOMAIN report : report[f] <= run
    /\ \A f \in DOMAIN report : report[f] = run => i = N + 1
    /\ pc \in {"index", "bundle", "done"} => report["summary"] = run
    /\ pc \in {"bundle", "done"} => report["index"] = run
    /\ pc = "done" <=> report["bundle"] = run

IInv == /\ TypeOK /\ Places /\ Current /\ ExactAccounts /\ RecordsAgree
        /\ Contexts /\ Reports /\ ReportsInOrder

(* ------------------------------ Operators ------------------------------- *)

LEMMA AppendToOne == ASSUME NEW x, NEW y PROVE Append(<<x>>, y) = <<x, y>>
<1>1. <<x>> \in Seq({x,y}) /\ Len(<<x>>) = 1 /\ <<x>>[1] = x
  OBVIOUS
<1>2. <<x,y>> \in Seq({x,y}) /\ Len(<<x,y>>) = 2 /\ <<x,y>>[1] = x /\ <<x,y>>[2] = y
  OBVIOUS
<1>3. /\ Append(<<x>>, y) \in Seq({x,y}) /\ Len(Append(<<x>>, y)) = 2
      /\ Append(<<x>>, y)[1] = x /\ Append(<<x>>, y)[2] = y
  BY <1>1, AppendProperties
<1>4. \A k \in 1..Len(Append(<<x>>, y)) : Append(<<x>>, y)[k] = <<x,y>>[k]
  <2>1. \A k \in 1..2 : k = 1 \/ k = 2
    OBVIOUS
  <2> QED
    BY <1>2, <1>3, <2>1
<1> QED
  BY <1>2, <1>3, <1>4, SeqEqual

\* Both kinds of entry that can be appended keep an index entry well-formed.
LEMMA AppendEntry ==
    ASSUME NEW e \in {<<>>, <<"ok">>}, NEW kind \in {"ok", "error"},
           kind = "error" \/ e = <<>>
    PROVE  /\ Append(e, kind) \in Entries /\ Append(e, kind) # <<>>
           /\ Append(e, kind)[Len(Append(e, kind))] = kind
<1>1. CASE e = <<>>
  <2>1. Append(e, kind) = <<kind>>
    BY <1>1
  <2> QED
    BY <2>1 DEF Entries
<1>2. CASE e = <<"ok">>
  <2>0. <<"ok">> # <<>>
    OBVIOUS
  <2>1. kind = "error"
    BY <1>2, <2>0
  <2>2. Append(<<"ok">>, "error") = <<"ok", "error">>
    BY AppendToOne, Zenon
  <2> QED
    BY <2>1, <2>2, <1>2 DEF Entries
<1> QED
  BY <1>1, <1>2

\* The only entry that says ok is of an ok question.
LEMMA LastOk == <<>> \in Entries /\ <<"ok">>[Len(<<"ok">>)] = "ok"
BY DEF Entries

\* Where the loop goes on after a question.
LEMMA NextUpIs ==
    ASSUME NEW q \in 1..N+1
    PROVE  /\ q \in Questions => NextUp(q) = "context"
           /\ q \notin Questions => NextUp(q) = "summary" /\ q = N + 1
BY PipelineAssumption DEF NextUp, Questions

\* A record file is only ever written for the question the loop is at.
LEMMA WrittenType ==
    ASSUME TypeOK, NEW q \in Questions, NEW kind \in {"torn", "ok", "error"}
    PROVE  /\ Written(q, kind) \in [Files -> [run : 0..MaxRuns, of : 0..N,
                                              kind : {"none", "torn", "ok", "error"}]]
           /\ Written(q, kind)[FileOf[q]] = [run |-> run, kind |-> kind, of |-> q]
           /\ \A f \in Files : f # FileOf[q] => Written(q, kind)[f] = record[f]
<1>1. FileOf[q] \in Files
  BY DEF Files
<1>2. [run |-> run, kind |-> kind, of |-> q]
        \in [run : 0..MaxRuns, of : 0..N, kind : {"none", "torn", "ok", "error"}]
  BY PipelineAssumption DEF TypeOK, Questions
<1> QED
  BY <1>1, <1>2 DEF TypeOK, Written

\* What a write or its failure may do to the records.
LEMMA RecordSteps ==
    ASSUME TypeOK, NEW q \in Questions, NEW kind \in {"ok", "error"},
           record' = Written(q, kind) \/ record' \in {record, Torn(q)}
    PROVE  /\ record' \in [Files -> [run : 0..MaxRuns, of : 0..N,
                                     kind : {"none", "torn", "ok", "error"}]]
           /\ \A r \in Questions : FileOf[r] # FileOf[q] => record'[FileOf[r]] = record[FileOf[r]]
<1>1. \A r \in Questions : FileOf[r] \in Files
  BY DEF Files
<1>2. ASSUME NEW k \in {"torn", "ok", "error"}, record' = Written(q, k)
      PROVE  /\ record' \in [Files -> [run : 0..MaxRuns, of : 0..N,
                                       kind : {"none", "torn", "ok", "error"}]]
             /\ \A r \in Questions : FileOf[r] # FileOf[q] => record'[FileOf[r]] = record[FileOf[r]]
  <2>1. /\ Written(q, k) \in [Files -> [run : 0..MaxRuns, of : 0..N,
                                       kind : {"none", "torn", "ok", "error"}]]
        /\ \A f \in Files : f # FileOf[q] => Written(q, k)[f] = record[f]
    BY WrittenType, Zenon
  <2> QED
    BY <1>1, <1>2, <2>1, Zenon
<1>3. CASE record' = Written(q, kind) \/ record' = Torn(q)
  BY <1>2, <1>3 DEF Torn
<1>4. CASE record' = record
  BY <1>4 DEF TypeOK
<1> QED
  BY <1>3, <1>4

(* ---------------------------- One question ------------------------------ *)

LEMMA InitOK == Init => IInv
<1> SUFFICES ASSUME Init PROVE IInv
  OBVIOUS
<1>1. 1 \in 1..N+1 /\ 1 \in 1..MaxRuns /\ 0 \in 0..MaxRuns /\ 0 \in 0..N
  BY PipelineAssumption
<1>2. TypeOK
  <2>1. pc \in Steps
    BY DEF Init, NextUp, Steps
  <2> QED
    BY <1>1, <2>1, LastOk DEF Init, TypeOK, NoBuilds, NoEntries
<1>3. Places /\ Current
  BY <1>1, NextUpIs DEF Init, Places, Current, Untouched, InLoop, Reporting, NoEntries
<1>4. ExactAccounts /\ RecordsAgree
  BY DEF Init, ExactAccounts, RecordsAgree, Finished
<1>5. Contexts /\ Reports /\ ReportsInOrder
  BY <1>1, NextUpIs DEF Init, Contexts, Reports, ReportsInOrder, NoBuilds, InLoop
<1> QED
  BY <1>2, <1>3, <1>4, <1>5 DEF IInv

LEMMA BuildContextOK ==
    ASSUME IInv, BuildContext
    PROVE  IInv'
<1>0. /\ TypeOK /\ Places /\ Current /\ ExactAccounts /\ RecordsAgree
      /\ Contexts /\ Reports /\ ReportsInOrder
  BY DEF IInv
<1>b. /\ pc = "context" /\ i \in Questions /\ SampleOf[i] \in Samples
      /\ SampleOf[i] \notin ctxs /\ builds[SampleOf[i]] = 0
  BY <1>0, PipelineAssumption DEF BuildContext, Places, Contexts, InLoop, Questions
<1>1. /\ builds' = [builds EXCEPT ![SampleOf[i]] = 1]
      /\ \/ ctxs' = ctxs \cup {SampleOf[i]} /\ pc' = "start"
         \/ pc' = "aborted" /\ UNCHANGED ctxs
      /\ UNCHANGED <<i, results, errors, index, late, run, record, report>>
  BY <1>b DEF BuildContext
<1>2. TypeOK'
  BY <1>0, <1>b, <1>1 DEF TypeOK, Steps
<1>3. Places' /\ Current'
  BY <1>0, <1>b, <1>1, PipelineAssumption
     DEF Places, Current, Untouched, InLoop, Reporting, Questions, TypeOK
<1>4. ExactAccounts' /\ RecordsAgree'
  BY <1>0, <1>b, <1>1 DEF ExactAccounts, RecordsAgree, Finished, Unshared
<1>5. Contexts'
  BY <1>0, <1>b, <1>1 DEF Contexts, InLoop, Reporting, TypeOK
<1>6. Reports' /\ ReportsInOrder'
  BY <1>0, <1>b, <1>1 DEF Reports, ReportsInOrder, Finished
<1> QED
  BY <1>2, <1>3, <1>4, <1>5, <1>6 DEF IInv

\* Steps that only move on, or keep a result.
LEMMA EvaluateOK ==
    ASSUME IInv, ReuseContext \/ AnnounceStart \/ Evaluate
    PROVE  IInv'
<1>0. /\ TypeOK /\ Places /\ Current /\ ExactAccounts /\ RecordsAgree
      /\ Contexts /\ Reports /\ ReportsInOrder
  BY DEF IInv
<1>1. /\ pc \in InLoop /\ i \in Questions /\ Untouched(i)
      /\ \/ pc' \in {"start", "evaluate"} /\ UNCHANGED results
         \/ pc' = "write" /\ results' = results \cup {i}
         \/ pc' = "except" /\ UNCHANGED results
      /\ pc' \in {"start", "evaluate", "write"} => SampleOf[i] \in ctxs
      /\ UNCHANGED <<i, ctxs, builds, errors, index, late, run, record, report>>
  BY <1>0 DEF ReuseContext, AnnounceStart, Evaluate, memoryVars, Places, Current, Contexts, InLoop
<1>2. TypeOK'
  BY <1>0, <1>1 DEF TypeOK, Steps
<1>3. Places' /\ Current'
  BY <1>0, <1>1, PipelineAssumption
     DEF Places, Current, Untouched, InLoop, Reporting, Questions, TypeOK
<1>4. ExactAccounts' /\ RecordsAgree'
  <2>1. Finished' = Finished /\ \A q \in Finished : q # i
    BY <1>1, PipelineAssumption DEF Finished, Questions
  <2>2. \A q \in Finished : q \in results' <=> q \in results
    BY <1>1, <2>1
  <2>3. ExactAccounts'
    BY <1>0, <1>1, <2>1, <2>2 DEF ExactAccounts
  <2>4. RecordsAgree'
    BY <1>0, <1>1, <2>1 DEF RecordsAgree, Unshared
  <2> QED
    BY <2>3, <2>4
<1>5. Contexts'
  BY <1>0, <1>1 DEF Contexts, InLoop, Reporting
<1>6. Reports' /\ ReportsInOrder'
  BY <1>0, <1>1 DEF Reports, InLoop, ReportsInOrder, Finished, Questions
<1> QED
  BY <1>2, <1>3, <1>4, <1>5, <1>6 DEF IInv

\* A record is written: only the file of the question the loop is at changes, so
\* that what was agreed about earlier files without a later question stays.
LEMMA RecordsStay ==
    ASSUME TypeOK, RecordsAgree, i \in Questions, UNCHANGED <<i, index, errors, run>>,
           \A r \in Questions : FileOf[r] # FileOf[i] => record'[FileOf[r]] = record[FileOf[r]]
    PROVE  RecordsAgree'
<1> SUFFICES ASSUME NEW q \in Finished
             PROVE  LET last == index[q][Len(index[q])]
                    IN /\ last = "error" <=> q \in errors
                       /\ Unshared(q) => record'[FileOf[q]] = [run |-> run, kind |-> last, of |-> q]
  BY DEF RecordsAgree, Finished, Unshared
<1>1. q \in Questions /\ i \in q+1..i
  BY PipelineAssumption DEF Finished, Questions, TypeOK
<1>2. Unshared(q) => FileOf[q] # FileOf[i]
  BY <1>1 DEF Unshared
<1> QED
  BY <1>1, <1>2 DEF RecordsAgree

LEMMA WriteRecordOK ==
    ASSUME IInv, WriteRecord
    PROVE  IInv'
<1>0. /\ TypeOK /\ Places /\ Current /\ ExactAccounts /\ RecordsAgree
      /\ Contexts /\ Reports /\ ReportsInOrder
  BY DEF IInv
<1>1. /\ pc = "write" /\ i \in Questions
      /\ \/ record' = Written(i, "ok") /\ pc' = "enter" /\ UNCHANGED late
         \/ pc' = "except" /\ late' = late \cup {i} /\ record' \in {record, Torn(i)}
      /\ UNCHANGED <<i, ctxs, builds, results, errors, index, run, report>>
  BY <1>0 DEF WriteRecord, Places, InLoop
<1>2. /\ record' \in [Files -> [run : 0..MaxRuns, of : 0..N,
                                kind : {"none", "torn", "ok", "error"}]]
      /\ \A r \in Questions : FileOf[r] # FileOf[i] => record'[FileOf[r]] = record[FileOf[r]]
  <2>1. record' = Written(i, "ok") \/ record' \in {record, Torn(i)}
    BY <1>1
  <2> QED
    BY <1>0, <1>1, <2>1, RecordSteps
<1>3. TypeOK'
  BY <1>0, <1>1, <1>2 DEF TypeOK, Steps
<1>4. Places'
  BY <1>0, <1>1, PipelineAssumption DEF Places, Untouched, InLoop, Reporting, Questions, TypeOK
<1>5. Current'
  <2>1. pc' = "enter" => record'[FileOf[i]] = [run |-> run, kind |-> "ok", of |-> i]
    BY <1>0, <1>1, WrittenType
  <2> QED
    BY <1>0, <1>1, <2>1 DEF Current, Untouched
<1>6. ExactAccounts'
  BY <1>0, <1>1 DEF ExactAccounts, Finished, Questions
<1>7. RecordsAgree'
  BY <1>0, <1>1, <1>2, RecordsStay
<1>8. Contexts'
  BY <1>0, <1>1 DEF Contexts, InLoop, Reporting
<1>9. Reports' /\ ReportsInOrder'
  BY <1>0, <1>1 DEF Reports, ReportsInOrder, Finished, Questions
<1> QED
  BY <1>3, <1>4, <1>5, <1>6, <1>7, <1>8, <1>9 DEF IInv

LEMMA RecordErrorOK ==
    ASSUME IInv, RecordError
    PROVE  IInv'
<1>0. /\ TypeOK /\ Places /\ Current /\ ExactAccounts /\ RecordsAgree
      /\ Contexts /\ Reports /\ ReportsInOrder
  BY DEF IInv
<1>1. /\ pc = "except" /\ i \in Questions
      /\ errors' = errors \cup {i} /\ pc' = "write_error"
      /\ UNCHANGED <<i, ctxs, builds, results, index, late, run, record, report>>
  BY <1>0 DEF RecordError, Places, InLoop
<1>2. TypeOK'
  BY <1>0, <1>1 DEF TypeOK, Steps
<1>3. Places' /\ Current'
  BY <1>0, <1>1, PipelineAssumption
     DEF Places, Current, Untouched, InLoop, Reporting, Questions, TypeOK
<1>4. ExactAccounts' /\ RecordsAgree'
  <2>1. \A q \in Finished : q # i
    BY <1>1, PipelineAssumption DEF Finished, Questions
  <2>2. Finished' = Finished /\ \A q \in Finished : Unshared(q)' <=> Unshared(q)
    BY <1>1 DEF Finished, Unshared
  <2>3. ExactAccounts'
    BY <1>0, <1>1, <2>1, <2>2 DEF ExactAccounts
  <2>4. RecordsAgree'
    BY <1>0, <1>1, <2>1, <2>2 DEF RecordsAgree
  <2> QED
    BY <2>3, <2>4
<1>5. Contexts'
  BY <1>0, <1>1 DEF Contexts, InLoop, Reporting
<1>6. Reports' /\ ReportsInOrder'
  BY <1>0, <1>1 DEF Reports, InLoop, ReportsInOrder, Finished, Questions
<1> QED
  BY <1>2, <1>3, <1>4, <1>5, <1>6 DEF IInv

LEMMA WriteErrorRecordOK ==
    ASSUME IInv, WriteErrorRecord
    PROVE  IInv'
<1>0. /\ TypeOK /\ Places /\ Current /\ ExactAccounts /\ RecordsAgree
      /\ Contexts /\ Reports /\ ReportsInOrder
  BY DEF IInv
<1>1. /\ pc = "write_error" /\ i \in Questions
      /\ \/ record' = Written(i, "error") /\ pc' = "enter_error"
         \/ pc' = "aborted" /\ record' \in {record, Torn(i)}
      /\ UNCHANGED <<i, ctxs, builds, results, errors, index, late, run, report>>
  BY <1>0 DEF WriteErrorRecord, Places, InLoop, memoryVars
<1>2. /\ record' \in [Files -> [run : 0..MaxRuns, of : 0..N,
                                kind : {"none", "torn", "ok", "error"}]]
      /\ \A r \in Questions : FileOf[r] # FileOf[i] => record'[FileOf[r]] = record[FileOf[r]]
  <2>1. record' = Written(i, "error") \/ record' \in {record, Torn(i)}
    BY <1>1
  <2> QED
    BY <1>0, <1>1, <2>1, RecordSteps
<1>3. TypeOK'
  BY <1>0, <1>1, <1>2 DEF TypeOK, Steps
<1>4. Places'
  BY <1>0, <1>1, PipelineAssumption DEF Places, Untouched, InLoop, Reporting, Questions, TypeOK
<1>5. Current'
  <2>1. pc' = "enter_error" => record'[FileOf[i]] = [run |-> run, kind |-> "error", of |-> i]
    BY <1>0, <1>1, WrittenType
  <2> QED
    BY <1>0, <1>1, <2>1 DEF Current, Untouched
<1>6. ExactAccounts'
  BY <1>0, <1>1 DEF ExactAccounts, Finished
<1>7. RecordsAgree'
  BY <1>0, <1>1, <1>2, RecordsStay
<1>8. Contexts'
  BY <1>0, <1>1 DEF Contexts, InLoop, Reporting
<1>9. Reports' /\ ReportsInOrder'
  BY <1>0, <1>1 DEF Reports, ReportsInOrder, Finished
<1> QED
  BY <1>3, <1>4, <1>5, <1>6, <1>7, <1>8, <1>9 DEF IInv

\* The last step of a question, of either kind: what the loop knows of it becomes
\* what is promised of questions that are over.
LEMMA EnterOK ==
    ASSUME IInv, EnterIndex \/ EnterErrorIndex
    PROVE  IInv'
<1>0. /\ TypeOK /\ Places /\ Current /\ ExactAccounts /\ RecordsAgree
      /\ Contexts /\ Reports /\ ReportsInOrder
  BY DEF IInv
<1>1. pc \in {"enter", "enter_error"} /\ i \in Questions /\ i + 1 \in 1..N+1
  BY <1>0, PipelineAssumption DEF EnterIndex, EnterErrorIndex, Places, InLoop, Questions
<1>2. PICK kind \in {"ok", "error"} :
        /\ index' = [index EXCEPT ![i] = Append(@, kind)]
        /\ record[FileOf[i]] = [run |-> run, kind |-> kind, of |-> i]
        /\ kind = "error" <=> i \in errors
        /\ kind = "ok" => i \in results /\ i \notin late
        /\ i \in results /\ i \in errors <=> i \in late
        /\ index[i] \in {<<>>, <<"ok">>} /\ (kind = "error" \/ index[i] = <<>>)
        /\ \/ pc' = NextUp(i + 1) /\ i' = i + 1 /\ UNCHANGED late
           \/ kind = "ok" /\ pc' = "except" /\ i' = i /\ late' = late \cup {i}
           \/ pc' = "aborted" /\ i' = i /\ UNCHANGED late
  <2>1. CASE EnterIndex
    BY <1>0, <2>1 DEF EnterIndex, Current
  <2>2. CASE EnterErrorIndex
    BY <1>0, <2>2 DEF EnterErrorIndex, Current
  <2> QED
    BY <2>1, <2>2
<1>3. UNCHANGED <<ctxs, builds, results, errors, run, record, report>>
  BY DEF EnterIndex, EnterErrorIndex
<1>4. /\ index'[i] \in Entries /\ index'[i] # <<>> /\ index'[i][Len(index'[i])] = kind
      /\ \A q \in Questions : q # i => index'[q] = index[q]
      /\ index' \in [Questions -> Entries]
  <2>1. index'[i] = Append(index[i], kind)
    BY <1>0, <1>1, <1>2 DEF TypeOK
  <2>2. /\ Append(index[i], kind) \in Entries /\ Append(index[i], kind) # <<>>
        /\ Append(index[i], kind)[Len(Append(index[i], kind))] = kind
    BY <1>2, AppendEntry
  <2>3. \A q \in Questions : q # i => index'[q] = index[q]
    BY <1>0, <1>2 DEF TypeOK
  <2> QED
    BY <1>0, <1>2, <2>1, <2>2, <2>3 DEF TypeOK
<1>5. kind = "ok" => index'[i] = <<"ok">>
  BY <1>0, <1>1, <1>2 DEF TypeOK
<1>6. /\ pc' \in {"context", "summary", "except", "aborted"}
      /\ pc' = "context" => i' \in Questions /\ i' = i + 1
      /\ pc' = "summary" => i' = N + 1
      /\ pc' = "except" => i' = i /\ kind = "ok" /\ late' = late \cup {i}
      /\ i' \in {i, i + 1}
  BY <1>1, <1>2, NextUpIs
<1>7. TypeOK'
  BY <1>0, <1>1, <1>2, <1>3, <1>4, <1>6 DEF TypeOK, Steps
<1>8. Places'
  BY <1>0, <1>1, <1>2, <1>3, <1>4, <1>6, PipelineAssumption
     DEF Places, Untouched, InLoop, Reporting, Questions, TypeOK
<1>9. Current'
  <2>1. pc' = "context" => Untouched(i)'
    BY <1>0, <1>1, <1>2, <1>3, <1>4, <1>6, PipelineAssumption DEF Places, Untouched, Questions
  <2>2. pc' = "except" => /\ i \notin errors /\ i \in results /\ i \in late'
                          /\ index'[i] = <<"ok">>
    BY <1>2, <1>5, <1>6
  <2>3. CASE pc' = "context"
    BY <2>1, <2>3 DEF Current
  <2>4. CASE pc' = "except"
    BY <1>3, <1>6, <2>2, <2>4 DEF Current
  <2>5. CASE pc' \in {"summary", "aborted"}
    BY <2>5 DEF Current
  <2> QED
    BY <1>6, <2>3, <2>4, <2>5
<1>a. \A q \in 1..i'-1 : q \in Questions /\ (q # i => q \in Finished)
  <2>1. i \in Nat /\ N \in Nat /\ i <= N
    BY <1>1, PipelineAssumption DEF Questions
  <2>2. CASE i' = i
    BY <2>1, <2>2 DEF Finished, Questions
  <2>3. CASE i' = i + 1
    BY <2>1, <2>3 DEF Finished, Questions
  <2> QED
    BY <1>6, <2>2, <2>3
<1>10. ExactAccounts'
  <2> SUFFICES ASSUME NEW q \in 1..i'-1
               PROVE  /\ q \in results \cup errors
                      /\ q \in results /\ q \in errors <=> q \in late'
                      /\ index'[q] # <<>>
    BY <1>3 DEF ExactAccounts, Finished
  <2>1. CASE q = i
    <3>1. i' # i
      BY <1>1, <2>1 DEF Questions
    <3> QED
      BY <1>2, <1>4, <2>1, <3>1
  <2>2. CASE q # i
    BY <1>0, <1>2, <1>4, <1>a, <2>2 DEF ExactAccounts
  <2> QED
    BY <2>1, <2>2
<1>11. RecordsAgree'
  <2> SUFFICES ASSUME NEW q \in 1..i'-1
               PROVE  LET last == index'[q][Len(index'[q])]
                      IN /\ last = "error" <=> q \in errors
                         /\ Unshared(q)' => record[FileOf[q]] = [run |-> run, kind |-> last, of |-> q]
    BY <1>3 DEF RecordsAgree, Finished
  <2>1. CASE q = i
    BY <1>2, <1>4, <2>1
  <2>2. CASE q # i
    <3>1. q \in Finished /\ q \in Questions
      BY <1>a, <2>2
    <3>2. Unshared(q)' => Unshared(q)
      BY <1>1, <1>6, <3>1, PipelineAssumption DEF Unshared, Questions
    <3> QED
      BY <1>0, <1>4, <2>2, <3>1, <3>2 DEF RecordsAgree
  <2> QED
    BY <2>1, <2>2
<1>12. Contexts'
  BY <1>0, <1>1, <1>3, <1>6 DEF Contexts, InLoop, Reporting
<1>13. Reports' /\ ReportsInOrder'
  <2>1. \A f \in DOMAIN report : report[f] # run
    BY <1>0, <1>1, PipelineAssumption DEF Reports, Questions
  <2> QED
    BY <1>0, <1>3, <1>6, <2>1 DEF Reports, ReportsInOrder, TypeOK
<1> QED
  BY <1>7, <1>8, <1>9, <1>10, <1>11, <1>12, <1>13 DEF IInv

(* ------------------------- Reports and reruns --------------------------- *)

\* Of the reports only the one that is written changes, to this run's or to a torn
\* one.
LEMMA ReportSteps ==
    ASSUME TypeOK, NEW f \in DOMAIN report,
           report' \in {report, [report EXCEPT ![f] = run], [report EXCEPT ![f] = 0]}
    PROVE  /\ report' \in [{"summary", "index", "bundle"} -> 0..MaxRuns]
           /\ DOMAIN report' = DOMAIN report
           /\ report'[f] \in {report[f], run, 0}
           /\ \A g \in DOMAIN report : g # f => report'[g] = report[g]
<1>1. DOMAIN report = {"summary", "index", "bundle"} /\ run \in 0..MaxRuns /\ 0 \in 0..MaxRuns
  BY PipelineAssumption DEF TypeOK
<1> QED
  BY <1>1 DEF TypeOK

LEMMA WriteReportOK ==
    ASSUME IInv, NEW file \in {"summary", "index", "bundle"}, NEW next,
           <<file, next>> \in {<<"summary", "index">>, <<"index", "bundle">>, <<"bundle", "done">>},
           WriteReport(file, next)
    PROVE  IInv'
<1>0. /\ TypeOK /\ Places /\ Current /\ ExactAccounts /\ RecordsAgree
      /\ Contexts /\ Reports /\ ReportsInOrder
  BY DEF IInv
<1>1. /\ pc = file /\ i = N + 1
      /\ \/ report' = [report EXCEPT ![file] = run] /\ pc' = next
         \/ pc' = "aborted" /\ report' \in {report, [report EXCEPT ![file] = 0]}
      /\ UNCHANGED <<i, ctxs, builds, results, errors, index, late, run, record>>
      /\ next \in {"index", "bundle", "done"}
  BY <1>0 DEF WriteReport, Places, Reporting, memoryVars
<1>2. TypeOK'
  BY <1>0, <1>1, ReportSteps DEF TypeOK, Steps
<1>3. Places' /\ Current'
  BY <1>0, <1>1 DEF Places, Current, Untouched, InLoop, Reporting
<1>4. ExactAccounts' /\ RecordsAgree'
  BY <1>0, <1>1 DEF ExactAccounts, RecordsAgree, Finished, Unshared
<1>5. Contexts'
  BY <1>0, <1>1 DEF Contexts, InLoop, Reporting
<1>6. Finished = Questions
  BY <1>1, PipelineAssumption DEF Finished, Questions
<1>7. Reports' /\ ReportsInOrder'
  <2>1. /\ DOMAIN report = {"summary", "index", "bundle"} /\ DOMAIN report' = DOMAIN report
        /\ \A g \in DOMAIN report : g # file => report'[g] = report[g]
        /\ \A g \in DOMAIN report : report[g] \in Nat
        /\ run \in Nat /\ run # 0
    BY <1>0, <1>1, PipelineAssumption DEF TypeOK
  <2>2. Finished' = Questions /\ Questions' = Questions
    BY <1>1, <1>6 DEF Finished, Questions
  <2>3. report'[file] \in {report[file], run, 0} /\ (pc' = next => report'[file] = run)
        /\ pc' \in {next, "aborted"}
    BY <1>0, <1>1, <2>1 DEF TypeOK
  <2>4. Reports'
    BY <1>0, <1>1, <2>1, <2>3 DEF Reports
  <2>5. ReportsInOrder'
    <3>1. CASE file = "summary"
      BY <1>0, <1>1, <2>1, <2>2, <2>3, <3>1 DEF Reports, ReportsInOrder
    <3>2. CASE file = "index"
      BY <1>0, <1>1, <2>1, <2>2, <2>3, <3>2 DEF Reports, ReportsInOrder
    <3>3. CASE file = "bundle"
      BY <1>0, <1>1, <2>1, <2>2, <2>3, <3>3 DEF Reports, ReportsInOrder
    <3> QED
      BY <3>1, <3>2, <3>3
  <2> QED
    BY <2>4, <2>5
<1> QED
  BY <1>2, <1>3, <1>4, <1>5, <1>7 DEF IInv

LEMMA KillOK ==
    ASSUME IInv, Kill
    PROVE  IInv'
<1>0. /\ TypeOK /\ Places /\ Current /\ ExactAccounts /\ RecordsAgree
      /\ Contexts /\ Reports /\ ReportsInOrder
  BY DEF IInv
<1>1. /\ pc # "done" /\ pc' = "killed"
      /\ UNCHANGED <<i, ctxs, builds, results, errors, index, late, run>>
  BY DEF Kill, Over, memoryVars
<1>2. /\ record' \in [Files -> [run : 0..MaxRuns, of : 0..N,
                                kind : {"none", "torn", "ok", "error"}]]
      /\ RecordsAgree'
  <2>1. CASE pc \in {"write", "write_error"}
    <3>1. i \in Questions /\ record' \in {record, Torn(i)}
      BY <1>0, <2>1 DEF Kill, Places, InLoop
    <3>2. /\ record' \in [Files -> [run : 0..MaxRuns, of : 0..N,
                                    kind : {"none", "torn", "ok", "error"}]]
          /\ \A r \in Questions : FileOf[r] # FileOf[i] => record'[FileOf[r]] = record[FileOf[r]]
      BY <1>0, <3>1, RecordSteps
    <3> QED
      BY <1>0, <1>1, <3>1, <3>2, RecordsStay
  <2>2. CASE pc \notin {"write", "write_error"}
    <3>1. record' = record
      BY <2>2 DEF Kill
    <3> QED
      BY <1>0, <1>1, <3>1 DEF RecordsAgree, Finished, Unshared, TypeOK
  <2> QED
    BY <2>1, <2>2
<1>3. /\ report' \in [{"summary", "index", "bundle"} -> 0..MaxRuns]
      /\ report' = report
         \/ \E f \in DOMAIN report : pc = f /\ report' = [report EXCEPT ![f] = 0]
  <2>1. CASE pc \in DOMAIN report
    <3>1. report' \in {report, [report EXCEPT ![pc] = 0]}
      BY <2>1 DEF Kill
    <3> QED
      BY <1>0, <2>1, <3>1, ReportSteps
  <2>2. CASE pc \notin DOMAIN report
    BY <1>0, <2>2 DEF Kill, TypeOK
  <2> QED
    BY <2>1, <2>2
<1>4. TypeOK'
  BY <1>0, <1>1, <1>2, <1>3 DEF TypeOK, Steps
<1>5. Places' /\ Current' /\ Contexts'
  BY <1>0, <1>1 DEF Places, Current, Contexts, Untouched, InLoop, Reporting
<1>6. ExactAccounts'
  BY <1>0, <1>1 DEF ExactAccounts, Finished
<1>7. Reports' /\ ReportsInOrder'
  <2>1. CASE report' = report
    <3>1. Reports'
      BY <1>0, <1>1, <2>1 DEF Reports
    <3>2. ReportsInOrder'
      BY <1>0, <1>1, <2>1 DEF ReportsInOrder, Finished
    <3> QED
      BY <3>1, <3>2
  <2>2. ASSUME NEW f \in {"summary", "index", "bundle"}, pc = f,
               report' = [report EXCEPT ![f] = 0]
        PROVE  Reports' /\ ReportsInOrder'
    <3>1. /\ DOMAIN report = {"summary", "index", "bundle"}
          /\ DOMAIN report' = DOMAIN report /\ report'[f] = 0
          /\ \A g \in DOMAIN report : g # f => report'[g] = report[g]
          /\ \A g \in DOMAIN report : report[g] \in Nat
      BY <1>0, <2>2, PipelineAssumption DEF TypeOK
    <3>2. run \in Nat /\ run # 0
      BY <1>0, PipelineAssumption DEF TypeOK
    <3>3. Reports'
      BY <1>0, <1>1, <3>1, <3>2 DEF Reports
    <3>4. ReportsInOrder'
      BY <1>0, <1>1, <2>2, <3>1, <3>2 DEF Reports, ReportsInOrder, Finished
    <3> QED
      BY <3>3, <3>4
  <2> QED
    BY <1>0, <1>3, <2>1, <2>2 DEF TypeOK
<1> QED
  BY <1>2, <1>4, <1>5, <1>6, <1>7 DEF IInv

\* A rerun leaves all files, but no report of its own number yet.
LEMMA RerunOK ==
    ASSUME IInv, Rerun
    PROVE  IInv'
<1>0. /\ TypeOK /\ Reports /\ ReportsInOrder
  BY DEF IInv
<1>1. /\ run < MaxRuns /\ run' = run + 1
      /\ pc' = NextUp(1) /\ i' = 1
      /\ ctxs' = {} /\ builds' = NoBuilds
      /\ results' = {} /\ errors' = {} /\ late' = {}
      /\ index' = NoEntries
      /\ UNCHANGED <<record, report>>
  BY DEF Rerun
<1>2. 1 \in 1..N+1 /\ run' \in 1..MaxRuns /\ pc' \in {"context", "summary"}
      /\ (pc' = "context" => 1 \in Questions) /\ (pc' = "summary" => 1 = N + 1)
  BY <1>0, <1>1, PipelineAssumption, NextUpIs DEF TypeOK
<1>3. TypeOK'
  BY <1>0, <1>1, <1>2, LastOk DEF TypeOK, NoBuilds, NoEntries, Steps
<1>4. Places' /\ Current' /\ Contexts'
  BY <1>1, <1>2, PipelineAssumption
     DEF Places, Current, Contexts, Untouched, InLoop, Reporting, NoBuilds, NoEntries
<1>5. ExactAccounts' /\ RecordsAgree'
  BY <1>1 DEF ExactAccounts, RecordsAgree, Finished
<1>6. \A f \in DOMAIN report : report[f] < run'
  BY <1>0, <1>1, PipelineAssumption DEF Reports, TypeOK
<1>7. Reports' /\ ReportsInOrder'
  BY <1>0, <1>1, <1>2, <1>6, PipelineAssumption DEF Reports, ReportsInOrder, TypeOK
<1> QED
  BY <1>3, <1>4, <1>5, <1>7 DEF IInv

LEMMA StepOK == IInv /\ [Next]_vars => IInv'
<1> SUFFICES ASSUME IInv, [Next]_vars PROVE IInv'
  OBVIOUS
<1>1. CASE BuildContext
  BY <1>1, BuildContextOK
<1>2. CASE ReuseContext \/ AnnounceStart \/ Evaluate
  BY <1>2, EvaluateOK
<1>3. CASE WriteRecord
  BY <1>3, WriteRecordOK
<1>4. CASE EnterIndex \/ EnterErrorIndex
  BY <1>4, EnterOK
<1>5. CASE RecordError
  BY <1>5, RecordErrorOK
<1>6. CASE WriteErrorRecord
  BY <1>6, WriteErrorRecordOK
<1>7. CASE \/ WriteReport("summary", "index") \/ WriteReport("index", "bundle")
           \/ WriteReport("bundle", "done")
  BY <1>7, WriteReportOK
<1>8. CASE Kill
  BY <1>8, KillOK
<1>9. CASE Rerun
  BY <1>9, RerunOK
<1>10. CASE UNCHANGED vars
  BY <1>10 DEF vars, memoryVars, IInv, TypeOK, Places, Current, Untouched, ExactAccounts,
               RecordsAgree, Unshared, Finished, Contexts, Reports, ReportsInOrder
<1> QED
  BY <1>1, <1>2, <1>3, <1>4, <1>5, <1>6, <1>7, <1>8, <1>9, <1>10 DEF Next, RunStep

(* ------------------------------ Theorems -------------------------------- *)

LEMMA Invariance == Spec => []IInv
BY InitOK, StepOK, PTL DEF Spec

\* The variables of a run keep their shape, whatever fails and however often it is
\* run again.
THEOREM PipelineTypeCorrect == Spec => []TypeOK
BY Invariance, PTL DEF IInv

\* Every question the loop has passed is a result or an error, and both only if it
\* failed after its result had been kept (run, the except clause).
THEOREM ExactAccountsHold == Spec => []ExactAccounts
BY Invariance, PTL DEF IInv

\* The index, the error list and the record file agree on every question that is
\* over, also over the remains of killed runs and with shared files.
THEOREM RecordsAgreeHolds == Spec => []RecordsAgree
BY Invariance, PTL DEF IInv

\* run_ctx_cache: no sample is built twice in a run, and no question goes without.
THEOREM OneContextPerSampleHolds == Spec => []OneContextPerSample
<1>1. IInv => OneContextPerSample
  BY DEF IInv, Contexts, OneContextPerSample
<1> QED
  BY <1>1, Invariance, PTL

\* The three report files of a run come in order and after all its questions.
THEOREM ReportsInOrderHolds == Spec => []ReportsInOrder
BY Invariance, PTL DEF IInv

(* ----------------------------- Refinement ------------------------------- *)

\* The account the ledger has of a question.
EntryOf(q) == IF index[q] = <<>> THEN "open" ELSE index[q][Len(index[q])]

\* A new index entry is a first account of the question the loop is at, or turns
\* its ok into an error.
LEMMA EnterAccounts ==
    ASSUME IInv, EnterIndex \/ EnterErrorIndex
    PROVE  Ledger!LedgerNext
<1> DEFINE entries == [q \in Questions |->
                          IF index[q] = <<>> THEN "open" ELSE index[q][Len(index[q])]]
<1>0. TypeOK /\ Places /\ Current /\ ExactAccounts /\ Reports
  BY DEF IInv
<1>1. i \in Questions /\ pc # "done" /\ UNCHANGED <<run, report>>
  BY <1>0 DEF EnterIndex, EnterErrorIndex, Places, InLoop
<1>2. PICK at \in Questions : at = i
  BY <1>1
<1>3. /\ ~(report["bundle"] = run)
      /\ UNCHANGED (report["bundle"] = run)
  <2>1. report["bundle"] # run /\ report'["bundle"] # run'
    BY <1>0, <1>1 DEF Reports
  <2> QED
    BY <2>1, Zenon
<1>4. PICK kind \in {"ok", "error"} :
        /\ index' = [index EXCEPT ![at] = Append(@, kind)]
        /\ index[at] \in {<<>>, <<"ok">>} /\ (kind = "error" \/ index[at] = <<>>)
  BY <1>0, <1>2 DEF EnterIndex, EnterErrorIndex, Current
<1>5. \A q \in Questions : entries[q] = EntryOf(q)
  BY DEF EntryOf
<1>6. entries' = [entries EXCEPT ![at] = kind]
  <2>1. Append(index[at], kind) # <<>> /\ Append(index[at], kind)[Len(Append(index[at], kind))] = kind
    BY <1>4, AppendEntry
  <2>2. index'[at] = Append(index[at], kind) /\ \A q \in Questions : q # at => index'[q] = index[q]
    BY <1>0, <1>4 DEF TypeOK
  <2> QED
    BY <2>1, <2>2
<1>7. \A q \in 1..at-1 : entries[q] # "open"
  <2>1. \A q \in 1..at-1 : q \in Questions /\ index[q] # <<>> /\ index[q] \in Entries
    BY <1>0, <1>2, PipelineAssumption DEF ExactAccounts, Finished, Questions, TypeOK
  <2>2. \A e \in Entries : e # <<>> => e[Len(e)] # "open"
    BY DEF Entries
  <2> QED
    BY <1>5, <2>1, <2>2 DEF EntryOf
<1>8. \A q \in at+1..N : entries[q] = "open"
  <2>1. \A q \in at+1..N : q \in Questions /\ q > at
    BY PipelineAssumption DEF Questions
  <2>2. \A q \in at+1..N : index[q] = <<>>
    BY <1>0, <1>2, <2>1 DEF Places, Untouched
  <2> QED
    BY <2>1, <2>2
<1>9. CASE index[at] = <<>>
  <2>1. entries[at] = "open"
    BY <1>9
  <2>2. Ledger!Account(at)
    BY <1>3, <1>6, <1>7, <2>1 DEF Ledger!Account
  <2> QED
    BY <2>2 DEF Ledger!LedgerNext, Questions
<1>10. CASE index[at] = <<"ok">>
  <2>1. <<"ok">> # <<>>
    OBVIOUS
  <2>2. kind = "error" /\ entries[at] = "ok"
    BY <1>4, <1>10, <2>1
  <2>3. Ledger!Latest(at)
    BY <1>8, <2>2 DEF Ledger!Latest
  <2>4. Ledger!Revise(at)
    BY <1>3, <1>6, <2>2, <2>3 DEF Ledger!Revise
  <2> QED
    BY <2>4 DEF Ledger!LedgerNext, Questions
<1> QED
  BY <1>4, <1>9, <1>10

\* The bundle is the report, and it finds every question accounted for.
LEMMA BundleReports ==
    ASSUME IInv, WriteReport("bundle", "done"), pc' = "done"
    PROVE  Ledger!LedgerNext
<1>0. TypeOK /\ Places /\ ExactAccounts
  BY DEF IInv
<1>1. i = N + 1 /\ UNCHANGED <<index, run>> /\ report'["bundle"] = run'
  BY <1>0 DEF WriteReport, Places, Reporting, memoryVars, TypeOK
<1>2. \A q \in Questions : EntryOf(q) # "open" /\ EntryOf(q)' = EntryOf(q)
  <2>1. \A q \in Questions : index[q] # <<>> /\ index[q] \in Entries
    BY <1>0, <1>1, PipelineAssumption DEF ExactAccounts, Finished, Questions, TypeOK
  <2>2. \A e \in Entries : e # <<>> => e[Len(e)] # "open"
    BY DEF Entries
  <2> QED
    BY <1>1, <2>1, <2>2 DEF EntryOf
<1>3. Ledger!Report
  BY <1>1, <1>2 DEF Ledger!Report, EntryOf, Questions
<1> QED
  BY <1>3 DEF Ledger!LedgerNext

LEMMA RerunStartsAnew ==
    ASSUME IInv, Rerun
    PROVE  Ledger!LedgerNext
<1>1. index' = NoEntries /\ report'["bundle"] # run'
  <2>1. run' = run + 1 /\ report' = report /\ index' = NoEntries
    BY DEF Rerun
  <2>2. report["bundle"] \in Nat /\ run \in Nat /\ report["bundle"] <= run
    BY PipelineAssumption DEF IInv, Reports, TypeOK
  <2> QED
    BY <2>1, <2>2
<1>2. Ledger!StartAnew
  BY <1>1 DEF Ledger!StartAnew, Ledger!EmptyLedger, NoEntries, Questions
<1> QED
  BY <1>2 DEF Ledger!LedgerNext

LEMMA OthersStutter ==
    ASSUME UNCHANGED index, (report["bundle"] = run) <=> (report'["bundle"] = run')
    PROVE  UNCHANGED Ledger!ledgerVars
BY DEF Ledger!ledgerVars, Questions

\* The ledger is kept by the steps alone, also if a run stops anywhere.
LEMMA StepsKeepLedger == Init /\ [][Next]_vars => ImplementsLedger
<1>1. Init => Ledger!LedgerInit
  <2> SUFFICES ASSUME Init PROVE Ledger!LedgerInit
    OBVIOUS
  <2>1. report["bundle"] # run
    BY DEF Init
  <2>2. \A q \in Questions : index[q] = <<>>
    BY DEF Init, NoEntries
  <2> QED
    BY <2>1, <2>2 DEF Ledger!LedgerInit, Ledger!EmptyLedger, Questions
<1>2. IInv /\ IInv' /\ [Next]_vars => [Ledger!LedgerNext]_(Ledger!ledgerVars)
  <2> SUFFICES ASSUME IInv, IInv', [Next]_vars
               PROVE  Ledger!LedgerNext \/ UNCHANGED Ledger!ledgerVars
    OBVIOUS
  <2>0. (pc = "done" <=> report["bundle"] = run) /\ (pc' = "done" <=> report'["bundle"] = run')
    BY DEF IInv, Reports
  <2>1. CASE EnterIndex \/ EnterErrorIndex
    BY <2>1, EnterAccounts
  <2>2. CASE WriteReport("bundle", "done") /\ pc' = "done"
    BY <2>2, BundleReports
  <2>3. CASE Rerun
    BY <2>3, RerunStartsAnew
  <2>4. CASE \/ BuildContext \/ ReuseContext \/ AnnounceStart \/ Evaluate
             \/ WriteRecord \/ RecordError \/ WriteErrorRecord
    <3>1. UNCHANGED <<index, run, report>>
      BY <2>4 DEF BuildContext, ReuseContext, AnnounceStart, Evaluate, WriteRecord,
                  RecordError, WriteErrorRecord, memoryVars
    <3> QED
      BY <3>1, OthersStutter
  <2>5. CASE \/ WriteReport("summary", "index") \/ WriteReport("index", "bundle")
             \/ WriteReport("bundle", "done") /\ pc' # "done"
             \/ Kill
    <3>1. UNCHANGED index /\ pc # "done" /\ pc' # "done"
      BY <2>5 DEF WriteReport, Kill, Over, memoryVars
    <3> QED
      BY <2>0, <3>1, OthersStutter
  <2>6. CASE UNCHANGED vars
    BY <2>6, OthersStutter DEF vars, memoryVars
  <2> QED
    BY <2>1, <2>2, <2>3, <2>4, <2>5, <2>6 DEF Next, RunStep
<1> QED
  BY <1>1, <1>2, InitOK, StepOK, PTL DEF ImplementsLedger, Ledger!LedgerSpec

\* Every evaluation run keeps the ledger's promise: accounts in order, only the
\* latest revised, and a bundle only when all are there.
THEOREM PipelineImplementsLedger == Spec => ImplementsLedger
BY StepsKeepLedger, PTL DEF Spec
=============================================================================
