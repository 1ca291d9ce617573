# A verification project for memory_eval

`memory_eval` evaluates conversational memory systems. For each question of a
dataset it asks three probes about a memory system: is the fact stored
(encoding), is it retrieved (retrieval), and does the answer follow from perfect
evidence (generation). An attribution agent reconciles the three verdicts into a
defect set, a primary cause and secondary causes. This directory holds TLA+
models of that program, the TLC runs that check them on small instances, and
TLAPS proofs of what holds for every instance.

Paths below are relative to the repository. `eval_core`, `pipeline` and
`adapters` are directories of `src/memory_eval`.

## Inventory

| Component | State it keeps | Operations | What makes it correct |
|---|---|---|---|
| Three-probe engine, `eval_core/engine.py` | a thread pool and three futures per question | submit three probes, wait for them in order, leave the pool, attribute | no thread survives the call; the reported error does not depend on the schedule; the call ends |
| Probes' adapter calls, `encoding_agent.collect_observations`, `retrieval.py`, `generation.py` | candidates found, online answer | export, four candidate sources tried in turn, two merged native retrievals, original retrieval, oracle and online answer | strict mode swallows no exception, lenient mode only those of calls in a try block |
| Probe judgements, `encoding_agent.assess_bundle`, `retrieval.py`, `generation.py`, `correctness_judge.py` | none | LLM verdict, rule verdict or exception, by profile | no rule verdict where rules are switched off; states and defects that fit together |
| Attribution, `attribution_agent.py` | none | reconcile RF, unite defects, name causes | RF iff stored but not retrieved; blame and defects agree |
| LLM client, `llm_assist.py` | none | one HTTP call with a timeout, JSON extraction | raises exactly when success is required |
| Pipeline, `pipeline/runner.py` | run-context cache, results, errors, index, files | one record per question, error path, three report files | every question accounted for; files agree with the index, also after failures and reruns |
| O-Mem adapter, `adapters/o_mem_adapter.py` | run context: memory manager, native retrieval cache | ingest, export, find, hybrid, native retrieval, answers | an unlocked cache stays consistent under three threads |
| O-Mem fork, `system/O-Mem-StableEval/memory_chain` | working, episodic and persona memory | receive message, evolve, retrieve | no message lost between the memories |
| Membox adapter and fork, `adapters/membox_adapter.py`, `system/Membox_stableEval/membox.py` | the builder's buffer; per sample a box file, a trace file and a vector file, under a name that stays the same; module-global configuration | convert, box, link, load; rank boxes, answer | every turn is in a box that retrieval shows, also after a rebuild; writes of the unlocked vector file that do not overlap lose nothing, and what overlapping ones lose is over with them |
| GAM and MemOS adapters | lists of turns | keyword retrieval | - |
| Command, `scripts/run_real_memory_eval.py` | manifest, the baseline's results, errors and index | build, baseline, eval | a manifest names what was built; counts match records; an answer is shown with the context it was given |
| Dataset builder, `dataset/locomo_builder.py` | none | samples from a data file | evidence belongs to its question |

Interaction. The command creates an adapter and runs the pipeline; the pipeline
builds one run context per sample and hands it, question by question, to the
engine; the engine's three threads call the adapter with that shared context;
O-Mem's retrieval calls meet in the context's cache; the verdicts meet in the
attribution agent; the pipeline writes what comes of it. Membox's threads, and
baseline and evaluation processes over one build, meet in its vector file; its
builds of one sample meet in the box file.

Hard behaviours: a probe that fails while the others run; error precedence;
three threads on a dictionary without a lock; configuration switches that must
all guard the same fallback; failures between keeping, writing and announcing a
result; a second run over the files of a first one; files that are appended to
by every build, or rewritten by every reader; orders that are text orders of
numbers and dates. `PROJECT.json` lists each
hazard at its line, with the properties that would catch it.

## Modules

| Module | Models | How it corresponds to the code |
|---|---|---|
| `Verdicts` | the decision tables of probes, judge and attribution | one operator per function; a reply is *none*, *array*, *broken* or *object*, which is all the code distinguishes |
| `Judging` | one question: three verdicts in any order, then attribution | `enc`, `ret`, `gen` are the `ProbeResult`s, `result` the `AttributionResult` |
| `ThreeProbeEngine` | `evaluate`, `evaluate_with_adapters` and the adapter calls of the probes | `main` is the calling thread, `status` the futures, `pc` each probe's next call; `Plain` is a call outside any `try`, such as the one for the external retriever, `Guarded` one whose exception `strict_adapter_call` decides about |
| `ThreeWayJoin` | what the engine promises | abstract: probes settle, one decision |
| `NativeCache` | `_native_retrieve` | lookup, native call and store are separate steps of each thread; `calls` and `failures` are history |
| `OMemQuestion` | the engine over that cache | conjoins engine and cache: a retrieval is a hit, or a miss followed later by a return or a failure |
| `OMemIngest` | `_feed_turns`, `receive_message`, the two `update_*_episodic_memory`, `evolve_*`, `_sync_omem_state` | one action per kind of model answer: `working` and `cache` are the two memories of each role, `profiles` the rounds that the event, fact and attribute dictionaries mention, `batch` the local list of popped messages, `tries` the `fail_times` of the current item |
| `MemoryOverflow` | what a layered memory promises | abstract: per speaker, messages leave the short-term memory oldest first, for the long-term memory or for good |
| `EvalPipeline` | `ThreeProbeEvaluationPipeline.run` | `pc` is the place in the loop, `record` and `report` are the files, which a broken write leaves torn, `FileOf` what `_safe_segment` makes of a question's ids; `late` is history |
| `QuestionLedger` | what the pipeline promises | abstract: an account per question, in order, revisable only while it is the latest |
| `Conversation` | `_conversation_to_turns`, `_to_membox_conversation`, the order in which `build_all` reads | functions of a conversation; a session key is its number, whose place in text order `InTextOrder` computes; a timestamp is its place in text order |
| `Selections` | what a comprehension or a loop with an append keeps of a list | `Selected`, which three modules read lists with |
| `MemboxBuilder` | `MemoryBuilder.build_all`, `_seal` | `next` and `buffer` are the loop; the answers to the continuation and extraction calls are the alternatives |
| `TraceLinker` | `TraceLinker.run` | one action per box, over every similarity, every matching answer and the answers in `Chainings` |
| `MemboxIngest` | `MemboxAdapter.ingest_conversation` | `boxFile` and `file` are what is on disk; `pc` the phase: build, append, read, link, append |
| `VectorStore` | `EmbeddingStore` and `_score_and_rank` | per thread: load and fill, truncate, finish the write; `disturbed` (rankings overlapped or a write failed, and one of them is not over), `computed` and `again` are history |
| `MemboxBaseline` | `run_baseline` over a Membox sample | the steps *answer*, *show*, *judge* stand where `EvalPipeline` has one evaluation; `quiet` (since the answer, no ranking has met a half-written file and no other thread has written in an overlap) is history |
| `JudgingProofs`, `ThreeProbeEngineProofs`, `NativeCacheProofs`, `OMemQuestionProofs`, `OMemIngestProofs`, `EvalPipelineProofs`, `MemboxIngestProofs`, `MemboxBaselineProofs` | - | the proofs |
| `MC*` | - | constants for TLC |

`OMemQuestion` composes `ThreeProbeEngine` and `NativeCache`. `Judging` and
`ThreeProbeEngine` are two views of one call: the engine leaves open whether a
judgement reaches a verdict or raises, `Judging` says which it does.
`OMemIngest` is what happens before any question of a sample is asked: it is the
work behind `EvalPipeline`'s step `BuildContext`; `MemboxIngest`, which composes
`Conversation`, `MemboxBuilder` and `TraceLinker`, is the same for the other
memory system. `MemboxBaseline` composes `EvalPipeline` and `VectorStore`: it
reuses the pipeline's context, record and report actions, replaces its evaluation
by three steps that rank over the store, and is checked to implement the pipeline.
O-Mem's code has one copy of the
overflow for the user and one for the agent, which differ in what they print and
show to the model; the module has one, with a memory per role.
Definitions whose comment starts with *Fault* are not part of a specification:
each is a plausible bug in the code of the definition that follows it, and
putting it in that definition's place makes a property fail.

## Runs

| Run | Checks | Instance |
|---|---|---|
| `judging_profiles` | `RFGate`, `NoSilentRule`, `BlameMatchesDefects`, `DefectsBlamed`, `JudgementMatchesVerdict` | six profiles (default, the command's with `--no-strict-judge` and `--no-llm-assist`, three mixed ones), ten encoding and seven retrieval replies, one of them a fact that exists with a defect, four retrieval views, 36 answer sets, four attribution replies; 66,632 states |
| `engine` | `NoProbeOutlivesCall`, `ErrorIsFirstInOrder`, `StrictSwallowsNothing`, `EvaluationEnds`, and that it implements `ThreeWayJoin` | three, two and zero configured workers, strict and lenient, a full and a bare adapter; 49,698 states |
| `omem_question` | `BoundedDuplicates`, `CacheAccounts`, and that it implements the engine | `top_k` and the encoding probe's `top_k` both 5, so that all three threads ask for one key; 49,304 states |
| `pipeline` | `ExactAccounts`, `RecordsAgree`, `OneContextPerSample`, `ReportsInOrder`, `RunsEnd`, and that it implements `QuestionLedger` | four questions of two samples, two of them with one record file, all five kinds of failure, torn writes, two runs; 41,567 states |
| `omem_ingest` | `MessagesAccounted`, `NeverOverfull`, `RoundsArchived`, `TopicsLead`, `IngestEnds`, and that it implements `MemoryOverflow` | five turns of two speakers, two topics, working memory of three, two popped at a time, every router answer, an abort anywhere; 35,106 states |
| `membox_ingest` | `TurnsReachMembox`, `MessagesBoxed`, `TracesAccount`, `EveryMessageShown` | five conversations of up to four turns in sessions 2 and 10, with timestamps in, against and without the sessions' order, turns without a text and empty sessions; two builds, every split, up to two events per box, torn appends; 2,093,981 states |
| `membox_baseline` | `BaselineAccounts`, `ContextMatchesAnswer`, `ComputedOnce`, and that it implements `EvalPipeline` | two questions of one sample, one of them sharing its key with the text of a probe, one box, one probe thread, failing embeddings, writes, calls and prints, kills; 6,105,581 states |
| `judging_strict`, `judging_healthy_neg`, `judging_no_key`, `omem_ingest_overflow`, `membox_shared_key` | statements of the repository the code does not keep (below) | the default profile, or the rule profile; the conversation of `omem_ingest`; the instance of `membox_baseline` |

Why the bounds are enough. The engine always has three probes; worker counts 0,
2 and 3 give the corrected, the contended and the uncontended pool (one worker
is what 0 becomes). Verdict tables are finite: the chosen replies cover each
kind of reply, an unknown state and each state that a branch tests. The cache's
worst case is one shared key. Four questions give a first, a middle and a last
one, a context that is reused after another was built, and a record file that a
later question writes again; the second run is
what meets files of an earlier one, and a third would meet nothing new.
In the ingest one role overflows, with a batch of two and a message left over, and
the other does not; two topics are needed for grouping and for an update that
names another topic; one message has two attributes, so that giving up one is
different from giving up all. A second overflow of a role is outside that
instance. For Membox, sessions 2 and 10 are the smallest pair whose text order is not
their order; four turns of one session split into boxes in every way, one of
which has a third message that is asked about; the second build is the first one
to find boxes with numbers of its own. Two threads are the least that race for
the vector file, and lose each other's vectors in it; two questions tell the context of
one from that of another. `MaxRuns`
and `MaxBuilds` are the only bounds on behaviour; `MaxSession` bounds the session
numbers, to two digits (the LoCoMo data has at most 35 sessions). Every safety
property that a passing run checks is also proved, for every value of the
constants: `MaxRuns` and `MaxBuilds` among them, and any number of questions,
turns, threads and boxes. What the runs alone show is that the models end.

Fairness. The ingest assumes weak fairness of its only thread: each model call
returns or fails after five attempts (`utils.py:99`), and `_feed_turns` puts a
timeout on each turn. The engine assumes weak fairness of the caller, of the pool and of
each probe: the interpreter schedules runnable threads, an LLM call has a timeout
of 120 s (`llm_assist.py:71`) and an asynchronous O-Mem call one of its own
(`_run_awaitable`). The pipeline assumes weak fairness of its own step, because
evaluations end (`EvaluationEnds`); kills and reruns are not fair. The Membox
modules state no fairness: their loops go once over a finite list, and what is
asked of them is safety. `ImplementsPipeline` accordingly leaves out the
pipeline's fairness.

### Where code and documents disagree

- `judging_strict`. In the default profile `generation.py:98-100` sets `correct`
  to false before any judgement: no oracle answer can pass, and one that the
  judge calls correct makes the probe raise. The prompts define correct answers
  and a PASS (`prompts.py:188`, `:274`).
- `judging_healthy_neg`. `_primary_cause` does not look at the task type, so a
  healthy NEG question is blamed on encoding; `prompts.py:64` and `:307` say a
  NEG MISS is correct and no defect.
- `judging_no_key`. `README.md:286` promises a fallback to rules without a key;
  the default configuration raises.
- `omem_ingest_overflow`. O-Mem's README says of the working memory "Oldest
  messages overflow to Episodic Memory" (`O-Mem-StableEval/README.md:75`). A
  message for which the router's first three answers do not fit is skipped before
  it is archived (`memory_manager.py:142`, `:197` for the agent); a fourth answer
  is asked for and thrown away. The ingest ends as if nothing had happened.
- `membox_shared_key`. `_score_and_rank` keeps a text's vector under the first 80
  characters of the text (`membox_adapter.py:355`), and `EmbeddingStore`, "Lazy
  embedding cache: per-sample load, fetch-or-compute, flush on demand."
  (`membox.py:377`), returns what is there without comparing the text. The
  encoding probe ranks for a question followed by its gold evidence; of a
  question of 80 characters or more that is the same key. From then on the question
  itself is ranked for by the vector of the evidence, or the other way round;
  `adapter_protocol.py:83` promises the retrieval of the underlying memory
  system. In the LoCoMo data 176 of 1,986 questions are that long.

Also met, and not checked by a run: a fact that exists but whose judge found defects is
no primary cause (`attribution_agent.py:109` looks at the state), so that a question
whose only defects are these has none, with encoding as a secondary cause
(`DefectsBlamed` says what remains true); `tests/test_eval_agents.py:198` expects a
hard veto that `_hard_veto` never gives; the generation probe retrieves with a
fixed `top_k` of 5 (`generation.py:44`, `:57`) whatever the command is told; the
comment at `o_mem_adapter.py:299` calls a path non-real that an empty native
result takes in real mode. In Membox: session keys (`runner.py:262`) and timestamps
(`membox_adapter.py:527`) are sorted as texts, which breaks the chronology of all ten
LoCoMo conversations (`TurnsReachMembox` says what survives); an embedding that
failed is kept as zeros for good (`ComputedOnce` includes that); a chaining reply
that cannot be parsed drops two or more unmatched events (`membox.py:846`), and
one that is a list raises; an append that is cut short makes the files of the sample
unusable, because every later build reads them all; after a rebuild
the vectors of boxes are those of the first build while the text that is shown is
the last one's; the baseline counts a question before it writes its record
(`run_real_memory_eval.py:273`).

## Proofs

Everything proved is for all values of the constants that satisfy the assumptions
below.

- `JudgingProofs`, all five properties. The invariant `IInv` strengthens the types
  with the provenance of each verdict: a verdict reached under
  `disable_rule_fallback` came from a reply (`EncSource`, `RetSource`, `GenSource`,
  lemmas about the operators of `Verdicts`), and with the relation between the
  result and the verdicts it was built from. What a result says of defects and
  causes needs more of that relation, `Grounds`: from which reply and which answers
  the verdicts were computed. `EncByRuleOnly`, `EncRuleDefects`, `RetPosStates`
  and `GenPasses` then say what the decision tables can return. `DefectsBlamed` follows
  layer by layer: a fact that exists keeps its layer from being the primary cause, not
  from being named, and where rules decide it has no defects; retrieval is named
  without a defect only where the reconciliation has suppressed its RF.
- `ThreeProbeEngineProofs`, every safety property and the refinement. None of the
  properties is inductive: `EInv` adds what
  the caller knows of the futures it has joined (`JoinedOk`, `Outcome`), that
  probes not yet started wait (`PoolInv`), and that a call that raised was
  tolerable or has cost a probe (`CallInv`). All thirteen kinds of probe step are
  first reduced to one shape, `ProbeStep`. The refinement maps a step of a probe
  to `Settle` or a stutter, leaving the pool with an exception and attribution to
  `Decide`, everything else to stutters.
- `NativeCacheProofs`, for any finite set of threads. `BoundedDuplicates` needs that
  the calls begun for a key are the
  failed ones, those under way and those returned, and that each returned one is
  charged to a different thread.
- `OMemQuestionProofs`. Every step of the composition is one of the engine or leaves
  its variables (`EngineStep`), and one of the cache or leaves its (`CacheStep`);
  so it implements both, and the theorems of the two hold of it without a proof of
  their own. What neither can say is `NoCallOutlives`: a call that is under way is of
  the key its probe is waiting for, so that none is left when the evaluation returns.
- `OMemIngestProofs`, every safety property and the refinement, for every
  conversation, size and refresh rate. `IInv` adds `Control` to the types, the first
  properties being inductive only with it: between turns nothing is left of a batch, an
  event is routed only while there is one in the batch, and a fact or attribute
  belongs to an archived message. `MessagesAccounted` becomes inductive as
  `Accounts`, which adds that only a message that was received is dropped: what a
  role retains, archive first, is in the order of the conversation, and each step
  moves its first message or appends its last. `TopicsLead` rests on the order in which
  the topic map is rebuilt, by the latest place of a topic. The refinement counts
  a popped message as
  short-term until its event is routed, so that popping a batch is part of
  `Remember`, routing an event is `Overflow`, giving one up is `Forget`, and the
  rest stutters.
- `EvalPipelineProofs`, every safety property and the refinement, for any number of
  questions, samples, shared record files, faults and runs. The inductive invariant has
  four parts beside the properties: `Places`, what the questions before, at and after the
  one under way have by now; `Current`, what the step has done for that one;
  `Contexts`, which samples are built; `Reports`, how far the reports are, and
  that the bundle is there exactly in the end. A step enters an account of the
  current question or of none (`EnterAccounts`, `OthersStutter`), which is all
  `QuestionLedger` asks.
- `MemboxBaselineProofs`, every property. `Evaluation` is an
  instance of `EvalPipelineProofs` with the three steps of a question seen as one: a
  step of the baseline is a step of an evaluation run or none of it
  (`EvaluationStep`), so that the pipeline's invariant holds of it, it implements
  `EvalPipeline`, and through that `QuestionLedger`. `BaselineInv` adds
  what is the baseline's own. `StoreInv` (for `ComputedOnce`): while
  nothing is disturbed at most one thread is between its load and the end of
  its write, it has all that the file has and everything computed, and the file
  has everything computed if there is no such thread. A step that is a disturbance, or
  one of those that were disturbed, keeps this because no thread is left in a write once
  the last of them is over (`Disturbed`), any other because what it computes is new
  (`Undisturbed`). `Types`; `Answering`, what the caller holds at each step of a
  question; `Agreeing`, that the vectors an answer rests on are `Kept`: in the file
  whenever it is whole, and while nothing is disturbed with every thread that is about
  to write, so that others may write in between (`ProbeKept`); `Listed`, that a question is a result and an error
  only if it failed late.
- `MemboxIngestProofs`, every property, for every conversation, split, answer and number
  of builds. Half of the module is about lists. What `FlattenSeq` returns
  would be an induction over its rows; it is proved instead by a least counterexample
  (`LeastNumber`): the first rows lie end to end, and so do these with the next
  (`LaysNext`, `FlattenLays`). `SelectedPicks` says from this what a comprehension
  keeps, `FlattenedLists` that every spoken turn is read once, `MessagesStem` and
  `MessagesReach` what the timestamps' groups do to their order, by which
  `TurnsReachMembox` is a fact about a function. The invariant `IInv`: `Given`, the
  messages are those of the conversation; `Buffered`, the buffer has the latest ones
  read, of one session; `Sealing`, each box covers a stretch of the messages
  (`Covers`), and the boxes laid end to end are the messages before the buffer;
  `Filed`, the boxes of the file are of this conversation and those of this build end
  it once they are written, so that they are the last of their numbers
  (`LatestShown`), whatever earlier builds left; `Linking` and `SinglesLinked`, a trace
  ends before the boxes that wait, which are sorted by number (`QueueByNumber`).

Assumptions. They say what kind of values the constants have, and TLC evaluates
each on the runs: `JudgingAssumption` (profiles, replies and answers are among
those the decision tables tell apart), `EngineAssumption`, `CacheAssumption`
(finitely many threads), `OMemAssumption` (the cache's threads and keys are those of the
probes), `PipelineAssumption` (each question has a sample and a file),
`StoreAssumption` and `BaselineAssumption` (each question has a text, the caller is
one of the threads, an evaluation may raise because the ranking in it may, and
"no answer yet" is no set of vectors), `BuilderAssumption` and `LinkerAssumption`
(events and chains come in lists), and one named `IngestAssumption` for each of
the two memories: of `OMemIngest`, a batch is positive and a speaker has a role; of
`MemboxIngest`, session numbers have at most two digits and each session a list of turns
and a timestamp or none.

Only model-checked: liveness (`EvaluationEnds`, `RunsEnd`, `IngestEnds`, and the fair
part of `ImplementsJoin`), which the prover does not do. The five runs that expect a violation
are counterexamples; there is nothing to prove about them.

## Abstractions and what is not modelled

Texts, scores, prompts and evidence records are data: a model keeps the
comparison the code makes, not the values. Defect lists are sets. The native retrieval of O-Mem is taken to read its
memory only. A profile is the set of rounds under each word, without the texts;
IGNORE and UPDATE do the same and are one answer. The files O-Mem writes of its
memories, its cached loading, persona generation and the scores of its retrieval
are not modelled. Turn indices are taken to be distinct. A vector is the text it was
computed from, and which traces are similar to an event is left open. Two writes of the
vector file that overlap leave one of them or nothing readable. While rankings overlap
updates of the file really are lost: nothing is promised of the vectors then, in
particular that none is computed again or that a context finds those of its answer.
What `ComputedOnce` and `ContextMatchesAnswer` say is where the damage ends: with the
rankings it befell, after which the file is sound again, and at answers that were in no
such overlap, whatever was written in between.

Not modelled, of modelled components: the O-Mem adapter's export, answers and
lightweight contexts (string work, and a mode that is off by default); Membox's
reading back of the turns from its raw data, its
matching of memory records, and the answer generation and metrics of the fork that
no adapter calls; its module-global configuration, in which every ranking looks
up the vector file (`membox.py:382`): a context would use the file of another sample
if questions came back to an earlier one, but the dataset builder lists them episode
by episode (`locomo_builder.py:190`); the command's arguments, and its build loop, which only
ingests samples in turn and writes one manifest. Of the dataset builder there is
nothing but parsing and formatting. GAM and MemOS keep lists without shared state,
and the adapter registry is a table. The auxiliary scripts wrap or print what the
rest does; the second copy of the O-Mem adapter is imported by nothing; the
agentic-rag demonstration is another application; and the vendored systems,
nearly all lines of the repository, are third-party programs which the adapters of
the recommended systems never start.

## Plan

The system is modelled as far as planned, and every safety property and refinement
of the passing runs is proved. What would say more about it:

1. The two abstract modules that have no theorem of their own: what
   `QuestionLedger` and `MemoryOverflow` promise their readers (no account is lost
   once the next is entered; nothing returns to the short-term memory), proved once
   and inherited through the refinements.
2. Action properties of `MemboxIngest`: the box file only grows, and a trace keeps the
   entries it has.
3. A bound on what a rebuild may hide: which boxes of an earlier build retrieval can
   still return.
