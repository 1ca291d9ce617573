---------------------------- MODULE MemboxIngest ----------------------------
(***************************************************************************)
(* MemboxAdapter.ingest_conversation: the conversation is written as       *)
(* Membox's raw data, built into boxes, linked into traces, and loaded.    *)
(* The boxes and the traces are appended to files of the sample, under a   *)
(* name that stays the same, so that a sample that is ingested again has   *)
(* the boxes of all its builds in one file, numbered from 0 in each.       *)
(* Anything may raise, and the process may be killed, also in a write.     *)
(***************************************************************************)
EXTENDS Conversation, MemboxBuilder, TraceLinker

CONSTANTS Conversations,   \* the conversations a sample may have
          MaxBuilds        \* bound: how often the sample is ingested

ASSUME IngestAssumption == /\ MaxBuilds \in Nat \ {0}
                           /\ \A c \in Conversations :
                                 /\ DOMAIN c.texts \subseteq 1..MaxSession
                                 /\ \A s \in DOMAIN c.texts : c.texts[s] \in Seq(BOOLEAN)
                                 /\ c.stamp \in [DOMAIN c.texts -> 0..MaxSession]

VARIABLES conversation,   \* the sample's conversation
          pc,
          build,          \* how often ingest was called
          boxFile,        \* the boxes in final_boxes_content.jsonl
          file            \* whether each file is there, and whether all its lines are whole

vars == <<builderVars, linkerVars, conversation, pc, build, boxFile, file>>

Init == /\ conversation \in Conversations
        /\ pc = "idle" /\ build = 0
        /\ messages = <<>> /\ next = 1 /\ buffer = <<>> /\ boxes = <<>>
        /\ queue = <<>> /\ traces = <<>>
        /\ boxFile = <<>>
        /\ file = [f \in {"boxes", "traces"} |-> "none"]

Over == pc \in {"idle", "done", "aborted"}

\* The flattened turns come back, and a builder and a linker of their own.
StartIngest == /\ Over
               /\ build < MaxBuilds
               /\ build' = build + 1
               /\ pc' = "build"
               /\ Prepare(Messages(conversation))
               /\ queue' = <<>> /\ traces' = <<>>
               /\ UNCHANGED <<conversation, boxFile, file>>

Build == /\ pc = "build"
         /\ BuildStep
         /\ UNCHANGED <<linkerVars, conversation, pc, build, boxFile, file>>

\* What a failing or interrupted append leaves: some of the lines, and maybe a
\* part of one, which stays in the middle of the file for good.
AppendedLines(lines) == {SubSeq(lines, 1, n) : n \in 0..Len(lines)}

StateAfterAppend(f) == IF file[f] = "torn" THEN {"torn"} ELSE {"whole", "torn"}

\* save_incremental, which writes nothing if there are no boxes.
SaveBoxesWhen(finished) ==
    /\ pc = "build"
    /\ finished
    /\ \/ /\ pc' = "read"
          /\ boxFile' = boxFile \o boxes
          /\ file' = IF boxes # <<>> /\ file["boxes"] = "none"
                     THEN [file EXCEPT !["boxes"] = "whole"] ELSE file
       \/ /\ pc' = "aborted"
          /\ boxes # <<>>
          /\ \E lines \in AppendedLines(boxes) : boxFile' = boxFile \o lines
          /\ \E state \in StateAfterAppend("boxes") : file' = [file EXCEPT !["boxes"] = state]
    /\ UNCHANGED <<builderVars, linkerVars, conversation, build>>

\* Fault: the box that is still open is not sealed.
SaveBoxesUnsealed == SaveBoxesWhen(next > Len(messages))

SaveBoxes == SaveBoxesWhen(Sealed)

\* TraceLinker.run reads the boxes of all builds: a torn line raises.  Without a
\* file it returns, but then the retriever's load raises.
ReadBoxes == /\ pc = "read"
             /\ IF file["boxes"] = "whole"
                THEN pc' = "link" /\ StartLinking(boxFile)
                ELSE pc' = "aborted" /\ UNCHANGED linkerVars
             /\ UNCHANGED <<builderVars, conversation, build, boxFile, file>>

Link == /\ pc = "link"
        /\ LinkBox
        /\ UNCHANGED <<builderVars, conversation, pc, build, boxFile, file>>

\* The traces are appended if there are any, and the retriever loads the boxes,
\* which have just been read without an error.
SaveTraces == /\ pc = "link"
              /\ Linked
              /\ \/ /\ pc' = "done"
                    /\ file' = IF traces # <<>> /\ file["traces"] = "none"
                               THEN [file EXCEPT !["traces"] = "whole"] ELSE file
                 \/ /\ pc' = "aborted"
                    /\ traces # <<>>
                    /\ \E state \in StateAfterAppend("traces") :
                          file' = [file EXCEPT !["traces"] = state]
              /\ UNCHANGED <<builderVars, linkerVars, conversation, build, boxFile>>

\* A log write that fails, a chaining answer that is a list, or a kill.
Abort == /\ ~Over
         /\ pc' = "aborted"
         /\ UNCHANGED <<builderVars, linkerVars, conversation, build, boxFile, file>>

IngestStep == \/ StartIngest \/ Build \/ SaveBoxes \/ ReadBoxes \/ Link \/ SaveTraces

Next == IngestStep \/ Abort

Spec == Init /\ [][Next]_vars

(* ----------------------------- Properties ------------------------------ *)

SpokenTurns(c) == UNION {ToSet(Spoken(c, s)) : s \in DOMAIN c.texts}

\* Everything read so far, in the order in which it was put into boxes.
BoxedTurns == FlattenSeq([k \in DOMAIN boxes |-> boxes[k].holds])
              \o [k \in DOMAIN buffer |-> messages[buffer[k]].turn]

TypeOK == /\ conversation \in Conversations
          /\ pc \in {"idle", "build", "read", "link", "done", "aborted"}
          /\ build \in 0..MaxBuilds
          /\ next \in 1..Len(messages)+1
          /\ \A k \in DOMAIN buffer : buffer[k] = next - Len(buffer) - 1 + k
          /\ \A k \in DOMAIN boxes : boxes[k].id = k - 1 /\ boxes[k].events \in Extractions
          /\ \A k \in DOMAIN boxFile : \E j \in 0..k-1 : boxFile[k].id = j
          /\ ToSet(queue) \subseteq ToSet(boxFile)
          /\ file \in [{"boxes", "traces"} -> {"none", "whole", "torn"}]

\* Whatever the text orders of session keys and of timestamps do to a
\* conversation, every turn with a text reaches Membox exactly once, in a session
\* with the turns of the same timestamp only, after the earlier turns of its own
\* session; and where the timestamps' text order is the sessions' order, so is
\* Membox's.
TurnsReachMembox ==
    LET turn(i) == messages[i].turn
        group(i) == Group(conversation, turn(i).session)
    IN  build > 0 =>
        /\ Len(messages) = Cardinality(SpokenTurns(conversation))
        /\ {turn(i) : i \in DOMAIN messages} = SpokenTurns(conversation)
        /\ \A i, j \in DOMAIN messages :
              /\ messages[i].session = messages[j].session <=> group(i) = group(j)
              /\ i < j /\ turn(i).session = turn(j).session => turn(i).place < turn(j).place
        /\ (\A i, j \in DOMAIN messages :
               turn(i).session < turn(j).session => group(i) < group(j))
           => \A i, j \in DOMAIN messages : i < j => turn(i).session <= turn(j).session

\* However the model splits, every message read is in exactly one box or in the
\* buffer, in order; a box covers all of a stretch of one session; and one with a
\* single message is only ever the last of its session.
MessagesBoxed ==
    /\ BoxedTurns = [i \in 1..next-1 |-> messages[i].turn]
    /\ \A k \in DOMAIN boxes :
         LET stretch == {i \in DOMAIN messages :
                            /\ messages[i].session = boxes[k].session
                            /\ messages[i].place \in boxes[k].first .. boxes[k].last}
         IN  /\ {messages[i].turn : i \in stretch} = ToSet(boxes[k].holds)
             /\ boxes[k].first = boxes[k].last =>
                   \A i \in DOMAIN messages :
                      messages[i].session = boxes[k].session
                      => messages[i].place <= boxes[k].last

IdsOf(trace) == {trace.entries[k].box : k \in DOMAIN trace.entries}

\* A trace lists each box it has entries of once, in order, also when boxes of two
\* builds share a number; and an event that is the only one of its box is in a
\* trace once the box is linked, whatever the model answers.
TracesAccount ==
    /\ \A t \in DOMAIN traces :
         LET ids == traces[t].boxes
         IN  /\ ToSet(ids) = IdsOf(traces[t])
             /\ \A i, j \in DOMAIN ids : i < j => ids[i] < ids[j]
    /\ pc = "link" =>
         \A b \in ToSet(boxFile) \ ToSet(queue) :
            Len(b.events) = 1 =>
               \E t \in DOMAIN traces : \E k \in DOMAIN traces[t].entries :
                  /\ traces[t].entries[k].box = b.id
                  /\ b.events[1] \in traces[t].entries[k].events

\* What retrieval returns for a box number: the last box of the file that has it.
Shown(file_) == {file_[k] : k \in {i \in DOMAIN file_ :
                                      \A j \in i+1..Len(file_) : file_[j].id # file_[i].id}}

\* When an ingest succeeds, retrieval can return every message of the conversation,
\* whatever earlier builds, whole or broken off, have left in the sample's files.
EveryMessageShown ==
    pc = "done" => SpokenTurns(conversation)
                     = UNION {ToSet(b.holds) : b \in Shown(boxFile)}
=============================================================================
