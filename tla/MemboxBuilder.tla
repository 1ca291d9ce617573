--------------------------- MODULE MemboxBuilder ----------------------------
(***************************************************************************)
(* Membox's MemoryBuilder: messages are collected in a buffer until the    *)
(* session changes or the model finds that the next message does not go on *)
(* with the topic; then the buffer is sealed as a box, whose events the    *)
(* model extracts.  The second message of a box is not asked about.  A     *)
(* failing continuation call counts as No, a failing extraction as no      *)
(* events.                                                                 *)
(***************************************************************************)
EXTENDS Naturals, Sequences, SequencesExt

CONSTANTS Extractions   \* the event lists an extraction may come back with

ASSUME BuilderAssumption == /\ <<>> \in Extractions
                            /\ \A events \in Extractions : events \in Seq(ToSet(events))

VARIABLES messages,   \* the messages of the conversation, in order
          next,       \* the number of the message that comes next
          buffer,     \* MemoryBuilder.msgs, by number
          boxes       \* the boxes sealed by this builder

builderVars == <<messages, next, buffer, boxes>>

\* A new builder.
Prepare(conversation) == /\ messages' = conversation
                         /\ next' = 1 /\ buffer' = <<>> /\ boxes' = <<>>

SameSession == messages[Last(buffer)].session = messages[next].session

\* Fault: the number is increased before the box is made.
BoxFromOne(events) == [id |-> Len(boxes) + 1, holds |-> [k \in DOMAIN buffer |-> messages[buffer[k]].turn],
                       session |-> messages[Last(buffer)].session,
                       first |-> messages[Head(buffer)].place,
                       last |-> messages[Last(buffer)].place,
                       events |-> events]

\* _seal: the box, with the session of its last message and the places of its
\* first and last one in the session.  Boxes are numbered as they are sealed.
Box(events) == [id |-> Len(boxes), holds |-> [k \in DOMAIN buffer |-> messages[buffer[k]].turn],
                session |-> messages[Last(buffer)].session,
                first |-> messages[Head(buffer)].place,
                last |-> messages[Last(buffer)].place,
                events |-> events]

\* The first message of a box, the second one if it is of the same session, or
\* a later one that goes on with the topic.
Join == /\ next <= Len(messages)
        /\ buffer # <<>> => SameSession
        /\ buffer' = Append(buffer, next)
        /\ next' = next + 1
        /\ UNCHANGED <<messages, boxes>>

\* Fault: the message that does not go on is sealed with the others.
SplitAfter(events) ==
    /\ next <= Len(messages)
    /\ buffer # <<>>
    /\ SameSession => Len(buffer) > 1
    /\ boxes' = Append(boxes, Box(events))
    /\ buffer' = <<>>
    /\ next' = next + 1
    /\ UNCHANGED messages

\* A message of another session, or one that does not go on with the topic.
Split(events) == /\ next <= Len(messages)
                 /\ buffer # <<>>
                 /\ SameSession => Len(buffer) > 1
                 /\ boxes' = Append(boxes, Box(events))
                 /\ buffer' = <<next>>
                 /\ next' = next + 1
                 /\ UNCHANGED messages

\* The box that is open at the end of the conversation.
SealLast(events) == /\ next > Len(messages)
                    /\ buffer # <<>>
                    /\ boxes' = Append(boxes, Box(events))
                    /\ buffer' = <<>>
                    /\ UNCHANGED <<messages, next>>

Sealed == next > Len(messages) /\ buffer = <<>>

BuildStep == Join \/ \E events \in Extractions : Split(events) \/ SealLast(events)
=============================================================================
