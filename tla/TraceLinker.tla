---------------------------- MODULE TraceLinker -----------------------------
(***************************************************************************)
(* Membox's TraceLinker.run: box by box, in the order of their numbers,    *)
(* the events of a box are joined to traces of earlier events or start new *)
(* traces.  The traces with an event similar to one of the box are shown   *)
(* to the model one by one, with all the events of the box; the events it  *)
(* relates to none are put into new traces as the model answers, or into   *)
(* one of their own if there is only one of them.                          *)
(* Which traces are similar is left open, but for each event of the box at *)
(* most one is.                                                            *)
(***************************************************************************)
EXTENDS Naturals, FiniteSets, Selections

CONSTANTS Chainings   \* the answers to a chaining call; an unusable one has no chains

ASSUME LinkerAssumption ==
    /\ [chains |-> <<>>, isolated |-> <<>>] \in Chainings
    /\ \A answer \in Chainings : /\ answer.chains \in Seq(ToSet(answer.chains))
                                /\ answer.isolated \in Seq(ToSet(answer.isolated))

VARIABLES queue,    \* the boxes that are still to be linked
          traces

linkerVars == <<queue, traces>>

\* The linker reads all boxes of the file and sorts them by number; the sort is
\* stable, so that of equal numbers the box of the earlier build comes first.
StartLinking(file) ==
    /\ queue' = FlattenSeq([n \in 1..Len(file) |->
                              Selected(file, {k \in DOMAIN file : file[k].id = n - 1})])
    /\ traces' = <<>>

Entry(box, events) == [box |-> box.id, events |-> events]

\* Fault: the box is listed once per entry.
JoinedTwice(trace, box, events) ==
    [boxes |-> Append(trace.boxes, box.id),
     entries |-> Append(trace.entries, Entry(box, events))]

\* A trace with related events of a box joined to it.
Joined(trace, box, events) ==
    [boxes |-> IF Contains(trace.boxes, box.id) THEN trace.boxes
                                                ELSE Append(trace.boxes, box.id),
     entries |-> Append(trace.entries, Entry(box, events))]

NewTrace(box, events) == [boxes |-> <<box.id>>, entries |-> <<Entry(box, events)>>]

\* The chains of an answer.  Isolated events are one chain if there is no other,
\* else each that is in no chain is a chain of its own.
Chains(answer) ==
    IF answer.chains = <<>>
    THEN IF answer.isolated = <<>> THEN <<>> ELSE <<ToSet(answer.isolated)>>
    ELSE LET chained == UNION ToSet(answer.chains)
             apart == Selected(answer.isolated,
                               {k \in DOMAIN answer.isolated : answer.isolated[k] \notin chained})
         IN  answer.chains \o [k \in DOMAIN apart |-> {apart[k]}]

\* The sets of events that start new traces.
NewChains(unmatched, answer) ==
    CASE Len(unmatched) = 0 -> <<>>
      [] Len(unmatched) = 1 -> <<{unmatched[1]}>>
      [] Len(unmatched) > 1 -> Chains(answer)

\* One box.  related[k] is what the model relates to trace k; a call that fails
\* or relates and rejects nothing relates all.
LinkBox ==
    LET box == Head(queue)
        events == ToSet(box.events)
    IN  /\ queue # <<>>
        /\ queue' = Tail(queue)
        /\ \E similar \in SUBSET DOMAIN traces :
             /\ Cardinality(similar) <= Len(box.events)
             /\ \E related \in [similar -> SUBSET events], answer \in Chainings :
                  LET hit == {k \in similar : related[k] # {}}
                      matched == UNION {related[k] : k \in similar}
                      unmatched == Selected(box.events,
                                            {k \in DOMAIN box.events : box.events[k] \notin matched})
                      new == NewChains(unmatched, answer)
                  IN  traces' = [k \in DOMAIN traces |->
                                    IF k \in hit THEN Joined(traces[k], box, related[k])
                                                 ELSE traces[k]]
                                \o [k \in DOMAIN new |-> NewTrace(box, new[k])]

Linked == queue = <<>>
=============================================================================
