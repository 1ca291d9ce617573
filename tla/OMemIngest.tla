----------------------------- MODULE OMemIngest -----------------------------
(***************************************************************************)
(* A conversation fed into O-Mem: OMemAdapter._feed_turns hands the turns  *)
(* to MemoryManager.receive_message one after another.  Each is understood *)
(* by a model call and put into its speaker's working memory.  When that   *)
(* is full, the oldest messages are popped and routed, one by one, into    *)
(* the profiles of events, facts and attributes of the speaker; a message  *)
(* whose event is routed is archived in the episodic cache.                *)
(* A router call names an action and a target.  IGNORE does what UPDATE    *)
(* does; any other word than ADD, UPDATE and IGNORE changes no profile.    *)
(* A call that fails or takes too long ends the ingest.                    *)
(***************************************************************************)
EXTENDS Naturals, Sequences

CONSTANTS Roles,            \* "user" and "agent": each has memories of its own
          Speakers,         \* the role that speaks each turn
          Words,            \* topics, facts and attributes
          Understandings,   \* what a turn may be understood as
          MaxSize,          \* working_memory_max_size
          Refresh,          \* episodic_memory_refresh_rate
          NoWord,           \* a target that is no key of the profile
          NoMessage

ASSUME IngestAssumption ==
    /\ Speakers \in Seq(Roles)
    /\ Understandings \subseteq [topic : Words, fact : Words, attributes : Seq(Words)]
    /\ MaxSize \in Nat \ {0} /\ Refresh \in Nat \ {0}
    /\ NoWord \notin Words

VARIABLES pc,         \* "next" between turns, else what the current call is for
          turn,       \* the turns begun
          tries,      \* the router's answers rejected for the current item
          batch,      \* popped messages whose event is not routed yet
          current,    \* the archived message whose fact or attributes are routed
          todo,       \* the attributes of it that are not routed yet
          working,    \* Working_Memory.working_memory_queue of each role
          cache,      \* episodic_memory_cache_list of each role
          profiles,   \* the rounds recorded under each word of each profile
          grouped,    \* the events in topic_episodic_memory_list
          topicTurn,  \* the turn each topic leads to, 0 when it leads nowhere
          dropped     \* history: turns whose event the router failed on

progressVars == <<pc, turn, tries, batch, current, todo>>
memoryVars == <<working, cache, profiles, grouped, topicTurn>>
vars == <<progressVars, memoryVars, dropped>>

Kinds == {"event", "fact", "attribute"}
Turns == 1..Len(Speakers)

Messages == [turn : Turns, says : Understandings]

Answers == [action : {"ADD", "UPDATE", "OTHER"}, target : Words \cup {NoWord}]

\* The role whose turn is being received.
Role == Speakers[turn]

TurnsOf(messages) == {messages[i].turn : i \in DOMAIN messages}

NoProfile == [w \in Words |-> {}]

Init == /\ pc = "next" /\ turn = 0 /\ tries = 0
        /\ batch = <<>> /\ current = NoMessage /\ todo = <<>>
        /\ working = [r \in Roles |-> <<>>]
        /\ cache = [r \in Roles |-> <<>>]
        /\ profiles = [r \in Roles |-> [k \in Kinds |-> NoProfile]]
        /\ grouped = [r \in Roles |-> {}]
        /\ topicTurn = [r \in Roles |-> [w \in Words |-> 0]]
        /\ dropped = {}

(* ------------------------- Receiving a message ------------------------- *)

\* pop_oldest_working_memory takes Refresh messages, or all there are.
Popped(queue) == SubSeq(queue, 1, IF Len(queue) < Refresh THEN Len(queue) ELSE Refresh)

\* Fault: the first message that stays is lost.
LeftOneLess(queue) == SubSeq(queue, Len(Popped(queue)) + 2, Len(queue))

\* Fault: the popped messages are read but not removed.
LeftUnpopped(queue) == queue

\* What stays in the queue.
Left(queue) == SubSeq(queue, Len(Popped(queue)) + 1, Len(queue))

\* The next turn is understood and put into the working memory of its speaker,
\* which overflows when it has reached its size.
Receive(u) ==
    LET r == Speakers[turn + 1]
        queue == Append(working[r], [turn |-> turn + 1, says |-> u])
        full == Len(queue) = MaxSize
    IN  /\ pc = "next" /\ turn < Len(Speakers)
        /\ turn' = turn + 1
        /\ working' = [working EXCEPT ![r] = IF full THEN Left(queue) ELSE queue]
        /\ batch' = IF full THEN Popped(queue) ELSE <<>>
        /\ pc' = IF full THEN "event" ELSE "next"
        /\ UNCHANGED <<tries, current, todo, cache, profiles, grouped, topicTurn, dropped>>

(* ------------------------------- Routing ------------------------------- *)

\* What is being routed: a topic, a fact or an attribute.
Word == CASE pc = "event" -> Head(batch).says.topic
          [] pc = "fact" -> current.says.fact
          [] pc = "attribute" -> Head(todo)

Known(w) == w \in Words /\ profiles[Role][pc][w] # {}

\* The first answer needs a known target only for an update, the two after it
\* for any action; the fourth is thrown away, whatever it says.
Accepted(a) == \/ tries = 0 /\ a.action # "UPDATE"
               \/ tries < 3 /\ Known(a.target)

\* A profile after an answer to item w: the round is added to the target's entry,
\* or starts a new entry for the item, in place of one that may be there.
Entered(profile, a, w, round) ==
    CASE a.action = "ADD" -> [profile EXCEPT ![w] = {round}]
      [] a.action = "UPDATE" -> [profile EXCEPT ![a.target] = @ \cup {round}]
      [] a.action = "OTHER" -> profile

Record(a, round) ==
    profiles' = [profiles EXCEPT ![Role][pc] = Entered(@, a, Word, round)]

AfterMessage(rest) == IF rest = <<>> THEN "topics" ELSE "event"

\* The current message goes on with its next attribute, if any.
Continue(attributes) ==
    /\ todo' = attributes
    /\ IF attributes = <<>> THEN pc' = AfterMessage(batch) /\ current' = NoMessage
                            ELSE pc' = "attribute" /\ UNCHANGED current
    /\ tries' = 0

\* Fault: answers are asked for until one fits, counting on.
AskAgainUnbounded(a) == /\ pc \in Kinds
                        /\ ~Accepted(a)
                        /\ tries' = tries + 1
                        /\ UNCHANGED <<pc, turn, batch, current, todo, memoryVars, dropped>>

\* Fault: the third failure starts the count anew.
AskAgainAnew(a) == /\ pc \in Kinds
                   /\ ~Accepted(a)
                   /\ tries' = (tries + 1) % 3
                   /\ UNCHANGED <<pc, turn, batch, current, todo, memoryVars, dropped>>

AskAgain(a) == /\ pc \in Kinds /\ tries < 3
               /\ ~Accepted(a)
               /\ tries' = tries + 1
               /\ UNCHANGED <<pc, turn, batch, current, todo, memoryVars, dropped>>

\* Fault: the newest message is put first.
RouteEventFirst(a) == /\ pc = "event" /\ Accepted(a)
                      /\ cache' = [cache EXCEPT ![Role] = <<Head(batch)>> \o @]
                      /\ Record(a, Head(batch).turn)
                      /\ current' = Head(batch) /\ batch' = Tail(batch)
                      /\ pc' = "fact" /\ tries' = 0
                      /\ UNCHANGED <<turn, todo, working, grouped, topicTurn, dropped>>

RouteEvent(a) == /\ pc = "event" /\ Accepted(a)
                 /\ cache' = [cache EXCEPT ![Role] = Append(@, Head(batch))]
                 /\ Record(a, Head(batch).turn)
                 /\ current' = Head(batch) /\ batch' = Tail(batch)
                 /\ pc' = "fact" /\ tries' = 0
                 /\ UNCHANGED <<turn, todo, working, grouped, topicTurn, dropped>>

\* Fault: giving up leaves the loop over answers, not the message.
GiveUpEventOnly == /\ pc = "event" /\ tries = 3
                   /\ dropped' = dropped \cup {Head(batch).turn}
                   /\ current' = Head(batch) /\ batch' = Tail(batch)
                   /\ pc' = "fact" /\ tries' = 0
                   /\ UNCHANGED <<turn, todo, memoryVars>>

\* The message is not archived and its fact and attributes are not looked at.
GiveUpEvent == /\ pc = "event" /\ tries = 3
               /\ dropped' = dropped \cup {Head(batch).turn}
               /\ batch' = Tail(batch)
               /\ pc' = AfterMessage(Tail(batch)) /\ tries' = 0
               /\ UNCHANGED <<turn, current, todo, memoryVars>>

RouteFact(a) == /\ pc = "fact" /\ Accepted(a)
                /\ Record(a, current.turn)
                /\ Continue(current.says.attributes)
                /\ UNCHANGED <<turn, batch, working, cache, grouped, topicTurn, dropped>>

\* The attributes are skipped with the fact.
GiveUpFact == /\ pc = "fact" /\ tries = 3
              /\ Continue(<<>>)
              /\ UNCHANGED <<turn, batch, memoryVars, dropped>>

RouteAttribute(a) == /\ pc = "attribute" /\ Accepted(a)
                     /\ Record(a, current.turn)
                     /\ Continue(Tail(todo))
                     /\ UNCHANGED <<turn, batch, working, cache, grouped, topicTurn, dropped>>

GiveUpAttribute == /\ pc = "attribute" /\ tries = 3
                   /\ Continue(Tail(todo))
                   /\ UNCHANGED <<turn, batch, memoryVars, dropped>>

\* With two events or more, a model call groups them anew, leaving out what it
\* likes.  The message of every round of a grouped event is looked up in the
\* cache; a round without one raises.
EvolveTopics ==
    LET events == profiles[Role]["event"]
        known == {w \in Words : events[w] # {}}
    IN  /\ pc = "topics"
        /\ \E groups \in IF \E v, w \in known : v # w THEN SUBSET known ELSE {{}} :
             /\ \A w \in groups : events[w] \subseteq TurnsOf(cache[Role])
             /\ grouped' = [grouped EXCEPT ![Role] = groups]
        /\ pc' = "next"
        /\ UNCHANGED <<turn, tries, batch, current, todo, working, cache, profiles,
                       topicTurn, dropped>>

(* ------------------------------ The end -------------------------------- *)

\* The last message of the queue with topic w, by its turn.
LastTurn(messages, w) ==
    LET places == {i \in DOMAIN messages : messages[i].says.topic = w}
    IN  IF places = {} THEN 0
        ELSE messages[CHOOSE i \in places : \A j \in places : j <= i].turn

\* Fault: the working memory is left out of the map.
SyncArchived == /\ pc = "next" /\ turn = Len(Speakers)
                /\ topicTurn' = [r \in Roles |-> [w \in Words |-> LastTurn(cache[r], w)]]
                /\ pc' = "synced"
                /\ UNCHANGED <<turn, tries, batch, current, todo, working, cache,
                               profiles, grouped, dropped>>

\* _sync_omem_state lists the working memory first, so that the archived message
\* of a topic hides a newer one of the working memory.
Sync == /\ pc = "next" /\ turn = Len(Speakers)
        /\ topicTurn' = [r \in Roles |->
                            [w \in Words |-> LastTurn(working[r] \o cache[r], w)]]
        /\ pc' = "synced"
        /\ UNCHANGED <<turn, tries, batch, current, todo, working, cache, profiles,
                       grouped, dropped>>

\* A call fails for good, times out, or its answer is unusable: the exception
\* leaves the ingest, and the memories with all popped messages are abandoned.
Abort == /\ pc \notin {"synced", "aborted"}
         /\ pc' = "aborted"
         /\ UNCHANGED <<turn, tries, batch, current, todo, memoryVars, dropped>>

Next == \/ \E u \in Understandings : Receive(u)
        \/ \E a \in Answers : \/ AskAgain(a) \/ RouteEvent(a)
                              \/ RouteFact(a) \/ RouteAttribute(a)
        \/ GiveUpEvent \/ GiveUpFact \/ GiveUpAttribute
        \/ EvolveTopics \/ Sync \/ Abort

\* Calls return, fail or time out.
Spec == Init /\ [][Next]_vars /\ WF_vars(Next)

(* ----------------------------- Properties ------------------------------ *)

TypeOK ==
    /\ pc \in Kinds \cup {"next", "topics", "synced", "aborted"}
    /\ turn \in 0..Len(Speakers) /\ tries \in 0..3
    /\ batch \in Seq(Messages) /\ current \in Messages \cup {NoMessage}
    /\ todo \in Seq(Words)
    /\ working \in [Roles -> Seq(Messages)] /\ cache \in [Roles -> Seq(Messages)]
    /\ profiles \in [Roles -> [Kinds -> [Words -> SUBSET Turns]]]
    /\ grouped \in [Roles -> SUBSET Words]
    /\ topicTurn \in [Roles -> [Words -> 0..Len(Speakers)]]
    /\ dropped \subseteq Turns

\* What a role has not lost: archived, popped and not yet routed, or working.
Unrouted(r) == IF turn > 0 /\ r = Role THEN batch ELSE <<>>
Short(r) == Unrouted(r) \o working[r]
Retained(r) == cache[r] \o Short(r)

\* Every turn begun is in exactly one place of the memories of the role that
\* spoke it, in the order of the conversation, or was dropped by the router
\* (receive_message, pop_oldest_working_memory, update_*_episodic_memory).
MessagesAccounted ==
    \A r \in Roles :
       /\ TurnsOf(Retained(r)) = {t \in 1..turn : Speakers[t] = r} \ dropped
       /\ \A i, j \in DOMAIN Retained(r) : i < j => Retained(r)[i].turn < Retained(r)[j].turn

\* The working memory never holds its full size after an overflow, although
\* fullness is tested for equality only: no message can slip past the test and
\* let the queue grow (add_message_to_working_memory).
NeverOverfull == \A r \in Roles : Len(working[r]) < MaxSize

\* Every round a profile mentions is the round of an archived message of the
\* same role.  evolve_topic_episodic_memory raises when value_find_index misses
\* an event's round, and the retrieval finds no message for a fact whose round
\* is not archived (locate_cache_episodic_message).
RoundsArchived ==
    \A r \in Roles, k \in Kinds, w \in Words :
        profiles[r][k][w] \subseteq TurnsOf(cache[r])

\* After an ingest every topic of a retained message leads to a retained message
\* of that topic: retrieve_from_memory_soft_segmentation indexes the map with
\* the topics of both memories and raises on one that is missing.
TopicsLead ==
    pc = "synced" =>
        \A r \in Roles : \A i \in DOMAIN Retained(r) :
            \E j \in DOMAIN Retained(r) :
                /\ Retained(r)[j].says.topic = Retained(r)[i].says.topic
                /\ topicTurn[r][Retained(r)[i].says.topic] = Retained(r)[j].turn

\* Every ingest ends, however often the router answers with unknown targets.
IngestEnds == <>(pc \in {"synced", "aborted"})

\* A popped message is still short-term until its event is routed: ingest then
\* implements MemoryOverflow.
Layers == INSTANCE MemoryOverflow
            WITH Speaker <- Roles, Message <- Messages,
                 short <- [r \in Roles |-> Short(r)], long <- cache
ImplementsOverflow == Layers!OverflowSpec

\* O-Mem's README says of the working memory: "Oldest messages overflow to
\* Episodic Memory".  No message of a finished ingest is missing from both.
OldestOverflow ==
    pc = "synced" => \A t \in Turns : t \in TurnsOf(Retained(Speakers[t]))
=============================================================================
