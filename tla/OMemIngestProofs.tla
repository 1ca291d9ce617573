-------------------------- MODULE OMemIngestProofs --------------------------
(***************************************************************************)
(* What holds of every O-Mem ingest: any conversation, any sizes, whatever *)
(* the router answers.                                                     *)
(***************************************************************************)
EXTENDS OMemIngest, SequenceTheorems, WellFoundedInduction, TLAPS

\* A queue is split by an overflow: nothing is lost or reordered, and the
\* popped part is empty only if the queue is (pop_oldest_working_memory).
LEMMA QueueSplit ==
    ASSUME NEW q \in Seq(Messages)
    PROVE  /\ Popped(q) \in Seq(Messages) /\ Left(q) \in Seq(Messages)
           /\ Popped(q) \o Left(q) = q
           /\ q # <<>> => Popped(q) # <<>> /\ Len(Left(q)) < Len(q)
<1> DEFINE n == IF Len(q) < Refresh THEN Len(q) ELSE Refresh
<1>1. Len(q) \in Nat /\ n \in 0..Len(q) /\ (q # <<>> => n > 0)
  BY EmptySeq, LenProperties, IngestAssumption
<1> HIDE DEF n
<1>2. \A i \in 1..Len(q) : q[i] \in Messages
  BY ElementOfSeq
<1>3. SubSeq(q, 1, n) \in Seq(Messages) /\ Len(SubSeq(q, 1, n)) = n
  BY <1>1, <1>2, SubSeqProperties
<1>4. Popped(q) = SubSeq(q, 1, n) /\ Len(Popped(q)) = n
  BY <1>3 DEF Popped, n
<1>5. Left(q) = SubSeq(q, n + 1, Len(q))
  BY <1>4 DEF Left
<1>6. /\ SubSeq(q, n + 1, Len(q)) \in Seq(Messages)
      /\ Len(SubSeq(q, n + 1, Len(q))) = Len(q) - n
  BY <1>1, <1>2, SubSeqProperties
<1>7. SubSeq(q, 1, n) \o SubSeq(q, n + 1, Len(q)) = SubSeq(q, 1, Len(q))
  <2>1. 1 \in 1..Len(q)+1 /\ n \in 1-1..Len(q) /\ Len(q) \in n..Len(q)
    BY <1>1
  <2> QED
    BY ONLY <2>1, q \in Seq(Messages), ConcatAdjacentSubSeq, Zenon
<1>8. SubSeq(q, 1, Len(q)) = q
  BY SubSeqFull
<1>9. q # <<>> => Popped(q) # <<>>
  BY <1>1, <1>4, EmptySeq
<1>10. Len(Left(q)) = Len(q) - n
  BY <1>5, <1>6
<1>11. q # <<>> => Len(Left(q)) < Len(q)
  BY <1>1, <1>10
<1>12. Popped(q) \o Left(q) = q
  BY <1>4, <1>5, <1>7, <1>8, Zenon
<1> QED
  BY <1>3, <1>4, <1>5, <1>6, <1>9, <1>11, <1>12

\* Archiving a message keeps the archived ones and adds its turn.
LEMMA TurnsOfAppend ==
    ASSUME NEW q \in Seq(Messages), NEW m \in Messages
    PROVE  TurnsOf(Append(q, m)) = TurnsOf(q) \cup {m.turn}
<1>1. /\ Append(q, m) \in Seq(Messages)
      /\ Len(Append(q, m)) = Len(q) + 1
      /\ \A i \in 1..Len(q) : Append(q, m)[i] = q[i]
      /\ Append(q, m)[Len(q) + 1] = m
  BY AppendProperties
<1>2. /\ DOMAIN q = 1..Len(q) /\ Len(q) \in Nat
      /\ DOMAIN Append(q, m) = 1..(Len(q) + 1)
  BY <1>1, LenProperties
<1> QED
  BY <1>1, <1>2 DEF TurnsOf

\* What the place in the code says of its local variables.
Control ==
    /\ pc \in Kinds \cup {"topics"} => turn # 0
    /\ pc = "event" => batch # <<>>
    /\ pc \in {"fact", "attribute"} => /\ current \in Messages
                                       /\ current.turn \in TurnsOf(cache[Role])
    /\ pc = "attribute" => todo # <<>>
    /\ pc \in {"next", "topics"} => batch = <<>>

IInv == TypeOK /\ Control /\ NeverOverfull /\ RoundsArchived

LEMMA RoleIsRole ==
    ASSUME TypeOK, turn # 0
    PROVE  turn \in Turns /\ Role \in Roles
<1>1. turn \in 1..Len(Speakers) /\ Len(Speakers) \in Nat
  BY EmptySeq, LenProperties, IngestAssumption DEF TypeOK
<1> QED
  BY <1>1, ElementOfSeq, IngestAssumption DEF Role, Turns

\* What is routed is a word, and its round a turn.
LEMMA ItemIsWord ==
    ASSUME TypeOK, Control, pc \in Kinds
    PROVE  /\ Word \in Words
           /\ pc = "event" => Head(batch) \in Messages /\ Tail(batch) \in Seq(Messages)
           /\ pc = "attribute" => Tail(todo) \in Seq(Words)
<1>0. \A m \in Messages : m.says \in [topic : Words, fact : Words, attributes : Seq(Words)]
  BY IngestAssumption DEF Messages
<1>1. CASE pc = "event"
  <2>1. Head(batch) \in Messages /\ Tail(batch) \in Seq(Messages)
    BY <1>1, HeadTailProperties DEF TypeOK, Control
  <2> QED
    BY <1>0, <1>1, <2>1 DEF Word
<1>2. CASE pc = "fact"
  BY <1>0, <1>2 DEF Word, Control
<1>3. CASE pc = "attribute"
  <2>1. Head(todo) \in Words /\ Tail(todo) \in Seq(Words)
    BY <1>3, HeadTailProperties DEF TypeOK, Control
  <2> QED
    BY <1>3, <2>1 DEF Word
<1> QED
  BY <1>1, <1>2, <1>3 DEF Kinds

\* An accepted answer changes the profiles of the turn's role only, and there
\* adds no round but the item's (evolve_*_episodic_memory).
LEMMA RecordAdds ==
    ASSUME TypeOK, Control, pc \in Kinds, NEW a \in Answers, NEW round \in Turns,
           Accepted(a), Record(a, round)
    PROVE  /\ profiles' \in [Roles -> [Kinds -> [Words -> SUBSET Turns]]]
           /\ \A r \in Roles, k \in Kinds, w \in Words :
                 profiles'[r][k][w] \subseteq
                    profiles[r][k][w] \cup (IF r = Role THEN {round} ELSE {})
<1>1. Word \in Words /\ Role \in Roles
  BY ItemIsWord, RoleIsRole DEF Control
<1>2. a.action = "UPDATE" => a.target \in Words
  BY DEF Accepted, Known
<1>3. a.action \in {"ADD", "UPDATE", "OTHER"}
  BY DEF Answers
<1> DEFINE old == profiles[Role][pc]
           new == Entered(old, a, Word, round)
<1>4. profiles' = [profiles EXCEPT ![Role][pc] = new]
  BY DEF Record
<1>5. old \in [Words -> SUBSET Turns]
  BY <1>1 DEF TypeOK
<1>6. new \in [Words -> SUBSET Turns] /\ \A w \in Words : new[w] \subseteq old[w] \cup {round}
  <2>1. CASE a.action = "ADD"
    BY <1>1, <1>5, <2>1 DEF Entered
  <2>2. CASE a.action = "UPDATE"
    BY <1>2, <1>5, <2>2 DEF Entered
  <2>3. CASE a.action = "OTHER"
    BY <1>5, <2>3 DEF Entered
  <2> QED  BY <1>3, <2>1, <2>2, <2>3
<1> HIDE DEF new
<1> QED
  BY <1>1, <1>4, <1>5, <1>6 DEF TypeOK

LEMMA InitOK == Init => IInv
<1> SUFFICES ASSUME Init PROVE IInv
  OBVIOUS
<1>1. <<>> \in Seq(Messages) /\ <<>> \in Seq(Words) /\ Len(<<>>) = 0
  OBVIOUS
<1>2. Len(Speakers) \in Nat
  BY IngestAssumption, LenProperties
<1>3. TypeOK
  BY <1>1, <1>2 DEF Init, TypeOK, NoProfile, Kinds
<1>4. Control
  BY DEF Init, Control, Kinds
<1>5. NeverOverfull
  <2>1. Len(<<>>) < MaxSize
    BY <1>1, IngestAssumption
  <2>2. \A r \in Roles : working[r] = <<>>
    BY DEF Init
  <2> QED  BY <2>1, <2>2, Zenon DEF NeverOverfull
<1>6. RoundsArchived
  BY DEF Init, RoundsArchived, NoProfile
<1> QED  BY <1>3, <1>4, <1>5, <1>6 DEF IInv

LEMMA ReceiveOK ==
    ASSUME IInv, NEW u \in Understandings, Receive(u)
    PROVE  IInv'
<1> DEFINE r == Speakers[turn + 1]
           m == [turn |-> turn + 1, says |-> u]
           queue == Append(working[r], m)
           full == Len(queue) = MaxSize
<1>0. TypeOK /\ Control /\ NeverOverfull /\ RoundsArchived
  BY DEF IInv
<1>1. /\ pc = "next" /\ turn < Len(Speakers) /\ turn' = turn + 1
      /\ working' = [working EXCEPT ![r] = IF full THEN Left(queue) ELSE queue]
      /\ batch' = (IF full THEN Popped(queue) ELSE <<>>)
      /\ pc' = (IF full THEN "event" ELSE "next")
      /\ UNCHANGED <<tries, current, todo, cache, profiles, grouped, topicTurn, dropped>>
  BY DEF Receive
<1>2. turn + 1 \in Turns /\ turn + 1 \in 0..Len(Speakers) /\ turn + 1 # 0 /\ r \in Roles
  <2>1. Len(Speakers) \in Nat /\ turn \in 0..Len(Speakers)
    BY <1>0, IngestAssumption, LenProperties DEF TypeOK
  <2>2. turn + 1 \in 1..Len(Speakers)
    BY <1>1, <2>1
  <2>3. r \in Roles
    BY <2>2, IngestAssumption, ElementOfSeq
  <2> QED  BY <2>1, <2>2, <2>3 DEF Turns
<1>3. m \in Messages
  BY <1>2 DEF Messages
<1>4. /\ queue \in Seq(Messages) /\ queue # <<>>
      /\ Len(working[r]) \in Nat /\ Len(queue) = Len(working[r]) + 1
  <2>1. working[r] \in Seq(Messages)
    BY <1>0, <1>2 DEF TypeOK
  <2> HIDE DEF m, r
  <2>2. /\ Append(working[r], m) \in Seq(Messages)
        /\ Append(working[r], m) # <<>>
        /\ Len(Append(working[r], m)) = Len(working[r]) + 1
    BY <1>3, <2>1, AppendProperties
  <2>3. Len(working[r]) \in Nat
    BY <2>1, LenProperties
  <2> QED  BY <2>2, <2>3
<1>5. /\ Popped(queue) \in Seq(Messages) /\ Popped(queue) # <<>>
      /\ Left(queue) \in Seq(Messages) /\ Len(Left(queue)) < Len(queue)
  BY <1>4, QueueSplit
<1> HIDE DEF r, m, queue
<1>6. batch' \in Seq(Messages) /\ (full => batch' # <<>>) /\ (~full => batch' = <<>>)
  BY <1>1, <1>5, EmptySeq
<1>7. working' \in [Roles -> Seq(Messages)]
  BY <1>0, <1>1, <1>2, <1>4, <1>5 DEF TypeOK
<1>8. TypeOK'
  BY <1>0, <1>1, <1>2, <1>6, <1>7 DEF TypeOK, Kinds
<1>9. Control'
  BY <1>0, <1>1, <1>2, <1>6 DEF Control, Kinds
<1>10. NeverOverfull'
  <2>1. Len(working[r]) < MaxSize /\ MaxSize \in Nat
    BY <1>0, <1>2, IngestAssumption DEF NeverOverfull
  <2>2. Len(Left(queue)) \in Nat
    BY <1>5, LenProperties
  <2>3. Len(working'[r]) < MaxSize
    <3>1. CASE full
      <4>1. working'[r] = Left(queue)
        BY <1>0, <1>1, <1>2, <3>1 DEF TypeOK
      <4> QED  BY <1>5, <2>1, <2>2, <3>1, <4>1
    <3>2. CASE ~full
      <4>1. working'[r] = queue
        BY <1>0, <1>1, <1>2, <3>2 DEF TypeOK
      <4> QED  BY <1>4, <2>1, <3>2, <4>1
    <3> QED  BY <3>1, <3>2
  <2>4. \A s \in Roles : s # r => working'[s] = working[s]
    BY <1>0, <1>1 DEF TypeOK
  <2> QED
    BY <1>0, <2>3, <2>4 DEF NeverOverfull
<1>11. RoundsArchived'
  BY <1>0, <1>1 DEF RoundsArchived, TurnsOf
<1> QED  BY <1>8, <1>9, <1>10, <1>11 DEF IInv

LEMMA RouteEventOK ==
    ASSUME IInv, NEW a \in Answers, RouteEvent(a)
    PROVE  IInv'
<1> DEFINE m == Head(batch)
<1>0. TypeOK /\ Control /\ NeverOverfull /\ RoundsArchived
  BY DEF IInv
<1>1. /\ pc = "event" /\ Accepted(a)
      /\ cache' = [cache EXCEPT ![Role] = Append(@, m)]
      /\ Record(a, m.turn)
      /\ current' = m /\ batch' = Tail(batch)
      /\ pc' = "fact" /\ tries' = 0
      /\ UNCHANGED <<turn, todo, working, grouped, topicTurn, dropped>>
  BY DEF RouteEvent
<1>2. m \in Messages /\ Tail(batch) \in Seq(Messages) /\ m.turn \in Turns
  BY <1>0, <1>1, ItemIsWord DEF Kinds, Messages
<1>3. Role \in Roles /\ turn # 0
  BY <1>0, <1>1, RoleIsRole DEF Control, Kinds
<1>4. /\ profiles' \in [Roles -> [Kinds -> [Words -> SUBSET Turns]]]
      /\ \A r \in Roles, k \in Kinds, w \in Words :
            profiles'[r][k][w] \subseteq
               profiles[r][k][w] \cup (IF r = Role THEN {m.turn} ELSE {})
  <2>1. pc \in Kinds
    BY <1>1 DEF Kinds
  <2> HIDE DEF m
  <2> QED  BY <1>0, <1>1, <1>2, <2>1, RecordAdds
<1> HIDE DEF m
<1>5. cache[Role] \in Seq(Messages) /\ Append(cache[Role], m) \in Seq(Messages)
  BY <1>0, <1>2, <1>3, AppendProperties DEF TypeOK
<1>6. cache' \in [Roles -> Seq(Messages)]
  BY <1>0, <1>1, <1>5 DEF TypeOK
<1>7. TurnsOf(cache'[Role]) = TurnsOf(cache[Role]) \cup {m.turn}
  BY <1>0, <1>1, <1>2, <1>3, <1>5, TurnsOfAppend DEF TypeOK
<1>8. \A r \in Roles : r # Role => cache'[r] = cache[r]
  BY <1>0, <1>1 DEF TypeOK
<1>9. TypeOK'
  BY <1>0, <1>1, <1>2, <1>4, <1>6 DEF TypeOK, Kinds
<1>10. Control'
  BY <1>1, <1>2, <1>3, <1>7 DEF Control, Kinds, Role
<1>11. NeverOverfull'
  BY <1>0, <1>1 DEF NeverOverfull
<1>12. RoundsArchived'
  <2> SUFFICES ASSUME NEW r \in Roles, NEW k \in Kinds, NEW w \in Words
               PROVE  profiles'[r][k][w] \subseteq TurnsOf(cache'[r])
    BY DEF RoundsArchived, TurnsOf
  <2>1. profiles[r][k][w] \subseteq TurnsOf(cache[r])
    BY <1>0 DEF RoundsArchived
  <2>2. profiles'[r][k][w] \subseteq
            profiles[r][k][w] \cup (IF r = Role THEN {m.turn} ELSE {})
    BY <1>4
  <2>3. CASE r = Role
    BY <1>7, <2>1, <2>2, <2>3
  <2>4. CASE r # Role
    BY <1>8, <2>1, <2>2, <2>4
  <2> QED  BY <2>3, <2>4
<1> QED  BY <1>9, <1>10, <1>11, <1>12 DEF IInv

\* The steps that route or skip a fact or an attribute: the message they are
\* about is archived, so that its round may be recorded.
LEMMA ContinueOK ==
    ASSUME IInv, pc \in {"fact", "attribute"}, NEW rest \in Seq(Words), Continue(rest),
           UNCHANGED <<turn, batch, working, cache, grouped, topicTurn, dropped>>,
           profiles' \in [Roles -> [Kinds -> [Words -> SUBSET Turns]]],
           \A r \in Roles, k \in Kinds, w \in Words :
               profiles'[r][k][w] \subseteq
                  profiles[r][k][w] \cup (IF r = Role THEN {current.turn} ELSE {})
    PROVE  IInv'
<1>0. TypeOK /\ Control /\ NeverOverfull /\ RoundsArchived
  BY DEF IInv
<1>1. TypeOK'
  BY <1>0 DEF TypeOK, Continue, AfterMessage, Kinds
<1>2. Control'
  BY <1>0 DEF Control, Continue, AfterMessage, Kinds, Role, TurnsOf
<1>3. NeverOverfull'
  BY <1>0 DEF NeverOverfull
<1>4. RoundsArchived'
  <2> SUFFICES ASSUME NEW r \in Roles, NEW k \in Kinds, NEW w \in Words
               PROVE  profiles'[r][k][w] \subseteq TurnsOf(cache[r])
    BY DEF RoundsArchived, TurnsOf
  <2>1. profiles[r][k][w] \subseteq TurnsOf(cache[r])
    BY <1>0 DEF RoundsArchived
  <2>2. current.turn \in TurnsOf(cache[Role])
    BY <1>0 DEF Control
  <2> QED  BY <2>1, <2>2
<1> QED  BY <1>1, <1>2, <1>3, <1>4 DEF IInv

LEMMA RouteItemOK ==
    ASSUME IInv, NEW a \in Answers, RouteFact(a) \/ RouteAttribute(a)
    PROVE  IInv'
<1>0. TypeOK /\ Control
  BY DEF IInv
<1>1. pc \in {"fact", "attribute"} /\ pc \in Kinds /\ Accepted(a) /\ Record(a, current.turn)
  BY DEF RouteFact, RouteAttribute, Kinds
<1>2. current \in Messages /\ current.turn \in Turns /\ current.says.attributes \in Seq(Words)
  BY <1>0, <1>1, IngestAssumption DEF Control, Messages
<1>3. PICK rest \in Seq(Words) : Continue(rest)
  <2>1. CASE RouteFact(a)
    BY <1>2, <2>1 DEF RouteFact
  <2>2. CASE RouteAttribute(a)
    BY <1>0, <1>1, <2>2, ItemIsWord DEF RouteAttribute
  <2> QED  BY <2>1, <2>2
<1>4. UNCHANGED <<turn, batch, working, cache, grouped, topicTurn, dropped>>
  BY DEF RouteFact, RouteAttribute
<1>5. /\ profiles' \in [Roles -> [Kinds -> [Words -> SUBSET Turns]]]
      /\ \A r \in Roles, k \in Kinds, w \in Words :
            profiles'[r][k][w] \subseteq
               profiles[r][k][w] \cup (IF r = Role THEN {current.turn} ELSE {})
  BY <1>0, <1>1, <1>2, RecordAdds
<1> QED  BY <1>1, <1>3, <1>4, <1>5, ContinueOK

LEMMA GiveUpItemOK ==
    ASSUME IInv, GiveUpFact \/ GiveUpAttribute
    PROVE  IInv'
<1>0. TypeOK /\ Control
  BY DEF IInv
<1>1. pc \in {"fact", "attribute"}
  BY DEF GiveUpFact, GiveUpAttribute
<1>2. PICK rest \in Seq(Words) : Continue(rest)
  <2>1. CASE GiveUpFact
    <3>1. <<>> \in Seq(Words)
      OBVIOUS
    <3> QED  BY <2>1, <3>1 DEF GiveUpFact
  <2>2. CASE GiveUpAttribute
    BY <1>0, <2>2, ItemIsWord DEF GiveUpAttribute, Kinds
  <2> QED  BY <2>1, <2>2
<1>3. UNCHANGED <<turn, batch, working, cache, grouped, topicTurn, dropped, profiles>>
  BY DEF GiveUpFact, GiveUpAttribute, memoryVars
<1>4. /\ profiles' \in [Roles -> [Kinds -> [Words -> SUBSET Turns]]]
      /\ \A r \in Roles, k \in Kinds, w \in Words :
            profiles'[r][k][w] \subseteq
               profiles[r][k][w] \cup (IF r = Role THEN {current.turn} ELSE {})
  BY <1>0, <1>3 DEF TypeOK
<1> QED  BY <1>1, <1>2, <1>3, <1>4, ContinueOK

LEMMA GiveUpEventOK ==
    ASSUME IInv, GiveUpEvent
    PROVE  IInv'
<1>0. TypeOK /\ Control /\ NeverOverfull /\ RoundsArchived
  BY DEF IInv
<1>1. Head(batch) \in Messages /\ Tail(batch) \in Seq(Messages)
  BY <1>0, ItemIsWord DEF GiveUpEvent, Kinds
<1>2. Head(batch).turn \in Turns
  BY <1>1 DEF Messages
<1>3. TypeOK'
  BY <1>0, <1>1, <1>2 DEF TypeOK, GiveUpEvent, AfterMessage, memoryVars, Kinds
<1>4. Control'
  BY <1>0 DEF Control, GiveUpEvent, AfterMessage, memoryVars, Kinds
<1>5. NeverOverfull' /\ RoundsArchived'
  BY <1>0 DEF NeverOverfull, RoundsArchived, GiveUpEvent, memoryVars, TurnsOf
<1> QED  BY <1>3, <1>4, <1>5 DEF IInv

LEMMA EvolveTopicsOK ==
    ASSUME IInv, EvolveTopics
    PROVE  IInv'
<1>0. TypeOK /\ Control /\ NeverOverfull /\ RoundsArchived
  BY DEF IInv
<1>1. PICK groups \in SUBSET Words : grouped' = [grouped EXCEPT ![Role] = groups]
  BY DEF EvolveTopics
<1>2. TypeOK'
  BY <1>0, <1>1 DEF TypeOK, EvolveTopics
<1>3. Control'
  BY <1>0 DEF Control, EvolveTopics, Kinds
<1>4. NeverOverfull' /\ RoundsArchived'
  BY <1>0 DEF NeverOverfull, RoundsArchived, EvolveTopics, TurnsOf
<1> QED  BY <1>2, <1>3, <1>4 DEF IInv

\* A set of places of a queue has a last one, so that LastTurn is a turn.
LEMMA LastPlace ==
    ASSUME NEW n \in Nat, NEW P \in SUBSET (1..n), P # {}
    PROVE  \E i \in P : \A j \in P : j <= i
<1> DEFINE T == {n - i : i \in P}
<1>0. \A i \in P : i \in 1..n /\ n - i \in Nat
  OBVIOUS
<1>1. T \subseteq Nat /\ T # {}
  BY <1>0
<1>2. PICK x \in T : \A y \in T : ~ (<<y, x>> \in OpToRel(<, Nat))
  BY <1>1, NatLessThanWellFounded, WFMin, Zenon
<1>3. \A y \in T : ~ (y < x)
  BY <1>1, <1>2, Zenon DEF OpToRel
<1>4. PICK i \in P : x = n - i
  BY <1>2
<1>5. \A j \in P : ~ (n - j < n - i)
  BY <1>3, <1>4
<1>6. \A j \in P : j <= i
  <2> TAKE j \in P
  <2> QED  BY <1>0, <1>5
<1> QED  BY <1>6

LEMMA LastTurnIsTurn ==
    ASSUME NEW q \in Seq(Messages), NEW w \in Words
    PROVE  LastTurn(q, w) \in 0..Len(Speakers)
<1> DEFINE places == {i \in DOMAIN q : q[i].says.topic = w}
<1>1. CASE places = {}
  <2>1. Len(Speakers) \in Nat
    BY IngestAssumption, LenProperties
  <2> QED  BY <1>1, <2>1 DEF LastTurn
<1>2. CASE places # {}
  <2>1. places \in SUBSET (1..Len(q)) /\ Len(q) \in Nat
    BY LenProperties
  <2> DEFINE last == CHOOSE i \in places : \A j \in places : j <= i
  <2>2. last \in places
    BY <1>2, <2>1, LastPlace
  <2>3. q[last] \in Messages
    BY <2>1, <2>2, ElementOfSeq
  <2>4. LastTurn(q, w) = q[last].turn
    BY <1>2 DEF LastTurn
  <2>5. q[last].turn \in 1..Len(Speakers)
    BY <2>3 DEF Messages, Turns
  <2> QED  BY <2>4, <2>5
<1> QED  BY <1>1, <1>2

LEMMA SyncOK ==
    ASSUME IInv, Sync
    PROVE  IInv'
<1>0. TypeOK /\ Control /\ NeverOverfull /\ RoundsArchived
  BY DEF IInv
<1>1. \A r \in Roles : working[r] \o cache[r] \in Seq(Messages)
  BY <1>0, ConcatProperties DEF TypeOK
<1>2. topicTurn' \in [Roles -> [Words -> 0..Len(Speakers)]]
  BY <1>1, LastTurnIsTurn DEF Sync
<1>3. TypeOK'
  BY <1>0, <1>2 DEF TypeOK, Sync
<1>4. Control'
  BY <1>0 DEF Control, Sync, Kinds
<1>5. NeverOverfull' /\ RoundsArchived'
  BY <1>0 DEF NeverOverfull, RoundsArchived, Sync, TurnsOf
<1> QED  BY <1>3, <1>4, <1>5 DEF IInv

LEMMA AskAgainOK ==
    ASSUME IInv, NEW a \in Answers, AskAgain(a)
    PROVE  IInv'
<1>0. TypeOK /\ Control /\ NeverOverfull /\ RoundsArchived
  BY DEF IInv
<1>1. tries' \in 0..3
  BY <1>0 DEF AskAgain, TypeOK
<1>2. TypeOK' /\ Control'
  BY <1>0, <1>1 DEF TypeOK, Control, AskAgain, memoryVars, Role, TurnsOf
<1>3. NeverOverfull' /\ RoundsArchived'
  BY <1>0 DEF NeverOverfull, RoundsArchived, AskAgain, memoryVars, TurnsOf
<1> QED  BY <1>2, <1>3 DEF IInv

LEMMA AbortOK ==
    ASSUME IInv, Abort
    PROVE  IInv'
<1>0. TypeOK /\ Control /\ NeverOverfull /\ RoundsArchived
  BY DEF IInv
<1>1. TypeOK' /\ Control'
  BY <1>0 DEF TypeOK, Control, Abort, memoryVars, Kinds
<1>2. NeverOverfull' /\ RoundsArchived'
  BY <1>0 DEF NeverOverfull, RoundsArchived, Abort, memoryVars, TurnsOf
<1> QED  BY <1>1, <1>2 DEF IInv

LEMMA StepOK == IInv /\ [Next]_vars => IInv'
<1> SUFFICES ASSUME IInv, [Next]_vars PROVE IInv'
  OBVIOUS
<1>1. ASSUME NEW u \in Understandings, Receive(u) PROVE IInv'
  BY <1>1, ReceiveOK
<1>2. ASSUME NEW a \in Answers,
             AskAgain(a) \/ RouteEvent(a) \/ RouteFact(a) \/ RouteAttribute(a)
      PROVE  IInv'
  BY <1>2, AskAgainOK, RouteEventOK, RouteItemOK
<1>3. CASE GiveUpEvent \/ GiveUpFact \/ GiveUpAttribute
  BY <1>3, GiveUpEventOK, GiveUpItemOK
<1>4. CASE EvolveTopics \/ Sync \/ Abort
  BY <1>4, EvolveTopicsOK, SyncOK, AbortOK
<1>5. CASE UNCHANGED vars
  BY <1>5 DEF IInv, TypeOK, Control, NeverOverfull, RoundsArchived, TurnsOf, Role,
              vars, progressVars, memoryVars
<1> QED  BY <1>1, <1>2, <1>3, <1>4, <1>5 DEF Next

\* The state of an ingest keeps its shape.
THEOREM IngestTypeCorrect == Spec => []TypeOK
<1>1. IInv => TypeOK
  BY DEF IInv
<1> QED  BY InitOK, StepOK, <1>1, PTL DEF Spec

\* No working memory stays at its full size, for any sizes and conversation.
THEOREM NeverOverfullHolds == Spec => []NeverOverfull
<1>1. IInv => NeverOverfull
  BY DEF IInv
<1> QED  BY InitOK, StepOK, <1>1, PTL DEF Spec

\* No profile mentions a round without an archived message, whatever the router
\* answers.
THEOREM RoundsArchivedHolds == Spec => []RoundsArchived
<1>1. IInv => RoundsArchived
  BY DEF IInv
<1> QED  BY InitOK, StepOK, <1>1, PTL DEF Spec

LEMMA HeadTailOfConcat ==
    ASSUME NEW S, NEW s \in Seq(S), NEW t \in Seq(S), s # <<>>
    PROVE  /\ s \o t \in Seq(S) /\ s \o t # <<>>
           /\ Head(s \o t) = Head(s)
           /\ Tail(s \o t) = Tail(s) \o t
<1>1. /\ Len(s) \in Nat \ {0} /\ Len(t) \in Nat
      /\ s \o t \in Seq(S) /\ Len(s \o t) = Len(s) + Len(t)
      /\ \A i \in 1..Len(s) + Len(t) :
            (s \o t)[i] = IF i <= Len(s) THEN s[i] ELSE t[i - Len(s)]
  BY EmptySeq, LenProperties, ConcatProperties
<1>2. s \o t # <<>>
  BY <1>1, EmptySeq
<1>3. Head(s) = s[1] /\ Head(s \o t) = (s \o t)[1]
  BY <1>1, <1>2
<1>4. Head(s \o t) = Head(s)
  BY <1>1, <1>3
<1>5. /\ Tail(s) \in Seq(S) /\ Len(Tail(s)) = Len(s) - 1
      /\ \A i \in 1..Len(Tail(s)) : Tail(s)[i] = s[i + 1]
  BY HeadTailProperties
<1>6. /\ Tail(s \o t) \in Seq(S) /\ Len(Tail(s \o t)) = Len(s) + Len(t) - 1
      /\ \A i \in 1..Len(Tail(s \o t)) : Tail(s \o t)[i] = (s \o t)[i + 1]
  BY <1>1, <1>2, HeadTailProperties
<1>7. /\ Tail(s) \o t \in Seq(S) /\ Len(Tail(s) \o t) = Len(s) - 1 + Len(t)
      /\ \A i \in 1..Len(s) - 1 + Len(t) :
            (Tail(s) \o t)[i] = IF i <= Len(s) - 1 THEN Tail(s)[i] ELSE t[i - (Len(s) - 1)]
  BY <1>1, <1>5, ConcatProperties
<1>8. \A i \in 1..Len(s) - 1 + Len(t) : Tail(s \o t)[i] = (Tail(s) \o t)[i]
  <2> TAKE i \in 1..Len(s) - 1 + Len(t)
  <2>1. /\ i \in Nat /\ i >= 1 /\ i + 1 \in 1..Len(s) + Len(t)
        /\ i \in 1..Len(Tail(s \o t))
    BY <1>1, <1>6
  <2>2. Tail(s \o t)[i] = IF i + 1 <= Len(s) THEN s[i + 1] ELSE t[i + 1 - Len(s)]
    BY <1>1, <1>6, <2>1
  <2>3. CASE i <= Len(s) - 1
    BY <1>1, <1>5, <1>7, <2>1, <2>2, <2>3
  <2>4. CASE ~ (i <= Len(s) - 1)
    <3>1. i + 1 - Len(s) = i - (Len(s) - 1) /\ ~ (i + 1 <= Len(s))
      BY <1>1, <2>1, <2>4
    <3> QED  BY <1>7, <2>2, <2>4, <3>1
  <2> QED  BY <2>3, <2>4
<1>9. Len(Tail(s \o t)) = Len(Tail(s) \o t) /\ Len(Tail(s \o t)) = Len(s) - 1 + Len(t)
  BY <1>1, <1>6, <1>7
<1>10. Tail(s \o t) = Tail(s) \o t
  BY <1>6, <1>7, <1>8, <1>9, SeqEqual
<1> QED  BY <1>1, <1>2, <1>4, <1>10

\* Only the role whose turn it is has popped messages that are not routed.
LEMMA ShortIs ==
    ASSUME TypeOK, NEW r \in Roles
    PROVE  /\ Short(r) \in Seq(Messages)
           /\ turn = 0 \/ r # Role \/ batch = <<>> => Short(r) = working[r]
           /\ turn # 0 /\ r = Role => Short(r) = batch \o working[r]
<1>1. working[r] \in Seq(Messages) /\ batch \in Seq(Messages) /\ <<>> \in Seq(Messages)
  BY DEF TypeOK
<1>2. <<>> \o working[r] = working[r] /\ turn \in Nat
  BY <1>1, ConcatEmptySeq DEF TypeOK
<1>3. batch \o working[r] \in Seq(Messages)
  BY <1>1, ConcatProperties
<1>4. turn > 0 <=> turn # 0
  BY <1>2
<1>5. CASE turn = 0 \/ r # Role
  BY <1>1, <1>2, <1>4, <1>5, Zenon DEF Short, Unrouted
<1>6. CASE turn # 0 /\ r = Role
  BY <1>1, <1>2, <1>3, <1>4, <1>6, Zenon DEF Short, Unrouted
<1> QED  BY <1>5, <1>6

\* A received message becomes the last of its speaker's short-term memory, also
\* when the queue overflows with it.
LEMMA ReceiveAppends ==
    ASSUME IInv, IInv', NEW u \in Understandings, Receive(u)
    PROVE  LET r == Speakers[turn + 1]
               m == [turn |-> turn + 1, says |-> u]
           IN  /\ r \in Roles /\ m \in Messages /\ cache' = cache
               /\ \A s \in Roles : Short(s)' = IF s = r THEN Append(Short(s), m) ELSE Short(s)
<1> DEFINE r == Speakers[turn + 1]
           m == [turn |-> turn + 1, says |-> u]
           queue == Append(working[r], m)
           full == Len(queue) = MaxSize
<1>0. TypeOK /\ Control /\ TypeOK'
  BY DEF IInv
<1>1. /\ pc = "next" /\ turn < Len(Speakers) /\ turn' = turn + 1
      /\ working' = [working EXCEPT ![r] = IF full THEN Left(queue) ELSE queue]
      /\ batch' = (IF full THEN Popped(queue) ELSE <<>>)
      /\ cache' = cache
  BY DEF Receive
<1>2. turn + 1 \in Turns /\ turn' # 0 /\ r \in Roles
  <2>1. Len(Speakers) \in Nat /\ turn \in 0..Len(Speakers)
    BY <1>0, IngestAssumption, LenProperties DEF TypeOK
  <2>2. turn + 1 \in 1..Len(Speakers) /\ turn + 1 # 0
    BY <1>1, <2>1
  <2>3. r \in Roles
    BY <2>2, IngestAssumption, ElementOfSeq
  <2> QED  BY <1>1, <2>2, <2>3 DEF Turns
<1>3. Role' = r
  BY <1>1 DEF Role
<1>4. m \in Messages /\ working[r] \in Seq(Messages)
  BY <1>0, <1>2 DEF Messages, TypeOK
<1> HIDE DEF r, m
<1>5. queue \in Seq(Messages)
  BY <1>4, AppendProperties
<1> HIDE DEF queue
<1>6. \A s \in Roles : Short(s) = working[s]
  BY <1>0, <1>1, ShortIs DEF Control
<1>7. \A s \in Roles :
        Short(s)' = IF s = r THEN batch' \o working'[s] ELSE working'[s]
  <2> TAKE s \in Roles
  <2>1. working'[s] \in Seq(Messages)
    BY <1>0 DEF TypeOK
  <2>2. <<>> \o working'[s] = working'[s]
    BY <2>1, ConcatEmptySeq
  <2>3. turn' > 0
    BY <1>0, <1>2 DEF TypeOK
  <2> QED  BY <1>3, <2>2, <2>3, Zenon DEF Short, Unrouted
<1>8. batch' \o working'[r] = queue
  <2>1. CASE full
    <3>1. working'[r] = Left(queue) /\ batch' = Popped(queue)
      BY <1>0, <1>1, <1>2, <2>1 DEF TypeOK
    <3> QED  BY <1>5, <3>1, QueueSplit
  <2>2. CASE ~full
    <3>1. working'[r] = queue /\ batch' = <<>>
      BY <1>0, <1>1, <1>2, <2>2 DEF TypeOK
    <3> QED  BY <1>5, <3>1, ConcatEmptySeq
  <2> QED  BY <2>1, <2>2
<1>9. \A s \in Roles : s # r => working'[s] = working[s]
  BY <1>0, <1>1 DEF TypeOK
<1>10. \A s \in Roles : Short(s)' = IF s = r THEN Append(Short(s), m) ELSE Short(s)
  <2> TAKE s \in Roles
  <2>1. CASE s = r
    <3>1. Short(s) = working[r] /\ Short(s)' = queue
      BY <1>6, <1>7, <1>8, <2>1, Zenon
    <3> QED  BY <2>1, <3>1, Zenon DEF queue
  <2>2. CASE s # r
    <3>1. Short(s)' = working'[s]
      BY <1>7, <2>2, Zenon
    <3>2. working'[s] = working[s]
      BY <1>9, <2>2, Zenon
    <3>3. Short(s) = working[s]
      BY <1>6, Zenon
    <3>4. Short(s)' = Short(s)
      BY ONLY <3>1, <3>2, <3>3, Zenon
    <3> QED  BY <2>2, <3>4, Zenon
  <2> QED  BY <2>1, <2>2
<1> QED  BY <1>1, <1>2, <1>4, <1>10 DEF r, m

LEMMA ReceiveRemembers ==
    ASSUME IInv, IInv', NEW u \in Understandings, Receive(u)
    PROVE  Layers!OverflowNext
<1> DEFINE r == Speakers[turn + 1]
           m == [turn |-> turn + 1, says |-> u]
<1>1. /\ r \in Roles /\ m \in Messages /\ cache' = cache
      /\ \A s \in Roles : Short(s)' = IF s = r THEN Append(Short(s), m) ELSE Short(s)
  BY ReceiveAppends
<1> HIDE DEF r, m
<1>2. Layers!Remember(r, m)
  BY <1>1 DEF Layers!Remember
<1> QED  BY <1>1, <1>2 DEF Layers!OverflowNext

\* The first unrouted message of the turn's role leaves its short-term memory.
LEMMA FirstLeaves ==
    ASSUME TypeOK, turn # 0, batch # <<>>, batch' = Tail(batch), UNCHANGED <<turn, working>>
    PROVE  /\ Role \in Roles /\ Short(Role) # <<>>
           /\ Head(Short(Role)) = Head(batch)
           /\ \A r \in Roles : Short(r)' = IF r = Role THEN Tail(Short(r)) ELSE Short(r)
<1>1. Role \in Roles /\ turn > 0
  BY RoleIsRole DEF TypeOK
<1>2. Short(Role) = batch \o working[Role]
  BY <1>1, Zenon DEF Short, Unrouted
<1>3. batch \in Seq(Messages) /\ working[Role] \in Seq(Messages)
  BY <1>1 DEF TypeOK
<1>4. /\ Short(Role) # <<>> /\ Head(Short(Role)) = Head(batch)
      /\ Tail(Short(Role)) = Tail(batch) \o working[Role]
  BY <1>2, <1>3, HeadTailOfConcat
<1>5. \A r \in Roles : Short(r)' = IF r = Role THEN Tail(Short(r)) ELSE Short(r)
  <2> TAKE r \in Roles
  <2>1. Role' = Role /\ turn' > 0
    BY <1>1 DEF Role
  <2>2. CASE r = Role
    <3>1. Short(r)' = Tail(batch) \o working[Role]
      BY <2>1, <2>2, Zenon DEF Short, Unrouted
    <3> QED  BY <1>4, <2>2, <3>1, Zenon
  <2>3. CASE r # Role
    BY <2>1, <2>3, Zenon DEF Short, Unrouted
  <2> QED  BY <2>2, <2>3
<1> QED  BY <1>1, <1>4, <1>5

LEMMA RouteEventOverflows ==
    ASSUME IInv, NEW a \in Answers, RouteEvent(a)
    PROVE  Layers!OverflowNext
<1>1. TypeOK /\ turn # 0 /\ batch # <<>>
  BY DEF IInv, Control, RouteEvent, Kinds
<1>2. /\ batch' = Tail(batch) /\ UNCHANGED <<turn, working>>
      /\ cache' = [cache EXCEPT ![Role] = Append(@, Head(batch))]
  BY DEF RouteEvent
<1>3. /\ Role \in Roles /\ Short(Role) # <<>> /\ Head(Short(Role)) = Head(batch)
      /\ \A r \in Roles : Short(r)' = IF r = Role THEN Tail(Short(r)) ELSE Short(r)
  BY <1>1, <1>2, FirstLeaves
<1>4. Layers!Overflow(Role)
  BY <1>2, <1>3 DEF Layers!Overflow
<1> QED  BY <1>3, <1>4 DEF Layers!OverflowNext

LEMMA GiveUpEventForgets ==
    ASSUME IInv, GiveUpEvent
    PROVE  Layers!OverflowNext
<1>1. TypeOK /\ turn # 0 /\ batch # <<>>
  BY DEF IInv, Control, GiveUpEvent, Kinds
<1>2. batch' = Tail(batch) /\ UNCHANGED <<turn, working, cache>>
  BY DEF GiveUpEvent, memoryVars
<1>3. /\ Role \in Roles /\ Short(Role) # <<>>
      /\ \A r \in Roles : Short(r)' = IF r = Role THEN Tail(Short(r)) ELSE Short(r)
  BY <1>1, <1>2, FirstLeaves
<1>4. Layers!Forget(Role)
  BY <1>2, <1>3 DEF Layers!Forget
<1> QED  BY <1>3, <1>4 DEF Layers!OverflowNext

LEMMA OthersStutter ==
    ASSUME UNCHANGED <<turn, batch, working, cache>>
    PROVE  UNCHANGED Layers!overflowVars
<1>1. \A r \in Roles : Short(r)' = Short(r)
  BY Zenon DEF Short, Unrouted, Role
<1> QED  BY <1>1 DEF Layers!overflowVars

\* Every ingest implements the layered memory, whatever is asked and answered.
THEOREM IngestImplementsOverflow == Spec => ImplementsOverflow
<1>1. Init => Layers!OverflowInit
  <2> SUFFICES ASSUME Init PROVE Layers!OverflowInit
    OBVIOUS
  <2>1. \A r \in Roles : Short(r) = <<>>
    <3>1. <<>> \in Seq(Messages) /\ <<>> \o <<>> = <<>>
      BY ConcatEmptySeq
    <3> QED  BY <3>1 DEF Init, Short, Unrouted
  <2> QED  BY <2>1 DEF Init, Layers!OverflowInit
<1>2. IInv /\ IInv' /\ [Next]_vars => [Layers!OverflowNext]_(Layers!overflowVars)
  <2> SUFFICES ASSUME IInv, IInv', [Next]_vars
               PROVE  Layers!OverflowNext \/ UNCHANGED Layers!overflowVars
    OBVIOUS
  <2>1. ASSUME NEW u \in Understandings, Receive(u) PROVE Layers!OverflowNext
    BY <2>1, ReceiveRemembers
  <2>2. ASSUME NEW a \in Answers, RouteEvent(a) PROVE Layers!OverflowNext
    BY <2>2, RouteEventOverflows
  <2>3. CASE GiveUpEvent
    BY <2>3, GiveUpEventForgets
  <2>4. ASSUME NEW a \in Answers, AskAgain(a) \/ RouteFact(a) \/ RouteAttribute(a)
        PROVE  UNCHANGED <<turn, batch, working, cache>>
    BY <2>4 DEF AskAgain, RouteFact, RouteAttribute, memoryVars
  <2>5. CASE GiveUpFact \/ GiveUpAttribute \/ EvolveTopics \/ Sync \/ Abort \/ UNCHANGED vars
    <3>1. UNCHANGED <<turn, batch, working, cache>>
      BY <2>5 DEF GiveUpFact, GiveUpAttribute, EvolveTopics, Sync, Abort, vars,
                  progressVars, memoryVars
    <3> QED  BY <3>1, OthersStutter
  <2> QED
    BY <2>1, <2>2, <2>3, <2>4, <2>5, OthersStutter DEF Next
<1> QED
  BY <1>1, <1>2, InitOK, StepOK, PTL DEF Spec, ImplementsOverflow, Layers!OverflowSpec

(* ------------------------------ Accounts -------------------------------- *)

InOrder(q) == \A i, j \in DOMAIN q : i < j => q[i].turn < q[j].turn

\* A message of a later turn than all before it keeps a queue in order.
LEMMA AppendInOrder ==
    ASSUME NEW q \in Seq(Messages), NEW m \in Messages, InOrder(q),
           \A t \in TurnsOf(q) : t < m.turn
    PROVE  InOrder(Append(q, m))
<1>1. /\ Append(q, m) \in Seq(Messages)
      /\ Len(Append(q, m)) = Len(q) + 1
      /\ \A i \in 1..Len(q) : Append(q, m)[i] = q[i]
      /\ Append(q, m)[Len(q) + 1] = m
  BY AppendProperties
<1>2. /\ DOMAIN q = 1..Len(q) /\ Len(q) \in Nat
      /\ DOMAIN Append(q, m) = 1..(Len(q) + 1)
  BY <1>1, LenProperties
<1>3. \A i \in 1..Len(q) : q[i].turn < m.turn
  BY <1>2 DEF TurnsOf
<1> QED
  BY <1>1, <1>2, <1>3 DEF InOrder

\* What is archived first is what is retained first: moving the head of the one
\* queue to the end of the other changes nothing in the two together.
LEMMA ArchiveKeeps ==
    ASSUME NEW c \in Seq(Messages), NEW s \in Seq(Messages), s # <<>>
    PROVE  Append(c, Head(s)) \o Tail(s) = c \o s
<1>1. /\ Head(s) \in Messages /\ Tail(s) \in Seq(Messages)
      /\ Len(Tail(s)) = Len(s) - 1 /\ Len(s) \in Nat \ {0} /\ Len(c) \in Nat
      /\ \A i \in 1..Len(s) - 1 : Tail(s)[i] = s[i + 1]
  BY HeadTailProperties, EmptySeq, LenProperties
<1>2. Head(s) = s[1]
  BY <1>1
<1>3. /\ Append(c, Head(s)) \in Seq(Messages) /\ Len(Append(c, Head(s))) = Len(c) + 1
      /\ \A i \in 1..Len(c) : Append(c, Head(s))[i] = c[i]
      /\ Append(c, Head(s))[Len(c) + 1] = s[1]
  BY <1>1, <1>2, AppendProperties
<1>4. /\ c \o s \in Seq(Messages) /\ Len(c \o s) = Len(c) + Len(s)
      /\ \A i \in 1..Len(c) + Len(s) :
            (c \o s)[i] = IF i <= Len(c) THEN c[i] ELSE s[i - Len(c)]
  BY ConcatProperties
<1> DEFINE a == Append(c, Head(s))
<1>5. /\ a \o Tail(s) \in Seq(Messages) /\ Len(a \o Tail(s)) = Len(c) + Len(s)
      /\ \A i \in 1..Len(c) + Len(s) :
            (a \o Tail(s))[i] = IF i <= Len(c) + 1 THEN a[i] ELSE Tail(s)[i - (Len(c) + 1)]
  <2> HIDE DEF a
  <2>1. a \in Seq(Messages) /\ Len(a) = Len(c) + 1
    BY <1>3 DEF a
  <2>2. Len(c) + 1 + (Len(s) - 1) = Len(c) + Len(s)
    BY <1>1
  <2>3. /\ a \o Tail(s) \in Seq(Messages) /\ Len(a \o Tail(s)) = Len(a) + Len(Tail(s))
        /\ \A i \in 1..Len(a) + Len(Tail(s)) :
              (a \o Tail(s))[i] = IF i <= Len(a) THEN a[i] ELSE Tail(s)[i - Len(a)]
    BY <1>1, <2>1, ConcatProperties
  <2> QED
    BY <1>1, <2>1, <2>2, <2>3
<1>6. \A i \in 1..Len(c) + Len(s) : (a \o Tail(s))[i] = (c \o s)[i]
  <2> TAKE i \in 1..Len(c) + Len(s)
  <2> HIDE DEF a
  <2>0. i \in Nat /\ i >= 1 /\ i <= Len(c) + Len(s)
    BY <1>1
  <2>1. CASE i <= Len(c)
    <3>1. a[i] = c[i]
      BY <1>1, <1>3, <2>0, <2>1 DEF a
    <3> QED  BY <1>1, <1>4, <1>5, <2>0, <2>1, <3>1
  <2>2. CASE i = Len(c) + 1
    <3>1. a[i] = s[1] /\ i - Len(c) = 1 /\ ~(i <= Len(c))
      BY <1>1, <1>3, <2>2 DEF a
    <3> QED  BY <1>1, <1>4, <1>5, <2>0, <2>2, <3>1
  <2>3. CASE i > Len(c) + 1
    <3>1. /\ i - (Len(c) + 1) \in 1..Len(s) - 1
          /\ i - (Len(c) + 1) + 1 = i - Len(c)
          /\ ~(i <= Len(c)) /\ ~(i <= Len(c) + 1)
      BY <1>1, <2>0, <2>3
    <3>2. Tail(s)[i - (Len(c) + 1)] = s[i - Len(c)]
      BY <1>1, <3>1
    <3>3. (a \o Tail(s))[i] = Tail(s)[i - (Len(c) + 1)] /\ (c \o s)[i] = s[i - Len(c)]
      BY <1>4, <1>5, <3>1
    <3> QED  BY <3>2, <3>3
  <2>4. i <= Len(c) \/ i = Len(c) + 1 \/ i > Len(c) + 1
    BY <1>1, <2>0
  <2> QED  BY <2>1, <2>2, <2>3, <2>4
<1> HIDE DEF a
<1>7. a \o Tail(s) = c \o s
  BY <1>4, <1>5, <1>6, SeqEqual
<1> QED  BY <1>7 DEF a

\* A message that is forgotten leaves the others in order, and only its turn is
\* missing then.
LEMMA ForgetInOrder ==
    ASSUME NEW c \in Seq(Messages), NEW s \in Seq(Messages), s # <<>>, InOrder(c \o s)
    PROVE  /\ InOrder(c \o Tail(s))
           /\ TurnsOf(c \o Tail(s)) = TurnsOf(c \o s) \ {Head(s).turn}
           /\ Head(s).turn \in TurnsOf(c \o s)
<1> DEFINE all == c \o s
           kept == c \o Tail(s)
           p == Len(c) + 1
           n == Len(c) + Len(s)
<1>1. /\ Tail(s) \in Seq(Messages)
      /\ Len(Tail(s)) = Len(s) - 1 /\ Len(s) \in Nat \ {0} /\ Len(c) \in Nat
      /\ \A i \in 1..Len(s) - 1 : Tail(s)[i] = s[i + 1]
  BY HeadTailProperties, EmptySeq, LenProperties
<1>2. Head(s) = s[1]
  BY <1>1
<1>3. /\ all \in Seq(Messages) /\ Len(all) = n
      /\ \A i \in 1..n : all[i] = IF i <= Len(c) THEN c[i] ELSE s[i - Len(c)]
  BY ConcatProperties
<1>4. /\ kept \in Seq(Messages) /\ Len(kept) = n - 1
      /\ \A i \in 1..n - 1 : kept[i] = IF i <= Len(c) THEN c[i] ELSE Tail(s)[i - Len(c)]
  <2>1. Len(c) + (Len(s) - 1) = n - 1
    BY <1>1
  <2> QED  BY <1>1, <2>1, ConcatProperties
<1>5. DOMAIN all = 1..n /\ DOMAIN kept = 1..n - 1 /\ n \in Nat /\ p \in 1..n
  BY <1>1, <1>3, <1>4, LenProperties
<1>6. all[p] = Head(s)
  BY <1>1, <1>2, <1>3
<1>7. \A i \in 1..n - 1 : kept[i] = all[IF i < p THEN i ELSE i + 1]
  <2> TAKE i \in 1..n - 1
  <2> HIDE DEF all, kept
  <2>1. CASE i < p
    <3>1. i <= Len(c) /\ i \in 1..n
      BY <1>1, <2>1
    <3>2. kept[i] = c[i] /\ all[i] = c[i]
      BY <1>3, <1>4, <3>1
    <3> QED  BY <2>1, <3>2
  <2>2. CASE ~(i < p)
    <3>1. /\ i - Len(c) \in 1..Len(s) - 1 /\ (i + 1) - Len(c) = (i - Len(c)) + 1
          /\ ~(i <= Len(c)) /\ ~(i + 1 <= Len(c)) /\ i + 1 \in 1..n
      BY <1>1, <2>2
    <3> QED  BY <1>1, <1>3, <1>4, <2>2, <3>1
  <2> QED  BY <2>1, <2>2
<1> HIDE DEF all, kept, n, p
<1>8. \A i, j \in 1..n : i < j => all[i].turn < all[j].turn
  BY <1>5 DEF InOrder, all
<1>9. InOrder(kept)
  BY <1>5, <1>7, <1>8 DEF InOrder
<1>10. \A i \in 1..n : all[i] \in Messages
  BY <1>3, ElementOfSeq
<1>11. \A i \in 1..n : i # p => all[i].turn # all[p].turn
  BY <1>5, <1>8, <1>10 DEF Messages, Turns
<1>12. TurnsOf(kept) = TurnsOf(all) \ {all[p].turn}
  <2>1. \A i \in 1..n - 1 : \E k \in 1..n : k # p /\ kept[i] = all[k]
    BY <1>5, <1>7
  <2>2. \A k \in 1..n : k # p => \E i \in 1..n - 1 : kept[i] = all[k]
    <3> TAKE k \in 1..n
    <3>1. CASE k < p
      <4>1. k \in 1..n - 1
        BY <1>5, <3>1
      <4> QED  BY <1>7, <3>1, <4>1
    <3>2. CASE k > p
      <4>1. k - 1 \in 1..n - 1 /\ ~(k - 1 < p) /\ (k - 1) + 1 = k
        BY <1>5, <3>2
      <4> QED  BY <1>7, <4>1
    <3> QED  BY <1>5, <3>1, <3>2
  <2>3. /\ TurnsOf(kept) = {kept[i].turn : i \in 1..n - 1}
        /\ TurnsOf(all) = {all[k].turn : k \in 1..n}
    BY <1>5 DEF TurnsOf
  <2>4. ASSUME NEW i \in 1..n - 1
        PROVE  kept[i].turn \in TurnsOf(all) \ {all[p].turn}
    BY <1>11, <2>1, <2>3
  <2>5. ASSUME NEW k \in 1..n, all[k].turn # all[p].turn
        PROVE  all[k].turn \in TurnsOf(kept)
    <3>1. k # p
      BY <2>5
    <3>2. PICK i \in 1..n - 1 : kept[i] = all[k]
      BY <2>2, <3>1
    <3> QED  BY <2>3, <3>2
  <2> QED
    BY <2>3, <2>4, <2>5
<1> QED
  BY <1>5, <1>6, <1>9, <1>12 DEF TurnsOf, all, kept

\* MessagesAccounted, and only a message that has been received was dropped.
Accounts ==
    /\ \A r \in Roles : /\ TurnsOf(Retained(r)) = {t \in 1..turn : Speakers[t] = r} \ dropped
                        /\ InOrder(Retained(r))
    /\ dropped \subseteq 1..turn

LEMMA RetainedIs ==
    ASSUME TypeOK, NEW r \in Roles
    PROVE  /\ cache[r] \in Seq(Messages) /\ Short(r) \in Seq(Messages)
           /\ Retained(r) \in Seq(Messages) /\ Retained(r) = cache[r] \o Short(r)
<1>1. cache[r] \in Seq(Messages) /\ Short(r) \in Seq(Messages)
  BY ShortIs DEF TypeOK
<1> QED
  BY <1>1, ConcatProperties DEF Retained

LEMMA ReceiveAccounts ==
    ASSUME IInv, IInv', Accounts, NEW u \in Understandings, Receive(u)
    PROVE  Accounts'
<1>0. TypeOK /\ turn \in Nat /\ turn' = turn + 1 /\ dropped' = dropped
  BY DEF IInv, TypeOK, Receive
<1>1. PICK r \in Roles, m \in Messages :
        /\ r = Speakers[turn + 1] /\ m.turn = turn + 1 /\ cache' = cache
        /\ \A s \in Roles : Short(s)' = IF s = r THEN Append(Short(s), m) ELSE Short(s)
  BY ReceiveAppends
<1>2. Retained(r)' = Append(Retained(r), m) /\ Retained(r) \in Seq(Messages)
  <2>1. /\ cache[r] \in Seq(Messages) /\ Short(r) \in Seq(Messages)
        /\ Retained(r) \in Seq(Messages) /\ Retained(r) = cache[r] \o Short(r)
    BY <1>0, RetainedIs
  <2>2. <<m>> \in Seq(Messages)
    OBVIOUS
  <2>3. /\ Append(Short(r), m) = Short(r) \o <<m>>
        /\ Append(Retained(r), m) = Retained(r) \o <<m>>
    BY <2>1, AppendIsConcat
  <2>4. (cache[r] \o Short(r)) \o <<m>> = cache[r] \o (Short(r) \o <<m>>)
    <3>1. \A a, b, c \in Seq(Messages) : (a \o b) \o c = a \o (b \o c)
      BY ConcatAssociative
    <3> QED  BY <2>1, <2>2, <3>1, Zenon
  <2>5. Retained(r)' = cache[r] \o Append(Short(r), m)
    BY <1>1 DEF Retained
  <2> QED
    BY <2>1, <2>3, <2>4, <2>5
<1>3. \A s \in Roles : s # r => Retained(s)' = Retained(s)
  BY <1>1 DEF Retained
<1>4. \A t \in TurnsOf(Retained(r)) : t < m.turn
  BY <1>0, <1>1 DEF Accounts
<1>5. /\ InOrder(Retained(r)')
      /\ TurnsOf(Retained(r)') = TurnsOf(Retained(r)) \cup {turn + 1}
  <2>1. Retained(r) \in Seq(Messages) /\ InOrder(Retained(r))
    BY <1>2 DEF Accounts
  <2>2. /\ InOrder(Append(Retained(r), m))
        /\ TurnsOf(Append(Retained(r), m)) = TurnsOf(Retained(r)) \cup {m.turn}
    BY <1>4, <2>1, AppendInOrder, TurnsOfAppend
  <2> QED
    BY <1>1, <1>2, <2>2
<1>6. \A s \in Roles : /\ TurnsOf(Retained(s)') = {t \in 1..turn + 1 : Speakers[t] = s} \ dropped
                       /\ InOrder(Retained(s)')
  <2> TAKE s \in Roles
  <2>1. /\ TurnsOf(Retained(s)) = {t \in 1..turn : Speakers[t] = s} \ dropped
        /\ InOrder(Retained(s)) /\ dropped \subseteq 1..turn
    BY DEF Accounts
  <2>2. 1..turn + 1 = 1..turn \cup {turn + 1} /\ turn + 1 \notin 1..turn
    BY <1>0
  <2>3. CASE s = r
    BY <1>1, <1>5, <2>1, <2>2, <2>3
  <2>4. CASE s # r
    BY <1>1, <1>3, <2>1, <2>2, <2>4
  <2> QED  BY <2>3, <2>4
<1>7. dropped \subseteq 1..turn + 1
  BY <1>0 DEF Accounts
<1> QED
  BY <1>0, <1>6, <1>7 DEF Accounts, InOrder, TurnsOf

LEMMA RouteEventAccounts ==
    ASSUME IInv, Accounts, NEW a \in Answers, RouteEvent(a)
    PROVE  Accounts'
<1>1. TypeOK /\ turn # 0 /\ batch # <<>>
  BY DEF IInv, Control, RouteEvent, Kinds
<1>2. /\ batch' = Tail(batch) /\ UNCHANGED <<turn, working, dropped>>
      /\ cache' = [cache EXCEPT ![Role] = Append(@, Head(batch))]
  BY DEF RouteEvent
<1>3. /\ Role \in Roles /\ Short(Role) # <<>> /\ Head(Short(Role)) = Head(batch)
      /\ \A r \in Roles : Short(r)' = IF r = Role THEN Tail(Short(r)) ELSE Short(r)
  BY <1>1, <1>2, FirstLeaves
<1>4. PICK role \in Roles : role = Role
  BY <1>3
<1>5. \A r \in Roles : Retained(r)' = Retained(r)
  <2> TAKE r \in Roles
  <2>1. /\ cache[r] \in Seq(Messages) /\ Short(r) \in Seq(Messages)
        /\ Retained(r) = cache[r] \o Short(r)
    BY <1>1, RetainedIs
  <2>2. CASE r = role
    <3>1. /\ Retained(r)' = cache'[r] \o Tail(Short(r))
          /\ cache'[r] = Append(cache[r], Head(Short(r))) /\ Short(r) # <<>>
      BY <1>1, <1>2, <1>3, <1>4, <2>2 DEF Retained, TypeOK
    <3> QED
      BY <2>1, <3>1, ArchiveKeeps
  <2>3. CASE r # role
    <3>1. cache'[r] = cache[r] /\ Short(r)' = Short(r)
      BY <1>1, <1>2, <1>3, <1>4, <2>3 DEF TypeOK
    <3> QED
      BY <3>1 DEF Retained
  <2> QED  BY <2>2, <2>3
<1> QED
  BY <1>2, <1>5 DEF Accounts, InOrder, TurnsOf

LEMMA GiveUpEventAccounts ==
    ASSUME IInv, Accounts, GiveUpEvent
    PROVE  Accounts'
<1>1. TypeOK /\ turn # 0 /\ batch # <<>>
  BY DEF IInv, Control, GiveUpEvent, Kinds
<1>2. /\ batch' = Tail(batch) /\ UNCHANGED <<turn, working, cache>>
      /\ dropped' = dropped \cup {Head(batch).turn}
  BY DEF GiveUpEvent, memoryVars
<1>3. /\ Role \in Roles /\ Short(Role) # <<>> /\ Head(Short(Role)) = Head(batch)
      /\ \A r \in Roles : Short(r)' = IF r = Role THEN Tail(Short(r)) ELSE Short(r)
  BY <1>1, <1>2, FirstLeaves
<1>4. PICK role \in Roles, lost \in Turns : role = Role /\ lost = Head(batch).turn
  <2>1. Head(batch) \in Messages
    BY <1>1, HeadTailProperties DEF TypeOK
  <2> QED
    BY <1>3, <2>1 DEF Messages
<1>5. /\ InOrder(Retained(role)')
      /\ TurnsOf(Retained(role)') = TurnsOf(Retained(role)) \ {lost}
      /\ lost \in TurnsOf(Retained(role))
  <2>1. /\ cache[role] \in Seq(Messages) /\ Short(role) \in Seq(Messages)
        /\ Retained(role) = cache[role] \o Short(role)
    BY <1>1, RetainedIs
  <2>2. Short(role) # <<>> /\ Head(Short(role)).turn = lost
    BY <1>3, <1>4
  <2>3. Retained(role)' = cache[role] \o Tail(Short(role))
    BY <1>2, <1>3, <1>4 DEF Retained
  <2>4. InOrder(cache[role] \o Short(role))
    BY <2>1 DEF Accounts
  <2> QED
    BY <2>1, <2>2, <2>3, <2>4, ForgetInOrder
<1>6. \A r \in Roles : r # role => Retained(r)' = Retained(r)
  BY <1>2, <1>3, <1>4 DEF Retained
<1>7. lost \in 1..turn /\ Speakers[lost] = role
  BY <1>5 DEF Accounts
<1>8. \A r \in Roles : /\ TurnsOf(Retained(r)') = {t \in 1..turn : Speakers[t] = r} \ dropped'
                       /\ InOrder(Retained(r)')
  <2> TAKE r \in Roles
  <2>1. /\ TurnsOf(Retained(r)) = {t \in 1..turn : Speakers[t] = r} \ dropped
        /\ InOrder(Retained(r))
    BY DEF Accounts
  <2>2. CASE r = role
    BY <1>2, <1>4, <1>5, <2>1, <2>2
  <2>3. CASE r # role
    BY <1>2, <1>4, <1>6, <1>7, <2>1, <2>3
  <2> QED  BY <2>2, <2>3
<1>9. dropped' \subseteq 1..turn
  BY <1>2, <1>4, <1>7 DEF Accounts
<1> QED
  BY <1>2, <1>8, <1>9 DEF Accounts, InOrder, TurnsOf

\* Everything else leaves the queues and the archive alone.
LEMMA OthersAccount ==
    ASSUME Accounts, UNCHANGED <<turn, batch, working, cache, dropped>>
    PROVE  Accounts'
<1>1. \A r \in Roles : Retained(r)' = Retained(r)
  BY Zenon DEF Retained, Short, Unrouted, Role
<1> QED
  BY <1>1 DEF Accounts, InOrder, TurnsOf

\* Every turn begun is in one place of its role's memories, in order, or was
\* dropped by the router, for any conversation, sizes and answers.
THEOREM MessagesAccountedHolds == Spec => []MessagesAccounted
<1>1. Init => Accounts
  <2> SUFFICES ASSUME Init PROVE Accounts
    OBVIOUS
  <2>1. <<>> \in Seq(Messages) /\ <<>> \o <<>> = <<>> /\ DOMAIN <<>> = {}
    BY ConcatEmptySeq
  <2>2. \A r \in Roles : Retained(r) = <<>>
    BY <2>1 DEF Init, Retained, Short, Unrouted
  <2>3. turn = 0 /\ dropped = {} /\ 1..turn = {}
    BY DEF Init
  <2> QED
    BY <2>1, <2>2, <2>3 DEF Accounts, TurnsOf, InOrder
<1>2. IInv /\ IInv' /\ Accounts /\ [Next]_vars => Accounts'
  <2> SUFFICES ASSUME IInv, IInv', Accounts, [Next]_vars PROVE Accounts'
    OBVIOUS
  <2>1. ASSUME NEW u \in Understandings, Receive(u) PROVE Accounts'
    BY <2>1, ReceiveAccounts
  <2>2. ASSUME NEW a \in Answers, RouteEvent(a) PROVE Accounts'
    BY <2>2, RouteEventAccounts
  <2>3. CASE GiveUpEvent
    BY <2>3, GiveUpEventAccounts
  <2>4. ASSUME NEW a \in Answers, AskAgain(a) \/ RouteFact(a) \/ RouteAttribute(a)
        PROVE  Accounts'
    <3>1. UNCHANGED <<turn, batch, working, cache, dropped>>
      BY <2>4 DEF AskAgain, RouteFact, RouteAttribute, memoryVars
    <3> QED  BY <3>1, OthersAccount
  <2>5. CASE GiveUpFact \/ GiveUpAttribute \/ EvolveTopics \/ Sync \/ Abort \/ UNCHANGED vars
    <3>1. UNCHANGED <<turn, batch, working, cache, dropped>>
      BY <2>5 DEF GiveUpFact, GiveUpAttribute, EvolveTopics, Sync, Abort, vars,
                  progressVars, memoryVars
    <3> QED  BY <3>1, OthersAccount
  <2> QED
    BY <2>1, <2>2, <2>3, <2>4, <2>5 DEF Next
<1>3. Accounts => MessagesAccounted
  BY DEF Accounts, MessagesAccounted, InOrder
<1> QED
  BY <1>1, <1>2, <1>3, InitOK, StepOK, PTL DEF Spec

\* The last message of a topic is one of that topic.
LEMMA LastTurnLeads ==
    ASSUME NEW q \in Seq(Messages), NEW k \in 1..Len(q)
    PROVE  \E l \in 1..Len(q) : /\ q[l].says.topic = q[k].says.topic
                                /\ LastTurn(q, q[k].says.topic) = q[l].turn
<1> DEFINE topic == q[k].says.topic
           places == {i \in DOMAIN q : q[i].says.topic = topic}
           last == CHOOSE i \in places : \A j \in places : j <= i
<1>1. places \in SUBSET (1..Len(q)) /\ places # {} /\ Len(q) \in Nat
  BY LenProperties
<1>2. last \in places
  <2> HIDE DEF places
  <2> QED  BY <1>1, LastPlace
<1>3. LastTurn(q, topic) = q[last].turn
  BY <1>1 DEF LastTurn
<1> HIDE DEF last
<1> QED  BY <1>1, <1>2, <1>3

\* Two queues one after the other hold the same in either order.
LEMMA ConcatHolds ==
    ASSUME NEW s \in Seq(Messages), NEW t \in Seq(Messages), NEW i \in DOMAIN (s \o t)
    PROVE  \E j \in DOMAIN (t \o s) : (t \o s)[j] = (s \o t)[i]
<1>1. /\ Len(s) \in Nat /\ Len(t) \in Nat
      /\ DOMAIN (s \o t) = 1..Len(s) + Len(t) /\ DOMAIN (t \o s) = 1..Len(t) + Len(s)
      /\ \A k \in 1..Len(s) + Len(t) :
            (s \o t)[k] = IF k <= Len(s) THEN s[k] ELSE t[k - Len(s)]
      /\ \A k \in 1..Len(t) + Len(s) :
            (t \o s)[k] = IF k <= Len(t) THEN t[k] ELSE s[k - Len(t)]
  BY LenProperties, ConcatProperties
<1>2. CASE i <= Len(s)
  <2>1. /\ i + Len(t) \in 1..Len(t) + Len(s) /\ ~(i + Len(t) <= Len(t))
        /\ (i + Len(t)) - Len(t) = i
    BY <1>1, <1>2
  <2>2. (t \o s)[i + Len(t)] = s[i] /\ (s \o t)[i] = s[i]
    BY <1>1, <1>2, <2>1
  <2> QED  BY <1>1, <2>1, <2>2
<1>3. CASE ~(i <= Len(s))
  <2>1. i - Len(s) \in 1..Len(t) + Len(s) /\ i - Len(s) <= Len(t)
    BY <1>1, <1>3
  <2>2. (t \o s)[i - Len(s)] = t[i - Len(s)] /\ (s \o t)[i] = t[i - Len(s)]
    BY <1>1, <1>3, <2>1
  <2> QED  BY <1>1, <2>1, <2>2
<1> QED  BY <1>2, <1>3

\* The topic map is complete when it has been built.
LEMMA SyncLeads ==
    ASSUME IInv, Sync
    PROVE  TopicsLead'
<1>1. /\ TypeOK /\ batch = <<>>
      /\ UNCHANGED <<turn, batch, working, cache>>
      /\ topicTurn' = [r \in Roles |-> [w \in Words |-> LastTurn(working[r] \o cache[r], w)]]
  BY DEF IInv, Control, Sync
<1> SUFFICES ASSUME NEW r \in Roles, NEW i \in DOMAIN Retained(r)'
             PROVE  \E j \in DOMAIN Retained(r)' :
                       /\ Retained(r)'[j].says.topic = Retained(r)'[i].says.topic
                       /\ topicTurn'[r][Retained(r)'[i].says.topic] = Retained(r)'[j].turn
  BY DEF TopicsLead
<1> DEFINE kept == cache[r] \o working[r]
           listed == working[r] \o cache[r]
<1>2. cache[r] \in Seq(Messages) /\ working[r] \in Seq(Messages)
  BY <1>1 DEF TypeOK
<1>3. Retained(r)' = kept
  <2>1. Retained(r)' = Retained(r)
    BY <1>1, Zenon DEF Retained, Short, Unrouted, Role
  <2>2. Short(r) = working[r]
    BY <1>1, ShortIs
  <2> QED
    BY <2>1, <2>2 DEF Retained
<1>4. listed \in Seq(Messages) /\ DOMAIN listed = 1..Len(listed)
  BY <1>2, ConcatProperties, LenProperties
<1>5. PICK k \in DOMAIN listed : listed[k] = kept[i]
  BY <1>2, <1>3, ConcatHolds
<1>6. listed[k].says.topic \in Words
  <2>1. listed[k] \in Messages
    BY <1>4, <1>5, ElementOfSeq
  <2> QED
    BY <2>1, IngestAssumption DEF Messages
<1>7. PICK l \in DOMAIN listed :
         /\ listed[l].says.topic = listed[k].says.topic
         /\ LastTurn(listed, listed[k].says.topic) = listed[l].turn
  BY <1>4, <1>5, LastTurnLeads
<1>8. PICK j \in DOMAIN kept : kept[j] = listed[l]
  BY <1>2, <1>7, ConcatHolds
<1>9. topicTurn'[r][listed[k].says.topic] = LastTurn(listed, listed[k].says.topic)
  BY <1>1, <1>6
<1> HIDE DEF kept, listed
<1> QED
  BY <1>3, <1>5, <1>7, <1>8, <1>9

\* Every topic of a retained message leads to a retained message of that topic
\* once the ingest is over (_sync_omem_state).
THEOREM TopicsLeadHolds == Spec => []TopicsLead
<1>1. Init => TopicsLead
  BY DEF Init, TopicsLead
<1>2. IInv /\ TopicsLead /\ [Next]_vars => TopicsLead'
  <2> SUFFICES ASSUME IInv, TopicsLead, [Next]_vars PROVE TopicsLead'
    OBVIOUS
  <2>1. CASE Sync
    BY <2>1, SyncLeads
  <2>2. ASSUME pc' # "synced" PROVE TopicsLead'
    BY <2>2 DEF TopicsLead
  <2>3. CASE UNCHANGED vars
    <3>1. \A r \in Roles : Retained(r)' = Retained(r)
      BY <2>3, Zenon DEF vars, progressVars, memoryVars, Retained, Short, Unrouted, Role
    <3>2. pc' = pc /\ topicTurn' = topicTurn
      BY <2>3 DEF vars, progressVars, memoryVars
    <3> QED
      BY <3>1, <3>2 DEF TopicsLead
  <2>4. ASSUME NEW u \in Understandings, Receive(u) PROVE pc' # "synced"
    BY <2>4 DEF Receive
  <2>5. ASSUME NEW a \in Answers,
               AskAgain(a) \/ RouteEvent(a) \/ RouteFact(a) \/ RouteAttribute(a)
        PROVE  pc' # "synced"
    BY <2>5 DEF AskAgain, RouteEvent, RouteFact, RouteAttribute, Continue, AfterMessage, Kinds
  <2>6. CASE GiveUpEvent \/ GiveUpFact \/ GiveUpAttribute \/ EvolveTopics \/ Abort
    <3>1. pc' # "synced"
      BY <2>6 DEF GiveUpEvent, GiveUpFact, GiveUpAttribute, EvolveTopics, Abort,
                  Continue, AfterMessage
    <3> QED  BY <2>2, <3>1
  <2> QED
    BY <2>1, <2>2, <2>3, <2>4, <2>5, <2>6 DEF Next
<1> QED
  BY <1>1, <1>2, InitOK, StepOK, PTL DEF Spec
=============================================================================
