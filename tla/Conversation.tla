---------------------------- MODULE Conversation ----------------------------
(***************************************************************************)
(* How a conversation gets from the data file to Membox.  The pipeline     *)
(* flattens its sessions in the text order of their keys, in which         *)
(* session_10 comes before session_2; the adapter groups the turns by the  *)
(* text of their session's timestamp and numbers the groups in the text    *)
(* order of these, in which "1:14 pm on 25 May" comes before               *)
(* "1:56 pm on 8 May"; Membox reads the groups by number.                  *)
(*                                                                         *)
(* A conversation c has the sessions DOMAIN c.texts; c.texts[s] tells for  *)
(* each turn of session s whether it has a text, and c.stamp[s] is the     *)
(* place of its timestamp in text order, 0 if it has none.                 *)
(***************************************************************************)
EXTENDS Naturals, Selections

\* Bound: session numbers have at most two digits.
MaxSession == 99

(* ----------------------- _conversation_to_turns ------------------------ *)

\* The session numbers in the text order of their keys: 1, 10 to 19, 2, 20 and so on.
InTextOrder == [k \in 1..MaxSession |->
                  LET lead == (k - 1) \div 11 + 1
                      next == (k - 1) % 11
                  IN  IF next = 0 THEN lead ELSE 10 * lead + next - 1]

\* The turns of a session that have a text, by their places in the session.
Spoken(c, s) ==
    IF s \in DOMAIN c.texts
    THEN Selected([p \in DOMAIN c.texts[s] |-> [session |-> s, place |-> p]],
                  {p \in DOMAIN c.texts[s] : c.texts[s][p]})
    ELSE <<>>

Flattened(c) == FlattenSeq([k \in 1..MaxSession |-> Spoken(c, InTextOrder[k])])

(* ----------------------- _to_membox_conversation ----------------------- *)

\* _timestamp_to_session: turns without a timestamp form a group of their own,
\* whose name starts with a letter and so comes after those with digits.
Group(c, s) == IF c.stamp[s] = 0 THEN MaxSession + 1 ELSE c.stamp[s]

\* The groups of some turns, in order.
Groups(c, turns) == Selected([g \in 1..MaxSession+1 |-> g],
                             {Group(c, turns[i].session) : i \in DOMAIN turns})

\* Fault: sessions are grouped by timestamp, but of a group only the first is kept.
MemboxSessionsFirst(c) ==
    LET turns == Flattened(c)
        groups == Groups(c, turns)
        members(k) == {i \in DOMAIN turns : Group(c, turns[i].session) = groups[k]}
    IN  [k \in DOMAIN groups |->
            Selected(turns, {i \in members(k) : \A j \in members(k) :
                                j < i => turns[j].session = turns[i].session})]

\* The turns of session_1, session_2 and so on of the new conversation.
MemboxSessions(c) ==
    LET turns == Flattened(c)
        groups == Groups(c, turns)
    IN  [k \in DOMAIN groups |->
            Selected(turns, {i \in DOMAIN turns : Group(c, turns[i].session) = groups[k]})]

\* The messages in the order in which build_all processes them, each with the
\* turn it stands for, its new session and its place in that.
Messages(c) ==
    LET sessions == MemboxSessions(c)
    IN  FlattenSeq([k \in DOMAIN sessions |->
            [p \in DOMAIN sessions[k] |->
                [turn |-> sessions[k][p], session |-> k, place |-> p]]])
=============================================================================
