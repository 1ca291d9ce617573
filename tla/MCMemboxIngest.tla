--------------------------- MODULE MCMemboxIngest ---------------------------
(* Conversations of up to four turns in sessions 2 and 10, whose           *)
(* timestamps come in the sessions' order, against it, together, or not at  *)
(* all; boxes with up to two events.                                        *)
EXTENDS MemboxIngest

CONSTANTS e1, e2

Sessions(two, ten) == (2 :> two) @@ (10 :> ten)

Said == <<TRUE>>

MCConversations ==
    {[texts |-> Sessions(<<TRUE, FALSE, TRUE>>, Said), stamp |-> Sessions(1, 2)],
     [texts |-> Sessions(Said, Said), stamp |-> Sessions(2, 1)],
     [texts |-> Sessions(Said, Said), stamp |-> Sessions(1, 1)],
     [texts |-> Sessions(<<TRUE, TRUE, TRUE, TRUE>>, <<>>), stamp |-> Sessions(0, 1)],
     [texts |-> Sessions(<<FALSE>>, <<>>), stamp |-> Sessions(1, 2)]}

MCExtractions == {<<>>, <<e1>>, <<e1, e2>>}

MCChainings == {[chains |-> <<>>, isolated |-> <<>>],
                [chains |-> <<{e1}>>, isolated |-> <<e1, e2>>],
                [chains |-> <<>>, isolated |-> <<e2>>]}
=============================================================================
