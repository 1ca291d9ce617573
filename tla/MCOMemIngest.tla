---------------------------- MODULE MCOMemIngest ----------------------------
(* A short conversation: the user's working memory overflows at the fourth *)
(* turn and keeps a message, the agent's never fills.                      *)
EXTENDS OMemIngest, TLC

MCSpeakers == <<"user", "agent", "user", "user", "agent">>

\* Two topics; facts and attributes repeat words, and one turn has two attributes.
MCUnderstandings ==
    {[topic |-> "x", fact |-> "x", attributes |-> <<"x", "y">>],
     [topic |-> "y", fact |-> "x", attributes |-> <<>>]}
=============================================================================
