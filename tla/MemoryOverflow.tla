--------------------------- MODULE MemoryOverflow ---------------------------
(***************************************************************************)
(* What a layered memory promises of the messages of each speaker: they    *)
(* enter a short-term memory in the order they are spoken, and leave it in *)
(* that order, for the long-term memory or for good.  None is duplicated,  *)
(* overtaken or moved to another speaker, and the long-term memory keeps   *)
(* what it has.                                                            *)
(***************************************************************************)
EXTENDS Sequences

CONSTANTS Speaker,   \* who speaks
          Message    \* what is remembered of a turn

VARIABLES short,     \* the short-term memory of each speaker, oldest first
          long       \* the long-term memory of each speaker, oldest first

overflowVars == <<short, long>>

OverflowInit == /\ short = [s \in Speaker |-> <<>>]
                /\ long = [s \in Speaker |-> <<>>]

Remember(s, m) == /\ short' = [short EXCEPT ![s] = Append(@, m)]
                  /\ UNCHANGED long

Overflow(s) == /\ short[s] # <<>>
               /\ short' = [short EXCEPT ![s] = Tail(@)]
               /\ long' = [long EXCEPT ![s] = Append(@, Head(short[s]))]

Forget(s) == /\ short[s] # <<>>
             /\ short' = [short EXCEPT ![s] = Tail(@)]
             /\ UNCHANGED long

OverflowNext == \E s \in Speaker : \/ \E m \in Message : Remember(s, m)
                                   \/ Overflow(s)
                                   \/ Forget(s)

OverflowSpec == OverflowInit /\ [][OverflowNext]_overflowVars
=============================================================================
