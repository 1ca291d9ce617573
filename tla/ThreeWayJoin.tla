---------------------------- MODULE ThreeWayJoin ----------------------------
(***************************************************************************)
(* What the evaluator promises its caller about one question, without      *)
(* threads, queues or adapter calls: three probes settle, each well or     *)
(* badly and in any order; only then one decision is taken, and it depends *)
(* on how they settled and never on when.                                  *)
(***************************************************************************)
EXTENDS Naturals, Sequences

Order == <<"enc", "ret", "gen">>

Probes == {"enc", "ret", "gen"}

VARIABLES settled,   \* how each probe has settled, "open" before that
          decision,  \* what the caller got
          blamed     \* whom the raised error is from

jvars == <<settled, decision, blamed>>

JoinInit == /\ settled = [p \in Probes |-> "open"]
            /\ decision = "none"
            /\ blamed = "nobody"

Settle(p) == /\ settled[p] = "open"
             /\ \E s \in {"ok", "failed"} : settled' = [settled EXCEPT ![p] = s]
             /\ UNCHANGED <<decision, blamed>>

\* The first probe in submission order that settled badly.
FirstFailed(s) == IF s["enc"] = "failed" THEN "enc"
                  ELSE IF s["ret"] = "failed" THEN "ret" ELSE "gen"

SomeFailed(s) == \E p \in Probes : s[p] = "failed"

\* All three have settled: the first failure is raised, or attribution either
\* returns a result or raises an error of its own.
Decide == /\ decision = "none"
          /\ \A p \in Probes : settled[p] # "open"
          /\ \/ /\ SomeFailed(settled)
                /\ decision' = "raised"
                /\ blamed' = FirstFailed(settled)
             \/ /\ ~SomeFailed(settled)
                /\ decision' = "raised"
                /\ blamed' = "attribution"
             \/ /\ ~SomeFailed(settled)
                /\ decision' = "returned"
                /\ blamed' = "nobody"
          /\ UNCHANGED settled

JoinNext == (\E p \in Probes : Settle(p)) \/ Decide

\* Safety alone, and with the promise that an evaluation comes to its decision.
JoinSafety == JoinInit /\ [][JoinNext]_jvars

JoinSpec == JoinSafety /\ WF_jvars(JoinNext)
=============================================================================
