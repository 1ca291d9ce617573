--------------------------- MODULE QuestionLedger ---------------------------
(***************************************************************************)
(* What an evaluation run promises about its questions: each is accounted  *)
(* for once and in order, as answered or as failed; the latest account may *)
(* still be revised to failed, an earlier one never; and a run is reported *)
(* only when every question is accounted for.  A run may also stop short,  *)
(* and be started anew with an empty ledger.                               *)
(***************************************************************************)
EXTENDS Naturals

CONSTANT N   \* the number of questions

VARIABLES entry,     \* the account of each question
          reported   \* whether the run's report is complete

ledgerVars == <<entry, reported>>

EmptyLedger == [q \in 1..N |-> "open"]

LedgerInit == entry = EmptyLedger /\ reported = FALSE

Latest(q) == /\ entry[q] # "open"
             /\ \A r \in q+1..N : entry[r] = "open"

Account(q) == /\ entry[q] = "open"
              /\ \A r \in 1..q-1 : entry[r] # "open"
              /\ \E kind \in {"ok", "error"} : entry' = [entry EXCEPT ![q] = kind]
              /\ ~reported /\ UNCHANGED reported

Revise(q) == /\ Latest(q)
             /\ entry[q] = "ok"
             /\ entry' = [entry EXCEPT ![q] = "error"]
             /\ ~reported /\ UNCHANGED reported

Report == /\ \A q \in 1..N : entry[q] # "open"
          /\ reported' = TRUE
          /\ UNCHANGED entry

StartAnew == entry' = EmptyLedger /\ reported' = FALSE

LedgerNext == (\E q \in 1..N : Account(q) \/ Revise(q)) \/ Report \/ StartAnew

LedgerSpec == LedgerInit /\ [][LedgerNext]_ledgerVars
=============================================================================
