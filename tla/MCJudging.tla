------------------------------ MODULE MCJudging -----------------------------
(* Profiles and replies for model checking Judging.                        *)
EXTENDS Judging

Profile(u, r, n, j, m) ==
    [use |-> u, require |-> r, noFallback |-> n, judge |-> j, judgeMust |-> m]

DefaultProfile == Profile(TRUE, TRUE, TRUE, FALSE, FALSE)

\* EvaluatorConfig(), run_real_memory_eval with --no-strict-judge and with
\* --no-llm-assist, a lenient profile whose fallback is off, one that requires
\* replies and may use rules, and the rule profile of the tests.
MCConfigs == {DefaultProfile,
              Profile(TRUE, FALSE, FALSE, TRUE, TRUE),
              Profile(FALSE, TRUE, TRUE, TRUE, FALSE),
              Profile(TRUE, FALSE, TRUE, FALSE, FALSE),
              Profile(TRUE, TRUE, FALSE, TRUE, TRUE),
              Profile(FALSE, FALSE, FALSE, FALSE, FALSE)}

DefaultOnly == {DefaultProfile}

RulesOnly == {Profile(FALSE, FALSE, FALSE, FALSE, FALSE)}

Says(kind, s, D) == [kind |-> kind, state |-> s, defects |-> D]

Silent == Says("none", "OTHER", {})

MCEncReplies ==
    {Silent, Says("array", "OTHER", {}), Says("broken", "EXIST", {}),
     Says("object", "OTHER", {}), Says("object", "EXIST", {}),
     Says("object", "MISS", {"EM"}), Says("object", "MISS", {}),
     Says("object", "CORRUPT_WRONG", {"EW"}), Says("object", "DIRTY", {"DMP"}),
     Says("object", "EXIST", {"EA"})}

MCRetReplies ==
    {Silent, Says("broken", "HIT", {}), Says("object", "OTHER", {"NOI", "RF"}),
     Says("object", "HIT", {"LATE"}), Says("object", "MISS", {}),
     Says("object", "MISS", {"RF"}), Says("object", "NOISE", {"NIR"})}

View(items, high, hit, late, noisy) ==
    [items |-> items, high |-> high, hit |-> hit, late |-> late, noisy |-> noisy]

MCViews == {View(FALSE, FALSE, FALSE, FALSE, TRUE),
            View(TRUE, TRUE, FALSE, FALSE, FALSE),
            View(TRUE, FALSE, TRUE, FALSE, FALSE),
            View(TRUE, FALSE, TRUE, TRUE, TRUE)}

Answer(oj, nj, rule, g, j, c) ==
    [oracleJudge |-> oj, onlineJudge |-> nj, oracleRule |-> rule,
     onlineRule |-> rule, grounded |-> g, judgement |-> j, comparison |-> c]

Judged(k, ok, s) == [kind |-> k, correct |-> ok, sub |-> s]

Compared(k, D) == [kind |-> k, defects |-> D]

\* Pairs of correctness judges, rules and grounding, crossed with pairs of
\* language-model judgements of the oracle answer.
MCAnswerSets ==
    LET judges == {<<"right", "wrong">>, <<"array", "right">>, <<"none", "none">>}
        pairs == {<<Judged("object", TRUE, "NONE"), Compared("object", {})>>,
                  <<Judged("object", FALSE, "GF"), Compared("object", {"GF"})>>,
                  <<Judged("object", FALSE, "GH"), Compared("broken", {})>>,
                  <<Judged("broken", FALSE, "NONE"), Compared("object", {"GH"})>>,
                  <<Judged("none", FALSE, "NONE"), Compared("object", {})>>,
                  <<Judged("object", FALSE, "GRF"), Compared("none", {})>>}
    IN {Answer(j[1], j[2], rule, rule, p[1], p[2]) :
            j \in judges, rule \in BOOLEAN, p \in pairs}

NoJudge == {Answer("none", "none", TRUE, TRUE, Judged("none", FALSE, "NONE"),
                   Compared("none", {}))}

Blames(k, p, S) == [kind |-> k, primary |-> p, secondary |-> S]

MCCauseReplies ==
    {Blames("none", "OTHER", {}), Blames("broken", "none", {}),
     Blames("object", "none", {"encoding"}),
     Blames("object", "OTHER", {"encoding", "generation"})}

NoCauseReply == {Blames("none", "OTHER", {})}

SilentOnly == {Silent}
=============================================================================
