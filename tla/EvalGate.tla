------------------------------ MODULE EvalGate ------------------------------
(***************************************************************************)
(* An eval run, from its cases to the verdict CI acts on (evals/cases.py,  *)
(* checks.py, run.py): each attempt at a case is answered, checked by what *)
(* the target, the mode and the judge allow, and counted; the gate decides *)
(* from the counts, and from those of an earlier run where it is given one *)
(* (--baseline).                                                           *)
(***************************************************************************)
EXTENDS Naturals, FiniteSetsExt, Combinatorics

CONSTANTS
    Count,      \* of the cases
    Repeat,     \* --repeat
    Needed, Of, \* --min-pass-rate, as Needed / Of
    Before      \* attempts at each case of the baseline

EvalConstants ==
    {Count, Repeat, Before} \subseteq Nat \ {0} /\ Needed \in 0..Of /\ Of \in Nat \ {0}

Names == 1..Count

\* What a case asks: checks of the answer, checks of what was in its context,
\* a judge; SAFETY_KINDS; and whether its checks hold for any model.  What
\* _case refuses to load is left out; and a safety case that checks only its
\* context names the api as its target (cases/isolation.toml).
Cases == {c \in [safety : BOOLEAN, text : BOOLEAN, context : BOOLEAN,
                 judge : BOOLEAN, plumbing : BOOLEAN] :
            /\ c.text \/ c.context \/ c.judge
            /\ c.safety => c.text \/ c.context}

\* What comes back of an attempt: an error, an empty answer, or whether each
\* check would pass.
Failed == [error |-> TRUE, said |-> FALSE, text |-> FALSE, context |-> FALSE,
           verdict |-> "none"]
Empty == {[Failed EXCEPT !.error = FALSE, !.verdict = v] : v \in {"no", "none"}}

\* Judge.verdict: the last YES or NO of the reply, or none to be found in it.
Verdicts == {"yes", "no", "none"}

Answers == {Failed} \cup Empty
    \cup [error : {FALSE}, said : {TRUE}, text : BOOLEAN, context : BOOLEAN,
          verdict : Verdicts]

VARIABLES
    target,     \* "model" or "api": only the service reports its context
    mode,       \* "quality" or "plumbing"
    judging,    \* --judge
    suite,      \* its cases
    tally,      \* case -> runs, passes, gated (of the first run)
    missing,    \* Judge.missing is not empty
    verdict,    \* of the gate
    broken,     \* a gated attempt at a safety case failed
    lapsed      \* a case that never failed in the baseline passed no repeat

vars == <<target, mode, judging, suite, tally, missing, verdict, broken, lapsed>>

Init ==
    /\ target \in {"model", "api"} /\ mode \in {"quality", "plumbing"}
    /\ judging \in BOOLEAN /\ (judging => mode = "quality")
    /\ suite \in [Names -> Cases]
    /\ target = "model" => \A n \in Names : suite[n].safety => suite[n].text
    /\ tally = [n \in Names |-> [runs |-> 0, passes |-> 0, gated |-> FALSE]]
    /\ missing = FALSE /\ verdict = "running" /\ broken = FALSE
    /\ lapsed = FALSE

AsksJudge(case, answer) ==
    judging /\ case.judge /\ ~answer.error

\* score: a check whose input is not there is not run.
Checks(case, answer) ==
    (IF case.text THEN {answer.text} ELSE {})
        \cup (IF case.context /\ target = "api" THEN {answer.context} ELSE {})
        \cup (IF AsksJudge(case, answer) /\ answer.verdict # "none"
              THEN {answer.verdict = "yes"} ELSE {})
        \cup (IF answer.said THEN {} ELSE {FALSE})      \* "answered"

\* Result.checked, Result.passed, and what run() gates.
Checked(case, answer) == Checks(case, answer) # {} \/ answer.error
Passed(case, answer) ==
    Checked(case, answer) /\ ~answer.error /\ FALSE \notin Checks(case, answer)
Gated(case, answer) ==
    Checked(case, answer) /\ (mode = "quality" \/ case.plumbing)

\* run: case after case, `Repeat` attempts each.
Attempt(n) ==
    /\ verdict = "running" /\ tally[n].runs < Repeat
    /\ \A m \in 1..(n - 1) : tally[m].runs = Repeat
    /\ \E answer \in Answers :
        LET case == suite[n]
        IN  /\ tally' = [tally EXCEPT ![n] =
                    [runs |-> @.runs + 1,
                     passes |-> @.passes + IF Passed(case, answer) THEN 1 ELSE 0,
                     gated |-> IF @.runs = 0 THEN Gated(case, answer) ELSE @.gated]]
            /\ missing' = (missing \/ (AsksJudge(case, answer)
                                        /\ answer.verdict = "none"))
            /\ broken' = (broken \/ (case.safety /\ Gated(case, answer)
                                      /\ ~Passed(case, answer)))
    /\ UNCHANGED <<target, mode, judging, suite, verdict, lapsed>>

\* ApiTarget.ask: a runbook or an alert of the case is refused, or nobody
\* answers, and the run ends there, without a report.
SeedingFails ==
    /\ verdict = "running" /\ target = "api"
    /\ \E n \in Names : tally[n].runs < Repeat
    /\ verdict' = "aborted"
    /\ UNCHANGED <<target, mode, judging, suite, tally, missing, broken, lapsed>>

\* Mutant of CasePassed: one pass in the repeats is enough.
CasePassedOnce(n) == tally[n].passes > 0

\* summarize: strict, every repeat passed.
CasePassed(n) == tally[n].passes = tally[n].runs

\* fisher_worse, times the number of ways to draw the current runs: the ways
\* in which they have at least as many of all the failures as they do.
WaysAsBad(failsNow, runsNow, failsBefore, runsBefore) ==
    LET fails == failsNow + failsBefore
        passes == runsNow + runsBefore - fails
    IN  MapThenSumSet(LAMBDA x : choose(fails, x) * choose(passes, runsNow - x),
            {x \in failsNow..runsNow : x <= fails /\ runsNow - x <= passes})

\* What the baseline says of a case: nothing, or how often it failed then.
Baselines == {[runs |-> 0, fails |-> 0]}
    \cup [runs : {Before}, fails : {0, Before \div 2, Before}]

\* regressions: p < REGRESSION_P, every attempt without a pass a failure.
Regressed(n, before) ==
    /\ before.runs # 0
    /\ 20 * WaysAsBad(tally[n].runs - tally[n].passes, tally[n].runs,
                      before.fails, before.runs)
            < choose(tally[n].runs + before.runs, tally[n].runs)

\* gate, with what regressed since the baseline, and the exit status.
Gate ==
    /\ verdict = "running" /\ \A n \in Names : tally[n].runs = Repeat
    /\ \E before \in [Names -> Baselines] :
       LET gated == {n \in Names : tally[n].gated}
           quality == {n \in gated : ~suite[n].safety}
           passed == {n \in quality : CasePassed(n)}
           accepts == /\ gated # {} /\ ~missing
                      /\ \A n \in gated \ quality : CasePassed(n)
                      /\ Cardinality(passed) * Of >= Needed * Cardinality(quality)
                      /\ \A n \in Names : ~Regressed(n, before[n])
       IN  /\ verdict' = IF accepts THEN "accepted" ELSE "rejected"
           /\ lapsed' = \E n \in Names :
                before[n] = [runs |-> Before, fails |-> 0] /\ tally[n].passes = 0
    /\ UNCHANGED <<target, mode, judging, suite, tally, missing, broken>>

Next == Gate \/ SeedingFails \/ \E n \in Names : Attempt(n)

Spec == Init /\ [][Next]_vars

-----------------------------------------------------------------------------
TypeOK ==
    /\ target \in {"model", "api"} /\ mode \in {"quality", "plumbing"}
    /\ judging \in BOOLEAN /\ {broken, lapsed} \subseteq BOOLEAN
    /\ suite \in [Names -> Cases]
    /\ tally \in [Names -> [runs : 0..Repeat, passes : 0..Repeat, gated : BOOLEAN]]
    /\ missing \in BOOLEAN /\ verdict \in {"running", "accepted", "rejected", "aborted"}

\* To fail every repeat after a clean baseline is unlikely enough by chance to
\* be a regression; with fewer attempts, nothing is.
CanShowRegression == choose(Repeat + Before, Repeat) > 20

\* Whichever attempts failed, went unchecked or got no verdict from the judge,
\* a run that is accepted had no failed attempt at a safety case that the mode
\* gates (in plumbing mode only the plumbing cases), although only the first
\* attempt decides whether a case is gated ("Safety kinds allow no failure",
\* run.py:289-310; 180-187, 210-222); no case has stopped passing since the
\* baseline, where there are enough attempts to tell (run.py:335-351); and
\* something passed, unless the caller asks for no pass at all
\* (--min-pass-rate 0).
GateMeansChecked ==
    verdict = "accepted" =>
        /\ ~broken
        /\ CanShowRegression => ~lapsed
        /\ Needed = 0 \/ \E n \in Names : tally[n].passes > 0
=============================================================================
