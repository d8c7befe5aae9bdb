-------------------------- MODULE MCMatrixRelease --------------------------
(* A small instance of MatrixRelease for TLC.                              *)
EXTENDS MatrixRelease

CONSTANTS Slow, Odd     \* a critical profile and another one

SmallPlans == {<<Slow>>, <<Odd>>}

(* A page that meets everything, one that misses three budgets and scores  *)
(* too low, and one whose first frame is blank.                            *)
Good == [end |-> TRUE, detour |-> FALSE, visual |-> "sound", legal |-> TRUE, severe |-> FALSE,
         over |-> 0, idle |-> FALSE, complete |-> TRUE, scored |-> TRUE, score |-> 80]
Rough == [Good EXCEPT !.over = 3, !.score = 45]
Blank == [Good EXCEPT !.visual = "blank"]

SmallObservable == {Good, Rough, Blank}

(* A page that misses three budgets, none of them by much.                 *)
Slack == [Good EXCEPT !.over = 3]

SlackObservable == {Slack}

(* A model that loosens, one that tightens, and none.                      *)
SmallAnswer == {[sure |-> TRUE, outcome |-> "pass", severity |-> 68],
                [sure |-> TRUE, outcome |-> "fail", severity |-> 4000],
                NoAnswer}
=============================================================================
