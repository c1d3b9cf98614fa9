------------------------------ MODULE MCSpiFram ------------------------------
EXTENDS SpiFram

CONSTANTS t1, t2

MCTasks == {t1, t2}

(* Two calls around one of the other task, and one call of each.           *)
MCTwoAndOne == [c \in MCTasks |-> IF c = t1 THEN 2 ELSE 1]
MCOneEach == [c \in MCTasks |-> 1]

(* One task that calls three times.                                        *)
MCTask == {t1}
MCThree == [c \in MCTask |-> 3]
==============================================================================
