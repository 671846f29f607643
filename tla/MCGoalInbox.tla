------------------------------ MODULE MCGoalInbox ------------------------------
(* Two goals of one title, one of them from outside, and two gates.            *)
EXTENDS GoalInbox

CONSTANTS g1, x1, k1, k2

Of == [r \in {g1, x1, k1, k2} |->
         IF r = x1 THEN "a2a" ELSE IF r = g1 THEN "goal" ELSE "gate"]
Same == [r \in DOMAIN Of |-> 1]
All == DOMAIN Of
===============================================================================
