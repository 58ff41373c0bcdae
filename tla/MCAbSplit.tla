------------------------------- MODULE MCAbSplit -------------------------------
(***************************************************************************)
(* Instances of AbSplit: two splits of two groups each, the first of them  *)
(* reweighted by the reload; the groups of a split have names of their own *)
(* (as in an ordinary configuration).                                      *)
(***************************************************************************)
EXTENDS AbSplit, TLC

CONSTANTS u1, u2, d1, d2

Group(n, w) == [name |-> n, weight |-> w]
MCGroups == [r \in Routers |->
    [d \in Splits |-> IF d = d1 THEN <<Group("blue", IF r = 0 THEN 3 ELSE 1),
                                       Group("green", IF r = 0 THEN 1 ELSE 3)>>
                      ELSE <<Group("old", 0), Group("new", 4)>>]]
MCHash == [s \in Sessions |-> [d \in Splits |-> IF s = u1 THEN 6 ELSE IF d = d1 THEN 3 ELSE 5]]
===============================================================================
