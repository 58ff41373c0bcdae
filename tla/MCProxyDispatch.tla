---------------------------- MODULE MCProxyDispatch ----------------------------
(***************************************************************************)
(* Small instances of ProxyDispatch: three servers, one of them with a     *)
(* configured weight of 0 (served as 1) and one heavier than the others.   *)
(***************************************************************************)
EXTENDS ProxyDispatch, TLC

CONSTANTS t1, t2

MCWeight == [i \in Servers |-> CASE i = 0 -> 2 [] i = 1 -> 0 [] OTHER -> 1]
MCHashIp == [t \in Tasks |-> IF t = t1 THEN 6 ELSE 3]
===============================================================================
