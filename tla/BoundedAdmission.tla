--------------------------- MODULE BoundedAdmission ---------------------------
(***************************************************************************)
(* What the connection cap of security/limits.rs promises: a set of        *)
(* connections being served that never holds more than MaxConnections of   *)
(* them.  ConnLimits shows that the atomic counter the accept loops race   *)
(* on implements it.                                                       *)
(***************************************************************************)
EXTENDS Naturals, FiniteSets

CONSTANTS Conns,            \* connections that clients may open
          MaxConnections    \* limits.rs MAX_CONNECTIONS

VARIABLE held               \* connections that hold a slot

Init == held = {}

Admit(c) == /\ c \in Conns \ held
            /\ Cardinality(held) < MaxConnections
            /\ held' = held \cup {c}

Release(c) == /\ c \in held
              /\ held' = held \ {c}

Next == \E c \in Conns : Admit(c) \/ Release(c)

Spec == Init /\ [][Next]_held
===============================================================================
