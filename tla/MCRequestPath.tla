----------------------------- MODULE MCRequestPath -----------------------------
(***************************************************************************)
(* Three parts a proxied request passes through: the pipeline, the choice  *)
(* of a group, the resolution of a name.  They share no state, and all     *)
(* that is checked of them are invariants; so one run examines them side   *)
(* by side, each with the other two at rest.                               *)
(***************************************************************************)
EXTENDS MCPipeline, MCAbSplit, Resolver

VARIABLE part   \* the part that is examined

PipelineRests == Init /\ block = Block /\ req = Get
SplitRests == SplitInit /\ job = [q \in Reqs |-> CHOOSE j \in Jobs : TRUE]
ResolverRests == ResolverInit /\ host = [t \in Tasks |-> CHOOSE h \in Hosts : TRUE]

PathInit ==
    \/ part = "pipeline" /\ Init /\ SplitRests /\ ResolverRests
    \/ part = "split" /\ PipelineRests /\ SplitInit /\ ResolverRests
    \/ part = "resolver" /\ PipelineRests /\ SplitRests /\ ResolverInit

PathNext ==
    \/ part = "pipeline" /\ Next /\ UNCHANGED <<part, splitVars, resolverVars>>
    \/ part = "split" /\ SplitNext /\ UNCHANGED <<part, vars, resolverVars>>
    \/ part = "resolver" /\ ResolverNext /\ UNCHANGED <<part, vars, splitVars>>

PathSpec == PathInit /\ [][PathNext]_<<part, vars, splitVars, resolverVars>>
===============================================================================
