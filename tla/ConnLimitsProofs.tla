--------------------------- MODULE ConnLimitsProofs ---------------------------
(***************************************************************************)
(* Proofs about ConnLimits, for any number of accept loops and connections *)
(* and any cap.  The counter, the promise of slots and the ownership of    *)
(* accepted connections are only inductive together: that the counter      *)
(* stays a natural number needs its exactness, its exactness needs that a  *)
(* spawned connection was not being served already, and the cap needs that *)
(* what fetch_add returned was the exact count.                            *)
(***************************************************************************)
EXTENDS ConnLimits, FiniteSetTheorems, TLAPS

IInv == TypeOK /\ OwnedByOneLoop /\ CounterExact /\ SlotsPromised

\* The sets the counter is compared with are finite.
LEMMA FiniteSets ==
    /\ IsFiniteSet(Serving)  /\ Cardinality(Serving) \in Nat
    /\ IsFiniteSet(Deciding) /\ Cardinality(Deciding) \in Nat
    /\ IsFiniteSet(Winners)  /\ Cardinality(Winners) \in Nat
    /\ Cardinality(Winners) <= Cardinality(Deciding)
<1>1. IsFiniteSet(Serving)
  BY FS_Subset, LimitsAssumption DEF Serving
<1>2. IsFiniteSet(Deciding)
  BY FS_Subset, LimitsAssumption DEF Deciding
<1>3. Winners \subseteq Deciding
  BY DEF Winners
<1>4. IsFiniteSet(Winners) /\ Cardinality(Winners) <= Cardinality(Deciding)
  BY <1>2, <1>3, FS_Subset
<1> QED
  BY <1>1, <1>2, <1>4, FS_CardinalityType

\* The initial state satisfies the inductive invariant.
LEMMA InitIInv == Init => IInv
<1> SUFFICES ASSUME Init PROVE IInv
  OBVIOUS
<1>1. Serving = {} /\ Deciding = {} /\ Winners = {}
  BY DEF Init, Serving, Deciding, Winners
<1>2. Cardinality(Serving) = 0 /\ Cardinality(Deciding) = 0 /\ Cardinality(Winners) = 0
  BY <1>1, FS_EmptySet
<1>3. CounterExact /\ SlotsPromised
  BY <1>2, LimitsAssumption DEF Init, CounterExact, SlotsPromised
<1>4. TypeOK /\ OwnedByOneLoop
  BY LimitsAssumption DEF Init, TypeOK, ConnState, OwnedByOneLoop
<1> QED
  BY <1>3, <1>4 DEF IInv

\* What a step may do to the counter and to the sets it counts.
Still  == active' = active /\ Serving' = Serving /\ Deciding' = Deciding /\ Winners' = Winners
Reserve(l) ==
    /\ active' = active + 1 /\ Serving' = Serving
    /\ l \notin Deciding /\ Deciding' = Deciding \cup {l}
    /\ Winners' = IF active < MaxConnections THEN Winners \cup {l} ELSE Winners
Withdraw(l) ==
    /\ active' = active - 1 /\ Serving' = Serving
    /\ l \in Deciding /\ Deciding' = Deciding \ {l} /\ Winners' = Winners
Promote(l, c) ==
    /\ active' = active
    /\ c \in Conns \ Serving /\ Serving' = Serving \cup {c}
    /\ l \in Winners /\ Deciding' = Deciding \ {l} /\ Winners' = Winners \ {l}
Leave(c) ==
    /\ active' = active - 1
    /\ c \in Serving /\ Serving' = Serving \ {c}
    /\ Deciding' = Deciding /\ Winners' = Winners

\* Every step of the server is one of the five.
LEMMA StepKinds ==
    ASSUME TypeOK, OwnedByOneLoop, Next
    PROVE  \/ Still
           \/ \E l \in Loops : Reserve(l) \/ Withdraw(l)
           \/ \E l \in Loops, c \in Conns : Promote(l, c)
           \/ \E c \in Conns : Leave(c)
<1> USE DEF TypeOK, Serving, Deciding, Winners
<1>1. ASSUME NEW l \in Loops, Wake(l) \/ AcceptError(l) \/ MemoryFine(l)
      PROVE  Still
  BY <1>1 DEF Wake, AcceptError, MemoryFine, Still
<1>2. ASSUME NEW l \in Loops, MemoryPressure(l)
      PROVE  Still
  <2>1. cur[l] \in Conns /\ conn[cur[l]] = "accepted"
    BY <1>2 DEF MemoryPressure, OwnedByOneLoop
  <2> QED
    BY <1>2, <2>1 DEF MemoryPressure, Refuse, Still
<1>3. ASSUME NEW l \in Loops, NEW c \in Conns, AcceptChecked(l, c) \/ AcceptRaw(l, c)
      PROVE  Still
  BY <1>3 DEF AcceptChecked, AcceptRaw, Still
<1>4. ASSUME NEW l \in Loops, FetchAdd(l)
      PROVE  Reserve(l)
  BY <1>4, LimitsAssumption DEF FetchAdd, Reserve
<1>5. ASSUME NEW l \in Loops, GiveBack(l)
      PROVE  Withdraw(l)
  <2>1. cur[l] \in Conns /\ conn[cur[l]] = "accepted"
    BY <1>5 DEF GiveBack, OwnedByOneLoop
  <2> QED
    BY <1>5, <2>1, LimitsAssumption DEF GiveBack, Refuse, Withdraw
<1>6. ASSUME NEW l \in Loops, Spawn(l)
      PROVE  \E c \in Conns : Promote(l, c)
  <2>1. cur[l] \in Conns /\ conn[cur[l]] = "accepted"
    BY <1>6 DEF Spawn, OwnedByOneLoop
  <2> QED
    BY <1>6, <2>1 DEF Spawn, Promote
<1>7. ASSUME NEW c \in Conns, Finish(c) \/ Upgrade(c)
      PROVE  Leave(c)
  BY <1>7 DEF Finish, Upgrade, Leave
<1>8. ASSUME NEW c \in Conns, FinishUncounted(c)
      PROVE  Still
  BY <1>8 DEF FinishUncounted, Still
<1> QED
  BY <1>1, <1>2, <1>3, <1>4, <1>5, <1>6, <1>7, <1>8 DEF Next, LoopStep

\* Counting: each of the five keeps the counter exact and the promise kept.
LEMMA CountingStep ==
    ASSUME IInv, Next
    PROVE  CounterExact' /\ SlotsPromised' /\ active' \in Nat
<1> USE DEF IInv, CounterExact, SlotsPromised
<1>0. active \in Nat /\ MaxConnections \in Nat
  BY LimitsAssumption DEF TypeOK
<1>1. CASE Still
  BY <1>0, <1>1 DEF Still
<1>2. ASSUME NEW l \in Loops, Reserve(l)
      PROVE  CounterExact' /\ SlotsPromised' /\ active' \in Nat
  <2>1. l \notin Winners
    BY <1>2 DEF Reserve, Winners
  <2>2. Cardinality(Deciding') = Cardinality(Deciding) + 1
    BY <1>2, FiniteSets, FS_AddElement DEF Reserve
  <2>3. active < MaxConnections => Cardinality(Winners') = Cardinality(Winners) + 1
    BY <1>2, <2>1, FiniteSets, FS_AddElement DEF Reserve
  <2>4. ~(active < MaxConnections) => Cardinality(Winners') = Cardinality(Winners)
    BY <1>2 DEF Reserve
  <2>5. Cardinality(Serving') = Cardinality(Serving) /\ active' = active + 1
    BY <1>2 DEF Reserve
  <2> QED
    BY <1>0, <2>2, <2>3, <2>4, <2>5, FiniteSets
<1>3. ASSUME NEW l \in Loops, Withdraw(l)
      PROVE  CounterExact' /\ SlotsPromised' /\ active' \in Nat
  <2>1. Cardinality(Deciding') = Cardinality(Deciding) - 1
    BY <1>3, FiniteSets, FS_RemoveElement DEF Withdraw
  <2>2. Cardinality(Deciding) > 0
    BY <1>3, FiniteSets, FS_EmptySet DEF Withdraw
  <2>3. Cardinality(Serving') = Cardinality(Serving) /\ Cardinality(Winners') = Cardinality(Winners)
    BY <1>3 DEF Withdraw
  <2>4. active' = active - 1
    BY <1>3 DEF Withdraw
  <2> QED
    BY <1>0, <2>1, <2>2, <2>3, <2>4, FiniteSets
<1>4. ASSUME NEW l \in Loops, NEW c \in Conns, Promote(l, c)
      PROVE  CounterExact' /\ SlotsPromised' /\ active' \in Nat
  <2>1. l \in Deciding
    BY <1>4 DEF Promote, Winners
  <2>2. Cardinality(Deciding') = Cardinality(Deciding) - 1
    BY <1>4, <2>1, FiniteSets, FS_RemoveElement DEF Promote
  <2>3. Cardinality(Winners') = Cardinality(Winners) - 1
    BY <1>4, FiniteSets, FS_RemoveElement DEF Promote
  <2>4. Cardinality(Serving') = Cardinality(Serving) + 1
    BY <1>4, FiniteSets, FS_AddElement DEF Promote
  <2>5. active' = active
    BY <1>4 DEF Promote
  <2> QED
    BY <1>0, <2>2, <2>3, <2>4, <2>5, FiniteSets
<1>5. ASSUME NEW c \in Conns, Leave(c)
      PROVE  CounterExact' /\ SlotsPromised' /\ active' \in Nat
  <2>1. Cardinality(Serving') = Cardinality(Serving) - 1
    BY <1>5, FiniteSets, FS_RemoveElement DEF Leave
  <2>2. Cardinality(Serving) > 0
    BY <1>5, FiniteSets, FS_EmptySet DEF Leave
  <2>3. Cardinality(Deciding') = Cardinality(Deciding) /\ Cardinality(Winners') = Cardinality(Winners)
    BY <1>5 DEF Leave
  <2>4. active' = active - 1
    BY <1>5 DEF Leave
  <2> QED
    BY <1>0, <2>1, <2>2, <2>3, <2>4, FiniteSets
<1> QED
  <2>1. TypeOK /\ OwnedByOneLoop
    OBVIOUS
  <2> HIDE DEF CounterExact, SlotsPromised, IInv
  <2> QED
    BY <1>1, <1>2, <1>3, <1>4, <1>5, <2>1, StepKinds

\* Types and ownership, action by action.
LEMMA OwnershipStep ==
    ASSUME IInv, Next, active' \in Nat
    PROVE  TypeOK' /\ OwnedByOneLoop'
<1> USE LimitsAssumption DEF IInv, TypeOK, ConnState, OwnedByOneLoop
<1>1. ASSUME NEW l \in Loops, Wake(l) \/ AcceptError(l) \/ MemoryFine(l)
      PROVE  TypeOK' /\ OwnedByOneLoop'
  BY <1>1 DEF Wake, AcceptError, MemoryFine
<1>2. ASSUME NEW l \in Loops, MemoryPressure(l) \/ GiveBack(l)
      PROVE  TypeOK' /\ OwnedByOneLoop'
  BY <1>2 DEF MemoryPressure, GiveBack, Refuse
<1>3. ASSUME NEW l \in Loops, NEW c \in Conns, AcceptChecked(l, c)
      PROVE  TypeOK' /\ OwnedByOneLoop'
  BY <1>3 DEF AcceptChecked
<1>4. ASSUME NEW l \in Loops, NEW c \in Conns, AcceptRaw(l, c)
      PROVE  TypeOK' /\ OwnedByOneLoop'
  BY <1>4 DEF AcceptRaw
<1>5. ASSUME NEW l \in Loops, FetchAdd(l)
      PROVE  TypeOK' /\ OwnedByOneLoop'
  BY <1>5 DEF FetchAdd
<1>6. ASSUME NEW l \in Loops, Spawn(l)
      PROVE  TypeOK' /\ OwnedByOneLoop'
  BY <1>6 DEF Spawn
<1>7. ASSUME NEW c \in Conns, Finish(c) \/ Upgrade(c) \/ FinishUncounted(c)
      PROVE  TypeOK' /\ OwnedByOneLoop'
  BY <1>7 DEF Finish, Upgrade, FinishUncounted
<1> QED
  BY <1>1, <1>2, <1>3, <1>4, <1>5, <1>6, <1>7 DEF Next, LoopStep

\* The inductive invariant is kept by every step and every stutter.
LEMMA StepIInv == IInv /\ [Next]_vars => IInv'
<1> SUFFICES ASSUME IInv, [Next]_vars PROVE IInv'
  OBVIOUS
<1>1. CASE Next
  BY <1>1, CountingStep, OwnershipStep DEF IInv
<1>2. CASE UNCHANGED vars
  BY <1>2 DEF vars, IInv, TypeOK, OwnedByOneLoop, CounterExact, SlotsPromised,
               Serving, Deciding, Winners
<1> QED
  BY <1>1, <1>2

\* The inductive invariant holds in every reachable state.
THEOREM IInvInvariant == Spec => []IInv
  BY InitIInv, StepIInv, PTL DEF Spec

\* TypeOK: in particular ACTIVE_CONNECTIONS, a usize, never goes below zero, so
\* release_connection never wraps it.
THEOREM TypeCorrect == Spec => []TypeOK
  BY IInvInvariant, PTL DEF IInv

\* OwnedByOneLoop: each accepted connection gets one verdict, from the loop that
\* accepted it.
THEOREM Ownership == Spec => []OwnedByOneLoop
  BY IInvInvariant, PTL DEF IInv

\* CounterExact: acquire_connection and release_connection are paired, with no
\* slot leaked and none released twice.
THEOREM CounterCorrect == Spec => []CounterExact
  BY IInvInvariant, PTL DEF IInv

\* CapHolds: the connections that hold a guard stay within MAX_CONNECTIONS, for
\* any number of racing accept loops.
THEOREM CapCorrect == Spec => []CapHolds
<1>1. IInv => CapHolds
  BY FiniteSets, LimitsAssumption DEF IInv, SlotsPromised, CapHolds
<1> QED
  BY <1>1, IInvInvariant, PTL

\* The stream and mail loops never come near the counter.
RawPassive == \A l \in RawLoops : pc[l] \in {"accept", "sleep"}

\* RawPassive is an invariant of its own.
LEMMA RawPassiveInvariant == Spec => []RawPassive
<1> USE LimitsAssumption DEF RawPassive
<1>1. Init => RawPassive
  BY DEF Init, Loops
<1>2. TypeOK /\ RawPassive /\ [Next]_vars => RawPassive'
  BY DEF TypeOK, Loops, vars, Next, LoopStep, Wake, AcceptError, MemoryPressure, MemoryFine,
         Refuse, FetchAdd, GiveBack, Spawn, AcceptChecked, AcceptRaw, Finish,
         Upgrade, FinishUncounted
<1> QED
  BY <1>1, <1>2, TypeCorrect, PTL DEF Spec

\* RefusedNearCap: an attempt is refused only when fewer free slots than
\* competing loops were left.
THEOREM RefusalJustified == Spec => RefusedNearCap
<1> DEFINE Competing == HttpLoops \cup QuicLoops
           RefusalNear(l) ==
             (pc[l] = "acquire" /\ pc'[l] = "decide" /\ prev'[l] >= MaxConnections)
               => Cardinality(Serving) + Cardinality(Competing) > MaxConnections
<1>1. ASSUME IInv, RawPassive, Next, NEW l \in Loops,
             pc[l] = "acquire", pc'[l] = "decide", prev'[l] >= MaxConnections
      PROVE  Cardinality(Serving) + Cardinality(Competing) > MaxConnections
  <2>1. prev'[l] = active
    BY <1>1 DEF IInv, TypeOK, Next, LoopStep, Wake, AcceptError, MemoryPressure, MemoryFine,
                Refuse, FetchAdd, GiveBack, Spawn, AcceptChecked, AcceptRaw, Finish,
                Upgrade, FinishUncounted
  <2>2. l \in Competing /\ Deciding \subseteq Competing \ {l}
    BY <1>1 DEF RawPassive, Deciding, Loops
  <2>3. IsFiniteSet(Competing) /\ Cardinality(Competing) \in Nat
    BY FS_Subset, FS_CardinalityType, LimitsAssumption DEF Loops
  <2>4. IsFiniteSet(Competing \ {l}) /\ Cardinality(Competing \ {l}) = Cardinality(Competing) - 1
    BY <2>2, <2>3, FS_RemoveElement
  <2>5. Cardinality(Deciding) <= Cardinality(Competing \ {l})
    BY <2>2, <2>4, FS_Subset
  <2> QED
    BY <1>1, <2>1, <2>3, <2>4, <2>5, FiniteSets, LimitsAssumption
       DEF IInv, CounterExact
<1>2. ASSUME IInv, RawPassive, [Next]_vars
      PROVE  [\A l \in Loops : RefusalNear(l)]_vars
  BY <1>1, <1>2
<1>3. IInv /\ RawPassive /\ [Next]_vars => [\A l \in Loops : RefusalNear(l)]_vars
  BY <1>2
<1> QED
  BY <1>3, IInvInvariant, RawPassiveInvariant, PTL DEF Spec, RefusedNearCap

\* AdmissionSpec: the counter and its racing loops implement BoundedAdmission,
\* the set of served connections standing for the set of slot holders.
THEOREM Refinement == Spec => AdmissionSpec
<1>1. Init => Admission!Init
  BY DEF Init, Serving, Admission!Init
<1>2. ASSUME IInv, Next
      PROVE  Admission!Next \/ Serving' = Serving
  <2>1. ASSUME NEW l \in Loops, NEW c \in Conns, Promote(l, c)
        PROVE  Admission!Admit(c)
    <3>1. Cardinality(Winners) > 0
      BY <2>1, FiniteSets, FS_EmptySet DEF Promote
    <3>2. Cardinality(Serving) < MaxConnections
      BY <1>2, <3>1, FiniteSets, LimitsAssumption DEF IInv, SlotsPromised
    <3>3. Admission!Cardinality(Serving) = Cardinality(Serving)
      BY DEF Cardinality, Admission!Cardinality
    <3> QED
      BY <2>1, <3>2, <3>3 DEF Promote, Admission!Admit
  <2>2. ASSUME NEW c \in Conns, Leave(c)
        PROVE  Admission!Release(c)
    BY <2>2 DEF Leave, Admission!Release
  <2> QED
    BY <1>2, <2>1, <2>2, StepKinds DEF IInv, Still, Reserve, Withdraw, Admission!Next
<1>3. ASSUME IInv, [Next]_vars
      PROVE  [Admission!Next]_Serving
  <2>1. CASE UNCHANGED vars
    BY <2>1 DEF vars, Serving
  <2> QED
    BY <1>2, <1>3, <2>1
<1>4. IInv /\ [Next]_vars => [Admission!Next]_Serving
  BY <1>3
<1> QED
  BY <1>1, <1>4, IInvInvariant, PTL DEF Spec, AdmissionSpec, Admission!Spec
===============================================================================
