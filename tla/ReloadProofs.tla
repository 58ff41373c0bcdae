----------------------------- MODULE ReloadProofs -----------------------------
(***************************************************************************)
(* Proofs about what a reload must not break: the accept loops of          *)
(* Lifecycle, for any number of loops, connections, edits, signals and     *)
(* renewals, and the A/B router of AbSplit, for any number of requests,    *)
(* sessions, splits, groups and reloads.                                   *)
(*                                                                         *)
(* A reload channel with room for one message loses no reload, and no loop *)
(* goes back to an older configuration.  StaleOnlyIfPending is not         *)
(* inductive: a loop that is up to date may hold an older clone which it   *)
(* is about to install.  Reads says that such a loop, too, has a message   *)
(* to come, and Ordered how the versions a loop meets on the way of a      *)
(* configuration compare.                                                  *)
(*                                                                         *)
(* That sessions and routers are not mixed up rests only on Assigned being *)
(* a function of router, split and session; what it computes from the      *)
(* weights comes last.                                                     *)
(***************************************************************************)
EXTENDS Lifecycle, AbSplit, FiniteSetTheorems, WellFoundedInduction, TLAPS

LTypes ==
    /\ disk \in Configs /\ config \in Configs /\ fresh \in Configs
    /\ sig \in {"wait", "write", "send", "gone"}
    /\ sent \in Nat /\ seen \in [Loops -> Nat]
    /\ lpc \in [Loops -> {"shutdown?", "reload?", "accept?", "read", "install", "stopped", "dead"}]
    /\ snap \in [Loops -> Configs] /\ block \in [Loops -> Versions]
    /\ DOMAIN acceptor = Loops

Message(l) == seen[l] < sent \/ sig = "send"

Stale(l) ==
    (lpc[l] \notin Ended /\ l \in config.blocks /\ block[l] # config.ver)
        => Message(l) \/ lpc[l] = "read" \/ (lpc[l] = "install" /\ snap[l] = config)

\* A clone that is out of date will be followed by another.
Reads(l) == (lpc[l] = "install" /\ snap[l] # config) => Message(l)

Ordered(l) ==
    /\ seen[l] <= sent /\ block[l] <= config.ver
    /\ lpc[l] = "install" => block[l] <= snap[l].ver /\ snap[l].ver <= config.ver

\* Versions grow towards the file.
Upstream ==
    /\ config.ver <= disk.ver /\ fresh.ver <= disk.ver
    /\ sig = "write" => config.ver <= fresh.ver

LInv == LTypes /\ Upstream /\ \A l \in Loops : Stale(l) /\ Reads(l) /\ Ordered(l)

LEMMA VersionsNat == \A c \in Configs : c.ver \in Versions /\ c.ver \in Nat
<1> SUFFICES ASSUME NEW c \in Configs PROVE c.ver \in Versions /\ c.ver \in Nat
  OBVIOUS
<1>1. c.ver \in Versions
  <2>1. CASE c \in [ver : Versions, valid : {TRUE}, pid : BOOLEAN, blocks : SUBSET Loops]
    BY <2>1
  <2>2. CASE c \in [ver : Versions, valid : {FALSE}, pid : {TRUE}, blocks : {Loops}]
    BY <2>2
  <2> QED
    BY <2>1, <2>2 DEF Configs
<1> QED
  BY <1>1, LifecycleAssumption DEF Versions

LEMMA InitLInv == Init => LInv
<1> SUFFICES ASSUME Init PROVE LInv
  OBVIOUS
<1>1. disk \in Configs /\ disk.ver = 0
  BY LifecycleAssumption DEF Init, Configs, Versions
<1>2. LTypes
  <2>1. 0 \in Versions /\ DOMAIN acceptor = Loops
    BY LifecycleAssumption DEF Init, Versions
  <2> QED
    BY <1>1, <2>1 DEF Init, LTypes
<1>3. Upstream /\ \A l \in Loops : Stale(l) /\ Reads(l) /\ Ordered(l)
  BY <1>1 DEF Init, Upstream, Stale, Ended, Reads, Ordered
<1> QED
  BY <1>2, <1>3 DEF LInv

\* What the signal handler, the renewal task and the operator do.
LEMMA EditLInv == LInv /\ Edit => LInv'
<1> SUFFICES ASSUME LInv, Edit PROVE LInv'
  OBVIOUS
<1>1. disk' \in Configs /\ disk'.ver = disk.ver + 1
  BY DEF Edit
<1>2. UNCHANGED <<config, sig, fresh, sent, loopvars>>
  BY DEF Edit
<1>3. LTypes'
  BY <1>1, <1>2 DEF LInv, LTypes, loopvars
<1>4. Upstream'
  BY <1>1, <1>2, VersionsNat DEF LInv, LTypes, Upstream
<1> QED
  BY <1>2, <1>3, <1>4 DEF LInv, Stale, Ended, Reads, Ordered, Message, loopvars

\* Steps that touch nothing LInv speaks about.
LEMMA SameLInv == LInv /\ UNCHANGED <<disk, config, sig, fresh, sent, loopvars>> => LInv'
  BY DEF LInv, LTypes, Upstream, Stale, Ended, Reads, Ordered, Message, loopvars

LEMMA SignalLInv == LInv /\ SignalStep => LInv'
<1> SUFFICES ASSUME LInv, SignalStep PROVE LInv'
  OBVIOUS
<1>0. /\ UNCHANGED <<disk, loopvars>>
      /\ disk.ver \in Nat /\ config.ver \in Nat /\ fresh.ver \in Nat
      /\ sent \in Nat /\ \A l \in Loops : seen[l] \in Nat /\ block[l] \in Nat /\ snap[l].ver \in Nat
  BY VersionsNat, LifecycleAssumption
     DEF SignalStep, OnTerm, OnHup, Write, Send, envvars, LInv, LTypes, Versions
<1>1. CASE OnTerm
  <2>1. sig = "wait" /\ sig' = "gone" /\ UNCHANGED <<config, fresh, sent>>
    BY <1>1 DEF OnTerm
  <2> QED
    BY <1>0, <2>1 DEF LInv, LTypes, Upstream, Stale, Ended, Reads, Ordered, Message, loopvars
<1>2. CASE OnHup
  <2>1. /\ sig = "wait" /\ UNCHANGED <<config, sent>>
        /\ (fresh' = disk /\ sig' = "write") \/ UNCHANGED <<fresh, sig>>
    BY <1>2 DEF OnHup
  <2> QED
    BY <1>0, <2>1 DEF LInv, LTypes, Upstream, Stale, Ended, Reads, Ordered, Message, loopvars
<1>3. CASE Write
  <2>1. sig = "write" /\ config' = fresh /\ sig' = "send" /\ UNCHANGED <<fresh, sent>>
    BY <1>3 DEF Write
  <2>2. LTypes' /\ Upstream'
    BY <1>0, <2>1 DEF LInv, LTypes, Upstream, loopvars
  <2>3. \A l \in Loops : Stale(l)' /\ Reads(l)'
    BY <2>1 DEF Stale, Ended, Reads, Message
  <2>4. \A l \in Loops : Ordered(l)'
    BY <1>0, <2>1 DEF LInv, Upstream, Ordered, loopvars
  <2> QED
    BY <2>2, <2>3, <2>4 DEF LInv
<1>4. CASE Send
  <2>1. sig = "send" /\ sent' = sent + 1 /\ sig' = "wait" /\ UNCHANGED <<config, fresh>>
    BY <1>4 DEF Send
  <2>2. LTypes' /\ Upstream'
    BY <1>0, <2>1 DEF LInv, LTypes, Upstream, loopvars
  <2>3. \A l \in Loops : Ordered(l)' /\ seen'[l] < sent'
    BY <1>0, <2>1 DEF LInv, Ordered, loopvars
  <2>4. \A l \in Loops : Stale(l)' /\ Reads(l)'
    BY <2>3 DEF Stale, Ended, Reads, Message
  <2> QED
    BY <2>2, <2>3, <2>4 DEF LInv
<1> QED
  BY <1>1, <1>2, <1>3, <1>4 DEF SignalStep

LEMMA RenewalLInv == LInv /\ RenewalEnd => LInv'
<1> SUFFICES ASSUME LInv, RenewalEnd PROVE LInv'
  OBVIOUS
<1>1. UNCHANGED <<disk, config, sig, fresh, loopvars>> /\ sent' \in {sent, sent + 1} /\ sent \in Nat
  BY DEF RenewalEnd, LInv, LTypes
<1>2. LTypes' /\ Upstream'
  BY <1>1 DEF LInv, LTypes, Upstream, loopvars
<1>3. \A l \in Loops : Ordered(l)' /\ (seen[l] < sent => seen'[l] < sent')
  BY <1>1 DEF LInv, LTypes, Ordered, loopvars
<1>4. \A l \in Loops : Stale(l)' /\ Reads(l)'
  BY <1>1, <1>3 DEF LInv, Stale, Ended, Reads, Message, loopvars
<1> QED
  BY <1>2, <1>3, <1>4 DEF LInv

\* A step of one accept loop has to be looked at for this loop only.
LEMMA OneLoop ==
    ASSUME LInv, NEW l \in Loops, LTypes', UNCHANGED <<disk, config, sig, fresh, sent>>,
           \A k \in Loops \ {l} : /\ seen'[k] = seen[k] /\ lpc'[k] = lpc[k]
                                  /\ snap'[k] = snap[k] /\ block'[k] = block[k],
           Stale(l)', Reads(l)', Ordered(l)'
    PROVE  LInv'
<1>1. Upstream'
  BY DEF LInv, Upstream
<1>2. ASSUME NEW k \in Loops \ {l} PROVE Stale(k)' /\ Reads(k)' /\ Ordered(k)'
  <2>1. Stale(k) /\ Reads(k) /\ Ordered(k)
    BY DEF LInv
  <2> QED
    BY <2>1 DEF Stale, Ended, Reads, Ordered, Message
<1> QED
  BY <1>1, <1>2 DEF LInv

\* The polls of shutdown and accept, an accepted connection, and the end of a loop.
LEMMA PollLInv ==
    ASSUME LInv, NEW l \in Loops, NEW p \in {"shutdown?", "reload?", "stopped", "dead"},
           lpc[l] \in {"shutdown?", "accept?"} \/ p = "dead", Goto(l, p),
           UNCHANGED <<rest, seen, snap, block, acceptor>>
    PROVE  LInv'
<1>1. UNCHANGED <<disk, config, sig, fresh, sent>>
  BY DEF rest, envvars
<1>2. lpc' = [lpc EXCEPT ![l] = p]
  BY DEF Goto
<1>3. LTypes'
  BY <1>1, <1>2 DEF LInv, LTypes
<1>4. lpc'[l] = p /\ \A k \in Loops \ {l} : lpc'[k] = lpc[k]
  BY <1>2 DEF LInv, LTypes
<1>5. Stale(l)' /\ Reads(l)' /\ Ordered(l)'
  BY <1>1, <1>4 DEF LInv, Stale, Ended, Reads, Ordered, Message
<1> QED
  BY <1>1, <1>3, <1>4, <1>5, OneLoop

\* Taking a message from the channel, lagged or not, leads to reading the configuration.
LEMMA PollReloadLInv ==
    ASSUME LInv, NEW l \in Loops, PollReload(l)
    PROVE  LInv'
<1>0. /\ UNCHANGED <<disk, config, sig, fresh, sent, snap, block, acceptor>> /\ lpc[l] = "reload?"
      /\ sent \in Nat /\ seen[l] \in Nat /\ Ordered(l) /\ Stale(l)
  BY DEF PollReload, rest, envvars, LInv, LTypes
<1>1. CASE sent > seen[l]
  <2> DEFINE pos == IF sent - seen[l] > 1 THEN sent - 1 ELSE sent
  <2>1. seen' = [seen EXCEPT ![l] = pos] /\ lpc' = [lpc EXCEPT ![l] = "read"]
    BY <1>1 DEF PollReload, Goto
  <2>2. pos \in Nat /\ pos <= sent
    BY <1>0, <1>1
  <2> HIDE DEF pos
  <2>3. LTypes'
    BY <1>0, <2>1, <2>2 DEF LInv, LTypes
  <2>4. /\ seen'[l] = pos /\ lpc'[l] = "read"
        /\ \A k \in Loops \ {l} : seen'[k] = seen[k] /\ lpc'[k] = lpc[k]
    BY <2>1 DEF LInv, LTypes
  <2>5. Stale(l)' /\ Reads(l)' /\ Ordered(l)'
    BY <1>0, <2>2, <2>4 DEF Stale, Ended, Reads, Ordered
  <2> QED
    BY <1>0, <2>3, <2>4, <2>5, OneLoop
<1>2. CASE ~(sent > seen[l])
  <2>1. lpc' = [lpc EXCEPT ![l] = "accept?"] /\ UNCHANGED seen
    BY <1>2 DEF PollReload, Goto
  <2>2. LTypes'
    BY <1>0, <2>1 DEF LInv, LTypes
  <2>3. lpc'[l] = "accept?" /\ \A k \in Loops \ {l} : lpc'[k] = lpc[k]
    BY <2>1 DEF LInv, LTypes
  <2>4. Stale(l)' /\ Reads(l)' /\ Ordered(l)'
    BY <1>0, <2>1, <2>3 DEF Stale, Ended, Reads, Ordered, Message
  <2> QED
    BY <1>0, <2>1, <2>2, <2>3, <2>4, OneLoop
<1> QED
  BY <1>1, <1>2

LEMMA ReadConfigLInv ==
    ASSUME LInv, NEW l \in Loops, ReadConfig(l)
    PROVE  LInv'
<1>0. /\ UNCHANGED <<disk, config, sig, fresh, sent, seen, block, acceptor>>
      /\ snap' = [snap EXCEPT ![l] = config] /\ lpc' = [lpc EXCEPT ![l] = "install"]
      /\ config.ver \in Nat /\ Ordered(l)
  BY VersionsNat DEF ReadConfig, Goto, rest, envvars, LInv, LTypes
<1>1. LTypes'
  BY <1>0 DEF LInv, LTypes
<1>2. /\ snap'[l] = config /\ lpc'[l] = "install"
      /\ \A k \in Loops \ {l} : snap'[k] = snap[k] /\ lpc'[k] = lpc[k]
  BY <1>0 DEF LInv, LTypes
<1>3. Stale(l)' /\ Reads(l)' /\ Ordered(l)'
  BY <1>0, <1>2 DEF Stale, Ended, Reads, Ordered
<1> QED
  BY <1>0, <1>1, <1>2, <1>3, OneLoop

\* Install puts in what the loop has cloned, or leaves a loop alone whose block is gone.
LEMMA InstallLInv ==
    ASSUME LInv, NEW l \in Loops, Install(l)
    PROVE  LInv' /\ block'[l] >= block[l] /\ \A k \in Loops \ {l} : block'[k] = block[k]
<1>0. /\ UNCHANGED <<disk, config, sig, fresh, sent, seen, snap>> /\ lpc[l] = "install"
      /\ lpc' = [lpc EXCEPT ![l] = "shutdown?"]
      /\ snap[l] \in Configs /\ snap[l].ver \in Versions /\ snap[l].ver \in Nat /\ config.ver \in Nat
      /\ block[l] \in Nat
      /\ Stale(l) /\ Reads(l) /\ Ordered(l)
  <2>1. /\ UNCHANGED <<disk, config, sig, fresh, sent, seen, snap>> /\ lpc[l] = "install"
        /\ lpc' = [lpc EXCEPT ![l] = "shutdown?"]
    BY DEF Install, Goto, rest, envvars
  <2>2. snap[l] \in Configs /\ block[l] \in Versions
    BY DEF LInv, LTypes
  <2>3. config.ver \in Nat /\ snap[l].ver \in Versions /\ snap[l].ver \in Nat /\ block[l] \in Nat
    BY <2>2, VersionsNat, LifecycleAssumption DEF LInv, LTypes, Versions
  <2> QED
    BY <2>1, <2>2, <2>3 DEF LInv
<1>1. lpc'[l] = "shutdown?" /\ \A k \in Loops \ {l} : lpc'[k] = lpc[k]
  BY <1>0 DEF LInv, LTypes
<1>2. DOMAIN acceptor' = Loops
  BY DEF Install, LInv, LTypes
<1>3. CASE l \in snap[l].blocks
  <2>1. block' = [block EXCEPT ![l] = snap[l].ver]
    BY <1>3 DEF Install
  <2>2. LTypes'
    BY <1>0, <1>2, <2>1 DEF LInv, LTypes
  <2>3. block'[l] = snap[l].ver /\ \A k \in Loops \ {l} : block'[k] = block[k]
    BY <2>1 DEF LInv, LTypes
  <2>4. Stale(l)' /\ Reads(l)' /\ Ordered(l)'
    BY <1>0, <1>1, <2>3 DEF Stale, Ended, Reads, Ordered, Message
  <2>5. block'[l] >= block[l]
    BY <1>0, <2>3 DEF Ordered
  <2> QED
    BY <1>0, <1>1, <2>2, <2>3, <2>4, <2>5, OneLoop
<1>4. CASE l \notin snap[l].blocks
  <2>1. UNCHANGED block
    BY <1>4 DEF Install
  <2>2. LTypes'
    BY <1>0, <1>2, <2>1 DEF LInv, LTypes
  <2>3. Stale(l)' /\ Reads(l)' /\ Ordered(l)'
    BY <1>0, <1>1, <1>4, <2>1 DEF Stale, Ended, Reads, Ordered, Message
  <2> QED
    BY <1>0, <1>1, <2>1, <2>2, <2>3, OneLoop
<1> QED
  BY <1>3, <1>4

\* Every step keeps LInv, and only Install changes what a loop serves with.
Forward == \A l \in Loops : block'[l] >= block[l]

LEMMA StandingStill == LInv /\ UNCHANGED block => Forward
  BY LifecycleAssumption DEF LInv, LTypes, Forward, Versions

LEMMA LoopLInv ==
    ASSUME LInv, NEW l \in Loops, LoopStep(l)
    PROVE  LInv' /\ Forward
<1>1. CASE PollShutdown(l)
  <2>1. LInv'
    BY <1>1, PollLInv DEF PollShutdown
  <2> QED
    BY <1>1, <2>1, StandingStill DEF PollShutdown
<1>2. CASE PollReload(l)
  BY <1>2, PollReloadLInv, StandingStill DEF PollReload
<1>3. CASE ReadConfig(l)
  BY <1>3, ReadConfigLInv, StandingStill DEF ReadConfig
<1>4. CASE Install(l)
  <2>1. \A k \in Loops : block[k] \in Nat
    BY LifecycleAssumption DEF LInv, LTypes, Versions
  <2> QED
    BY <1>4, <2>1, InstallLInv DEF Forward
<1>5. CASE Park(l)
  <2>1. LInv'
    BY <1>5, PollLInv DEF Park
  <2> QED
    BY <1>5, <2>1, StandingStill DEF Park
<1>6. CASE LoggerPanics(l)
  <2>1. LInv'
    BY <1>6, PollLInv DEF LoggerPanics
  <2> QED
    BY <1>6, <2>1, StandingStill DEF LoggerPanics
<1> QED
  BY <1>1, <1>2, <1>3, <1>4, <1>5, <1>6 DEF LoopStep

LEMMA StepLInv == LInv /\ [Next]_vars => LInv' /\ Forward
<1> SUFFICES ASSUME LInv, [Next]_vars PROVE LInv' /\ Forward
  OBVIOUS
<1>1. CASE UNCHANGED vars
  BY <1>1, SameLInv, StandingStill DEF vars, loopvars
<1>2. CASE Edit
  BY <1>2, EditLInv, StandingStill DEF Edit, loopvars
<1>3. CASE RaiseHup \/ RaiseTerm \/ Exit \/ RenewalBegin \/ RenewalStop
  BY <1>3, SameLInv, StandingStill
     DEF RaiseHup, RaiseTerm, Exit, RenewalBegin, RenewalStop, envvars, loopvars
<1>4. CASE SignalStep
  BY <1>4, SignalLInv, StandingStill DEF SignalStep, OnTerm, OnHup, Write, Send, loopvars
<1>5. CASE RenewalEnd
  BY <1>5, RenewalLInv, StandingStill DEF RenewalEnd, loopvars
<1>6. CASE \E l \in Loops : LoopStep(l)
  BY <1>6, LoopLInv
<1>7. ASSUME NEW l \in Loops, NEW c \in Conns, Accept(l, c) PROVE LInv' /\ Forward
  <2>1. LInv'
    BY <1>7, PollLInv DEF Accept
  <2> QED
    BY <1>7, <2>1, StandingStill DEF Accept
<1>8. ASSUME NEW c \in Conns, BeginRequest(c) \/ EndRequest(c) \/ CloseConn(c) PROVE LInv' /\ Forward
  BY <1>8, SameLInv, StandingStill
     DEF BeginRequest, EndRequest, CloseConn, SetConn, rest, envvars, loopvars
<1> QED
  BY <1>1, <1>2, <1>3, <1>4, <1>5, <1>6, <1>7, <1>8 DEF Next

(* However many loops lag however far behind a channel that keeps one message: a loop that
   serves an old configuration is going to read the current one. *)
THEOREM NoReloadLost == Spec => []StaleOnlyIfPending
<1>1. LInv => StaleOnlyIfPending
  BY DEF LInv, Stale, Ended, Message, StaleOnlyIfPending
<1> QED
  BY <1>1, InitLInv, StepLInv, PTL DEF Spec

(* Whatever it clones when: no loop replaces a configuration by an older one. *)
THEOREM Monotone == Spec => NeverBackwards
<1>1. LInv /\ [Next]_vars => [Forward]_vars
  BY StepLInv
<1> QED
  BY <1>1, InitLInv, StepLInv, PTL DEF Spec, NeverBackwards, Forward

-------------------------------------------------------------------------------
Values == {Assigned(j) : j \in Jobs} \cup {NoGroup}

\* The shape of the state, as far as the proofs need it.
Shape ==
    /\ table \in [Routers -> [Sessions -> Values]]
    /\ job \in [Reqs -> Jobs]
    /\ spc \in [Reqs -> {"idle", "lookup", "assign", "routed"}]
    /\ group \in [Reqs -> Values]
    /\ router \in Routers

\* Every pin is what some sticky split of the same router assigns the same session.
PinsOwn ==
    \A r \in Routers, s \in Sessions :
        table[r][s] # NoGroup =>
            \E d \in Sticky : table[r][s] = Assigned([router |-> r, split |-> d, session |-> s])

\* An answer is the request's own assignment, or a pin it may meet.
AnswerOwn(q) ==
    \/ group[q] = Assigned(job[q])
    \/ /\ group[q] # NoGroup /\ job[q].split \in Sticky
       /\ \E d \in Sticky : group[q] = Assigned([job[q] EXCEPT !.split = d])

AnswersOwn == \A q \in Reqs : spc[q] = "routed" => AnswerOwn(q)

IInv == Shape /\ PinsOwn /\ AnswersOwn

(* A job is determined by its router, split and session. *)
LEMMA JobFields ==
    ASSUME NEW j \in Jobs
    PROVE  /\ j.router \in Routers /\ j.split \in Splits /\ j.session \in Sessions
           /\ j = [router |-> j.router, split |-> j.split, session |-> j.session]
BY DEF Jobs

(* Pin, the insert into sticky_sessions, changes the table of one router: the
   session gets the name, and any other session keeps its pin or loses it. *)
LEMMA PinEffect ==
    ASSUME Shape, NEW r \in Routers, NEW s \in Sessions, NEW name \in Values, Pin(r, s, name)
    PROVE  /\ table' \in [Routers -> [Sessions -> Values]]
           /\ table'[r][s] = name
           /\ \A u \in Sessions \ {s} : table'[r][u] \in {table[r][u], NoGroup}
           /\ \A q \in Routers \ {r} : table'[q] = table[q]
<1> DEFINE kept == IF Cardinality(Pinned(r)) >= MaxSessions
                   THEN [t \in Sessions |-> NoGroup] ELSE table[r]
<1>1. table' = [table EXCEPT ![r] = [kept EXCEPT ![s] = name]]
  BY DEF Pin
<1>2. kept \in [Sessions -> Values] /\ \A u \in Sessions : kept[u] \in {table[r][u], NoGroup}
  BY DEF Shape, Values
<1> HIDE DEF kept
<1> QED
  BY <1>1, <1>2 DEF Shape

(* Initially nothing is pinned and nothing answered. *)
LEMMA InitIInv == SplitInit => IInv
<1> SUFFICES ASSUME SplitInit PROVE IInv
  OBVIOUS
<1>1. 0 \in Routers
  BY SplitAssumption DEF Routers
<1>2. Shape
  BY <1>1 DEF SplitInit, Shape, Values
<1>3. PinsOwn
  BY DEF SplitInit, PinsOwn
<1>4. AnswersOwn
  BY DEF SplitInit, AnswersOwn
<1> QED
  BY <1>2, <1>3, <1>4 DEF IInv

LEMMA StepShape ==
    ASSUME Shape, [SplitNext]_splitVars
    PROVE  Shape'
<1>1. CASE UNCHANGED splitVars
  BY <1>1 DEF splitVars, Shape
<1>2. CASE Reload
  BY <1>2, SplitAssumption DEF Reload, Routers, Shape
<1>3. ASSUME NEW q \in Reqs, NEW j \in Jobs, Ask(q, j)
      PROVE  Shape'
  BY <1>3 DEF Ask, Shape
<1>4. ASSUME NEW q \in Reqs, PinHit(q)
      PROVE  Shape'
  <2>1. table[job[q].router][job[q].session] \in Values
    BY JobFields DEF Shape
  <2> QED
    BY <1>4, <2>1 DEF PinHit, Answer, Shape
<1>5. ASSUME NEW q \in Reqs, PinMiss(q)
      PROVE  Shape'
  BY <1>5 DEF PinMiss, Shape
<1>6. ASSUME NEW q \in Reqs, Assign(q)
      PROVE  Shape'
  <2>1. job[q] \in Jobs /\ Assigned(job[q]) \in Values
    BY DEF Shape, Values
  <2>2. table' \in [Routers -> [Sessions -> Values]]
    BY <1>6, <2>1, JobFields, PinEffect DEF Assign, Shape
  <2> QED
    BY <1>6, <2>1, <2>2 DEF Assign, Answer, Shape
<1> QED
  BY <1>1, <1>2, <1>3, <1>4, <1>5, <1>6 DEF SplitNext

(* A request that takes its answer disturbs no other. *)
LEMMA OneAnswer ==
    ASSUME Shape, AnswersOwn, NEW q \in Reqs, NEW name, Answer(q, name), UNCHANGED job,
           \/ name = Assigned(job[q])
           \/ /\ name # NoGroup /\ job[q].split \in Sticky
              /\ \E d \in Sticky : name = Assigned([job[q] EXCEPT !.split = d])
    PROVE  AnswersOwn'
<1>1. /\ group'[q] = name /\ job' = job
      /\ \A p \in Reqs \ {q} : group'[p] = group[p] /\ spc'[p] = spc[p]
  BY DEF Answer, Shape
<1>2. AnswerOwn(q)'
  BY <1>1 DEF AnswerOwn
<1>3. ASSUME NEW p \in Reqs \ {q}, spc'[p] = "routed" PROVE AnswerOwn(p)'
  <2>1. AnswerOwn(p)
    BY <1>1, <1>3 DEF AnswersOwn
  <2> QED
    BY <1>1, <2>1 DEF AnswerOwn
<1> QED
  BY <1>2, <1>3 DEF AnswersOwn

(* Steps that leave the answers alone and put no request where it has one. *)
LEMMA SameAnswers ==
    ASSUME AnswersOwn, UNCHANGED group,
           \A q \in Reqs : spc'[q] = "routed" => spc[q] = "routed" /\ job'[q] = job[q]
    PROVE  AnswersOwn'
<1> SUFFICES ASSUME NEW q \in Reqs, spc'[q] = "routed" PROVE AnswerOwn(q)'
  BY DEF AnswersOwn
<1>1. AnswerOwn(q) /\ job'[q] = job[q] /\ group'[q] = group[q]
  BY DEF AnswersOwn
<1> QED
  BY <1>1 DEF AnswerOwn

(* Every step of resolve, and a reload, keeps the pins and the answers to what the router of
   the request assigns its session. *)
LEMMA StepIInv ==
    ASSUME IInv, [SplitNext]_splitVars
    PROVE  IInv'
<1> USE DEF IInv
<1>0. Shape'
  BY StepShape
<1>1. CASE UNCHANGED splitVars
  <2>1. AnswersOwn'
    BY <1>1, SameAnswers DEF splitVars
  <2> QED
    BY <1>0, <1>1, <2>1 DEF splitVars, PinsOwn
<1>2. CASE Reload
  <2>1. AnswersOwn'
    BY <1>2, SameAnswers DEF Reload
  <2> QED
    BY <1>0, <1>2, <2>1 DEF Reload, PinsOwn
<1>3. ASSUME NEW q \in Reqs, NEW j \in Jobs, Ask(q, j)
      PROVE  IInv'
  <2>1. AnswersOwn'
    BY <1>3, SameAnswers DEF Ask, Shape
  <2> QED
    BY <1>0, <1>3, <2>1 DEF Ask, PinsOwn
<1>4. ASSUME NEW q \in Reqs, PinHit(q)
      PROVE  IInv'
  <2> DEFINE j == job[q]
             name == table[j.router][j.session]
  <2>1. j \in Jobs /\ j.split \in Sticky /\ name # NoGroup
    BY <1>4 DEF PinHit, Shape
  <2>2. PICK d \in Sticky : name = Assigned([router |-> j.router, split |-> d, session |-> j.session])
    BY <2>1, JobFields DEF PinsOwn
  <2>3. [router |-> j.router, split |-> d, session |-> j.session] = [j EXCEPT !.split = d]
    BY <2>1, JobFields
  <2>4. Answer(q, name) /\ UNCHANGED <<router, table, job>>
    BY <1>4 DEF PinHit
  <2>5. AnswersOwn'
    BY <2>1, <2>2, <2>3, <2>4, OneAnswer
  <2> QED
    BY <1>0, <2>4, <2>5 DEF PinsOwn
<1>5. ASSUME NEW q \in Reqs, PinMiss(q)
      PROVE  IInv'
  <2>1. AnswersOwn'
    BY <1>5, SameAnswers DEF PinMiss, Shape
  <2> QED
    BY <1>0, <1>5, <2>1 DEF PinMiss, PinsOwn
<1>6. ASSUME NEW q \in Reqs, Assign(q)
      PROVE  IInv'
  <2> DEFINE j == job[q]
  <2>1. j \in Jobs
    BY DEF Shape
  <2>2. Answer(q, Assigned(j)) /\ UNCHANGED <<router, job>>
    BY <1>6 DEF Assign
  <2>3. PinsOwn'
    <3>1. CASE j.split \in Sticky /\ Assigned(j) # NoGroup
      <4>1. Pin(j.router, j.session, Assigned(j))
        BY <1>6, <3>1 DEF Assign
      <4>2. Assigned(j) \in Values
        BY <2>1 DEF Values
      <4>3. /\ table'[j.router][j.session] = Assigned(j)
            /\ \A u \in Sessions \ {j.session} : table'[j.router][u] \in {table[j.router][u], NoGroup}
            /\ \A r \in Routers \ {j.router} : table'[r] = table[r]
        BY <2>1, <4>1, <4>2, JobFields, PinEffect
      <4>4. ASSUME NEW r \in Routers, NEW s \in Sessions, table'[r][s] # NoGroup
            PROVE  \E d \in Sticky : table'[r][s] = Assigned([router |-> r, split |-> d, session |-> s])
        <5>1. CASE r = j.router /\ s = j.session
          <6>1. table'[r][s] = Assigned([router |-> r, split |-> j.split, session |-> s])
            BY <2>1, <4>3, <5>1, JobFields
          <6> QED
            BY <3>1, <6>1
        <5>2. CASE ~(r = j.router /\ s = j.session)
          <6>1. table'[r][s] = table[r][s]
            BY <4>3, <4>4, <5>2
          <6> QED
            BY <4>4, <6>1 DEF PinsOwn
        <5> QED
          BY <5>1, <5>2
      <4> QED
        BY <4>4 DEF PinsOwn
    <3>2. CASE ~(j.split \in Sticky /\ Assigned(j) # NoGroup)
      <4>1. UNCHANGED table
        BY <1>6, <3>2 DEF Assign
      <4> QED
        BY <4>1 DEF PinsOwn
    <3> QED
      BY <3>1, <3>2
  <2>4. AnswersOwn'
    BY <2>2, OneAnswer
  <2> QED
    BY <1>0, <2>3, <2>4
<1> QED
  BY <1>1, <1>2, <1>3, <1>4, <1>5, <1>6 DEF SplitNext

(* For any number of sticky splits, requests, sessions and reloads: lookups and inserts that
   race, cleared tables and requests that outlive their router never send a session to a group
   that its own hash and its own router's weights do not assign it, in the split it asked for
   or in one that shares the pins. *)
THEOREM Consistent == SplitSpec => []OwnAssignment
<1>1. SplitInit => IInv
  BY InitIInv
<1>2. IInv /\ [SplitNext]_splitVars => IInv'
  BY StepIInv
<1>3. IInv => OwnAssignment
  <2> SUFFICES ASSUME IInv, NEW q \in Reqs, spc[q] = "routed"
               PROVE  \E d \in Sharing(job[q].split) : group[q] = Assigned([job[q] EXCEPT !.split = d])
    BY DEF OwnAssignment
  <2>1. AnswerOwn(q) /\ job[q] \in Jobs
    BY DEF IInv, AnswersOwn, Shape
  <2>2. [job[q] EXCEPT !.split = job[q].split] = job[q]
    BY <2>1, JobFields
  <2>3. job[q].split \in Sharing(job[q].split) /\ (job[q].split \in Sticky => Sharing(job[q].split) = Sticky)
    BY DEF Sharing
  <2> QED
    BY <2>1, <2>2, <2>3 DEF AnswerOwn
<1> QED
  BY <1>1, <1>2, <1>3, PTL DEF SplitSpec
-------------------------------------------------------------------------------
(* An insert into sticky_sessions leaves at most MAX_STICKY_SESSIONS entries: it
   adds one, and to a full table only after clearing it. *)
LEMMA PinBounded ==
    ASSUME Shape, TableBounded,
           NEW r \in Routers, NEW s \in Sessions, NEW name \in Values, Pin(r, s, name)
    PROVE  TableBounded'
<1>1. \A q \in Routers : IsFiniteSet(Pinned(q)) /\ Cardinality(Pinned(q)) \in Nat
  <2> SUFFICES ASSUME NEW q \in Routers
               PROVE  IsFiniteSet(Pinned(q)) /\ Cardinality(Pinned(q)) \in Nat
    OBVIOUS
  <2>1. Pinned(q) \subseteq Sessions
    BY DEF Pinned
  <2> QED
    BY <2>1, SplitAssumption, FS_Subset, FS_CardinalityType
<1>2. \A q \in Routers \ {r} : Pinned(q)' = Pinned(q)
  BY PinEffect DEF Pinned
<1>3. CASE Cardinality(Pinned(r)) >= MaxSessions
  <2>1. table' = [table EXCEPT ![r] = [[t \in Sessions |-> NoGroup] EXCEPT ![s] = name]]
    BY <1>3 DEF Pin
  <2>2. Pinned(r)' \subseteq {s}
    BY <2>1 DEF Pinned, Shape
  <2>3. IsFiniteSet({s}) /\ Cardinality({s}) = 1
    BY FS_Singleton
  <2>4. Cardinality(Pinned(r)') <= 1 /\ Cardinality(Pinned(r)') \in Nat
    BY <2>2, <2>3, FS_Subset, FS_CardinalityType
  <2> QED
    BY <1>2, <2>4, SplitAssumption DEF TableBounded
<1>4. CASE ~(Cardinality(Pinned(r)) >= MaxSessions)
  <2>1. table' = [table EXCEPT ![r] = [table[r] EXCEPT ![s] = name]]
    BY <1>4 DEF Pin
  <2>2. Pinned(r)' \subseteq Pinned(r) \cup {s}
    BY <2>1 DEF Pinned, Shape
  <2>3. /\ IsFiniteSet(Pinned(r) \cup {s})
        /\ Cardinality(Pinned(r) \cup {s}) <= Cardinality(Pinned(r)) + 1
    <3> DEFINE P == Pinned(r)
    <3>1. IsFiniteSet(P) /\ Cardinality(P) \in Nat
      BY <1>1
    <3> HIDE DEF P
    <3>2. /\ IsFiniteSet(P \cup {s})
          /\ Cardinality(P \cup {s}) = IF s \in P THEN Cardinality(P) ELSE Cardinality(P) + 1
      BY <3>1, FS_AddElement, Zenon
    <3>3. Cardinality(P \cup {s}) <= Cardinality(P) + 1
      BY <3>1, <3>2
    <3> QED
      BY <3>2, <3>3 DEF P
  <2>4. Cardinality(Pinned(r) \cup {s}) \in Nat
    BY <2>3, FS_CardinalityType
  <2>5. /\ Cardinality(Pinned(r)') <= Cardinality(Pinned(r) \cup {s})
        /\ Cardinality(Pinned(r)') \in Nat
    BY <2>2, <2>3, FS_Subset, FS_CardinalityType
  <2>6. Cardinality(Pinned(r)') <= MaxSessions
    <3>1. MaxSessions \in Nat /\ Cardinality(Pinned(r)) \in Nat
      BY <1>1, SplitAssumption
    <3>2. Cardinality(Pinned(r)) + 1 <= MaxSessions
      BY <1>4, <3>1
    <3> QED
      BY <2>3, <2>4, <2>5, <3>1, <3>2
  <2> QED
    BY <1>2, <2>6 DEF TableBounded
<1> QED
  BY <1>3, <1>4

(* No table of sticky sessions outgrows MAX_STICKY_SESSIONS, however many requests
   race from the lookup to the insert. *)
THEOREM Bounded == SplitSpec => []TableBounded
<1>1. SplitInit => Shape /\ TableBounded
  <2> SUFFICES ASSUME SplitInit PROVE Shape /\ TableBounded
    OBVIOUS
  <2>1. \A r \in Routers : Pinned(r) = {}
    BY DEF SplitInit, Pinned
  <2>2. TableBounded
    <3>1. 0 <= MaxSessions
      BY SplitAssumption
    <3> QED
      BY <2>1, <3>1, FS_EmptySet, Zenon DEF TableBounded
  <2> QED
    BY <2>2, InitIInv DEF IInv
<1>2. Shape /\ TableBounded /\ [SplitNext]_splitVars => (Shape /\ TableBounded)'
  <2> SUFFICES ASSUME Shape, TableBounded, [SplitNext]_splitVars
               PROVE  Shape' /\ TableBounded'
    OBVIOUS
  <2>1. ASSUME UNCHANGED table
        PROVE  TableBounded'
    <3>1. \A r \in Routers : Pinned(r)' = Pinned(r)
      BY <2>1 DEF Pinned
    <3> QED
      BY <3>1, Zenon DEF TableBounded
  <2>2. ASSUME NEW q \in Reqs, Assign(q), ~UNCHANGED table
        PROVE  TableBounded'
    <3>1. Pin(job[q].router, job[q].session, Assigned(job[q]))
      BY <2>2 DEF Assign
    <3>2. job[q] \in Jobs /\ Assigned(job[q]) \in Values
      BY DEF Shape, Values
    <3> QED
      BY <3>1, <3>2, JobFields, PinBounded
  <2>3. UNCHANGED table \/ \E q \in Reqs : Assign(q)
    BY DEF SplitNext, splitVars, Reload, Ask, PinHit, PinMiss
  <2> QED
    BY <2>1, <2>2, <2>3, StepShape
<1> QED
  BY <1>1, <1>2, PTL DEF SplitSpec
-------------------------------------------------------------------------------
(* Weights. *)

\* Induction with the statement as a set of numbers.
LEMMA SetInduction ==
    ASSUME NEW S \in SUBSET Nat, 0 \in S, \A n \in Nat : n \in S => n + 1 \in S
    PROVE  \A n \in Nat : n \in S
<1> SUFFICES ASSUME Nat \ S # {} PROVE FALSE
  OBVIOUS
<1>1. PICK x \in Nat \ S : \A y \in Nat \ S : ~(<<y, x>> \in OpToRel(<, Nat))
  BY NatLessThanWellFounded, WFMin
<1>2. x # 0 /\ x - 1 \in Nat
  OBVIOUS
<1>3. x - 1 \in S
  <2> SUFFICES ASSUME x - 1 \notin S PROVE FALSE
    OBVIOUS
  <2>1. <<x - 1, x>> \in OpToRel(<, Nat)
    BY <1>2 DEF OpToRel
  <2> QED
    BY <1>1, <1>2, <2>1
<1>4. (x - 1) + 1 \in S
  BY <1>2, <1>3
<1> QED
  BY <1>2, <1>4

\* The equation that defines Cumulative(gs) has a solution, so Cumulative(gs) solves it.
LEMMA CumulativeDef ==
    ASSUME NEW gs, Len(gs) \in Nat
    PROVE  Cumulative(gs) = [i \in 0 .. Len(gs) |->
                                IF i = 0 THEN 0 ELSE Cumulative(gs)[i - 1] + gs[i].weight]
<1> DEFINE Sum(g, n) == [m \in 0 .. n |-> IF m = 0 THEN 0 ELSE g[m - 1] + gs[m].weight]
           Solved == {n \in Nat : \E g : g = Sum(g, n)}
<1>1. 0 \in Solved
  <2> DEFINE g == [m \in 0 .. 0 |-> 0]
  <2>1. g = Sum(g, 0)
    OBVIOUS
  <2> QED
    BY <2>1
<1>2. ASSUME NEW n \in Nat, n \in Solved PROVE n + 1 \in Solved
  <2>1. PICK g : g = Sum(g, n)
    BY <1>2
  <2> DEFINE h == [m \in 0 .. n + 1 |-> IF m = n + 1 THEN g[n] + gs[n + 1].weight ELSE g[m]]
  <2>2. ASSUME NEW m \in 0 .. n + 1 PROVE h[m] = IF m = 0 THEN 0 ELSE h[m - 1] + gs[m].weight
    <3>1. CASE m = n + 1
      <4>1. m # 0 /\ m - 1 = n /\ h[m - 1] = g[n]
        BY <3>1
      <4> QED
        BY <3>1, <4>1
    <3>2. CASE m # n + 1
      <4>1. m \in 0 .. n
        BY <3>2
      <4>2. g[m] = IF m = 0 THEN 0 ELSE g[m - 1] + gs[m].weight
        BY <2>1, <4>1
      <4>3. h[m] = g[m] /\ (m # 0 => h[m - 1] = g[m - 1])
        BY <4>1
      <4> QED
        BY <4>2, <4>3
    <3> QED
      BY <3>1, <3>2
  <2>3. h = Sum(h, n + 1)
    BY <2>2
  <2>4. \E f : f = Sum(f, n + 1)
    <3> HIDE DEF h
    <3> QED
      BY <2>3
  <2> HIDE DEF Sum
  <2> QED
    BY <2>4
<1>3. Len(gs) \in Solved
  <2>1. Solved \in SUBSET Nat
    OBVIOUS
  <2> HIDE DEF Solved
  <2> QED
    BY <1>1, <1>2, <2>1, SetInduction
<1>4. \E g : g = Sum(g, Len(gs))
  BY <1>3
<1>5. Cumulative(gs) = CHOOSE g : g = Sum(g, Len(gs))
  BY DEF Cumulative
<1> QED
  BY <1>4, <1>5

\* The running sum starts at 0 and grows by the weights.
LEMMA CumulativeStep ==
    ASSUME NEW gs, Len(gs) \in Nat, \A i \in 1 .. Len(gs) : gs[i].weight \in Nat
    PROVE  /\ Cumulative(gs)[0] = 0
           /\ \A i \in 1 .. Len(gs) : Cumulative(gs)[i] = Cumulative(gs)[i - 1] + gs[i].weight
           /\ \A i \in 0 .. Len(gs) : Cumulative(gs)[i] \in Nat
<1> DEFINE C == Cumulative(gs)
<1>1. C[0] = 0
  BY CumulativeDef
<1>2. ASSUME NEW i \in 1 .. Len(gs) PROVE C[i] = C[i - 1] + gs[i].weight
  <2>1. i \in 0 .. Len(gs) /\ i # 0
    OBVIOUS
  <2> QED
    BY <2>1, CumulativeDef
<1> DEFINE S == {n \in Nat : n <= Len(gs) => C[n] \in Nat}
<1> HIDE DEF C
<1>3. 0 \in S
  BY <1>1
<1>4. ASSUME NEW n \in Nat, n \in S PROVE n + 1 \in S
  <2> SUFFICES ASSUME n + 1 <= Len(gs) PROVE C[n + 1] \in Nat
    OBVIOUS
  <2>1. n + 1 \in 1 .. Len(gs) /\ (n + 1) - 1 = n /\ n <= Len(gs)
    OBVIOUS
  <2>2. C[n + 1] = C[n] + gs[n + 1].weight
    BY <1>2, <2>1
  <2>3. C[n] \in Nat /\ gs[n + 1].weight \in Nat
    BY <1>4, <2>1
  <2> QED
    BY <2>2, <2>3
<1>5. \A n \in Nat : n \in S
  <2>1. S \in SUBSET Nat
    OBVIOUS
  <2> HIDE DEF S
  <2> QED
    BY <1>3, <1>4, <2>1, SetInduction
<1>6. \A i \in 0 .. Len(gs) : C[i] \in Nat
  BY <1>5
<1> QED
  BY <1>1, <1>2, <1>6 DEF C

\* The running sum never falls.
LEMMA CumulativeMonotone ==
    ASSUME NEW gs, Len(gs) \in Nat, \A i \in 1 .. Len(gs) : gs[i].weight \in Nat,
           NEW i \in 0 .. Len(gs), NEW k \in i .. Len(gs)
    PROVE  Cumulative(gs)[i] <= Cumulative(gs)[k]
<1> DEFINE C == Cumulative(gs)
           S == {n \in Nat : i <= n /\ n <= Len(gs) => C[i] <= C[n]}
<1>0. /\ \A m \in 1 .. Len(gs) : C[m] = C[m - 1] + gs[m].weight
      /\ \A m \in 0 .. Len(gs) : C[m] \in Nat
  BY CumulativeStep
<1> HIDE DEF C
<1>1. 0 \in S
  BY <1>0
<1>2. ASSUME NEW n \in Nat, n \in S PROVE n + 1 \in S
  <2> SUFFICES ASSUME i <= n + 1, n + 1 <= Len(gs) PROVE C[i] <= C[n + 1]
    OBVIOUS
  <2>1. CASE i = n + 1
    BY <1>0, <2>1
  <2>2. CASE i # n + 1
    <3>1. i <= n /\ n \in 0 .. Len(gs) /\ n + 1 \in 1 .. Len(gs) /\ (n + 1) - 1 = n
      BY <2>2
    <3>2. C[n + 1] = C[n] + gs[n + 1].weight /\ gs[n + 1].weight \in Nat
      BY <1>0, <3>1
    <3>3. C[i] <= C[n] /\ C[i] \in Nat /\ C[n] \in Nat
      BY <1>0, <1>2, <3>1
    <3> QED
      BY <3>2, <3>3
  <2> QED
    BY <2>1, <2>2
<1>3. \A n \in Nat : n \in S
  <2>1. S \in SUBSET Nat
    OBVIOUS
  <2> HIDE DEF S
  <2> QED
    BY <1>1, <1>2, <2>1, SetInduction
<1>4. C[i] <= C[k]
  BY <1>3
<1> QED
  BY <1>4 DEF C

\* The range of points that belongs to group i.
Owns(gs, i, point) == Cumulative(gs)[i - 1] <= point /\ point < Cumulative(gs)[i]

(* Every point below the total weight belongs to exactly one group of the split, whose weight is
   not 0, and the loop of resolve finds it: of the points each group gets as many as its weight. *)
THEOREM Shares ==
    ASSUME NEW gs, Len(gs) \in Nat, \A i \in 1 .. Len(gs) : gs[i].weight \in Nat,
           NEW point \in Nat, point < total_weight(gs)
    PROVE  \E i \in 1 .. Len(gs) :
               /\ gs[i].weight > 0 /\ GroupAt(gs, point) = gs[i].name
               /\ \A k \in 1 .. Len(gs) : Owns(gs, k, point) <=> k = i
<1> DEFINE C == Cumulative(gs)
           S == {n \in Nat : n <= Len(gs) /\ point < C[n] => \E i \in 1 .. n : Owns(gs, i, point)}
<1>0. /\ C[0] = 0
      /\ \A m \in 1 .. Len(gs) : C[m] = C[m - 1] + gs[m].weight
      /\ \A m \in 0 .. Len(gs) : C[m] \in Nat
  BY CumulativeStep
<1>1. 0 \in S
  BY <1>0
<1>2. ASSUME NEW n \in Nat, n \in S PROVE n + 1 \in S
  <2> SUFFICES ASSUME n + 1 <= Len(gs), point < C[n + 1] PROVE \E i \in 1 .. n + 1 : Owns(gs, i, point)
    OBVIOUS
  <2>1. n <= Len(gs) /\ (n + 1) - 1 = n /\ n \in 0 .. Len(gs)
    OBVIOUS
  <2>2. CASE point < C[n]
    BY <1>2, <2>1, <2>2
  <2>3. CASE ~(point < C[n])
    <3>1. C[n] <= point
      BY <1>0, <2>1, <2>3
    <3>2. Owns(gs, n + 1, point)
      BY <2>1, <3>1 DEF Owns
    <3> QED
      BY <3>2
  <2> QED
    BY <2>2, <2>3
<1>3. Len(gs) \in S
  <2>1. S \in SUBSET Nat
    OBVIOUS
  <2> HIDE DEF S
  <2> QED
    BY <1>1, <1>2, <2>1, SetInduction
<1>4. PICK i \in 1 .. Len(gs) : Owns(gs, i, point)
  BY <1>3 DEF total_weight
<1>5. ASSUME NEW k \in 1 .. Len(gs), Owns(gs, k, point), NEW m \in 1 .. Len(gs), Owns(gs, m, point), k < m
      PROVE  FALSE
  <2>1. m - 1 \in k .. Len(gs) /\ k \in 0 .. Len(gs) /\ m - 1 \in 0 .. Len(gs)
    BY <1>5
  <2>2. C[k] <= C[m - 1]
    BY <2>1, CumulativeMonotone
  <2>3. C[m - 1] <= point /\ point < C[k]
    BY <1>5 DEF Owns
  <2>4. C[k] \in Nat /\ C[m - 1] \in Nat
    BY <1>0, <2>1
  <2> HIDE DEF C
  <2> QED
    BY <2>2, <2>3, <2>4
<1>6. \A k \in 1 .. Len(gs) : Owns(gs, k, point) => k = i
  <2> TAKE k \in 1 .. Len(gs)
  <2> HAVE Owns(gs, k, point)
  <2>1. ~(k < i) /\ ~(i < k)
    BY <1>4, <1>5
  <2> QED
    BY <2>1
<1>7. (CHOOSE k \in 1 .. Len(gs) : Owns(gs, k, point)) = i
  BY <1>4, <1>6
<1>8. GroupAt(gs, point) = gs[i].name
  BY <1>7 DEF GroupAt, Owns
<1>9. gs[i].weight > 0
  <2>1. C[i] = C[i - 1] + gs[i].weight /\ C[i - 1] \in Nat /\ gs[i].weight \in Nat
    BY <1>0
  <2>2. C[i - 1] <= point /\ point < C[i]
    BY <1>4 DEF Owns
  <2> HIDE DEF C
  <2> QED
    BY <2>1, <2>2
<1> QED
  BY <1>4, <1>6, <1>8, <1>9

\* resolve finds no group only for a split that has no weight; the group it does find is one with
\* a weight, of the split that was asked for or of one that shares its pins.
RoutedByWeight ==
    \A q \in Reqs : spc[q] = "routed" =>
        IF group[q] = NoGroup THEN total_weight(Groups[job[q].router][job[q].split]) = 0
        ELSE \E d \in Sharing(job[q].split) :
                 LET gs == Groups[job[q].router][d] IN
                 \E i \in 1 .. Len(gs) : gs[i].weight > 0 /\ group[q] = gs[i].name

LEMMA AssignedByWeight ==
    ASSUME NEW j \in Jobs
    PROVE  IF Assigned(j) = NoGroup THEN total_weight(Groups[j.router][j.split]) = 0
           ELSE \E i \in 1 .. Len(Groups[j.router][j.split]) :
                    /\ Groups[j.router][j.split][i].weight > 0
                    /\ Assigned(j) = Groups[j.router][j.split][i].name
<1> DEFINE gs == Groups[j.router][j.split]
           total == total_weight(gs)
           point == Hash[j.session][j.split] % total
<1>1. CASE total = 0
  BY <1>1 DEF Assigned
<1>2. CASE total # 0
  <2>1. /\ Len(gs) \in Nat /\ \A i \in 1 .. Len(gs) : gs[i].weight \in Nat /\ gs[i].name # NoGroup
        /\ Hash[j.session][j.split] \in Nat
    BY SplitAssumption DEF Jobs
  <2>2. Assigned(j) = GroupAt(gs, point)
    BY <1>2 DEF Assigned
  <2> HIDE DEF gs
  <2>3. total \in Nat
    <3>1. Len(gs) \in 0 .. Len(gs)
      BY <2>1
    <3> QED
      BY <2>1, <3>1, CumulativeStep DEF total_weight
  <2> HIDE DEF total
  <2>4. point \in Nat /\ point < total
    BY <1>2, <2>1, <2>3
  <2> HIDE DEF point
  <2>5. PICK i \in 1 .. Len(gs) : gs[i].weight > 0 /\ GroupAt(gs, point) = gs[i].name
    BY <2>1, <2>4, Shares DEF total
  <2>6. Assigned(j) # NoGroup
    BY <2>1, <2>2, <2>5
  <2> QED
    BY <2>2, <2>5, <2>6 DEF gs
<1> QED
  BY <1>1, <1>2

(* A group that has the weight 0, or that only an earlier or a later router has, never gets a
   request, for any hash, any number of sticky splits and any history of the table; and a split
   with a weight always yields a group. *)
THEOREM Weighted == SplitSpec => []RoutedByWeight
<1>1. SplitInit => IInv
  BY InitIInv
<1>2. IInv /\ [SplitNext]_splitVars => IInv'
  BY StepIInv
<1>3. ASSUME IInv, NEW q \in Reqs, spc[q] = "routed"
      PROVE  IF group[q] = NoGroup THEN total_weight(Groups[job[q].router][job[q].split]) = 0
             ELSE \E d \in Sharing(job[q].split) :
                      LET gs == Groups[job[q].router][d] IN
                      \E i \in 1 .. Len(gs) : gs[i].weight > 0 /\ group[q] = gs[i].name
  <2> DEFINE j == job[q]
  <2>0. AnswerOwn(q) /\ j \in Jobs
    BY <1>3 DEF IInv, AnswersOwn, Shape
  <2>1. CASE group[q] = Assigned(j)
    <3>1. j.split \in Sharing(j.split)
      BY DEF Sharing
    <3> QED
      BY <2>0, <2>1, <3>1, AssignedByWeight
  <2>2. CASE group[q] # Assigned(j)
    <3>1. group[q] # NoGroup /\ j.split \in Sticky
      BY <2>0, <2>2 DEF AnswerOwn
    <3>2. PICK d \in Sticky : group[q] = Assigned([j EXCEPT !.split = d])
      BY <2>0, <2>2 DEF AnswerOwn
    <3> DEFINE k == [j EXCEPT !.split = d]
    <3>3. k \in Jobs /\ k.router = j.router /\ k.split = d
      BY <2>0, SplitAssumption DEF Jobs
    <3>4. d \in Sharing(j.split)
      BY <3>1 DEF Sharing
    <3>5. group[q] = Assigned(k)
      BY <3>2
    <3> HIDE DEF k
    <3> QED
      BY <3>1, <3>3, <3>4, <3>5, AssignedByWeight
  <2> QED
    BY <2>1, <2>2
<1>4. IInv => RoutedByWeight
  BY <1>3 DEF RoutedByWeight
<1> QED
  BY <1>1, <1>2, <1>4, PTL DEF SplitSpec
===============================================================================
