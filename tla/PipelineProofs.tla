---------------------------- MODULE PipelineProofs ----------------------------
(***************************************************************************)
(* Proofs about Pipeline, for every request, block, rewrite rule and       *)
(* limit.                                                                  *)
(***************************************************************************)
EXTENDS Pipeline, WellFoundedInduction, TLAPS

\* Min finds a least element.
LEMMA MinLeast ==
    ASSUME NEW S \in SUBSET Nat, S # {}
    PROVE  Min(S) \in S /\ \A y \in S : Min(S) <= y
<1>1. PICK x \in S : \A y \in S : ~(<<y, x>> \in OpToRel(<, Nat))
  BY NatLessThanWellFounded, WFMin
<1>2. ASSUME NEW y \in S, y < x PROVE FALSE
  BY <1>1, <1>2 DEF OpToRel
<1>3. \A y \in S : x <= y
  <2> TAKE y \in S
  <2>1. x \in Nat /\ y \in Nat
    OBVIOUS
  <2>2. ~(y < x)
    BY <1>2
  <2> QED
    BY <2>1, <2>2
<1> QED
  BY <1>3 DEF Min

\* Induction with the statement as a set of numbers.
LEMMA SetInduction ==
    ASSUME NEW S \in SUBSET Nat, 0 \in S, \A n \in Nat : n \in S => n + 1 \in S
    PROVE  \A n \in Nat : n \in S
<1> SUFFICES ASSUME Nat \ S # {} PROVE FALSE
  OBVIOUS
<1>1. PICK x \in Nat \ S : \A y \in Nat \ S : ~(<<y, x>> \in OpToRel(<, Nat))
  BY NatLessThanWellFounded, WFMin
<1>2. x # 0 /\ x - 1 \in Nat
  OBVIOUS
<1>3. x - 1 \in S
  <2> SUFFICES ASSUME x - 1 \notin S PROVE FALSE
    OBVIOUS
  <2>1. <<x - 1, x>> \in OpToRel(<, Nat)
    BY <1>2 DEF OpToRel
  <2> QED
    BY <1>1, <1>2, <2>1
<1>4. (x - 1) + 1 \in S
  BY <1>2, <1>3
<1> QED
  BY <1>2, <1>4

\* FirstFailure returns 0 only if every check passes.
LEMMA AllPass ==
    ASSUME NEW checks, DOMAIN checks \in SUBSET Nat, FirstFailure(checks) = 0,
           \A i \in DOMAIN checks : checks[i][1] => checks[i][2] # 0
    PROVE  \A i \in DOMAIN checks : ~checks[i][1]
<1> DEFINE failed == {i \in DOMAIN checks : checks[i][1]}
<1>1. CASE failed = {}
  BY <1>1
<1>2. CASE failed # {}
  <2>1. failed \in SUBSET Nat
    OBVIOUS
  <2>2. Min(failed) \in failed
    BY <1>2, <2>1, MinLeast
  <2>3. checks[Min(failed)][2] = 0
    BY <1>2 DEF FirstFailure
  <2> QED
    BY <2>2, <2>3
<1> QED
  BY <1>1, <1>2

LEMMA SecurityPasses ==
    ASSUME security_checks = 0
    PROVE  /\ ~req.big /\ validate_uri(req.path) = 0
           /\ ~(block.reject_ambiguous_framing /\ req.lengths # <<>> /\ (req.te \/ Len(req.lengths) > 1))
<1> DEFINE checks == <<
        <<req.big, 431>>,
        <<req.lengths # <<>> /\ Head(req.lengths) > MaxBody, 413>>,
        <<req.proto = "h1.0" /\ req.te, 400>>,
        <<block.reject_ambiguous_framing /\ req.lengths # <<>> /\ (req.te \/ Len(req.lengths) > 1), 400>>,
        <<validate_uri(req.path) # 0, validate_uri(req.path)>> >>
<1>1. FirstFailure(checks) = 0
  BY DEF security_checks
<1>2. DOMAIN checks = 1 .. 5
  OBVIOUS
<1>3. \A i \in 1 .. 5 : checks[i][1] => checks[i][2] # 0
  <2>1. checks[5][1] => checks[5][2] # 0
    OBVIOUS
  <2>2. checks[1][2] # 0 /\ checks[2][2] # 0 /\ checks[3][2] # 0 /\ checks[4][2] # 0
    OBVIOUS
  <2> HIDE DEF checks
  <2> QED BY <2>1, <2>2
<1>4. \A i \in 1 .. 5 : ~checks[i][1]
  <2> HIDE DEF checks
  <2> QED BY <1>1, <1>2, <1>3, AllPass
<1>5. ~checks[1][1] /\ ~checks[4][1] /\ ~checks[5][1]
  <2> HIDE DEF checks
  <2> QED BY <1>4
<1> QED
  BY <1>5

\* What process has refused nothing of.
LEMMA RefusalPasses ==
    ASSUME Refusal = 0
    PROVE  /\ security_checks = 0 /\ validate_host(req.host) /\ check_method_allowed
           /\ ~(got > MaxBody) /\ ~Oversized
<1> DEFINE checks == <<
        <<security_checks # 0, security_checks>>,
        <<got > MaxBody, 413>>,
        <<Oversized, 413>>,
        <<~validate_host(req.host), 400>>,
        <<~check_method_allowed, 405>> >>
<1>1. FirstFailure(checks) = 0
  BY DEF Refusal
<1>2. DOMAIN checks = 1 .. 5
  OBVIOUS
<1>3. \A i \in 1 .. 5 : checks[i][1] => checks[i][2] # 0
  <2>1. checks[1][1] => checks[1][2] # 0
    OBVIOUS
  <2>2. checks[2][2] # 0 /\ checks[3][2] # 0 /\ checks[4][2] # 0 /\ checks[5][2] # 0
    OBVIOUS
  <2> HIDE DEF checks
  <2> QED BY <2>1, <2>2
<1>4. \A i \in 1 .. 5 : ~checks[i][1]
  <2> HIDE DEF checks
  <2> QED BY <1>1, <1>2, <1>3, AllPass
<1>5. ~checks[1][1] /\ ~checks[2][1] /\ ~checks[3][1] /\ ~checks[4][1] /\ ~checks[5][1]
  <2> HIDE DEF checks
  <2> QED BY <1>4
<1> QED
  BY <1>5

LEMMA RewritePasses ==
    ASSUME NEW a, RewriteRefusal(a) = 0
    PROVE  validate_uri(a.to) = 0 /\ a.to \in UriPaths
<1> DEFINE checks == << <<validate_uri(a.to) # 0, validate_uri(a.to)>>, <<a.to \notin UriPaths, 400>>,
                        <<req.path = "", 500>> >>
<1>1. FirstFailure(checks) = 0
  BY DEF RewriteRefusal
<1>2. DOMAIN checks = 1 .. 3
  OBVIOUS
<1>3. \A i \in 1 .. 3 : checks[i][1] => checks[i][2] # 0
  <2>1. checks[1][1] => checks[1][2] # 0
    OBVIOUS
  <2>2. checks[2][2] # 0 /\ checks[3][2] # 0
    OBVIOUS
  <2> HIDE DEF checks
  <2> QED BY <2>1, <2>2
<1>4. \A i \in 1 .. 3 : ~checks[i][1]
  <2> HIDE DEF checks
  <2> QED BY <1>1, <1>2, <1>3, AllPass
<1>5. ~checks[1][1] /\ ~checks[2][1]
  <2> HIDE DEF checks
  <2> QED BY <1>4
<1> QED
  BY <1>5

\* A path that no rule matches goes on as it is.
LEMMA ApplyFlag ==
    ASSUME NEW p, apply(p).flag = None
    PROVE  apply(p).to = p
<1> DEFINE I == {i \in 1 .. Len(Rules) : p \in Rules[i].paths}
           n == IF I # {} THEN Min(I) ELSE 0
<1>1. apply(p) = IF n = 0 THEN [flag |-> None, to |-> p] ELSE Rules[n]
  BY Zenon DEF apply, SelectInSeq
<1>2. I \in SUBSET Nat
  <2>1. Len(Rules) \in Nat
    BY PipelineAssumption
  <2> QED
    BY <2>1
<1>3. ASSUME n # 0 PROVE FALSE
  <2>1. I # {} /\ n = Min(I)
    BY <1>3
  <2>2. n \in I
    <3> HIDE DEF I
    <3> QED BY <1>2, <2>1, MinLeast
  <2>3. Rules[n].flag # None
    BY <2>2, PipelineAssumption DEF None
  <2> QED
    BY <1>1, <1>3, <2>3
<1> QED
  BY <1>1, <1>3
-------------------------------------------------------------------------------
Types ==
    /\ req \in Requests
    /\ hdr \in [Names -> {"client", "absent", "server"}]
    /\ got \in Nat

LEMMA Limits == MaxBody \in Nat /\ MaxChunk \in Nat
  BY PipelineAssumption

\* The path a request goes on with is one the http crate takes.
LEMMA RoutedPath ==
    ASSUME Types, NEW a, a = apply(req.path), a.flag = None \/ RewriteRefusal(a) = 0
    PROVE  a.to \in UriPaths
<1>1. CASE a.flag = None
  <2>1. a.to = req.path
    BY <1>1, ApplyFlag
  <2> QED
    BY <2>1 DEF Types, Requests
<1>2. CASE RewriteRefusal(a) = 0
  BY <1>2, RewritePasses
<1> QED
  BY <1>1, <1>2

\* A refused request has its answer, or is dropped without one.
LEMMA Refused ==
    ASSUME NEW s, Refuse(s)
    PROVE  (pc' = "dropped" /\ NoAnswer) \/ (pc' = "done" /\ Respond(s))
  BY DEF Refuse, Respond

\* The ways out of process.
LEMMA ProcessWays ==
    ASSUME Process
    PROVE  \/ UNCHANGED <<req, hdr, loc>> /\ \E s : s # 0 /\ Refuse(s)
           \/ /\ Refusal = 0 /\ Route(apply(req.path))
              /\ apply(req.path).flag = None \/ RewriteRefusal(apply(req.path)) = 0
<1> DEFINE a == apply(req.path)
           code == IF a.flag = "permanent" THEN 301 ELSE 302
<1> HIDE DEF a, code
<1>1. /\ CASE Refusal # 0 -> Refuse(Refusal) /\ UNCHANGED <<req, hdr, loc>>
           [] Refusal = 0 /\ Redirects(a) ->
                redirect_response(code) /\ UNCHANGED <<req, hdr, loc>>
           [] Refusal = 0 /\ ~Redirects(a) /\ a.flag # None /\ RewriteRefusal(a) # 0 ->
                Refuse(RewriteRefusal(a)) /\ UNCHANGED <<req, hdr, loc>>
           [] OTHER -> Route(a)
  BY DEF Process, a, code
<1>2. CASE Refusal # 0
  BY <1>1, <1>2
<1>3. CASE Refusal = 0 /\ Redirects(a)
  <2>1. redirect_response(code) /\ UNCHANGED <<req, hdr, loc>>
    BY <1>1, <1>3
  <2>2. PICK t \in {code, 500} : Respond(t)
    BY <2>1 DEF redirect_response
  <2>3. t # 0 /\ t # Panic
    BY DEF code, Panic
  <2> QED
    BY <2>1, <2>2, <2>3 DEF Refuse
<1>4. CASE Refusal = 0 /\ ~Redirects(a) /\ a.flag # None /\ RewriteRefusal(a) # 0
  BY <1>1, <1>4
<1>5. CASE Refusal = 0 /\ ~Redirects(a) /\ ~(a.flag # None /\ RewriteRefusal(a) # 0)
  BY <1>1, <1>5 DEF a
<1> QED
  BY <1>2, <1>3, <1>4, <1>5

LEMMA TypesNext == ASSUME Types, [Next]_vars PROVE Types'
<1>1. ASSUME UNCHANGED <<req, hdr, got>> PROVE Types'
  BY <1>1 DEF Types
<1>2. ASSUME Handle \/ AcceptH3 \/ BodyError \/ serve_file \/ Proxied \/ Connect \/ DialFails
              \/ DialSucceeds \/ Cancelled \/ Finished
      PROVE  Types'
  BY <1>2, <1>1 DEF Handle, AcceptH3, BodyError, serve_file, Proxied, Connect, DialFails, DialSucceeds,
                    Cancelled, Finished, vars
<1>3. ASSUME NEW n \in 1 .. MaxChunk, Chunk(n) PROVE Types'
  <2>1. got' \in {got, got + n} /\ UNCHANGED <<req, hdr>>
    BY <1>3 DEF Chunk
  <2>2. n \in Nat
    BY Limits
  <2> QED
    BY <2>1, <2>2 DEF Types
<1>4. ASSUME BodyEnd PROVE Types'
  <2>1. req' = req \/ req' = [req EXCEPT !.host = req.authority]
    BY <1>4 DEF BodyEnd, handle_h3
  <2>2. UNCHANGED <<hdr, got>>
    BY <1>4 DEF BodyEnd
  <2>3. req' \in Requests
    <3>1. req \in Requests
      BY DEF Types
    <3>2. req.authority \in STRING
      BY <3>1 DEF Requests
    <3>3. [req EXCEPT !.host = req.authority] \in Requests
      BY <3>1, <3>2 DEF Requests
    <3> QED
      BY <2>1, <3>1, <3>3
  <2> QED
    BY <2>2, <2>3 DEF Types
<1>5. ASSUME Process PROVE Types'
  <2>1. got' = got
    BY <1>5 DEF Process
  <2>2. CASE UNCHANGED <<req, hdr, loc>>
    BY <2>1, <2>2, <1>1
  <2>3. CASE /\ Route(apply(req.path))
             /\ apply(req.path).flag = None \/ RewriteRefusal(apply(req.path)) = 0
    <3>1. apply(req.path).to \in UriPaths
      BY <2>3, RoutedPath
    <3>2. req' = [req EXCEPT !.path = apply(req.path).to] /\ hdr' = stamp_geoip
      BY <2>3 DEF Route
    <3>3. req' \in Requests
      BY <3>1, <3>2 DEF Types, Requests
    <3>4. hdr' \in [Names -> {"client", "absent", "server"}]
      BY <3>2 DEF Types, stamp_geoip
    <3> QED
      BY <2>1, <3>3, <3>4 DEF Types
  <2> QED
    BY <1>5, <2>2, <2>3, ProcessWays
<1>6. ASSUME NEW answer \in Answers, ResolveTarget(answer) PROVE Types'
  BY <1>6, <1>1 DEF ResolveTarget
<1>7. CASE UNCHANGED vars
  BY <1>7, <1>1 DEF vars
<1> QED
  BY <1>2, <1>3, <1>4, <1>5, <1>6, <1>7 DEF Next

LEMMA TypesInit == Init => Types
<1> SUFFICES ASSUME Init PROVE Types
  OBVIOUS
<1>1. req \in Requests
  BY PipelineAssumption DEF Init
<1> QED
  BY <1>1 DEF Init, Types
-------------------------------------------------------------------------------
(* Answers and log lines. *)

\* Until there is an answer nothing has been logged, sent or opened.
Unanswered ==
    pc # "done" => got <= MaxBody /\ status = 0 /\ lines = 0 /\ sent = <<>> /\ tunnel = None

LEMMA Responds ==
    ASSUME Types, Unanswered, LoggedOnce, pc # "done", NEW s, s # 0, Respond(s), got' = got
    PROVE  Unanswered' /\ LoggedOnce'
<1>1. got <= MaxBody /\ ~(got > MaxBody)
  BY Limits DEF Unanswered, Types
<1> QED
  BY <1>1 DEF Unanswered, LoggedOnce, ServeHttp3Answers, Respond

LEMMA GoesOn ==
    ASSUME Unanswered, LoggedOnce, pc # "done", pc' # "done", NoAnswer, UNCHANGED <<got, sent, tunnel>>
    PROVE  Unanswered' /\ LoggedOnce'
  BY DEF Unanswered, LoggedOnce, ServeHttp3Answers, NoAnswer

LEMMA RouteAnswers ==
    ASSUME NEW a, Route(a)
    PROVE  (pc' \in {"static", "proxy"} /\ NoAnswer) \/ \E s \in {200, 301, 403, 404, 500, 501} : Respond(s)
<1>1. dispatch(loc')
  BY DEF Route
<1> QED
  BY <1>1 DEF dispatch, redirect_response

LEMMA LoggedNext == ASSUME Types, Unanswered, LoggedOnce, [Next]_vars PROVE Unanswered' /\ LoggedOnce'
<1>1. CASE Handle
  <2>1. pc = "new" /\ UNCHANGED <<got, sent, tunnel>>
    BY <1>1 DEF Handle
  <2>2. \/ pc' \in {"connect", "body", "dropped"} /\ NoAnswer
        \/ \E s : s # 0 /\ Respond(s)
    <3>1. \/ pc' \in {"connect", "body"} /\ NoAnswer
          \/ \E s : s # 0 /\ Respond(s)
          \/ security_checks # 0 /\ Refuse(security_checks)
      BY <1>1 DEF Handle, acme_challenge_response
    <3> QED
      BY <3>1, Refused
  <2> QED
    BY <2>1, <2>2, Responds, GoesOn
<1>2. CASE AcceptH3 \/ Cancelled
  BY <1>2, GoesOn DEF AcceptH3, Cancelled, NoAnswer
<1>3. CASE BodyError
  BY <1>3, GoesOn, Responds DEF BodyError
<1>4. CASE BodyEnd
  <2>1. pc = "body" /\ UNCHANGED <<got, sent, tunnel>>
    BY <1>4 DEF BodyEnd
  <2>2. (pc' = "process" /\ NoAnswer) \/ Respond(400)
    BY <1>4 DEF BodyEnd, handle_h3
  <2> QED
    BY <2>1, <2>2, Responds, GoesOn
<1>5. CASE Process
  <2>1. pc = "process" /\ UNCHANGED <<got, sent, tunnel>>
    BY <1>5 DEF Process
  <2>2. (pc' \in {"static", "proxy", "dropped"} /\ NoAnswer) \/ \E s : s # 0 /\ Respond(s)
    <3>1. CASE Route(apply(req.path))
      <4>1. \/ pc' \in {"static", "proxy"} /\ NoAnswer
            \/ \E s \in {200, 301, 403, 404, 500, 501} : Respond(s)
        BY <3>1, RouteAnswers
      <4> QED
        BY <4>1
    <3> QED
      BY <1>5, <3>1, ProcessWays, Refused
  <2> QED
    BY <2>1, <2>2, Responds, GoesOn
<1>6. CASE serve_file
  <2>1. pc = "static" /\ got' = got
    BY <1>6 DEF serve_file
  <2>2. PICK s \in {200, 400, 403, 404, 500} : Respond(s)
    BY <1>6 DEF serve_file
  <2> QED
    BY <2>1, <2>2, Responds
<1>7. CASE Proxied
  <2>1. pc = "proxy" /\ got' = got
    BY <1>7 DEF Proxied
  <2>2. (\E s \in {200, 502, 504} : Respond(s)) \/ (\E s \in {403, 502, 504} : Respond(s))
    BY <1>7 DEF Proxied
  <2> QED
    BY <2>1, <2>2, Responds
<1>8. CASE Connect
  <2>1. pc = "connect" /\ UNCHANGED <<got, sent, tunnel>>
    BY <1>8 DEF Connect
  <2>2. (pc' \in {"dial", "resolve"} /\ NoAnswer) \/ \E s : s # 0 /\ Respond(s)
    BY <1>8 DEF Connect
  <2> QED
    BY <2>1, <2>2, Responds, GoesOn
<1>9. CASE DialFails
  <2>1. pc = "dial" /\ UNCHANGED <<got, sent, tunnel>>
    BY <1>9 DEF DialFails
  <2>2. (pc' = "dial" /\ NoAnswer) \/ Respond(502)
    BY <1>9 DEF DialFails
  <2> QED
    BY <2>1, <2>2, Responds, GoesOn
<1>10. CASE DialSucceeds
  BY <1>10, Responds DEF DialSucceeds
<1>11. CASE Finished \/ UNCHANGED vars
  BY <1>11 DEF Finished, vars, Unanswered, LoggedOnce, ServeHttp3Answers
<1>12. ASSUME NEW n \in 1 .. MaxChunk, Chunk(n) PROVE Unanswered' /\ LoggedOnce'
  <2>1. pc = "body" /\ UNCHANGED <<req, sent, tunnel>> /\ n \in Nat
    BY <1>12, Limits DEF Chunk
  <2>2. CASE got + n <= MaxBody
    <3>1. got' = got + n /\ UNCHANGED <<pc, status, lines>>
      BY <1>12, <2>1, <2>2, Limits DEF Chunk, Types
    <3> QED
      BY <2>1, <2>2, <3>1 DEF Unanswered, LoggedOnce, ServeHttp3Answers
  <2>3. CASE got + n > MaxBody /\ req.proto = "h3"
    <3>1. got' = got + n /\ pc' = "done" /\ status' = 413 /\ UNCHANGED lines
      BY <1>12, <2>1, <2>3, Limits DEF Chunk, Types
    <3> QED
      BY <2>1, <2>3, <3>1 DEF Unanswered, LoggedOnce, ServeHttp3Answers
  <2>4. CASE got + n > MaxBody /\ req.proto # "h3"
    <3>1. Respond(413) /\ got' = got
      BY <1>12, <2>1, <2>4, Limits DEF Chunk, Types
    <3> QED
      BY <2>1, <3>1, Responds
  <2> QED
    BY <2>1, <2>2, <2>3, <2>4, Limits DEF Types
<1>13. ASSUME NEW answer \in Answers, ResolveTarget(answer) PROVE Unanswered' /\ LoggedOnce'
  <2>1. pc = "resolve" /\ UNCHANGED <<got, sent, tunnel>>
    BY <1>13 DEF ResolveTarget
  <2>2. (pc' = "dial" /\ NoAnswer) \/ Respond(403)
    BY <1>13 DEF ResolveTarget
  <2> QED
    BY <2>1, <2>2, Responds, GoesOn
<1> QED
  BY <1>1, <1>2, <1>3, <1>4, <1>5, <1>6, <1>7, <1>8, <1>9, <1>10, <1>11, <1>12, <1>13 DEF Next

(* Whatever way a request takes through handle, handle_h3 and process, and whichever check
   answers it: the answer of HandlerService is written to the access log once, with its status,
   and never before it is given. *)
THEOREM Logged == Spec => []LoggedOnce
<1>1. Init => Types /\ Unanswered /\ LoggedOnce
  BY TypesInit, Limits DEF Init, Unanswered, LoggedOnce, ServeHttp3Answers
<1>2. Types /\ Unanswered /\ LoggedOnce /\ [Next]_vars => (Types /\ Unanswered /\ LoggedOnce)'
  BY TypesNext, LoggedNext
<1> QED
  BY <1>1, <1>2, PTL DEF Spec
-------------------------------------------------------------------------------
(* Tunnels. *)
Vetted(a) == a \in Addrs /\ ip_allowed(a)

\* What has been checked when a tunnel's address is looked up and dialled.
Tunnelling ==
    /\ pc \in {"connect", "resolve", "dial"} => req.proto # "h3"
    /\ pc \in {"resolve", "dial"} => block.allow_connect /\ connect_target_permitted
    /\ pc = "dial" => vetted \in Seq(Addrs) /\ vetted # <<>> /\ \A i \in DOMAIN vetted : Vetted(vetted[i])

TInv == Types /\ (pc # "done" => tunnel = None) /\ Tunnelling /\ TunnelVetted

LEMMA ConnectPasses ==
    ASSUME Connect, Types
    PROVE  \/ UNCHANGED vetted /\ pc' = "done"
           \/ /\ block.allow_connect /\ connect_target_permitted
              /\ \/ pc' = "resolve"
                 \/ pc' = "dial" /\ vetted' = <<req.target.literal>> /\ Vetted(req.target.literal)
<1> DEFINE checks == <<
        <<~block.allow_connect, 405>>,
        <<req.target.name = None, 400>>,
        <<~req.target.port, 400>>,
        <<~connect_target_permitted, 403>>,
        <<req.target.literal # None /\ ~ip_allowed(req.target.literal), 403>> >>
     refusal == FirstFailure(checks)
<1> HIDE DEF refusal
<1>1. /\ CASE refusal # 0 -> Respond(refusal) /\ UNCHANGED vetted
           [] refusal = 0 /\ req.target.literal # None ->
                    vetted' = <<req.target.literal>> /\ pc' = "dial" /\ NoAnswer
           [] OTHER -> pc' = "resolve" /\ NoAnswer /\ UNCHANGED vetted
  BY DEF Connect, refusal
<1>2. CASE refusal # 0
  BY <1>1, <1>2 DEF Respond
<1>3. CASE refusal = 0
  <2>1. DOMAIN checks = 1 .. 5
    OBVIOUS
  <2>2. \A i \in 1 .. 5 : checks[i][2] # 0
    OBVIOUS
  <2>3. ~checks[1][1] /\ ~checks[4][1] /\ ~checks[5][1]
    <3> HIDE DEF checks
    <3>1. \A i \in 1 .. 5 : ~checks[i][1]
      BY <1>3, <2>1, <2>2, AllPass DEF refusal
    <3> QED
      BY <3>1
  <2>4. block.allow_connect /\ connect_target_permitted
        /\ (req.target.literal # None => ip_allowed(req.target.literal))
    BY <2>3
  <2>5. req.target.literal \in Addrs \cup {None}
    BY DEF Types, Requests
  <2> QED
    BY <1>1, <1>3, <2>4, <2>5 DEF Vetted
<1> QED
  BY <1>2, <1>3

LEMMA TunnelNext == ASSUME TInv, [Next]_vars PROVE TInv'
<1> USE DEF TInv
<1>0. Types'
  BY TypesNext
<1>1. ASSUME pc # "done", UNCHANGED tunnel, pc' \notin {"connect", "resolve", "dial"} PROVE TInv'
  BY <1>0, <1>1 DEF Tunnelling, TunnelVetted
<1>2. ASSUME UNCHANGED <<block, req>>
      PROVE  connect_target_permitted' = connect_target_permitted /\ \A a : Vetted(a) => (Vetted(a))'
  BY <1>2 DEF connect_target_permitted, Vetted, ip_allowed
<1>3. CASE Handle
  <2>1. pc = "new" /\ req.proto # "h3" /\ UNCHANGED <<tunnel, req>>
    BY <1>3 DEF Handle
  <2>2. pc' \in {"connect", "body", "done", "dropped"}
    BY <1>3 DEF Handle, acme_challenge_response, Refuse, Respond
  <2> QED
    BY <1>0, <2>1, <2>2 DEF Tunnelling, TunnelVetted
<1>4. CASE AcceptH3 \/ Cancelled \/ BodyError
  BY <1>4, <1>1 DEF AcceptH3, Cancelled, BodyError, Respond
<1>5. CASE BodyEnd
  BY <1>5, <1>1 DEF BodyEnd, handle_h3, Respond
<1>6. CASE Process
  <2>1. pc = "process" /\ UNCHANGED tunnel
    BY <1>6 DEF Process
  <2>2. pc' \in {"done", "dropped", "static", "proxy"}
    <3>1. CASE Route(apply(req.path))
      BY <3>1, RouteAnswers DEF Respond
    <3> QED
      BY <1>6, <3>1, ProcessWays, Refused
  <2> QED
    BY <2>1, <2>2, <1>1
<1>7. CASE serve_file
  BY <1>7, <1>1 DEF serve_file, Respond
<1>8. CASE Proxied
  <2>1. pc = "proxy" /\ UNCHANGED tunnel /\ pc' = "done"
    BY <1>8 DEF Proxied, Respond
  <2> QED
    BY <2>1, <1>1
<1>9. CASE Connect
  <2>1. pc = "connect" /\ UNCHANGED <<block, req, tunnel>>
    BY <1>9 DEF Connect
  <2>2. CASE pc' = "done"
    BY <2>1, <2>2, <1>1
  <2>3. CASE /\ block.allow_connect /\ connect_target_permitted
             /\ \/ pc' = "resolve"
                \/ pc' = "dial" /\ vetted' = <<req.target.literal>> /\ Vetted(req.target.literal)
    <3>1. pc' = "dial" => vetted' \in Seq(Addrs) /\ vetted' # <<>> /\ \A i \in DOMAIN vetted' : Vetted(vetted'[i])
      <4> DEFINE l == req.target.literal
      <4> SUFFICES ASSUME pc' = "dial"
                   PROVE  vetted' \in Seq(Addrs) /\ vetted' # <<>> /\ \A i \in DOMAIN vetted' : Vetted(vetted'[i])
        OBVIOUS
      <4>1. vetted' = <<l>> /\ Vetted(l) /\ l \in Addrs
        BY <2>3 DEF Vetted
      <4> HIDE DEF l
      <4>2. vetted' \in Seq(Addrs) /\ vetted' # <<>> /\ DOMAIN vetted' = {1} /\ vetted'[1] = l
        BY <4>1
      <4> QED
        BY <4>1, <4>2
    <3> QED
      BY <1>0, <1>2, <2>1, <2>3, <3>1 DEF Tunnelling, TunnelVetted
  <2> QED
    BY <1>9, <2>2, <2>3, ConnectPasses
<1>10. ASSUME NEW answer \in Answers, ResolveTarget(answer) PROVE TInv'
  <2>1. pc = "resolve" /\ UNCHANGED <<block, req, tunnel>>
    BY <1>10 DEF ResolveTarget
  <2>2. CASE answer = <<>> \/ \E i \in DOMAIN answer : ~ip_allowed(answer[i])
    BY <1>10, <2>1, <2>2, <1>1 DEF ResolveTarget, Respond
  <2>3. CASE answer # <<>> /\ \A i \in DOMAIN answer : ip_allowed(answer[i])
    <3>1. vetted' = answer /\ pc' = "dial"
      BY <1>10, <2>3 DEF ResolveTarget
    <3>2. answer \in Seq(Addrs)
      <4>1. CASE \E a \in Addrs : answer = <<a>>
        BY <4>1
      <4>2. CASE \E a, b \in Addrs : answer = <<a, b>>
        BY <4>2
      <4> QED
        BY <2>3, <4>1, <4>2 DEF Answers
    <3>3. \A i \in DOMAIN answer : Vetted(answer[i])
      BY <2>3, <3>2 DEF Vetted
    <3> QED
      BY <1>0, <1>2, <2>1, <2>3, <3>1, <3>2, <3>3 DEF Tunnelling, TunnelVetted
  <2> QED
    BY <2>2, <2>3
<1>11. CASE DialFails
  <2>1. pc = "dial" /\ UNCHANGED <<block, req, tunnel>> /\ vetted' = Tail(vetted)
    BY <1>11 DEF DialFails
  <2>2. CASE Tail(vetted) = <<>>
    BY <1>11, <2>1, <2>2, <1>1 DEF DialFails, Respond
  <2>3. CASE Tail(vetted) # <<>>
    <3>1. pc' = "dial"
      BY <1>11, <2>1, <2>3 DEF DialFails
    <3>2. Tail(vetted) \in Seq(Addrs) /\ \A i \in DOMAIN Tail(vetted) : Vetted(Tail(vetted)[i])
      BY <2>1 DEF Tunnelling
    <3> QED
      BY <1>0, <1>2, <2>1, <2>3, <3>1, <3>2 DEF Tunnelling, TunnelVetted
  <2> QED
    BY <2>2, <2>3
<1>12. CASE DialSucceeds
  <2>1. pc = "dial" /\ UNCHANGED <<block, req>> /\ tunnel' = Head(vetted) /\ pc' = "done"
    BY <1>12 DEF DialSucceeds, Respond
  <2>2. Vetted(Head(vetted))
    BY <2>1 DEF Tunnelling
  <2>3. tunnel' = "public" \/ tunnel' \in block.networks \/ "private" \in block.networks
    BY <2>1, <2>2 DEF Vetted, ip_allowed, is_restricted, canonical, Addrs
  <2> QED
    BY <1>0, <1>2, <2>1, <2>3 DEF Tunnelling, TunnelVetted
<1>13. ASSUME NEW n \in 1 .. MaxChunk, Chunk(n) PROVE TInv'
  BY <1>13, <1>1 DEF Chunk, Respond
<1>14. CASE Finished \/ UNCHANGED vars
  <2>1. UNCHANGED vars
    BY <1>14 DEF Finished
  <2> QED
    BY <1>0, <1>2, <2>1 DEF vars, Tunnelling, TunnelVetted
<1> QED
  BY <1>3, <1>4, <1>5, <1>6, <1>7, <1>8, <1>9, <1>10, <1>11, <1>12, <1>13, <1>14 DEF Next

(* No tunnel is opened to an address that was not judged, for any list of targets and
   networks: handle_connect checks a literal itself and resolve_checked all the answers,
   and only those are dialled. *)
THEOREM Tunnels == Spec => []TunnelVetted
<1>1. Init => TInv
  BY TypesInit DEF Init, TInv, Tunnelling, TunnelVetted
<1>2. TInv /\ [Next]_vars => TInv'
  BY TunnelNext
<1>3. TInv => TunnelVetted
  BY DEF TInv
<1> QED
  BY <1>1, <1>2, <1>3, PTL DEF Spec
-------------------------------------------------------------------------------
(* Headers that go upstream. *)

\* What is left of the client's headers, before and after the policy is applied.
LEMMA HeadersAre ==
    ASSUME Types
    PROVE  LET gone == (req.nominated \ NOMINATION_EXEMPT) \cup HOP_BY_HOP \cup {"content-length"}
               h == [n \in Names |-> IF n \in gone THEN "absent" ELSE hdr[n]]
               base == IF block.trusted THEN h ELSE [n \in Names |-> IF n \in ATTRIBUTION THEN "absent" ELSE h[n]]
           IN  UpstreamHeaders = IF block.normalize
                                 THEN [n \in Names |->
                                         IF n = "x-forwarded-for"
                                         THEN IF base[n] = "client" THEN "client, server" ELSE "server"
                                         ELSE IF n \in {"x-real-ip", "x-forwarded-proto"}
                                         THEN IF base[n] = "client" THEN base[n] ELSE "server"
                                         ELSE IF n = "x-forwarded-host"
                                         THEN IF base[n] = "client" \/ req.host = None THEN base[n] ELSE "server"
                                         ELSE base[n]]
                                 ELSE h
<1> DEFINE gone == (req.nominated \ NOMINATION_EXEMPT) \cup HOP_BY_HOP \cup {"content-length"}
           h == [n \in Names |-> IF n \in gone THEN "absent" ELSE hdr[n]]
           base == IF block.trusted THEN h ELSE [n \in Names |-> IF n \in ATTRIBUTION THEN "absent" ELSE h[n]]
<1>1. Without(strip_hop_by_hop(hdr), {"content-length"}) = h
  BY DEF Without, strip_hop_by_hop
<1>2. base = IF block.trusted THEN h ELSE Without(h, ATTRIBUTION)
  BY DEF Without
<1> HIDE DEF h
<1>3. base \in [Names -> {base[n] : n \in Names}]
  BY DEF h
<1> HIDE DEF base
<1>4. {"x-forwarded-for", "x-real-ip", "x-forwarded-proto", "x-forwarded-host"} \subseteq Names
  BY DEF Names, ATTRIBUTION
<1>5. apply_forwarding_policy(h) = [base EXCEPT
            !["x-forwarded-for"] = IF @ = "client" THEN "client, server" ELSE "server",
            !["x-real-ip"] = IF @ = "client" THEN @ ELSE "server",
            !["x-forwarded-proto"] = IF @ = "client" THEN @ ELSE "server",
            !["x-forwarded-host"] = IF @ = "client" \/ req.host = None THEN @ ELSE "server"]
  BY <1>2 DEF apply_forwarding_policy
<1>6. apply_forwarding_policy(h) = [n \in Names |->
                                         IF n = "x-forwarded-for"
                                         THEN IF base[n] = "client" THEN "client, server" ELSE "server"
                                         ELSE IF n \in {"x-real-ip", "x-forwarded-proto"}
                                         THEN IF base[n] = "client" THEN base[n] ELSE "server"
                                         ELSE IF n = "x-forwarded-host"
                                         THEN IF base[n] = "client" \/ req.host = None THEN base[n] ELSE "server"
                                         ELSE base[n]]
  BY <1>3, <1>4, <1>5
<1>7. UpstreamHeaders = IF block.normalize THEN apply_forwarding_policy(h) ELSE h
  BY <1>1 DEF UpstreamHeaders
<1> QED
  BY <1>6, <1>7 DEF base, h

LEMMA SentClean ==
    ASSUME Types, hdr["x-geoip-country"] # "client", sent' = UpstreamRequest, UNCHANGED <<block, req>>
    PROVE  HeadersStripped' /\ AttributionHonest'
<1>1. sent'.hdr = UpstreamHeaders /\ (req.host # None => sent'.host = req.host)
  BY DEF UpstreamRequest
<1>2. /\ \A n \in HOP_BY_HOP \cup {"content-length"} : UpstreamHeaders[n] = "absent"
      /\ \A n \in (req.nominated \ NOMINATION_EXEMPT) \cap Names : UpstreamHeaders[n] \in {"absent", "server"}
  BY HeadersAre DEF Names, HOP_BY_HOP, NOMINATION_EXEMPT, ATTRIBUTION
<1>3. UpstreamHeaders["x-geoip-country"] # "client"
  BY HeadersAre DEF Names, ATTRIBUTION
<1>4. ASSUME block.normalize
      PROVE  /\ UpstreamHeaders["x-forwarded-for"] \in {"server", "client, server"}
             /\ ~block.trusted => /\ UpstreamHeaders["x-forwarded-for"] = "server"
                                  /\ \A n \in ATTRIBUTION : UpstreamHeaders[n] # "client"
  BY <1>4, HeadersAre DEF Names, ATTRIBUTION
<1> QED
  BY <1>1, <1>2, <1>3, <1>4 DEF HeadersStripped, AttributionHonest

HInv ==
    /\ Types /\ HeadersStripped /\ AttributionHonest
    /\ pc # "done" => sent = <<>>
    /\ pc = "proxy" => hdr["x-geoip-country"] # "client"

LEMMA HeadersNext == ASSUME HInv, [Next]_vars PROVE HInv'
<1> USE DEF HInv
<1>0. Types'
  BY TypesNext
<1>1. ASSUME pc # "done", UNCHANGED sent, pc' # "proxy" PROVE HInv'
  BY <1>0, <1>1 DEF HeadersStripped, AttributionHonest
<1>2. CASE Handle
  BY <1>1, <1>2 DEF Handle, acme_challenge_response, Refuse, Respond
<1>3. CASE AcceptH3 \/ Cancelled \/ BodyError
  BY <1>3, <1>1 DEF AcceptH3, Cancelled, BodyError, Respond
<1>4. CASE BodyEnd
  BY <1>4, <1>1 DEF BodyEnd, handle_h3, Respond
<1>5. CASE Process
  <2>1. pc = "process" /\ UNCHANGED sent
    BY <1>5 DEF Process
  <2>2. CASE \E s : Refuse(s)
    BY <2>1, <2>2, <1>1, Refused
  <2>3. CASE Route(apply(req.path))
    <3>1. hdr'["x-geoip-country"] # "client"
      BY <2>3 DEF Route, stamp_geoip, Types, Names
    <3> QED
      BY <1>0, <2>1, <3>1 DEF HeadersStripped, AttributionHonest
  <2> QED
    BY <1>5, <2>2, <2>3, ProcessWays
<1>6. CASE serve_file
  BY <1>6, <1>1 DEF serve_file, Respond
<1>7. CASE Proxied
  <2>1. pc = "proxy" /\ pc' = "done" /\ UNCHANGED <<block, req>>
    BY <1>7 DEF Proxied, Respond
  <2>2. CASE UNCHANGED sent
    BY <2>1, <2>2, <1>1
  <2>3. CASE sent' = UpstreamRequest
    BY <1>0, <2>1, <2>3, SentClean
  <2> QED
    BY <1>7, <2>2, <2>3 DEF Proxied
<1>8. CASE Connect
  <2>1. pc = "connect" /\ UNCHANGED sent
    BY <1>8 DEF Connect
  <2>2. pc' # "proxy"
    BY <1>8, ConnectPasses
  <2> QED
    BY <2>1, <2>2, <1>1
<1>9. ASSUME NEW answer \in Answers, ResolveTarget(answer) PROVE HInv'
  BY <1>9, <1>1 DEF ResolveTarget, Respond
<1>10. CASE DialFails \/ DialSucceeds
  BY <1>10, <1>1 DEF DialFails, DialSucceeds, Respond
<1>11. ASSUME NEW n \in 1 .. MaxChunk, Chunk(n) PROVE HInv'
  BY <1>11, <1>1 DEF Chunk, Respond
<1>12. CASE Finished \/ UNCHANGED vars
  <2>1. UNCHANGED vars
    BY <1>12 DEF Finished
  <2> QED
    BY <1>0, <2>1 DEF vars, HeadersStripped, AttributionHonest
<1> QED
  BY <1>2, <1>3, <1>4, <1>5, <1>6, <1>7, <1>8, <1>9, <1>10, <1>11, <1>12 DEF Next

LEMMA HeadersInvariant == Spec => []HInv
<1>1. Init => HInv
  BY TypesInit DEF Init, HInv, HeadersStripped, AttributionHonest
<1>2. HInv /\ [Next]_vars => HInv'
  BY HeadersNext
<1> QED
  BY <1>1, <1>2, PTL DEF Spec

(* Whatever the client lists in Connection: forward strips before it stamps, so what goes
   upstream holds none of the headers it named with the client's value. *)
THEOREM Stripped == Spec => []HeadersStripped
<1>1. HInv => HeadersStripped
  BY DEF HInv
<1> QED
  BY <1>1, HeadersInvariant, PTL

(* Whatever headers the client sends and names: the attribution of apply_forwarding_policy
   and stamp_geoip reaches the upstream. *)
THEOREM Attribution == Spec => []AttributionHonest
<1>1. HInv => AttributionHonest
  BY DEF HInv
<1> QED
  BY <1>1, HeadersInvariant, PTL
-------------------------------------------------------------------------------
(* What handlers get. *)
Agrees == (req.proto = "h3" /\ req.authority # None) => req.host \in {"", req.authority}

CInv == Types /\ DispatchedClean /\ (pc = "process" => Agrees)

\* What process lets through is clean.
LEMMA RouteClean ==
    ASSUME Types, Agrees, Refusal = 0, Route(apply(req.path)), UNCHANGED block,
           apply(req.path).flag = None \/ RewriteRefusal(apply(req.path)) = 0
    PROVE  DispatchedClean'
<1> DEFINE a == apply(req.path)
<1>1. security_checks = 0 /\ validate_host(req.host) /\ req.method = "GET"
  BY RefusalPasses DEF check_method_allowed
<1>2. /\ ~req.big /\ validate_uri(req.path) = 0
      /\ ~(block.reject_ambiguous_framing /\ req.lengths # <<>> /\ (req.te \/ Len(req.lengths) > 1))
  BY <1>1, SecurityPasses
<1>3. validate_uri(a.to) = 0 /\ a.to \in UriPaths
  <2>1. CASE a.flag = None
    BY <1>2, <2>1, ApplyFlag, RoutedPath
  <2>2. CASE RewriteRefusal(a) = 0
    BY <2>2, RewritePasses
  <2> QED
    BY <2>1, <2>2
<1> HIDE DEF a
<1>4. req' = [req EXCEPT !.path = a.to]
  BY DEF Route, a
<1>5. /\ req'.path = a.to /\ req'.host = req.host /\ req'.method = req.method /\ req'.big = req.big
      /\ req'.lengths = req.lengths /\ req'.proto = req.proto /\ req'.authority = req.authority
  BY <1>4 DEF Types, Requests
<1>6. block.reject_ambiguous_framing => Len(req.lengths) <= 1
  <2>1. req.lengths \in Seq(Int)
    BY DEF Types, Requests
  <2>2. req.lengths = <<>> => Len(req.lengths) = 0
    OBVIOUS
  <2> QED
    BY <1>2, <2>1, <2>2
<1>7. validate_host("") => block.host_header_policy = "any"
  BY PipelineAssumption DEF validate_host
<1>8. (req.proto = "h3" /\ req.authority # None) =>
          req.host = req.authority \/ (req.host = "" /\ block.host_header_policy = "any")
  BY <1>1, <1>7 DEF Agrees
<1>9. (validate_host(req.host))' /\ (validate_uri(req.path) = 0)'
  BY <1>1, <1>3, <1>5 DEF validate_host, validate_uri
<1> QED
  BY <1>1, <1>2, <1>3, <1>5, <1>6, <1>8, <1>9 DEF DispatchedClean, validate_host, validate_uri

LEMMA CleanNext == ASSUME CInv, [Next]_vars PROVE CInv'
<1> USE DEF CInv
<1>0. Types'
  BY TypesNext
<1>1. ASSUME pc' \notin {"process", "static", "proxy"} PROVE CInv'
  BY <1>0, <1>1 DEF DispatchedClean, Handled
<1>2. CASE Handle
  BY <1>1, <1>2 DEF Handle, acme_challenge_response, Refuse, Respond
<1>3. CASE AcceptH3 \/ Cancelled \/ BodyError
  BY <1>3, <1>1 DEF AcceptH3, Cancelled, BodyError, Respond
<1>4. CASE BodyEnd
  <2>1. pc' = "done" \/ (pc' = "process" /\ Agrees')
    <3>1. CASE req.proto # "h3"
      <4>1. pc' = "process" /\ req' = req
        BY <1>4, <3>1 DEF BodyEnd
      <4> QED
        BY <3>1, <4>1 DEF Agrees
    <3>2. CASE req.proto = "h3" /\ req.authority # None /\ req.host \notin {None, "", req.authority}
      BY <1>4, <3>2 DEF BodyEnd, handle_h3, Respond
    <3>3. CASE req.proto = "h3" /\ req.authority # None /\ req.host = None
      <4>1. pc' = "process" /\ req' = [req EXCEPT !.host = req.authority]
        BY <1>4, <3>3 DEF BodyEnd, handle_h3, None
      <4>2. req'.host = req.authority /\ req'.authority = req.authority
        BY <4>1 DEF Types, Requests
      <4> QED
        BY <4>1, <4>2 DEF Agrees
    <3>4. CASE req.proto = "h3" /\ (req.authority = None \/ req.host \in {"", req.authority} \ {None})
      <4>1. pc' = "process" /\ req' = req
        BY <1>4, <3>4 DEF BodyEnd, handle_h3
      <4> QED
        BY <3>4, <4>1 DEF Agrees
    <3> QED
      BY <3>1, <3>2, <3>3, <3>4
  <2> QED
    BY <1>0, <1>1, <2>1 DEF DispatchedClean, Handled
<1>5. CASE Process
  <2>1. pc = "process" /\ UNCHANGED block
    BY <1>5 DEF Process
  <2>2. CASE \E s : Refuse(s)
    BY <2>2, <1>1, Refused
  <2>3. CASE /\ Refusal = 0 /\ Route(apply(req.path))
             /\ apply(req.path).flag = None \/ RewriteRefusal(apply(req.path)) = 0
    <3>1. DispatchedClean'
      BY <2>1, <2>3, RouteClean
    <3>2. pc' # "process"
      BY <2>3, RouteAnswers DEF Respond
    <3> QED
      BY <1>0, <3>1, <3>2
  <2> QED
    BY <1>5, <2>2, <2>3, ProcessWays
<1>6. CASE serve_file
  BY <1>6, <1>1 DEF serve_file, Respond
<1>7. CASE Proxied
  <2>1. pc' = "done"
    BY <1>7 DEF Proxied, Respond
  <2> QED
    BY <2>1, <1>1
<1>8. CASE Connect
  <2>1. pc' \notin {"process", "static", "proxy"}
    BY <1>8, ConnectPasses
  <2> QED
    BY <2>1, <1>1
<1>9. ASSUME NEW answer \in Answers, ResolveTarget(answer) PROVE CInv'
  BY <1>9, <1>1 DEF ResolveTarget, Respond
<1>10. CASE DialFails \/ DialSucceeds
  BY <1>10, <1>1 DEF DialFails, DialSucceeds, Respond
<1>11. ASSUME NEW n \in 1 .. MaxChunk, Chunk(n) PROVE CInv'
  BY <1>11, <1>1 DEF Chunk, Respond
<1>12. CASE Finished \/ UNCHANGED vars
  <2>1. UNCHANGED vars
    BY <1>12 DEF Finished
  <2> QED
    BY <1>0, <2>1 DEF vars, DispatchedClean, Handled, validate_host, validate_uri, Agrees
<1> QED
  BY <1>2, <1>3, <1>4, <1>5, <1>6, <1>7, <1>8, <1>9, <1>10, <1>11, <1>12 DEF Next

(* Whatever the rewrite rules make of a path and by whichever protocol a request comes, no
   file or proxy handler gets one that process has not judged in that form. *)
THEOREM Clean == Spec => []DispatchedClean
<1>1. Init => CInv
  BY TypesInit DEF Init, CInv, DispatchedClean, Handled
<1>2. CInv /\ [Next]_vars => CInv'
  BY CleanNext
<1>3. CInv => DispatchedClean
  BY DEF CInv
<1> QED
  BY <1>1, <1>2, <1>3, PTL DEF Spec
-------------------------------------------------------------------------------
(* The sizes of bodies. *)

\* What an integer ratio lets through.
LEMMA DivBound ==
    ASSUME NEW x \in Int, NEW g \in Nat, g > 0, NEW R \in Nat, x \div g <= R
    PROVE  x < (R + 1) * g
<1> DEFINE q == x \div g
<1>1. q \in Int /\ x = g * q + (x % g) /\ x % g < g
  OBVIOUS
<1> HIDE DEF q
<1>2. g * q <= g * R
  <2>1. q <= R
    BY DEF q
  <2> QED
    BY <1>1, <2>1
<1>3. (R + 1) * g = g * R + g
  OBVIOUS
<1>4. x % g \in Int /\ g * q \in Int /\ g * R \in Int
  BY <1>1
<1> QED
  BY <1>1, <1>2, <1>3, <1>4

\* What process makes of a body it does not refuse.
LEMMA InflatedBody ==
    ASSUME Types, Refusal = 0, body' = IF Refusal = 0 /\ Inflates THEN Inflated ELSE got
    PROVE  body' = got \/ (body' <= MaxSize /\ body' < (MaxRatio + 1) * got)
<1>1. ~Oversized
  BY RefusalPasses
<1>2. CASE ~Inflates
  BY <1>2
<1>3. CASE Inflates
  <2>1. MaxSize \in Nat /\ MaxRatio \in Nat /\ got \in Nat /\ got > 0 /\ Inflated \in Int
    <3>1. MaxSize \in Nat /\ MaxRatio \in Nat
      BY PipelineAssumption
    <3>2. req.inflated \in Int /\ got \in Nat
      BY DEF Types, Requests
    <3> QED
      BY <1>3, <3>1, <3>2 DEF Inflates, Inflated
  <2>2. ~(Inflated > MaxSize) /\ ~(Inflated \div got > MaxRatio)
    BY <1>1, <1>3 DEF Oversized
  <2>3. Inflated <= MaxSize /\ Inflated \div got <= MaxRatio
    BY <2>1, <2>2
  <2>4. Inflated < (MaxRatio + 1) * got
    BY <2>1, <2>3, DivBound
  <2> QED
    BY <1>3, <2>3, <2>4
<1> QED
  BY <1>2, <1>3

BInv == Types /\ (pc # "done" => got <= MaxBody) /\ BodyBounded

LEMMA BodyNext == ASSUME BInv, [Next]_vars PROVE BInv'
<1> USE DEF BInv
<1>0. Types' /\ got \in Nat
  BY TypesNext DEF Types
<1>1. ASSUME pc # "done", UNCHANGED got, pc' \notin {"static", "proxy"} PROVE BInv'
  BY <1>0, <1>1 DEF BodyBounded, Handled
<1>2. CASE Handle
  BY <1>1, <1>2 DEF Handle, acme_challenge_response, Refuse, Respond
<1>3. CASE AcceptH3 \/ Cancelled \/ BodyError
  BY <1>3, <1>1 DEF AcceptH3, Cancelled, BodyError, Respond
<1>4. CASE BodyEnd
  BY <1>4, <1>1 DEF BodyEnd, handle_h3, Respond
<1>5. CASE Process
  <2>1. /\ pc = "process" /\ UNCHANGED got
        /\ body' = IF Refusal = 0 /\ Inflates THEN Inflated ELSE got
    BY <1>5 DEF Process
  <2>2. CASE \E s : Refuse(s)
    BY <2>1, <2>2, <1>1, Refused
  <2>3. CASE Refusal = 0 /\ Route(apply(req.path))
    <3>1. body' = got \/ (body' <= MaxSize /\ body' < (MaxRatio + 1) * got)
      BY <2>1, <2>3, InflatedBody
    <3> QED
      BY <1>0, <2>1, <3>1 DEF BodyBounded
  <2> QED
    BY <1>5, <2>2, <2>3, ProcessWays
<1>6. CASE serve_file
  BY <1>6, <1>1 DEF serve_file, Respond
<1>7. CASE Proxied
  <2>1. pc = "proxy" /\ pc' = "done" /\ UNCHANGED got
    BY <1>7 DEF Proxied, Respond
  <2> QED
    BY <2>1, <1>1
<1>8. CASE Connect
  <2>1. pc = "connect" /\ UNCHANGED got
    BY <1>8 DEF Connect
  <2>2. pc' \notin {"static", "proxy"}
    BY <1>8, ConnectPasses
  <2> QED
    BY <2>1, <2>2, <1>1
<1>9. ASSUME NEW answer \in Answers, ResolveTarget(answer) PROVE BInv'
  BY <1>9, <1>1 DEF ResolveTarget, Respond
<1>10. CASE DialFails \/ DialSucceeds
  BY <1>10, <1>1 DEF DialFails, DialSucceeds, Respond
<1>11. ASSUME NEW n \in 1 .. MaxChunk, Chunk(n) PROVE BInv'
  <2>1. pc = "body" /\ UNCHANGED req /\ n \in Nat /\ n <= MaxChunk /\ got <= MaxBody
    BY <1>11, Limits DEF Chunk
  <2>2. CASE got + n <= MaxBody
    <3>1. got' = got + n /\ pc' = "body"
      BY <1>11, <1>0, <2>1, <2>2, Limits DEF Chunk
    <3> QED
      BY <1>0, <2>1, <2>2, <3>1 DEF BodyBounded, Handled
  <2>3. CASE got + n > MaxBody /\ req.proto = "h3"
    <3>1. got' = got + n /\ pc' = "done"
      BY <1>11, <1>0, <2>1, <2>3, Limits DEF Chunk
    <3> QED
      BY <1>0, <2>1, <2>3, <3>1, Limits DEF BodyBounded, Handled
  <2>4. CASE got + n > MaxBody /\ req.proto # "h3"
    <3>1. got' = got /\ pc' = "done"
      BY <1>11, <1>0, <2>1, <2>4, Limits DEF Chunk, Respond
    <3> QED
      BY <2>1, <3>1, <1>1
  <2> QED
    BY <1>0, <2>1, <2>2, <2>3, <2>4, Limits
<1>12. CASE Finished \/ UNCHANGED vars
  <2>1. UNCHANGED vars
    BY <1>12 DEF Finished
  <2> QED
    BY <1>0, <2>1 DEF vars, BodyBounded, Handled
<1> QED
  BY <1>2, <1>3, <1>4, <1>5, <1>6, <1>7, <1>8, <1>9, <1>10, <1>11, <1>12 DEF Next

(* However a body is framed, cut into chunks and compressed, for all limits: Limited,
   serve_http3 and maybe_decompress keep it within its bounds. *)
THEOREM Bounded == Spec => []BodyBounded
<1>1. Init => BInv
  BY TypesInit, Limits DEF Init, BInv, BodyBounded, Handled
<1>2. BInv /\ [Next]_vars => BInv'
  BY BodyNext
<1>3. BInv => BodyBounded
  BY DEF BInv
<1> QED
  BY <1>1, <1>2, <1>3, PTL DEF Spec
-------------------------------------------------------------------------------
(* Locations. *)

\* The locations of the block the request is for.
Listed ==
    /\ Len(block.locations) \in Nat
    /\ DOMAIN block.locations = 1 .. Len(block.locations)
    /\ \A i \in DOMAIN block.locations : block.locations[i].len \in Nat

\* The equation that defines looked(p) has a solution, so looked(p) solves it.
LEMMA LookedDef ==
    ASSUME Listed, NEW p
    PROVE  looked(p) = [i \in 0 .. Len(block.locations) |->
                           IF i = 0 THEN [at |-> 0, len |-> 0, final |-> FALSE]
                                    ELSE look(looked(p)[i - 1], i, p)]
<1> DEFINE None0 == [at |-> 0, len |-> 0, final |-> FALSE]
           Looks(g, n) == [m \in 0 .. n |-> IF m = 0 THEN None0 ELSE look(g[m - 1], m, p)]
           Solved == {n \in Nat : \E g : g = Looks(g, n)}
<1>1. 0 \in Solved
  <2> DEFINE g == [m \in 0 .. 0 |-> None0]
  <2>1. g = Looks(g, 0)
    OBVIOUS
  <2> QED
    BY <2>1
<1>2. ASSUME NEW n \in Nat, n \in Solved PROVE n + 1 \in Solved
  <2>1. PICK g : g = Looks(g, n)
    BY <1>2
  <2> HIDE DEF None0
  <2> DEFINE h == [m \in 0 .. n + 1 |-> IF m = n + 1 THEN look(g[n], n + 1, p) ELSE g[m]]
  <2>2. ASSUME NEW m \in 0 .. n + 1 PROVE h[m] = IF m = 0 THEN None0 ELSE look(h[m - 1], m, p)
    <3>1. CASE m = n + 1
      <4>1. m # 0 /\ m - 1 = n /\ h[m - 1] = g[n]
        BY <3>1
      <4> QED
        BY <3>1, <4>1
    <3>2. CASE m # n + 1
      <4>1. m \in 0 .. n
        BY <3>2
      <4>2. g[m] = IF m = 0 THEN None0 ELSE look(g[m - 1], m, p)
        BY <2>1, <4>1
      <4>3. h[m] = g[m] /\ (m # 0 => h[m - 1] = g[m - 1])
        BY <4>1
      <4> QED
        BY <4>2, <4>3
    <3> QED
      BY <3>1, <3>2
  <2>3. h = Looks(h, n + 1)
    BY <2>2
  <2>4. \E f : f = Looks(f, n + 1)
    <3> HIDE DEF h
    <3> QED
      BY <2>3
  <2> HIDE DEF Looks
  <2> QED
    BY <2>4
<1>3. Len(block.locations) \in Solved
  <2>1. Solved \in SUBSET Nat
    OBVIOUS
  <2>2. Len(block.locations) \in Nat
    BY DEF Listed
  <2> HIDE DEF Solved
  <2> QED
    BY <1>1, <1>2, <2>1, <2>2, SetInduction
<1>4. \E g : g = Looks(g, Len(block.locations))
  BY <1>3
<1>5. looked(p) = CHOOSE g : g = Looks(g, Len(block.locations))
  BY DEF looked
<1> QED
  BY <1>4, <1>5

Hit(p, i) == p \in block.locations[i].paths
Direct(p, i) == Hit(p, i) /\ block.locations[i].match_type # "prefix"

\* What the pass knows after the first n locations: it has stopped at the first
\* exact or regex match, or has met none and remembers the first of the longest prefixes.
Knows(acc, n, p) ==
    LET L == block.locations IN
    /\ acc.len \in Nat /\ acc.at \in 0 .. n
    /\ acc.final => /\ acc.at # 0 /\ Direct(p, acc.at)
                    /\ \A i \in 1 .. n : Direct(p, i) => acc.at <= i
    /\ ~acc.final => /\ \A i \in 1 .. n : ~Direct(p, i)
                     /\ \A i \in 1 .. n : Hit(p, i) => L[i].len <= acc.len
                     /\ acc.at = 0 => acc.len = 0
                     /\ acc.at # 0 => /\ Hit(p, acc.at) /\ L[acc.at].len = acc.len /\ acc.len > 0
                                      /\ \A i \in 1 .. n : Hit(p, i) /\ L[i].len = acc.len => acc.at <= i

LEMMA LookKnows ==
    ASSUME Listed, NEW p, NEW n \in Nat, n + 1 <= Len(block.locations), NEW acc, Knows(acc, n, p)
    PROVE  Knows(look(acc, n + 1, p), n + 1, p)
<1> DEFINE l == block.locations[n + 1]
           new == look(acc, n + 1, p)
<1>1. l.len \in Nat /\ acc.len \in Nat /\ acc.at \in 0 .. n
  <2>1. n + 1 \in 1 .. Len(block.locations)
    BY DEF Listed
  <2>2. l.len \in Nat
    BY <2>1 DEF Listed
  <2> QED
    BY <2>2 DEF Knows
<1>2. \A i \in 1 .. n + 1 : i \in 1 .. n \/ i = n + 1
  OBVIOUS
<1>3. CASE acc.final
  <2>1. new = acc
    BY <1>3 DEF look
  <2>2. Direct(p, acc.at) /\ acc.at # 0 /\ \A i \in 1 .. n : Direct(p, i) => acc.at <= i
    BY <1>3 DEF Knows
  <2>3. acc.at \in 0 .. n + 1 /\ acc.at <= n + 1
    BY <1>1
  <2>4. \A i \in 1 .. n + 1 : Direct(p, i) => acc.at <= i
    BY <1>2, <2>2, <2>3
  <2>5. Knows(acc, n + 1, p)
    BY <1>1, <1>3, <2>2, <2>3, <2>4 DEF Knows
  <2> QED
    BY <2>1, <2>5
<1>4. CASE ~acc.final /\ ~Hit(p, n + 1)
  <2>1. new = acc
    BY <1>4 DEF look, Hit, Matches
  <2>2. ~Direct(p, n + 1)
    BY <1>4 DEF Direct
  <2>3. \A i \in 1 .. n + 1 : Hit(p, i) \/ Direct(p, i) => i \in 1 .. n
    BY <1>2, <1>4, <2>2
  <2>4. Knows(acc, n + 1, p)
    BY SMTT(40), <1>1, <1>4, <2>3 DEF Knows
  <2> QED
    BY <2>1, <2>4
<1>5. CASE ~acc.final /\ Direct(p, n + 1)
  <2>1. new = [at |-> n + 1, len |-> 0, final |-> TRUE]
    BY <1>5 DEF look, Hit, Matches, Direct
  <2>2. \A i \in 1 .. n : ~Direct(p, i)
    BY <1>5 DEF Knows
  <2>3. new.at = n + 1 /\ new.len = 0 /\ new.final
    BY <2>1
  <2>4. \A i \in 1 .. n + 1 : Direct(p, i) => n + 1 <= i
    BY <1>2, <2>2
  <2> HIDE DEF new
  <2>5. Knows(new, n + 1, p)
    BY SMTT(40), <1>5, <2>3, <2>4 DEF Knows
  <2> QED
    BY <2>5 DEF new
<1>6. CASE ~acc.final /\ Hit(p, n + 1) /\ ~Direct(p, n + 1) /\ l.len > acc.len
  <2>1. new = [at |-> n + 1, len |-> l.len, final |-> FALSE]
    BY <1>6 DEF look, Hit, Matches, Direct
  <2>2. new.at = n + 1 /\ new.len = l.len /\ ~new.final
    BY <2>1
  <2>3. \A i \in 1 .. n : block.locations[i].len \in Nat
    BY DEF Listed
  <2>4. ASSUME NEW i \in 1 .. n, Hit(p, i) PROVE block.locations[i].len < l.len
    BY <1>1, <1>6, <2>3, <2>4 DEF Knows
  <2>5. \A i \in 1 .. n + 1 : Hit(p, i) => block.locations[i].len <= l.len
    BY <1>1, <1>2, <2>3, <2>4
  <2>6. \A i \in 1 .. n + 1 : Hit(p, i) /\ block.locations[i].len = l.len => n + 1 <= i
    BY <1>1, <1>2, <2>3, <2>4
  <2>7. \A i \in 1 .. n + 1 : ~Direct(p, i)
    BY <1>2, <1>6 DEF Knows
  <2>8. l.len > 0
    BY <1>1, <1>6
  <2> HIDE DEF new
  <2>9. Knows(new, n + 1, p)
    <3>1. new.len \in Nat /\ new.at \in 0 .. n + 1 /\ new.at # 0 /\ new.len > 0
      BY <1>1, <2>2, <2>8
    <3>2. Hit(p, new.at) /\ block.locations[new.at].len = new.len
      BY <1>6, <2>2
    <3>3. \A i \in 1 .. n + 1 : Hit(p, i) => block.locations[i].len <= new.len
      BY <2>2, <2>5
    <3>4. \A i \in 1 .. n + 1 : Hit(p, i) /\ block.locations[i].len = new.len => new.at <= i
      BY <2>2, <2>6
    <3> QED
      BY <2>2, <2>7, <3>1, <3>2, <3>3, <3>4 DEF Knows
  <2> QED
    BY <2>9 DEF new
<1>7. CASE ~acc.final /\ Hit(p, n + 1) /\ ~Direct(p, n + 1) /\ ~(l.len > acc.len)
  <2>1. new = acc
    BY <1>7 DEF look, Hit, Matches, Direct
  <2>2. l.len <= acc.len
    BY SMTT(40), <1>1, <1>7
  <2>3. \A i \in 1 .. n + 1 : ~Direct(p, i) /\ (Hit(p, i) => block.locations[i].len <= acc.len)
    BY <1>2, <1>7, <2>2 DEF Knows
  <2>4. ASSUME acc.at # 0, NEW i \in 1 .. n + 1, Hit(p, i), block.locations[i].len = acc.len
        PROVE  acc.at <= i
    BY SMTT(40), <1>1, <1>2, <1>7, <2>4 DEF Knows
  <2>5. Knows(acc, n + 1, p)
    <3>1. acc.at \in 0 .. n + 1
      BY <1>1
    <3>2. /\ acc.at = 0 => acc.len = 0
          /\ acc.at # 0 => Hit(p, acc.at) /\ block.locations[acc.at].len = acc.len /\ acc.len > 0
      BY <1>7 DEF Knows
    <3> QED
      BY <1>1, <1>7, <2>3, <2>4, <3>1, <3>2 DEF Knows
  <2> QED
    BY <2>1, <2>5
<1> QED
  BY <1>1, <1>3, <1>4, <1>5, <1>6, <1>7 DEF Direct

\* What LocationChosen says of a path and a location.
Chosen(p, at) ==
    LET L == block.locations
        hits     == {i \in DOMAIN L : p \in L[i].paths}
        direct   == {i \in hits : L[i].match_type # "prefix"}
        prefixes == {i \in hits : L[i].len > 0}
    IN  IF direct # {} THEN at = Min(direct)
        ELSE IF prefixes = {} THEN at = 0
        ELSE at \in prefixes /\ \A i \in prefixes :
                 L[i].len < L[at].len \/ (L[i].len = L[at].len /\ at <= i)

LEMMA Finds ==
    ASSUME Listed, NEW p
    PROVE  Chosen(p, find_location(p))
<1> DEFINE N == Len(block.locations)
           acc == looked(p)
           S == {n \in Nat : n <= N => Knows(acc[n], n, p)}
<1>0. N \in Nat /\ DOMAIN block.locations = 1 .. N
  BY DEF Listed
<1>1. 0 \in S
  <2>1. acc[0] = [at |-> 0, len |-> 0, final |-> FALSE]
    <3> DEFINE Body(n) == IF n = 0 THEN [at |-> 0, len |-> 0, final |-> FALSE] ELSE look(acc[n - 1], n, p)
    <3>1. 0 \in 0 .. N
      BY <1>0
    <3>2. acc = [n \in 0 .. N |-> Body(n)]
      BY LookedDef
    <3>3. Body(0) = [at |-> 0, len |-> 0, final |-> FALSE]
      OBVIOUS
    <3> HIDE DEF acc, N, Body
    <3> QED
      BY <3>1, <3>2, <3>3
  <2>2. acc[0].at = 0 /\ acc[0].len = 0 /\ ~acc[0].final
    BY <2>1
  <2> HIDE DEF acc
  <2>3. Knows(acc[0], 0, p)
    BY <2>2 DEF Knows
  <2> QED
    BY <2>3
<1>2. ASSUME NEW n \in Nat, n \in S PROVE n + 1 \in S
  <2> SUFFICES ASSUME n + 1 <= N PROVE Knows(acc[n + 1], n + 1, p)
    OBVIOUS
  <2>1. n <= N /\ n + 1 \in 0 .. N /\ n + 1 # 0 /\ (n + 1) - 1 = n
    BY <1>0
  <2>2. acc[n + 1] = look(acc[n], n + 1, p)
    BY <2>1, LookedDef
  <2>3. Knows(acc[n], n, p)
    BY <1>2, <2>1
  <2> QED
    BY <2>2, <2>3, LookKnows
<1>3. N \in S
  <2>1. S \in SUBSET Nat
    OBVIOUS
  <2> HIDE DEF S
  <2> QED
    BY <1>0, <1>1, <1>2, <2>1, SetInduction
<1> DEFINE r == acc[N]
<1>4. Knows(r, N, p) /\ find_location(p) = r.at
  BY <1>0, <1>3 DEF find_location
<1> HIDE DEF r, acc, S
<1> DEFINE L == block.locations
           hits     == {i \in DOMAIN L : p \in L[i].paths}
           direct   == {i \in hits : L[i].match_type # "prefix"}
           prefixes == {i \in hits : L[i].len > 0}
<1>5. hits = {i \in 1 .. N : Hit(p, i)} /\ direct = {i \in 1 .. N : Direct(p, i)}
  BY <1>0 DEF Hit, Direct
<1>6. \A i \in 1 .. N : L[i].len \in Nat
  BY DEF Listed
<1>7. CASE r.final
  <2>1. r.at \in direct /\ \A i \in direct : r.at <= i
    BY SMTT(40), <1>0, <1>4, <1>5, <1>7 DEF Knows
  <2>2. direct \in SUBSET Nat /\ direct # {}
    BY <1>0, <2>1
  <2> HIDE DEF direct
  <2>3. Min(direct) \in direct /\ Min(direct) <= r.at
    BY <2>1, <2>2, MinLeast
  <2>4. r.at <= Min(direct) /\ r.at \in Nat /\ Min(direct) \in Nat
    BY <2>1, <2>2, <2>3
  <2>5. r.at = Min(direct)
    BY <2>3, <2>4
  <2> QED
    BY <1>4, <2>2, <2>5 DEF Chosen, direct
<1>8. CASE ~r.final
  <2>1. direct = {}
    BY <1>4, <1>5, <1>8 DEF Knows
  <2>2. \A i \in prefixes : i \in 1 .. N /\ Hit(p, i) /\ L[i].len <= r.len /\ L[i].len > 0
    BY <1>4, <1>5, <1>8 DEF Knows
  <2>3. CASE r.at = 0
    <3>1. r.len = 0
      BY <1>4, <1>8, <2>3 DEF Knows
    <3>2. prefixes = {}
      BY <1>6, <2>2, <3>1
    <3> QED
      BY <1>4, <2>1, <2>3, <3>2 DEF Chosen
  <2>4. CASE r.at # 0
    <3>1. r.at \in 1 .. N /\ Hit(p, r.at) /\ L[r.at].len = r.len /\ r.len > 0 /\ r.len \in Nat
      BY <1>0, <1>4, <1>8, <2>4 DEF Knows
    <3>2. r.at \in prefixes
      BY <1>5, <3>1
    <3>3. ASSUME NEW i \in prefixes
          PROVE  L[i].len < L[r.at].len \/ (L[i].len = L[r.at].len /\ r.at <= i)
      <4>1. i \in 1 .. N /\ Hit(p, i) /\ L[i].len <= r.len /\ L[i].len \in Nat
        BY <1>6, <2>2
      <4>2. L[i].len = r.len => r.at <= i
        BY <1>4, <1>8, <2>4, <4>1 DEF Knows
      <4> QED
        BY <3>1, <4>1, <4>2
    <3> QED
      BY <1>4, <2>1, <3>2, <3>3 DEF Chosen
  <2> QED
    BY <2>3, <2>4
<1> QED
  BY <1>4, <1>7, <1>8 DEF Knows

\* The block never changes under a request.
PInv == Types /\ Listed /\ LocationChosen

LEMMA LocationNext == ASSUME PInv, [Next]_vars PROVE PInv'
<1> USE DEF PInv
<1>0. Types'
  BY TypesNext
<1>b. UNCHANGED block
  BY DEF Next, vars, Handle, AcceptH3, BodyError, BodyEnd, Process, serve_file, Proxied, Connect,
         DialFails, DialSucceeds, Cancelled, Finished, Chunk, ResolveTarget
<1>l. Listed'
  BY <1>b DEF Listed
<1>1. ASSUME pc' \notin {"static", "proxy"} PROVE PInv'
  BY <1>0, <1>l, <1>1 DEF LocationChosen, Handled
<1>2. CASE Handle
  BY <1>1, <1>2 DEF Handle, acme_challenge_response, Refuse, Respond
<1>3. CASE AcceptH3 \/ Cancelled \/ BodyError
  BY <1>3, <1>1 DEF AcceptH3, Cancelled, BodyError, Respond
<1>4. CASE BodyEnd
  BY <1>4, <1>1 DEF BodyEnd, handle_h3, Respond
<1>5. CASE Process
  <2>1. CASE \E s : Refuse(s)
    BY <2>1, <1>1, Refused
  <2>2. CASE Route(apply(req.path))
    <3>1. loc' = find_location(apply(req.path).to) /\ req'.path = apply(req.path).to
      BY <2>2 DEF Route, Types, Requests
    <3>2. Chosen(req'.path, loc')
      BY <3>1, Finds
    <3>3. LocationChosen'
      BY <1>b, <3>2 DEF LocationChosen, Chosen
    <3> QED
      BY <1>0, <1>l, <3>3
  <2> QED
    BY <1>5, <2>1, <2>2, ProcessWays
<1>6. CASE serve_file
  BY <1>6, <1>1 DEF serve_file, Respond
<1>7. CASE Proxied
  <2>1. pc' = "done"
    BY <1>7 DEF Proxied, Respond
  <2> QED
    BY <2>1, <1>1
<1>8. CASE Connect
  <2>1. pc' \notin {"static", "proxy"}
    BY <1>8, ConnectPasses
  <2> QED
    BY <2>1, <1>1
<1>9. ASSUME NEW answer \in Answers, ResolveTarget(answer) PROVE PInv'
  BY <1>9, <1>1 DEF ResolveTarget, Respond
<1>10. CASE DialFails \/ DialSucceeds
  BY <1>10, <1>1 DEF DialFails, DialSucceeds, Respond
<1>11. ASSUME NEW n \in 1 .. MaxChunk, Chunk(n) PROVE PInv'
  BY <1>11, <1>1 DEF Chunk, Respond
<1>12. CASE Finished \/ UNCHANGED vars
  <2>1. UNCHANGED vars
    BY <1>12 DEF Finished
  <2> QED
    BY <1>0, <1>l, <2>1 DEF vars, LocationChosen, Handled
<1> QED
  BY <1>2, <1>3, <1>4, <1>5, <1>6, <1>7, <1>8, <1>9, <1>10, <1>11, <1>12 DEF Next

(* However the locations of a block are ordered and whatever the rewrite rules make of a path, a
   file or proxy handler runs for the location find_location has to choose for that path. *)
THEOREM Located == Spec => []LocationChosen
<1>1. Init => PInv
  <2> SUFFICES ASSUME Init PROVE PInv
    OBVIOUS
  <2>1. Listed
    BY PipelineAssumption DEF Init, Listed
  <2>2. LocationChosen
    BY DEF Init, LocationChosen, Handled
  <2> QED
    BY <2>1, <2>2, TypesInit DEF PInv
<1>2. PInv /\ [Next]_vars => PInv'
  BY LocationNext
<1>3. PInv => LocationChosen
  BY DEF PInv
<1> QED
  BY <1>1, <1>2, <1>3, PTL DEF Spec
===============================================================================
