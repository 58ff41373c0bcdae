------------------------------ MODULE Connection ------------------------------
(***************************************************************************)
(* The task of an accepted TCP connection (accept_loop, server.rs): the    *)
(* TLS handshake and the protocol it negotiates, HTTP/2 as in Http2Reset,  *)
(* and HTTP/1, which on a plain listener is read through a BareLfGuard.    *)
(*                                                                         *)
(* A byte is a CR, a LF or any other ("x").  A read returns some of the    *)
(* bytes that are still to come, as the network delivers them; how much    *)
(* room hyper's buffer has is up to hyper.  The guard's flag `rejected` is *)
(* left out: it is false in every guard that is made.                      *)
(***************************************************************************)
EXTENDS Http2Reset, SequencesExt

CONSTANTS PeekSize,    \* the size of peek_buf
          MaxRoom,     \* bound: room in hyper's buffer
          MaxWire      \* bound: bytes a client sends

ASSUME ConnectionAssumption == PeekSize \in Nat \ {0} /\ MaxRoom \in Nat \ {0} /\ MaxWire \in Nat

VARIABLES
    task,       \* where the task is
    wire,       \* what the client sends over HTTP/1
    taken,      \* how many of these bytes have been read
    prefix, prefix_pos,   \* BareLfGuard: peek_buf[..n], and how much of it hyper has
    hyper,      \* what hyper has read
    refused     \* the 400 of the guard was sent

http1 == <<task, wire, taken, prefix, prefix_pos, hyper, refused>>
all == <<vars, http1>>

Wires == UNION {[1 .. n -> {"cr", "lf", "x"}] : n \in 0 .. MaxWire}

ConnInit ==
    /\ Init
    /\ \/ task = "handshake" /\ wire = <<>>
       \/ task = "peek" /\ wire \in Wires
    /\ taken = 0 /\ prefix = <<>> /\ prefix_pos = 0 /\ hyper = <<>> /\ refused = FALSE

\* The handshake fails or takes more than ten seconds, or ALPN decides.
Handshake ==
    /\ task = "handshake"
    /\ \/ task' \in {"done", "http2"} /\ UNCHANGED wire
       \/ task' = "http1" /\ wire' \in Wires
    /\ UNCHANGED <<vars, taken, prefix, prefix_pos, hyper, refused>>
-------------------------------------------------------------------------------
\* The end of the first header section of buf, or of what there is of it.
header_end(buf) ==
    LET ends == {i \in 4 .. Len(buf) : SubSeq(buf, i - 3, i) = <<"cr", "lf", "cr", "lf">>}
    IN  IF ends = {} THEN Len(buf) ELSE Min(ends)

has_bare_lf(buf) == \E i \in 1 .. header_end(buf) : buf[i] = "lf" /\ (i = 1 \/ buf[i - 1] # "cr")

\* The next n bytes, at most limit of them.
Incoming(n, limit) == n \in 1 .. limit /\ taken + n <= Len(wire) /\ taken' = taken + n

\* serve_http1_with_bare_lf_check: one read, then either a 400 and the end, or hyper behind
\* a guard that holds the bytes of this read.
Peek(n) ==
    /\ task = "peek" /\ Incoming(n, PeekSize)
    /\ prefix' = SubSeq(wire, 1, n)
    /\ refused' = has_bare_lf(prefix')
    /\ task' = IF refused' THEN "done" ELSE "http1"
    /\ UNCHANGED <<vars, wire, prefix_pos, hyper>>

\* Wrong on purpose: bytes that find no room are forgotten.
PollReadDrops(room) ==
    /\ task = "http1"
    /\ IF prefix_pos < Len(prefix)
       THEN /\ hyper' = hyper \o SubSeq(prefix, prefix_pos + 1, Min({Len(prefix), prefix_pos + room}))
            /\ prefix_pos' = Len(prefix) /\ UNCHANGED taken
       ELSE /\ \E n \in 1 .. room : Incoming(n, room)
            /\ hyper' = hyper \o SubSeq(wire, taken + 1, taken')
            /\ UNCHANGED prefix_pos
    /\ UNCHANGED <<vars, task, wire, prefix, refused>>

\* BareLfGuard::poll_read: the prefix is drained first.  Over TLS there is no guard, which
\* is a guard without a prefix.
poll_read(room) ==
    /\ task = "http1"
    /\ IF prefix_pos < Len(prefix)
       THEN /\ prefix_pos' = Min({Len(prefix), prefix_pos + room})
            /\ hyper' = hyper \o SubSeq(prefix, prefix_pos + 1, prefix_pos')
            /\ UNCHANGED taken
       ELSE /\ \E n \in 1 .. room : Incoming(n, room)
            /\ hyper' = hyper \o SubSeq(wire, taken + 1, taken')
            /\ UNCHANGED prefix_pos
    /\ UNCHANGED <<vars, task, wire, prefix, refused>>

\* The first read fails, finds the end or takes more than five seconds; serve_http1 returns
\* when the client is gone, a response closed the connection or a header section took
\* longer than the request timeout.
Http1Ends ==
    /\ task \in {"peek", "http1"} /\ task' = "done"
    /\ UNCHANGED <<vars, wire, taken, prefix, prefix_pos, hyper, refused>>

serve_http2 == task = "http2" /\ Next /\ UNCHANGED http1

ConnNext ==
    \/ Handshake \/ Http1Ends \/ serve_http2
    \/ \E n \in 1 .. PeekSize : Peek(n)
    \/ \E room \in 1 .. MaxRoom : poll_read(room)

\* Only the fairness of Http2Reset.
ConnSpec == ConnInit /\ [][ConnNext]_all /\ WF_vars(Kill) /\ WF_vars(Drained)
                     /\ \A s \in Streams : WF_vars(NotifyWaiters(s))
-------------------------------------------------------------------------------
(* A header section as a parser takes it byte by byte: how much of CR LF CR LF it has just
   seen, 4 once the section is over, 5 if a LF came without its CR. *)
ScanStep(seen, byte) ==
    IF seen >= 4 THEN seen ELSE
    CASE byte = "lf" -> IF seen \in {1, 3} THEN seen + 1 ELSE 5
      [] byte = "cr" -> IF seen = 2 THEN 3 ELSE 1
      [] OTHER       -> 0
Scanned(buf) ==
    LET scanned[i \in 0 .. Len(buf)] == IF i = 0 THEN 0 ELSE ScanStep(scanned[i - 1], buf[i])
    IN  scanned
Scan(buf) == Scanned(buf)[Len(buf)]

(* hyper reads what the client sent, byte for byte, across the seam between the peeked
   bytes and the socket and however little it reads at a time; or it reads nothing and
   the client gets a 400, and that exactly if the first read holds a bare LF in a header
   section.  (A bare LF after the first read, or over TLS, is left to hyper.) *)
AllOrNothing ==
    /\ hyper = SubSeq(wire, 1, Len(hyper))
    /\ Len(hyper) + (Len(prefix) - prefix_pos) = taken
    /\ refused = (Scan(prefix) = 5)
    /\ refused => hyper = <<>> /\ task = "done"
===============================================================================
