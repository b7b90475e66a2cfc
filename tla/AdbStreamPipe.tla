---------------------------- MODULE AdbStreamPipe ----------------------------
(***************************************************************************)
(* The stream layer implements the pipe of StreamPipe: the mapping, for    *)
(* one stream between the asockets with id 1 of either side, opened by the *)
(* host, over a connection that does not break.                            *)
(***************************************************************************)
EXTENDS AdbStream

\* The instances the mapping is for.
OneStream ==
    Openers = {"host"} /\ MaxSock = 1 /\ MaxDown = 0 /\ MaxRestart = 0 /\ MaxResend = 0

Numbers(chunks) == [k \in DOMAIN chunks |-> chunks[k].n]

\* The numbers ns of chunks, and that of the chunk in packet m if it is A_WRTE.
And(ns, m) == IF m.cmd = "WRTE" THEN Append(ns, m.n) ELSE ns

\* The numbers of the chunks in the packets of a channel, in their order.
Written(s) ==
    LET upTo[k \in 0..Len(s)] == IF k = 0 THEN <<>> ELSE And(upTo[k - 1], s[k])
    IN  upTo[Len(s)]

\* A_WRTE packets of p that Other(p) will take: it is open, and connected to
\* this stream or about to be.
OnTheWire(p) ==
    IF sock[Other(p)][1].st = "open" /\ sock[Other(p)][1].peer \in {0, 1}
    THEN Written(net[p])
    ELSE <<>>

\* On the way from p: queued in the asocket of the other side, or still sent.
InTransit(p) == Numbers(sock[Other(p)][1].q) \o OnTheWire(p)

EndOf(s) ==
    CASE s.st = "closing" -> "draining"
      [] s.st = "dead"    -> "closed"
      [] OTHER            -> s.st

\* The variables of StreamPipe.
PipeEnd == [p \in Side |-> EndOf(sock[p][1])]
PipeHung == [p \in Side |-> fd[p][1].hup # "no"]
PipeTook == [p \in Side |-> fd[p][1].got]
PipeTransit == [p \in Side |-> InTransit(p)]
PipeGiven == [p \in Side |-> Numbers(fd[p][1].out)]

Pipe == INSTANCE StreamPipe WITH
    Opener  <- "host",
    end     <- PipeEnd,
    hung    <- PipeHung,
    took    <- PipeTook,
    transit <- PipeTransit,
    given   <- PipeGiven

\* Packets, credits, queues and the closing list of both sides together behave as
\* a pipe: every chunk that local_socket_event_func takes from one application is
\* given to the other once and in order, an end closes only when its application
\* hung up or the other end is gone, and then only after all that was on its way.
PipeSpec == Pipe!Spec
=============================================================================
