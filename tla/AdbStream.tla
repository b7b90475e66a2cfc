------------------------------ MODULE AdbStream ------------------------------
(***************************************************************************)
(* The stream layer of adb: the asockets of sockets.cpp and the packet     *)
(* handler handle_packet of adb.cpp, run by two programs (the adb server   *)
(* "host" and adbd "device") over one connection that carries packets in   *)
(* order and may break.                                                    *)
(*                                                                         *)
(* Every action is one call the main thread of one side makes from its     *)
(* fdevent loop, with everything that call does: the remote asocket has no *)
(* state of its own beyond its id, so it is the field peer of the local    *)
(* one.  An fdevent that reports READ and WRITE together is the WRITE part *)
(* followed by the READ part, as in local_socket_event_func.               *)
(***************************************************************************)
EXTENDS Naturals, Sequences, FiniteSets

CONSTANTS
    Openers,    \* the sides on which a client or a listener opens streams
    Notify,     \* how: by a smart socket client (TRUE), by a listener (FALSE)
    Writers,    \* the sides on which the applications write
    Hangups,    \* how applications hang up: "half" (shutdown), "full" (close)
    MaxSock,    \* bound: asockets created per side (local_socket_next_id)
    MaxOpen,    \* bound: those of them that clients and listeners create
    MaxRead,    \* bound: chunks an application writes to one descriptor
    MaxDown,    \* bound: times the connection breaks
    MaxRestart, \* bound: times the adb server is restarted
    MaxResend   \* bound: times A_CNXN is sent again

Side == {"host", "device"}

ASSUME StreamAssumption ==
    /\ Openers \subseteq Side
    /\ Notify \subseteq BOOLEAN
    /\ Writers \subseteq Side
    /\ Hangups \subseteq {"half", "full"}
    /\ MaxSock \in Nat
    /\ MaxOpen \in 0..MaxSock
    /\ MaxRead \in Nat
    /\ MaxDown \in Nat
    /\ MaxRestart \in Nat
    /\ MaxResend \in Nat

Ids == 1..MaxSock
Other(p) == IF p = "host" THEN "device" ELSE "host"

VARIABLES
    sock,       \* sock[p][i]: the local asocket with id i of side p
    fd,         \* fd[p][i]: what its file descriptor carried, the application's side of it
    next,       \* next[p]: local_socket_next_id
    net,        \* net[p]: packets p has sent and Other(p) has not handled
    online,     \* online[p]: atransport::online (and connection_state_ # kCsOffline)
    up,         \* the connection carries packets
    resent,     \* atransport::has_send_connect_on_error_ of the host
    downs,      \* times the connection broke
    runs,       \* times the adb server was restarted
    resends     \* times A_CNXN was sent again

link == <<up, downs, runs>>
vars == <<sock, fd, next, net, online, resent, resends, link>>

-----------------------------------------------------------------------------
(* State of one asocket.  st: "none" before it is created, "open" while on  *)
(* local_socket_list, "closing" while on local_socket_closing_list, "dead"  *)
(* once freed.  peer: id of the remote asocket it is connected to, 0 for    *)
(* none.  rd, wr: FDE_READ and FDE_WRITE in its fdevent.  q: pkt_first ..   *)
(* pkt_last.  rig: ready and close still point to the notify variants.      *)

Asocket(st, peer, rd, rig) ==
    [st |-> st, peer |-> peer, rd |-> rd, wr |-> FALSE, q |-> <<>>, rig |-> rig]
NoSock == Asocket("none", 0, FALSE, FALSE)
Dead == Asocket("dead", 0, FALSE, FALSE)

(* The application's side of a descriptor.  avail: chunks written by the    *)
(* application and not yet read by adb.  got: chunks adb has read.  hup:    *)
(* "half" after shutdown(SHUT_WR), "full" after close.  out: chunks adb has *)
(* written, each with the id of the stream it came from.  reply: the status *)
(* a smart socket client waits for ("await") or was told.  run: the server  *)
(* process the stream was opened with, to tell streams apart; A_OPEN and    *)
(* A_WRTE carry it and nothing reads it.                                    *)
NewFd == [avail |-> 0, got |-> 0, hup |-> "no", out |-> <<>>, reply |-> "none", run |-> 0]

Pkt(c, a0, a1) == [cmd |-> c, arg0 |-> a0, arg1 |-> a1, n |-> 0, run |-> 0]
Wrte(a0, a1, n, run) == [Pkt("WRTE", a0, a1) EXCEPT !.n = n, !.run = run]
\* The n-th chunk read by the asocket src.
Chunk(m) == [src |-> m.arg0, n |-> m.n, run |-> m.run]

\* find_local_socket(local_id, peer_id): 0 as peer_id matches any peer.
Found(p, local_id, peer_id) ==
    /\ local_id \in Ids
    /\ sock[p][local_id].st = "open"
    /\ peer_id = 0 \/ sock[p][local_id].peer = peer_id

\* send_packet: a broken connection swallows what is handed to it.
Sent(p, msgs) == IF up THEN net[p] \o msgs ELSE net[p]
Send(p, msgs) == net' = [net EXCEPT ![p] = Sent(p, msgs)]
\* The handler of the packet at the head of the connection, answering msgs.
Reply(p, msgs) == net' = [net EXCEPT ![Other(p)] = Tail(@), ![p] = Sent(p, msgs)]

\* local_socket_close: what becomes of the asocket, and the A_CLSE that
\* remote_socket_shutdown sends for a connected one.
Closed(s, has_write_error) ==
    IF s.st = "closing" \/ has_write_error \/ s.q = <<>>
    THEN Dead
    ELSE [s EXCEPT !.st = "closing", !.peer = 0, !.rd = FALSE, !.rig = FALSE]

\* Mutant: local_socket_close does not call peer->shutdown.
CloseMsgsNone(s, i) == <<>>

CloseMsgs(s, i) == IF s.peer # 0 THEN <<Pkt("CLSE", i, s.peer)>> ELSE <<>>

\* Mutant: close is not replaced by local_socket_close_notify.
CloseFdSilent(s, f) == f

\* local_socket_close_notify tells the client before closing.
CloseFd(s, f) == IF s.rig THEN [f EXCEPT !.reply = "FAIL"] ELSE f

\* close_all_sockets walks local_socket_list, which is in the order of the ids.
CloseOrder(p) ==
    LET ids == {i \in Ids : sock[p][i].st = "open" /\ sock[p][i].peer # 0}
    IN  {f \in [1..Cardinality(ids) -> ids] : \A k, l \in DOMAIN f : k < l => f[k] < f[l]}
CloseAllMsgs(p, f) == [k \in DOMAIN f |-> Pkt("CLSE", f[k], sock[p][f[k]].peer)]

CloseAll(p) ==
    /\ sock' = [sock EXCEPT ![p] = [i \in Ids |->
                    IF sock[p][i].st = "open" THEN Closed(sock[p][i], FALSE) ELSE sock[p][i]]]
    /\ fd' = [fd EXCEPT ![p] = [i \in Ids |->
                    IF sock[p][i].st = "open" THEN CloseFd(sock[p][i], fd[p][i]) ELSE fd[p][i]]]

-----------------------------------------------------------------------------
(* Opening a stream *)

\* create_local_socket + connect_to_remote: listener_event_func for a forward
\* (rigged = FALSE), the end of smart_socket_enqueue for a client (TRUE).
ConnectToRemote(p, rigged) ==
    /\ p \in Openers
    /\ online[p]
    /\ next[p] <= MaxOpen
    /\ sock' = [sock EXCEPT ![p][next[p]] = Asocket("open", 0, FALSE, rigged)]
    /\ fd' = [fd EXCEPT ![p][next[p]].run = runs,
                        ![p][next[p]].reply = IF rigged THEN "await" ELSE @]
    /\ Send(p, <<[Pkt("OPEN", next[p], 0) EXCEPT !.run = runs]>>)
    /\ next' = [next EXCEPT ![p] = @ + 1]
    /\ UNCHANGED <<online, resent, resends, link>>

\* A_OPEN: the service exists and gets a socket of its own...
HandleOpen(p, m) ==
    /\ m.cmd = "OPEN" /\ online[p] /\ m.arg0 # 0 /\ m.arg1 = 0
    /\ next[p] <= MaxSock
    /\ sock' = [sock EXCEPT ![p][next[p]] = Asocket("open", m.arg0, TRUE, FALSE)]
    /\ fd' = [fd EXCEPT ![p][next[p]].run = m.run]
    /\ Reply(p, <<Pkt("OKAY", next[p], m.arg0)>>)
    /\ next' = [next EXCEPT ![p] = @ + 1]
    /\ UNCHANGED <<online, resent, resends, link>>

\* Mutant: a service that cannot be started is not answered.
HandleOpenFailsSilent(p, m) ==
    /\ m.cmd = "OPEN" /\ online[p] /\ m.arg0 # 0 /\ m.arg1 = 0
    /\ Reply(p, <<>>)
    /\ UNCHANGED <<sock, fd, next, online, resent, resends, link>>

\* ... or create_local_service_socket returns nullptr.
HandleOpenFails(p, m) ==
    /\ m.cmd = "OPEN" /\ online[p] /\ m.arg0 # 0 /\ m.arg1 = 0
    /\ Reply(p, <<Pkt("CLSE", 0, m.arg0)>>)
    /\ UNCHANGED <<sock, fd, next, online, resent, resends, link>>

\* A_OKAY for an open socket: the first one connects it, the later ones must
\* come from the same remote id; both make it read its descriptor again.
HandleOkay(p, m) ==
    /\ m.cmd = "OKAY" /\ online[p] /\ m.arg0 # 0
    /\ Found(p, m.arg1, 0)
    /\ LET s == sock[p][m.arg1] IN
           IF s.peer \in {0, m.arg0}
           THEN /\ sock' = [sock EXCEPT ![p][m.arg1] =
                                [s EXCEPT !.peer = m.arg0, !.rd = TRUE, !.rig = FALSE]]
                /\ fd' = [fd EXCEPT ![p][m.arg1].reply = IF s.rig THEN "OKAY" ELSE @]
           ELSE UNCHANGED <<sock, fd>>
    /\ Reply(p, <<>>)
    /\ UNCHANGED <<next, online, resent, resends, link>>

\* Mutant: an A_OKAY for a socket that is gone is dropped.
HandleOkayGoneSilent(p, m) ==
    /\ m.cmd = "OKAY" /\ online[p] /\ m.arg0 # 0 /\ m.arg1 # 0
    /\ ~Found(p, m.arg1, 0)
    /\ Reply(p, <<>>)
    /\ UNCHANGED <<sock, fd, next, online, resent, resends, link>>

\* A_OKAY for a socket that is gone: tell the other side to close its end.
HandleOkayGone(p, m) ==
    /\ m.cmd = "OKAY" /\ online[p] /\ m.arg0 # 0 /\ m.arg1 # 0
    /\ ~Found(p, m.arg1, 0)
    /\ Reply(p, <<Pkt("CLSE", m.arg1, m.arg0)>>)
    /\ UNCHANGED <<sock, fd, next, online, resent, resends, link>>

-----------------------------------------------------------------------------
(* Data *)

\* An application that has closed its end makes writes fail, sooner or later.
WriteFails(p, i) == fd[p][i].hup = "full"

\* A_WRTE, local_socket_enqueue returns 0: everything was written.
HandleWrte(p, m) ==
    /\ m.cmd = "WRTE" /\ online[p] /\ m.arg0 # 0
    /\ Found(p, m.arg1, m.arg0)
    /\ sock[p][m.arg1].q = <<>>
    /\ fd' = [fd EXCEPT ![p][m.arg1].out = Append(@, Chunk(m))]
    /\ Reply(p, <<Pkt("OKAY", m.arg1, m.arg0)>>)
    /\ UNCHANGED <<sock, next, online, resent, resends, link>>

\* Mutant: FDE_WRITE is not added when a packet is queued.
HandleWrteQueuesDeaf(p, m) ==
    /\ m.cmd = "WRTE" /\ online[p] /\ m.arg0 # 0
    /\ Found(p, m.arg1, m.arg0)
    /\ sock' = [sock EXCEPT ![p][m.arg1].q = Append(@, Chunk(m))]
    /\ Reply(p, <<>>)
    /\ UNCHANGED <<fd, next, online, resent, resends, link>>

\* Mutant: local_socket_enqueue returns 0 for a packet it queued.
HandleWrteQueuesReady(p, m) ==
    /\ m.cmd = "WRTE" /\ online[p] /\ m.arg0 # 0
    /\ Found(p, m.arg1, m.arg0)
    /\ sock' = [sock EXCEPT ![p][m.arg1].q = Append(@, Chunk(m)),
                            ![p][m.arg1].wr = TRUE]
    /\ Reply(p, <<Pkt("OKAY", m.arg1, m.arg0)>>)
    /\ UNCHANGED <<fd, next, online, resent, resends, link>>

\* local_socket_enqueue returns 1: data is queued already, or EAGAIN.
HandleWrteQueues(p, m) ==
    /\ m.cmd = "WRTE" /\ online[p] /\ m.arg0 # 0
    /\ Found(p, m.arg1, m.arg0)
    /\ sock' = [sock EXCEPT ![p][m.arg1].q = Append(@, Chunk(m)),
                            ![p][m.arg1].wr = TRUE]
    /\ Reply(p, <<>>)
    /\ UNCHANGED <<fd, next, online, resent, resends, link>>

\* local_socket_enqueue meets a write error and closes the socket.
HandleWrteFails(p, m) ==
    /\ m.cmd = "WRTE" /\ online[p] /\ m.arg0 # 0
    /\ Found(p, m.arg1, m.arg0)
    /\ sock[p][m.arg1].q = <<>>
    /\ WriteFails(p, m.arg1)
    /\ sock' = [sock EXCEPT ![p][m.arg1] = Closed(@, TRUE)]
    /\ fd' = [fd EXCEPT ![p][m.arg1] = CloseFd(sock[p][m.arg1], @)]
    /\ Reply(p, CloseMsgs(sock[p][m.arg1], m.arg1))
    /\ UNCHANGED <<next, online, resent, resends, link>>

\* FDE_WRITE: k queued packets are written, then the descriptor blocks.
WriteSome(p, i, k) ==
    /\ sock[p][i].wr
    /\ k \in 1..Len(sock[p][i].q) - 1
    /\ sock' = [sock EXCEPT ![p][i].q = SubSeq(@, k + 1, Len(@))]
    /\ fd' = [fd EXCEPT ![p][i].out = @ \o SubSeq(sock[p][i].q, 1, k)]
    /\ UNCHANGED <<next, net, online, resent, resends, link>>

\* FDE_WRITE: the queue drains.  A closing socket is destroyed, any other
\* stops listening for FDE_WRITE and tells its peer to go on.
WriteAll(p, i) ==
    LET s == sock[p][i] IN
    /\ s.wr
    /\ fd' = [fd EXCEPT ![p][i].out = @ \o s.q]
    /\ IF s.st = "closing"
       THEN /\ sock' = [sock EXCEPT ![p][i] = Closed(s, FALSE)]
            /\ UNCHANGED net
       ELSE /\ sock' = [sock EXCEPT ![p][i] = [s EXCEPT !.q = <<>>, !.wr = FALSE]]
            /\ Send(p, <<Pkt("OKAY", i, s.peer)>>)
    /\ UNCHANGED <<next, online, resent, resends, link>>

\* FDE_WRITE: the write fails and the socket closes, whatever it had queued.
WriteError(p, i) ==
    LET s == sock[p][i] IN
    /\ s.wr
    /\ WriteFails(p, i)
    /\ sock' = [sock EXCEPT ![p][i] = Closed(s, TRUE)]
    /\ fd' = [fd EXCEPT ![p][i] = CloseFd(s, @)]
    /\ Send(p, CloseMsgs(s, i))
    /\ UNCHANGED <<next, online, resent, resends, link>>

\* poll() reports the descriptor for reading: there is something to read and
\* FDE_READ is on, or the application hung up (POLLRDHUP and POLLHUP are
\* reported whether FDE_READ is on or not).
Readable(p, i) ==
    /\ sock[p][i].st \in {"open", "closing"}
    /\ \/ fd[p][i].hup # "no"
       \/ sock[p][i].rd /\ fd[p][i].avail > 0

\* Mutant: the peer is closed before it is given what was read.
LastMsgsSwapped(s, i, data) == CloseMsgs(s, i) \o data

\* What was read with the end of file is sent before the peer is closed.
LastMsgs(s, i, data) == data \o CloseMsgs(s, i)

\* FDE_READ: one packet is filled with n chunks.  The read loop meets the end
\* of file (is_eof) only if the packet has room for all that is left.  A
\* connected socket sends the data and stops reading until it is told to go
\* on; data read while there is no peer is dropped; the end of file closes.
ReadEvent(p, i, n, is_eof) ==
    /\ Readable(p, i)
    /\ n \in 0..fd[p][i].avail
    /\ is_eof => n = fd[p][i].avail /\ fd[p][i].hup # "no"
    /\ n = 0 => is_eof
    /\ LET f == [fd[p][i] EXCEPT !.avail = @ - n, !.got = @ + n]
           s == sock[p][i]
           data == IF n > 0 /\ s.peer # 0 THEN <<Wrte(i, s.peer, f.got, f.run)>> ELSE <<>>
           after == IF data # <<>> THEN [s EXCEPT !.rd = FALSE] ELSE s
       IN  IF is_eof
           THEN /\ sock' = [sock EXCEPT ![p][i] = Closed(after, FALSE)]
                /\ fd' = [fd EXCEPT ![p][i] = CloseFd(after, f)]
                /\ Send(p, LastMsgs(after, i, data))
           ELSE /\ sock' = [sock EXCEPT ![p][i] = after]
                /\ fd' = [fd EXCEPT ![p][i] = f]
                /\ Send(p, data)
    /\ UNCHANGED <<next, online, resent, resends, link>>

-----------------------------------------------------------------------------
(* Closing *)

\* A_CLSE: close the socket it names; arg0 = 0 stands for a failed A_OPEN.
HandleClse(p, m) ==
    /\ m.cmd = "CLSE" /\ online[p]
    /\ Found(p, m.arg1, m.arg0)
    /\ sock' = [sock EXCEPT ![p][m.arg1] = Closed(@, FALSE)]
    /\ fd' = [fd EXCEPT ![p][m.arg1] = CloseFd(sock[p][m.arg1], @)]
    /\ Reply(p, CloseMsgs(sock[p][m.arg1], m.arg1))
    /\ UNCHANGED <<next, online, resent, resends, link>>

\* A_WRTE and A_CLSE that name no open stream of the receiver.
IgnoreStale(p, m) ==
    /\ m.cmd \in {"WRTE", "CLSE"} /\ online[p]
    /\ ~Found(p, m.arg1, m.arg0)
    /\ Reply(p, <<>>)
    /\ UNCHANGED <<sock, fd, next, online, resent, resends, link>>

\* Every other packet is ignored before A_CNXN; remote_read of a USB transport
\* on the host takes it for an error and sends A_CNXN once more.
IgnoreOffline(p, m, resend) ==
    /\ m.cmd # "CNXN" /\ ~online[p]
    /\ resend => p = "host" /\ ~resent /\ resends < MaxResend
    /\ resent' = (resent \/ resend)
    /\ resends' = IF resend THEN resends + 1 ELSE resends
    /\ Reply(p, IF resend THEN <<Pkt("CNXN", 0, 0)>> ELSE <<>>)
    /\ UNCHANGED <<sock, fd, next, online, link>>

-----------------------------------------------------------------------------
(* Connection *)

\* Mutant: the streams of the earlier connection are kept.
HandleCnxnKeeps(p, m) ==
    /\ m.cmd = "CNXN"
    /\ Reply(p, IF p = "device" THEN <<Pkt("CNXN", 0, 0)>> ELSE <<>>)
    /\ online' = [online EXCEPT ![p] = TRUE]
    /\ UNCHANGED <<sock, fd, next, resent, resends, link>>

\* A_CNXN, handle_new_connection: streams of an earlier connection are closed
\* first; the device answers, the host does not.
HandleCnxn(p, m) ==
    /\ m.cmd = "CNXN"
    /\ IF online[p] THEN CloseAll(p) ELSE UNCHANGED <<sock, fd>>
    /\ \E f \in CloseOrder(p) :
           Reply(p, (IF online[p] THEN CloseAllMsgs(p, f) ELSE <<>>)
                    \o (IF p = "device" THEN <<Pkt("CNXN", 0, 0)>> ELSE <<>>))
    /\ online' = [online EXCEPT ![p] = TRUE]
    /\ UNCHANGED <<next, resent, resends, link>>

HandlePacket(p) ==
    /\ net[Other(p)] # <<>>
    /\ LET m == Head(net[Other(p)]) IN
           \/ HandleOpen(p, m)
           \/ HandleOpenFails(p, m)
           \/ HandleOkay(p, m)
           \/ HandleOkayGone(p, m)
           \/ HandleWrte(p, m)
           \/ HandleWrteQueues(p, m)
           \/ HandleWrteFails(p, m)
           \/ HandleClse(p, m)
           \/ IgnoreStale(p, m)
           \/ \E resend \in BOOLEAN : IgnoreOffline(p, m, resend)
           \/ HandleCnxn(p, m)

\* A new transport: on SYNC(1, token) the host sends A_CNXN.
Connect ==
    /\ ~up
    /\ \A p \in Side : ~online[p] /\ net[p] = <<>>
    /\ up' = TRUE
    /\ resent' = FALSE
    /\ net' = [net EXCEPT !["host"] = <<Pkt("CNXN", 0, 0)>>]
    /\ UNCHANGED <<sock, fd, next, online, resends, downs, runs>>

\* remote_read of a USB transport read garbage before the connection was
\* established: A_CNXN is sent once more.
ResendConnect ==
    /\ up /\ ~online["host"]
    /\ ~resent /\ resends < MaxResend
    /\ resent' = TRUE
    /\ resends' = resends + 1
    /\ Send("host", <<Pkt("CNXN", 0, 0)>>)
    /\ UNCHANGED <<sock, fd, next, online, link>>

\* The connection breaks.  Each side still handles the packets its reader
\* thread had already passed to its main thread.
Break ==
    /\ up
    /\ downs < MaxDown
    /\ up' = FALSE
    /\ downs' = downs + 1
    /\ \E h \in 0..Len(net["host"]), d \in 0..Len(net["device"]) :
           net' = [net EXCEPT !["host"] = SubSeq(@, 1, h), !["device"] = SubSeq(@, 1, d)]
    /\ UNCHANGED <<sock, fd, next, online, resent, resends, runs>>

\* SYNC(0, 0) reaches the main thread, behind those packets: handle_offline.
HandleOffline(p) ==
    /\ ~up /\ online[p]
    /\ net[Other(p)] = <<>>
    /\ online' = [online EXCEPT ![p] = FALSE]
    /\ CloseAll(p)
    /\ UNCHANGED <<next, net, resent, resends, link>>

\* The adb server process is killed and a new one claims the same USB
\* interface, where the device sees no disconnection: what the old server had
\* written and what the device has written is still delivered, what either
\* server thread had read or had not written yet is not.
HostRestart ==
    /\ up
    /\ runs < MaxRestart
    /\ runs' = runs + 1
    /\ sock' = [sock EXCEPT !["host"] = [i \in Ids |-> NoSock]]
    /\ fd' = [fd EXCEPT !["host"] = [i \in Ids |-> NewFd]]
    /\ next' = [next EXCEPT !["host"] = 1]
    /\ online' = [online EXCEPT !["host"] = FALSE]
    /\ resent' = FALSE
    /\ \E h \in 0..Len(net["host"]), d \in 0..Len(net["device"]) :
           net' = [net EXCEPT !["host"] = SubSeq(@, 1, h) \o <<Pkt("CNXN", 0, 0)>>,
                              !["device"] = SubSeq(@, d + 1, Len(@))]
    /\ UNCHANGED <<resends, up, downs>>

-----------------------------------------------------------------------------
(* The applications behind the descriptors (clients, services) *)

AppWrite(p, i) ==
    /\ p \in Writers
    /\ sock[p][i].st = "open"
    /\ fd[p][i].hup = "no"
    /\ fd[p][i].avail + fd[p][i].got < MaxRead
    /\ fd' = [fd EXCEPT ![p][i].avail = @ + 1]
    /\ UNCHANGED <<sock, next, net, online, resent, resends, link>>

AppHangup(p, i, how) ==
    /\ sock[p][i].st \in {"open", "closing"}
    /\ fd[p][i].hup = "no"
    /\ fd' = [fd EXCEPT ![p][i].hup = how]
    /\ UNCHANGED <<sock, next, net, online, resent, resends, link>>

-----------------------------------------------------------------------------
Init ==
    /\ sock = [p \in Side |-> [i \in Ids |-> NoSock]]
    /\ fd = [p \in Side |-> [i \in Ids |-> NewFd]]
    /\ next = [p \in Side |-> 1]
    /\ net = [p \in Side |-> <<>>]
    /\ online = [p \in Side |-> FALSE]
    /\ up = FALSE
    /\ resent = FALSE
    /\ downs = 0
    /\ runs = 0
    /\ resends = 0

Event(p, i) ==
    \/ \E k \in 1..Len(sock[p][i].q) : WriteSome(p, i, k)
    \/ WriteAll(p, i)
    \/ WriteError(p, i)
    \/ \E n \in 0..1, is_eof \in BOOLEAN : ReadEvent(p, i, n, is_eof)

App(p, i) ==
    \/ AppWrite(p, i)
    \/ \E how \in Hangups : AppHangup(p, i, how)

Next ==
    \/ Connect
    \/ ResendConnect
    \/ Break
    \/ HostRestart
    \/ \E p \in Side :
          \/ \E rigged \in Notify : ConnectToRemote(p, rigged)
          \/ HandlePacket(p)
          \/ HandleOffline(p)
          \/ \E i \in Ids : Event(p, i) \/ App(p, i)

Spec == Init /\ [][Next]_vars

\* The main thread goes round its event loop: it handles the packets the
\* reader thread passes on, and the descriptors whose peer hung up, which
\* poll() reports until they are closed.  Nothing is assumed of applications,
\* of the connection, or of descriptors that may never become writable.
Fairness ==
    \A p \in Side :
        /\ WF_vars(HandlePacket(p))
        /\ WF_vars(HandleOffline(p))
        /\ \A i \in Ids : WF_vars(\E n \in 0..1, is_eof \in BOOLEAN : ReadEvent(p, i, n, is_eof))

FairSpec == Spec /\ Fairness

-----------------------------------------------------------------------------
(* Properties *)

Packet == [cmd : {"CNXN", "OPEN", "OKAY", "WRTE", "CLSE"}, arg0 : Nat, arg1 : Nat,
           n : Nat, run : Nat]
Chunks == [src : Nat, n : Nat, run : Nat]
Socket == [st : {"none", "open", "closing", "dead"}, peer : Nat, rd : BOOLEAN, wr : BOOLEAN,
           q : Seq(Chunks), rig : BOOLEAN]
Descriptor == [avail : Nat, got : Nat, hup : {"no", "half", "full"}, out : Seq(Chunks),
               reply : {"none", "await", "OKAY", "FAIL"}, run : Nat]

\* Types of the variables.
TypeOK ==
    /\ sock \in [Side -> [Ids -> Socket]]
    /\ fd \in [Side -> [Ids -> Descriptor]]
    /\ next \in [Side -> Nat \ {0}]
    /\ net \in [Side -> Seq(Packet)]
    /\ online \in [Side -> BOOLEAN]
    /\ up \in BOOLEAN /\ resent \in BOOLEAN
    /\ downs \in Nat /\ runs \in Nat /\ resends \in Nat

Alive(p, i) == sock[p][i].st \in {"open", "closing"}
Open(p, i) == sock[p][i].st = "open"
Count(p, c, a0, a1) ==
    Cardinality({k \in 1..Len(net[p]) :
                    net[p][k].cmd = c /\ net[p][k].arg0 = a0 /\ net[p][k].arg1 = a1})
InFlight(p, c, a0, a1) == Count(p, c, a0, a1) > 0
\* Both ends have seen A_CNXN on the connection that is up, and no other is under way.
Settled == up /\ \A p \in Side : online[p] /\ ~InFlight(p, "CNXN", 0, 0)

QueueOK(s) ==
    /\ s.wr <=> s.q # <<>>
    /\ s.st = "closing" => s.wr /\ s.peer = 0 /\ ~s.rd
    /\ s.st = "open" /\ s.wr => s.peer # 0
    /\ s.rig => s.st = "open" /\ s.peer = 0

\* An asocket listens for FDE_WRITE exactly while it has packets queued; one
\* on the closing list is disconnected and has some (the CHECK_EQ at the end
\* of local_socket_close); one that has a packet queued has the peer that
\* local_socket_event_func calls ready() on when the queue drains; one that
\* still owes its client a status is not connected yet.
QueueInv == \A p \in Side, i \in Ids : QueueOK(sock[p][i])

\* Data never reaches a stream other than the one it was written to, across
\* restarts of the server that begin again with id 1.  Nothing in A_CNXN tells
\* which A_CNXN it answers, so that after several of them this can be said only
\* of the streams that are open once all were handled.
RunsApart ==
    \A p \in Side, i \in Ids :
        runs + resends < 2 \/ (Settled /\ Open(p, i)) =>
            \A k \in 1..Len(fd[p][i].out) : fd[p][i].out[k].run = fd[p][i].run

\* The flow-control token of each direction of a connected stream is in one
\* place: FDE_READ of the writer, an A_WRTE, the queue of the reader, or an
\* A_OKAY (until the writer hangs up).
OneCredit ==
    \A p \in Side, i, j \in Ids :
        LET o == Other(p)
            w == sock[p][i]
            r == sock[o][j]
        IN
        Settled /\ Open(p, i) /\ Open(o, j) /\ r.peer = i /\ w.peer \in {0, j}
            /\ fd[p][i].hup = "no"
        => Count(p, "WRTE", i, j) + Count(o, "OKAY", j, i)
             + (IF w.rd THEN 1 ELSE 0) + (IF r.q # <<>> THEN 1 ELSE 0) = 1

\* No end of a stream is left behind: its other end is connected to it, will
\* be by the A_OKAY under way, or an A_CLSE is on its way (or an A_OKAY that
\* the other side answers with one).
NoHalfOpen ==
    \A p \in Side, i \in Ids :
        LET j == sock[p][i].peer
            o == Other(p)
        IN
        Settled /\ Open(p, i) /\ j # 0
        => \/ j \in Ids /\ Open(o, j) /\ sock[o][j].peer = i
           \/ InFlight(p, "OKAY", i, j)
           \/ InFlight(o, "CLSE", j, i)

\* A smart socket client is never left without a status, and gets no data
\* before it (local_socket_ready_notify, local_socket_close_notify).
StatusFirst ==
    \A p \in Side, i \in Ids :
        fd[p][i].reply \in {"await", "FAIL"} =>
            /\ fd[p][i].out = <<>>
            /\ fd[p][i].reply = "await" <=> Alive(p, i)

\* A_OPEN is answered: the stream connects or closes.
OpenAnswered ==
    \A p \in Side, i \in Ids : (Open(p, i) /\ sock[p][i].peer = 0) ~> (~Open(p, i) \/ sock[p][i].peer # 0)

\* An end whose application hung up is closed, and when one end of a connected
\* stream is gone, so is the other in the end.
CloseReaches ==
    \A p \in Side, i \in Ids :
        /\ (Alive(p, i) /\ fd[p][i].hup # "no") ~> ~Alive(p, i)
        /\ \A j \in Ids :
              (Open(p, i) /\ sock[p][i].peer = j /\ ~(Open(Other(p), j) /\ sock[Other(p)][j].peer \in {0, i}))
                  ~> ~(Open(p, i) /\ sock[p][i].peer = j)

\* Streams of an earlier server process are closed on the device.
OldStreamsClosed ==
    \A i \in Ids : (Open("device", i) /\ fd["device"][i].run < runs) ~> ~Open("device", i)
=============================================================================
