----------------------------- MODULE HostSockets -----------------------------
(***************************************************************************)
(* The main thread of the adb server between its clients, its service      *)
(* threads and its transports: smart sockets (sockets.cpp), the requests   *)
(* they take (adb.cpp, services.cpp), pairs of local asockets, device      *)
(* trackers (transport.cpp) and forwards (adb_listeners.cpp), driven by    *)
(* the event loop of FdEvent.                                              *)
(*                                                                         *)
(* Every client makes one connection, so its asocket, its smart socket,    *)
(* its service thread with the asocket of that, and its tracker are named  *)
(* after it.  A callback is one step, except local_socket_event_func,      *)
(* which goes through the steps of cur: what its peer does in between may  *)
(* free the asocket it works on, and clients and threads go on meanwhile.  *)
(***************************************************************************)
EXTENDS Naturals, Sequences, FiniteSets

CONSTANTS
    Clients,        \* connections that clients make, to the server or to a forward
    Transports,     \* addresses of atransports
    NoTransport,    \* nullptr
    Names,          \* local names of forwards
    Requests,       \* Requests[c]: what client c writes; one with none dials forwards
    MaxUnits,       \* bound: how many of them each client writes
    MaxUpdates      \* bound: registrations and A_CNXN handled

Req(kind, t, l) == [kind |-> kind, t |-> t, l |-> l]
Kinds == {"half", "data", "transport", "open", "thread", "track",
          "forward", "norebind", "killforward", "killall"}

ASSUME HostAssumption ==
    /\ NoTransport \notin Transports
    /\ Requests \in [Clients -> SUBSET [kind : Kinds, t : Transports, l : Names]]
    /\ MaxUnits \in Nat
    /\ MaxUpdates \in Nat

Socks == {"client", "service"} \X Clients
Client(c) == <<"client", c>>
Service(c) == <<"service", c>>
Mate(x) == IF x[1] = "client" THEN Service(x[2]) ELSE Client(x[2])
Lfd(l) == <<"listener", l>>
HostFds == Socks \cup {Lfd(l) : l \in Names}

VARIABLES
    fde, pending,   \* the event loop
    cur,            \* the callback that runs
    sock,           \* sock[x]: the local asocket x
    smart,          \* smart[c]: the smart socket of client c
    tracker,        \* device_tracker_list: the clients with a tracker
    last,           \* last[c]: the device list last sent to client c
    lst,            \* lst[l]: the alistener with local name l
    disc,           \* disc[t]: atransport::disconnects_
    tr,             \* tr[t]: whether t is listed, and its connection state
    thread,         \* thread[c]: the service thread of client c
    cl,             \* cl[c]: the client and its end of the connection
    updates         \* registrations and A_CNXN so far

INSTANCE FdEvent WITH Fds <- HostFds

vars == <<fde, pending, cur, sock, smart, tracker, last, lst, disc, tr, thread, cl, updates>>

-----------------------------------------------------------------------------
(* An asocket.  st as in AdbStream.  peer: "local" is its mate, "smart" and *)
(* "tracker" those of its client, "remote" a stream, "null" none.  trans:   *)
(* asocket::transport, which stays when it is closed.  q: packets queued.   *)
(* rig: ready and close are the notify variants.                            *)
Asocket(st, peer, trans, rig) == [st |-> st, peer |-> peer, trans |-> trans, q |-> 0, rig |-> rig]
NoSock == Asocket("none", "null", NoTransport, FALSE)
Dead == Asocket("dead", "null", NoTransport, FALSE)
NoSmart == [alive |-> FALSE, trans |-> NoTransport]
NoListener == [on |-> FALSE, trans |-> NoTransport]
NoCall == [pc |-> "none", fd |-> <<>>, ev |-> {}, data |-> <<>>, eof |-> FALSE, r |-> 0]
\* st: "idle", "dial" (in the backlog of the forward at), "reset", "conn".  in: what it wrote and
\* the server has not read.  n: how often it wrote.  owed: it waits for a status.
NewClient == [st |-> "idle", at |-> {}, in |-> <<>>, n |-> 0, hup |-> "no", owed |-> FALSE]
NewThread == [st |-> "none", out |-> 0]

Idle == cur.pc = "none"
Alive(x) == sock[x].st \in {"open", "closing"}
InCall(x, pc) == cur.pc = pc /\ cur.fd = x
Return == cur' = NoCall

\* The application behind x hung up, or closed its end so that writes fail.
HungUp(x) == IF x[1] = "client" THEN cl[x[2]].hup # "no" ELSE thread[x[2]].st = "done"
WriteFails(x) == IF x[1] = "client" THEN cl[x[2]].hup = "full" ELSE thread[x[2]].st = "done"

\* list_transports: an atransport whose threads are ending is listed as offline.
DeviceList == [t \in Transports |-> IF tr[t] = "ending" THEN "offline" ELSE tr[t]]
\* acquire_one_transport: the one that was asked for, if it is online.
Acquired(t) == t # NoTransport /\ tr[t] = "online"

-----------------------------------------------------------------------------
(* Closing *)

\* Mutant: local_socket_close does not close its peer.
VictimsAlone(X) == X

\* s->close(s) for s in X: a local peer is closed with it.
Victims(X) == X \cup {Mate(x) : x \in {y \in X : sock[y].peer = "local"}}

\* local_socket_close.
Closed(s, has_write_error) ==
    IF s.st = "closing" \/ has_write_error \/ s.q = 0 THEN Dead
    ELSE [s EXCEPT !.st = "closing", !.peer = "null", !.rig = FALSE]

\* local_socket_destroy removes the fdevent, the closing list keeps FDE_WRITE.
CloseChange(x, err) ==
    IF Closed(sock[x], x \in err).st = "dead" THEN Remove ELSE Set(fde[x].want \ {"READ"})

\* X is closed (err: after a write error) and a packet is queued for each of Q;
\* more: other fdevents that change.  smart_socket_close and device_tracker_close
\* follow from closing their peer; a rigged socket has told its client; what
\* waits in the backlog of a listener that is removed is reset.
Effects(X, err, Q, more) ==
    LET V == Victims(X) IN
    /\ sock' = [x \in Socks |-> IF x \in V THEN Closed(sock[x], x \in err)
                                ELSE IF x \in Q THEN [sock[x] EXCEPT !.q = @ + 1] ELSE sock[x]]
    /\ smart' = [c \in Clients |-> IF Client(c) \in V THEN NoSmart ELSE smart[c]]
    /\ tracker' = {c \in tracker : Client(c) \notin V}
    /\ cl' = [c \in Clients |->
                  IF Client(c) \in V THEN [cl[c] EXCEPT !.owed = FALSE]
                  ELSE IF cl[c].st = "dial" /\ \E l \in cl[c].at : Lfd(l) \in DOMAIN more
                  THEN [cl[c] EXCEPT !.st = "reset"] ELSE cl[c]]
    /\ LoopChange([x \in V \cup Q \cup DOMAIN more |->
                       IF x \in V THEN CloseChange(x, err)
                       ELSE IF x \in Q THEN Set(fde[x].want \cup {"WRITE"}) ELSE more[x]])
Nothing == [x \in {} |-> Remove]

-----------------------------------------------------------------------------
(* Clients *)

\* ss_listener_event_func: create_local_socket, connect_to_smartsocket.
AcceptClient(c) ==
    /\ Idle
    /\ cl[c].st = "idle" /\ Requests[c] # {}
    /\ cl' = [cl EXCEPT ![c].st = "conn"]
    /\ sock' = [sock EXCEPT ![Client(c)] = Asocket("open", "smart", NoTransport, FALSE)]
    /\ smart' = [smart EXCEPT ![c].alive = TRUE]
    /\ LoopChange([x \in {Client(c)} |-> Install({"READ"})])
    /\ UNCHANGED <<cur, tracker, last, lst, disc, tr, thread, updates>>

Dial(c, l) ==
    /\ cl[c].st = "idle" /\ Requests[c] = {} /\ lst[l].on
    /\ cl' = [cl EXCEPT ![c].st = "dial", ![c].at = {l}]
    /\ UNCHANGED <<fde, pending, cur, sock, smart, tracker, last, lst, disc, tr, thread, updates>>

\* A client waits for the status of a request before it writes the next.
ClientWrites(c, u) ==
    /\ cl[c].st = "conn" /\ sock[Client(c)].st = "open"
    /\ cl[c].hup = "no" /\ ~cl[c].owed /\ cl[c].n < MaxUnits
    /\ cl' = [cl EXCEPT ![c].in = Append(@, u), ![c].n = @ + 1,
                        ![c].owed = smart[c].alive /\ u.kind # "half"]
    /\ UNCHANGED <<fde, pending, cur, sock, smart, tracker, last, lst, disc, tr, thread, updates>>

ClientHangsUp(c, how) ==
    /\ cl[c].st = "conn" /\ Alive(Client(c))
    /\ cl[c].hup = "no" \/ (cl[c].hup = "half" /\ how = "full")
    /\ cl' = [cl EXCEPT ![c].hup = how]
    /\ UNCHANGED <<fde, pending, cur, sock, smart, tracker, last, lst, disc, tr, thread, updates>>

\* A service thread (wait_for_state, connect_service) answers and closes its end...
ThreadAnswers(c) ==
    /\ thread[c].st = "run"
    /\ thread' = [thread EXCEPT ![c] = [st |-> "done", out |-> 1]]
    /\ UNCHANGED <<fde, pending, cur, sock, smart, tracker, last, lst, disc, tr, cl, updates>>

\* ... or wait_for_state sees that the server closed the other end.
ThreadSeesHup(c) ==
    /\ thread[c].st = "run" /\ ~Alive(Service(c))
    /\ thread' = [thread EXCEPT ![c].st = "done"]
    /\ UNCHANGED <<fde, pending, cur, sock, smart, tracker, last, lst, disc, tr, cl, updates>>

-----------------------------------------------------------------------------
(* The event loop *)

HasInput(x) == IF x[1] = "client" THEN cl[x[2]].in # <<>> ELSE thread[x[2]].out > 0

\* Mutant: POLLRDHUP and POLLHUP are reported only to those who want FDE_READ.
ReportedIfWanted(x, writable) ==
    IF x[1] = "listener"
    THEN {"READ" : c \in {d \in Clients : cl[d].st = "dial" /\ cl[d].at = {x[2]}}}
    ELSE (IF "READ" \in fde[x].want /\ HasInput(x) THEN {"READ"} ELSE {})
         \cup (IF "READ" \in fde[x].want /\ HungUp(x) THEN {"READ", "ERROR"} ELSE {})
         \cup (IF "WRITE" \in fde[x].want /\ x \in writable THEN {"WRITE"} ELSE {})

\* What poll() reports of x: input that is wanted, a hang-up whether wanted or
\* not, room to write for those that want it and have it.
Reported(x, writable) ==
    IF x[1] = "listener"
    THEN {"READ" : c \in {d \in Clients : cl[d].st = "dial" /\ cl[d].at = {x[2]}}}
    ELSE (IF "READ" \in fde[x].want /\ HasInput(x) THEN {"READ"} ELSE {})
         \cup (IF HungUp(x) THEN {"READ", "ERROR"} ELSE {})
         \cup (IF "WRITE" \in fde[x].want /\ x \in writable THEN {"WRITE"} ELSE {})

Poll(writable) ==
    /\ Idle
    /\ Process([x \in HostFds |-> IF fde[x].active THEN Reported(x, writable) ELSE {}])
    /\ UNCHANGED <<cur, sock, smart, tracker, last, lst, disc, tr, thread, cl, updates>>

Dispatch(x) ==
    /\ Idle
    /\ CallFdfunc(x)
    /\ cur' = [NoCall EXCEPT !.pc = "event", !.fd = x, !.ev = fde[x].events]
    /\ UNCHANGED <<sock, smart, tracker, last, lst, disc, tr, thread, cl, updates>>

\* listener_event_func: accept, create_local_socket, connect_to_remote.
Accept(l, c) ==
    /\ InCall(Lfd(l), "event")
    /\ cl[c].st = "dial" /\ cl[c].at = {l}
    /\ cl' = [cl EXCEPT ![c].st = "conn"]
    /\ sock' = [sock EXCEPT ![Client(c)] = Asocket("open", "null", lst[l].trans, FALSE)]
    /\ LoopChange([x \in {Client(c)} |-> Install({})])
    /\ Return
    /\ UNCHANGED <<smart, tracker, last, lst, disc, tr, thread, updates>>

-----------------------------------------------------------------------------
(* local_socket_event_func *)

\* FDE_WRITE, and the descriptor blocks before the queue is empty.
EventWriteSome(x, k) ==
    /\ InCall(x, "event") /\ "WRITE" \in cur.ev
    /\ k < sock[x].q
    /\ sock' = [sock EXCEPT ![x].q = @ - k]
    /\ Return
    /\ UNCHANGED <<fde, pending, smart, tracker, last, lst, disc, tr, thread, cl, updates>>

EventWriteFails(x) ==
    /\ InCall(x, "event") /\ "WRITE" \in cur.ev
    /\ sock[x].q > 0 /\ WriteFails(x)
    /\ Effects({x}, {x}, {}, Nothing)
    /\ Return
    /\ UNCHANGED <<last, lst, disc, tr, thread, updates>>

\* The queue drains: a closing socket is destroyed...
EventWriteCloses(x) ==
    /\ InCall(x, "event") /\ "WRITE" \in cur.ev
    /\ sock[x].st = "closing"
    /\ Effects({x}, {}, {}, Nothing)
    /\ Return
    /\ UNCHANGED <<last, lst, disc, tr, thread, updates>>

\* Mutant: the peer is not told that it may go on.
ReadyChangeNone(x) == [y \in {x} |-> Set(fde[y].want \ {"WRITE"})]

\* What ready of the peer of x does to fdevents: local_socket_ready listens
\* again; smart sockets, trackers and remote sockets change none here.
ReadyChange(x) ==
    [y \in {x} \cup (IF sock[x].peer = "local" THEN {Mate(x)} ELSE {}) |->
        IF y = x THEN Set(fde[y].want \ {"WRITE"}) ELSE Set(fde[y].want \cup {"READ"})]

\* ... any other stops listening for FDE_WRITE, tells its peer, and goes on to FDE_READ.
EventWriteAll(x) ==
    /\ InCall(x, "event") /\ "WRITE" \in cur.ev
    /\ sock[x].st = "open"
    /\ sock' = [sock EXCEPT ![x].q = 0]
    /\ LoopChange(ReadyChange(x))
    /\ cur' = IF "READ" \in cur.ev THEN [cur EXCEPT !.ev = @ \ {"WRITE"}] ELSE NoCall
    /\ UNCHANGED <<smart, tracker, last, lst, disc, tr, thread, cl, updates>>

\* FDE_READ: everything there is, to the end of file if that has come.
EventRead(x) ==
    LET eof == HungUp(x)
        data == IF x[1] = "client" THEN cl[x[2]].in
                ELSE [k \in 1..thread[x[2]].out |-> "data"]
    IN
    /\ InCall(x, "event") /\ "READ" \in cur.ev /\ "WRITE" \notin cur.ev
    /\ IF x[1] = "client"
       THEN cl' = [cl EXCEPT ![x[2]].in = <<>>] /\ UNCHANGED thread
       ELSE thread' = [thread EXCEPT ![x[2]].out = 0] /\ UNCHANGED cl
    /\ cur' = IF data # <<>> /\ sock[x].peer # "null"
              THEN [cur EXCEPT !.pc = "enqueue", !.data = data, !.eof = eof]
              ELSE [cur EXCEPT !.pc = "after", !.eof = eof]
    /\ UNCHANGED <<fde, pending, sock, smart, tracker, last, lst, disc, tr, updates>>

\* peer->enqueue returned r, not negative: the step after it is still to come.
Returned(r) == cur' = [cur EXCEPT !.pc = "after", !.data = <<>>, !.r = r]

\* local_socket_enqueue of the mate: written at once,
EnqueueWrites(x) ==
    /\ InCall(x, "enqueue") /\ sock[x].peer = "local"
    /\ sock[Mate(x)].q = 0
    /\ Returned(0)
    /\ UNCHANGED <<fde, pending, sock, smart, tracker, last, lst, disc, tr, thread, cl, updates>>

\* Mutant: local_socket_enqueue returns 0 for a packet it queued.
EnqueueQueuesReady(x) ==
    /\ InCall(x, "enqueue") /\ sock[x].peer = "local"
    /\ Effects({}, {}, {Mate(x)}, Nothing)
    /\ Returned(0)
    /\ UNCHANGED <<last, lst, disc, tr, thread, updates>>

\* queued (behind others, or on EAGAIN),
EnqueueQueues(x) ==
    /\ InCall(x, "enqueue") /\ sock[x].peer = "local"
    /\ Effects({}, {}, {Mate(x)}, Nothing)
    /\ Returned(1)
    /\ UNCHANGED <<last, lst, disc, tr, thread, updates>>

\* or a write error: the mate is closed, x with it, and 1 is returned.
EnqueueFails(x) ==
    /\ InCall(x, "enqueue") /\ sock[x].peer = "local"
    /\ sock[Mate(x)].q = 0 /\ WriteFails(Mate(x))
    /\ Effects({Mate(x)}, {Mate(x)}, {}, Nothing)
    /\ Returned(1)
    /\ UNCHANGED <<last, lst, disc, tr, thread, updates>>

\* remote_socket_enqueue: A_WRTE is sent.
EnqueueRemote(x) ==
    /\ InCall(x, "enqueue") /\ sock[x].peer = "remote"
    /\ Returned(1)
    /\ UNCHANGED <<fde, pending, sock, smart, tracker, last, lst, disc, tr, thread, cl, updates>>

\* device_tracker_enqueue closes both and returns -1.
EnqueueTracker(x) ==
    /\ InCall(x, "enqueue") /\ sock[x].peer = "tracker"
    /\ Effects({x}, {}, {}, Nothing)
    /\ Return
    /\ UNCHANGED <<last, lst, disc, tr, thread, updates>>

\* After a read, if the asocket is still there: r > 0 stops reading, the end of
\* file closes.
AfterRead(x) ==
    /\ InCall(x, "after") /\ Alive(x)
    /\ IF cur.eof THEN Effects({x}, {}, {}, Nothing)
       ELSE Effects({}, {}, {}, IF cur.r > 0 THEN [y \in {x} |-> Set(fde[y].want \ {"READ"})]
                                ELSE Nothing)
    /\ Return
    /\ UNCHANGED <<last, lst, disc, tr, thread, updates>>

\* It was freed.  Nothing more happens if its memory still is as it was (state
\* is 0, so fdevent_del returns at once) and there is no end of file, which
\* frees it again; anything else ends the process.
AfterFree(x) ==
    /\ InCall(x, "after") /\ ~Alive(x)
    /\ \/ ~cur.eof /\ Return
       \/ cur' = [cur EXCEPT !.pc = "crashed"]
    /\ UNCHANGED <<fde, pending, sock, smart, tracker, last, lst, disc, tr, thread, cl, updates>>

-----------------------------------------------------------------------------
(* smart_socket_enqueue *)

\* The request of client c is complete: it is u.
Asked(c, u) ==
    /\ InCall(Client(c), "enqueue") /\ sock[Client(c)].peer = "smart"
    /\ \E k \in 1..Len(cur.data) :
          /\ cur.data[k] = u /\ u.kind # "half"
          /\ \A j \in 1..k - 1 : cur.data[j].kind = "half"

\* Less than the header, or than the length it names: wait for more.
SmartWaits(c) ==
    /\ InCall(Client(c), "enqueue") /\ sock[Client(c)].peer = "smart"
    /\ \A k \in 1..Len(cur.data) : cur.data[k].kind = "half"
    /\ Returned(0)
    /\ UNCHANGED <<fde, pending, sock, smart, tracker, last, lst, disc, tr, thread, cl, updates>>

\* fail: the smart socket closes its client and returns -1.  The client was told
\* OKAY or FAIL if the request was one.
SmartCloses(c, more) ==
    /\ Effects({Client(c)}, {}, {}, more)
    /\ Return

\* Anything that is answered at once: a bad length, what handle_host_request answers,
\* an unknown service.
SmartAnswers(c, u) ==
    /\ Asked(c, u) /\ u.kind = "data"
    /\ SmartCloses(c, Nothing)
    /\ UNCHANGED <<last, lst, disc, tr, thread, updates>>

\* "transport": the smart socket stays and remembers the transport.
SmartTransport(c, u) ==
    /\ Asked(c, u) /\ u.kind = "transport"
    /\ smart' = [smart EXCEPT ![c].trans = IF Acquired(u.t) THEN u.t ELSE @]
    /\ cl' = [cl EXCEPT ![c].owed = FALSE]
    /\ Returned(0)
    /\ UNCHANGED <<fde, pending, sock, tracker, last, lst, disc, tr, thread, updates>>

\* A service of a device without a transport, or with one that is offline.
SmartOpenFails(c, u) ==
    /\ Asked(c, u) /\ u.kind = "open"
    /\ ~Acquired(smart[c].trans)
    /\ SmartCloses(c, Nothing)
    /\ UNCHANGED <<last, lst, disc, tr, thread, updates>>

\* A service of a device: the client is rigged, given the transport, connected.
SmartOpen(c, u) ==
    /\ Asked(c, u) /\ u.kind = "open"
    /\ Acquired(smart[c].trans)
    /\ sock' = [sock EXCEPT ![Client(c)] = Asocket("open", "null", smart[c].trans, TRUE)]
    /\ smart' = [smart EXCEPT ![c] = NoSmart]
    /\ Returned(1)
    /\ UNCHANGED <<fde, pending, tracker, last, lst, disc, tr, thread, cl, updates>>

\* A host service with a thread: its asocket becomes the peer, and is ready.
SmartThread(c, u) ==
    /\ Asked(c, u) /\ u.kind = "thread"
    /\ thread' = [thread EXCEPT ![c].st = "run"]
    /\ sock' = [sock EXCEPT ![Client(c)].peer = "local",
                            ![Service(c)] = Asocket("open", "local", NoTransport, FALSE)]
    /\ smart' = [smart EXCEPT ![c] = NoSmart]
    /\ cl' = [cl EXCEPT ![c].owed = FALSE]
    /\ LoopChange([x \in {Service(c)} |-> Install({"READ"})])
    /\ Returned(0)
    /\ UNCHANGED <<tracker, last, lst, disc, tr, updates>>

\* "track-devices": the tracker becomes the peer, and ready sends the list...
SmartTrack(c, u, queued) ==
    /\ Asked(c, u) /\ u.kind = "track"
    /\ tracker' = tracker \cup {c}
    /\ last' = [last EXCEPT ![c] = DeviceList]
    /\ sock' = [sock EXCEPT ![Client(c)].peer = "tracker", ![Client(c)].q = IF queued THEN 1 ELSE 0]
    /\ smart' = [smart EXCEPT ![c] = NoSmart]
    /\ cl' = [cl EXCEPT ![c].owed = FALSE]
    /\ LoopChange(IF queued THEN [x \in {Client(c)} |-> Set(fde[x].want \cup {"WRITE"})]
                  ELSE Nothing)
    /\ Returned(0)
    /\ UNCHANGED <<lst, disc, tr, thread, updates>>

\* ... which may fail and close the client and the tracker, and 0 is returned.
SmartTrackFails(c, u) ==
    /\ Asked(c, u) /\ u.kind = "track"
    /\ WriteFails(Client(c))
    /\ Effects({Client(c)}, {Client(c)}, {}, Nothing)
    /\ Returned(0)
    /\ UNCHANGED <<last, lst, disc, tr, thread, updates>>

-----------------------------------------------------------------------------
(* Forwards: handle_forward_request, adb_listeners.cpp *)

\* Mutant: rebinding does not leave the list of the old transport.
RebindDiscKeeps(l, t) == [disc EXCEPT ![t] = @ \cup {l}]

\* install_listener for a name in use: RemoveDisconnect, AddDisconnect.
RebindDisc(l, t) == [disc EXCEPT ![lst[l].trans] = @ \ {l}, ![t] = @ \cup {l}]

\* install_listener: a new listener, or an old one for another transport.
SmartForward(c, u) ==
    LET old == lst[u.l].on IN
    /\ Asked(c, u) /\ u.kind \in {"forward", "norebind"}
    /\ Acquired(u.t) /\ ~(old /\ u.kind = "norebind")
    /\ lst' = [lst EXCEPT ![u.l] = [on |-> TRUE, trans |-> u.t]]
    /\ disc' = IF old THEN (IF lst[u.l].trans # u.t THEN RebindDisc(u.l, u.t) ELSE disc)
               ELSE [disc EXCEPT ![u.t] = @ \cup {u.l}]
    /\ SmartCloses(c, [x \in (IF old THEN {} ELSE {Lfd(u.l)}) |-> Install({"READ"})])
    /\ UNCHANGED <<last, tr, thread, updates>>

\* No such transport or listener, a name in use, a port that cannot be bound.
SmartForwardFails(c, u) ==
    /\ Asked(c, u) /\ u.kind \in {"forward", "norebind", "killforward"}
    /\ \/ ~Acquired(u.t)
       \/ ~lst[u.l].on
       \/ u.kind = "norebind"
    /\ SmartCloses(c, Nothing)
    /\ UNCHANGED <<last, lst, disc, tr, thread, updates>>

\* remove_listener, remove_all_listeners: ~alistener removes the fdevent and
\* the disconnect.
SmartKillForward(c, u) ==
    LET gone == IF u.kind = "killall" THEN {l \in Names : lst[l].on} ELSE {u.l} IN
    /\ Asked(c, u)
    /\ \/ u.kind = "killall"
       \/ u.kind = "killforward" /\ Acquired(u.t) /\ lst[u.l].on
    /\ lst' = [l \in Names |-> IF l \in gone THEN NoListener ELSE lst[l]]
    /\ disc' = [t \in Transports |-> disc[t] \ gone]
    /\ SmartCloses(c, [x \in {Lfd(l) : l \in gone} |-> Remove])
    /\ UNCHANGED <<last, tr, thread, updates>>

-----------------------------------------------------------------------------
(* Transports *)

\* Mutant: asockets that no device has answered yet are left out.
UsersConnected(t) == {x \in Socks : sock[x].st = "open" /\ sock[x].trans = t /\ sock[x].peer # "null"}

\* close_all_sockets: asockets with transport t, or whose peer has it.
Users(t) ==
    {x \in Socks : /\ sock[x].st = "open"
                   /\ \/ sock[x].trans = t
                      \/ sock[x].peer = "smart" /\ smart[x[2]].trans = t}

\* handle_offline, RunDisconnects: the sockets of t and its listeners go.
Forwards(t) == {l \in Names : l \in disc[t]}
Disconnected(t) ==
    /\ lst' = [l \in Names |-> IF l \in Forwards(t) THEN NoListener ELSE lst[l]]
    /\ disc' = [disc EXCEPT ![t] = {}]

\* Mutant: a listener is freed and its fdevent stays.
ListenerChangeNone(t) == Nothing

ListenerChange(t) == [x \in {Lfd(l) : l \in Forwards(t)} |-> Remove]

\* update_transports: each tracker's client is sent the list, which is written,
\* queued, or fails and closes the client.
TrackersFail(F) == \A c \in F : sock[Client(c)].q = 0 /\ WriteFails(Client(c))
TrackersQueue(F, Q) == \A c \in tracker \ (F \cup Q) : sock[Client(c)].q = 0
Told(F) == last' = [c \in Clients |-> IF c \in tracker \ F THEN DeviceList' ELSE last[c]]

\* X is closed, the listeners in more go, and the trackers are told.
UpdateTransports(X, more) ==
    \E F \in SUBSET tracker : \E Q \in SUBSET (tracker \ F) :
        /\ TrackersFail(F) /\ TrackersQueue(F, Q)
        /\ Effects(X \cup {Client(c) : c \in F}, {Client(c) : c \in F},
                   {Client(c) : c \in Q}, more)
        /\ Told(F)

\* transport_registration_func.
Register(t) ==
    /\ Idle /\ tr[t] = "none" /\ updates < MaxUpdates
    /\ updates' = updates + 1
    /\ tr' = [tr EXCEPT ![t] = "offline"]
    /\ UpdateTransports({}, Nothing)
    /\ UNCHANGED <<cur, lst, disc, thread>>

\* A_AUTH: the device wants a signature.
HandleToken(t) ==
    /\ Idle /\ tr[t] = "offline"
    /\ tr' = [tr EXCEPT ![t] = "unauthorized"]
    /\ UNCHANGED <<fde, pending, cur, sock, smart, tracker, last, lst, disc, thread, cl, updates>>

\* A_CNXN, handle_new_connection.
HandleCnxn(t) ==
    /\ Idle /\ tr[t] \in {"offline", "unauthorized", "online"} /\ updates < MaxUpdates
    /\ updates' = updates + 1
    /\ tr' = [tr EXCEPT ![t] = "online"]
    /\ IF tr[t] # "offline"
       THEN UpdateTransports(Users(t), ListenerChange(t)) /\ Disconnected(t)
       ELSE UpdateTransports({}, Nothing) /\ UNCHANGED <<lst, disc>>
    /\ UNCHANGED <<cur, thread>>

\* SYNC(0, 0): the reader thread has left; handle_offline.
HandleSyncOffline(t) ==
    /\ Idle /\ tr[t] \in {"offline", "unauthorized", "online"}
    /\ tr' = [tr EXCEPT ![t] = "ending"]
    /\ Effects(Users(t), {}, {}, ListenerChange(t))
    /\ Disconnected(t)
    /\ UNCHANGED <<cur, last, thread, updates>>

\* Mutant: the trackers are not told of a removal.
RemoveTransportSilent(t) ==
    /\ Idle /\ tr[t] = "ending"
    /\ tr' = [tr EXCEPT ![t] = "none"]
    /\ UNCHANGED <<fde, pending, cur, sock, smart, tracker, last, lst, disc, thread, cl, updates>>

\* transport_registration_func: the last thread has left, t is deleted.
RemoveTransport(t) ==
    /\ Idle /\ tr[t] = "ending"
    /\ tr' = [tr EXCEPT ![t] = "none"]
    /\ UpdateTransports({}, Nothing)
    /\ UNCHANGED <<cur, lst, disc, thread, updates>>

\* Packets for the stream of client c come from its transport while that is online.
Streaming(c) ==
    /\ sock[Client(c)].st = "open" /\ sock[Client(c)].peer \in {"null", "remote"}
    /\ Acquired(sock[Client(c)].trans)

\* A_OKAY for the stream of client c: connects it, or lets it go on.
StreamOkay(c) ==
    LET s == sock[Client(c)] IN
    /\ Idle /\ Streaming(c)
    /\ sock' = [sock EXCEPT ![Client(c)].peer = "remote", ![Client(c)].rig = FALSE]
    /\ cl' = [cl EXCEPT ![c].owed = IF s.rig THEN FALSE ELSE @]
    /\ LoopChange([x \in {Client(c)} |-> Set(fde[x].want \cup {"READ"})])
    /\ UNCHANGED <<cur, smart, tracker, last, lst, disc, tr, thread, updates>>

\* A_WRTE for it, which is queued, on EAGAIN.
StreamWrte(c) ==
    /\ Idle /\ Streaming(c) /\ sock[Client(c)].peer = "remote" /\ sock[Client(c)].q = 0
    /\ Effects({}, {}, {Client(c)}, Nothing)
    /\ UNCHANGED <<cur, last, lst, disc, tr, thread, updates>>

\* A_CLSE for it, or an A_WRTE that meets a write error.
StreamClse(c) ==
    /\ Idle /\ Streaming(c)
    /\ Effects({Client(c)}, {}, {}, Nothing)
    /\ UNCHANGED <<cur, last, lst, disc, tr, thread, updates>>

-----------------------------------------------------------------------------
Init ==
    /\ LoopInit
    /\ cur = NoCall
    /\ sock = [x \in Socks |-> NoSock]
    /\ smart = [c \in Clients |-> NoSmart]
    /\ tracker = {}
    /\ last = [c \in Clients |-> [t \in Transports |-> "none"]]
    /\ lst = [l \in Names |-> NoListener]
    /\ disc = [t \in Transports |-> {}]
    /\ tr = [t \in Transports |-> "none"]
    /\ thread = [c \in Clients |-> NewThread]
    /\ cl = [c \in Clients |-> NewClient]
    /\ updates = 0

\* Something is written, or cannot be.
EventWrites(x) ==
    \/ \E k \in 1..sock[x].q : EventWriteSome(x, k)
    \/ EventWriteFails(x)
    \/ EventWriteCloses(x)
    \/ EventWriteAll(x)

EventFunc(x) ==
    \/ EventWriteSome(x, 0)
    \/ EventWrites(x)
    \/ EventRead(x)
    \/ EnqueueWrites(x)
    \/ EnqueueQueues(x)
    \/ EnqueueFails(x)
    \/ EnqueueRemote(x)
    \/ EnqueueTracker(x)
    \/ AfterRead(x)
    \/ AfterFree(x)

SmartEnqueue(c) ==
    \/ SmartWaits(c)
    \/ \E u \in Requests[c] :
          \/ SmartAnswers(c, u)
          \/ SmartTransport(c, u)
          \/ SmartOpenFails(c, u)
          \/ SmartOpen(c, u)
          \/ SmartThread(c, u)
          \/ \E queued \in BOOLEAN : SmartTrack(c, u, queued)
          \/ SmartTrackFails(c, u)
          \/ SmartForward(c, u)
          \/ SmartForwardFails(c, u)
          \/ SmartKillForward(c, u)

Callback ==
    \/ \E x \in HostFds : Dispatch(x)
    \/ \E l \in Names, c \in Clients : Accept(l, c)
    \/ \E x \in Socks : EventFunc(x)
    \/ \E c \in Clients : SmartEnqueue(c)

Loop ==
    \/ \E writable \in SUBSET {x \in Socks : "WRITE" \in fde[x].want} : Poll(writable)
    \/ Callback

Stream(c) == StreamOkay(c) \/ StreamWrte(c) \/ StreamClse(c)

Transport(t) ==
    Register(t) \/ HandleToken(t) \/ HandleCnxn(t) \/ HandleSyncOffline(t) \/ RemoveTransport(t)

User(c) ==
    \/ AcceptClient(c)
    \/ \E l \in Names : Dial(c, l)
    \/ \E u \in Requests[c] : ClientWrites(c, u)
    \/ \E how \in {"half", "full"} : ClientHangsUp(c, how)

Next ==
    \/ Loop
    \/ \E c \in Clients : User(c) \/ Stream(c) \/ ThreadAnswers(c) \/ ThreadSeesHup(c)
    \/ \E t \in Transports : Transport(t)

Spec == Init /\ [][Next]_vars

\* The main thread goes round its loop.  A packet of a device is an event of the
\* loop like any other: every round reports it and comes to it, whatever else
\* runs first (strong fairness), and a device answers A_OPEN (AdbStream).
\* A packet that is written a part at a time gets done (strong fairness).
\* wait_for_state polls its descriptor every second.  Nothing is assumed of
\* clients, of what a service waits for, or of descriptors becoming writable.
Fairness ==
    /\ WF_vars(Poll({}) \/ Callback)
    /\ \A x \in Socks : SF_vars(EventWrites(x))
    /\ \A c \in Clients :
          /\ SF_vars(StreamOkay(c) \/ StreamClse(c))
          /\ WF_vars(ThreadSeesHup(c))

FairSpec == Spec /\ Fairness

-----------------------------------------------------------------------------
(* Properties *)

States == {"none", "offline", "unauthorized", "online"}

\* Types of the variables.
TypeOK ==
    /\ LoopType
    /\ cur.pc \in {"none", "event", "enqueue", "after", "crashed"}
    /\ cur.fd \in HostFds \cup {<<>>} /\ cur.ev \subseteq Events
    /\ cur.eof \in BOOLEAN /\ cur.r \in {0, 1}
    /\ sock \in [Socks -> [st : {"none", "open", "closing", "dead"},
                           peer : {"null", "local", "smart", "tracker", "remote"},
                           trans : Transports \cup {NoTransport}, q : Nat, rig : BOOLEAN]]
    /\ smart \in [Clients -> [alive : BOOLEAN, trans : Transports \cup {NoTransport}]]
    /\ tracker \subseteq Clients
    /\ last \in [Clients -> [Transports -> States]]
    /\ lst \in [Names -> [on : BOOLEAN, trans : Transports \cup {NoTransport}]]
    /\ disc \in [Transports -> SUBSET Names]
    /\ tr \in [Transports -> States \cup {"ending"}]
    /\ thread \in [Clients -> [st : {"none", "run", "done"}, out : 0..1]]
    /\ cl \in [Clients -> [st : {"idle", "dial", "reset", "conn"}, at : SUBSET Names,
                           in : Seq(UNION {Requests[c] : c \in Clients}), n : Nat, hup : {"no", "half", "full"},
                           owed : BOOLEAN]]
    /\ updates \in Nat

\* Peers point to each other and to nothing that was freed: an asocket whose peer
\* is local has a mate that is open and has it for a peer; a smart socket and a
\* tracker on device_tracker_list exist exactly as long as the client they serve
\* has them for a peer; only an open asocket has a peer.
PeersAgree ==
    /\ \A x \in Socks :
          /\ sock[x].peer = "local" => sock[Mate(x)].st = "open" /\ sock[Mate(x)].peer = "local"
          /\ sock[x].peer # "null" => sock[x].st = "open"
    /\ \A c \in Clients :
          /\ smart[c].alive <=> sock[Client(c)].peer = "smart"
          /\ c \in tracker <=> sock[Client(c)].peer = "tracker"

\* Every asocket and listener that lives has an active fdevent, and no other: none
\* is left in g_poll_node_map when its owner was freed.
FdeOwned ==
    /\ \A x \in Socks : fde[x].active <=> Alive(x)
    /\ \A l \in Names : fde[Lfd(l)].active <=> lst[l].on

\* In a pair of local asockets nobody waits for ever: between callbacks one end
\* is read exactly if the other has nothing queued, and FDE_WRITE is on exactly
\* while something is.
LocalCredit ==
    \A x \in Socks :
        /\ Alive(x) => ("WRITE" \in fde[x].want <=> sock[x].q > 0)
        /\ Idle /\ sock[x].peer = "local" => ("READ" \in fde[x].want <=> sock[Mate(x)].q = 0)

\* Whatever may still use an atransport names one that is online: open asockets,
\* smart sockets that chose one, and listeners, each of which is on the list of
\* disconnects of its transport and on no other.
TransportsOnline ==
    /\ \A x \in Socks :
          sock[x].st = "open" /\ sock[x].trans # NoTransport => tr[sock[x].trans] = "online"
    /\ \A c \in Clients : smart[c].trans # NoTransport => tr[smart[c].trans] = "online"
    /\ \A l \in Names, t \in Transports :
          /\ l \in disc[t] <=> lst[l].on /\ lst[l].trans = t
          /\ l \in disc[t] => tr[t] = "online"

\* A client that tracks devices was last sent a list with every device there is,
\* none that is gone, and those that can be used as online.
TrackersTold ==
    \A c \in tracker, t \in Transports :
        /\ last[c][t] = "none" <=> tr[t] = "none"
        /\ tr[t] = "online" => last[c][t] = "online"

\* A client that hangs up has its asocket closed, or on the closing list for output
\* still queued, and the service thread that waits for a device on its behalf ends,
\* unless input that nobody reads keeps its asocket on the closing list; a crash
\* of the server closes everything.
HangupCloses ==
    \A c \in Clients :
        cl[c].hup # "no"
            ~> \/ /\ sock[Client(c)].st # "open"
                  /\ thread[c].st # "run" \/ sock[Service(c)].st = "closing"
               \/ cur.pc = "crashed"

\* Whoever sent a complete request is told OKAY or FAIL, or is disconnected.
RequestsAnswered ==
    \A c \in Clients : cl[c].owed ~> (~cl[c].owed \/ cur.pc = "crashed")
=============================================================================
