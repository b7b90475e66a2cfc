-------------------------- MODULE LocalTransports --------------------------
(***************************************************************************)
(* TCP devices and emulators on the adb server: the slots of               *)
(* local_transports, the lists of transports and retry_ports, and the      *)
(* threads that connect at the same time, client_socket_thread and one     *)
(* thread for each "connect:" request (transport_local.cpp, services.cpp). *)
(*                                                                         *)
(* A transport is the address of an atransport; an address is used again   *)
(* once the atransport was deleted.  A step of a thread is what it does    *)
(* under one lock.                                                         *)
(***************************************************************************)
EXTENDS Naturals, Sequences, FiniteSets, SequencesExt

CONSTANTS
    Transports,     \* addresses of atransports
    NoTransport,    \* the null pointer
    Slots,          \* ADB_LOCAL_TRANSPORT_MAX
    Polled,         \* adb ports that PollAllLocalPortsForEmulator tries
    Client,         \* client_socket_thread
    Services,       \* threads of "connect:" requests
    Requests,       \* what those ask for: see Target
    Retries,        \* LOCAL_PORT_RETRY_COUNT
    MaxRequest,     \* bound: "connect:" requests
    MaxKick         \* bound: kicks of transports

Threads == Services \cup {Client}

\* Serial and adb port of what is connected to; a TCP device has no port.
NoPort == 0
Target(serial, port) == [serial |-> serial, port |-> port]

\* local_connect: the console port of an emulator is the one before its adb port.
Emulator(port) == Target(port - 1, port)

ASSUME LocalAssumption ==
    /\ NoTransport \notin Transports /\ Client \notin Services
    /\ Slots \in Nat /\ Retries \in Nat \ {0} /\ MaxRequest \in Nat /\ MaxKick \in Nat
    /\ Polled \in Seq(Nat \ {0})
    /\ Requests \subseteq [serial : Nat, port : Nat]

VARIABLES
    tr,         \* the atransports: serial, port and where each is in its life
    slots,      \* local_transports
    retry,      \* retry_ports
    ports,      \* what client_socket_thread has taken from it and not tried yet
    nextPorts,  \* next_ports of client_socket_thread
    thread,     \* where each thread is, what it connects to and its atransport
    known,      \* ports of emulators that were registered
    dropped,    \* ports whose retries were used up since
    requests, kicks

lists == <<retry, ports, nextPorts, dropped>>
vars == <<tr, slots, lists, thread, known, requests, kicks>>

Free == [serial |-> 0, port |-> NoPort, phase |-> "deleted"]
Idle == [pc |-> "idle", to |-> Target(0, NoPort), t |-> NoTransport]

\* In pending_list or in transport_list.
Registered(t) == tr[t].phase \in {"pending", "listed", "kicked", "closed"}
Listed(t) == tr[t].phase \in {"listed", "kicked", "closed"}
Deleted(t) == tr[t].phase = "deleted"

-----------------------------------------------------------------------------
(* The slots *)

\* find_emulator_transport_by_adb_port_locked.  What it reads of an atransport
\* that was deleted may be any port.
FoundByPort(port, found) ==
    LET held == {tr[slots[i]] : i \in {j \in 1..Slots : slots[j] # NoTransport}}
    IN  \/ found /\ \E a \in held : a.phase = "deleted" \/ a.port = port
        \/ ~found /\ \A a \in held : a.phase = "deleted" \/ a.port # port

\* get_available_local_transport_index_locked
Available(i) ==
    /\ slots[i] = NoTransport
    /\ \A j \in 1..i - 1 : slots[j] # NoTransport

\* remote_kick: the first slot with the transport.
SlotsWithout(t) ==
    [i \in 1..Slots |->
        IF slots[i] = t /\ \A j \in 1..i - 1 : slots[j] # t THEN NoTransport ELSE slots[i]]

-----------------------------------------------------------------------------
(* A thread connects *)

Goto(th, pc) == thread' = [thread EXCEPT ![th].pc = pc]

\* A thread is done with a target.  client_socket_thread goes on to the next
\* one and keeps one it could not connect to, until it has no retries left.
Finish(th, connected) ==
    /\ thread' = [thread EXCEPT ![th] = Idle]
    /\ IF th = Client
       THEN LET p == Head(ports)
                again == ~connected /\ p.count > 1
            IN  /\ ports' = Tail(ports)
                /\ nextPorts' = IF again THEN Append(nextPorts, [p EXCEPT !.count = @ - 1])
                                         ELSE nextPorts
                /\ dropped' = IF again \/ connected THEN dropped \ {p.port} ELSE dropped \cup {p.port}
                /\ UNCHANGED retry
       ELSE /\ dropped' = IF connected THEN dropped \ {thread[th].to.port} ELSE dropped
            /\ UNCHANGED <<retry, ports, nextPorts>>

\* connect_service: connect_device, or connect_emulator.
Request(th, to) ==
    /\ thread[th].pc = "idle"
    /\ requests < MaxRequest
    /\ requests' = requests + 1
    /\ thread' = [thread EXCEPT ![th] =
                    [pc |-> IF to.port = NoPort THEN "dial" ELSE "known", to |-> to, t |-> NoTransport]]
    /\ UNCHANGED <<tr, slots, lists, known, kicks>>

\* connect_emulator: is it known already.
CheckKnown(th) ==
    /\ thread[th].pc = "known"
    /\ \/ FoundByPort(thread[th].to.port, TRUE) /\ Finish(th, FALSE)
       \/ FoundByPort(thread[th].to.port, FALSE) /\ Goto(th, "slot") /\ UNCHANGED lists
    /\ UNCHANGED <<tr, slots, known, requests, kicks>>

\* connect_emulator: is there a slot.
CheckSlot(th) ==
    /\ thread[th].pc = "slot"
    /\ IF \E i \in 1..Slots : Available(i)
       THEN Goto(th, "port") /\ UNCHANGED lists
       ELSE Finish(th, FALSE)
    /\ UNCHANGED <<tr, slots, known, requests, kicks>>

\* local_connect_arbitrary_ports: no emulator with the adb port.
CheckPort(th) ==
    /\ thread[th].pc = "port"
    /\ \/ FoundByPort(thread[th].to.port, TRUE) /\ Finish(th, FALSE)
       \/ FoundByPort(thread[th].to.port, FALSE) /\ Goto(th, "serial") /\ UNCHANGED lists
    /\ UNCHANGED <<tr, slots, known, requests, kicks>>

\* local_connect_arbitrary_ports: none with the console port (find_transport).
CheckSerial(th) ==
    /\ thread[th].pc = "serial"
    /\ IF \E t \in Transports : Listed(t) /\ tr[t].serial = thread[th].to.serial
       THEN Finish(th, FALSE)
       ELSE Goto(th, "dial") /\ UNCHANGED lists
    /\ UNCHANGED <<tr, slots, known, requests, kicks>>

\* network_connect fails.
DialFails(th) ==
    /\ thread[th].pc = "dial"
    /\ Finish(th, FALSE)
    /\ UNCHANGED <<tr, slots, known, requests, kicks>>

\* It succeeds: register_socket_transport allocates an atransport.
Dial(th) ==
    /\ thread[th].pc = "dial"
    /\ \E t \in Transports :
          /\ Deleted(t)
          /\ tr' = [tr EXCEPT ![t] = [serial |-> thread[th].to.serial,
                                      port |-> thread[th].to.port, phase |-> "new"]]
          /\ thread' = [thread EXCEPT ![th].pc = "init", ![th].t = t]
    /\ UNCHANGED <<slots, lists, known, requests, kicks>>

\* Mutant: the port is not searched for again under the lock.
InitSocketBlind(th) ==
    LET t == thread[th].t
        port == thread[th].to.port
    IN  /\ thread[th].pc = "init"
        /\ Goto(th, "register")
        /\ \/ port = NoPort /\ UNCHANGED slots
           \/ /\ port # NoPort
              /\ \E i \in 1..Slots : Available(i) /\ slots' = [slots EXCEPT ![i] = t]
        /\ tr' = [tr EXCEPT ![t].phase = "inited"]
        /\ UNCHANGED <<lists, known, requests, kicks>>

\* init_socket_transport: an emulator takes a slot.
InitSocket(th) ==
    LET t == thread[th].t
        port == thread[th].to.port
    IN  /\ thread[th].pc = "init"
        /\ Goto(th, "register")
        /\ \/ port = NoPort /\ UNCHANGED slots
           \/ /\ port # NoPort /\ FoundByPort(port, FALSE)
              /\ \E i \in 1..Slots : Available(i) /\ slots' = [slots EXCEPT ![i] = t]
        /\ tr' = [tr EXCEPT ![t].phase = "inited"]
        /\ UNCHANGED <<lists, known, requests, kicks>>

\* init_socket_transport fails: there is one for the port, or no slot.
InitSocketFails(th) ==
    LET t == thread[th].t
        port == thread[th].to.port
    IN  /\ thread[th].pc = "init" /\ port # NoPort
        /\ FoundByPort(port, TRUE) \/ \A i \in 1..Slots : slots[i] # NoTransport
        /\ tr' = [tr EXCEPT ![t] = Free]
        /\ Finish(th, FALSE)
        /\ UNCHANGED <<slots, known, requests, kicks>>

\* Mutant: the lists are not searched for the serial.
RegisterSocketAlways(th) ==
    /\ thread[th].pc = "register"
    /\ tr' = [tr EXCEPT ![thread[th].t].phase = "pending"]
    /\ known' = known \cup ({thread[th].to.port} \ {NoPort})
    /\ Finish(th, TRUE)
    /\ UNCHANGED <<slots, requests, kicks>>

\* register_socket_transport, under transport_lock: the serial is new, and the
\* transport goes to pending_list, or it is not, and the transport is deleted.
RegisterSocket(th) ==
    LET t == thread[th].t
        taken == \E u \in Transports : Registered(u) /\ tr[u].serial = tr[t].serial
    IN  /\ thread[th].pc = "register"
        /\ tr' = [tr EXCEPT ![t] = IF taken THEN Free ELSE [@ EXCEPT !.phase = "pending"]]
        /\ known' = IF taken THEN known ELSE known \cup ({tr[t].port} \ {NoPort})
        /\ Finish(th, ~taken)
        /\ UNCHANGED <<slots, requests, kicks>>

-----------------------------------------------------------------------------
(* client_socket_thread *)

\* It tries what it has taken, one after the other.
ClientTakes ==
    /\ thread[Client].pc = "idle" /\ ports # <<>>
    /\ thread' = [thread EXCEPT ![Client] =
                    [pc |-> "port", to |-> Emulator(Head(ports).port), t |-> NoTransport]]
    /\ UNCHANGED <<tr, slots, lists, known, requests, kicks>>

\* Mutant: next_ports replaces what was pushed meanwhile.
ClientCopiesOver ==
    /\ thread[Client].pc = "idle" /\ ports = <<>> /\ nextPorts # <<>>
    /\ retry' = nextPorts
    /\ nextPorts' = <<>>
    /\ UNCHANGED <<tr, slots, ports, dropped, thread, known, requests, kicks>>

\* What is left goes back to retry_ports.
ClientCopiesBack ==
    /\ thread[Client].pc = "idle" /\ ports = <<>> /\ nextPorts # <<>>
    /\ retry' = retry \o nextPorts
    /\ nextPorts' = <<>>
    /\ UNCHANGED <<tr, slots, ports, dropped, thread, known, requests, kicks>>

\* It waits for retry_ports to be filled, swaps it with an empty vector and sleeps.
ClientCollects ==
    /\ thread[Client].pc = "idle" /\ ports = <<>> /\ nextPorts = <<>> /\ retry # <<>>
    /\ ports' = retry
    /\ retry' = <<>>
    /\ UNCHANGED <<tr, slots, nextPorts, dropped, thread, known, requests, kicks>>

-----------------------------------------------------------------------------
(* A transport's life once it is registered *)

\* transport_registration_func: from pending_list to transport_list.
MainRegisters(t) ==
    /\ tr[t].phase = "pending"
    /\ tr' = [tr EXCEPT ![t].phase = "listed"]
    /\ UNCHANGED <<slots, lists, thread, known, requests, kicks>>

\* Kick(): by a request, or by its threads when the connection is gone; the
\* slot is free from here on.
Kick(t) ==
    /\ tr[t].phase = "listed"
    /\ kicks < MaxKick
    /\ kicks' = kicks + 1
    /\ tr' = [tr EXCEPT ![t].phase = "kicked"]
    /\ slots' = SlotsWithout(t)
    /\ UNCHANGED <<lists, thread, known, requests>>

\* transport_unref calls remote_close: an emulator's port will be retried.
Close(t) ==
    /\ tr[t].phase = "kicked"
    /\ tr' = [tr EXCEPT ![t].phase = "closed"]
    /\ retry' = IF tr[t].port = NoPort THEN retry
                ELSE Append(retry, [port |-> tr[t].port, count |-> Retries])
    /\ UNCHANGED <<slots, ports, nextPorts, dropped, thread, known, requests, kicks>>

\* transport_registration_func: out of transport_list, and deleted.
MainRemoves(t) ==
    /\ tr[t].phase = "closed"
    /\ tr' = [tr EXCEPT ![t] = Free]
    /\ UNCHANGED <<slots, lists, thread, known, requests, kicks>>

-----------------------------------------------------------------------------
\* PollAllLocalPortsForEmulator tries each port once: as with no retry left.
Init ==
    /\ tr = [t \in Transports |-> Free]
    /\ slots = [i \in 1..Slots |-> NoTransport]
    /\ retry = <<>> /\ nextPorts = <<>>
    /\ ports = [i \in 1..Len(Polled) |-> [port |-> Polled[i], count |-> 1]]
    /\ thread = [th \in Threads |-> Idle]
    /\ known = {} /\ dropped = {}
    /\ requests = 0 /\ kicks = 0

LocalConnect(th) ==
    \/ CheckKnown(th) \/ CheckSlot(th) \/ CheckPort(th) \/ CheckSerial(th)
    \/ Dial(th) \/ DialFails(th) \/ InitSocket(th) \/ InitSocketFails(th) \/ RegisterSocket(th)

ClientThread == ClientTakes \/ ClientCopiesBack \/ ClientCollects

Life(t) == MainRegisters(t) \/ Kick(t) \/ Close(t) \/ MainRemoves(t)

Next ==
    \/ \E th \in Threads : LocalConnect(th)
    \/ \E th \in Services, to \in Requests : Request(th, to)
    \/ ClientThread
    \/ \E t \in Transports : Life(t)

Spec == Init /\ [][Next]_vars

-----------------------------------------------------------------------------
(* Properties *)

Entry == [port : Nat \ {0}, count : 1..Retries]
Phases == {"deleted", "new", "inited", "pending", "listed", "kicked", "closed"}
Pcs == {"idle", "known", "slot", "port", "serial", "dial", "init", "register"}

TrType == tr \in [Transports -> [serial : Nat, port : Nat, phase : Phases]]
SlotType == slots \in [1..Slots -> Transports \cup {NoTransport}]
ListType == retry \in Seq(Entry) /\ ports \in Seq(Entry) /\ nextPorts \in Seq(Entry)
ThreadType ==
    thread \in [Threads -> [pc : Pcs, to : [serial : Nat, port : Nat],
                            t : Transports \cup {NoTransport}]]
CountType == known \subseteq Nat /\ dropped \subseteq Nat /\ requests \in Nat /\ kicks \in Nat

\* Types of the variables.
TypeOK == TrType /\ SlotType /\ ListType /\ ThreadType /\ CountType

\* However many threads connect, and whatever they checked before, no serial is
\* registered twice: find_transport and acquire_one_transport stay unambiguous.
UniqueSerial ==
    \A t, u \in Transports :
        Registered(t) /\ Registered(u) /\ tr[t].serial = tr[u].serial => t = u

\* An atransport that has a slot, if it is an emulator's, and is not kicked.
Active(t) == tr[t].phase \in {"inited", "pending", "listed"}

\* No emulator is connected twice: two transports that are not kicked have
\* different adb ports.
OnePerPort ==
    \A t, u \in Transports :
        Active(t) /\ Active(u) /\ tr[t].port = tr[u].port /\ tr[t].port # NoPort => t = u

Entries == ToSet(retry) \cup ToSet(ports) \cup ToSet(nextPorts)

\* An emulator that was connected once is connected, or will be tried again, or
\* had all its retries: no port is lost between remote_close, which adds to
\* retry_ports, and client_socket_thread, which takes from it.
NoLostPort ==
    \A p \in known \ dropped :
        \/ \E t \in Transports : Registered(t) /\ tr[t].port = p
        \/ \E e \in Entries : e.port = p

\* What OnePerPort rests on: an emulator's transport that is not kicked is in a
\* slot, and the atransport that a thread is about to register is its own.
SlotHeld ==
    \A t \in Transports : Active(t) /\ tr[t].port # NoPort => \E i \in 1..Slots : slots[i] = t

Owns(th, phase) ==
    LET t == thread[th].t
    IN  /\ t \in Transports
        /\ tr[t].phase = phase
        /\ tr[t].serial = thread[th].to.serial
        /\ tr[t].port = thread[th].to.port

OwnInv ==
    \A th \in Threads :
        /\ thread[th].pc = "init" => Owns(th, "new")
        /\ thread[th].pc = "register" => Owns(th, "inited")

AloneInv ==
    \A th, other \in Threads :
        /\ thread[th].pc \in {"init", "register"} /\ thread[other].pc \in {"init", "register"}
        /\ thread[th].t = thread[other].t
        => th = other

BusyInv == thread[Client].pc # "idle" => ports # <<>>

ThreadInv == OwnInv /\ AloneInv /\ BusyInv
=============================================================================
