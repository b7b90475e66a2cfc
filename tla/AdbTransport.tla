---------------------------- MODULE AdbTransport ----------------------------
(***************************************************************************)
(* The life of one atransport of transport.cpp: its registration by the    *)
(* main thread, the reader and the writer thread that hold it, the packet  *)
(* queues between them, kicking, and its removal.                          *)
(*                                                                         *)
(* The main thread runs one fdevent callback at a time and each callback   *)
(* takes one message from its descriptor.  Handlers that need              *)
(* transport_lock wait for it before they start.                           *)
(***************************************************************************)
EXTENDS Naturals, Sequences

CONSTANTS
    Host,       \* ADB_HOST: Kick() waits for write_msg_lock_
    MaxIn,      \* bound: packets read from the remote side
    MaxOut      \* bound: packets streams hand to the transport

ASSUME TransportAssumption ==
    /\ Host \in BOOLEAN
    /\ MaxIn \in Nat
    /\ MaxOut \in Nat

Thread == {"reader", "writer"}

VARIABLES
    type,       \* kTransportUsb or kTransportLocal
    where,      \* the atransport: "new", on pending_list, on transport_list, deleted
    regq,       \* the registration socket pair: "add" and "remove" actions
    toMain,     \* packets from the reader thread to transport_socket_events
    toWriter,   \* packets from send_packet to the writer thread
    refs,       \* ref_count
    kick,       \* kicked_ ("flag") and whether kick_func_ has run ("done")
    closed,     \* t->close(t) has run
    lock,       \* holder of transport_lock over more than one step
    pc,         \* where each thread is
    mpc,        \* where the main thread is
    active,     \* of write_transport_thread: SYNC(1, token) was received
    online,     \* atransport::online
    bound,      \* asockets or listeners refer to the transport
    resent,     \* has_send_connect_on_error_
    failed,     \* t->Write failed
    ins, outs   \* packets read and handed over so far

queues == <<regq, toMain, toWriter>>
count == <<ins, outs>>
obj == <<type, where, refs, kick, closed, lock>>
main == <<mpc, online, bound>>
vars == <<obj, queues, pc, main, active, resent, failed, count>>

Goto(x, label) == pc' = [pc EXCEPT ![x] = label]

Command == {"SYNC1", "SYNC0", "NONE", "CNXN", "DATA"}

\* SendConnectOnHost: an empty packet for the data toggle of the endpoints,
\* then A_CNXN.
ConnectMsgs == <<"NONE", "CNXN">>

-----------------------------------------------------------------------------
(* Registration, by the main thread *)

\* register_usb_transport, register_socket_transport: on pending_list, then
\* a message to the main thread.
RegisterTransport ==
    /\ where = "new"
    /\ where' = "pending"
    /\ regq' = Append(regq, "add")
    /\ UNCHANGED <<type, refs, kick, closed, lock, toMain, toWriter, pc, main, active, resent, failed, count>>

\* transport_registration_func, action 1: both threads are started...
TransportRegistered ==
    /\ mpc = "loop" /\ regq # <<>> /\ Head(regq) = "add"
    /\ regq' = Tail(regq)
    /\ refs' = 2
    /\ pc' = [reader |-> "sync", writer |-> "wait"]
    /\ mpc' = "list"
    /\ UNCHANGED <<type, where, kick, closed, lock, toMain, toWriter, online, bound, active, resent, failed, count>>

\* ... and only then does the transport enter transport_list.
TransportListed ==
    /\ mpc = "list" /\ lock = "free"
    /\ where' = "listed"
    /\ mpc' = "loop"
    /\ UNCHANGED <<type, refs, kick, closed, lock, queues, pc, online, bound, active, resent, failed, count>>

\* transport_registration_func, action 0: the queues and the object go.
TransportRemoved ==
    /\ mpc = "loop" /\ lock = "free" /\ regq # <<>> /\ Head(regq) = "remove"
    /\ regq' = Tail(regq)
    /\ toMain' = <<>> /\ toWriter' = <<>>
    /\ where' = "deleted"
    /\ UNCHANGED <<type, refs, kick, closed, lock, pc, main, active, resent, failed, count>>

-----------------------------------------------------------------------------
(* read_transport_thread *)

\* SYNC(1, token) tells the main thread that the transport is up.
ReaderSyncOnline ==
    /\ pc["reader"] = "sync"
    /\ toMain' = Append(toMain, "SYNC1")
    /\ Goto("reader", "read")
    /\ UNCHANGED <<obj, regq, toWriter, main, active, resent, failed, count>>

\* read_from_remote returned a packet.
ReaderReads(c) ==
    /\ pc["reader"] = "read"
    /\ ins < MaxIn
    /\ ins' = ins + 1
    /\ toMain' = Append(toMain, c)
    /\ UNCHANGED <<obj, regq, toWriter, pc, main, active, resent, failed, outs>>

\* remote_read of a USB transport on the host met a bad message before the
\* connection was established: the reader itself sends A_CNXN, once.
ReaderResends ==
    /\ Host /\ type = "usb" /\ ~online /\ ~resent
    /\ pc["reader"] = "read"
    /\ resent' = TRUE
    /\ toWriter' = toWriter \o ConnectMsgs
    /\ UNCHANGED <<obj, regq, toMain, pc, main, active, failed, count>>

\* read_from_remote failed, of itself or because the transport was kicked.
ReaderFails ==
    /\ pc["reader"] = "read"
    /\ Goto("reader", "offline")
    /\ UNCHANGED <<obj, queues, main, active, resent, failed, count>>

\* SYNC(0, 0) tells the main thread that the transport is down.
ReaderSyncOffline ==
    /\ pc["reader"] = "offline"
    /\ toMain' = Append(toMain, "SYNC0")
    /\ Goto("reader", "kick")
    /\ UNCHANGED <<obj, regq, toWriter, main, active, resent, failed, count>>

-----------------------------------------------------------------------------
(* write_transport_thread *)

\* SYNC(1, token): start to forward packets.
WriterSyncOnline ==
    /\ pc["writer"] = "wait" /\ toWriter # <<>> /\ Head(toWriter) = "SYNC1"
    /\ toWriter' = Tail(toWriter)
    /\ active' = TRUE
    /\ UNCHANGED <<obj, regq, toMain, pc, main, resent, failed, count>>

\* Mutant: the writer thread does not kick the transport on SYNC(0, 0).
WriterSyncOfflineNoKick ==
    /\ pc["writer"] = "wait" /\ toWriter # <<>> /\ Head(toWriter) = "SYNC0"
    /\ toWriter' = Tail(toWriter)
    /\ Goto("writer", "unref")
    /\ UNCHANGED <<obj, regq, toMain, main, active, resent, failed, count>>

\* SYNC(0, 0): the thread ends.
WriterSyncOffline ==
    /\ pc["writer"] = "wait" /\ toWriter # <<>> /\ Head(toWriter) = "SYNC0"
    /\ toWriter' = Tail(toWriter)
    /\ Goto("writer", "kick")
    /\ UNCHANGED <<obj, regq, toMain, main, active, resent, failed, count>>

\* A packet is dropped while inactive; otherwise t->Write begins, holding
\* write_msg_lock_ until it returns.
WriterTakes ==
    /\ pc["writer"] = "wait" /\ toWriter # <<>> /\ Head(toWriter) \notin {"SYNC0", "SYNC1"}
    /\ toWriter' = Tail(toWriter)
    /\ Goto("writer", IF active THEN "write" ELSE "wait")
    /\ UNCHANGED <<obj, regq, toMain, main, active, resent, failed, count>>

WriterWrites ==
    /\ pc["writer"] = "write"
    /\ Goto("writer", "wait")
    /\ UNCHANGED <<obj, queues, main, active, resent, failed, count>>

\* t->Write failed: the thread ends.
WriterFails ==
    /\ pc["writer"] = "write"
    /\ failed' = TRUE
    /\ Goto("writer", "kick")
    /\ UNCHANGED <<obj, queues, main, active, resent, count>>

-----------------------------------------------------------------------------
(* The end of both threads *)

\* kick_transport: only a listed transport is kicked, and only once;
\* transport_lock is kept while Kick() waits for write_msg_lock_.
KickTransport(x) ==
    /\ pc[x] = "kick" /\ lock = "free"
    /\ IF where = "listed" /\ kick = "no"
       THEN lock' = x /\ kick' = "flag" /\ Goto(x, "kicking")
       ELSE UNCHANGED <<lock, kick>> /\ Goto(x, "unref")
    /\ UNCHANGED <<type, where, refs, closed, queues, main, active, resent, failed, count>>

\* Mutant: the kick function is never run.
KickFuncNone(x) ==
    /\ pc[x] = "kicking"
    /\ Host => pc["writer"] # "write"
    /\ lock' = "free"
    /\ Goto(x, "unref")
    /\ UNCHANGED <<type, where, refs, kick, closed, queues, main, active, resent, failed, count>>

KickFunc(x) ==
    /\ pc[x] = "kicking"
    /\ Host => pc["writer"] # "write"
    /\ kick' = "done"
    /\ lock' = "free"
    /\ Goto(x, "unref")
    /\ UNCHANGED <<type, where, refs, closed, queues, main, active, resent, failed, count>>

\* Mutant: the first thread to leave closes and removes the transport.
TransportUnrefEarly(x) ==
    /\ pc[x] = "unref"
    /\ refs' = refs - 1
    /\ Goto(x, IF refs = 2 THEN "close" ELSE "done")
    /\ UNCHANGED <<type, where, kick, closed, lock, queues, main, active, resent, failed, count>>

\* transport_unref: the last reference closes the transport and asks the main
\* thread to remove it.
TransportUnref(x) ==
    /\ pc[x] = "unref"
    /\ refs' = refs - 1
    /\ Goto(x, IF refs = 1 THEN "close" ELSE "done")
    /\ UNCHANGED <<type, where, kick, closed, lock, queues, main, active, resent, failed, count>>

TransportClose(x) ==
    /\ pc[x] = "close"
    /\ closed' = TRUE
    /\ Goto(x, "remove")
    /\ UNCHANGED <<type, where, refs, kick, lock, queues, main, active, resent, failed, count>>

RemoveTransport(x) ==
    /\ pc[x] = "remove"
    /\ regq' = Append(regq, "remove")
    /\ Goto(x, "done")
    /\ UNCHANGED <<obj, toMain, toWriter, main, active, resent, failed, count>>

-----------------------------------------------------------------------------
(* The main thread *)

\* handle_packet, A_SYNC with arg0 = 1: back to the writer; the host connects.
HandleSyncOnline ==
    /\ mpc = "loop" /\ toMain # <<>> /\ Head(toMain) = "SYNC1"
    /\ toMain' = Tail(toMain)
    /\ toWriter' = Append(toWriter, "SYNC1") \o (IF Host THEN ConnectMsgs ELSE <<>>)
    /\ UNCHANGED <<obj, regq, pc, main, active, resent, failed, count>>

\* Mutant: handle_offline does not close the sockets.
HandleSyncOfflineKeeps ==
    /\ mpc = "loop" /\ toMain # <<>> /\ Head(toMain) = "SYNC0"
    /\ toMain' = Tail(toMain)
    /\ toWriter' = Append(toWriter, "SYNC0")
    /\ online' = FALSE
    /\ UNCHANGED <<obj, regq, pc, mpc, bound, active, resent, failed, count>>

\* A_SYNC with arg0 = 0: handle_offline closes the sockets and runs the
\* disconnects before SYNC(0, 0) goes to the writer.
HandleSyncOffline ==
    /\ mpc = "loop" /\ toMain # <<>> /\ Head(toMain) = "SYNC0"
    /\ toMain' = Tail(toMain)
    /\ toWriter' = Append(toWriter, "SYNC0")
    /\ online' = FALSE
    /\ bound' = FALSE
    /\ UNCHANGED <<obj, regq, pc, mpc, active, resent, failed, count>>

\* A_CNXN: handle_new_connection, whose update_transports takes the lock on the
\* host; the device answers.
HandleCnxn ==
    /\ mpc = "loop" /\ (Host => lock = "free") /\ toMain # <<>> /\ Head(toMain) = "CNXN"
    /\ toMain' = Tail(toMain)
    /\ toWriter' = IF Host THEN toWriter ELSE Append(toWriter, "CNXN")
    /\ online' = TRUE
    /\ bound' = FALSE
    /\ UNCHANGED <<obj, regq, pc, mpc, active, resent, failed, count>>

\* Any other packet is ignored while offline.  Online it may bind a service to
\* the transport (A_OPEN, answered by A_OKAY), close the last socket bound to
\* it (A_CLSE) or leave both as they are, with or without an answer.
HandleData(binds, answers) ==
    /\ mpc = "loop" /\ toMain # <<>> /\ Head(toMain) = "DATA"
    /\ binds # bound \/ answers => online
    /\ binds /\ ~bound => answers
    /\ answers => outs < MaxOut
    /\ toMain' = Tail(toMain)
    /\ bound' = binds
    /\ toWriter' = IF answers THEN Append(toWriter, "DATA") ELSE toWriter
    /\ outs' = IF answers THEN outs + 1 ELSE outs
    /\ UNCHANGED <<obj, regq, pc, mpc, online, active, resent, failed, ins>>

\* A client opens a stream to the transport it found on transport_list.
OpenStream ==
    /\ mpc = "loop" /\ lock = "free"
    /\ where = "listed" /\ online /\ outs < MaxOut
    /\ bound' = TRUE
    /\ toWriter' = Append(toWriter, "DATA")
    /\ outs' = outs + 1
    /\ UNCHANGED <<obj, regq, toMain, pc, mpc, online, active, resent, failed, ins>>

\* A bound socket sends data or closes; one that is not connected yet closes
\* without a packet.
StreamSends ==
    /\ mpc = "loop" /\ bound /\ outs < MaxOut
    /\ bound' \in BOOLEAN
    /\ toWriter' = Append(toWriter, "DATA")
    /\ outs' = outs + 1
    /\ UNCHANGED <<obj, regq, toMain, pc, mpc, online, active, resent, failed, ins>>

StreamCloses ==
    /\ mpc = "loop" /\ bound
    /\ bound' = FALSE
    /\ UNCHANGED <<obj, queues, pc, mpc, online, active, resent, failed, count>>

\* disconnect, reconnect-offline and kick_all_transports call Kick() on the main
\* thread with transport_lock held.
MainKicks ==
    /\ mpc = "loop" /\ lock = "free"
    /\ where = "listed" /\ kick = "no"
    /\ lock' = "main" /\ kick' = "flag"
    /\ mpc' = "kicking"
    /\ UNCHANGED <<type, where, refs, closed, queues, pc, online, bound, active, resent, failed, count>>

\* Mutant: transport_lock is not released after the kick.
MainKickFuncHolds ==
    /\ mpc = "kicking"
    /\ Host => pc["writer"] # "write"
    /\ kick' = "done"
    /\ mpc' = "loop"
    /\ UNCHANGED <<type, where, refs, closed, lock, queues, pc, online, bound, active, resent, failed, count>>

\* The kick function runs once write_msg_lock_ is free (on the device at once).
MainKickFunc ==
    /\ mpc = "kicking"
    /\ Host => pc["writer"] # "write"
    /\ kick' = "done"
    /\ lock' = "free"
    /\ mpc' = "loop"
    /\ UNCHANGED <<type, where, refs, closed, queues, pc, online, bound, active, resent, failed, count>>

\* reconnect_service does so on a thread of its own, for a transport that was
\* there when the service was opened: kick_transport looks it up.
ServiceKicks ==
    /\ lock = "free"
    /\ where = "listed" /\ kick = "no"
    /\ lock' = "service" /\ kick' = "flag"
    /\ UNCHANGED <<type, where, refs, closed, queues, pc, main, active, resent, failed, count>>

ServiceKickFunc ==
    /\ lock = "service"
    /\ Host => pc["writer"] # "write"
    /\ kick' = "done"
    /\ lock' = "free"
    /\ UNCHANGED <<type, where, refs, closed, queues, pc, main, active, resent, failed, count>>

\* The end: nothing is left to do.
Finished ==
    /\ where = "deleted" /\ regq = <<>>
    /\ UNCHANGED vars

-----------------------------------------------------------------------------
Init ==
    /\ type \in {"usb", "local"}
    /\ where = "new" /\ refs = 0 /\ kick = "no" /\ closed = FALSE /\ lock = "free"
    /\ regq = <<>> /\ toMain = <<>> /\ toWriter = <<>>
    /\ pc = [x \in Thread |-> "none"]
    /\ mpc = "loop" /\ online = FALSE /\ bound = FALSE
    /\ active = FALSE /\ resent = FALSE /\ failed = FALSE
    /\ ins = 0 /\ outs = 0

Reader ==
    \/ ReaderSyncOnline
    \/ \E c \in {"CNXN", "DATA"} : ReaderReads(c)
    \/ ReaderResends \/ ReaderFails \/ ReaderSyncOffline

Writer == WriterSyncOnline \/ WriterSyncOffline \/ WriterTakes \/ WriterWrites \/ WriterFails

Exit(x) ==
    KickTransport(x) \/ KickFunc(x) \/ TransportUnref(x) \/ TransportClose(x) \/ RemoveTransport(x)

HandlePacket ==
    \/ HandleSyncOnline \/ HandleSyncOffline \/ HandleCnxn
    \/ \E binds, answers \in BOOLEAN : HandleData(binds, answers)

Registration == TransportRegistered \/ TransportListed \/ TransportRemoved

Client == OpenStream \/ StreamSends \/ StreamCloses \/ MainKicks \/ ServiceKicks

Next ==
    \/ RegisterTransport \/ Registration \/ HandlePacket \/ Client \/ MainKickFunc \/ ServiceKickFunc
    \/ Reader \/ Writer \/ \E x \in Thread : Exit(x)
    \/ Finished

Spec == Init /\ [][Next]_vars

\* Threads run.  kick_func_ (usb_kick, shutdown of the socket) ends a read and
\* a write, and usb_write on the host gives up after 5 seconds.  Nothing is
\* assumed of clients, nor that the remote side sends or takes anything: a
\* read, and a write to a TCP socket (WriteFdExactly), may last for ever.
Fairness ==
    /\ WF_vars(Registration) /\ WF_vars(HandlePacket) /\ WF_vars(MainKickFunc) /\ WF_vars(ServiceKickFunc)
    /\ WF_vars(ReaderSyncOnline) /\ WF_vars(kick = "done" /\ ReaderFails)
    /\ WF_vars(ReaderSyncOffline)
    /\ WF_vars(WriterSyncOnline \/ WriterSyncOffline \/ WriterTakes)
    /\ WF_vars(kick = "done" /\ WriterFails)
    /\ WF_vars(Host /\ type = "usb" /\ (WriterWrites \/ WriterFails))
    /\ \A x \in Thread : WF_vars(Exit(x))

FairSpec == Spec /\ Fairness

-----------------------------------------------------------------------------
(* Properties *)

Live == {"sync", "read", "offline", "wait", "write", "kick", "kicking", "unref"}
Closing == {"close", "remove"}

\* Types of the variables.
TypeOK ==
    /\ type \in {"usb", "local"}
    /\ where \in {"new", "pending", "listed", "deleted"}
    /\ regq \in Seq({"add", "remove"})
    /\ toMain \in Seq(Command)
    /\ toWriter \in Seq(Command)
    /\ refs \in 0..2
    /\ kick \in {"no", "flag", "done"}
    /\ closed \in BOOLEAN
    /\ lock \in {"free", "main", "service"} \union Thread
    /\ pc \in [Thread -> {"none", "done"} \union Live \union Closing]
    /\ mpc \in {"loop", "list", "kicking"}
    /\ active \in BOOLEAN /\ online \in BOOLEAN /\ bound \in BOOLEAN
    /\ resent \in BOOLEAN /\ failed \in BOOLEAN
    /\ ins \in Nat /\ outs \in Nat

\* A thread that can still touch the transport keeps it from being deleted.
ThreadsPinTransport == where = "deleted" => \A x \in Thread : pc[x] = "done"

\* The transport is closed after the last kick and when no thread but the
\* closing one is left: kick_func_ and t->Write never meet a closed handle.
ClosedLast ==
    closed => /\ kick = "done"
              /\ \A x \in Thread : pc[x] \notin Live
              /\ lock = "free"

\* A transport is not deleted under the sockets and listeners that refer to
\* it, as long as the writer thread left by SYNC(0, 0).
OfflineBeforeDelete == where = "deleted" /\ bound => failed

\* A write that no timeout ends and kick_func_ has not ended.  Under kick = "flag",
\* on the host, Kick() waits for it with transport_lock held.
WriteHangs == pc["writer"] = "write" /\ kick # "done" /\ ~(Host /\ type = "usb")

\* A transport that was kicked (the comment in kick_all_tcp_devices) or whose read
\* or write failed is closed and deleted, through two threads, two queues and the
\* main thread.  The one thing that can prevent it is a write that lasts for ever
\* because the remote side does not take it: Kick() waits for it, or
\* kick_transport came before the transport was listed and did nothing.
EndsDeleted ==
    (kick # "no" \/ failed \/ pc["reader"] = "offline") ~> (where = "deleted" \/ []WriteHangs)

\* The main thread gets out of Kick() and of the waits for transport_lock, and
\* handles what the reader thread passes to it: on a USB transport whatever the
\* device does; on a TCP transport only a kick that waits for ever for a write
\* can stop it.
MainGoesOn ==
    (mpc = "kicking" \/ toMain # <<>>) ~>
        ((mpc = "loop" /\ toMain = <<>>) \/ [](WriteHangs /\ kick = "flag"))
=============================================================================
