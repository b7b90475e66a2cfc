------------------------------- MODULE UsbHost -------------------------------
(***************************************************************************)
(* USB devices of the adb server on Linux: client/usb_linux.cpp under the  *)
(* threads of transport.cpp.  The device poll thread finds and loses       *)
(* devices; a reader and a writer thread per device move transfers (URBs)  *)
(* through the kernel, and only the reader collects what is done, for the  *)
(* writer too; the main thread starts and ends transports, kicks them on   *)
(* request, and all of them when the server exits.                         *)
(*                                                                         *)
(* A section under a mutex is one step, unless it waits inside: then the   *)
(* mutex is a variable.  A packet is written in two transfers, its header  *)
(* and its payload.                                                        *)
(***************************************************************************)
EXTENDS Naturals, FiniteSets

CONSTANTS
    Devices,    \* device names (/dev/bus/usb/...)
    MaxPlug,    \* bound: how often each is plugged in
    MaxPackets, \* bound: packets written to it each time
    MaxKick     \* bound: "reconnect" requests

ASSUME UsbAssumption ==
    /\ MaxPlug \in Nat
    /\ MaxPackets \in Nat
    /\ MaxKick \in Nat

Reader(d) == <<"reader", d>>
Writer(d) == <<"writer", d>>
Threads == {"reader", "writer"} \X Devices
Main == <<"main">>
Poll == <<"poll">>
Free == <<>>

VARIABLES
    plug,       \* plug[d]: it is plugged in; plugs[d]: how often it was
    plugs,
    hd,         \* hd[d]: its usb_handle, on g_usb_handles while it lives
    urb,        \* urb[x]: what the kernel has of the URB the thread x submitted
    tr,         \* tr[d]: its atransport
    old,        \* whose closed transport the main thread is to remove, before it starts another
    th,         \* th[x]: the thread x
    poll,       \* the device poll thread
    main,       \* the main thread
    tl,         \* transport_lock: its owner, where it is held through several steps
    gl,         \* g_usb_handles_mutex
    hl,         \* hl[d]: usb_handle::mutex
    wl,         \* wl[d]: atransport::write_msg_lock_
    took,       \* took[d]: transfers the device took
    wrote,      \* wrote[d]: transfers usb_bulk_write returned for
    kicks       \* reconnect requests so far

world == <<plug, plugs>>
locks == <<tl, gl, hl, wl>>
counts == <<took, wrote>>
vars == <<world, hd, urb, tr, old, th, poll, main, locks, counts, kicks>>

-----------------------------------------------------------------------------
(* writeable, dead, mark, busy: fields of usb_handle, busy being            *)
(* urb_out_busy; ok: the status of urb_out is 0.                            *)
NoHandle ==
    [live |-> FALSE, writeable |-> FALSE, dead |-> FALSE, mark |-> FALSE, busy |-> FALSE, ok |-> FALSE]

\* "Initialize mark so we don't get garbage collected after the device scan."
NewHandle(writeable) == [NoHandle EXCEPT !.live = TRUE, !.writeable = writeable, !.mark = TRUE]

\* st: on no list, on pending_list or on transport_list.
\* sync: SYNC(0, 0) on its way from the reader by the main thread to the writer.
NoTransport == [st |-> "none", kicked |-> FALSE, refs |-> 0, sync |-> "no"]
NoThread == [pc |-> "none", res |-> "none"]

Running == main.pc # "exited"
Goes(x, pc) == [th EXCEPT ![x].pc = pc]
Busy(u) == IF u = "submitted" THEN "error" ELSE u

-----------------------------------------------------------------------------
(* The devices and the kernel *)

\* Linux gives no new device the name of one that is open.
Plug(d) ==
    /\ Running /\ ~plug[d] /\ plugs[d] < MaxPlug /\ ~hd[d].live
    /\ plug' = [plug EXCEPT ![d] = TRUE]
    /\ plugs' = [plugs EXCEPT ![d] = @ + 1]
    /\ UNCHANGED <<hd, urb, tr, old, th, poll, main, locks, counts, kicks>>

Unplug(d) ==
    /\ Running /\ plug[d]
    /\ plug' = [plug EXCEPT ![d] = FALSE]
    /\ urb' = [x \in Threads |-> IF x[2] = d THEN Busy(urb[x]) ELSE urb[x]]
    /\ UNCHANGED <<plugs, hd, tr, old, th, poll, main, locks, counts, kicks>>

\* A transfer is done, or goes wrong.
Transfer(x, how) ==
    /\ Running /\ urb[x] = "submitted"
    /\ urb' = [urb EXCEPT ![x] = how]
    /\ took' = IF x[1] = "writer" /\ how = "done" THEN [took EXCEPT ![x[2]] = @ + 1] ELSE took
    /\ UNCHANGED <<world, hd, tr, old, th, poll, main, locks, wrote, kicks>>

-----------------------------------------------------------------------------
(* usb_kick *)

\* Mutant: the transfers are not discarded, SIGALRM alone must do.
DiscardedNone(d) == urb

\* USBDEVFS_DISCARDURB: what was not done yet is, with an error.
Discarded(d) == [x \in Threads |-> IF x[2] = d THEN Busy(urb[x]) ELSE urb[x]]

Kicked(d) == [hd EXCEPT ![d].dead = TRUE, ![d].busy = FALSE, ![d].ok = FALSE]

\* For a handle that can be written to; a second time it does nothing.
UsbKick(d) ==
    /\ hl[d] = Free
    /\ hd[d].writeable \/ hd[d].dead
    /\ IF hd[d].dead THEN UNCHANGED <<hd, urb>> ELSE hd' = Kicked(d) /\ urb' = Discarded(d)

\* SIGALRM: a reader in USBDEVFS_REAPURB leaves it; one that is not there yet
\* never notices.
UsbKickThread(d) ==
    IF hd[d].dead \/ th[Reader(d)].pc # "ioctl" THEN th
    ELSE [th EXCEPT ![Reader(d)] = [pc |-> "got", res |-> "EINTR"]]

\* For any other: it has the mutex and goes on to transport_lock.
UsbKickReadOnly(a, d) ==
    /\ ~hd[d].writeable /\ ~hd[d].dead
    /\ hl[d] = Free
    /\ hd' = [hd EXCEPT ![d].dead = TRUE]
    /\ hl' = [hl EXCEPT ![d] = a]

-----------------------------------------------------------------------------
(* device_poll_thread *)

\* find_usb_device comes to d: it is not there, or is_known_device, or it
\* cannot be opened or claimed.
PollLooks(d) ==
    /\ Running /\ poll.pc = "scan" /\ d \in poll.todo
    /\ poll' = [poll EXCEPT !.todo = @ \ {d}]
    /\ hd' = IF plug[d] /\ hd[d].live THEN [hd EXCEPT ![d].mark = TRUE] ELSE hd
    /\ UNCHANGED <<world, urb, tr, old, th, main, locks, counts, kicks>>

\* register_device: a new handle on g_usb_handles.  The file may be opened for
\* reading and writing, or for reading alone ("no permissions").
PollOpens(d) ==
    /\ Running /\ poll.pc = "scan" /\ d \in poll.todo
    /\ plug[d] /\ ~hd[d].live /\ gl = Free
    /\ poll' = [pc |-> "register", dev |-> {d}, todo |-> poll.todo \ {d}]
    /\ \E writeable \in BOOLEAN : hd' = [hd EXCEPT ![d] = NewHandle(writeable)]
    /\ took' = [took EXCEPT ![d] = 0]
    /\ wrote' = [wrote EXCEPT ![d] = 0]
    /\ UNCHANGED <<world, urb, tr, old, th, main, locks, kicks>>

\* register_usb_transport.  A thread that has closed an older transport of d
\* posts its removal before or after this one is posted; after, it concerns
\* nothing that is modelled here any more.
PollRegisters(d) ==
    /\ Running /\ poll.pc = "register" /\ d \in poll.dev
    /\ tl = Free
    /\ tr' = [tr EXCEPT ![d] = [NoTransport EXCEPT !.st = "pending"]]
    /\ old' \in {old, old \ {d}}
    /\ poll' = [poll EXCEPT !.pc = "scan", !.dev = {}]
    /\ UNCHANGED <<world, hd, urb, th, main, locks, counts, kicks>>

\* kick_disconnected_devices keeps g_usb_handles_mutex through its loop.
PollKicks ==
    /\ Running /\ poll.pc = "scan" /\ poll.todo = {}
    /\ gl = Free
    /\ gl' = Poll
    /\ poll' = [pc |-> "kick", dev |-> {}, todo |-> {d \in Devices : hd[d].live}]
    /\ UNCHANGED <<world, hd, urb, tr, old, th, main, tl, hl, wl, counts, kicks>>

PollSpares(d) ==
    /\ Running /\ poll.pc = "kick" /\ d \in poll.todo
    /\ hd[d].mark
    /\ hd' = [hd EXCEPT ![d].mark = FALSE]
    /\ poll' = [poll EXCEPT !.todo = @ \ {d}]
    /\ UNCHANGED <<world, urb, tr, old, th, main, locks, counts, kicks>>

PollKicksOne(d) ==
    /\ Running /\ poll.pc = "kick" /\ d \in poll.todo
    /\ ~hd[d].mark
    /\ poll' = [poll EXCEPT !.todo = @ \ {d}]
    /\ UsbKick(d)
    /\ th' = UsbKickThread(d)
    /\ UNCHANGED <<world, tr, old, main, locks, counts, kicks>>

PollKicksReadOnly(d) ==
    /\ Running /\ poll.pc = "kick" /\ d \in poll.todo
    /\ ~hd[d].mark
    /\ UsbKickReadOnly(Poll, d)
    /\ poll' = [pc |-> "unregister", dev |-> {d}, todo |-> poll.todo \ {d}]
    /\ UNCHANGED <<world, urb, tr, old, th, main, tl, gl, wl, counts, kicks>>

\* unregister_usb_transport: from transport_list only; the handle stays.
PollUnregisters(d) ==
    /\ Running /\ poll.pc = "unregister" /\ d \in poll.dev
    /\ tl = Free
    /\ tr' = IF tr[d].st = "listed" THEN [tr EXCEPT ![d] = NoTransport] ELSE tr
    /\ hl' = [hl EXCEPT ![d] = Free]
    /\ poll' = [poll EXCEPT !.pc = "kick", !.dev = {}]
    /\ UNCHANGED <<world, hd, urb, old, th, main, tl, gl, wl, counts, kicks>>

PollSleeps ==
    /\ Running /\ poll.pc = "kick" /\ poll.todo = {}
    /\ gl' = Free
    /\ poll' = [pc |-> "scan", dev |-> {}, todo |-> Devices]
    /\ UNCHANGED <<world, hd, urb, tr, old, th, main, tl, hl, wl, counts, kicks>>

-----------------------------------------------------------------------------
(* read_transport_thread: usb_bulk_read *)

\* The thread tells the main thread, and leaves.
ReadQuits(d) ==
    /\ th' = [th EXCEPT ![Reader(d)] = [pc |-> "leave", res |-> "none"]]
    /\ tr' = [tr EXCEPT ![d].sync = "sent"]

ReadSubmits(d) ==
    LET x == Reader(d) IN
    /\ Running /\ th[x].pc = "read" /\ hl[d] = Free
    /\ IF hd[d].dead \/ ~plug[d]
       THEN ReadQuits(d) /\ UNCHANGED urb
       ELSE /\ th' = Goes(x, "unlocked")
            /\ urb' = [urb EXCEPT ![x] = "submitted"]
            /\ UNCHANGED tr
    /\ UNCHANGED <<world, hd, old, poll, main, locks, counts, kicks>>

\* It has given up the mutex and reaper_thread is set.
ReadBlocks(d) ==
    /\ Running /\ th[Reader(d)].pc = "unlocked"
    /\ th' = Goes(Reader(d), "ioctl")
    /\ UNCHANGED <<world, hd, urb, tr, old, poll, main, locks, counts, kicks>>

\* USBDEVFS_REAPURB: a transfer of either thread that is over.  Its own URB is
\* with the kernel, so that a device that is gone ends the call, too.
ReadReaps(d, k) ==
    LET x == Reader(d)
        y == <<k, d>>
    IN
    /\ Running /\ th[x].pc = "ioctl"
    /\ urb[y] \in {"done", "error"}
    /\ urb' = [urb EXCEPT ![y] = "none"]
    /\ th' = [th EXCEPT ![x] = [pc |-> "got", res |-> <<k, urb[y]>>]]
    /\ UNCHANGED <<world, hd, tr, old, poll, main, locks, counts, kicks>>

\* Back with the mutex: a transfer of the writer wakes it, one of its own is (part
\* of) a packet; usb_read tries again what timed out; everything else but EINTR
\* ends the thread.
ReadReturns(d, timeout) ==
    LET x == Reader(d)
        res == th[x].res
        own == res = <<"reader", "done">> \/ (res = <<"reader", "error">> /\ timeout)
        out == res \in {<<"writer", "done">>, <<"writer", "error">>}
    IN
    /\ Running /\ th[x].pc = "got" /\ hl[d] = Free
    /\ IF hd[d].dead \/ ~(own \/ out \/ res = "EINTR")
       THEN ReadQuits(d) /\ UNCHANGED hd
       ELSE /\ th' = [th EXCEPT ![x] = [pc |-> IF own THEN "read" ELSE "unlocked", res |-> "none"]]
            /\ hd' = IF out THEN [hd EXCEPT ![d].busy = FALSE, ![d].ok = res[2] = "done"] ELSE hd
            /\ UNCHANGED tr
    /\ UNCHANGED <<world, urb, old, poll, main, locks, counts, kicks>>

-----------------------------------------------------------------------------
(* write_transport_thread: atransport::Write, remote_write, usb_bulk_write *)

\* A packet comes from the main thread, which has listed the transport.
WriteBegins(d) ==
    LET x == Writer(d) IN
    /\ Running /\ th[x].pc = "idle" /\ wl[d] = Free
    /\ tr[d].st = "listed" /\ wrote[d] < 2 * MaxPackets
    /\ th' = Goes(x, "write")
    /\ wl' = [wl EXCEPT ![d] = x]
    /\ UNCHANGED <<world, hd, urb, tr, old, poll, main, tl, gl, hl, counts, kicks>>

\* Mutant: the thread goes on with the next packet.
WriteFailsGoesOn(d) ==
    /\ th' = Goes(Writer(d), "idle")
    /\ wl' = [wl EXCEPT ![d] = Free]

\* A transfer that fails ends the packet and the thread.
WriteFails(d) ==
    /\ th' = Goes(Writer(d), "leave")
    /\ wl' = [wl EXCEPT ![d] = Free]

WriteSubmits(d) ==
    LET x == Writer(d) IN
    /\ Running /\ th[x].pc = "write" /\ hl[d] = Free
    /\ IF hd[d].dead \/ ~plug[d]
       THEN WriteFails(d) /\ UNCHANGED <<urb, hd>>
       ELSE /\ urb' = [urb EXCEPT ![x] = "submitted"]
            /\ hd' = [hd EXCEPT ![d].busy = TRUE, ![d].ok = FALSE]
            /\ th' = Goes(x, "wait")
            /\ UNCHANGED wl
    /\ UNCHANGED <<world, tr, old, poll, main, tl, gl, hl, took, wrote, kicks>>

\* 5 s have passed.  The kernel keeps the URB.
WriteTimesOut(d) ==
    /\ Running /\ th[Writer(d)].pc = "wait" /\ hl[d] = Free
    /\ WriteFails(d)
    /\ UNCHANGED <<world, hd, urb, tr, old, poll, main, tl, gl, hl, took, wrote, kicks>>

\* Mutant: the status of the transfer is not looked at.
SucceededAny(d) == ~hd[d].dead

\* The reader, or a kick, has woken it: what the transfer has come to.
Succeeded(d) == ~hd[d].dead /\ hd[d].ok

WriteWakes(d) ==
    LET x == Writer(d) IN
    /\ Running /\ th[x].pc = "wait" /\ hl[d] = Free
    /\ hd[d].dead \/ ~hd[d].busy
    /\ IF Succeeded(d)
       THEN /\ wrote' = [wrote EXCEPT ![d] = @ + 1]
            /\ th' = Goes(x, IF wrote[d] % 2 = 0 THEN "write" ELSE "idle")
            /\ wl' = [wl EXCEPT ![d] = IF wrote[d] % 2 = 0 THEN x ELSE Free]
       ELSE WriteFails(d) /\ UNCHANGED wrote
    /\ UNCHANGED <<world, hd, urb, tr, old, poll, main, tl, gl, hl, took, kicks>>

\* SYNC(0, 0) from the main thread.
WriteQuits(d) ==
    /\ Running /\ th[Writer(d)].pc = "idle" /\ tr[d].sync = "handled"
    /\ th' = Goes(Writer(d), "leave")
    /\ UNCHANGED <<world, hd, urb, tr, old, poll, main, locks, counts, kicks>>

-----------------------------------------------------------------------------
(* kick_transport, transport_unref: the end of both threads *)

\* Only a transport on transport_list is kicked, and only once.
ToKick(d) == tr[d].st = "listed" /\ ~tr[d].kicked

LeaveKicks(x) ==
    /\ Running /\ th[x].pc = "leave"
    /\ tl = Free
    /\ IF ToKick(x[2])
       THEN /\ tl' = x
            /\ tr' = [tr EXCEPT ![x[2]].kicked = TRUE]
            /\ th' = Goes(x, "kick")
       ELSE th' = Goes(x, "unref") /\ UNCHANGED <<tl, tr>>
    /\ UNCHANGED <<world, hd, urb, old, poll, main, gl, hl, wl, counts, kicks>>

\* Mutant: Kick does not wait for the packet that is being written.
MayKickNow(d) == hl[d] = Free

\* atransport::Kick takes write_msg_lock_.
MayKick(d) == hl[d] = Free /\ wl[d] = Free

LeaveKicked(x) ==
    /\ Running /\ th[x].pc = "kick"
    /\ MayKick(x[2])
    /\ UsbKick(x[2])
    /\ th' = [UsbKickThread(x[2]) EXCEPT ![x].pc = "unref"]
    /\ tl' = Free
    /\ UNCHANGED <<world, tr, old, poll, main, gl, hl, wl, counts, kicks>>

\* transport_unref: the last reference closes the transport.
LeaveUnrefs(x) ==
    LET d == x[2] IN
    /\ Running /\ th[x].pc = "unref"
    /\ tr' = [tr EXCEPT ![d].refs = @ - 1]
    /\ th' = Goes(x, IF tr[d].refs = 1 THEN "close" ELSE "none")
    /\ UNCHANGED <<world, hd, urb, old, poll, main, locks, counts, kicks>>

\* Mutant: usb_close does not take g_usb_handles_mutex.
MayCloseNow == TRUE

MayClose == gl = Free

\* usb_close deletes the handle: from now on the device can be opened again.  Then
\* remove_transport tells the main thread (see PollRegisters); the atransport stays
\* on transport_list, kicked, until that hears of it.
LeaveCloses(x) ==
    LET d == x[2] IN
    /\ Running /\ th[x].pc = "close"
    /\ MayClose
    /\ hd' = [hd EXCEPT ![d] = NoHandle]
    /\ urb' = [y \in Threads |-> IF y[2] = d THEN "none" ELSE urb[y]]
    /\ tr' = [tr EXCEPT ![d] = NoTransport]
    /\ old' = old \cup {d}
    /\ th' = Goes(x, "none")
    /\ UNCHANGED <<world, poll, main, locks, counts, kicks>>

-----------------------------------------------------------------------------
(* The main thread *)

InLoop == main.pc = "loop"

\* transport_registration_func: the threads start before the transport is listed.
\* Its socketpair is a queue: the removal of an older transport that was posted
\* before comes first.
MainStarts(d) ==
    /\ InLoop /\ tr[d].st = "pending" /\ d \notin old
    /\ main' = [pc |-> "list", todo |-> {d}]
    /\ IF hd[d].writeable
       THEN /\ tr' = [tr EXCEPT ![d].refs = 2]
            /\ th' = [th EXCEPT ![Reader(d)].pc = "read", ![Writer(d)].pc = "idle"]
       ELSE UNCHANGED <<tr, th>>
    /\ UNCHANGED <<world, hd, urb, old, poll, locks, counts, kicks>>

MainLists(d) ==
    /\ main.pc = "list" /\ d \in main.todo
    /\ tl = Free
    /\ tr' = [tr EXCEPT ![d].st = "listed"]
    /\ main' = [pc |-> "loop", todo |-> {}]
    /\ UNCHANGED <<world, hd, urb, old, th, poll, locks, counts, kicks>>

\* SYNC(0, 0) comes from the reader and goes to the writer.
MainSyncs(d) ==
    /\ InLoop /\ tr[d].sync = "sent"
    /\ tr' = [tr EXCEPT ![d].sync = "handled"]
    /\ UNCHANGED <<world, hd, urb, old, th, poll, main, locks, counts, kicks>>

MainRemoves(d) ==
    /\ InLoop /\ d \in old /\ tl = Free
    /\ old' = old \ {d}
    /\ UNCHANGED <<world, hd, urb, tr, th, poll, main, locks, counts, kicks>>

\* "reconnect": acquire_one_transport leaves out devices without permissions.
MainKicks(d) ==
    /\ InLoop /\ hd[d].writeable /\ kicks < MaxKick /\ tl = Free /\ ToKick(d)
    /\ kicks' = kicks + 1
    /\ tl' = Main
    /\ tr' = [tr EXCEPT ![d].kicked = TRUE]
    /\ main' = [pc |-> "kick", todo |-> {d}]
    /\ UNCHANGED <<world, hd, urb, old, th, poll, gl, hl, wl, counts>>

MainKicked(d) ==
    /\ main.pc = "kick" /\ d \in main.todo
    /\ MayKick(d)
    /\ UsbKick(d)
    /\ th' = UsbKickThread(d)
    /\ tl' = Free
    /\ main' = [pc |-> "loop", todo |-> {}]
    /\ UNCHANGED <<world, tr, old, poll, gl, hl, wl, counts, kicks>>

\* quick_exit, adb_server_cleanup, kick_all_transports.
MainExits ==
    /\ InLoop /\ tl = Free
    /\ tl' = Main
    /\ main' = [pc |-> "exit", todo |-> {d \in Devices : tr[d].st = "listed"}]
    /\ UNCHANGED <<world, hd, urb, tr, old, th, poll, gl, hl, wl, counts, kicks>>

ExitSkips(d) ==
    /\ main.pc = "exit" /\ d \in main.todo /\ ~ToKick(d)
    /\ main' = [main EXCEPT !.todo = @ \ {d}]
    /\ UNCHANGED <<world, hd, urb, tr, old, th, poll, locks, counts, kicks>>

ExitKicks(d) ==
    /\ main.pc = "exit" /\ d \in main.todo /\ ToKick(d)
    /\ MayKick(d)
    /\ UsbKick(d)
    /\ th' = UsbKickThread(d)
    /\ tr' = [tr EXCEPT ![d].kicked = TRUE]
    /\ main' = [main EXCEPT !.todo = @ \ {d}]
    /\ UNCHANGED <<world, old, poll, locks, counts, kicks>>

\* usb_kick calls unregister_usb_transport, which waits for transport_lock, which
\* this thread has: there is no step after this one.
ExitKicksReadOnly(d) ==
    /\ main.pc = "exit" /\ d \in main.todo /\ ToKick(d)
    /\ wl[d] = Free
    /\ UsbKickReadOnly(Main, d)
    /\ tr' = [tr EXCEPT ![d].kicked = TRUE]
    /\ main' = [main EXCEPT !.pc = "relock"]
    /\ UNCHANGED <<world, urb, old, th, poll, tl, gl, wl, counts, kicks>>

ExitEnds ==
    /\ main.pc = "exit" /\ main.todo = {}
    /\ main' = [main EXCEPT !.pc = "exited"]
    /\ tl' = Free
    /\ UNCHANGED <<world, hd, urb, tr, old, th, poll, gl, hl, wl, counts, kicks>>

-----------------------------------------------------------------------------
Init ==
    /\ plug = [d \in Devices |-> FALSE]
    /\ plugs = [d \in Devices |-> 0]
    /\ hd = [d \in Devices |-> NoHandle]
    /\ urb = [x \in Threads |-> "none"]
    /\ tr = [d \in Devices |-> NoTransport]
    /\ old = {}
    /\ th = [x \in Threads |-> NoThread]
    /\ poll = [pc |-> "scan", dev |-> {}, todo |-> Devices]
    /\ main = [pc |-> "loop", todo |-> {}]
    /\ tl = Free
    /\ gl = Free
    /\ hl = [d \in Devices |-> Free]
    /\ wl = [d \in Devices |-> Free]
    /\ took = [d \in Devices |-> 0]
    /\ wrote = [d \in Devices |-> 0]
    /\ kicks = 0

PollThread ==
    \/ PollKicks
    \/ PollSleeps
    \/ \E d \in Devices :
          \/ PollLooks(d)
          \/ PollOpens(d)
          \/ PollRegisters(d)
          \/ PollSpares(d)
          \/ PollKicksOne(d)
          \/ PollKicksReadOnly(d)
          \/ PollUnregisters(d)

Leave(x) == LeaveKicks(x) \/ LeaveKicked(x) \/ LeaveUnrefs(x) \/ LeaveCloses(x)

ReadThread(d) ==
    \/ ReadSubmits(d)
    \/ ReadBlocks(d)
    \/ \E k \in {"reader", "writer"} : ReadReaps(d, k)
    \/ \E timeout \in BOOLEAN : ReadReturns(d, timeout)

WriteThread(d) ==
    \/ WriteSubmits(d)
    \/ WriteTimesOut(d)
    \/ WriteWakes(d)
    \/ WriteQuits(d)

MainThread ==
    \/ ExitEnds
    \/ \E d \in Devices :
          \/ MainStarts(d)
          \/ MainLists(d)
          \/ MainSyncs(d)
          \/ MainRemoves(d)
          \/ MainKicked(d)
          \/ ExitSkips(d)
          \/ ExitKicks(d)
          \/ ExitKicksReadOnly(d)

Next ==
    \/ PollThread
    \/ MainThread
    \/ MainExits
    \/ \E d \in Devices :
          \/ ReadThread(d)
          \/ WriteThread(d)
          \/ WriteBegins(d)
          \/ MainKicks(d)
          \/ Plug(d)
          \/ Unplug(d)
    \/ \E x \in Threads : Leave(x) \/ \E how \in {"done", "error"} : Transfer(x, how)

Spec == Init /\ [][Next]_vars

\* Threads run on, and get a mutex that is free again and again (strong fairness
\* where another thread may take it first); a device that is plugged in can be
\* opened in the end.  Nothing is assumed of users, of devices or of transfers:
\* a write that nobody ends times out.
Fairness ==
    /\ WF_vars(PollThread)
    /\ SF_vars(MainThread)
    /\ \A d \in Devices :
          /\ SF_vars(PollOpens(d))
          /\ WF_vars(ReadThread(d))
          /\ WF_vars(WriteThread(d))
    /\ \A x \in Threads : SF_vars(Leave(x))

FairSpec == Spec /\ Fairness

-----------------------------------------------------------------------------
(* Properties *)

Urbs == {"none", "submitted", "done", "error"}
Results == {"none", "EINTR"} \cup ({"reader", "writer"} \X {"done", "error"})

\* Types of the variables.
TypeOK ==
    /\ plug \in [Devices -> BOOLEAN] /\ plugs \in [Devices -> Nat]
    /\ hd \in [Devices -> [live : BOOLEAN, writeable : BOOLEAN, dead : BOOLEAN, mark : BOOLEAN,
                           busy : BOOLEAN, ok : BOOLEAN]]
    /\ urb \in [Threads -> Urbs]
    /\ tr \in [Devices -> [st : {"none", "pending", "listed"}, kicked : BOOLEAN,
                           refs : 0..2, sync : {"no", "sent", "handled"}]]
    /\ old \subseteq Devices
    /\ DOMAIN th = Threads
    /\ \A x \in Threads :
          /\ th[x].pc \in {"none", "read", "unlocked", "ioctl", "got", "idle", "write", "wait",
                           "leave", "kick", "unref", "close"}
          /\ th[x].res = "none" \/ th[x].pc = "got"
    /\ poll.pc \in {"scan", "register", "kick", "unregister"}
    /\ poll.dev \subseteq Devices /\ poll.todo \subseteq Devices
    /\ main.pc \in {"loop", "list", "kick", "exit", "relock", "exited"} /\ main.todo \subseteq Devices
    /\ tl \in Threads \cup {Free, Main} /\ gl \in {Free, Poll}
    /\ hl \in [Devices -> {Free, Main, Poll}]
    /\ \A d \in Devices : wl[d] \in {Free, Writer(d)}
    /\ took \in [Devices -> Nat] /\ wrote \in [Devices -> Nat]
    /\ kicks \in Nat

\* Whoever works on a handle works on one that was not deleted: the threads of
\* its transport until they drop it, the poll thread for all it is still to look
\* at, and whoever is about to kick it.
HandleAlive ==
    \A d \in Devices :
        \/ hd[d].live
        \/ /\ \A x \in {Reader(d), Writer(d)} : th[x].pc = "none"
           /\ ~(poll.pc \in {"kick", "unregister"} /\ d \in poll.todo \cup poll.dev)
           /\ ~(main.pc = "kick" /\ d \in main.todo)
           /\ tr[d].st \notin {"pending", "listed"}

\* usb_bulk_read and usb_bulk_write clear an URB and submit it again only when
\* the kernel has given it back, a write that timed out included.
UrbFree ==
    \A d \in Devices, x \in Threads :
        x[2] = d /\ th[x].pc \in {"read", "write"} /\ ~hd[d].dead => urb[x] = "none"

\* A transfer for which usb_bulk_write returned was taken by the device, and at
\* most one was taken for which it has not, or that it gave up.
WriteHonest ==
    \A d \in Devices : hd[d].live => took[d] \in wrote[d]..wrote[d] + 1

\* "adb server should avoid writing part of a packet": a device that is there and
\* whose handle was kicked, by a request or because the server exits, has been
\* sent whole packets, unless a transfer failed and ended the writer.
WholePackets ==
    \A d \in Devices :
        /\ hd[d].live /\ plug[d]
        /\ hd[d].dead \/ main.pc = "exited"
        /\ th[Writer(d)].pc \in {"idle", "write", "wait"}
        => took[d] % 2 = 0

\* The server is gone, or its main thread waits for a mutex it has itself.
Stopped == main.pc \in {"exited", "relock"}

\* The server's list follows the device: the handle of one that was unplugged is
\* deleted in the end, and one that is plugged in has a transport that was not
\* kicked, again after a kick or a failure, whatever its threads wait for.
ListFollowsDevice ==
    \A d \in Devices :
        /\ (hd[d].live /\ hd[d].writeable /\ ~plug[d]) ~> (~hd[d].live \/ Stopped)
        /\ plug[d] ~> ((tr[d].st = "listed" /\ ~tr[d].kicked) \/ ~plug[d] \/ Stopped)

\* adb_server_cleanup comes to its end.
ExitCompletes == main.pc = "exit" ~> main.pc = "exited"
=============================================================================
