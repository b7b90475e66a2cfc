--------------------------- MODULE UsbHostProofs ---------------------------
(***************************************************************************)
(* Proofs about UsbHost.  IInv is the inductive invariant: LockInv says    *)
(* who holds which mutex; HandleInv and LifeInv follow a usb_handle and    *)
(* its transport from registration to usb_close; UrbInv and HonestInv      *)
(* follow a transfer through the kernel, the reader that reaps it and the  *)
(* result the writer waits for; MarkInv and PacketInv say which handles    *)
(* may be kicked and when.  KickEffect to KickedEffect say what the shared *)
(* pieces of the actions do; then there is one lemma per action.           *)
(***************************************************************************)
EXTENDS UsbHost, TLAPS

\* A usb_handle.
Handle == [live : BOOLEAN, writeable : BOOLEAN, dead : BOOLEAN,
           mark : BOOLEAN, busy : BOOLEAN, ok : BOOLEAN]

\* A transport.
Transport == [st : {"none", "pending", "listed"}, kicked : BOOLEAN,
              refs : 0..2, sync : {"no", "sent", "handled"}]

\* Where a thread of a transport can be.
Pcs == {"none", "read", "unlocked", "ioctl", "got", "idle", "write", "wait", "leave", "kick", "unref",
        "close"}

\* The poll thread.
PollState == [pc : {"scan", "register", "kick", "unregister"},
              dev : SUBSET Devices, todo : SUBSET Devices]

\* The main thread.
MainState == [pc : {"loop", "list", "kick", "exit", "relock", "exited"}, todo : SUBSET Devices]

\* A thread and what ioctl(USBDEVFS_REAPURB) brought it.
Thread == [pc : Pcs, res : Results]

\* Each transport has a reader and a writer, and they differ.
LEMMA ThreadNames ==
    /\ \A d \in Devices :
          /\ Reader(d) \in Threads /\ Writer(d) \in Threads
          /\ Reader(d)[1] = "reader" /\ Writer(d)[1] = "writer"
          /\ Reader(d)[2] = d /\ Writer(d)[2] = d
    /\ \A d, e \in Devices :
          /\ Reader(d) # Writer(e)
          /\ Reader(d) = Reader(e) => d = e
          /\ Writer(d) = Writer(e) => d = e
    /\ \A x \in Threads :
          /\ x[2] \in Devices
          /\ x = Reader(x[2]) \/ x = Writer(x[2])
BY DEF Threads, Reader, Writer

\* Owners of a mutex are told apart.
LEMMA LockNames ==
    /\ Free \notin Threads /\ Main \notin Threads /\ Poll \notin Threads
    /\ Free # Main /\ Free # Poll /\ Main # Poll
BY DEF Threads, Free, Main, Poll

\* Where the reader of d is.
RPc(d) == th[Reader(d)].pc

\* Where the writer of d is.
WPc(d) == th[Writer(d)].pc

\* The URB of the reader of d.
RUrb(d) == urb[Reader(d)]

\* The URB of the writer of d.
WUrb(d) == urb[Writer(d)]

\* A thread that still has its reference to the transport.
Counted(pc) == IF pc \in {"none", "close"} THEN 0 ELSE 1

\* The threads of the transport of d have not been started, or are all gone.
Unstarted(d) ==
    /\ RPc(d) = "none" /\ WPc(d) = "none" /\ tr[d].refs = 0 /\ tr[d].sync = "no"
    /\ RUrb(d) = "none" /\ WUrb(d) = "none"
    /\ took[d] = 0 /\ wrote[d] = 0

\* The main thread starts the transport of d and has yet to list it.
Listing(d) == main.pc = "list" /\ d \in main.todo

\* The main thread kicks the transport of d.
MainKicking(d) == main.pc = "kick" /\ d \in main.todo

\* The poll thread has the handle of d and has yet to register its transport.
Registering(d) == poll.pc = "register" /\ d \in poll.dev

\* The poll thread is to unregister the transport of a read-only d.
Unregistering(d) == poll.pc = "unregister" /\ d \in poll.dev

\* kick_disconnected_devices has d before it or in its hands.
PollHas(d) == poll.pc \in {"kick", "unregister"} /\ d \in poll.todo \cup poll.dev

\* The poll thread has looked at d in this round.
Looked(d) == poll.pc \in {"scan", "register"} /\ d \notin poll.todo

\* kick_disconnected_devices has yet to look at the mark of d.
Judging(d) == poll.pc \in {"kick", "unregister"} /\ d \in poll.todo

\* The exiting server has nothing more to do with d.
Spared(d) == main.pc = "exited" \/ (main.pc = "exit" /\ d \notin main.todo)

-----------------------------------------------------------------------------
(* The inductive invariant *)

\* Who has which mutex.
LockInv ==
    /\ poll.pc \in {"kick", "unregister"} <=> gl = Poll
    /\ main.pc \in {"kick", "exit", "relock"} <=> tl = Main
    /\ \A x \in Threads : th[x].pc = "kick" <=> tl = x
    /\ \A d \in Devices : wl[d] # Free <=> WPc(d) \in {"write", "wait"}
    /\ \A d, e \in poll.dev : d = e
    /\ main.pc \in {"list", "kick"} => \A d, e \in main.todo : d = e
    /\ \A d \in Devices : hl[d] = Main => main.pc = "relock"

\* A handle lives from register_device to usb_close.
HandleInv(d) ==
    /\ ~hd[d].live => 
          /\ ~hd[d].dead /\ tr[d] = NoTransport
          /\ RPc(d) = "none" /\ WPc(d) = "none" /\ RUrb(d) = "none" /\ WUrb(d) = "none"
          /\ ~Registering(d) /\ ~Listing(d) /\ ~MainKicking(d)
    /\ Registering(d) => tr[d] = NoTransport /\ Unstarted(d) /\ ~hd[d].dead
    /\ PollHas(d) => hd[d].live
    /\ Unregistering(d) => ~hd[d].writeable

\* A transport from its registration to its removal.
LifeInv(d) ==
    /\ RPc(d) \in {"none", "read", "unlocked", "ioctl", "got", "leave", "kick", "unref", "close"}
    /\ WPc(d) \in {"none", "idle", "write", "wait", "leave", "kick", "unref", "close"}
    /\ tr[d].refs = Counted(RPc(d)) + Counted(WPc(d))
    /\ RPc(d) = "close" => WPc(d) = "none"
    /\ WPc(d) = "close" => RPc(d) = "none"
    /\ ~hd[d].writeable /\ hd[d].live => Unstarted(d)
    /\ tr[d].st = "none" => tr[d] = NoTransport /\ RPc(d) = "none" /\ WPc(d) = "none"
    /\ tr[d].st = "pending" => ~tr[d].kicked /\ (Listing(d) \/ Unstarted(d))
    /\ Listing(d) => tr[d].st = "pending"
       /\ (hd[d].writeable => WPc(d) = "idle" /\ tr[d].sync # "handled")
    /\ tr[d].st = "listed" /\ hd[d].writeable => RPc(d) # "none" \/ WPc(d) # "none"
    /\ RPc(d) \in {"kick", "close"} \/ WPc(d) \in {"kick", "unref", "close"} => tr[d].kicked
    /\ RPc(d) # "none" /\ WPc(d) = "none" => tr[d].kicked
    /\ MainKicking(d) => tr[d].st = "listed" /\ tr[d].kicked /\ tr[d].refs > 0 /\ hd[d].writeable
       /\ WPc(d) \notin {"none", "unref", "close"}

\* The reader has reaped a transfer of the writer and not yet told it.
Reaped(d, how) == RPc(d) = "got" /\ th[Reader(d)].res = <<"writer", how>>

\* Where the URBs are.
UrbInv(d) ==
    /\ RPc(d) = "read" => RUrb(d) = "none"
    /\ ~hd[d].dead /\ RPc(d) = "got"
       /\ th[Reader(d)].res \in {<<"reader", "done">>, <<"reader", "error">>} => RUrb(d) = "none"
    /\ ~hd[d].dead /\ (Reaped(d, "done") \/ Reaped(d, "error")) => WUrb(d) = "none"
    /\ ~hd[d].dead /\ (WPc(d) \in {"idle", "write"} \/ (WPc(d) = "wait" /\ ~hd[d].busy)) =>
          WUrb(d) = "none" /\ ~Reaped(d, "done") /\ ~Reaped(d, "error")

\* How many transfers the device took.
HonestInv(d) ==
    /\ hd[d].live => took[d] \in wrote[d]..wrote[d] + 1
    /\ WUrb(d) = "submitted" => took[d] = wrote[d]
    /\ ~hd[d].dead /\ WPc(d) \in {"idle", "write"} => took[d] = wrote[d]
    /\ /\ ~hd[d].dead /\ WPc(d) = "wait"
       /\ (~hd[d].busy /\ hd[d].ok) \/ WUrb(d) = "done" \/ Reaped(d, "done")
       => took[d] = wrote[d] + 1

\* The poll thread kicks handles of devices that are gone.
MarkInv(d) ==
    hd[d].live /\ plug[d] /\ (Looked(d) \/ Judging(d)) => hd[d].mark

\* Who kicks waits for the end of a packet.
PacketInv(d) ==
    /\ WPc(d) = "idle" => wrote[d] % 2 = 0
    /\ hd[d].live /\ plug[d] /\ hd[d].dead => WPc(d) # "wait" /\
          (WPc(d) \in {"idle", "write"} => WUrb(d) = "none" /\ took[d] % 2 = 0)
    /\ hd[d].writeable /\ tr[d].kicked =>
          hd[d].dead \/ RPc(d) = "kick" \/ WPc(d) = "kick" \/ MainKicking(d)
    /\ Spared(d) /\ WPc(d) \in {"idle", "write", "wait"} => hd[d].dead

\* Types, as far as the other parts need them.
TypeInv ==
    /\ plug \in [Devices -> BOOLEAN] /\ plugs \in [Devices -> Nat]
    /\ hd \in [Devices -> Handle]
    /\ urb \in [Threads -> Urbs]
    /\ tr \in [Devices -> Transport]
    /\ old \subseteq Devices
    /\ th \in [Threads -> Thread]
    /\ poll \in PollState
    /\ main \in MainState
    /\ tl \in Threads \cup {Free, Main} /\ gl \in {Free, Poll}
    /\ hl \in [Devices -> {Free, Main, Poll}]
    /\ wl \in [Devices -> Threads \cup {Free}]
    /\ took \in [Devices -> Nat] /\ wrote \in [Devices -> Nat]
    /\ kicks \in Nat

\* What holds of each device.
DevInv(d) == HandleInv(d) /\ LifeInv(d) /\ UrbInv(d) /\ HonestInv(d) /\ MarkInv(d) /\ PacketInv(d)

\* The inductive invariant.
IInv == TypeInv /\ LockInv /\ \A d \in Devices : DevInv(d)

-----------------------------------------------------------------------------
(* Frame and types *)

\* A step leaves alone what belongs to e,
Same(e) ==
    /\ hd'[e] = hd[e] /\ tr'[e] = tr[e] /\ plug'[e] = plug[e] /\ took'[e] = took[e]
       /\ wrote'[e] = wrote[e]
    /\ th'[Reader(e)] = th[Reader(e)] /\ th'[Writer(e)] = th[Writer(e)]
    /\ urb'[Reader(e)] = urb[Reader(e)] /\ urb'[Writer(e)] = urb[Writer(e)]

\* what the poll thread does with it,
PollSame(e) ==
    /\ Registering(e)' => Registering(e)
    /\ Unregistering(e)' => Unregistering(e)
    /\ PollHas(e)' => PollHas(e)
    /\ Looked(e)' => Looked(e)
    /\ Judging(e)' => Judging(e)

\* and what the main thread does with it:
MainSame(e) ==
    /\ Listing(e)' <=> Listing(e)
    /\ MainKicking(e)' <=> MainKicking(e)
    /\ Spared(e)' => Spared(e)

\* then DevInv(e) stays.
LEMMA Frame ==
    ASSUME NEW e \in Devices, DevInv(e), Same(e), PollSame(e), MainSame(e)
    PROVE  DevInv(e)'
<1> USE DEF Same, PollSame, MainSame, RPc, WPc, RUrb, WUrb
<1>u. Unstarted(e)' <=> Unstarted(e)
  BY DEF Unstarted
<1>1. HandleInv(e)'
  BY <1>u DEF DevInv, HandleInv
<1>2. LifeInv(e)'
  BY <1>u DEF DevInv, LifeInv
<1>3. UrbInv(e)'
  BY DEF DevInv, UrbInv, Reaped
<1>4. HonestInv(e)'
  BY DEF DevInv, HonestInv, Reaped
<1>5. MarkInv(e)'
  BY DEF DevInv, MarkInv
<1>6. PacketInv(e)'
  BY DEF DevInv, PacketInv
<1> QED BY <1>1, <1>2, <1>3, <1>4, <1>5, <1>6 DEF DevInv

\* Handles, and what the code assigns to their fields.
LEMMA HandleTypes ==
    /\ NoHandle \in Handle
    /\ \A w \in BOOLEAN : NewHandle(w) \in Handle
    /\ \A h \in Handle, b \in BOOLEAN :
          /\ [h EXCEPT !.mark = b] \in Handle /\ [h EXCEPT !.dead = b] \in Handle
          /\ [h EXCEPT !.busy = b] \in Handle /\ [h EXCEPT !.ok = b] \in Handle
<1>1. NoHandle \in Handle
  BY DEF Handle, NoHandle
<1>2. \A w \in BOOLEAN : NewHandle(w) \in Handle
  BY DEF Handle, NoHandle, NewHandle
<1>3. \A h \in Handle, b \in BOOLEAN : [h EXCEPT !.mark = b] \in Handle
      /\ [h EXCEPT !.dead = b] \in Handle
  BY DEF Handle
<1>4. \A h \in Handle, b \in BOOLEAN : [h EXCEPT !.busy = b] \in Handle
      /\ [h EXCEPT !.ok = b] \in Handle
  BY DEF Handle
<1> QED BY <1>1, <1>2, <1>3, <1>4

\* Transports, and what the code assigns to their fields.
LEMMA TransportTypes ==
    /\ NoTransport \in Transport
    /\ [NoTransport EXCEPT !.st = "pending"] \in Transport
    /\ \A t \in Transport :
          /\ [t EXCEPT !.kicked = TRUE] \in Transport /\ [t EXCEPT !.st = "listed"] \in Transport
          /\ \A s \in {"sent", "handled"} : [t EXCEPT !.sync = s] \in Transport
          /\ \A n \in 0..2 : [t EXCEPT !.refs = n] \in Transport
<1>1. NoTransport \in Transport
  BY DEF Transport, NoTransport
<1>2. \A t \in Transport : [t EXCEPT !.kicked = TRUE] \in Transport
      /\ [t EXCEPT !.st = "listed"] \in Transport
  BY DEF Transport
<1>3. \A t \in Transport : [t EXCEPT !.st = "pending"] \in Transport
  BY DEF Transport
<1>4. \A t \in Transport, s \in {"sent", "handled"} : [t EXCEPT !.sync = s] \in Transport
  BY DEF Transport
<1>5. \A t \in Transport, n \in 0..2 : [t EXCEPT !.refs = n] \in Transport
  BY DEF Transport
<1> QED BY <1>1, <1>2, <1>3, <1>4, <1>5

\* Threads, and what they bring back.
LEMMA ThreadTypes ==
    /\ \A h \in Thread, pc \in Pcs : [h EXCEPT !.pc = pc] \in Thread
    /\ \A pc \in Pcs, r \in Results : [pc |-> pc, res |-> r] \in Thread
    /\ "none" \in Results /\ "EINTR" \in Results
    /\ \A k \in {"reader", "writer"}, u \in {"done", "error"} : <<k, u>> \in Results
BY DEF Thread, Results

\* The poll thread and the main thread.
LEMMA StateTypes ==
    /\ \A p \in PollState, D \in SUBSET Devices : [p EXCEPT !.todo = D] \in PollState
    /\ \A p \in PollState, pc \in {"scan", "kick"} :
          [[p EXCEPT !.pc = pc] EXCEPT !.dev = {}] \in PollState
    /\ \A pc \in {"scan", "register", "kick", "unregister"}, D, E \in SUBSET Devices :
          [pc |-> pc, dev |-> D, todo |-> E] \in PollState
    /\ \A m \in MainState, D \in SUBSET Devices : [m EXCEPT !.todo = D] \in MainState
    /\ \A m \in MainState, pc \in {"relock", "exited"} : [m EXCEPT !.pc = pc] \in MainState
    /\ \A pc \in {"loop", "list", "kick", "exit"}, D \in SUBSET Devices :
          [pc |-> pc, todo |-> D] \in MainState
    /\ \A p \in PollState : p.dev \subseteq Devices /\ p.todo \subseteq Devices
    /\ \A m \in MainState : m.todo \subseteq Devices
BY DEF PollState, MainState

-----------------------------------------------------------------------------
(* The pieces the actions share *)

\* What usb_kick does to the handle of d and to its transfers.
KickMade(d) ==
    /\ hd' \in [Devices -> Handle] /\ urb' \in [Threads -> Urbs]
    /\ \A e \in Devices \ {d} :
          hd'[e] = hd[e] /\ urb'[Reader(e)] = urb[Reader(e)] /\ urb'[Writer(e)] = urb[Writer(e)]
    /\ hd'[d].dead /\ (hd[d].dead => hd'[d] = hd[d] /\ urb' = urb)
    /\ hd'[d].live = hd[d].live /\ hd'[d].writeable = hd[d].writeable /\ hd'[d].mark = hd[d].mark
    /\ ~hd[d].dead => hd[d].writeable
    /\ ~hd[d].dead => RUrb(d)' = Busy(RUrb(d)) /\ WUrb(d)' = Busy(WUrb(d))

\* What its signal does to the threads: T is what th becomes.
SignalMade(d, T) ==
    /\ T \in [Threads -> Thread]
    /\ \A e \in Devices \ {d} : T[Reader(e)] = th[Reader(e)]
    /\ \A e \in Devices : T[Writer(e)] = th[Writer(e)]
    /\ \/ T[Reader(d)] = th[Reader(d)]
       \/ RPc(d) = "ioctl" /\ T[Reader(d)] = [pc |-> "got", res |-> "EINTR"]

\* usb_kick: a handle already dead is left alone; else its URBs are discarded.
LEMMA KickEffect ==
    ASSUME TypeInv, NEW d \in Devices, UsbKick(d)
    PROVE  KickMade(d)
<1>1. CASE hd[d].dead
  <2>1. UNCHANGED <<hd, urb>>
    BY <1>1 DEF UsbKick
  <2> QED BY <1>1, <2>1 DEF KickMade, TypeInv
<1>2. CASE ~hd[d].dead
  <2>1. hd' = Kicked(d) /\ urb' = Discarded(d) /\ hd[d].writeable
    BY <1>2 DEF UsbKick
  <2>2. \A x \in Threads : Busy(urb[x]) \in Urbs
    BY DEF TypeInv, Busy, Urbs
  <2>3. urb' \in [Threads -> Urbs]
    BY <2>1, <2>2 DEF Discarded, TypeInv
  <2>4. /\ \A e \in Devices \ {d} : urb'[Reader(e)] = urb[Reader(e)]
           /\ urb'[Writer(e)] = urb[Writer(e)]
        /\ urb'[Reader(d)] = Busy(urb[Reader(d)]) /\ urb'[Writer(d)] = Busy(urb[Writer(d)])
    BY <2>1, ThreadNames DEF Discarded
  <2>5. hd' = [hd EXCEPT ![d] = [hd[d] EXCEPT !.dead = TRUE, !.busy = FALSE, !.ok = FALSE]]
    BY <2>1 DEF Kicked, TypeInv, Handle
  <2>6. [hd[d] EXCEPT !.dead = TRUE, !.busy = FALSE, !.ok = FALSE] \in Handle
    BY HandleTypes DEF TypeInv
  <2>7. /\ hd' \in [Devices -> Handle]
        /\ \A e \in Devices \ {d} : hd'[e] = hd[e]
        /\ hd'[d] = [hd[d] EXCEPT !.dead = TRUE, !.busy = FALSE, !.ok = FALSE]
    BY <2>5, <2>6 DEF TypeInv
  <2>8. /\ hd'[d].dead
        /\ hd'[d].live = hd[d].live /\ hd'[d].writeable = hd[d].writeable
           /\ hd'[d].mark = hd[d].mark
    BY <2>7 DEF TypeInv, Handle
  <2> QED BY <1>2, <2>1, <2>3, <2>4, <2>7, <2>8 DEF KickMade, RUrb, WUrb
<1> QED BY <1>1, <1>2

\* usb_kick's signal: only a reader that blocks in ioctl is woken, with EINTR.
LEMMA SignalEffect ==
    ASSUME TypeInv, NEW d \in Devices
    PROVE  SignalMade(d, UsbKickThread(d))
<1>1. CASE hd[d].dead \/ th[Reader(d)].pc # "ioctl"
  <2>1. UsbKickThread(d) = th
    BY <1>1 DEF UsbKickThread
  <2> QED BY <2>1 DEF SignalMade, TypeInv
<1>2. CASE ~(hd[d].dead \/ th[Reader(d)].pc # "ioctl")
  <2>1. UsbKickThread(d) = [th EXCEPT ![Reader(d)] = [pc |-> "got", res |-> "EINTR"]]
    BY <1>2 DEF UsbKickThread
  <2>2. [pc |-> "got", res |-> "EINTR"] \in Thread
    BY ThreadTypes DEF Pcs
  <2> QED BY <1>2, <2>1, <2>2, ThreadNames DEF SignalMade, TypeInv, RPc
<1> QED BY <1>1, <1>2

\* What transport_unref does.
UnrefMade(x, d) ==
    /\ tr' \in [Devices -> Transport] /\ th' \in [Threads -> Thread]
    /\ \A e \in Devices \ {d} : tr'[e] = tr[e]
    /\ tr'[d].st = tr[d].st /\ tr'[d].kicked = tr[d].kicked /\ tr'[d].sync = tr[d].sync
    /\ tr[d].refs \in 1..2 /\ tr'[d].refs = tr[d].refs - 1
    /\ \A y \in Threads \ {x} : th'[y] = th[y]
    /\ th'[x].pc = IF tr[d].refs = 1 THEN "close" ELSE "none"

\* A thread that goes on leaves the others alone.
LEMMA GoesEffect ==
    ASSUME TypeInv, NEW x \in Threads, NEW pc \in Pcs, th' = Goes(x, pc)
    PROVE  /\ th' \in [Threads -> Thread]
           /\ th'[x].pc = pc /\ th'[x].res = th[x].res
           /\ \A y \in Threads \ {x} : th'[y] = th[y]
<1>1. th' = [th EXCEPT ![x] = [th[x] EXCEPT !.pc = pc]]
  BY DEF Goes
<1>2. [th[x] EXCEPT !.pc = pc] \in Thread
  BY ThreadTypes DEF TypeInv
<1>3. th' \in [Threads -> Thread] /\ th'[x] = [th[x] EXCEPT !.pc = pc]
      /\ \A y \in Threads \ {x} : th'[y] = th[y]
  BY <1>1, <1>2 DEF TypeInv
<1> QED BY <1>3 DEF TypeInv, Thread

\* transport_unref: the last one to leave closes.
LEMMA UnrefEffect ==
    ASSUME TypeInv, NEW d \in Devices, LifeInv(d), NEW x \in Threads, x[2] = d, LeaveUnrefs(x)
    PROVE  UnrefMade(x, d)
<1>1. x = Reader(d) \/ x = Writer(d)
  BY ThreadNames
<1>2. tr[d].refs \in 1..2 /\ tr[d].refs - 1 \in 0..2
  BY <1>1 DEF LeaveUnrefs, LifeInv, RPc, WPc, Counted
<1>3. tr' = [tr EXCEPT ![d] = [tr[d] EXCEPT !.refs = tr[d].refs - 1]]
  BY DEF LeaveUnrefs
<1>4. [tr[d] EXCEPT !.refs = tr[d].refs - 1] \in Transport
  BY <1>2, TransportTypes DEF TypeInv
<1>5. /\ tr' \in [Devices -> Transport] /\ \A e \in Devices \ {d} : tr'[e] = tr[e]
      /\ tr'[d] = [tr[d] EXCEPT !.refs = tr[d].refs - 1]
  BY <1>3, <1>4 DEF TypeInv
<1>6. tr'[d].st = tr[d].st /\ tr'[d].kicked = tr[d].kicked /\ tr'[d].sync = tr[d].sync
      /\ tr'[d].refs = tr[d].refs - 1
  BY <1>5 DEF TypeInv, Transport
<1> DEFINE pc == IF tr[d].refs = 1 THEN "close" ELSE "none"
<1>7. th' = Goes(x, pc) /\ pc \in Pcs
  BY DEF LeaveUnrefs, Pcs
<1>8. th' \in [Threads -> Thread] /\ th'[x].pc = pc /\ \A y \in Threads \ {x} : th'[y] = th[y]
  <2> HIDE DEF pc
  <2> QED BY <1>7, GoesEffect
<1> QED BY <1>2, <1>5, <1>6, <1>8 DEF UnrefMade

\* SYNC(0, 0) sent or handled changes nothing else.
LEMMA SyncEffect ==
    ASSUME TypeInv, NEW d \in Devices, NEW s \in {"sent", "handled"},
           tr' = [tr EXCEPT ![d].sync = s]
    PROVE  /\ tr' \in [Devices -> Transport]
           /\ tr'[d].st = tr[d].st /\ tr'[d].kicked = tr[d].kicked /\ tr'[d].refs = tr[d].refs
              /\ tr'[d].sync = s
           /\ \A e \in Devices \ {d} : tr'[e] = tr[e]
<1>1. tr' = [tr EXCEPT ![d] = [tr[d] EXCEPT !.sync = s]]
  OBVIOUS
<1>2. [tr[d] EXCEPT !.sync = s] \in Transport
  BY TransportTypes DEF TypeInv
<1>3. tr' \in [Devices -> Transport] /\ tr'[d] = [tr[d] EXCEPT !.sync = s]
      /\ \A e \in Devices \ {d} : tr'[e] = tr[e]
  BY <1>1, <1>2 DEF TypeInv
<1> QED BY <1>3 DEF TypeInv, Transport

\* Kick() marks the transport and changes nothing else.
LEMMA KickedEffect ==
    ASSUME TypeInv, NEW d \in Devices, tr' = [tr EXCEPT ![d].kicked = TRUE]
    PROVE  /\ tr' \in [Devices -> Transport]
           /\ tr'[d].st = tr[d].st /\ tr'[d].kicked = TRUE /\ tr'[d].refs = tr[d].refs
              /\ tr'[d].sync = tr[d].sync
           /\ \A e \in Devices \ {d} : tr'[e] = tr[e]
<1>1. tr' = [tr EXCEPT ![d] = [tr[d] EXCEPT !.kicked = TRUE]]
  OBVIOUS
<1>2. [tr[d] EXCEPT !.kicked = TRUE] \in Transport
  BY TransportTypes DEF TypeInv
<1>3. tr' \in [Devices -> Transport] /\ tr'[d] = [tr[d] EXCEPT !.kicked = TRUE]
      /\ \A e \in Devices \ {d} : tr'[e] = tr[e]
  BY <1>1, <1>2 DEF TypeInv
<1> QED BY <1>3 DEF TypeInv, Transport

-----------------------------------------------------------------------------
(* device_poll_thread *)

\* find_usb_device sees a device whose handle exists: it is marked.
LEMMA PollLooksStep == ASSUME IInv, NEW d \in Devices, PollLooks(d) PROVE IInv'
<1>i. TypeInv /\ LockInv /\ DevInv(d)
  BY DEF IInv
<1>h. hd' \in [Devices -> Handle]
  <2>1. [hd[d] EXCEPT !.mark = TRUE] \in Handle
    BY <1>i, HandleTypes DEF TypeInv
  <2> QED BY <1>i, <2>1 DEF TypeInv, PollLooks
<1>p. poll' \in PollState
  BY <1>i, StateTypes DEF TypeInv, PollLooks
<1>t. TypeInv'
  BY <1>i, <1>h, <1>p DEF TypeInv, PollLooks, world, locks, counts
<1>l. LockInv'
  BY <1>i, ThreadNames, LockNames DEF LockInv, WPc, TypeInv, Thread, PollState, MainState,
     PollLooks, Running, world, locks, counts
<1>o. \A e \in Devices \ {d} : Same(e) /\ PollSame(e) /\ MainSame(e)
  BY DEF Same, PollSame, MainSame, Listing, MainKicking, Registering, Unregistering, PollHas,
     Looked, Judging, Spared, PollLooks, Running, world, locks, counts
<1>1. HandleInv(d)'
  BY <1>i, ThreadNames, LockNames DEF DevInv, RPc, WPc, RUrb, WUrb, PollLooks, Running, counts,
     HandleInv, Listing, MainKicking, Registering, Unregistering, PollHas, LockInv
<1>2. LifeInv(d)'
  BY <1>i, ThreadNames, LockNames DEF DevInv, RPc, WPc, RUrb, WUrb, PollLooks, Running, counts,
     HandleInv, LifeInv, Unstarted, NoTransport, Listing, MainKicking, Registering, Unregistering,
     PollHas
<1>3. UrbInv(d)'
  BY <1>i DEF DevInv, RPc, WPc, RUrb, WUrb, PollLooks, Running, UrbInv, Reaped
<1>4. HonestInv(d)'
  BY <1>i, ThreadNames, LockNames DEF DevInv, RPc, WPc, RUrb, WUrb, PollLooks, Running, counts,
     HandleInv, UrbInv, Reaped, HonestInv
<1>5. MarkInv(d)'
  BY <1>i DEF TypeInv, Handle, PollLooks, Running, world, locks, MarkInv, Looked
<1>6. PacketInv(d)'
  BY <1>i, ThreadNames, LockNames DEF DevInv, RPc, WPc, RUrb, WUrb, PollLooks, Running, world,
     locks, counts, HandleInv, PacketInv, Spared, MainKicking, Listing
<1> QED
  BY <1>t, <1>l, <1>o, <1>1, <1>2, <1>3, <1>4, <1>5, <1>6, Frame DEF IInv, DevInv

\* A device that is new is opened.
LEMMA PollOpensStep ==
    ASSUME IInv, NEW d \in Devices, PollOpens(d)
    PROVE  IInv'
<1>i. TypeInv /\ LockInv /\ DevInv(d)
  BY DEF IInv
<1>w. PICK w \in BOOLEAN : hd' = [hd EXCEPT ![d] = NewHandle(w)]
  BY DEF PollOpens
<1>u. /\ UNCHANGED <<plug, plugs, urb, tr, old, th, main, tl, gl, hl, wl, kicks>>
      /\ poll.pc = "scan" /\ ~hd[d].live /\ gl = Free
      /\ poll' = [pc |-> "register", dev |-> {d}, todo |-> poll.todo \ {d}]
      /\ took' = [took EXCEPT ![d] = 0] /\ wrote' = [wrote EXCEPT ![d] = 0]
  BY DEF PollOpens, world, locks
<1>a. /\ hd' \in [Devices -> Handle] /\ hd'[d] = NewHandle(w)
         /\ \A e \in Devices \ {d} : hd'[e] = hd[e]
  BY <1>w, <1>i, HandleTypes DEF TypeInv
<1>b. /\ took' \in [Devices -> Nat] /\ took'[d] = 0 /\ \A e \in Devices \ {d} : took'[e] = took[e]
      /\ wrote' \in [Devices -> Nat] /\ wrote'[d] = 0
         /\ \A e \in Devices \ {d} : wrote'[e] = wrote[e]
  BY <1>i, <1>u DEF TypeInv
<1>g. /\ hd'[d].live /\ hd'[d].writeable = w /\ ~hd'[d].dead /\ hd'[d].mark
  BY <1>a DEF NewHandle, NoHandle
<1>f. RPc(d)' = RPc(d) /\ WPc(d)' = WPc(d) /\ RUrb(d)' = RUrb(d) /\ WUrb(d)' = WUrb(d)
  BY <1>u DEF RPc, WPc, RUrb, WUrb
<1>e. tr[d] = NoTransport /\ RPc(d) = "none" /\ WPc(d) = "none" /\ RUrb(d) = "none"
      /\ WUrb(d) = "none" /\ ~Listing(d) /\ ~MainKicking(d)
  BY <1>i, <1>u DEF DevInv, HandleInv
<1>p. poll' \in PollState
  BY <1>i, <1>u, StateTypes DEF TypeInv
<1>t. TypeInv'
  BY <1>i, <1>u, <1>p, <1>a, <1>b DEF TypeInv
<1>o. \A e \in Devices \ {d} : Same(e) /\ PollSame(e) /\ MainSame(e)
  BY <1>u, <1>a, <1>b, ThreadNames DEF Same, PollSame, MainSame, Listing, MainKicking, Registering,
     Unregistering, PollHas, Looked, Judging, Spared
<1>l. LockInv'
  BY <1>i, <1>u, LockNames DEF LockInv, WPc
<1>1. HandleInv(d)'
  BY <1>f, <1>u, <1>e, <1>g, <1>b DEF Thread, HandleInv, Unstarted, NoTransport, Registering,
     Unregistering
<1>2. LifeInv(d)'
  BY <1>i, <1>f, <1>u, <1>e DEF DevInv, TypeInv, LifeInv, Unstarted, NoTransport, Listing,
     MainKicking, Registering
<1>3. UrbInv(d)'
  BY <1>i, <1>f, <1>u, <1>e, <1>g, <1>b DEF DevInv, TypeInv, Transport, Handle, Thread, UrbInv,
     Reaped
<1>4. HonestInv(d)'
  BY <1>i, <1>f, <1>u, <1>e, <1>g, <1>b DEF DevInv, TypeInv, Transport, Handle, Thread, HonestInv,
     UrbInv, Reaped
<1>5. MarkInv(d)'
  BY <1>i, <1>f, <1>u, <1>e, <1>g, <1>b DEF DevInv, TypeInv, Transport, Handle, Thread, MarkInv,
     Looked, Judging, PollHas
<1>6. PacketInv(d)'
  BY <1>f, <1>u, <1>e DEF PacketInv, NoTransport
<1> QED
  BY <1>t, <1>l, <1>o, <1>1, <1>2, <1>3, <1>4, <1>5, <1>6, Frame DEF IInv, DevInv

\* The new handle is registered with its transport.
LEMMA PollRegistersStep == ASSUME IInv, NEW d \in Devices, PollRegisters(d) PROVE IInv'
<1>i. TypeInv /\ LockInv /\ DevInv(d)
  BY DEF IInv
<1>t. TypeInv'
  BY <1>i, ThreadNames, HandleTypes, TransportTypes, ThreadTypes, StateTypes DEF TypeInv, Pcs,
     Urbs, PollRegisters, Running, world, locks, counts
<1>l. LockInv'
  BY <1>i, ThreadNames, LockNames DEF LockInv, WPc, TypeInv, Thread, PollState, MainState,
     PollRegisters, NoTransport, Running, world, locks, counts
<1>o. \A e \in Devices \ {d} : Same(e) /\ PollSame(e) /\ MainSame(e)
  BY DEF Same, PollSame, MainSame, Listing, MainKicking, Registering, Unregistering, PollHas,
     Looked, Judging, Spared, PollRegisters, NoTransport, Running, world, locks, counts
<1>1. HandleInv(d)'
  BY <1>i DEF DevInv, PollRegisters, NoTransport, HandleInv, Unstarted, Registering, Unregistering
<1>2. LifeInv(d)'
  BY <1>i, ThreadNames, LockNames DEF DevInv, RPc, WPc, RUrb, WUrb, PollRegisters, NoTransport,
     locks, counts, HandleInv, LifeInv, Unstarted, Listing, MainKicking, Registering,
     Unregistering, PollHas
<1>3. UrbInv(d)'
  BY <1>i DEF DevInv, RPc, WPc, RUrb, WUrb, PollRegisters, NoTransport, Unstarted, UrbInv, Reaped
<1>4. HonestInv(d)'
  BY <1>i DEF DevInv, RPc, WPc, RUrb, WUrb, PollRegisters, NoTransport, locks, counts, Reaped,
     HonestInv
<1>5. MarkInv(d)'
  BY <1>i DEF DevInv, PollRegisters, NoTransport, Running, world, HandleInv, MarkInv, Looked,
     Judging
<1>6. PacketInv(d)'
  BY <1>i, ThreadNames, LockNames DEF DevInv, RPc, WPc, RUrb, WUrb, PollRegisters, NoTransport,
     Running, world, locks, counts, Judging, PacketInv, Spared, MainKicking
<1> QED
  BY <1>t, <1>l, <1>o, <1>1, <1>2, <1>3, <1>4, <1>5, <1>6, Frame DEF IInv, DevInv

\* A marked handle is spared.
LEMMA PollSparesStep == ASSUME IInv, NEW d \in Devices, PollSpares(d) PROVE IInv'
<1>i. TypeInv /\ LockInv /\ DevInv(d)
  BY DEF IInv
<1>t. TypeInv'
  BY <1>i, ThreadNames, HandleTypes, TransportTypes, ThreadTypes, StateTypes DEF TypeInv, Pcs,
     Urbs, PollSpares, Running, world, locks, counts
<1>l. LockInv'
  BY <1>i, ThreadNames, LockNames DEF LockInv, WPc, TypeInv, Thread, PollState, MainState,
     PollSpares, Running, world, locks, counts
<1>o. \A e \in Devices \ {d} : Same(e) /\ PollSame(e) /\ MainSame(e)
  BY DEF Same, PollSame, MainSame, Listing, MainKicking, Registering, Unregistering, PollHas,
     Looked, Judging, Spared, PollSpares, Running, world, locks, counts
<1>1. HandleInv(d)'
  BY <1>i DEF DevInv, PollSpares, Running, counts, HandleInv, Registering, Unregistering, PollHas,
     LockInv
<1>2. LifeInv(d)'
  BY <1>i, ThreadNames, LockNames DEF DevInv, RPc, WPc, RUrb, WUrb, PollSpares, Running, counts,
     HandleInv, LifeInv, Unstarted, NoTransport, Listing, MainKicking, Registering, Unregistering,
     PollHas
<1>3. UrbInv(d)'
  BY <1>i DEF DevInv, RPc, WPc, RUrb, WUrb, PollSpares, Running, UrbInv, Reaped
<1>4. HonestInv(d)'
  BY <1>i, ThreadNames, LockNames DEF DevInv, RPc, WPc, RUrb, WUrb, PollSpares, Running, counts,
     HandleInv, UrbInv, Reaped, HonestInv
<1>5. MarkInv(d)'
  BY DEF MainState, PollSpares, Running, world, locks, counts, HandleInv, MarkInv, Looked, Judging,
     PollHas, Registering, LockInv
<1>6. PacketInv(d)'
  BY <1>i, ThreadNames, LockNames DEF DevInv, RPc, WPc, RUrb, WUrb, PollSpares, Running, world,
     locks, counts, HandleInv, PacketInv, Spared, MainKicking, Listing
<1> QED
  BY <1>t, <1>l, <1>o, <1>1, <1>2, <1>3, <1>4, <1>5, <1>6, Frame DEF IInv, DevInv

\* An unmarked handle is kicked, under g_usb_handles_mutex: it is alive.
LEMMA PollKicksOneStep == ASSUME IInv, NEW d \in Devices, PollKicksOne(d) PROVE IInv'
<1>i. TypeInv /\ LockInv /\ DevInv(d)
  BY DEF IInv
<1>k. KickMade(d) /\ SignalMade(d, th')
  BY <1>i, KickEffect, SignalEffect DEF PollKicksOne
<1>p. \A x \in Threads : x[2] # d \/ x = Writer(d) => th'[x] = th[x]
  BY <1>k, ThreadNames DEF SignalMade
<1>q. RPc(d)' = RPc(d) \/ (RPc(d) = "ioctl" /\ RPc(d)' = "got")
  BY <1>k DEF SignalMade, RPc
<1>w. WPc(d)' = WPc(d)
  BY <1>k DEF SignalMade, WPc
<1>t. TypeInv'
  BY <1>i, <1>k, TransportTypes, StateTypes DEF TypeInv, KickMade, SignalMade, PollKicksOne,
     Running, world, locks, counts
<1>o. \A e \in Devices \ {d} : Same(e) /\ PollSame(e) /\ MainSame(e)
  BY <1>i, <1>k DEF Same, PollSame, MainSame, TypeInv, LockInv, Listing, MainKicking, Registering,
     Unregistering, PollHas, Looked, Judging, Spared, PollState, MainState, KickMade, SignalMade,
     PollKicksOne, Running, world, locks, counts
<1>c. \A x \in Threads : th'[x].pc = "kick" <=> th[x].pc = "kick"
  BY <1>p, <1>q, ThreadNames DEF RPc
<1>l. LockInv'
  BY <1>i, <1>c, <1>w, <1>o DEF LockInv, Same, WPc, TypeInv, PollKicksOne, Running, world, locks
<1>1. HandleInv(d)'
  BY <1>i, <1>k, LockNames DEF DevInv, PollKicksOne, Running, counts, KickMade, LifeInv, HandleInv,
     Listing, MainKicking, Registering, Unregistering, PollHas, LockInv
<1>2. LifeInv(d)'
  BY <1>i, <1>k, LockNames DEF DevInv, RPc, WPc, RUrb, WUrb, PollKicksOne, Running, counts,
     KickMade, SignalMade, Busy, HandleInv, LifeInv, Unstarted, NoTransport, Listing, MainKicking,
     Registering, Unregistering, PollHas, LockInv, Counted
<1>3. UrbInv(d)'
  BY <1>i, <1>k, LockNames DEF DevInv, RPc, WPc, RUrb, WUrb, counts, KickMade, SignalMade, Busy,
     Unstarted, UrbInv
<1>4. HonestInv(d)'
  BY <1>i, <1>k, LockNames DEF DevInv, RUrb, WUrb, PollKicksOne, Running, counts, KickMade,
     SignalMade, Busy, Reaped, HonestInv
<1>5. MarkInv(d)'
  BY DEF PollKicksOne, MarkInv, Looked, Judging
<1>6. PacketInv(d)'
  BY <1>i, <1>k, LockNames DEF DevInv, RPc, WPc, PollKicksOne, Running, world, locks, counts,
     KickMade, SignalMade, Busy, MarkInv, Looked, Judging, PacketInv, Spared, MainKicking
<1> QED
  BY <1>t, <1>l, <1>o, <1>1, <1>2, <1>3, <1>4, <1>5, <1>6, Frame DEF IInv, DevInv

\* An unmarked handle that is read-only is to be unregistered.
LEMMA PollKicksReadOnlyStep == ASSUME IInv, NEW d \in Devices, PollKicksReadOnly(d) PROVE IInv'
<1>i. TypeInv /\ LockInv /\ DevInv(d)
  BY DEF IInv
<1>h. hd' \in [Devices -> Handle] /\ hl' \in [Devices -> {Free, Main, Poll}]
  <2>1. [hd[d] EXCEPT !.dead = TRUE] \in Handle
    BY <1>i, HandleTypes DEF TypeInv
  <2> QED BY <1>i, <2>1 DEF TypeInv, PollKicksReadOnly, UsbKickReadOnly
<1>p. poll' \in PollState
  BY <1>i, StateTypes DEF TypeInv, PollKicksReadOnly
<1>t. TypeInv'
  BY <1>i, <1>h, <1>p DEF TypeInv, PollKicksReadOnly, world, counts
<1>l. LockInv'
  BY <1>i, ThreadNames, LockNames DEF LockInv, WPc, TypeInv, Thread, PollState, MainState,
     PollKicksReadOnly, UsbKickReadOnly, Running, world, locks, counts
<1>o. \A e \in Devices \ {d} : Same(e) /\ PollSame(e) /\ MainSame(e)
  BY DEF Same, PollSame, MainSame, Listing, MainKicking, Registering, Unregistering, PollHas,
     Looked, Judging, Spared, PollKicksReadOnly, UsbKickReadOnly, Running, world, locks, counts
<1>1. HandleInv(d)'
  BY <1>i DEF DevInv, PollKicksReadOnly, UsbKickReadOnly, HandleInv, Unstarted, MainKicking,
     Registering, Unregistering, PollHas
<1>2. LifeInv(d)'
  BY <1>i, ThreadNames, LockNames DEF DevInv, RPc, WPc, RUrb, WUrb, PollKicksReadOnly,
     UsbKickReadOnly, locks, counts, HandleInv, LifeInv, Unstarted, NoTransport, Listing,
     MainKicking, Registering, Unregistering
<1>3. UrbInv(d)'
  BY <1>i DEF DevInv, RPc, WPc, RUrb, WUrb, PollKicksReadOnly, UsbKickReadOnly, HandleInv, LifeInv,
     Unstarted, UrbInv
<1>4. HonestInv(d)'
  BY <1>i DEF DevInv, RPc, WPc, RUrb, WUrb, PollKicksReadOnly, UsbKickReadOnly, locks, counts,
     Reaped, HonestInv
<1>5. MarkInv(d)'
  BY DEF MainState, PollKicksReadOnly, UsbKickReadOnly, Running, world, locks, counts, HandleInv,
     MarkInv, Looked, Judging, PollHas, Registering, LockInv
<1>6. PacketInv(d)'
  BY <1>i, ThreadNames, LockNames DEF DevInv, RPc, WPc, PollKicksReadOnly, UsbKickReadOnly,
     HandleInv, LifeInv, Unstarted, UrbInv, Judging, PacketInv
<1> QED
  BY <1>t, <1>l, <1>o, <1>1, <1>2, <1>3, <1>4, <1>5, <1>6, Frame DEF IInv, DevInv

\* The transport of a read-only handle leaves transport_list; the handle stays.
LEMMA PollUnregistersStep == ASSUME IInv, NEW d \in Devices, PollUnregisters(d) PROVE IInv'
<1>i. TypeInv /\ LockInv /\ DevInv(d)
  BY DEF IInv
<1>t. TypeInv'
  BY <1>i, ThreadNames, HandleTypes, TransportTypes, ThreadTypes, StateTypes DEF TypeInv, Pcs,
     Urbs, PollUnregisters, Running, world, locks, counts
<1>l. LockInv'
  BY <1>i, ThreadNames, LockNames DEF LockInv, WPc, TypeInv, Thread, PollState, MainState,
     PollUnregisters, NoTransport, Running, world, locks, counts
<1>o. \A e \in Devices \ {d} : Same(e) /\ PollSame(e) /\ MainSame(e)
  BY DEF Same, PollSame, MainSame, Listing, MainKicking, Registering, Unregistering, PollHas,
     Looked, Judging, Spared, PollUnregisters, NoTransport, Running, world, locks, counts
<1>1. HandleInv(d)'
  BY <1>i DEF DevInv, PollUnregisters, NoTransport, HandleInv, Unstarted, Registering,
     Unregistering, PollHas, LockInv
<1>2. LifeInv(d)'
  BY <1>i, ThreadNames, LockNames DEF DevInv, RPc, WPc, RUrb, WUrb, PollUnregisters, NoTransport,
     locks, counts, HandleInv, LifeInv, Unstarted, Listing, MainKicking, Registering,
     Unregistering, PollHas
<1>3. UrbInv(d)'
  BY <1>i DEF DevInv, RPc, WPc, RUrb, WUrb, PollUnregisters, NoTransport, Unstarted, UrbInv, Reaped
<1>4. HonestInv(d)'
  BY <1>i DEF DevInv, RPc, WPc, RUrb, WUrb, PollUnregisters, NoTransport, locks, counts, Reaped,
     HonestInv
<1>5. MarkInv(d)'
  BY <1>i DEF DevInv, PollUnregisters, NoTransport, Running, world, HandleInv, MarkInv, Looked,
     Judging
<1>6. PacketInv(d)'
  BY <1>i, ThreadNames, LockNames DEF DevInv, RPc, WPc, RUrb, WUrb, PollUnregisters, NoTransport,
     Running, world, locks, counts, Judging, PacketInv, Spared, MainKicking
<1> QED
  BY <1>t, <1>l, <1>o, <1>1, <1>2, <1>3, <1>4, <1>5, <1>6, Frame DEF IInv, DevInv

-----------------------------------------------------------------------------
(* read_transport_thread *)

\* The reader gives up.
LEMMA ReadQuitsStep ==
    ASSUME IInv, NEW d \in Devices, ReadQuits(d), RPc(d) \in {"read", "got"},
           UNCHANGED <<world, hd, urb, old, poll, main, locks, counts, kicks>>
    PROVE  IInv'
<1>i. TypeInv /\ LockInv /\ DevInv(d)
  BY DEF IInv
<1>u. UNCHANGED <<plug, plugs, hd, urb, old, poll, main, tl, gl, hl, wl, took, wrote, kicks>>
  BY DEF world, locks, counts
<1>a. /\ th' \in [Threads -> Thread] /\ th'[Reader(d)] = [pc |-> "leave", res |-> "none"]
      /\ \A y \in Threads \ {Reader(d)} : th'[y] = th[y]
  BY <1>i, ThreadTypes, ThreadNames DEF ReadQuits, TypeInv, Pcs
<1>b. /\ tr' \in [Devices -> Transport]
      /\ tr'[d].st = tr[d].st /\ tr'[d].kicked = tr[d].kicked /\ tr'[d].refs = tr[d].refs
         /\ tr'[d].sync = "sent"
      /\ \A e \in Devices \ {d} : tr'[e] = tr[e]
  BY <1>i, SyncEffect DEF ReadQuits
<1>f. /\ RPc(d)' = "leave" /\ WPc(d)' = WPc(d) /\ RUrb(d)' = RUrb(d) /\ WUrb(d)' = WUrb(d)
  BY <1>u, <1>a, ThreadNames DEF RPc, WPc, RUrb, WUrb
<1>t. TypeInv'
  BY <1>i, <1>u, <1>a, <1>b DEF TypeInv
<1>o. \A e \in Devices \ {d} : Same(e) /\ PollSame(e) /\ MainSame(e)
  BY <1>u, <1>a, <1>b, ThreadNames DEF Same, PollSame, MainSame, Listing, MainKicking, Registering,
     Unregistering, PollHas, Looked, Judging, Spared
<1>l. LockInv'
  BY <1>i, <1>u, <1>a, <1>f, <1>o, ThreadNames, LockNames DEF LockInv, Same, RPc, WPc
<1>1. HandleInv(d)'
  BY <1>i DEF DevInv, HandleInv, Unstarted, NoTransport, Registering, Unregistering
<1>2. LifeInv(d)'
  BY <1>i, <1>f, <1>b DEF DevInv, TypeInv, LifeInv, Unstarted, NoTransport, Listing, MainKicking,
     Registering, Counted
<1>3. UrbInv(d)'
  BY <1>i, <1>f, <1>u, <1>b DEF DevInv, TypeInv, Transport, Handle, Thread, UrbInv, Reaped
<1>4. HonestInv(d)'
  BY <1>i, <1>f, <1>u, <1>b DEF DevInv, TypeInv, Transport, Handle, Thread, HonestInv, UrbInv,
     Reaped
<1>5. MarkInv(d)'
  BY <1>i, <1>f, <1>u, <1>b DEF DevInv, TypeInv, Transport, Handle, Thread, MarkInv, Looked,
     Judging, PollHas
<1>6. PacketInv(d)'
  BY <1>i, <1>f, <1>u, <1>b DEF DevInv, PacketInv, Spared, MainKicking
<1> QED
  BY <1>t, <1>l, <1>o, <1>1, <1>2, <1>3, <1>4, <1>5, <1>6, Frame DEF IInv, DevInv

\* The reader submits its URB: the kernel does not have it.
LEMMA ReadStartsStep ==
    ASSUME IInv, NEW d \in Devices, ReadSubmits(d), ~hd[d].dead, plug[d]
    PROVE  IInv'
<1>i. TypeInv /\ LockInv /\ DevInv(d)
  BY DEF IInv
<1>u. UNCHANGED <<plug, plugs, hd, tr, old, poll, main, tl, gl, hl, wl, took, wrote, kicks>>
      /\ RPc(d) = "read"
  BY DEF ReadSubmits, RPc, world, locks, counts
<1>a. /\ th' \in [Threads -> Thread] /\ th'[Reader(d)].pc = "unlocked"
      /\ \A y \in Threads \ {Reader(d)} : th'[y] = th[y]
  BY <1>i, GoesEffect, ThreadNames DEF ReadSubmits, Pcs
<1>b. /\ urb' \in [Threads -> Urbs] /\ urb'[Reader(d)] = "submitted"
      /\ \A y \in Threads \ {Reader(d)} : urb'[y] = urb[y]
  BY <1>i, ThreadNames DEF ReadSubmits, TypeInv, Urbs
<1>f. RPc(d)' = "unlocked" /\ WPc(d)' = WPc(d) /\ RUrb(d)' = "submitted" /\ WUrb(d)' = WUrb(d)
  BY <1>a, <1>b, ThreadNames DEF RPc, WPc, RUrb, WUrb
<1>t. TypeInv'
  BY <1>i, <1>u, <1>a, <1>b DEF TypeInv
<1>o. \A e \in Devices \ {d} : Same(e) /\ PollSame(e) /\ MainSame(e)
  BY <1>u, <1>a, <1>b, ThreadNames DEF Same, PollSame, MainSame, Listing, MainKicking, Registering,
     Unregistering, PollHas, Looked, Judging, Spared
<1>l. LockInv'
  <2>1. \A e \in Devices : WPc(e)' \in {"write", "wait"} <=> WPc(e) \in {"write", "wait"}
    BY <1>f, <1>o DEF Same, WPc
  <2>2. \A y \in Threads : th'[y].pc = "kick" <=> th[y].pc = "kick"
    BY <1>a, <1>f, <1>u, ThreadNames DEF RPc, WPc
  <2> QED BY <1>i, <1>u, <2>1, <2>2 DEF LockInv
<1>1. HandleInv(d)'
  BY <1>i, <1>u DEF DevInv, HandleInv, Unstarted, Registering, Unregistering, PollHas
<1>2. LifeInv(d)'
  BY <1>i, <1>f, <1>u DEF DevInv, LifeInv, Unstarted, NoTransport, Listing, MainKicking,
     Registering, Unregistering, PollHas, Counted
<1>3. UrbInv(d)'
  BY <1>i, <1>f, <1>u DEF DevInv, TypeInv, Transport, Handle, Thread, UrbInv, Reaped
<1>4. HonestInv(d)'
  BY <1>i, <1>f, <1>u DEF DevInv, TypeInv, Transport, Handle, Thread, HonestInv, UrbInv, Reaped
<1>5. MarkInv(d)'
  BY <1>i, <1>f, <1>u DEF DevInv, TypeInv, Transport, Handle, Thread, MarkInv, Looked, Judging,
     PollHas
<1>6. PacketInv(d)'
  BY <1>i, <1>f, <1>u DEF DevInv, PacketInv, Spared, MainKicking
<1> QED
  BY <1>t, <1>l, <1>o, <1>1, <1>2, <1>3, <1>4, <1>5, <1>6, Frame DEF IInv, DevInv

\* usb_bulk_read submits, or finds the handle dead.
LEMMA ReadSubmitsStep ==
    ASSUME IInv, NEW d \in Devices, ReadSubmits(d)
    PROVE  IInv'
<1>1. CASE hd[d].dead \/ ~plug[d]
  BY <1>1, ReadQuitsStep DEF ReadSubmits, RPc
<1>2. CASE ~hd[d].dead /\ plug[d]
  BY <1>2, ReadStartsStep
<1> QED BY <1>1, <1>2

\* The reader blocks in ioctl.
LEMMA ReadBlocksStep == ASSUME IInv, NEW d \in Devices, ReadBlocks(d) PROVE IInv'
<1>i. TypeInv /\ LockInv /\ DevInv(d)
  BY DEF IInv
<1>t. TypeInv'
  BY <1>i, ThreadNames, HandleTypes, TransportTypes, ThreadTypes, StateTypes DEF TypeInv, Pcs,
     Urbs, ReadBlocks, Goes, Running, world, locks, counts
<1>l. LockInv'
  BY <1>i, ThreadNames, LockNames DEF LockInv, WPc, TypeInv, Thread, PollState, MainState,
     ReadBlocks, Goes, Running, world, locks, counts
<1>o. \A e \in Devices \ {d} : Same(e) /\ PollSame(e) /\ MainSame(e)
  BY ThreadNames, LockNames DEF Same, PollSame, MainSame, Listing, MainKicking, Registering,
     Unregistering, PollHas, Looked, Judging, Spared, ReadBlocks, Goes, Running, world, locks,
     counts
<1>1. HandleInv(d)'
  BY <1>i, ThreadNames, LockNames DEF DevInv, RPc, WPc, ReadBlocks, Goes, HandleInv, Unstarted,
     MainKicking, Registering, Unregistering, PollHas
<1>2. LifeInv(d)'
  BY <1>i, ThreadNames, LockNames DEF DevInv, RPc, WPc, ReadBlocks, Goes, HandleInv, LifeInv,
     Unstarted, NoTransport, Listing, MainKicking, Counted
<1>3. UrbInv(d)'
  BY <1>i DEF DevInv, RPc, WPc, RUrb, WUrb, ReadBlocks, Goes, Unstarted, UrbInv, Reaped
<1>4. HonestInv(d)'
  BY <1>i DEF DevInv, RPc, WPc, RUrb, WUrb, ReadBlocks, Goes, locks, counts, Reaped, HonestInv
<1>5. MarkInv(d)'
  BY <1>i DEF DevInv, ReadBlocks, Goes, Running, world, HandleInv, MarkInv, Looked, Judging
<1>6. PacketInv(d)'
  BY <1>i, ThreadNames, LockNames DEF DevInv, RPc, WPc, RUrb, WUrb, ReadBlocks, Goes, Running,
     world, locks, counts, Judging, PacketInv, Spared, MainKicking
<1> QED
  BY <1>t, <1>l, <1>o, <1>1, <1>2, <1>3, <1>4, <1>5, <1>6, Frame DEF IInv, DevInv

\* The reader reaps an URB, its own or the writer's.
LEMMA ReadReapsStep ==
    ASSUME IInv, NEW d \in Devices, NEW k \in {"reader", "writer"}, ReadReaps(d, k)
    PROVE  IInv'
<1>i. TypeInv /\ LockInv /\ DevInv(d)
  BY DEF IInv
<1> DEFINE y == <<k, d>>
<1>y. y \in Threads /\ (k = "reader" => y = Reader(d)) /\ (k = "writer" => y = Writer(d))
  BY DEF Threads, Reader, Writer
<1>u. UNCHANGED <<plug, plugs, hd, tr, old, poll, main, tl, gl, hl, wl, took, wrote, kicks>>
      /\ RPc(d) = "ioctl"
      /\ urb[y] \in {"done", "error"}
  BY DEF ReadReaps, RPc, world, locks, counts
<1>a. /\ th' \in [Threads -> Thread] /\ th'[Reader(d)] = [pc |-> "got", res |-> <<k, urb[y]>>]
      /\ \A z \in Threads \ {Reader(d)} : th'[z] = th[z]
  <2>1. [pc |-> "got", res |-> <<k, urb[y]>>] \in Thread
    BY <1>u, ThreadTypes DEF Pcs
  <2> QED BY <1>i, <2>1, ThreadNames DEF ReadReaps, TypeInv
<1>b. /\ urb' \in [Threads -> Urbs] /\ urb'[y] = "none"
      /\ \A z \in Threads \ {y} : urb'[z] = urb[z]
  BY <1>i, <1>y DEF ReadReaps, TypeInv, Urbs
<1>e. y[1] = k /\ y[2] = d
  OBVIOUS
<1> HIDE DEF y
<1>f. /\ RPc(d)' = "got" /\ WPc(d)' = WPc(d) 
      /\ \/ k = "reader" /\ RUrb(d)' = "none" /\ WUrb(d)' = WUrb(d)
         \/ /\ k = "writer" /\ RUrb(d)' = RUrb(d) /\ WUrb(d)' = "none"
            /\ \A how \in {"done", "error"} : Reaped(d, how)' => WUrb(d) = how
      /\ k = "reader" => ~Reaped(d, "done")' /\ ~Reaped(d, "error")'
      /\ k = "writer" => th'[Reader(d)].res \notin {<<"reader", "done">>, <<"reader", "error">>}
  BY <1>a, <1>b, <1>y, ThreadNames DEF RPc, WPc, RUrb, WUrb, Reaped
<1>t. TypeInv'
  BY <1>i, <1>u, <1>a, <1>b DEF TypeInv
<1>o. \A e \in Devices \ {d} : Same(e) /\ PollSame(e) /\ MainSame(e)
  <2>1. \A e \in Devices \ {d} : y # Reader(e) /\ y # Writer(e)
    BY <1>y, <1>e, ThreadNames
  <2> QED BY <1>u, <1>a, <1>b, <2>1, ThreadNames DEF Same, PollSame, MainSame, Listing,
             MainKicking, Registering, Unregistering, PollHas, Looked, Judging, Spared
<1>l. LockInv'
  <2>1. \A e \in Devices : WPc(e)' \in {"write", "wait"} <=> WPc(e) \in {"write", "wait"}
    BY <1>f, <1>o DEF Same, WPc
  <2>2. \A z \in Threads : th'[z].pc = "kick" <=> th[z].pc = "kick"
    BY <1>a, <1>f, <1>u, ThreadNames DEF RPc, WPc
  <2> QED BY <1>i, <1>u, <2>1, <2>2 DEF LockInv
<1>1. HandleInv(d)'
  BY <1>i, <1>u DEF DevInv, HandleInv, Unstarted, Registering, Unregistering, PollHas
<1>2. LifeInv(d)'
  BY <1>i, <1>f, <1>u DEF DevInv, LifeInv, Unstarted, NoTransport, Listing, MainKicking, PollHas,
     Counted
<1>3. UrbInv(d)'
  BY <1>i, <1>f, <1>u DEF DevInv, UrbInv
<1>4. HonestInv(d)'
  BY <1>i, <1>f, <1>u DEF DevInv, UrbInv, HonestInv
<1>5. MarkInv(d)'
  BY <1>i, <1>f, <1>u DEF DevInv, TypeInv, Transport, Handle, Thread, MarkInv, Looked, Judging,
     PollHas
<1>6. PacketInv(d)'
  BY <1>i, <1>f, <1>u DEF DevInv, PacketInv, Spared, MainKicking
<1> QED
  BY <1>t, <1>l, <1>o, <1>1, <1>2, <1>3, <1>4, <1>5, <1>6, Frame DEF IInv, DevInv

\* The reader hands the writer its result, or goes on with its own.
LEMMA ReadGoesOnStep ==
    ASSUME IInv, NEW d \in Devices, NEW timeout \in BOOLEAN, ReadReturns(d, timeout),
           ~(ReadQuits(d) /\ UNCHANGED hd)
    PROVE  IInv'
<1>i. TypeInv /\ LockInv /\ DevInv(d)
  BY DEF IInv
<1> DEFINE res == th[Reader(d)].res
           own == res = <<"reader", "done">> \/ (res = <<"reader", "error">> /\ timeout)
           out == Reaped(d, "done") \/ Reaped(d, "error")
<1>u. UNCHANGED <<plug, plugs, urb, tr, old, poll, main, tl, gl, hl, wl, took, wrote, kicks>>
      /\ RPc(d) = "got" /\ ~hd[d].dead
  BY DEF ReadReturns, RPc, world, locks, counts
<1>e. out <=> res \in {<<"writer", "done">>, <<"writer", "error">>}
  BY <1>u DEF Reaped
<1>s. /\ th' = [th EXCEPT ![Reader(d)] = [pc |-> IF own THEN "read" ELSE "unlocked", res |-> "none"]]
      /\ hd' = IF out THEN [hd EXCEPT ![d] = [hd[d] EXCEPT !.busy = FALSE, !.ok = res[2] = "done"]] ELSE hd
  <2>1. /\ th' = [th EXCEPT ![Reader(d)] = [pc |-> IF own THEN "read" ELSE "unlocked", res |-> "none"]]
        /\ hd' = IF out THEN [hd EXCEPT ![d].busy = FALSE, ![d].ok = res[2] = "done"] ELSE hd
    BY <1>e DEF ReadReturns
  <2>2. [hd EXCEPT ![d].busy = FALSE, ![d].ok = res[2] = "done"]
      = [hd EXCEPT ![d] = [hd[d] EXCEPT !.busy = FALSE, !.ok = res[2] = "done"]]
    BY <1>i DEF TypeInv, Handle
  <2> QED BY <2>1, <2>2
<1>a. /\ th' \in [Threads -> Thread]
      /\ th'[Reader(d)].pc = IF own THEN "read" ELSE "unlocked"
      /\ \A z \in Threads \ {Reader(d)} : th'[z] = th[z]
  <2> DEFINE rec == [pc |-> IF own THEN "read" ELSE "unlocked", res |-> "none"]
  <2>1. rec \in Thread /\ rec.pc = IF own THEN "read" ELSE "unlocked"
    BY ThreadTypes DEF Pcs
  <2>2. th' = [th EXCEPT ![Reader(d)] = rec]
    BY <1>s
  <2> HIDE DEF rec
  <2> QED BY <1>i, <2>1, <2>2, ThreadNames DEF TypeInv
<1>h. [hd[d] EXCEPT !.busy = FALSE, !.ok = res[2] = "done"] \in Handle
  BY <1>i, HandleTypes DEF TypeInv
<1>b. /\ hd' \in [Devices -> Handle]
      /\ \A e \in Devices \ {d} : hd'[e] = hd[e]
      /\ hd'[d] = IF out THEN [hd[d] EXCEPT !.busy = FALSE, !.ok = res[2] = "done"] ELSE hd[d]
  BY <1>i, <1>s, <1>h DEF TypeInv
<1>f. /\ RPc(d)' = IF own THEN "read" ELSE "unlocked"
      /\ WPc(d)' = WPc(d) /\ RUrb(d)' = RUrb(d) /\ WUrb(d)' = WUrb(d)
      /\ hd'[d].live = hd[d].live /\ hd'[d].dead = hd[d].dead /\ hd'[d].writeable = hd[d].writeable
         /\ hd'[d].mark = hd[d].mark
      /\ ~out => hd'[d] = hd[d]
      /\ ~Reaped(d, "done")' /\ ~Reaped(d, "error")'
  <2>1. RPc(d)' = (IF own THEN "read" ELSE "unlocked") /\ RPc(d)' # "got" /\ WPc(d)' = WPc(d)
        /\ RUrb(d)' = RUrb(d) /\ WUrb(d)' = WUrb(d)
    BY <1>a, <1>u, ThreadNames DEF RPc, WPc, RUrb, WUrb
  <2>2. hd'[d].live = hd[d].live /\ hd'[d].dead = hd[d].dead /\ hd'[d].writeable = hd[d].writeable
        /\ hd'[d].mark = hd[d].mark /\ (~out => hd'[d] = hd[d])
    BY <1>b, <1>i DEF TypeInv, Handle
  <2> QED BY <2>1, <2>2 DEF Reaped
<1>g. /\ out => ~hd'[d].busy /\ (hd'[d].ok => Reaped(d, "done"))
      /\ own => res \in {<<"reader", "done">>, <<"reader", "error">>}
  <2>1. out => ~hd'[d].busy /\ (hd'[d].ok <=> res[2] = "done")
    BY <1>b, <1>i DEF TypeInv, Handle
  <2>2. Reaped(d, "error") => res[2] # "done"
    BY DEF Reaped
  <2> QED BY <2>1, <2>2
<1> HIDE DEF own, out, res
<1>t. TypeInv'
  BY <1>i, <1>u, <1>a, <1>b DEF TypeInv
<1>o. \A e \in Devices \ {d} : Same(e) /\ PollSame(e) /\ MainSame(e)
  BY <1>u, <1>a, <1>b, ThreadNames DEF Same, PollSame, MainSame, Listing, MainKicking, Registering,
     Unregistering, PollHas, Looked, Judging, Spared
<1>l. LockInv'
  <2>1. \A e \in Devices : WPc(e)' \in {"write", "wait"} <=> WPc(e) \in {"write", "wait"}
    BY <1>f, <1>o DEF Same, WPc
  <2>2. \A y \in Threads : th'[y].pc = "kick" <=> th[y].pc = "kick"
    BY <1>a, <1>f, <1>u, ThreadNames DEF RPc, WPc
  <2> QED BY <1>i, <1>u, <2>1, <2>2 DEF LockInv
<1>1. HandleInv(d)'
  BY <1>i, <1>f, <1>u DEF DevInv, HandleInv, Unstarted, Registering, Unregistering, PollHas
<1>2. LifeInv(d)'
  BY <1>i, <1>f, <1>u DEF DevInv, LifeInv, Unstarted, NoTransport, Listing, MainKicking, PollHas,
     Counted
<1>3. UrbInv(d)'
  BY <1>i, <1>f, <1>u, <1>g DEF DevInv, UrbInv, out, res
<1>4. HonestInv(d)'
  BY <1>i, <1>f, <1>u, <1>g DEF DevInv, UrbInv, HonestInv, out
<1>5. MarkInv(d)'
  BY <1>i, <1>f, <1>u DEF DevInv, TypeInv, Transport, Handle, Thread, MarkInv, Looked, Judging,
     PollHas
<1>6. PacketInv(d)'
  BY <1>i, <1>f, <1>u DEF DevInv, PacketInv, Spared, MainKicking
<1> QED
  BY <1>t, <1>l, <1>o, <1>1, <1>2, <1>3, <1>4, <1>5, <1>6, Frame DEF IInv, DevInv

\* The reader comes back from ioctl.
LEMMA ReadReturnsStep ==
    ASSUME IInv, NEW d \in Devices, NEW timeout \in BOOLEAN, ReadReturns(d, timeout)
    PROVE  IInv'
<1>1. CASE ReadQuits(d) /\ UNCHANGED hd
  BY <1>1, ReadQuitsStep DEF ReadReturns, RPc
<1>2. CASE ~(ReadQuits(d) /\ UNCHANGED hd)
  BY <1>2, ReadGoesOnStep 
<1> QED BY <1>1, <1>2

-----------------------------------------------------------------------------
(* write_transport_thread *)

\* The writer takes write_msg_lock_ for a packet.
LEMMA WriteBeginsStep == ASSUME IInv, NEW d \in Devices, WriteBegins(d) PROVE IInv'
<1>i. TypeInv /\ LockInv /\ DevInv(d)
  BY DEF IInv
<1>t. TypeInv'
  BY <1>i, ThreadNames, HandleTypes, TransportTypes, ThreadTypes, StateTypes DEF TypeInv, Pcs,
     Urbs, WriteBegins, Goes, Running, world, locks, counts
<1>l. LockInv'
  BY <1>i, ThreadNames, LockNames DEF LockInv, WPc, TypeInv, Thread, PollState, MainState,
     WriteBegins, Goes, Running, world, locks, counts
<1>o. \A e \in Devices \ {d} : Same(e) /\ PollSame(e) /\ MainSame(e)
  BY ThreadNames, LockNames DEF Same, PollSame, MainSame, Listing, MainKicking, Registering,
     Unregistering, PollHas, Looked, Judging, Spared, WriteBegins, Goes, Running, world, locks,
     counts
<1>1. HandleInv(d)'
  BY <1>i DEF DevInv, WriteBegins, Goes, HandleInv, Unstarted, NoTransport, Listing, MainKicking,
     Registering, Unregistering, PollHas
<1>2. LifeInv(d)'
  BY <1>i, ThreadNames, LockNames DEF DevInv, RPc, WPc, WriteBegins, Goes, HandleInv, LifeInv,
     Unstarted, NoTransport, Listing, MainKicking, Counted
<1>3. UrbInv(d)'
  BY <1>i DEF DevInv, RPc, WPc, RUrb, WUrb, WriteBegins, Goes, Unstarted, UrbInv, Reaped
<1>4. HonestInv(d)'
  BY <1>i DEF DevInv, RPc, WPc, RUrb, WUrb, WriteBegins, Goes, locks, counts, Reaped, HonestInv
<1>5. MarkInv(d)'
  BY <1>i DEF DevInv, WriteBegins, Goes, Running, world, HandleInv, MarkInv, Looked, Judging
<1>6. PacketInv(d)'
  BY <1>i, ThreadNames, LockNames DEF DevInv, RPc, WPc, RUrb, WUrb, WriteBegins, Goes, Running,
     world, locks, counts, Judging, PacketInv, Spared, MainKicking
<1> QED
  BY <1>t, <1>l, <1>o, <1>1, <1>2, <1>3, <1>4, <1>5, <1>6, Frame DEF IInv, DevInv

\* usb_bulk_write fails: the writer lets the lock go and leaves.
LEMMA WriteFailsStep ==
    ASSUME IInv, NEW d \in Devices, WriteFails(d), WPc(d) \in {"write", "wait"},
           UNCHANGED <<world, hd, urb, tr, old, poll, main, tl, gl, hl, counts, kicks>>
    PROVE  IInv'
<1>i. TypeInv /\ LockInv /\ DevInv(d)
  BY DEF IInv
<1>u. UNCHANGED <<plug, plugs, hd, urb, tr, old, poll, main, tl, gl, hl, took, wrote, kicks>>
  BY DEF world, counts
<1>a. /\ th' \in [Threads -> Thread] /\ th'[Writer(d)].pc = "leave"
      /\ \A y \in Threads \ {Writer(d)} : th'[y] = th[y]
  BY <1>i, GoesEffect, ThreadNames DEF WriteFails, Pcs
<1>b. /\ wl' \in [Devices -> Threads \cup {Free}] /\ wl'[d] = Free
      /\ \A e \in Devices \ {d} : wl'[e] = wl[e]
  BY <1>i DEF WriteFails, TypeInv
<1>f. /\ th'[Reader(d)] = th[Reader(d)] /\ RPc(d)' = RPc(d) /\ WPc(d)' = "leave"
         /\ RUrb(d)' = RUrb(d) /\ WUrb(d)' = WUrb(d)
  BY <1>u, <1>a, ThreadNames DEF RPc, WPc, RUrb, WUrb
<1>t. TypeInv'
  BY <1>i, <1>u, <1>a, <1>b DEF TypeInv
<1>o. \A e \in Devices \ {d} : Same(e) /\ PollSame(e) /\ MainSame(e)
  BY <1>u, <1>a, ThreadNames DEF Same, PollSame, MainSame, Listing, MainKicking, Registering,
     Unregistering, PollHas, Looked, Judging, Spared
<1>l. LockInv'
  <2>1. \A e \in Devices : wl'[e] # Free <=> WPc(e)' \in {"write", "wait"}
    BY <1>i, <1>b, <1>f, <1>o DEF LockInv, Same, WPc
  <2>2. \A y \in Threads : th'[y].pc = "kick" <=> th[y].pc = "kick"
    BY <1>a, ThreadNames DEF WPc
  <2> QED BY <1>i, <1>u, <2>1, <2>2 DEF LockInv
<1>1. HandleInv(d)'
  BY <1>i DEF DevInv, HandleInv, Unstarted, Registering, Unregistering, PollHas
<1>2. LifeInv(d)'
  BY <1>i, <1>f DEF DevInv, LifeInv, Unstarted, NoTransport, Listing, MainKicking, PollHas, Counted
<1>3. UrbInv(d)'
  BY <1>i, <1>f, <1>u DEF DevInv, TypeInv, Transport, Handle, Thread, UrbInv, Reaped
<1>4. HonestInv(d)'
  BY <1>i, <1>f, <1>u DEF DevInv, TypeInv, Transport, Handle, Thread, HonestInv, UrbInv, Reaped
<1>5. MarkInv(d)'
  BY <1>i, <1>f, <1>u DEF DevInv, TypeInv, Transport, Handle, Thread, MarkInv, Looked, Judging,
     PollHas
<1>6. PacketInv(d)'
  BY <1>i, <1>f DEF DevInv, PacketInv, MainKicking
<1> QED
  BY <1>t, <1>l, <1>o, <1>1, <1>2, <1>3, <1>4, <1>5, <1>6, Frame DEF IInv, DevInv

\* The writer submits its URB: the kernel does not have it.
LEMMA WriteStartsStep ==
    ASSUME IInv, NEW d \in Devices, WriteSubmits(d), ~hd[d].dead, plug[d]
    PROVE  IInv'
<1>i. TypeInv /\ LockInv /\ DevInv(d)
  BY DEF IInv
<1>u. /\ UNCHANGED <<plug, plugs, tr, old, poll, main, tl, gl, hl, wl, took, wrote, kicks>>
      /\ WPc(d) = "write" /\ ~hd[d].dead /\ plug[d]
  BY DEF WriteSubmits, WPc, world, counts
<1>a. /\ th' \in [Threads -> Thread] /\ th'[Writer(d)].pc = "wait"
      /\ \A y \in Threads \ {Writer(d)} : th'[y] = th[y]
  BY <1>i, GoesEffect, ThreadNames DEF WriteSubmits, Pcs
<1>c. hd' = [hd EXCEPT ![d] = [hd[d] EXCEPT !.busy = TRUE, !.ok = FALSE]]
  <2>1. hd' = [hd EXCEPT ![d].busy = TRUE, ![d].ok = FALSE]
    BY DEF WriteSubmits
  <2> QED BY <1>i, <2>1 DEF TypeInv, Handle
<1>d. [hd[d] EXCEPT !.busy = TRUE, !.ok = FALSE] \in Handle
  BY <1>i, HandleTypes DEF TypeInv
<1>e. /\ hd' \in [Devices -> Handle] /\ \A e \in Devices \ {d} : hd'[e] = hd[e]
      /\ hd'[d] = [hd[d] EXCEPT !.busy = TRUE, !.ok = FALSE]
  BY <1>i, <1>c, <1>d DEF TypeInv
<1>b. /\ urb' \in [Threads -> Urbs] /\ urb'[Writer(d)] = "submitted"
      /\ \A y \in Threads \ {Writer(d)} : urb'[y] = urb[y]
  BY <1>i, ThreadNames DEF WriteSubmits, TypeInv, Urbs
<1>f. /\ th'[Reader(d)] = th[Reader(d)] /\ RPc(d)' = RPc(d) /\ WPc(d)' = "wait"
         /\ RUrb(d)' = RUrb(d) /\ WUrb(d)' = "submitted"
      /\ hd'[d].live = hd[d].live /\ hd'[d].dead = hd[d].dead /\ hd'[d].writeable = hd[d].writeable
         /\ hd'[d].mark = hd[d].mark
      /\ hd'[d].busy
  <2>1. /\ th'[Reader(d)] = th[Reader(d)] /\ RPc(d)' = RPc(d) /\ WPc(d)' = "wait"
           /\ RUrb(d)' = RUrb(d) /\ WUrb(d)' = "submitted"
    BY <1>a, <1>b, ThreadNames DEF RPc, WPc, RUrb, WUrb
  <2>2. hd'[d].live = hd[d].live /\ hd'[d].dead = hd[d].dead /\ hd'[d].writeable = hd[d].writeable
        /\ hd'[d].mark = hd[d].mark /\ hd'[d].busy
    BY <1>e, <1>i DEF TypeInv, Handle
  <2> QED BY <2>1, <2>2
<1>g. \A how \in {"done", "error"} : Reaped(d, how)' <=> Reaped(d, how)
  BY <1>f DEF Reaped
<1>t. TypeInv'
  BY <1>i, <1>u, <1>a, <1>b, <1>e DEF TypeInv
<1>o. \A e \in Devices \ {d} : Same(e) /\ PollSame(e) /\ MainSame(e)
  BY <1>u, <1>a, <1>b, <1>e, ThreadNames DEF Same, PollSame, MainSame, Listing, MainKicking,
     Registering, Unregistering, PollHas, Looked, Judging, Spared
<1>l. LockInv'
  <2>1. \A e \in Devices : WPc(e)' \in {"write", "wait"} <=> WPc(e) \in {"write", "wait"}
    BY <1>f, <1>u, <1>o DEF Same, WPc
  <2>2. \A y \in Threads : th'[y].pc = "kick" <=> th[y].pc = "kick"
    BY <1>a, <1>f, <1>u, ThreadNames DEF RPc, WPc
  <2> QED BY <1>i, <1>u, <2>1, <2>2 DEF LockInv
<1>1. HandleInv(d)'
  BY <1>i, <1>f, <1>u DEF DevInv, HandleInv, Unstarted, Registering, Unregistering, PollHas
<1>2. LifeInv(d)'
  BY <1>i, <1>f, <1>u DEF DevInv, LifeInv, Unstarted, NoTransport, Listing, MainKicking, PollHas,
     Counted
<1>3. UrbInv(d)'
  BY <1>i, <1>f, <1>u, <1>g DEF DevInv, UrbInv
<1>4. HonestInv(d)'
  BY <1>i, <1>f, <1>u, <1>g DEF DevInv, TypeInv, UrbInv, HonestInv
<1>5. MarkInv(d)'
  BY <1>i, <1>f, <1>u DEF DevInv, TypeInv, Transport, Handle, Thread, MarkInv, Looked, Judging,
     PollHas
<1>6. PacketInv(d)'
  BY <1>i, <1>f, <1>u DEF DevInv, PacketInv, Spared, MainKicking
<1> QED
  BY <1>t, <1>l, <1>o, <1>1, <1>2, <1>3, <1>4, <1>5, <1>6, Frame DEF IInv, DevInv

\* usb_bulk_write submits, or finds the handle dead.
LEMMA WriteSubmitsStep ==
    ASSUME IInv, NEW d \in Devices, WriteSubmits(d)
    PROVE  IInv'
<1>1. CASE hd[d].dead \/ ~plug[d]
  BY <1>1, WriteFailsStep DEF WriteSubmits, WPc, counts
<1>2. CASE ~hd[d].dead /\ plug[d]
  BY <1>2, WriteStartsStep
<1> QED BY <1>1, <1>2

\* usb_bulk_write times out.
LEMMA WriteTimesOutStep ==
    ASSUME IInv, NEW d \in Devices, WriteTimesOut(d)
    PROVE  IInv'
BY WriteFailsStep DEF WriteTimesOut, WPc, counts

\* usb_bulk_write returns: the device took the transfer.
LEMMA WriteDoneStep ==
    ASSUME IInv, NEW d \in Devices, WriteWakes(d), Succeeded(d)
    PROVE  IInv'
<1>i. TypeInv /\ LockInv /\ DevInv(d)
  BY DEF IInv
<1> DEFINE even == wrote[d] % 2 = 0
<1>u. /\ UNCHANGED <<plug, plugs, hd, urb, tr, old, poll, main, tl, gl, hl, took, kicks>>
      /\ WPc(d) = "wait" /\ ~hd[d].dead /\ hd[d].ok /\ ~hd[d].busy
  BY DEF WriteWakes, Succeeded, WPc, world
<1>a. /\ th' \in [Threads -> Thread] /\ th'[Writer(d)].pc = IF even THEN "write" ELSE "idle"
      /\ \A y \in Threads \ {Writer(d)} : th'[y] = th[y]
  <2>1. th' = Goes(Writer(d), IF even THEN "write" ELSE "idle")
    BY DEF WriteWakes
  <2>2. (IF even THEN "write" ELSE "idle") \in Pcs
    BY DEF Pcs
  <2> HIDE DEF even
  <2> QED BY <1>i, <2>1, <2>2, GoesEffect, ThreadNames
<1>b. /\ wl' \in [Devices -> Threads \cup {Free}] /\ wl'[d] = IF even THEN Writer(d) ELSE Free
      /\ \A e \in Devices \ {d} : wl'[e] = wl[e]
  BY <1>i, ThreadNames DEF WriteWakes, TypeInv
<1>c. /\ wrote' \in [Devices -> Nat] /\ wrote[d] \in Nat /\ wrote'[d] = wrote[d] + 1
      /\ \A e \in Devices \ {d} : wrote'[e] = wrote[e]
  BY <1>i DEF WriteWakes, TypeInv
<1>e. wrote'[d] % 2 = 0 <=> ~even
  BY <1>c
<1> HIDE DEF even
<1>f. /\ th'[Reader(d)] = th[Reader(d)] /\ RPc(d)' = RPc(d)
         /\ WPc(d)' = (IF even THEN "write" ELSE "idle")
      /\ RUrb(d)' = RUrb(d) /\ WUrb(d)' = WUrb(d)
  BY <1>u, <1>a, ThreadNames DEF RPc, WPc, RUrb, WUrb
<1>g. \A how \in {"done", "error"} : Reaped(d, how)' <=> Reaped(d, how)
  BY <1>f DEF Reaped
<1>t. TypeInv'
  BY <1>i, <1>u, <1>a, <1>b, <1>c DEF TypeInv
<1>o. \A e \in Devices \ {d} : Same(e) /\ PollSame(e) /\ MainSame(e)
  BY <1>u, <1>a, <1>c, ThreadNames DEF Same, PollSame, MainSame, Listing, MainKicking, Registering,
     Unregistering, PollHas, Looked, Judging, Spared
<1>l. LockInv'
  <2>1. \A e \in Devices : wl'[e] # Free <=> WPc(e)' \in {"write", "wait"}
    BY <1>i, <1>b, <1>f, <1>u, <1>o, LockNames, ThreadNames DEF LockInv, Same, WPc
  <2>2. \A y \in Threads : th'[y].pc = "kick" <=> th[y].pc = "kick"
    BY <1>a, <1>f, <1>u, ThreadNames DEF RPc, WPc
  <2> QED BY <1>i, <1>u, <2>1, <2>2 DEF LockInv
<1>1. HandleInv(d)'
  BY <1>i, <1>u DEF DevInv, HandleInv, Unstarted, MainKicking, Registering, Unregistering, PollHas
<1>2. LifeInv(d)'
  BY <1>i, <1>f, <1>u, <1>e DEF DevInv, HandleInv, LifeInv, Unstarted, NoTransport, Listing,
     MainKicking, PollHas, Counted
<1>3. UrbInv(d)'
  BY <1>i, <1>f, <1>u, <1>g DEF DevInv, UrbInv
<1>4. HonestInv(d)'
  BY <1>i, <1>f, <1>u, <1>c, <1>g DEF DevInv, TypeInv, UrbInv, HonestInv
<1>5. MarkInv(d)'
  BY <1>i, <1>f, <1>u, <1>c, <1>e DEF DevInv, TypeInv, Transport, Handle, Thread, MarkInv, Looked,
     Judging, PollHas
<1>6. PacketInv(d)'
  BY <1>i, <1>f, <1>u, <1>e DEF DevInv, PacketInv, Spared, MainKicking, Listing
<1> QED
  BY <1>t, <1>l, <1>o, <1>1, <1>2, <1>3, <1>4, <1>5, <1>6, Frame DEF IInv, DevInv

\* The writer wakes.
LEMMA WriteWakesStep ==
    ASSUME IInv, NEW d \in Devices, WriteWakes(d)
    PROVE  IInv'
<1>1. CASE Succeeded(d)
  BY <1>1, WriteDoneStep
<1>2. CASE ~Succeeded(d)
  BY <1>2, WriteFailsStep DEF WriteWakes, WPc, counts
<1> QED BY <1>1, <1>2

\* SYNC(0, 0) has reached the writer: it leaves.
LEMMA WriteQuitsStep == ASSUME IInv, NEW d \in Devices, WriteQuits(d) PROVE IInv'
<1>i. TypeInv /\ LockInv /\ DevInv(d)
  BY DEF IInv
<1>t. TypeInv'
  BY <1>i, ThreadNames, HandleTypes, TransportTypes, ThreadTypes, StateTypes DEF TypeInv, Pcs,
     Urbs, WriteQuits, Goes, Running, world, locks, counts
<1>l. LockInv'
  BY <1>i, ThreadNames, LockNames DEF LockInv, WPc, TypeInv, Thread, PollState, MainState,
     WriteQuits, Goes, Running, world, locks, counts
<1>o. \A e \in Devices \ {d} : Same(e) /\ PollSame(e) /\ MainSame(e)
  BY ThreadNames, LockNames DEF Same, PollSame, MainSame, Listing, MainKicking, Registering,
     Unregistering, PollHas, Looked, Judging, Spared, WriteQuits, Goes, Running, world, locks,
     counts
<1>1. HandleInv(d)'
  BY <1>i DEF DevInv, WriteQuits, Goes, HandleInv, Unstarted, NoTransport, Listing, MainKicking,
     Registering, Unregistering, PollHas
<1>2. LifeInv(d)'
  BY <1>i, ThreadNames, LockNames DEF DevInv, RPc, WPc, WriteQuits, Goes, HandleInv, LifeInv,
     Unstarted, NoTransport, Listing, MainKicking, Counted
<1>3. UrbInv(d)'
  BY <1>i DEF DevInv, RPc, WPc, RUrb, WUrb, WriteQuits, Goes, Unstarted, UrbInv, Reaped
<1>4. HonestInv(d)'
  BY <1>i DEF DevInv, RPc, WPc, RUrb, WUrb, WriteQuits, Goes, locks, counts, Reaped, HonestInv
<1>5. MarkInv(d)'
  BY <1>i DEF DevInv, WriteQuits, Goes, Running, world, HandleInv, MarkInv, Looked, Judging
<1>6. PacketInv(d)'
  BY <1>i, ThreadNames, LockNames DEF DevInv, RPc, WPc, RUrb, WUrb, WriteQuits, Goes, Running,
     world, locks, counts, Judging, PacketInv, Spared, MainKicking
<1> QED
  BY <1>t, <1>l, <1>o, <1>1, <1>2, <1>3, <1>4, <1>5, <1>6, Frame DEF IInv, DevInv

-----------------------------------------------------------------------------
(* The end of both threads *)

\* A thread gives its reference back.
LEMMA LeaveUnrefsStep ==
    ASSUME IInv, NEW x \in Threads, NEW d \in Devices, d = x[2], LeaveUnrefs(x)
    PROVE  IInv'
<1>i. TypeInv /\ LockInv /\ DevInv(d)
  BY DEF IInv
<1> DEFINE Gone == IF tr[d].refs = 1 THEN "close" ELSE "none"
<1>u. /\ UNCHANGED <<plug, plugs, hd, urb, old, poll, main, tl, gl, hl, wl, took, wrote, kicks>>
      /\ th[x].pc = "unref"
  BY DEF LeaveUnrefs, world, locks, counts
<1>x. x = Reader(d) \/ x = Writer(d)
  BY ThreadNames
<1>a. UnrefMade(x, d)
  BY <1>i, <1>u, UnrefEffect DEF TypeInv, DevInv
<1>b. /\ th' \in [Threads -> Thread] /\ tr' \in [Devices -> Transport]
      /\ \A e \in Devices \ {d} : tr'[e] = tr[e] /\ th'[Reader(e)] = th[Reader(e)]
         /\ th'[Writer(e)] = th[Writer(e)]
  BY <1>a, <1>x, ThreadNames DEF UnrefMade
<1>f. /\ \/ /\ x = Reader(d) /\ RPc(d) = "unref" /\ RPc(d)' = Gone
            /\ WPc(d)' = WPc(d) /\ th'[Writer(d)] = th[Writer(d)]
         \/ /\ x = Writer(d) /\ WPc(d) = "unref" /\ WPc(d)' = Gone
            /\ RPc(d)' = RPc(d) /\ th'[Reader(d)] = th[Reader(d)]
      /\ RUrb(d)' = RUrb(d) /\ WUrb(d)' = WUrb(d)
  BY <1>u, <1>a, <1>x, ThreadNames DEF UnrefMade, RPc, WPc, RUrb, WUrb
<1>g. \A how \in {"done", "error"} : Reaped(d, how)' => Reaped(d, how)
  BY <1>f DEF Reaped
<1>t. TypeInv'
  BY <1>i, <1>u, <1>a, <1>b DEF TypeInv
<1>o. \A e \in Devices \ {d} : Same(e) /\ PollSame(e) /\ MainSame(e)
  BY <1>u, <1>a, <1>b, ThreadNames DEF Same, PollSame, MainSame, Listing, MainKicking, Registering,
     Unregistering, PollHas, Looked, Judging, Spared
<1>l. LockInv'
  <2>1. \A e \in Devices : WPc(e)' \in {"write", "wait"} <=> WPc(e) \in {"write", "wait"}
    BY <1>f, <1>u, <1>o DEF Same, WPc
  <2>2. \A y \in Threads : th'[y].pc = "kick" <=> th[y].pc = "kick"
    BY <1>a, <1>u, ThreadNames DEF UnrefMade
  <2> QED BY <1>i, <1>u, <2>1, <2>2 DEF LockInv
<1>1. HandleInv(d)'
  BY <1>i, <1>f, <1>u DEF DevInv, TypeInv, HandleInv, Unstarted, MainKicking, Registering,
     Unregistering, PollHas
<1>2. LifeInv(d)'
  BY <1>i, <1>f, <1>u, <1>a, LockNames DEF DevInv, TypeInv, Transport, UnrefMade, HandleInv,
     LifeInv, LockInv, Unstarted, NoTransport, Listing, MainKicking, Counted
<1>3. UrbInv(d)'
  BY <1>i, <1>f, <1>u, <1>a DEF DevInv, TypeInv, Transport, Handle, Thread, UnrefMade, UrbInv,
     Reaped
<1>4. HonestInv(d)'
  BY <1>i, <1>f, <1>u, <1>a DEF DevInv, TypeInv, Transport, Handle, Thread, UnrefMade, HonestInv,
     UrbInv, Reaped
<1>5. MarkInv(d)'
  BY <1>i, <1>f, <1>u, <1>a DEF DevInv, TypeInv, Transport, Handle, Thread, UnrefMade, MarkInv,
     Looked, Judging, PollHas
<1>6. PacketInv(d)'
  BY <1>i, <1>f, <1>u, <1>a DEF DevInv, TypeInv, Thread, UnrefMade, PacketInv, Spared, MainKicking,
     Listing
<1> QED
  BY <1>t, <1>l, <1>o, <1>1, <1>2, <1>3, <1>4, <1>5, <1>6, Frame DEF IInv, DevInv

\* A thread need not kick.
LEMMA LeaveSkipsStep ==
    ASSUME IInv, NEW x \in Threads, NEW d \in Devices, d = x[2], LeaveKicks(x), ~ToKick(d)
    PROVE  IInv'
<1>i. TypeInv /\ LockInv /\ DevInv(d)
  BY DEF IInv
<1>u. /\ UNCHANGED <<plug, plugs, hd, urb, old, poll, main, gl, hl, wl, took, wrote, kicks>>
      /\ UNCHANGED <<tr, tl>>
      /\ th[x].pc = "leave" /\ tl = Free /\ (tr[d].st # "listed" \/ tr[d].kicked)
  BY DEF LeaveKicks, ToKick, world, counts
<1>x. x = Reader(d) \/ x = Writer(d)
  BY ThreadNames
<1>a. /\ th' \in [Threads -> Thread] /\ th'[x].pc = "unref" /\ th'[x].res = th[x].res
      /\ \A y \in Threads \ {x} : th'[y] = th[y]
  BY <1>i, GoesEffect DEF LeaveKicks, Pcs
<1>f. /\ \/ /\ x = Reader(d) /\ RPc(d) = "leave" /\ RPc(d)' = "unref"
            /\ WPc(d)' = WPc(d) /\ th'[Writer(d)] = th[Writer(d)]
         \/ /\ x = Writer(d) /\ WPc(d) = "leave" /\ WPc(d)' = "unref"
            /\ RPc(d)' = RPc(d) /\ th'[Reader(d)] = th[Reader(d)]
      /\ RUrb(d)' = RUrb(d) /\ WUrb(d)' = WUrb(d)
  BY <1>u, <1>a, <1>x, ThreadNames DEF RPc, WPc, RUrb, WUrb
<1>g. \A how \in {"done", "error"} : Reaped(d, how)' => Reaped(d, how)
  BY <1>f DEF Reaped
<1>t. TypeInv'
  BY ThreadNames, <1>i, <1>u, <1>a DEF TypeInv
<1>o. \A e \in Devices \ {d} : Same(e) /\ PollSame(e) /\ MainSame(e)
  <2>1. \A e \in Devices \ {d} : x # Reader(e) /\ x # Writer(e)
    BY ThreadNames
  <2> QED BY <1>u, <1>a, ThreadNames DEF Same, PollSame, MainSame, Listing, MainKicking,
             Registering, Unregistering, PollHas, Looked, Judging, Spared
<1>l. LockInv'
  <2>1. \A e \in Devices : WPc(e)' \in {"write", "wait"} <=> WPc(e) \in {"write", "wait"}
    BY <1>f, <1>u, <1>o DEF Same, WPc
  <2>2. \A y \in Threads : th'[y].pc = "kick" <=> th[y].pc = "kick"
    BY <1>a, <1>u
  <2> QED BY <1>i, <1>u, <2>1, <2>2, LockNames DEF LockInv
<1>1. HandleInv(d)'
  BY <1>i, <1>f, <1>u DEF DevInv, TypeInv, HandleInv, Unstarted, Listing, MainKicking, Registering,
     Unregistering, PollHas
<1>2. LifeInv(d)'
  <2>1. ~MainKicking(d) /\ ~MainKicking(d)'
    BY <1>i, <1>u, LockNames DEF LockInv, MainKicking
  <2>2. x = Writer(d) => tr[d].kicked
    <3>1. tr[d].st \in {"none", "pending", "listed"}
      BY <1>i DEF TypeInv, Transport
    <3>2. x = Writer(d) => WPc(d) = "leave"
      BY <1>f, ThreadNames
    <3>3. WPc(d) = "leave" => tr[d].st # "none"
      BY <1>i DEF DevInv, LifeInv
    <3>4. WPc(d) = "leave" /\ hd[d].writeable => tr[d].st # "pending"
      BY <1>i DEF DevInv, LifeInv, Unstarted
    <3>5. WPc(d) = "leave" => hd[d].writeable
      BY <1>i DEF DevInv, LifeInv, HandleInv, Unstarted
    <3> QED BY <1>u, <3>1, <3>2, <3>3, <3>4, <3>5
  <2>3. Listing(d)' <=> Listing(d)
    BY <1>u DEF Listing
  <2>4. Unstarted(d) => FALSE
    BY <1>f DEF Unstarted
  <2>5. tr'[d] = tr[d] /\ hd'[d] = hd[d]
    BY <1>u
  <2> QED BY <1>i, <1>f, <2>1, <2>2, <2>3, <2>4, <2>5 DEF DevInv, LifeInv, Counted
<1>3. UrbInv(d)'
  BY <1>i, <1>f, <1>u DEF DevInv, TypeInv, Transport, Handle, Thread, UrbInv, Reaped
<1>4. HonestInv(d)'
  BY <1>i, <1>f, <1>u DEF DevInv, TypeInv, Transport, Handle, Thread, HonestInv, UrbInv,
     Reaped
<1>5. MarkInv(d)'
  BY <1>i, <1>f, <1>u DEF DevInv, TypeInv, Transport, Handle, Thread, MarkInv, Looked,
     Judging, PollHas
<1>6. PacketInv(d)'
  BY <1>i, <1>f, <1>u DEF DevInv, PacketInv, Spared, MainKicking
<1> QED
  BY <1>t, <1>l, <1>o, <1>1, <1>2, <1>3, <1>4, <1>5, <1>6, Frame DEF IInv, DevInv

\* A thread takes transport_lock to kick.
LEMMA LeaveTakesStep ==
    ASSUME IInv, NEW x \in Threads, NEW d \in Devices, d = x[2], LeaveKicks(x), ToKick(d)
    PROVE  IInv'
<1>i. TypeInv /\ LockInv /\ DevInv(d)
  BY DEF IInv
<1>u. /\ UNCHANGED <<plug, plugs, hd, urb, old, poll, main, gl, hl, wl, took, wrote, kicks>>
      /\ th[x].pc = "leave" /\ tl = Free /\ tl' = x /\ tr[d].st = "listed" /\ ~tr[d].kicked
  BY DEF LeaveKicks, ToKick, world, counts
<1>x. x = Reader(d) \/ x = Writer(d)
  BY ThreadNames
<1>a. /\ th' \in [Threads -> Thread] /\ th'[x].pc = "kick" /\ th'[x].res = th[x].res
      /\ \A y \in Threads \ {x} : th'[y] = th[y]
  BY <1>i, GoesEffect DEF LeaveKicks, Pcs
<1>b. /\ tr' \in [Devices -> Transport]
      /\ tr'[d].st = tr[d].st /\ tr'[d].kicked = TRUE /\ tr'[d].refs = tr[d].refs
         /\ tr'[d].sync = tr[d].sync
      /\ \A e \in Devices \ {d} : tr'[e] = tr[e]
  BY <1>i, KickedEffect DEF LeaveKicks
<1>f. /\ \/ /\ x = Reader(d) /\ RPc(d) = "leave" /\ RPc(d)' = "kick"
            /\ WPc(d)' = WPc(d) /\ th'[Writer(d)] = th[Writer(d)]
         \/ /\ x = Writer(d) /\ WPc(d) = "leave" /\ WPc(d)' = "kick"
            /\ RPc(d)' = RPc(d) /\ th'[Reader(d)] = th[Reader(d)]
      /\ RUrb(d)' = RUrb(d) /\ WUrb(d)' = WUrb(d)
  BY <1>u, <1>a, <1>x, ThreadNames DEF RPc, WPc, RUrb, WUrb
<1>g. \A how \in {"done", "error"} : Reaped(d, how)' => Reaped(d, how)
  BY <1>f DEF Reaped
<1>t. TypeInv'
  BY ThreadNames, <1>i, <1>u, <1>a, <1>b DEF TypeInv
<1>o. \A e \in Devices \ {d} : Same(e) /\ PollSame(e) /\ MainSame(e)
  <2>1. \A e \in Devices \ {d} : x # Reader(e) /\ x # Writer(e)
    BY ThreadNames
  <2> QED BY <1>u, <1>a, <1>b, ThreadNames DEF Same, PollSame, MainSame, Listing, MainKicking,
             Registering, Unregistering, PollHas, Looked, Judging, Spared
<1>l. LockInv'
  <2>1. \A e \in Devices : WPc(e)' \in {"write", "wait"} <=> WPc(e) \in {"write", "wait"}
    BY <1>f, <1>u, <1>o DEF Same, WPc
  <2>2. \A y \in Threads : th'[y].pc = "kick" <=> y = x
    BY <1>i, <1>a, <1>u, LockNames DEF LockInv
  <2> QED BY <1>i, <1>u, <2>1, <2>2, LockNames DEF LockInv
<1>1. HandleInv(d)'
  BY <1>i, <1>u DEF DevInv, Thread, HandleInv, Unstarted, NoTransport, Registering, Unregistering
<1>2. LifeInv(d)'
  BY <1>i, <1>f, <1>u, <1>b DEF DevInv, TypeInv, LifeInv, Unstarted, NoTransport, Listing,
     MainKicking, Registering, Counted
<1>3. UrbInv(d)'
  BY <1>i, <1>f, <1>u, <1>b DEF DevInv, TypeInv, Transport, Handle, Thread, UrbInv, Reaped
<1>4. HonestInv(d)'
  BY <1>i, <1>f, <1>u, <1>b DEF DevInv, TypeInv, Transport, Handle, Thread, HonestInv, UrbInv,
     Reaped
<1>5. MarkInv(d)'
  BY <1>i, <1>f, <1>u, <1>b DEF DevInv, TypeInv, Transport, Handle, Thread, MarkInv, Looked,
     Judging, PollHas
<1>6. PacketInv(d)'
  BY <1>i, <1>f, <1>u DEF DevInv, PacketInv, Spared, MainKicking
<1> QED
  BY <1>t, <1>l, <1>o, <1>1, <1>2, <1>3, <1>4, <1>5, <1>6, Frame DEF IInv, DevInv

\* kick_transport.
LEMMA LeaveKicksStep ==
    ASSUME IInv, NEW x \in Threads, NEW d \in Devices, d = x[2], LeaveKicks(x)
    PROVE  IInv'
BY LeaveSkipsStep, LeaveTakesStep

\* The thread has write_msg_lock_ and kicks.
LEMMA LeaveKickedStep ==
    ASSUME IInv, NEW x \in Threads, NEW d \in Devices, d = x[2], LeaveKicked(x)
    PROVE  IInv'
<1> DEFINE T == UsbKickThread(d)
<1>i. TypeInv /\ LockInv /\ DevInv(d) /\ LifeInv(d)
  BY DEF IInv, DevInv
<1>u. /\ th[x].pc = "kick" /\ wl[d] = Free /\ UsbKick(d) /\ tl' = Free
      /\ th' = [T EXCEPT ![x].pc = "unref"]
      /\ UNCHANGED <<plug, plugs, tr, old, poll, main, gl, hl, wl, took, wrote, kicks>>
  BY DEF LeaveKicked, MayKick, world, counts
<1>k. KickMade(d) /\ SignalMade(d, T)
  BY <1>i, <1>u, KickEffect, SignalEffect
<1>v. /\ th' \in [Threads -> Thread] /\ th'[x].pc = "unref"
      /\ \A y \in Threads \ {x} : th'[y] = T[y]
  <2>1. T \in [Threads -> Thread]
    BY <1>k DEF SignalMade
  <2> HIDE DEF T
  <2>2. [T[x] EXCEPT !.pc = "unref"] \in Thread /\ [T[x] EXCEPT !.pc = "unref"].pc = "unref"
    BY <2>1 DEF Thread, Pcs
  <2>3. th' = [T EXCEPT ![x] = [T[x] EXCEPT !.pc = "unref"]]
    BY <1>u
  <2> QED BY <2>1, <2>2, <2>3
<1> HIDE DEF T
<1>x. x = Reader(d) \/ x = Writer(d)
  BY ThreadNames
<1>y. tl = x
  BY <1>i, <1>u DEF LockInv
<1>o. \A e \in Devices \ {d} : Same(e) /\ PollSame(e) /\ MainSame(e)
  <2>1. \A e \in Devices \ {d} : Reader(e) # x /\ Writer(e) # x /\ T[Reader(e)] = th[Reader(e)]
        /\ T[Writer(e)] = th[Writer(e)]
    BY <1>k, ThreadNames DEF SignalMade
  <2>2. \A e \in Devices \ {d} : Same(e)
    BY <1>u, <1>k, <1>v, <2>1, ThreadNames DEF Same, KickMade
  <2>3. \A e \in Devices \ {d} : PollSame(e) /\ MainSame(e)
    BY <1>u DEF PollSame, MainSame, Listing, MainKicking, Registering, Unregistering, PollHas,
       Looked, Judging, Spared
  <2> QED BY <2>2, <2>3
<1>p. \/ x = Reader(d) /\ RPc(d) = "kick" /\ RPc(d)' = "unref" /\ WPc(d)' = WPc(d)
      \/ /\ x = Writer(d) /\ WPc(d) = "kick" /\ WPc(d)' = "unref"
         /\ RPc(d)' = RPc(d) \/ (RPc(d) = "ioctl" /\ RPc(d)' = "got")
  BY <1>u, <1>k, <1>v, <1>x, ThreadNames DEF SignalMade, RPc, WPc
<1>c. \A y \in Threads : th'[y].pc # "kick"
  <2> SUFFICES ASSUME NEW y \in Threads PROVE th'[y].pc # "kick"
    OBVIOUS
  <2>1. CASE y = x
    BY <2>1, <1>v
  <2>2. CASE y # x
    BY <2>2, <1>i, <1>k, <1>v, <1>y, ThreadNames DEF SignalMade, LockInv
  <2> QED BY <2>1, <2>2
<1>t. TypeInv'
  BY <1>i, <1>u, <1>k, <1>v DEF TypeInv, KickMade
<1>l. LockInv'
  <2>1. \A e \in Devices : WPc(e)' \in {"write", "wait"} <=> WPc(e) \in {"write", "wait"}
    BY <1>o, <1>p DEF Same, WPc
  <2> QED BY <1>i, <1>u, <1>c, <1>y, <2>1, LockNames DEF LockInv
<1>1. HandleInv(d)'
  BY <1>i, <1>u, <1>k, <1>v, <1>p DEF DevInv, KickMade, WUrb, HandleInv, LifeInv,
     NoTransport, Registering, Unregistering
<1>2. LifeInv(d)'
  BY <1>i, <1>u, <1>k, <1>v, <1>p, <1>y, LockNames DEF DevInv, KickMade, LifeInv,
     Unstarted, NoTransport, Listing, MainKicking, Counted, LockInv
<1>3. UrbInv(d)'
  BY <1>i, <1>k, <1>p DEF DevInv, TypeInv, Transport, KickMade, Busy, RUrb, WUrb,
     UrbInv, Reaped
<1>4. HonestInv(d)'
  BY <1>i, <1>u, <1>k, <1>p DEF DevInv, TypeInv, Transport, KickMade, Busy, RUrb, WUrb,
     HonestInv, Reaped
<1>5. MarkInv(d)'
  BY <1>i, <1>u, <1>k DEF DevInv, KickMade, MarkInv, Looked, Judging
<1>6. PacketInv(d)'
  BY <1>i, <1>u, <1>k, <1>p DEF DevInv, KickMade, Busy, RUrb, WUrb, LifeInv, UrbInv,
     HonestInv, PacketInv, Spared, MainKicking, LockInv
<1> QED
  BY <1>t, <1>l, <1>o, <1>1, <1>2, <1>3, <1>4, <1>5, <1>6, Frame DEF IInv, DevInv

\* The last thread closes the handle: nobody else has it.
LEMMA LeaveClosesStep == ASSUME IInv, NEW x \in Threads, NEW d \in Devices, d = x[2],
                                LeaveCloses(x) PROVE IInv'
<1>i. TypeInv /\ LockInv /\ DevInv(d)
  BY DEF IInv
<1>r. x = Reader(d) \/ x = Writer(d)
  BY ThreadNames
<1>r2. th[x].pc \in {"leave", "kick"} => tr[d].refs \in 1..2 /\ tr[d].refs - 1 \in 0..2
  BY <1>i, <1>r DEF DevInv, LifeInv, Counted, RPc, WPc, TypeInv
<1>h. /\ hd' \in [Devices -> Handle] /\ tr' \in [Devices -> Transport]
      /\ urb' \in [Threads -> Urbs]
  BY <1>i, HandleTypes, TransportTypes DEF TypeInv, LeaveCloses, Urbs
<1>p. th' \in [Threads -> Thread]
  BY <1>i, GoesEffect DEF LeaveCloses, Pcs
<1>t. TypeInv'
  BY <1>i, <1>h, <1>p DEF TypeInv, LeaveCloses, world, locks, counts
<1>l. LockInv'
  BY <1>i DEF LockInv, WPc, TypeInv, MainState, LeaveCloses, MayClose, Goes, locks, counts
<1>o. \A e \in Devices \ {d} : Same(e) /\ PollSame(e) /\ MainSame(e)
  BY <1>i, ThreadNames, <1>r2 DEF Same, PollSame, MainSame, Listing, MainKicking, Registering,
     Unregistering, PollHas, Looked, Judging, Spared, LeaveCloses, MayClose, Goes, NoHandle,
     NoTransport, Running, world, locks, counts
<1>a. hd'[d] = NoHandle /\ tr'[d] = NoTransport /\ RUrb(d)' = "none" /\ WUrb(d)' = "none"
      /\ poll' = poll /\ main' = main /\ gl = Free
  BY <1>i, ThreadNames DEF LeaveCloses, MayClose, TypeInv, RUrb, WUrb, locks
<1>b. RPc(d)' = "none" /\ WPc(d)' = "none"
  BY <1>i, <1>r, ThreadNames DEF LeaveCloses, Goes, TypeInv, Thread, DevInv, LifeInv, RPc, WPc
<1>c. ~Registering(d) /\ ~Listing(d) /\ ~MainKicking(d)
  BY <1>i, <1>r DEF LeaveCloses, DevInv, HandleInv, LifeInv, Unstarted, Counted, RPc, WPc
<1>1. HandleInv(d)'
  BY <1>i, <1>a, <1>b, <1>c, LockNames DEF HandleInv, Registering, Listing, MainKicking,
     Unregistering, PollHas, NoHandle, NoTransport, LockInv
<1>2. LifeInv(d)'
  BY <1>i, ThreadNames, LockNames, <1>r, <1>r2 DEF DevInv, RPc, WPc, TypeInv, Handle, LeaveCloses,
     MayClose, Goes, NoHandle, NoTransport, Running, world, locks, counts, HandleInv, LifeInv,
     Unstarted, Listing, MainKicking, Registering, Unregistering, PollHas, LockInv, Counted
<1>3. UrbInv(d)'
  BY <1>i, ThreadNames, <1>r2 DEF DevInv, RPc, WPc, LeaveCloses, MayClose, Goes, NoHandle, counts,
     HandleInv, LifeInv, Unstarted, UrbInv, Reaped
<1>4. HonestInv(d)'
  BY <1>i, ThreadNames, LockNames, <1>r, <1>r2 DEF DevInv, RPc, WPc, RUrb, WUrb, LeaveCloses,
     MayClose, Goes, NoHandle, counts, HandleInv, LifeInv, Unstarted, HonestInv
<1>5. MarkInv(d)'
  BY <1>i DEF TypeInv, Handle, LeaveCloses, MayClose, Goes, NoHandle, MarkInv, Looked
<1>6. PacketInv(d)'
  BY <1>i, ThreadNames, <1>r2 DEF DevInv, RPc, WPc, LeaveCloses, MayClose, Goes, NoHandle, LifeInv,
     Unstarted, PacketInv, Spared, MainKicking, Listing, LockInv
<1> QED
  BY <1>t, <1>l, <1>o, <1>1, <1>2, <1>3, <1>4, <1>5, <1>6, Frame DEF IInv, DevInv

-----------------------------------------------------------------------------
(* The main thread *)

\* The main thread starts both threads of a transport.
LEMMA MainSpawnsStep ==
    ASSUME IInv, NEW d \in Devices, MainStarts(d), hd[d].writeable
    PROVE  IInv'
<1>i. TypeInv /\ LockInv /\ DevInv(d)
  BY DEF IInv
<1>u. /\ UNCHANGED <<plug, plugs, hd, urb, old, poll, tl, gl, hl, wl, took, wrote, kicks>>
      /\ main.pc = "loop" /\ main' = [pc |-> "list", todo |-> {d}] /\ tr[d].st = "pending"
  BY DEF MainStarts, InLoop, world, locks, counts
<1>e. Unstarted(d) /\ hd[d].live
  BY <1>i, <1>u DEF DevInv, LifeInv, HandleInv, Listing, NoTransport
<1>c. /\ th' = [th EXCEPT ![Reader(d)].pc = "read", ![Writer(d)].pc = "idle"]
      /\ tr' = [tr EXCEPT ![d] = [tr[d] EXCEPT !.refs = 2]]
  BY DEF MainStarts
<1>a. /\ th' \in [Threads -> Thread] /\ th'[Reader(d)].pc = "read" /\ th'[Writer(d)].pc = "idle"
      /\ \A y \in Threads \ {Reader(d), Writer(d)} : th'[y] = th[y]
  <2>1. th' = [th EXCEPT ![Reader(d)] = [th[Reader(d)] EXCEPT !.pc = "read"],
                             ![Writer(d)] = [th[Writer(d)] EXCEPT !.pc = "idle"]]
    BY <1>c, ThreadNames
  <2>2. [th[Reader(d)] EXCEPT !.pc = "read"] \in Thread
        /\ [th[Writer(d)] EXCEPT !.pc = "idle"] \in Thread
    BY <1>i, ThreadTypes, ThreadNames DEF TypeInv, Pcs
  <2> DEFINE r == [th[Reader(d)] EXCEPT !.pc = "read"]
             w == [th[Writer(d)] EXCEPT !.pc = "idle"]
  <2> HIDE DEF r, w
  <2>3. /\ th' \in [Threads -> Thread] /\ th'[Reader(d)] = r /\ th'[Writer(d)] = w
        /\ \A y \in Threads \ {Reader(d), Writer(d)} : th'[y] = th[y]
    <3>1. th' = [th EXCEPT ![Reader(d)] = r, ![Writer(d)] = w] /\ r \in Thread /\ w \in Thread
      BY <2>1, <2>2 DEF r, w
    <3> DEFINE one == [th EXCEPT ![Reader(d)] = r]
    <3>2. /\ one \in [Threads -> Thread] /\ one[Reader(d)] = r
          /\ \A y \in Threads \ {Reader(d)} : one[y] = th[y]
      BY <1>i, <3>1, ThreadNames DEF TypeInv
    <3>3. th' = [one EXCEPT ![Writer(d)] = w]
      BY <3>1
    <3> HIDE DEF one
    <3> QED BY <3>1, <3>2, <3>3, ThreadNames
  <2> USE DEF r, w
  <2> QED BY <1>i, <2>3, ThreadNames DEF TypeInv, Thread
<1>b. /\ tr' \in [Devices -> Transport] /\ tr'[d] = [tr[d] EXCEPT !.refs = 2]
      /\ \A e \in Devices \ {d} : tr'[e] = tr[e]
  <2>0. 2 \in 0..2
    OBVIOUS
  <2>1. [tr[d] EXCEPT !.refs = 2] \in Transport
    BY <1>i, <2>0, TransportTypes DEF TypeInv
  <2> QED BY <1>i, <1>c, <2>1 DEF TypeInv
<1>g. tr'[d].st = tr[d].st /\ tr'[d].kicked = tr[d].kicked /\ tr'[d].refs = 2
      /\ tr'[d].sync = tr[d].sync
  BY <1>i, <1>b DEF TypeInv, Transport
<1>f. RPc(d)' = "read" /\ WPc(d)' = "idle" /\ RUrb(d)' = RUrb(d) /\ WUrb(d)' = WUrb(d)
  BY <1>a, <1>u DEF RPc, WPc, RUrb, WUrb
<1>t. TypeInv'
  BY StateTypes, <1>i, <1>u, <1>a, <1>b DEF TypeInv
<1>o. \A e \in Devices \ {d} : Same(e) /\ PollSame(e) /\ MainSame(e)
  BY <1>u, <1>a, <1>b, ThreadNames DEF Same, PollSame, MainSame, Listing, MainKicking, Registering,
     Unregistering, PollHas, Looked, Judging, Spared
<1>l. LockInv'
  <2>1. RPc(d) = "none" /\ WPc(d) = "none"
    BY <1>e DEF Unstarted
  <2>2. \A e \in Devices : WPc(e)' \in {"write", "wait"} <=> WPc(e) \in {"write", "wait"}
    BY <1>f, <2>1, <1>o DEF Same, WPc
  <2>3. \A y \in Threads : th'[y].pc = "kick" <=> th[y].pc = "kick"
    BY <1>a, <2>1, ThreadNames DEF RPc, WPc
  <2> QED BY <1>i, <1>u, <2>2, <2>3 DEF LockInv
<1>1. HandleInv(d)'
  BY <1>i, <1>u DEF DevInv, HandleInv, Unstarted, NoTransport, Listing, MainKicking, Registering,
     Unregistering, PollHas
<1>2. LifeInv(d)'
  BY <1>i, <1>f, <1>u, <1>g, <1>e DEF DevInv, HandleInv, LifeInv, Unstarted, NoTransport, Listing,
     MainKicking, PollHas, Counted
<1>3. UrbInv(d)'
  BY <1>i, <1>f, <1>u, <1>g, <1>e DEF DevInv, TypeInv, Transport, Handle, Thread, UrbInv, Reaped,
     Unstarted
<1>4. HonestInv(d)'
  BY <1>i, <1>f, <1>u, <1>g, <1>e DEF DevInv, TypeInv, Transport, Handle, Thread, HonestInv,
     UrbInv, Reaped, Unstarted
<1>5. MarkInv(d)'
  BY <1>i, <1>f, <1>u, <1>g, <1>e DEF DevInv, TypeInv, Transport, Handle, Thread, MarkInv, Looked,
     Judging, PollHas, Unstarted
<1>6. PacketInv(d)'
  BY <1>i, <1>f, <1>u, <1>g, <1>e DEF DevInv, PacketInv, Spared, MainKicking, Listing, Unstarted
<1> QED
  BY <1>t, <1>l, <1>o, <1>1, <1>2, <1>3, <1>4, <1>5, <1>6, Frame DEF IInv, DevInv

\* A read-only transport gets no threads.
LEMMA MainStartsNoneStep ==
    ASSUME IInv, NEW d \in Devices, MainStarts(d), ~hd[d].writeable
    PROVE  IInv'
<1>i. TypeInv /\ LockInv /\ DevInv(d)
  BY DEF IInv
<1>f. /\ UNCHANGED <<plug, plugs, hd, urb, tr, old, th, poll, tl, gl, hl, wl, took, wrote, kicks>>
      /\ main.pc = "loop" /\ main' = [pc |-> "list", todo |-> {d}] /\ tr[d].st = "pending"
  BY DEF MainStarts, InLoop, world, locks, counts
<1>g. RPc(d)' = RPc(d) /\ WPc(d)' = WPc(d) /\ RUrb(d)' = RUrb(d) /\ WUrb(d)' = WUrb(d)
  BY <1>f DEF RPc, WPc, RUrb, WUrb
<1>t. TypeInv'
  BY StateTypes, <1>i, <1>f DEF TypeInv
<1>o. \A e \in Devices \ {d} : Same(e) /\ PollSame(e) /\ MainSame(e)
  BY <1>f, ThreadNames DEF Same, PollSame, MainSame, Listing, MainKicking, Registering,
     Unregistering, PollHas, Looked, Judging, Spared
<1>l. LockInv'
  BY <1>i, <1>f DEF LockInv, WPc
<1>1. HandleInv(d)'
  BY <1>i, <1>f DEF DevInv, HandleInv, NoTransport, Registering
<1>2. LifeInv(d)'
  BY <1>i, <1>f, <1>g DEF DevInv, LifeInv, Unstarted, Listing, MainKicking
<1>3. UrbInv(d)'
  BY <1>i, <1>f, <1>g DEF DevInv, TypeInv, Transport, Handle, Thread, UrbInv, Reaped
<1>4. HonestInv(d)'
  BY <1>i, <1>f, <1>g DEF DevInv, TypeInv, Transport, Handle, Thread, HonestInv, UrbInv, Reaped
<1>5. MarkInv(d)'
  BY <1>i, <1>f, <1>g DEF DevInv, TypeInv, Transport, Handle, Thread, MarkInv, Looked, Judging,
     PollHas
<1>6. PacketInv(d)'
  BY <1>i, <1>f, <1>g DEF DevInv, PacketInv, Spared
<1> QED
  BY <1>t, <1>l, <1>o, <1>1, <1>2, <1>3, <1>4, <1>5, <1>6, Frame DEF IInv, DevInv

\* transport_registration_func.
LEMMA MainStartsStep ==
    ASSUME IInv, NEW d \in Devices, MainStarts(d)
    PROVE  IInv'
BY MainSpawnsStep, MainStartsNoneStep

\* The transport is listed.
LEMMA MainListsStep == ASSUME IInv, NEW d \in Devices, MainLists(d) PROVE IInv'
<1>i. TypeInv /\ LockInv /\ DevInv(d)
  BY DEF IInv
<1>t. TypeInv'
  BY <1>i, ThreadNames, HandleTypes, TransportTypes, ThreadTypes, StateTypes DEF TypeInv, Pcs,
     Urbs, MainLists, Running, world, locks, counts
<1>l. LockInv'
  BY <1>i, ThreadNames, LockNames DEF LockInv, WPc, TypeInv, Thread, PollState, MainState,
     MainLists, Running, world, locks, counts
<1>o. \A e \in Devices \ {d} : Same(e) /\ PollSame(e) /\ MainSame(e)
  BY <1>i, ThreadNames, LockNames DEF Same, PollSame, MainSame, TypeInv, LockInv, Listing,
     MainKicking, Registering, Unregistering, PollHas, Looked, Judging, Spared, MainLists, Running,
     world, locks, counts
<1>1. HandleInv(d)'
  BY <1>i, ThreadNames, LockNames DEF DevInv, MainLists, Running, counts, HandleInv, LifeInv,
     Unstarted, NoTransport, Listing, MainKicking, Registering, Unregistering, PollHas
<1>2. LifeInv(d)'
  BY <1>i, ThreadNames, LockNames DEF DevInv, RPc, WPc, RUrb, WUrb, TypeInv, Handle, MainLists,
     Running, counts, HandleInv, LifeInv, Unstarted, NoTransport, Listing, MainKicking,
     Registering, Unregistering, PollHas
<1>3. UrbInv(d)'
  BY <1>i DEF DevInv, RPc, WPc, RUrb, WUrb, MainLists, Running, UrbInv, Reaped
<1>4. HonestInv(d)'
  BY <1>i, ThreadNames, LockNames DEF DevInv, RPc, WPc, RUrb, WUrb, MainLists, Running, counts,
     HandleInv, UrbInv, Reaped, HonestInv
<1>5. MarkInv(d)'
  BY <1>i DEF DevInv, MainLists, Running, world, locks, MarkInv, Looked, Judging, PollHas
<1>6. PacketInv(d)'
  BY <1>i, ThreadNames, LockNames DEF DevInv, RPc, WPc, RUrb, WUrb, MainLists, Running, world,
     locks, counts, HandleInv, PacketInv, Spared, MainKicking, Listing
<1> QED
  BY <1>t, <1>l, <1>o, <1>1, <1>2, <1>3, <1>4, <1>5, <1>6, Frame DEF IInv, DevInv

\* SYNC(0, 0) is handled.
LEMMA MainSyncsStep == ASSUME IInv, NEW d \in Devices, MainSyncs(d) PROVE IInv'
<1>i. TypeInv /\ LockInv /\ DevInv(d)
  BY DEF IInv
<1>t. TypeInv'
  BY <1>i, ThreadNames, HandleTypes, TransportTypes, ThreadTypes, StateTypes DEF TypeInv, Pcs,
     Urbs, MainSyncs, InLoop, Running, world, locks, counts
<1>l. LockInv'
  BY <1>i, ThreadNames, LockNames DEF LockInv, WPc, TypeInv, Thread, PollState, MainState,
     MainSyncs, InLoop, Running, world, locks, counts
<1>o. \A e \in Devices \ {d} : Same(e) /\ PollSame(e) /\ MainSame(e)
  BY DEF Same, PollSame, MainSame, Listing, MainKicking, Registering, Unregistering, PollHas,
     Looked, Judging, Spared, MainSyncs, InLoop, Running, world, locks, counts
<1>1. HandleInv(d)'
  BY <1>i DEF DevInv, MainSyncs, InLoop, HandleInv, Unstarted, NoTransport, Listing, MainKicking,
     Registering, Unregistering, PollHas
<1>2. LifeInv(d)'
  BY <1>i, ThreadNames, LockNames DEF DevInv, RPc, WPc, MainSyncs, InLoop, HandleInv, LifeInv,
     Unstarted, NoTransport, Listing, MainKicking
<1>3. UrbInv(d)'
  BY <1>i DEF DevInv, RPc, WPc, RUrb, WUrb, MainSyncs, InLoop, Unstarted, UrbInv, Reaped
<1>4. HonestInv(d)'
  BY <1>i DEF DevInv, RPc, WPc, RUrb, WUrb, MainSyncs, InLoop, locks, counts, Reaped, HonestInv
<1>5. MarkInv(d)'
  BY <1>i DEF DevInv, MainSyncs, InLoop, Running, world, HandleInv, MarkInv, Looked, Judging
<1>6. PacketInv(d)'
  BY <1>i, ThreadNames, LockNames DEF DevInv, RPc, WPc, RUrb, WUrb, MainSyncs, InLoop, Running,
     world, locks, counts, Judging, PacketInv, Spared, MainKicking
<1> QED
  BY <1>t, <1>l, <1>o, <1>1, <1>2, <1>3, <1>4, <1>5, <1>6, Frame DEF IInv, DevInv

\* The main thread removes a transport that is closed.
LEMMA MainRemovesStep == ASSUME IInv, NEW d \in Devices, MainRemoves(d) PROVE IInv'
<1>i. TypeInv /\ LockInv /\ DevInv(d)
  BY DEF IInv
<1>t. TypeInv'
  BY <1>i, ThreadNames, HandleTypes, TransportTypes, ThreadTypes, StateTypes DEF TypeInv, Pcs,
     Urbs, MainRemoves, InLoop, Running, world, locks, counts
<1>l. LockInv'
  BY <1>i, ThreadNames, LockNames DEF LockInv, WPc, TypeInv, Thread, PollState, MainState,
     MainRemoves, InLoop, Running, world, locks, counts
<1>o. \A e \in Devices \ {d} : Same(e) /\ PollSame(e) /\ MainSame(e)
  BY DEF Same, PollSame, MainSame, Listing, MainKicking, Registering, Unregistering, PollHas,
     Looked, Judging, Spared, MainRemoves, InLoop, Running, world, locks, counts
<1>1. HandleInv(d)'
  BY <1>i, ThreadNames, LockNames DEF DevInv, RPc, WPc, RUrb, WUrb, MainRemoves, InLoop, locks,
     counts, HandleInv, Unstarted, NoTransport, Listing, MainKicking, Registering, Unregistering,
     PollHas
<1>2. LifeInv(d)'
  BY <1>i, ThreadNames, LockNames DEF DevInv, RPc, WPc, RUrb, WUrb, MainRemoves, InLoop, locks,
     counts, HandleInv, LifeInv, Unstarted, NoTransport, Listing, MainKicking, Registering,
     Unregistering
<1>3. UrbInv(d)'
  BY <1>i DEF DevInv, RPc, WPc, RUrb, WUrb, MainRemoves, InLoop, Unstarted, UrbInv, Reaped
<1>4. HonestInv(d)'
  BY <1>i DEF DevInv, RPc, WPc, RUrb, WUrb, MainRemoves, InLoop, locks, counts, Reaped, HonestInv
<1>5. MarkInv(d)'
  BY <1>i DEF DevInv, MainRemoves, InLoop, Running, world, HandleInv, MarkInv, Looked, Judging
<1>6. PacketInv(d)'
  BY <1>i, ThreadNames, LockNames DEF DevInv, RPc, WPc, RUrb, WUrb, MainRemoves, InLoop, Running,
     world, locks, counts, Judging, PacketInv, Spared, MainKicking
<1> QED
  BY <1>t, <1>l, <1>o, <1>1, <1>2, <1>3, <1>4, <1>5, <1>6, Frame DEF IInv, DevInv

\* The main thread begins to kick a listed transport.
LEMMA MainKicksStep == ASSUME IInv, NEW d \in Devices, MainKicks(d) PROVE IInv'
<1>i. TypeInv /\ LockInv /\ DevInv(d)
  BY DEF IInv
<1>t. TypeInv'
  <2>1. kicks' \in Nat /\ tl' = Main
        /\ UNCHANGED <<plug, plugs, hd, urb, old, th, poll, gl, hl, wl, took, wrote>>
    BY <1>i DEF MainKicks, TypeInv, world, counts
  <2>2. tr' \in [Devices -> Transport]
    BY <1>i, KickedEffect DEF MainKicks
  <2>3. main' \in MainState
    BY StateTypes DEF MainKicks
  <2> QED BY <1>i, <2>1, <2>2, <2>3 DEF TypeInv
<1>l. LockInv'
  BY <1>i, LockNames DEF LockInv, WPc, MainKicks
<1>o. \A e \in Devices \ {d} : Same(e) /\ PollSame(e) /\ MainSame(e)
  BY LockNames DEF Same, PollSame, MainSame, Listing, MainKicking, Registering, Unregistering,
     PollHas, Looked, Judging, Spared, MainKicks, InLoop, world, locks, counts
<1>1. HandleInv(d)'
  BY <1>i, ThreadNames, LockNames DEF DevInv, MainKicks, InLoop, ToKick, Running, counts,
     HandleInv, Unstarted, NoTransport, Registering, Unregistering
<1>2. LifeInv(d)'
  BY <1>i, ThreadNames, LockNames DEF DevInv, RPc, WPc, TypeInv, Handle, MainKicks, InLoop, ToKick,
     Running, LifeInv, Unstarted, NoTransport, Listing, MainKicking, Registering, Unregistering,
     PollHas, LockInv, Counted
<1>3. UrbInv(d)'
  BY <1>i DEF DevInv, RPc, WPc, RUrb, WUrb, MainKicks, InLoop, UrbInv, Reaped
<1>4. HonestInv(d)'
  BY <1>i, LockNames DEF DevInv, RPc, WPc, RUrb, WUrb, MainKicks, InLoop, counts, HandleInv,
     UrbInv, Reaped, HonestInv
<1>5. MarkInv(d)'
  BY <1>i, LockNames DEF DevInv, MainKicks, InLoop, world, locks, MarkInv, Looked, Judging, PollHas
<1>6. PacketInv(d)'
  BY <1>i, ThreadNames, LockNames DEF DevInv, RPc, WPc, RUrb, WUrb, MainKicks, InLoop, world,
     locks, counts, HandleInv, Looked, Judging, PacketInv, Spared, MainKicking, Listing, LockInv
<1> QED
  BY <1>t, <1>l, <1>o, <1>1, <1>2, <1>3, <1>4, <1>5, <1>6, Frame DEF IInv, DevInv

\* The main thread has write_msg_lock_ and kicks.
LEMMA MainKickedStep == ASSUME IInv, NEW d \in Devices, MainKicked(d) PROVE IInv'
<1>i. TypeInv /\ LockInv /\ DevInv(d)
  BY DEF IInv
<1>k. KickMade(d) /\ SignalMade(d, th')
  BY <1>i, KickEffect, SignalEffect DEF MainKicked
<1>p. \A x \in Threads : x[2] # d \/ x = Writer(d) => th'[x] = th[x]
  BY <1>k, ThreadNames DEF SignalMade
<1>q. RPc(d)' = RPc(d) \/ (RPc(d) = "ioctl" /\ RPc(d)' = "got")
  BY <1>k DEF SignalMade, RPc
<1>w. WPc(d)' = WPc(d)
  BY <1>k DEF SignalMade, WPc
<1>t. TypeInv'
  BY <1>i, <1>k, TransportTypes, StateTypes DEF TypeInv, KickMade, SignalMade, MainKicked, MayKick,
     Running, world, locks, counts
<1>o. \A e \in Devices \ {d} : Same(e) /\ PollSame(e) /\ MainSame(e)
  BY <1>i, <1>k DEF Same, PollSame, MainSame, TypeInv, LockInv, Listing, MainKicking, Registering,
     Unregistering, PollHas, Looked, Judging, Spared, PollState, MainState, KickMade, SignalMade,
     MainKicked, world, locks, counts
<1>c. \A x \in Threads : th'[x].pc = "kick" <=> th[x].pc = "kick"
  BY <1>p, <1>q, ThreadNames DEF RPc
<1>l. LockInv'
  BY <1>i, <1>c, <1>w, <1>o, LockNames DEF LockInv, Same, WPc, TypeInv, PollState, MainState,
     MainKicked, MayKick, Running, world
<1>1. HandleInv(d)'
  BY <1>i, <1>k, LockNames DEF DevInv, MainKicked, MayKick, KickMade, SignalMade, Busy, LifeInv,
     HandleInv, Unstarted, NoTransport, Listing, MainKicking, Registering, Unregistering, PollHas,
     LockInv
<1>2. LifeInv(d)'
  BY <1>i, <1>k, LockNames DEF DevInv, RPc, WPc, MainKicked, MayKick, KickMade, SignalMade,
     LifeInv, Unstarted, NoTransport, Listing, MainKicking, Registering, Unregistering, PollHas,
     LockInv, Counted
<1>3. UrbInv(d)'
  BY <1>i, <1>k, LockNames DEF DevInv, RPc, WPc, RUrb, WUrb, KickMade, SignalMade, Busy, HandleInv,
     UrbInv, Reaped
<1>4. HonestInv(d)'
  BY <1>i, <1>k, LockNames DEF DevInv, RUrb, WUrb, MainKicked, MayKick, locks, counts, KickMade,
     SignalMade, Busy, HandleInv, LifeInv, Unstarted, UrbInv, Reaped, HonestInv
<1>5. MarkInv(d)'
  BY <1>i, <1>k, LockNames DEF DevInv, MainKicked, MayKick, Running, world, KickMade, SignalMade,
     MarkInv, Looked, Judging, PollHas, Registering, LockInv
<1>6. PacketInv(d)'
  BY <1>i, <1>k, LockNames DEF DevInv, RPc, WPc, RUrb, WUrb, MainKicked, MayKick, Running, world,
     locks, counts, KickMade, SignalMade, Busy, HandleInv, LifeInv, Unstarted, UrbInv, Reaped,
     HonestInv, MarkInv, Looked, Judging, PacketInv, Spared, MainKicking, Listing, LockInv
<1> QED
  BY <1>t, <1>l, <1>o, <1>1, <1>2, <1>3, <1>4, <1>5, <1>6, Frame DEF IInv, DevInv

\* kick_all_transports at exit: a transport already kicked.
LEMMA ExitSkipsStep == ASSUME IInv, NEW d \in Devices, ExitSkips(d) PROVE IInv'
<1>i. TypeInv /\ LockInv /\ DevInv(d)
  BY DEF IInv
<1>t. TypeInv'
  BY <1>i, ThreadNames, HandleTypes, TransportTypes, ThreadTypes, StateTypes DEF TypeInv, Pcs,
     Urbs, ExitSkips, ToKick, Running, world, locks, counts
<1>l. LockInv'
  BY <1>i, ThreadNames, LockNames DEF LockInv, WPc, TypeInv, Thread, PollState, MainState,
     ExitSkips, ToKick, Running, world, locks, counts
<1>o. \A e \in Devices \ {d} : Same(e) /\ PollSame(e) /\ MainSame(e)
  BY DEF Same, PollSame, MainSame, Listing, MainKicking, Registering, Unregistering, PollHas,
     Looked, Judging, Spared, ExitSkips, ToKick, Running, world, locks, counts
<1>1. HandleInv(d)'
  BY <1>i, ThreadNames, LockNames DEF DevInv, RPc, WPc, RUrb, WUrb, ExitSkips, ToKick, locks,
     counts, HandleInv, Unstarted, NoTransport, Listing, MainKicking, Registering, Unregistering,
     PollHas
<1>2. LifeInv(d)'
  BY <1>i, ThreadNames, LockNames DEF DevInv, RPc, WPc, RUrb, WUrb, ExitSkips, ToKick, locks,
     counts, HandleInv, LifeInv, Unstarted, NoTransport, Listing, MainKicking, Registering,
     Unregistering
<1>3. UrbInv(d)'
  BY <1>i DEF DevInv, RPc, WPc, RUrb, WUrb, ExitSkips, ToKick, Unstarted, UrbInv, Reaped
<1>4. HonestInv(d)'
  BY <1>i DEF DevInv, RPc, WPc, RUrb, WUrb, ExitSkips, ToKick, locks, counts, Reaped, HonestInv
<1>5. MarkInv(d)'
  BY <1>i DEF DevInv, ExitSkips, ToKick, Running, world, HandleInv, MarkInv, Looked, Judging
<1>6. PacketInv(d)'
  BY <1>i, ThreadNames, LockNames DEF DevInv, RPc, WPc, RUrb, WUrb, TypeInv, Handle, Transport,
     Thread, ExitSkips, ToKick, Running, world, locks, counts, HandleInv, LifeInv, Unstarted,
     UrbInv, Judging, PacketInv, Spared, MainKicking, Listing, LockInv
<1> QED
  BY <1>t, <1>l, <1>o, <1>1, <1>2, <1>3, <1>4, <1>5, <1>6, Frame DEF IInv, DevInv

\* kick_all_transports at exit kicks under write_msg_lock_.
LEMMA ExitKicksStep == ASSUME IInv, NEW d \in Devices, ExitKicks(d) PROVE IInv'
<1>i. TypeInv /\ LockInv /\ DevInv(d)
  BY DEF IInv
<1>k. KickMade(d) /\ SignalMade(d, th')
  BY <1>i, KickEffect, SignalEffect DEF ExitKicks
<1>p. \A x \in Threads : x[2] # d \/ x = Writer(d) => th'[x] = th[x]
  BY <1>k, ThreadNames DEF SignalMade
<1>q. RPc(d)' = RPc(d) \/ (RPc(d) = "ioctl" /\ RPc(d)' = "got")
  BY <1>k DEF SignalMade, RPc
<1>w. WPc(d)' = WPc(d)
  BY <1>k DEF SignalMade, WPc
<1>t. TypeInv'
  BY <1>i, <1>k, TransportTypes, StateTypes DEF TypeInv, KickMade, SignalMade, ExitKicks, ToKick,
     MayKick, Running, world, locks, counts
<1>o. \A e \in Devices \ {d} : Same(e) /\ PollSame(e) /\ MainSame(e)
  BY <1>i, <1>k DEF Same, PollSame, MainSame, TypeInv, LockInv, Listing, MainKicking, Registering,
     Unregistering, PollHas, Looked, Judging, Spared, PollState, MainState, KickMade, SignalMade,
     ExitKicks, Running, world, locks, counts
<1>c. \A x \in Threads : th'[x].pc = "kick" <=> th[x].pc = "kick"
  BY <1>p, <1>q, ThreadNames DEF RPc
<1>l. LockInv'
  BY <1>i, <1>c, <1>w, <1>o DEF LockInv, Same, WPc, TypeInv, ExitKicks, ToKick, world, locks
<1>1. HandleInv(d)'
  BY <1>i, <1>k, LockNames DEF DevInv, ExitKicks, ToKick, counts, KickMade, LifeInv, HandleInv,
     Unstarted, NoTransport, Listing, MainKicking, Registering, Unregistering, PollHas, LockInv
<1>2. LifeInv(d)'
  BY <1>i, <1>k, LockNames DEF DevInv, RPc, WPc, RUrb, WUrb, ExitKicks, ToKick, counts, KickMade,
     SignalMade, Busy, HandleInv, LifeInv, Unstarted, NoTransport, Listing, MainKicking, Counted
<1>3. UrbInv(d)'
  BY <1>i, <1>k, LockNames DEF DevInv, RPc, WPc, RUrb, WUrb, counts, KickMade, SignalMade, Busy,
     Unstarted, UrbInv, Reaped
<1>4. HonestInv(d)'
  BY <1>i, <1>k, LockNames DEF DevInv, RUrb, WUrb, ExitKicks, ToKick, counts, KickMade, SignalMade,
     Busy, HandleInv, LifeInv, Unstarted, UrbInv, Reaped, HonestInv
<1>5. MarkInv(d)'
  BY <1>i, <1>k, LockNames DEF DevInv, ExitKicks, ToKick, world, locks, counts, KickMade,
     HandleInv, MarkInv, Looked, Judging, PollHas, Registering
<1>6. PacketInv(d)'
  BY <1>i, <1>k, LockNames DEF DevInv, RPc, WPc, RUrb, WUrb, ExitKicks, ToKick, MayKick, Running,
     world, locks, counts, KickMade, SignalMade, Busy, HandleInv, LifeInv, Unstarted, UrbInv,
     Reaped, HonestInv, MarkInv, Looked, Judging, PacketInv, Spared, MainKicking, Listing, LockInv
<1> QED
  BY <1>t, <1>l, <1>o, <1>1, <1>2, <1>3, <1>4, <1>5, <1>6, Frame DEF IInv, DevInv

\* usb_kick of a read-only handle at exit: it waits for transport_lock, which the
\* main thread has.
LEMMA ExitKicksReadOnlyStep == ASSUME IInv, NEW d \in Devices, ExitKicksReadOnly(d) PROVE IInv'
<1>i. TypeInv /\ LockInv /\ DevInv(d)
  BY DEF IInv
<1>t. TypeInv'
  BY <1>i, ThreadNames, HandleTypes, TransportTypes, ThreadTypes, StateTypes DEF TypeInv, Pcs,
     Urbs, ExitKicksReadOnly, ToKick, UsbKickReadOnly, Running, world, locks, counts
<1>l. LockInv'
  BY <1>i DEF LockInv, WPc, ExitKicksReadOnly
<1>o. \A e \in Devices \ {d} : Same(e) /\ PollSame(e) /\ MainSame(e)
  BY LockNames DEF Same, PollSame, MainSame, Listing, MainKicking, Registering, Unregistering,
     PollHas, Looked, Judging, Spared, ExitKicksReadOnly, ToKick, UsbKickReadOnly, Running, world,
     locks, counts
<1>1. HandleInv(d)'
  BY <1>i, ThreadNames, LockNames DEF DevInv, ExitKicksReadOnly, ToKick, UsbKickReadOnly, Running,
     counts, HandleInv, Unstarted, NoTransport, Registering, Unregistering
<1>2. LifeInv(d)'
  BY <1>i, ThreadNames, LockNames DEF DevInv, RPc, WPc, RUrb, WUrb, ExitKicksReadOnly, ToKick,
     UsbKickReadOnly, Running, counts, HandleInv, LifeInv, Unstarted, NoTransport, Listing,
     MainKicking, Registering
<1>3. UrbInv(d)'
  BY <1>i DEF DevInv, RPc, WPc, RUrb, WUrb, ExitKicksReadOnly, ToKick, UsbKickReadOnly, Running,
     UrbInv, Reaped
<1>4. HonestInv(d)'
  BY <1>i, ThreadNames, LockNames DEF DevInv, RPc, WPc, RUrb, WUrb, ExitKicksReadOnly, ToKick,
     UsbKickReadOnly, Running, counts, HandleInv, UrbInv, Reaped, HonestInv
<1>5. MarkInv(d)'
  BY <1>i, LockNames DEF DevInv, ExitKicksReadOnly, ToKick, UsbKickReadOnly, Running, world, locks,
     MarkInv, Looked, Judging, PollHas
<1>6. PacketInv(d)'
  BY <1>i, ThreadNames, LockNames DEF DevInv, RPc, WPc, ExitKicksReadOnly, ToKick, UsbKickReadOnly,
     Running, counts, HandleInv, LifeInv, Unstarted, Looked, Judging, PacketInv, Spared
<1> QED
  BY <1>t, <1>l, <1>o, <1>1, <1>2, <1>3, <1>4, <1>5, <1>6, Frame DEF IInv, DevInv

-----------------------------------------------------------------------------
(* The devices, and the steps of no device *)

\* A device is plugged in.
LEMMA PlugStep == ASSUME IInv, NEW d \in Devices, Plug(d) PROVE IInv'
<1>i. TypeInv /\ LockInv /\ DevInv(d)
  BY DEF IInv
<1>t. TypeInv'
  <2>1. plug' \in [Devices -> BOOLEAN] /\ plugs' \in [Devices -> Nat]
    BY <1>i DEF Plug, TypeInv
  <2> QED BY <1>i, <2>1 DEF TypeInv, Plug, locks, counts
<1>l. LockInv'
  BY <1>i, ThreadNames, LockNames DEF LockInv, WPc, TypeInv, Thread, PollState, MainState, Plug,
     Running, world, locks, counts
<1>o. \A e \in Devices \ {d} : Same(e) /\ PollSame(e) /\ MainSame(e)
  BY DEF Same, PollSame, MainSame, Listing, MainKicking, Registering, Unregistering, PollHas,
     Looked, Judging, Spared, Plug, Running, counts
<1>1. HandleInv(d)'
  BY <1>i, ThreadNames, LockNames DEF DevInv, RPc, WPc, RUrb, WUrb, Plug, Running, counts,
     HandleInv, Listing, MainKicking, Registering, Unregistering, PollHas, LockInv
<1>2. LifeInv(d)'
  BY <1>i, ThreadNames, LockNames DEF DevInv, RPc, WPc, Plug, Running, counts, HandleInv, LifeInv,
     Unstarted, NoTransport, Listing, MainKicking, Registering, Unregistering, PollHas
<1>3. UrbInv(d)'
  BY <1>i DEF DevInv, RPc, WPc, RUrb, WUrb, Plug, Running, UrbInv, Reaped
<1>4. HonestInv(d)'
  BY <1>i DEF DevInv, RPc, WPc, RUrb, WUrb, Plug, Running, counts, HandleInv, HonestInv
<1>5. MarkInv(d)'
  BY DEF MainState, Plug, Running, world, locks, counts, HandleInv, MarkInv, Looked, Judging,
     PollHas, Registering, LockInv
<1>6. PacketInv(d)'
  BY <1>i, ThreadNames, LockNames DEF DevInv, RPc, WPc, Plug, Running, counts, HandleInv,
     PacketInv, Spared
<1> QED
  BY <1>t, <1>l, <1>o, <1>1, <1>2, <1>3, <1>4, <1>5, <1>6, Frame DEF IInv, DevInv

\* A device is unplugged.
LEMMA UnplugStep == ASSUME IInv, NEW d \in Devices, Unplug(d) PROVE IInv'
<1>i. TypeInv /\ LockInv /\ DevInv(d)
  BY DEF IInv
<1>t. TypeInv'
  BY <1>i, ThreadNames, HandleTypes, TransportTypes, ThreadTypes, StateTypes DEF TypeInv, Pcs,
     Urbs, Unplug, Busy, Running, world, locks, counts
<1>l. LockInv'
  BY <1>i, ThreadNames, LockNames DEF LockInv, WPc, TypeInv, Thread, PollState, MainState, Unplug,
     Busy, Running, world, locks, counts
<1>o. \A e \in Devices \ {d} : Same(e) /\ PollSame(e) /\ MainSame(e)
  BY ThreadNames, LockNames DEF Same, PollSame, MainSame, Listing, MainKicking, Registering,
     Unregistering, PollHas, Looked, Judging, Spared, Unplug, Busy, locks, counts
<1>1. HandleInv(d)'
  BY <1>i, ThreadNames, LockNames DEF DevInv, RPc, WPc, RUrb, WUrb, Unplug, Busy, locks, counts,
     HandleInv, Unstarted, NoTransport, Listing, MainKicking, Registering, Unregistering, PollHas
<1>2. LifeInv(d)'
  BY <1>i, ThreadNames, LockNames DEF DevInv, RPc, WPc, RUrb, WUrb, Unplug, Busy, locks, counts,
     HandleInv, LifeInv, Unstarted, NoTransport, Listing, MainKicking, Registering, Unregistering
<1>3. UrbInv(d)'
  BY <1>i, ThreadNames DEF DevInv, RPc, WPc, RUrb, WUrb, Unplug, Busy, Unstarted, UrbInv, Reaped
<1>4. HonestInv(d)'
  BY <1>i, ThreadNames DEF DevInv, RPc, WPc, RUrb, WUrb, Unplug, Busy, locks, counts, Reaped,
     HonestInv
<1>5. MarkInv(d)'
  BY <1>i DEF DevInv, Unplug, HandleInv, MarkInv, Looked, Judging
<1>6. PacketInv(d)'
  BY <1>i, ThreadNames, LockNames DEF DevInv, RPc, WPc, RUrb, WUrb, Unplug, Busy, locks, counts,
     Judging, PacketInv, Spared, MainKicking
<1> QED
  BY <1>t, <1>l, <1>o, <1>1, <1>2, <1>3, <1>4, <1>5, <1>6, Frame DEF IInv, DevInv

\* A transfer ends in the kernel.
LEMMA TransferStep == ASSUME IInv, NEW x \in Threads, NEW d \in Devices, d = x[2],
                             NEW how \in {"done", "error"}, Transfer(x, how) PROVE IInv'
<1>i. TypeInv /\ LockInv /\ DevInv(d)
  BY DEF IInv
<1>t. TypeInv'
  <2>1. urb' \in [Threads -> Urbs]
    BY <1>i DEF Transfer, TypeInv, Urbs
  <2>2. took' \in [Devices -> Nat]
    BY <1>i DEF Transfer, TypeInv
  <2> QED BY <1>i, <2>1, <2>2 DEF TypeInv, Transfer, world, locks
<1>l. LockInv'
  BY <1>i, ThreadNames, LockNames DEF LockInv, WPc, TypeInv, Thread, PollState, MainState,
     Transfer, Running, world, locks, counts
<1>o. \A e \in Devices \ {d} : Same(e) /\ PollSame(e) /\ MainSame(e)
  BY ThreadNames, LockNames DEF Same, PollSame, MainSame, Listing, MainKicking, Registering,
     Unregistering, PollHas, Looked, Judging, Spared, Transfer, Running, world, locks
<1>1. HandleInv(d)'
  BY <1>i, ThreadNames, LockNames DEF DevInv, RUrb, WUrb, Transfer, Running, counts, HandleInv,
     Unstarted, NoTransport, Registering, Unregistering
<1>2. LifeInv(d)'
  BY <1>i, ThreadNames, LockNames DEF DevInv, RPc, WPc, RUrb, WUrb, Transfer, Running, LifeInv,
     Unstarted, NoTransport, Listing, MainKicking, Registering
<1>3. UrbInv(d)'
  BY <1>i DEF DevInv, RPc, WPc, RUrb, WUrb, Transfer, Running, UrbInv, Reaped
<1>4. HonestInv(d)'
  BY <1>i, ThreadNames, LockNames DEF DevInv, RPc, WPc, RUrb, WUrb, TypeInv, Handle, Transport,
     Thread, Transfer, Running, UrbInv, Reaped, HonestInv
<1>5. MarkInv(d)'
  BY <1>i DEF DevInv, Transfer, Running, world, locks, MarkInv, Looked, Judging, PollHas
<1>6. PacketInv(d)'
  BY <1>i, ThreadNames, LockNames DEF DevInv, RPc, WPc, RUrb, WUrb, Transfer, Running, world,
     locks, PacketInv, Spared, MainKicking, Listing
<1> QED
  BY <1>t, <1>l, <1>o, <1>1, <1>2, <1>3, <1>4, <1>5, <1>6, Frame DEF IInv, DevInv

\* The poll thread takes g_usb_handles_mutex to kick.
LEMMA PollKicksStep == ASSUME IInv, PollKicks PROVE IInv'
<1>i. TypeInv /\ LockInv
  BY DEF IInv
<1>u. /\ UNCHANGED <<plug, plugs, hd, urb, tr, old, th, main, tl, hl, wl, took, wrote, kicks>>
      /\ poll.pc = "scan" /\ poll.todo = {} /\ gl' = Poll
      /\ poll' = [pc |-> "kick", dev |-> {}, todo |-> {d \in Devices : hd[d].live}]
  BY DEF PollKicks, world, counts
<1>t. TypeInv'
  BY <1>i, <1>u, StateTypes DEF TypeInv
<1>l. LockInv'
  BY <1>i, <1>u, LockNames DEF LockInv, WPc
<1>d. ASSUME NEW d \in Devices PROVE DevInv(d)'
  <2>i. DevInv(d)
    BY DEF IInv
  <2>e. RPc(d)' = RPc(d) /\ WPc(d)' = WPc(d) /\ RUrb(d)' = RUrb(d) /\ WUrb(d)' = WUrb(d)
        /\ (Unstarted(d)' <=> Unstarted(d))
    BY <1>u DEF RPc, WPc, RUrb, WUrb, Unstarted
  <2>1. HandleInv(d)'
    BY <1>u, <2>i, <2>e DEF DevInv, HandleInv, Registering, Unregistering, Listing, MainKicking,
       PollHas
  <2>2. LifeInv(d)'
    BY <1>u, <2>i, <2>e DEF DevInv, LifeInv, Listing, MainKicking
  <2>3. UrbInv(d)' /\ HonestInv(d)'
    BY <1>u, <2>i, <2>e DEF DevInv, UrbInv, HonestInv, Reaped
  <2>5. MarkInv(d)'
    BY <1>u, <2>i DEF DevInv, MarkInv, Looked, Judging
  <2>6. PacketInv(d)'
    BY <1>u, <2>i, <2>e DEF DevInv, PacketInv, Spared, MainKicking
  <2> QED BY <2>1, <2>2, <2>3, <2>5, <2>6 DEF DevInv
<1> QED BY <1>t, <1>l, <1>d DEF IInv

\* The poll thread sleeps: no handle is left to judge.
LEMMA PollSleepsStep == ASSUME IInv, PollSleeps PROVE IInv'
<1>i. TypeInv /\ LockInv
  BY DEF IInv
<1>u. /\ UNCHANGED <<plug, plugs, hd, urb, tr, old, th, main, tl, hl, wl, took, wrote, kicks>>
      /\ gl' = Free /\ poll' = [pc |-> "scan", dev |-> {}, todo |-> Devices]
  BY DEF PollSleeps, world, counts
<1>t. TypeInv'
  BY <1>i, <1>u, StateTypes DEF TypeInv
<1>l. LockInv'
  BY <1>i, <1>u, LockNames DEF LockInv, WPc
<1>o. \A e \in Devices : Same(e) /\ PollSame(e) /\ MainSame(e)
  BY <1>u DEF Same, PollSame, MainSame, Registering, Unregistering, PollHas, Looked, Judging,
     Listing, MainKicking, Spared
<1> QED BY <1>t, <1>l, <1>o, Frame DEF IInv

\* The server exits.
LEMMA MainExitsStep == ASSUME IInv, MainExits PROVE IInv'
<1>i. TypeInv /\ LockInv
  BY DEF IInv
<1>u. /\ UNCHANGED <<plug, plugs, hd, urb, tr, old, th, poll, gl, hl, wl, took, wrote, kicks>>
      /\ main.pc = "loop" /\ tl = Free /\ tl' = Main
      /\ main' = [pc |-> "exit", todo |-> {d \in Devices : tr[d].st = "listed"}]
  BY DEF MainExits, InLoop, world, counts
<1>t. TypeInv'
  BY <1>i, <1>u, StateTypes DEF TypeInv
<1>l. LockInv'
  BY <1>i, <1>u, LockNames DEF LockInv, WPc
<1>d. ASSUME NEW d \in Devices PROVE DevInv(d)'
  <2>i. DevInv(d)
    BY DEF IInv
  <2>e. RPc(d)' = RPc(d) /\ WPc(d)' = WPc(d) /\ RUrb(d)' = RUrb(d) /\ WUrb(d)' = WUrb(d)
        /\ (Unstarted(d)' <=> Unstarted(d))
    BY <1>u DEF RPc, WPc, RUrb, WUrb, Unstarted
  <2>1. HandleInv(d)'
    BY <1>u, <2>i, <2>e DEF DevInv, HandleInv, Registering, Unregistering, Listing, MainKicking,
       PollHas
  <2>2. LifeInv(d)'
    BY <1>u, <2>i, <2>e DEF DevInv, LifeInv, Listing, MainKicking
  <2>3. UrbInv(d)' /\ HonestInv(d)'
    BY <1>u, <2>i, <2>e DEF DevInv, UrbInv, HonestInv, Reaped
  <2>5. MarkInv(d)'
    BY <1>u, <2>i DEF DevInv, MarkInv, Looked, Judging
  <2>6. PacketInv(d)'
    <3>1. Spared(d)' => tr[d].st # "listed"
      BY <1>u DEF Spared
    <3>2. tr[d].st # "listed" => WPc(d) = "none"
      BY <1>i, <1>u, <2>i DEF TypeInv, Transport, DevInv, LifeInv, Listing, Unstarted
    <3> QED BY <1>u, <2>i, <2>e, <3>1, <3>2 DEF DevInv, PacketInv, MainKicking
  <2> QED BY <2>1, <2>2, <2>3, <2>5, <2>6 DEF DevInv
<1> QED BY <1>t, <1>l, <1>d DEF IInv

\* kick_all_transports has kicked them all.
LEMMA ExitEndsStep == ASSUME IInv, ExitEnds PROVE IInv'
<1>i. TypeInv /\ LockInv
  BY DEF IInv
<1>u. /\ UNCHANGED <<plug, plugs, hd, urb, tr, old, th, poll, gl, hl, wl, took, wrote, kicks>>
      /\ main.pc = "exit" /\ main.todo = {} /\ main' = [main EXCEPT !.pc = "exited"] /\ tl' = Free
  BY DEF ExitEnds, world, counts
<1>m. main' \in MainState /\ main'.pc = "exited"
  BY <1>i, <1>u, StateTypes DEF TypeInv, MainState
<1>t. TypeInv'
  BY <1>i, <1>u, <1>m DEF TypeInv
<1>l. LockInv'
  BY <1>i, <1>u, <1>m, LockNames DEF LockInv, WPc
<1>o. \A e \in Devices : Same(e) /\ PollSame(e) /\ MainSame(e)
  BY <1>u, <1>m DEF Same, PollSame, MainSame, Registering, Unregistering, PollHas, Looked, Judging,
     Listing, MainKicking, Spared
<1> QED BY <1>t, <1>l, <1>o, Frame DEF IInv

\* Nothing changes.
LEMMA StutterStep == ASSUME IInv, UNCHANGED vars PROVE IInv'
<1>1. UNCHANGED <<plug, plugs, hd, urb, tr, old, th, poll, main, tl, gl, hl, wl, took, wrote, kicks>>
  BY DEF vars, world, locks, counts
<1>2. TypeInv' /\ LockInv'
  BY <1>1 DEF IInv, TypeInv, LockInv, WPc
<1>o. \A e \in Devices : Same(e) /\ PollSame(e) /\ MainSame(e)
  BY <1>1 DEF Same, PollSame, MainSame, Registering, Unregistering, PollHas, Looked, Judging,
     Listing, MainKicking, Spared
<1> QED BY <1>2, <1>o, Frame DEF IInv

\* No handles at first.
LEMMA InitInv == Init => IInv
<1> SUFFICES ASSUME Init PROVE IInv
  OBVIOUS
<1>1. NoThread \in Thread /\ NoHandle \in Handle /\ NoTransport \in Transport
      /\ NoThread.pc = "none"
  BY HandleTypes, TransportTypes, ThreadTypes DEF NoThread, Pcs
<1>2. poll \in PollState /\ main \in MainState
  BY StateTypes DEF Init
<1>3. TypeInv
  BY <1>1, <1>2 DEF Init, TypeInv, Urbs
<1>4. \A x \in Threads : th[x] = NoThread /\ urb[x] = "none"
  BY DEF Init
<1>5. LockInv
  BY <1>1, <1>4, ThreadNames, LockNames DEF Init, LockInv, WPc
<1>6. ASSUME NEW d \in Devices PROVE DevInv(d)
  <2>1. RPc(d) = "none" /\ WPc(d) = "none" /\ RUrb(d) = "none" /\ WUrb(d) = "none"
    BY <1>1, <1>4, ThreadNames DEF RPc, WPc, RUrb, WUrb
  <2>2. hd[d] = NoHandle /\ tr[d] = NoTransport /\ took[d] = 0 /\ wrote[d] = 0
    BY DEF Init
  <2>3. ~Registering(d) /\ ~Unregistering(d) /\ ~PollHas(d) /\ ~Listing(d) /\ ~MainKicking(d)
        /\ ~Spared(d)
    BY DEF Init, Registering, Unregistering, PollHas, Listing, MainKicking, Spared
  <2>4. HandleInv(d)
    BY <2>1, <2>2, <2>3 DEF HandleInv, NoHandle
  <2>5. LifeInv(d)
    BY <2>1, <2>2, <2>3 DEF LifeInv, NoHandle, NoTransport, Counted
  <2>6. UrbInv(d) /\ HonestInv(d) /\ MarkInv(d) /\ PacketInv(d)
    BY <2>1, <2>2, <2>3 DEF UrbInv, Reaped, HonestInv, MarkInv, PacketInv, NoHandle, NoTransport
  <2> QED BY <2>4, <2>5, <2>6 DEF DevInv
<1> QED BY <1>3, <1>5, <1>6 DEF IInv

-----------------------------------------------------------------------------
(* What TypeOK says beyond IInv *)

\* What a thread brought back it keeps only until it looks at it, and the lock of
\* a writer is the writer's.
TidyInv ==
    /\ \A x \in Threads : th[x].res = "none" \/ th[x].pc = "got"
    /\ \A d \in Devices : wl[d] \in {Free, Writer(d)}

\* A thread that goes on has looked at what it brought back.
LEMMA GoesTidy ==
    ASSUME TypeInv, TidyInv, NEW x \in Threads, NEW pc \in Pcs, th[x].pc # "got", th' = Goes(x, pc)
    PROVE  \A y \in Threads : th'[y].res = "none" \/ th'[y].pc = "got"
BY GoesEffect DEF TidyInv

\* Every step keeps TidyInv.
LEMMA TidyStep ==
    ASSUME IInv, TidyInv, Next
    PROVE  TidyInv'
<1> DEFINE Back == \A y \in Threads : th'[y].res = "none" \/ th'[y].pc = "got"
           Own == \A d \in Devices : wl'[d] \in {Free, Writer(d)}
<1>i. TypeInv /\ \A d \in Devices : DevInv(d)
  BY DEF IInv
<1>s. ASSUME UNCHANGED th PROVE Back
  BY <1>s DEF TidyInv
<1>w. ASSUME UNCHANGED wl PROVE Own
  BY <1>w DEF TidyInv
<1>g. \A d \in Devices : SignalMade(d, UsbKickThread(d))
  BY <1>i, SignalEffect
<1>k. \A d \in Devices, y \in Threads : UsbKickThread(d)[y].res = "none"
      \/ UsbKickThread(d)[y].pc = "got"
  BY <1>i, ThreadNames DEF UsbKickThread, TidyInv, TypeInv
<1>q. ASSUME NEW d \in Devices, ReadQuits(d) PROVE Back
  BY <1>i, <1>q, ThreadNames DEF ReadQuits, TidyInv, TypeInv
<1>f. ASSUME NEW d \in Devices, WriteFails(d), th[Writer(d)].pc \in {"write", "wait"} PROVE Back
      /\ Own
  <2>1. Back
    BY <1>i, <1>f, GoesTidy, ThreadNames DEF WriteFails, Pcs
  <2>2. Own
    BY <1>i, <1>f DEF WriteFails, TidyInv, TypeInv
  <2> QED BY <2>1, <2>2
<1>u. ASSUME NEW x \in Threads, NEW T \in [Threads -> Thread], th' = [T EXCEPT ![x].pc = "unref"],
             T[x].pc # "got", \A y \in Threads : T[y].res = "none" \/ T[y].pc = "got"
      PROVE  Back
  BY <1>u DEF Thread
<1> HIDE DEF Back, Own
<1>1. CASE PollThread
  <2>1. ASSUME NEW d \in Devices, PollKicksOne(d) PROVE TidyInv'
    BY <1>k, <1>w, <2>1 DEF PollKicksOne, locks, TidyInv, Back, Own
  <2>2. CASE \A d \in Devices : ~PollKicksOne(d)
    <3>1. UNCHANGED <<th, wl>>
      BY <1>1, <2>2 DEF PollThread, PollKicks, PollSleeps, PollLooks, PollOpens, PollRegisters,
         PollSpares, PollKicksReadOnly, PollUnregisters, locks
    <3> QED BY <1>s, <1>w, <3>1 DEF TidyInv, Back, Own
  <2> QED BY <2>1, <2>2
<1>2. CASE MainThread \/ MainExits \/ \E d \in Devices : MainKicks(d) \/ Plug(d) \/ Unplug(d)
  <2>1. ASSUME NEW d \in Devices, MainKicked(d) \/ ExitKicks(d) PROVE TidyInv'
    BY <1>k, <1>w, <2>1 DEF MainKicked, ExitKicks, locks, TidyInv, Back, Own
  <2>2. ASSUME NEW d \in Devices, MainStarts(d) PROVE TidyInv'
    <3>1. CASE UNCHANGED th
      BY <1>s, <1>w, <2>2, <3>1 DEF MainStarts, locks, TidyInv, Back, Own
    <3>2. CASE th' = [th EXCEPT ![Reader(d)].pc = "read", ![Writer(d)].pc = "idle"]
      <4>1. Unstarted(d)
        BY <1>i, <2>2 DEF MainStarts, InLoop, DevInv, LifeInv, Listing
      <4>2. th[Reader(d)].res = "none" /\ th[Writer(d)].res = "none"
        BY <4>1, ThreadNames DEF Unstarted, RPc, WPc, TidyInv
      <4>3. /\ th'[Reader(d)].res = "none" /\ th'[Writer(d)].res = "none"
            /\ \A y \in Threads \ {Reader(d), Writer(d)} : th'[y] = th[y]
        BY <1>i, <3>2, <4>2, ThreadNames DEF TypeInv, Thread
      <4>4. Back
        BY <4>3 DEF TidyInv, Back
      <4> QED BY <1>w, <2>2, <4>4 DEF MainStarts, locks, TidyInv, Back, Own
    <3> QED BY <2>2, <3>1, <3>2 DEF MainStarts
  <2>3. CASE \A d \in Devices : ~MainKicked(d) /\ ~ExitKicks(d) /\ ~MainStarts(d)
    <3>1. UNCHANGED <<th, wl>>
      BY <1>2, <2>3 DEF MainThread, ExitEnds, MainLists, MainSyncs, MainRemoves, ExitSkips,
         ExitKicksReadOnly, MainExits, MainKicks, Plug, Unplug, locks
    <3> QED BY <1>s, <1>w, <3>1 DEF TidyInv, Back, Own
  <2> QED BY <2>1, <2>2, <2>3
<1>3. ASSUME NEW d \in Devices, ReadThread(d) PROVE TidyInv'
  <2>1. Own
    BY <1>w, <1>3 DEF ReadThread, ReadSubmits, ReadBlocks, ReadReaps, ReadReturns, locks
  <2>2. CASE ReadSubmits(d)
    BY <1>i, <1>q, <2>1, <2>2, GoesTidy, ThreadNames DEF ReadSubmits, Pcs, TidyInv, Back, Own
  <2>3. CASE ReadBlocks(d)
    BY <1>i, <2>1, <2>3, GoesTidy, ThreadNames DEF ReadBlocks, Pcs, TidyInv, Back, Own
  <2>4. ASSUME NEW k \in {"reader", "writer"}, ReadReaps(d, k) PROVE TidyInv'
    BY <1>i, <2>1, <2>4, ThreadNames DEF ReadReaps, TidyInv, TypeInv, Own
  <2>5. ASSUME NEW timeout \in BOOLEAN, ReadReturns(d, timeout) PROVE TidyInv'
    <3>1. CASE ReadQuits(d)
      BY <1>q, <2>1, <3>1 DEF TidyInv, Back, Own
    <3>2. CASE ~ReadQuits(d)
      <4>1. PICK pc \in {"read", "unlocked"} : th' = [th EXCEPT ![Reader(d)] = [pc |-> pc, res |-> "none"]]
        BY <2>5, <3>2 DEF ReadReturns
      <4> QED BY <1>i, <2>1, <4>1, ThreadNames DEF TidyInv, TypeInv, Own
    <3> QED BY <3>1, <3>2
  <2> QED BY <1>3, <2>2, <2>3, <2>4, <2>5 DEF ReadThread
<1>4. ASSUME NEW d \in Devices, WriteThread(d) \/ WriteBegins(d) PROVE TidyInv'
  <2>1. CASE WriteBegins(d)
    <3>1. Back
      BY <1>i, <2>1, GoesTidy, ThreadNames DEF WriteBegins, Pcs, Back
    <3>2. Own
      BY <1>i, <2>1 DEF WriteBegins, TidyInv, TypeInv, Own
    <3> QED BY <3>1, <3>2 DEF TidyInv, Back, Own
  <2>2. CASE WriteSubmits(d)
    <3>1. CASE WriteFails(d)
      BY <1>f, <2>2, <3>1 DEF WriteSubmits, TidyInv, Back, Own
    <3>2. CASE th' = Goes(Writer(d), "wait") /\ UNCHANGED wl
      BY <1>i, <1>w, <2>2, <3>2, GoesTidy, ThreadNames DEF WriteSubmits, Pcs, TidyInv, Back, Own
    <3> QED BY <2>2, <3>1, <3>2 DEF WriteSubmits
  <2>3. CASE WriteTimesOut(d)
    BY <1>f, <2>3 DEF WriteTimesOut, TidyInv, Back, Own
  <2>4. CASE WriteWakes(d)
    <3>1. CASE WriteFails(d)
      BY <1>f, <2>4, <3>1 DEF WriteWakes, TidyInv, Back, Own
    <3>2. CASE Succeeded(d)
      <4>1. PICK pc \in {"write", "idle"} : th' = Goes(Writer(d), pc)
        BY <2>4, <3>2 DEF WriteWakes
      <4>2. Back
        BY <1>i, <2>4, <4>1, GoesTidy, ThreadNames DEF WriteWakes, Pcs, Back
      <4>3. Own
        BY <1>i, <2>4, <3>2 DEF WriteWakes, TidyInv, TypeInv, Own
      <4> QED BY <4>2, <4>3 DEF TidyInv, Back, Own
    <3> QED BY <2>4, <3>1, <3>2 DEF WriteWakes
  <2>5. CASE WriteQuits(d)
    BY <1>i, <1>w, <2>5, GoesTidy, ThreadNames DEF WriteQuits, locks, Pcs, TidyInv, Back, Own
  <2> QED BY <1>4, <2>1, <2>2, <2>3, <2>4, <2>5 DEF WriteThread
<1>5. ASSUME NEW x \in Threads,
             Leave(x) \/ \E how \in {"done", "error"} : Transfer(x, how) PROVE TidyInv'
  <2>1. Own
    BY <1>w, <1>5 DEF Leave, LeaveKicks, LeaveKicked, LeaveUnrefs, LeaveCloses, Transfer, locks
  <2>2. Back
    <3>1. CASE LeaveKicks(x)
      <4>1. PICK pc \in {"kick", "unref"} : th' = Goes(x, pc)
        BY <3>1 DEF LeaveKicks
      <4> QED BY <1>i, <3>1, <4>1, GoesTidy DEF LeaveKicks, Pcs, Back
    <3>2. CASE LeaveKicked(x)
      <4>1. x[2] \in Devices
        BY ThreadNames
      <4>2. UsbKickThread(x[2])[x].pc # "got" /\ UsbKickThread(x[2]) \in [Threads -> Thread]
        BY <1>g, <3>2, <4>1, ThreadNames DEF LeaveKicked, SignalMade, RPc
      <4> QED BY <1>k, <1>u, <3>2, <4>1, <4>2 DEF LeaveKicked
    <3>3. CASE LeaveCloses(x)
      BY <1>i, <3>3, GoesTidy DEF LeaveCloses, Pcs, Back
    <3>4. CASE \E how \in {"done", "error"} : Transfer(x, how)
      BY <1>s, <3>4 DEF Transfer
    <3>5. CASE LeaveUnrefs(x)
      <4>1. PICK pc \in {"close", "none"} : th' = Goes(x, pc)
        BY <3>5 DEF LeaveUnrefs
      <4> QED BY <1>i, <3>5, <4>1, GoesTidy DEF LeaveUnrefs, Pcs, Back
    <3> QED BY <1>5, <3>1, <3>2, <3>3, <3>4, <3>5 DEF Leave
  <2> QED BY <2>1, <2>2 DEF TidyInv, Back, Own
<1> QED BY <1>1, <1>2, <1>3, <1>4, <1>5 DEF Next

\* Every step keeps the inductive invariant.
LEMMA Inductive ==
    ASSUME IInv, [Next]_vars
    PROVE  IInv'
<1>1. CASE PollThread
  BY <1>1, PollKicksStep, PollSleepsStep, PollLooksStep, PollOpensStep, PollRegistersStep,
     PollSparesStep, PollKicksOneStep,
     PollKicksReadOnlyStep, PollUnregistersStep DEF PollThread
<1>2. CASE MainThread
  BY <1>2, ExitEndsStep, MainStartsStep, MainListsStep, MainSyncsStep, MainRemovesStep,
     MainKickedStep, ExitSkipsStep,
     ExitKicksStep, ExitKicksReadOnlyStep DEF MainThread
<1>3. CASE MainExits
  BY <1>3, MainExitsStep
<1>4. ASSUME NEW d \in Devices, ReadThread(d) PROVE IInv'
  BY <1>4, ReadSubmitsStep, ReadBlocksStep, ReadReapsStep, ReadReturnsStep DEF ReadThread
<1>5. ASSUME NEW d \in Devices, WriteThread(d) \/ WriteBegins(d) PROVE IInv'
  BY <1>5, WriteSubmitsStep, WriteTimesOutStep, WriteWakesStep, WriteQuitsStep,
     WriteBeginsStep DEF WriteThread
<1>6. ASSUME NEW d \in Devices, MainKicks(d) \/ Plug(d) \/ Unplug(d) PROVE IInv'
  BY <1>6, MainKicksStep, PlugStep, UnplugStep
<1>7. ASSUME NEW x \in Threads,
             Leave(x) \/ \E how \in {"done", "error"} : Transfer(x, how) PROVE IInv'
  <2>1. PICK d \in Devices : d = x[2]
    BY ThreadNames
  <2> QED BY <1>7, <2>1, LeaveKicksStep, LeaveKickedStep, LeaveUnrefsStep, LeaveClosesStep,
             TransferStep DEF Leave
<1>8. CASE UNCHANGED vars
  BY <1>8, StutterStep
<1> QED BY <1>1, <1>2, <1>3, <1>4, <1>5, <1>6, <1>7, <1>8 DEF Next

-----------------------------------------------------------------------------
(* The theorems *)

\* The inductive invariant holds in every reachable state.
THEOREM UsbInvariant == Spec => []IInv
BY InitInv, Inductive, PTL DEF Spec

\* Types of the handles, the transports, the threads and the locks.
THEOREM UsbTypes == Spec => []TypeOK
<1>1. Init => TidyInv
  BY ThreadNames DEF Init, TidyInv, NoThread
<1>2. ASSUME IInv, TidyInv, UNCHANGED vars PROVE TidyInv'
  BY <1>2 DEF TidyInv, vars, locks
<1>3. IInv /\ TidyInv /\ [Next]_vars => TidyInv'
  BY <1>2, TidyStep
<1>4. IInv /\ TidyInv => TypeOK
  <2> SUFFICES ASSUME IInv, TidyInv PROVE TypeOK
    OBVIOUS
  <2>1. TypeInv
    BY DEF IInv
  <2>2. poll.pc \in {"scan", "register", "kick", "unregister"} /\ poll.dev \subseteq Devices
        /\ poll.todo \subseteq Devices
    BY <2>1 DEF TypeInv, PollState
  <2>3. main.pc \in {"loop", "list", "kick", "exit", "relock", "exited"}
        /\ main.todo \subseteq Devices
    BY <2>1 DEF TypeInv, MainState
  <2>4. \A x \in Threads : th[x].pc \in Pcs /\ (th[x].res = "none" \/ th[x].pc = "got")
    BY <2>1 DEF TypeInv, Thread, TidyInv
  <2> QED BY <2>1, <2>2, <2>3, <2>4 DEF TypeOK, TypeInv, TidyInv, Pcs, Handle, Transport
<1> QED BY <1>1, <1>3, <1>4, UsbInvariant, PTL DEF Spec

\* No thread works on a usb_handle that usb_close has deleted: not the threads of
\* its transport, not the poll thread in kick_disconnected_devices, not whoever
\* kicks it.
THEOREM HandlesAlive == Spec => []HandleAlive
<1>1. IInv => HandleAlive
  <2> SUFFICES ASSUME IInv, NEW d \in Devices, ~hd[d].live
               PROVE  /\ \A x \in {Reader(d), Writer(d)} : th[x].pc = "none"
                      /\ ~(poll.pc \in {"kick", "unregister"} /\ d \in poll.todo \cup poll.dev)
                      /\ ~(main.pc = "kick" /\ d \in main.todo)
                      /\ tr[d].st \notin {"pending", "listed"}
    BY DEF HandleAlive
  <2> QED BY DEF IInv, DevInv, HandleInv, RPc, WPc, PollHas, MainKicking, NoTransport
<1> QED BY <1>1, UsbInvariant, PTL

\* usb_bulk_read and usb_bulk_write never submit an URB the kernel still has.
THEOREM UrbsFree == Spec => []UrbFree
<1>1. IInv => UrbFree
  <2> SUFFICES ASSUME IInv, NEW d \in Devices, NEW x \in Threads, x[2] = d,
                      th[x].pc \in {"read", "write"}, ~hd[d].dead
               PROVE  urb[x] = "none"
    BY DEF UrbFree
  <2>1. x = Reader(d) \/ x = Writer(d)
    BY ThreadNames
  <2> QED BY <2>1 DEF IInv, DevInv, LifeInv, UrbInv, RPc, WPc, RUrb, WUrb
<1> QED BY <1>1, UsbInvariant, PTL

\* What usb_bulk_write reports as written the device took, and it took at most
\* one transfer more.
THEOREM WritesHonest == Spec => []WriteHonest
<1>1. IInv => WriteHonest
  BY DEF IInv, DevInv, HonestInv, WriteHonest
<1> QED BY <1>1, UsbInvariant, PTL

\* A kick, on request or by kick_all_transports at exit, does not cut a packet in
\* two: atransport::Kick has write_msg_lock_.
THEOREM PacketsWhole == Spec => []WholePackets
<1>1. IInv => WholePackets
  <2> SUFFICES ASSUME IInv, NEW d \in Devices, hd[d].live, plug[d],
                      hd[d].dead \/ main.pc = "exited",
                      WPc(d) \in {"idle", "write", "wait"}
               PROVE  took[d] % 2 = 0
    BY DEF WholePackets, WPc
  <2> QED BY DEF IInv, DevInv, PacketInv, Spared
<1> QED BY <1>1, UsbInvariant, PTL
====
