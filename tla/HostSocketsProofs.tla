------------------------- MODULE HostSocketsProofs -------------------------
(***************************************************************************)
(* Proofs about HostSockets and the event loop it runs on.  IInv is the    *)
(* inductive invariant: CoreInv relates fdevents, asockets, their peers,   *)
(* smart sockets and trackers; RestType types what is left; ListenInv and  *)
(* UseInv relate listeners, asockets and smart sockets to transports;      *)
(* CreditInv is the flow control between the two ends of a local pair,     *)
(* with the callback that has queued a packet and still has to stop        *)
(* reading.  The lemmas on the event loop and on Effects say once what     *)
(* every callback relies on; then there is one lemma per action.           *)
(***************************************************************************)
EXTENDS HostSockets, TLAPS

-----------------------------------------------------------------------------
(* The event loop *)

\* What PendingInv says of one fdevent.
Sane(e) ==
    /\ e.pend <=> e.events # {}
    /\ e.pend => e.active
    /\ ~e.active => e.want = {}

\* A callback installs fdevents that are not installed and sets those that are.
Allowed(e, c) ==
    \/ c = Remove
    \/ \E w \in SUBSET Wanted : c = Set(w) /\ e.active
    \/ \E w \in SUBSET Wanted : c = Install(w) /\ ~e.active

\* fdevent_set: an active fdevent listens for w, keeps FDE_PENDING only with an event
\* that is still wanted, and is none the worse for it.
LEMMA SetToEffect ==
    ASSUME NEW e \in Fdevent, Sane(e), e.active, NEW w \in SUBSET Wanted
    PROVE  /\ SetTo(e, w) \in Fdevent /\ Sane(SetTo(e, w))
           /\ SetTo(e, w).active /\ SetTo(e, w).want = w
           /\ SetTo(e, w).pend => e.pend
<1>1. CASE e.want = w
  BY <1>1 DEF SetTo
<1>2. CASE e.want # w
  <2> DEFINE left == IF e.pend THEN e.events \cap w ELSE e.events
             f == [e EXCEPT !.want = w, !.events = left, !.pend = e.pend /\ left # {}]
  <2>1. SetTo(e, w) = f
    BY <1>2 DEF SetTo
  <2>2. left \in SUBSET Events
    BY DEF Fdevent, Events, Wanted
  <2>3. f \in Fdevent
    BY <2>2 DEF Fdevent
  <2>4. f.want = w /\ f.active = e.active /\ f.events = left /\ (f.pend <=> e.pend /\ left # {})
    BY DEF Fdevent
  <2>5. ~e.pend => left = {}
    BY DEF Sane
  <2> HIDE DEF f, left
  <2> QED BY <2>1, <2>3, <2>4, <2>5 DEF Sane
<1> QED BY <1>1, <1>2

\* What a callback does to one fdevent keeps it sane: it is active unless removed,
\* wants what it was told to, and becomes pending by no change.
LEMMA ChangeEffect ==
    ASSUME NEW e \in Fdevent, Sane(e), NEW c, Allowed(e, c)
    PROVE  /\ Change(e, c) \in Fdevent /\ Sane(Change(e, c))
           /\ Change(e, c).active <=> c.op # "remove"
           /\ Change(e, c).want = c.want
           /\ Change(e, c).pend => e.pend
<1>1. CASE c = Remove
  <2>1. Change(e, c) = Removed /\ c.op = "remove" /\ c.want = {}
    BY <1>1 DEF Change, Remove
  <2> QED BY <2>1 DEF Removed, Fdevent, Sane
<1>2. ASSUME NEW w \in SUBSET Wanted, c = Set(w), e.active
      PROVE  /\ Change(e, c) \in Fdevent /\ Sane(Change(e, c))
             /\ Change(e, c).active <=> c.op # "remove"
             /\ Change(e, c).want = c.want
             /\ Change(e, c).pend => e.pend
  <2>1. Change(e, c) = SetTo(e, w) /\ c.op = "set" /\ c.want = w
    BY <1>2 DEF Change, Set
  <2> QED BY <1>2, <2>1, SetToEffect
<1>3. ASSUME NEW w \in SUBSET Wanted, c = Install(w), ~e.active
      PROVE  /\ Change(e, c) \in Fdevent /\ Sane(Change(e, c))
             /\ Change(e, c).active <=> c.op # "remove"
             /\ Change(e, c).want = c.want
             /\ Change(e, c).pend => e.pend
  <2>1. Change(e, c) = SetTo(Installed, w) /\ c.op = "install" /\ c.want = w
    BY <1>3 DEF Change, Install
  <2>2. Installed \in Fdevent /\ Sane(Installed) /\ Installed.active /\ ~Installed.pend
    BY DEF Installed, Removed, Fdevent, Sane
  <2> QED BY <2>1, <2>2, SetToEffect
<1> QED BY <1>1, <1>2, <1>3 DEF Allowed

\* The changes of a callback to all fdevents: g_pending_list still holds exactly the
\* fdevents that have FDE_PENDING.
LEMMA LoopEffect ==
    ASSUME LoopType, PendingInv, NEW chg, DOMAIN chg \subseteq HostFds,
           \A x \in DOMAIN chg : Allowed(fde[x], chg[x]), LoopChange(chg)
    PROVE  /\ LoopType' /\ PendingInv'
           /\ \A x \in DOMAIN chg : (fde'[x].active <=> chg[x].op # "remove") /\ fde'[x].want = chg[x].want
           /\ \A x \in HostFds \ DOMAIN chg : fde'[x] = fde[x]
<1> DEFINE new(x) == IF x \in DOMAIN chg THEN Change(fde[x], chg[x]) ELSE fde[x]
<1>1. \A x \in HostFds : fde[x] \in Fdevent /\ Sane(fde[x]) /\ (x \in pending <=> fde[x].pend)
  BY DEF LoopType, PendingInv, Sane
<1>2. \A x \in DOMAIN chg :
         /\ new(x) \in Fdevent /\ Sane(new(x)) /\ (new(x).pend => fde[x].pend)
         /\ (new(x).active <=> chg[x].op # "remove") /\ new(x).want = chg[x].want
  BY <1>1, ChangeEffect
<1>3. fde' = [x \in HostFds |-> new(x)]
  BY DEF LoopChange
<1>4. pending' = pending \ {x \in DOMAIN chg : fde[x].pend /\ ~new(x).pend}
  BY DEF LoopChange, LeavesPending
<1>5. \A x \in HostFds : new(x) \in Fdevent /\ Sane(new(x)) /\ (new(x).pend => fde[x].pend)
  BY <1>1, <1>2
<1>6. \A x \in HostFds \ DOMAIN chg : new(x) = fde[x]
  OBVIOUS
<1> HIDE DEF new
<1>7. LoopType'
  BY <1>3, <1>4, <1>5 DEF LoopType
<1>8. \A x \in HostFds : x \in pending' <=> new(x).pend
  BY <1>1, <1>4, <1>5, <1>6
<1>9. PendingInv'
  BY <1>3, <1>5, <1>8 DEF PendingInv, Sane
<1> QED BY <1>2, <1>3, <1>6, <1>7, <1>9

\* fdevent_process: what poll() reports makes active fdevents pending and changes
\* neither what is active nor what is wanted.
LEMMA ProcessEffect ==
    ASSUME LoopType, PendingInv, NEW revents, \A x \in HostFds : revents[x] \in SUBSET Events,
           Process(revents)
    PROVE  /\ LoopType' /\ PendingInv'
           /\ \A x \in HostFds : fde'[x].active = fde[x].active /\ fde'[x].want = fde[x].want
<1>1. \A x \in HostFds : fde[x] \in Fdevent /\ Sane(fde[x])
  BY DEF LoopType, PendingInv, Sane
<1> DEFINE new(x) == IF revents[x] = {} THEN fde[x]
                     ELSE [fde[x] EXCEPT !.events = fde[x].events \cup revents[x], !.pend = TRUE]
<1>2. fde' = [x \in HostFds |-> new(x)] /\ pending' = {x \in HostFds : revents[x] # {}} /\ pending = {}
  BY DEF Process
<1>3. ASSUME NEW x \in HostFds, revents[x] # {}
      PROVE  /\ new(x) \in Fdevent /\ Sane(new(x)) /\ new(x).pend
             /\ new(x).active = fde[x].active /\ new(x).want = fde[x].want
  <2>1. fde[x].active /\ fde[x].events \cup revents[x] \in SUBSET Events
    BY <1>1, <1>3 DEF Process, Fdevent
  <2>2. new(x) = [fde[x] EXCEPT !.events = fde[x].events \cup revents[x], !.pend = TRUE]
    BY <1>3
  <2>3. /\ new(x) \in Fdevent /\ new(x).pend /\ new(x).active = fde[x].active /\ new(x).want = fde[x].want
        /\ new(x).events = fde[x].events \cup revents[x]
    BY <1>1, <2>1, <2>2 DEF Fdevent
  <2> QED BY <1>3, <2>1, <2>3 DEF Sane
<1>4. ASSUME NEW x \in HostFds, revents[x] = {}
      PROVE  new(x) = fde[x] /\ ~fde[x].pend
  BY <1>2, <1>4 DEF PendingInv
<1> HIDE DEF new
<1>5. LoopType'
  BY <1>1, <1>2, <1>3, <1>4 DEF LoopType
<1>6. PendingInv'
  BY <1>1, <1>2, <1>3, <1>4 DEF PendingInv, Sane
<1> QED BY <1>2, <1>3, <1>4, <1>5, <1>6

\* fdevent_call_fdfunc: the fdevent it calls is no longer pending.
LEMMA CallEffect ==
    ASSUME LoopType, PendingInv, NEW x \in HostFds, CallFdfunc(x)
    PROVE  /\ LoopType' /\ PendingInv'
           /\ \A y \in HostFds : fde'[y].active = fde[y].active /\ fde'[y].want = fde[y].want
<1>1. fde' = [fde EXCEPT ![x] = [fde[x] EXCEPT !.pend = FALSE, !.events = {}]]
  BY DEF CallFdfunc, LoopType, Fdevent
<1>2. /\ [fde[x] EXCEPT !.pend = FALSE, !.events = {}] \in Fdevent
      /\ LET f == [fde[x] EXCEPT !.pend = FALSE, !.events = {}]
         IN  ~f.pend /\ f.events = {} /\ f.active = fde[x].active /\ f.want = fde[x].want
  BY DEF LoopType, Fdevent
<1>3. /\ fde'[x] \in Fdevent /\ ~fde'[x].pend /\ fde'[x].events = {} /\ fde'[x].active = fde[x].active
         /\ fde'[x].want = fde[x].want
      /\ \A y \in HostFds \ {x} : fde'[y] = fde[y]
  BY <1>1, <1>2 DEF LoopType
<1>4. LoopType'
  BY <1>1, <1>2 DEF LoopType, CallFdfunc
<1>5. PendingInv'
  BY <1>3 DEF PendingInv, CallFdfunc
<1> QED BY <1>3, <1>4, <1>5

-----------------------------------------------------------------------------
(* Asockets *)

\* The types of records, as in TypeOK.
SockStates == {"none", "open", "closing", "dead"}

\* What a peer can be.
PeerKinds == {"null", "local", "smart", "tracker", "remote"}

\* An asocket.
SockRec == [st : SockStates, peer : PeerKinds, trans : Transports \cup {NoTransport}, q : Nat, rig : BOOLEAN]

\* A smart socket.
SmartRec == [alive : BOOLEAN, trans : Transports \cup {NoTransport}]

\* A client.
ClientRec == [st : {"idle", "dial", "reset", "conn"}, at : SUBSET Names,
              in : Seq(UNION {Requests[c] : c \in Clients}), n : Nat, hup : {"no", "half", "full"},
              owed : BOOLEAN]

\* Two asockets for each client, each the other's mate.
LEMMA SockNames ==
    /\ \A x \in Socks : /\ Mate(x) \in Socks /\ Mate(Mate(x)) = x /\ Mate(x) # x
                        /\ x[2] \in Clients /\ (x = Client(x[2]) \/ x = Service(x[2]))
                        /\ x \in HostFds
    /\ \A c \in Clients : /\ Client(c) \in Socks /\ Service(c) \in Socks
                          /\ Client(c)[1] = "client" /\ Service(c)[1] = "service"
                          /\ Client(c)[2] = c /\ Service(c)[2] = c
                          /\ Mate(Client(c)) = Service(c) /\ Mate(Service(c)) = Client(c)
    /\ \A c, d \in Clients : /\ Client(c) # Service(d)
                             /\ Client(c) = Client(d) => c = d
                             /\ Service(c) = Service(d) => c = d
BY DEF Socks, HostFds, Mate, Client, Service

\* The fdevents of listeners are not those of asockets.
LEMMA ListenerNames ==
    /\ \A l \in Names : Lfd(l) \in HostFds /\ Lfd(l) \notin Socks /\ Lfd(l)[1] = "listener"
    /\ \A l, m \in Names : Lfd(l) = Lfd(m) => l = m
BY DEF Socks, HostFds, Lfd

\* Types of asockets, smart sockets, trackers and clients.
SockType ==
    /\ sock \in [Socks -> SockRec]
    /\ smart \in [Clients -> SmartRec]
    /\ tracker \subseteq Clients
    /\ cl \in [Clients -> ClientRec]

\* The states of an asocket; FDE_WRITE is on while something is queued.
SockInv ==
    \A x \in Socks :
        /\ sock[x].st = "none" => sock[x] = NoSock
        /\ sock[x].st = "dead" => sock[x] = Dead
        /\ x[1] = "service" => sock[x].peer \in {"null", "local"}
        /\ fde[x].active <=> Alive(x)
        /\ Alive(x) => ("WRITE" \in fde[x].want <=> sock[x].q > 0)

\* A client that is not connected, or whose smart socket still listens, has no service yet.
StartInv ==
    \A c \in Clients :
        /\ sock[Client(c)].st = "none" <=> cl[c].st # "conn"
        /\ sock[Client(c)].st = "none" \/ sock[Client(c)].peer = "smart" => sock[Service(c)].st = "none"
        /\ ~smart[c].alive => smart[c] = NoSmart

\* Fdevents, asockets and their peers fit together.
CoreInv == LoopType /\ PendingInv /\ SockType /\ SockInv /\ PeersAgree /\ StartInv

-----------------------------------------------------------------------------
(* Closing and queueing *)

\* What Effects is used with: asockets that live are closed, packets are queued for
\* open ones, and the others that change stop reading.
Fit(X, Q, more) ==
    /\ X \subseteq Socks /\ \A x \in X : Alive(x)
    /\ Q \subseteq Socks /\ \A x \in Q : sock[x].st = "open"
    /\ DOMAIN more \subseteq HostFds
    /\ \A x \in DOMAIN more : Allowed(fde[x], more[x])
    /\ \A x \in DOMAIN more : x \in Socks => more[x] = Set(fde[x].want \ {"READ"})

\* local_socket_close frees x at once.
Dies(x, err) == sock[x].st = "closing" \/ x \in err \/ sock[x].q = 0

\* What Effects comes to, for each asocket and listener.
EffectsMade(X, err, Q, more) ==
    LET V == Victims(X) IN
    /\ V \subseteq Socks /\ X \subseteq V
    /\ \A x \in Socks : sock[x].peer = "local" => (x \in V <=> Mate(x) \in V)
    /\ \A x \in V :
          \/ sock'[x] = Dead /\ ~fde'[x].active
          \/ /\ sock'[x].st = "closing" /\ sock'[x].peer = "null" /\ sock'[x].q = sock[x].q /\ sock[x].q > 0
             /\ fde'[x].active /\ "WRITE" \in fde'[x].want
    /\ \A x \in Socks \ V :
          /\ sock'[x].st = sock[x].st /\ sock'[x].peer = sock[x].peer
          /\ sock'[x].trans = sock[x].trans /\ sock'[x].rig = sock[x].rig
          /\ sock'[x].q = IF x \in Q THEN sock[x].q + 1 ELSE sock[x].q
          /\ fde'[x].active <=> fde[x].active
          /\ "WRITE" \in fde'[x].want <=> x \in Q \/ "WRITE" \in fde[x].want
          /\ x \notin DOMAIN more => ("READ" \in fde'[x].want <=> "READ" \in fde[x].want)
    /\ \A x \in DOMAIN more \ (V \cup Q) : (fde'[x].active <=> more[x].op # "remove")
       /\ fde'[x].want = more[x].want
    /\ \A x \in HostFds \ (Socks \cup DOMAIN more) : fde'[x] = fde[x]
    /\ \A c \in Clients : smart'[c] = IF Client(c) \in V THEN NoSmart ELSE smart[c]
    /\ tracker' = {c \in tracker : Client(c) \notin V}
    /\ \A c \in Clients : cl'[c].st = "conn" <=> cl[c].st = "conn"

\* What is closed with X lives, and pairs are closed together.
LEMMA VictimsAlive ==
    ASSUME CoreInv, NEW X, X \subseteq Socks, \A x \in X : Alive(x)
    PROVE  /\ Victims(X) \subseteq Socks /\ X \subseteq Victims(X) /\ \A x \in Victims(X) : Alive(x)
           /\ \A x \in Socks : sock[x].peer = "local" => (x \in Victims(X) <=> Mate(x) \in Victims(X))
<1>1. \A x \in Socks : sock[x].peer = "local" => sock[Mate(x)].st = "open" /\ sock[Mate(x)].peer = "local"
  BY DEF CoreInv, PeersAgree
<1>2. Victims(X) = X \cup {Mate(x) : x \in {y \in X : sock[y].peer = "local"}}
  BY DEF Victims
<1>3. Victims(X) \subseteq Socks /\ X \subseteq Victims(X) /\ \A x \in Victims(X) : Alive(x)
  BY <1>1, <1>2, SockNames DEF Alive
<1>4. ASSUME NEW x \in Socks, sock[x].peer = "local" PROVE x \in Victims(X) <=> Mate(x) \in Victims(X)
  BY <1>1, <1>2, <1>4, SockNames
<1> QED BY <1>3, <1>4

\* local_socket_close of an asocket that lives: freed, or on the closing list with
\* its queue.
LEMMA ClosedFacts ==
    ASSUME CoreInv, NEW x \in Socks, Alive(x), NEW w \in BOOLEAN
    PROVE  /\ Closed(sock[x], w) \in SockRec
           /\ (sock[x].st = "closing" \/ w \/ sock[x].q = 0) => Closed(sock[x], w) = Dead
           /\ ~(sock[x].st = "closing" \/ w \/ sock[x].q = 0) =>
                 /\ Closed(sock[x], w).st = "closing" /\ Closed(sock[x], w).peer = "null"
                 /\ Closed(sock[x], w).q = sock[x].q /\ sock[x].q > 0
<1>1. sock[x] \in SockRec
  BY DEF CoreInv, SockType
<1>2. CASE sock[x].st = "closing" \/ w \/ sock[x].q = 0
  BY <1>2 DEF Closed, Dead, Asocket, SockRec, SockStates, PeerKinds
<1>3. CASE ~(sock[x].st = "closing" \/ w \/ sock[x].q = 0)
  <2>1. Closed(sock[x], w) = [sock[x] EXCEPT !.st = "closing", !.peer = "null", !.rig = FALSE]
    BY <1>3 DEF Closed
  <2>2. Closed(sock[x], w) =
           [st |-> "closing", peer |-> "null", trans |-> sock[x].trans, q |-> sock[x].q, rig |-> FALSE]
    BY <1>1, <2>1 DEF SockRec
  <2>3. sock[x].trans \in Transports \cup {NoTransport} /\ sock[x].q \in Nat
    BY <1>1 DEF SockRec
  <2> QED BY <1>3, <2>2, <2>3 DEF SockRec, SockStates, PeerKinds
<1> QED BY <1>2, <1>3

\* What a callback does that closes X and queues packets for Q, spelt out for each
\* asocket, and the types it keeps.
LEMMA EffectsEffect ==
    ASSUME CoreInv, NEW X, NEW err, NEW Q, NEW more, Fit(X, Q, more), Effects(X, err, Q, more)
    PROVE  EffectsMade(X, err, Q, more) /\ LoopType' /\ PendingInv' /\ SockType'
<1> DEFINE V == Victims(X)
           chg == [x \in V \cup Q \cup DOMAIN more |->
                      IF x \in V THEN CloseChange(x, err)
                      ELSE IF x \in Q THEN Set(fde[x].want \cup {"WRITE"}) ELSE more[x]]
<1>1. /\ V \subseteq Socks /\ X \subseteq V /\ \A x \in V : Alive(x)
      /\ \A x \in Socks : sock[x].peer = "local" => (x \in V <=> Mate(x) \in V)
  BY VictimsAlive DEF Fit
<1>2. /\ sock' = [x \in Socks |-> IF x \in V THEN Closed(sock[x], x \in err)
                                  ELSE IF x \in Q THEN [sock[x] EXCEPT !.q = @ + 1] ELSE sock[x]]
      /\ smart' = [c \in Clients |-> IF Client(c) \in V THEN NoSmart ELSE smart[c]]
      /\ tracker' = {c \in tracker : Client(c) \notin V}
      /\ cl' = [c \in Clients |->
                    IF Client(c) \in V THEN [cl[c] EXCEPT !.owed = FALSE]
                    ELSE IF cl[c].st = "dial" /\ \E l \in cl[c].at : Lfd(l) \in DOMAIN more
                    THEN [cl[c] EXCEPT !.st = "reset"] ELSE cl[c]]
      /\ LoopChange(chg)
  BY DEF Effects
<1>3. /\ Q \subseteq Socks /\ \A x \in Q : sock[x].st = "open"
      /\ DOMAIN more \subseteq HostFds /\ \A x \in DOMAIN more : Allowed(fde[x], more[x])
      /\ \A x \in DOMAIN more : x \in Socks => more[x] = Set(fde[x].want \ {"READ"})
  BY DEF Fit
<1>4. \A x \in Socks : /\ sock[x] \in SockRec /\ x \in HostFds /\ fde[x] \in Fdevent
                       /\ (fde[x].active <=> Alive(x))
                          /\ (Alive(x) => ("WRITE" \in fde[x].want <=> sock[x].q > 0))
  BY SockNames DEF CoreInv, SockType, LoopType, SockInv
<1> HIDE DEF V
<1>5. \A x \in V :
         /\ Dies(x, err) => Closed(sock[x], x \in err) = Dead /\ CloseChange(x, err) = Remove
         /\ ~Dies(x, err) =>
               /\ Closed(sock[x], x \in err).st = "closing" /\ Closed(sock[x], x \in err).peer = "null"
               /\ Closed(sock[x], x \in err).q = sock[x].q /\ sock[x].q > 0
               /\ CloseChange(x, err) = Set(fde[x].want \ {"READ"})
         /\ Closed(sock[x], x \in err) \in SockRec
  <2> SUFFICES ASSUME NEW x \in V
               PROVE  /\ Dies(x, err) => Closed(sock[x], x \in err) = Dead /\ CloseChange(x, err) = Remove
                      /\ ~Dies(x, err) =>
                            /\ Closed(sock[x], x \in err).st = "closing"
                               /\ Closed(sock[x], x \in err).peer = "null"
                            /\ Closed(sock[x], x \in err).q = sock[x].q /\ sock[x].q > 0
                            /\ CloseChange(x, err) = Set(fde[x].want \ {"READ"})
                      /\ Closed(sock[x], x \in err) \in SockRec
    OBVIOUS
  <2>1. (x \in err) \in BOOLEAN /\ x \in Socks /\ Alive(x)
    BY <1>1
  <2>2. Dead.st = "dead"
    BY DEF Dead, Asocket
  <2> QED BY <2>1, <2>2, ClosedFacts DEF CloseChange, Dies
<1>6. DOMAIN chg \subseteq HostFds /\ \A x \in DOMAIN chg : Allowed(fde[x], chg[x])
  <2>1. DOMAIN chg = V \cup Q \cup DOMAIN more
    OBVIOUS
  <2>2. ASSUME NEW x \in V PROVE Allowed(fde[x], CloseChange(x, err))
    <3>1. fde[x].active /\ fde[x].want \ {"READ"} \in SUBSET Wanted
      BY <1>1, <1>4 DEF Fdevent
    <3>2. CloseChange(x, err) = Remove \/ CloseChange(x, err) = Set(fde[x].want \ {"READ"})
      BY <1>5
    <3> QED BY <3>1, <3>2 DEF Allowed
  <2>3. ASSUME NEW x \in Q PROVE Allowed(fde[x], Set(fde[x].want \cup {"WRITE"}))
    <3>1. fde[x].active /\ fde[x].want \cup {"WRITE"} \in SUBSET Wanted
      BY <1>3, <1>4 DEF Alive, Fdevent, Wanted
    <3> QED BY <3>1 DEF Allowed
  <2> QED BY <1>1, <1>3, <1>4, <2>1, <2>2, <2>3
<1>7. /\ LoopType' /\ PendingInv'
      /\ \A x \in DOMAIN chg : (fde'[x].active <=> chg[x].op # "remove") /\ fde'[x].want = chg[x].want
      /\ \A x \in HostFds \ DOMAIN chg : fde'[x] = fde[x]
  <2> HIDE DEF chg
  <2> QED BY <1>2, <1>6, LoopEffect DEF CoreInv
<1>8. /\ \A x \in V : (fde'[x].active <=> CloseChange(x, err).op # "remove")
         /\ fde'[x].want = CloseChange(x, err).want
      /\ \A x \in Q \ V : fde'[x].active /\ fde'[x].want = fde[x].want \cup {"WRITE"}
      /\ \A x \in DOMAIN more \ (V \cup Q) : (fde'[x].active <=> more[x].op # "remove")
         /\ fde'[x].want = more[x].want
      /\ \A x \in HostFds \ (V \cup Q \cup DOMAIN more) : fde'[x] = fde[x]
  BY <1>7 DEF Set
<1> HIDE DEF chg
<1>9. \A x \in V :
          \/ sock'[x] = Dead /\ ~fde'[x].active
          \/ /\ sock'[x].st = "closing" /\ sock'[x].peer = "null" /\ sock'[x].q = sock[x].q /\ sock[x].q > 0
             /\ fde'[x].active /\ "WRITE" \in fde'[x].want
  <2> SUFFICES ASSUME NEW x \in V
               PROVE  \/ sock'[x] = Dead /\ ~fde'[x].active
                      \/ /\ sock'[x].st = "closing" /\ sock'[x].peer = "null" /\ sock'[x].q = sock[x].q
                        /\ sock[x].q > 0
                         /\ fde'[x].active /\ "WRITE" \in fde'[x].want
    OBVIOUS
  <2>1. sock'[x] = Closed(sock[x], x \in err) /\ x \in Socks /\ Alive(x)
    BY <1>1, <1>2
  <2> QED BY <1>4, <1>5, <1>8, <2>1 DEF Remove, Set
<1>10. \A x \in Socks \ V :
          /\ sock'[x].st = sock[x].st /\ sock'[x].peer = sock[x].peer
          /\ sock'[x].trans = sock[x].trans /\ sock'[x].rig = sock[x].rig
          /\ sock'[x].q = IF x \in Q THEN sock[x].q + 1 ELSE sock[x].q
          /\ sock'[x] \in SockRec
  <2> SUFFICES ASSUME NEW x \in Socks \ V
               PROVE  /\ sock'[x].st = sock[x].st /\ sock'[x].peer = sock[x].peer
                      /\ sock'[x].trans = sock[x].trans /\ sock'[x].rig = sock[x].rig
                      /\ sock'[x].q = IF x \in Q THEN sock[x].q + 1 ELSE sock[x].q
                      /\ sock'[x] \in SockRec
    OBVIOUS
  <2>1. CASE x \in Q
    <3>1. sock'[x] = [sock[x] EXCEPT !.q = sock[x].q + 1] /\ sock[x] \in SockRec
      BY <1>2, <1>4, <2>1
    <3> QED BY <2>1, <3>1 DEF SockRec
  <2>2. CASE x \notin Q
    BY <1>2, <1>4, <2>2
  <2> QED BY <2>1, <2>2
<1>11. \A x \in Socks \ V :
          /\ fde'[x].active <=> fde[x].active
          /\ "WRITE" \in fde'[x].want <=> x \in Q \/ "WRITE" \in fde[x].want
          /\ x \notin DOMAIN more => ("READ" \in fde'[x].want <=> "READ" \in fde[x].want)
  <2> SUFFICES ASSUME NEW x \in Socks \ V
               PROVE  /\ fde'[x].active <=> fde[x].active
                      /\ "WRITE" \in fde'[x].want <=> x \in Q \/ "WRITE" \in fde[x].want
                      /\ x \notin DOMAIN more => ("READ" \in fde'[x].want <=> "READ" \in fde[x].want)
    OBVIOUS
  <2>1. CASE x \in Q
    BY <1>3, <1>4, <1>8, <2>1 DEF Alive
  <2>2. CASE x \in DOMAIN more \ Q
    <3>1. more[x] = Set(fde[x].want \ {"READ"}) /\ Allowed(fde[x], more[x])
      BY <1>3, <2>2
    <3>2. /\ more[x].op = "set" /\ Remove.op = "remove"
          /\ \A w : Install(w).op = "install"
      BY <3>1 DEF Set, Install, Remove
    <3>3. fde[x].active
      BY <3>1, <3>2 DEF Allowed
    <3> QED BY <1>8, <2>2, <3>1, <3>3 DEF Set
  <2>3. CASE x \notin Q \cup DOMAIN more
    BY <1>4, <1>8, <2>3
  <2> QED BY <2>1, <2>2, <2>3
<1>12. \A c \in Clients : /\ cl'[c].st = "conn" <=> cl[c].st = "conn"
                          /\ cl'[c] \in ClientRec
  <2> SUFFICES ASSUME NEW c \in Clients
               PROVE  (cl'[c].st = "conn" <=> cl[c].st = "conn") /\ cl'[c] \in ClientRec
    OBVIOUS
  <2>1. cl[c] \in ClientRec
    BY DEF CoreInv, SockType
  <2>2. \/ cl'[c] = [cl[c] EXCEPT !.owed = FALSE] \/ cl'[c] = cl[c]
        \/ cl[c].st = "dial" /\ cl'[c] = [cl[c] EXCEPT !.st = "reset"]
    BY <1>2
  <2> QED BY <2>1, <2>2 DEF ClientRec
<1>13. SockType'
  <2>1. \A x \in Socks : sock'[x] \in SockRec
    BY <1>2, <1>5, <1>10
  <2>2. NoSmart \in SmartRec
    BY DEF NoSmart, SmartRec
  <2>3. smart' \in [Clients -> SmartRec]
    BY <1>2, <2>2 DEF CoreInv, SockType
  <2>4. sock' \in [Socks -> SockRec]
    BY <1>2, <2>1
  <2>5. cl' \in [Clients -> ClientRec]
    BY <1>2, <1>12
  <2> QED BY <1>2, <2>3, <2>4, <2>5 DEF CoreInv, SockType
<1>14. EffectsMade(X, err, Q, more)
  <2>1. /\ \A c \in Clients : smart'[c] = IF Client(c) \in V THEN NoSmart ELSE smart[c]
        /\ tracker' = {c \in tracker : Client(c) \notin V}
    BY <1>2
  <2>2. \A x \in HostFds \ (Socks \cup DOMAIN more) : fde'[x] = fde[x]
    BY <1>1, <1>3, <1>8
  <2> QED BY <1>1, <1>8, <1>9, <1>10, <1>11, <1>12, <2>1, <2>2 DEF EffectsMade, V
<1> QED BY <1>7, <1>13, <1>14

\* Closing and queueing keep CoreInv: peers stay paired, fdevents owned, and FDE_WRITE
\* on exactly while something is queued.
LEMMA EffectsCore ==
    ASSUME CoreInv, NEW X, NEW err, NEW Q, NEW more, Fit(X, Q, more), Effects(X, err, Q, more)
    PROVE  EffectsMade(X, err, Q, more) /\ CoreInv'
<1>1. EffectsMade(X, err, Q, more) /\ LoopType' /\ PendingInv' /\ SockType'
  BY EffectsEffect
<1> DEFINE V == Victims(X)
<1>2. /\ V \subseteq Socks
      /\ \A x \in Socks : sock[x].peer = "local" => (x \in V <=> Mate(x) \in V)
      /\ \A x \in V :
            \/ sock'[x] = Dead /\ ~fde'[x].active
            \/ /\ sock'[x].st = "closing" /\ sock'[x].peer = "null" /\ sock'[x].q = sock[x].q /\ sock[x].q > 0
               /\ fde'[x].active /\ "WRITE" \in fde'[x].want
      /\ \A x \in Socks \ V :
            /\ sock'[x].st = sock[x].st /\ sock'[x].peer = sock[x].peer
            /\ sock'[x].trans = sock[x].trans /\ sock'[x].rig = sock[x].rig
            /\ sock'[x].q = IF x \in Q THEN sock[x].q + 1 ELSE sock[x].q
            /\ fde'[x].active <=> fde[x].active
            /\ "WRITE" \in fde'[x].want <=> x \in Q \/ "WRITE" \in fde[x].want
      /\ \A c \in Clients : smart'[c] = IF Client(c) \in V THEN NoSmart ELSE smart[c]
      /\ tracker' = {c \in tracker : Client(c) \notin V}
      /\ \A c \in Clients : cl'[c].st = "conn" <=> cl[c].st = "conn"
  BY <1>1 DEF EffectsMade
<1>3. /\ \A x \in V : Alive(x)
      /\ \A x \in Q : sock[x].st = "open"
  BY VictimsAlive DEF Fit
<1>4. \A x \in Socks : /\ sock[x] \in SockRec /\ sock'[x] \in SockRec
                       /\ sock[x].q \in Nat
  BY <1>1 DEF CoreInv, SockType, SockRec
<1>5. Dead.st = "dead" /\ Dead.peer = "null" /\ Dead.q = 0 /\ NoSock.st = "none" /\ NoSock.peer = "null"
      /\ ~NoSmart.alive
  BY DEF Dead, NoSock, Asocket, NoSmart
<1> HIDE DEF V
<1>6. SockInv'
  <2> SUFFICES ASSUME NEW x \in Socks
               PROVE  /\ sock'[x].st = "none" => sock'[x] = NoSock
                      /\ sock'[x].st = "dead" => sock'[x] = Dead
                      /\ x[1] = "service" => sock'[x].peer \in {"null", "local"}
                      /\ fde'[x].active <=> sock'[x].st \in {"open", "closing"}
                      /\ sock'[x].st \in {"open", "closing"} => ("WRITE" \in fde'[x].want <=> sock'[x].q > 0)
    BY DEF SockInv, Alive
  <2>1. CASE x \in V
    BY <1>2, <1>5, <2>1
  <2>2. CASE x \notin V
    <3>1. x \notin Q => sock'[x] = sock[x]
      BY <1>2, <1>4, <2>2 DEF SockRec
    <3> QED BY <1>2, <1>3, <1>4, <2>2, <3>1 DEF CoreInv, SockInv, Alive
  <2> QED BY <2>1, <2>2
<1>7. PeersAgree'
  <2>1. ASSUME NEW x \in Socks
        PROVE  /\ sock'[x].peer = "local" => sock'[Mate(x)].st = "open" /\ sock'[Mate(x)].peer = "local"
               /\ sock'[x].peer # "null" => sock'[x].st = "open"
    BY <1>2, <1>5, SockNames DEF CoreInv, PeersAgree
  <2>2. ASSUME NEW c \in Clients
        PROVE  /\ smart'[c].alive <=> sock'[Client(c)].peer = "smart"
               /\ c \in tracker' <=> sock'[Client(c)].peer = "tracker"
    BY <1>2, <1>5, SockNames DEF CoreInv, PeersAgree
  <2> QED BY <2>1, <2>2 DEF PeersAgree
<1>8. StartInv'
  <2> SUFFICES ASSUME NEW c \in Clients
               PROVE  /\ sock'[Client(c)].st = "none" <=> cl'[c].st # "conn"
                      /\ sock'[Client(c)].st = "none" \/ sock'[Client(c)].peer = "smart" =>
                           sock'[Service(c)].st = "none"
                      /\ ~smart'[c].alive => smart'[c] = NoSmart
    BY DEF StartInv
  <2>1. \A x \in Socks : sock'[x].st = "none" <=> sock[x].st = "none"
    BY <1>2, <1>3, <1>5 DEF Alive
  <2>2. sock'[Client(c)].peer = "smart" => sock[Client(c)].peer = "smart"
    BY <1>2, <1>5, SockNames
  <2> QED BY <1>2, <2>1, <2>2, SockNames DEF CoreInv, StartInv
<1> QED BY <1>1, <1>6, <1>7, <1>8 DEF CoreInv

-----------------------------------------------------------------------------
(* The inductive invariant *)

\* All that any client writes.
AllRequests == UNION {Requests[c] : c \in Clients}

\* The callback that runs.
CurRec == [pc : {"none", "event", "enqueue", "after", "crashed"}, fd : HostFds \cup {<<>>}, ev : SUBSET Events,
           data : Seq(AllRequests \cup {"data"}), eof : BOOLEAN, r : {0, 1}]

\* A listener.
ListenerRec == [on : BOOLEAN, trans : Transports \cup {NoTransport}]

\* A service thread.
ThreadRec == [st : {"none", "run", "done"}, out : 0..1]

\* Types of the other variables.
RestType ==
    /\ cur \in CurRec
    /\ last \in [Clients -> [Transports -> States]]
    /\ lst \in [Names -> ListenerRec]
    /\ disc \in [Transports -> SUBSET Names]
    /\ tr \in [Transports -> States \cup {"ending"}]
    /\ thread \in [Clients -> ThreadRec]
    /\ updates \in Nat

\* A listener is installed while it is on, for a transport that is online and has
\* it on its list of disconnects.
ListenInv ==
    /\ \A l \in Names :
          /\ fde[Lfd(l)].active <=> lst[l].on
          /\ lst[l].on => lst[l].trans \in Transports
          /\ ~lst[l].on => lst[l] = NoListener
    /\ \A l \in Names, t \in Transports :
          /\ l \in disc[t] <=> lst[l].on /\ lst[l].trans = t
          /\ l \in disc[t] => tr[t] = "online"

\* Open asockets and smart sockets name transports that are online.
UseInv ==
    /\ \A x \in Socks : sock[x].st = "open" /\ sock[x].trans # NoTransport => tr[sock[x].trans] = "online"
    /\ \A c \in Clients : smart[c].trans # NoTransport => tr[smart[c].trans] = "online"

\* The callback of x is about to stop reading.
Stops(x) == cur.pc = "after" /\ cur.fd = x /\ cur.r = 1

\* One end of a pair is read exactly if the other has nothing queued, and a client
\* of a smart socket is always read.
CreditInv ==
    /\ cur.r = 1 => cur.pc \in {"after", "crashed"}
    /\ \A x \in Socks :
          /\ sock[x].peer = "local" =>
                IF Stops(x) THEN sock[Mate(x)].q > 0 ELSE ("READ" \in fde[x].want <=> sock[Mate(x)].q = 0)
          /\ sock[x].peer = "smart" => sock[x].q = 0 /\ "READ" \in fde[x].want /\ ~Stops(x)

\* The inductive invariant.
IInv == CoreInv /\ RestType /\ ListenInv /\ UseInv /\ CreditInv /\ TrackersTold

-----------------------------------------------------------------------------
(* What Effects keeps *)

\* Closing the asockets of a transport that goes offline leaves none that names it.
LEMMA EffectsUse ==
    ASSUME CoreInv, UseInv, NEW X, NEW err, NEW Q, NEW more, EffectsMade(X, err, Q, more), SockType',
           \A t \in Transports : tr[t] = "online" => tr'[t] = "online" \/ Users(t) \subseteq X
    PROVE  UseInv'
<1> DEFINE V == Victims(X)
<1>1. /\ X \subseteq V /\ \A x \in V : sock'[x].st # "open"
      /\ \A x \in Socks \ V : sock'[x].st = sock[x].st /\ sock'[x].trans = sock[x].trans
      /\ \A c \in Clients : smart'[c] = IF Client(c) \in V THEN NoSmart ELSE smart[c]
  BY DEF EffectsMade, Dead, Asocket
<1> HIDE DEF V
<1>2. ASSUME NEW x \in Socks, sock'[x].st = "open",
             sock'[x].trans # NoTransport PROVE tr'[sock'[x].trans] = "online"
  <2>1. x \notin V /\ sock[x].st = "open" /\ sock[x].trans = sock'[x].trans /\ tr[sock[x].trans] = "online"
        /\ sock[x].trans \in Transports
    BY <1>1, <1>2 DEF UseInv, CoreInv, SockType, SockRec
  <2>2. x \in Users(sock[x].trans)
    BY <2>1 DEF Users
  <2> QED BY <1>1, <2>1, <2>2
<1>3. ASSUME NEW c \in Clients, smart'[c].trans # NoTransport PROVE tr'[smart'[c].trans] = "online"
  <2>1. Client(c) \notin V /\ smart'[c] = smart[c]
    BY <1>1, <1>3 DEF NoSmart
  <2>2. smart[c].alive /\ smart[c].trans \in Transports /\ tr[smart[c].trans] = "online"
    BY <1>3, <2>1 DEF UseInv, CoreInv, SockType, SmartRec, StartInv, NoSmart
  <2>3. Client(c) \in Users(smart[c].trans)
    BY <2>2, SockNames DEF Users, CoreInv, PeersAgree
  <2> QED BY <1>1, <2>1, <2>2, <2>3
<1> QED BY <1>2, <1>3 DEF UseInv

\* Closing keeps the credit of the pairs that stay, if nothing is queued for them.
LEMMA EffectsCredit ==
    ASSUME CoreInv, CreditInv, NEW X, NEW err, NEW Q, NEW more, EffectsMade(X, err, Q, more),
           DOMAIN more \cap Socks = {},
           \A x \in Q : sock[x].peer \notin {"local", "smart"},
           \A x \in Socks \ Victims(X) : ~Stops(x) /\ ~Stops(x)',
           cur'.r = 1 => cur'.pc \in {"after", "crashed"}
    PROVE  CreditInv'
<1> DEFINE V == Victims(X)
<1>1. /\ \A x \in Socks : sock[x].peer = "local" => (x \in V <=> Mate(x) \in V)
      /\ \A x \in V : sock'[x].peer = "null"
      /\ \A x \in Socks \ V :
            /\ sock'[x].peer = sock[x].peer
            /\ sock'[x].q = IF x \in Q THEN sock[x].q + 1 ELSE sock[x].q
            /\ "READ" \in fde'[x].want <=> "READ" \in fde[x].want
  BY DEF EffectsMade, Dead, Asocket
<1> HIDE DEF V
<1>2. ASSUME NEW x \in Socks, sock'[x].peer = "local"
      PROVE  ~Stops(x)' /\ ("READ" \in fde'[x].want <=> sock'[Mate(x)].q = 0)
  <2>1. x \notin V /\ sock[x].peer = "local"
    BY <1>1, <1>2
  <2>2. Mate(x) \in Socks \ V /\ sock[Mate(x)].peer = "local"
    BY <1>1, <2>1, SockNames DEF CoreInv, PeersAgree
  <2>3. Mate(x) \notin Q
    BY <2>2
  <2> QED BY <1>1, <2>1, <2>2, <2>3 DEF CreditInv, V
<1>3. ASSUME NEW x \in Socks, sock'[x].peer = "smart"
      PROVE  sock'[x].q = 0 /\ "READ" \in fde'[x].want /\ ~Stops(x)'
  <2>1. x \notin V /\ sock[x].peer = "smart" /\ x \notin Q
    BY <1>1, <1>3
  <2> QED BY <1>1, <2>1 DEF CreditInv, V
<1> QED BY <1>2, <1>3 DEF CreditInv

\* A closed tracker leaves the list; the others were told as before.
LEMMA EffectsTrack ==
    ASSUME TrackersTold, NEW X, NEW err, NEW Q, NEW more, EffectsMade(X, err, Q, more), UNCHANGED <<last, tr>>
    PROVE  TrackersTold'
BY DEF TrackersTold, EffectsMade

\* Nothing changes no fdevent.
LEMMA NothingFits ==
    DOMAIN Nothing = {}
BY DEF Nothing

\* A step that closes asockets and queues packets, and nothing else.
LEMMA PlainEffects ==
    ASSUME IInv, NEW X, NEW err, NEW Q,
           X \subseteq Socks, \A x \in X : Alive(x),
           Q \subseteq Socks, \A x \in Q : sock[x].st = "open" /\ sock[x].peer \notin {"local", "smart"},
           Effects(X, err, Q, Nothing), UNCHANGED <<last, lst, disc, tr, thread, updates>>,
           cur' \in CurRec, cur'.r = 1 => cur'.pc \in {"after", "crashed"},
           \A x \in Socks \ Victims(X) : ~Stops(x) /\ ~Stops(x)'
    PROVE  IInv'
<1>1. CoreInv /\ RestType /\ ListenInv /\ UseInv /\ CreditInv /\ TrackersTold
  BY DEF IInv
<1>2. Fit(X, Q, Nothing)
  BY NothingFits DEF Fit
<1>3. EffectsMade(X, err, Q, Nothing) /\ CoreInv'
  BY <1>1, <1>2, EffectsCore
<1>4. RestType'
  BY <1>1 DEF RestType
<1>5. UseInv'
  BY <1>1, <1>3, EffectsUse DEF CoreInv
<1>6. CreditInv'
  BY <1>1, <1>3, NothingFits, EffectsCredit
<1>7. TrackersTold'
  BY <1>1, <1>3, EffectsTrack
<1>8. \A l \in Names : fde'[Lfd(l)] = fde[Lfd(l)]
  BY <1>3, NothingFits, ListenerNames DEF EffectsMade
<1>9. ListenInv'
  BY <1>1, <1>8 DEF ListenInv
<1> QED BY <1>3, <1>4, <1>5, <1>6, <1>7, <1>9 DEF IInv

\* A step that touches no asocket and no fdevent.
LEMMA QuietStep ==
    ASSUME IInv, UNCHANGED <<fde, pending, sock, smart, tracker, last, lst, disc>>,
           cl' \in [Clients -> ClientRec], \A c \in Clients : cl'[c].st = "conn" <=> cl[c].st = "conn",
           thread' \in [Clients -> ThreadRec], UNCHANGED <<tr, updates>>,
           cur' \in CurRec, cur'.r = 1 => cur'.pc \in {"after", "crashed"},
           \A x \in Socks : /\ Stops(x)' => Stops(x) \/ sock[x].peer \notin {"local", "smart"}
                            /\ Stops(x) => Stops(x)' \/ sock[x].peer # "local"
    PROVE  IInv'
<1>1. CoreInv /\ RestType /\ ListenInv /\ UseInv /\ CreditInv /\ TrackersTold
  BY DEF IInv
<1>2. LoopType' /\ PendingInv' /\ SockType' /\ SockInv' /\ PeersAgree' /\ StartInv'
  BY <1>1 DEF CoreInv, LoopType, PendingInv, SockType, SockInv, PeersAgree, StartInv, Alive
<1>3. RestType' /\ ListenInv' /\ UseInv' /\ TrackersTold'
  BY <1>1 DEF RestType, ListenInv, UseInv, TrackersTold
<1>4. CreditInv'
  BY <1>1 DEF CreditInv
<1> QED BY <1>2, <1>3, <1>4 DEF IInv, CoreInv

-----------------------------------------------------------------------------
(* The callback that runs *)

\* No callback runs after Return.
LEMMA ReturnCur ==
    ASSUME Return
    PROVE  cur' \in CurRec /\ cur'.pc = "none" /\ cur'.r = 0
<1>1. <<>> \in Seq(AllRequests \cup {"data"}) /\ {} \in SUBSET Events
  OBVIOUS
<1> QED BY <1>1 DEF Return, NoCall, CurRec

\* peer->enqueue returned r to the callback that runs.
LEMMA ReturnedCur ==
    ASSUME cur \in CurRec, NEW r \in {0, 1}, Returned(r)
    PROVE  cur' \in CurRec /\ cur'.pc = "after" /\ cur'.fd = cur.fd /\ cur'.r = r
<1>1. cur' = [pc |-> "after", fd |-> cur.fd, ev |-> cur.ev, data |-> <<>>, eof |-> cur.eof, r |-> r]
  BY DEF Returned, CurRec
<1>2. <<>> \in Seq(AllRequests \cup {"data"})
  OBVIOUS
<1>3. cur.fd \in HostFds \cup {<<>>} /\ cur.ev \in SUBSET Events /\ cur.eof \in BOOLEAN
  BY DEF CurRec
<1> QED BY <1>1, <1>2, <1>3 DEF CurRec

-----------------------------------------------------------------------------
(* Steps that only close and queue *)

\* A write error closes the asocket of the callback.
LEMMA EventWriteFailsStep ==
    ASSUME IInv, NEW x \in Socks, EventWriteFails(x)
    PROVE  IInv'
<1>1. Alive(x)
  BY DEF IInv, CoreInv, SockType, SockRec, SockStates, SockInv, EventWriteFails, NoSock, Dead, Asocket, Alive
<1>2. \A y \in Socks : ~Stops(y) /\ ~Stops(y)'
  BY ReturnCur DEF EventWriteFails, InCall, Stops
<1> QED BY <1>1, <1>2, ReturnCur, PlainEffects DEF EventWriteFails

\* A closing asocket whose queue drains is freed.
LEMMA EventWriteClosesStep ==
    ASSUME IInv, NEW x \in Socks, EventWriteCloses(x)
    PROVE  IInv'
<1>1. Alive(x)
  BY DEF EventWriteCloses, Alive
<1>2. \A y \in Socks : ~Stops(y) /\ ~Stops(y)'
  BY ReturnCur DEF EventWriteCloses, InCall, Stops
<1> QED BY <1>1, <1>2, ReturnCur, PlainEffects DEF EventWriteCloses

\* A write error of the mate frees the asocket whose callback goes on: IInv holds, and
\* step AfterFree is all it can still do.
LEMMA EnqueueFailsStep ==
    ASSUME IInv, NEW x \in Socks, EnqueueFails(x)
    PROVE  IInv'
<1>1. sock[x].peer = "local" /\ Mate(x) \in Socks /\ sock[Mate(x)].st = "open"
      /\ sock[Mate(x)].peer = "local" /\ CoreInv
  BY SockNames DEF IInv, CoreInv, PeersAgree, EnqueueFails
<1>2. Alive(Mate(x))
  BY <1>1 DEF Alive
<1>3. x \in Victims({Mate(x)})
  BY <1>1, <1>2, SockNames, VictimsAlive
<1>4. cur \in CurRec /\ cur.pc = "enqueue" /\ cur.fd = x
  BY DEF IInv, RestType, EnqueueFails, InCall
<1>5. cur' \in CurRec /\ cur'.pc = "after" /\ cur'.fd = x
  BY <1>4, ReturnedCur DEF EnqueueFails
<1>6. \A y \in Socks \ Victims({Mate(x)}) : ~Stops(y) /\ ~Stops(y)'
  BY <1>3, <1>4, <1>5 DEF Stops
<1>7. Effects({Mate(x)}, {Mate(x)}, {}, Nothing) /\ UNCHANGED <<last, lst, disc, tr, thread, updates>>
  BY DEF EnqueueFails
<1> QED BY <1>1, <1>2, <1>5, <1>6, <1>7, PlainEffects

\* Input from a client that tracks devices closes it.
LEMMA EnqueueTrackerStep ==
    ASSUME IInv, NEW x \in Socks, EnqueueTracker(x)
    PROVE  IInv'
<1>1. Alive(x)
  BY DEF IInv, CoreInv, PeersAgree, EnqueueTracker, Alive
<1>2. \A y \in Socks : ~Stops(y) /\ ~Stops(y)'
  BY ReturnCur DEF EnqueueTracker, InCall, Stops
<1> QED BY <1>1, <1>2, ReturnCur, PlainEffects DEF EnqueueTracker

\* What a smart socket does with a request: its client is open.
LEMMA AskedFacts ==
    ASSUME IInv, NEW c \in Clients, NEW u \in Requests[c], Asked(c, u)
    PROVE  /\ Client(c) \in Socks /\ sock[Client(c)].st = "open" /\ sock[Client(c)].peer = "smart"
              /\ Alive(Client(c))
           /\ smart[c].alive /\ sock[Service(c)].st = "none"
           /\ cur \in CurRec /\ cur.pc = "enqueue" /\ cur.fd = Client(c)
           /\ u.t \in Transports /\ u.l \in Names
           /\ \A y \in Socks : ~Stops(y)
<1>1. Client(c) \in Socks /\ sock[Client(c)].peer = "smart" /\ cur.pc = "enqueue" /\ cur.fd = Client(c)
  BY SockNames DEF Asked, InCall
<1>2. sock[Client(c)].st = "open" /\ smart[c].alive /\ sock[Service(c)].st = "none"
  BY <1>1 DEF IInv, CoreInv, PeersAgree, StartInv
<1>3. u.t \in Transports /\ u.l \in Names
  BY HostAssumption
<1> QED BY <1>1, <1>2, <1>3 DEF IInv, RestType, Alive, Stops

\* A smart socket that closes its client: SmartAnswers, SmartOpenFails and
\* SmartForwardFails.
LEMMA SmartClosesStep ==
    ASSUME IInv, NEW c \in Clients, NEW u \in Requests[c], Asked(c, u), SmartCloses(c, Nothing),
           UNCHANGED <<last, lst, disc, tr, thread, updates>>
    PROVE  IInv'
<1>1. \A y \in Socks : ~Stops(y) /\ ~Stops(y)'
  BY AskedFacts, ReturnCur DEF SmartCloses, Stops
<1> QED BY <1>1, AskedFacts, ReturnCur, PlainEffects DEF SmartCloses

\* The first list cannot be sent.
LEMMA SmartTrackFailsStep ==
    ASSUME IInv, NEW c \in Clients, NEW u \in Requests[c], SmartTrackFails(c, u)
    PROVE  IInv'
<1>1. Asked(c, u) /\ Returned(0)
  BY DEF SmartTrackFails
<1>2. cur' \in CurRec /\ cur'.r = 0
  BY <1>1, AskedFacts, ReturnedCur
<1>3. \A y \in Socks : ~Stops(y) /\ ~Stops(y)'
  BY <1>1, <1>2, AskedFacts DEF Stops
<1> QED BY <1>1, <1>2, <1>3, AskedFacts, PlainEffects DEF SmartTrackFails

\* Between callbacks.
LEMMA IdleFacts ==
    ASSUME IInv, Idle, UNCHANGED cur
    PROVE  /\ cur' \in CurRec /\ cur'.pc = "none" /\ cur'.r = 0
           /\ \A y \in Socks : ~Stops(y) /\ ~Stops(y)'
BY DEF IInv, RestType, CurRec, CreditInv, Idle, Stops

\* A_WRTE that is queued.
LEMMA StreamWrteStep ==
    ASSUME IInv, NEW c \in Clients, StreamWrte(c)
    PROVE  IInv'
BY IdleFacts, SockNames, PlainEffects DEF StreamWrte, Streaming

\* A_CLSE.
LEMMA StreamClseStep ==
    ASSUME IInv, NEW c \in Clients, StreamClse(c)
    PROVE  IInv'
BY IdleFacts, SockNames, PlainEffects DEF StreamClse, Streaming, Alive

-----------------------------------------------------------------------------
(* Steps of clients and service threads *)

\* Between two steps of a callback a client or a thread may move.
LEMMA OutsideStep ==
    ASSUME IInv, UNCHANGED <<fde, pending, cur, sock, smart, tracker, last, lst, disc, tr, updates>>,
           cl' \in [Clients -> ClientRec], \A c \in Clients : cl'[c].st = "conn" <=> cl[c].st = "conn",
           thread' \in [Clients -> ThreadRec]
    PROVE  IInv'
<1>1. cur \in CurRec /\ (cur.r = 1 => cur.pc \in {"after", "crashed"})
  BY DEF IInv, RestType, CreditInv
<1>2. \A x \in Socks : Stops(x)' <=> Stops(x)
  BY DEF Stops
<1> QED BY <1>1, <1>2, QuietStep

\* A client dials a forward.
LEMMA DialStep ==
    ASSUME IInv, NEW c \in Clients, NEW l \in Names, Dial(c, l)
    PROVE  IInv'
<1>1. cl \in [Clients -> ClientRec] /\ thread \in [Clients -> ThreadRec]
  BY DEF IInv, CoreInv, SockType, RestType
<1>2. cl' = [cl EXCEPT ![c] = [cl[c] EXCEPT !.st = "dial", !.at = {l}]] /\ cl[c].st = "idle"
  BY <1>1 DEF Dial, ClientRec
<1>3. [cl[c] EXCEPT !.st = "dial", !.at = {l}] \in ClientRec
      /\ [cl[c] EXCEPT !.st = "dial", !.at = {l}].st = "dial"
  <2>1. [cl[c] EXCEPT !.st = "dial"] \in ClientRec /\ [cl[c] EXCEPT !.st = "dial"].st = "dial"
    BY <1>1 DEF ClientRec
  <2> QED BY <2>1 DEF ClientRec
<1>5. cl' \in [Clients -> ClientRec] /\ cl'[c].st = "dial" /\ \A d \in Clients \ {c} : cl'[d] = cl[d]
  BY <1>1, <1>2, <1>3
<1> QED BY <1>1, <1>2, <1>5, OutsideStep DEF Dial

\* A client writes.
LEMMA ClientWritesStep ==
    ASSUME IInv, NEW c \in Clients, NEW u \in Requests[c], ClientWrites(c, u)
    PROVE  IInv'
<1>1. cl \in [Clients -> ClientRec] /\ thread \in [Clients -> ThreadRec]
  BY DEF IInv, CoreInv, SockType, RestType
<1> DEFINE owed == smart[c].alive /\ u.kind # "half"
           in == Append(cl[c].in, u)
           new == [cl[c] EXCEPT !.in = in, !.n = cl[c].n + 1, !.owed = owed]
<1>2. cl' = [cl EXCEPT ![c] = new]
  BY <1>1 DEF ClientWrites, ClientRec
<1>3. in \in Seq(UNION {Requests[e] : e \in Clients}) /\ owed \in BOOLEAN /\ cl[c].n + 1 \in Nat
  <2>1. u \in UNION {Requests[e] : e \in Clients} /\ cl[c] \in ClientRec
    BY <1>1
  <2> QED BY <2>1 DEF ClientRec
<1> HIDE DEF owed, in
<1>4. new \in ClientRec /\ new.st = cl[c].st
  <2>1. [cl[c] EXCEPT !.in = in] \in ClientRec /\ [cl[c] EXCEPT !.in = in].st = cl[c].st
    BY <1>1, <1>3 DEF ClientRec
  <2>2. \A r \in ClientRec, n \in Nat : [r EXCEPT !.n = n] \in ClientRec /\ [r EXCEPT !.n = n].st = r.st
    BY DEF ClientRec
  <2>3. \A r \in ClientRec, o \in BOOLEAN : [r EXCEPT !.owed = o] \in ClientRec
        /\ [r EXCEPT !.owed = o].st = r.st
    BY DEF ClientRec
  <2>4. PICK r : r = [cl[c] EXCEPT !.in = in]
    OBVIOUS
  <2>5. PICK s : s = [r EXCEPT !.n = cl[c].n + 1]
    OBVIOUS
  <2>6. r \in ClientRec /\ r.st = cl[c].st
    BY <2>1, <2>4
  <2>7. s \in ClientRec /\ s.st = r.st
    BY <1>3, <2>2, <2>5, <2>6
  <2>8. new = [s EXCEPT !.owed = owed]
    BY <1>1, <2>4, <2>5 DEF ClientRec
  <2> HIDE DEF new
  <2> QED BY <1>3, <2>3, <2>6, <2>7, <2>8
<1>5. cl' \in [Clients -> ClientRec] /\ cl'[c] = new /\ \A d \in Clients \ {c} : cl'[d] = cl[d]
  <2> HIDE DEF new
  <2> QED BY <1>1, <1>2, <1>4
<1>6. cl'[c].st = cl[c].st
  BY <1>4, <1>5
<1> QED BY <1>1, <1>5, <1>6, OutsideStep DEF ClientWrites

\* A client hangs up.
LEMMA ClientHangsUpStep ==
    ASSUME IInv, NEW c \in Clients, NEW how \in {"half", "full"}, ClientHangsUp(c, how)
    PROVE  IInv'
<1>1. cl \in [Clients -> ClientRec] /\ thread \in [Clients -> ThreadRec]
  BY DEF IInv, CoreInv, SockType, RestType
<1>2. cl' = [cl EXCEPT ![c] = [cl[c] EXCEPT !.hup = how]]
  BY DEF ClientHangsUp
<1>3. [cl[c] EXCEPT !.hup = how] \in ClientRec /\ [cl[c] EXCEPT !.hup = how].st = cl[c].st
  BY <1>1 DEF ClientRec
<1>4. cl' \in [Clients -> ClientRec] /\ \A d \in Clients : cl'[d].st = cl[d].st
  BY <1>1, <1>2, <1>3
<1> QED BY <1>1, <1>4, OutsideStep DEF ClientHangsUp

\* A service thread answers, or sees the hang-up.
LEMMA ThreadStep ==
    ASSUME IInv, NEW c \in Clients, ThreadAnswers(c) \/ ThreadSeesHup(c)
    PROVE  IInv'
<1>1. cl \in [Clients -> ClientRec] /\ thread \in [Clients -> ThreadRec]
  BY DEF IInv, CoreInv, SockType, RestType
<1>2. PICK r : thread' = [thread EXCEPT ![c] = r]
      /\ (r = [st |-> "done", out |-> 1] \/ r = [thread[c] EXCEPT !.st = "done"])
  BY DEF ThreadAnswers, ThreadSeesHup
<1>3. r \in ThreadRec
  BY <1>1, <1>2 DEF ThreadRec
<1>4. thread' \in [Clients -> ThreadRec] /\ cl' = cl
  BY <1>1, <1>2, <1>3 DEF ThreadAnswers, ThreadSeesHup
<1> QED BY <1>1, <1>4, OutsideStep DEF ThreadAnswers, ThreadSeesHup

-----------------------------------------------------------------------------
(* Steps of a callback that change no asocket *)

\* FDE_READ: the input is taken.
LEMMA EventReadStep ==
    ASSUME IInv, NEW x \in Socks, EventRead(x)
    PROVE  IInv'
<1> DEFINE eof == HungUp(x)
           data == IF x[1] = "client" THEN cl[x[2]].in ELSE [k \in 1..thread[x[2]].out |-> "data"]
<1>1. cl \in [Clients -> ClientRec] /\ thread \in [Clients -> ThreadRec] /\ cur \in CurRec
      /\ x[2] \in Clients /\ x \in HostFds
  BY SockNames DEF IInv, CoreInv, SockType, RestType
<1>2. cl' \in [Clients -> ClientRec] /\ (\A c \in Clients : cl'[c].st = cl[c].st)
      /\ thread' \in [Clients -> ThreadRec]
  <2>1. /\ [cl[x[2]] EXCEPT !.in = <<>>] \in ClientRec /\ [cl[x[2]] EXCEPT !.in = <<>>].st = cl[x[2]].st
    <3>1. <<>> \in Seq(UNION {Requests[e] : e \in Clients})
      OBVIOUS
    <3> QED BY <1>1, <3>1 DEF ClientRec
  <2>2. [thread[x[2]] EXCEPT !.out = 0] \in ThreadRec
    BY <1>1 DEF ThreadRec
  <2>3. \/ cl' = [cl EXCEPT ![x[2]] = [cl[x[2]] EXCEPT !.in = <<>>]] /\ thread' = thread
        \/ thread' = [thread EXCEPT ![x[2]] = [thread[x[2]] EXCEPT !.out = 0]] /\ cl' = cl
    BY DEF EventRead
  <2> QED BY <1>1, <2>1, <2>2, <2>3
<1>3. data \in Seq(AllRequests \cup {"data"}) /\ eof \in BOOLEAN
  <2>1. cl[x[2]].in \in Seq(AllRequests)
    BY <1>1 DEF ClientRec, AllRequests
  <2>2. cl[x[2]].in \in Seq(AllRequests \cup {"data"})
    BY <2>1
  <2>3. thread[x[2]].out \in Nat
    BY <1>1 DEF ThreadRec
  <2>4. [k \in 1..thread[x[2]].out |-> "data"] \in Seq(AllRequests \cup {"data"})
    BY <2>3
  <2> QED BY <2>2, <2>4 DEF HungUp
<1>4. /\ cur.pc = "event" /\ cur.fd = x
      /\ cur' = [cur EXCEPT !.pc = "enqueue", !.data = data, !.eof = eof]
        \/ cur' = [cur EXCEPT !.pc = "after", !.eof = eof]
  BY DEF EventRead, InCall
<1> HIDE DEF eof, data
<1>5. \E pc \in {"enqueue", "after"}, dt \in Seq(AllRequests \cup {"data"}) :
         cur' = [pc |-> pc, fd |-> cur.fd, ev |-> cur.ev, data |-> dt, eof |-> eof, r |-> cur.r]
  BY <1>1, <1>3, <1>4 DEF CurRec
<1>6. cur.fd \in HostFds \cup {<<>>} /\ cur.ev \in SUBSET Events /\ cur.r \in {0, 1}
  BY <1>1 DEF CurRec
<1>7. cur' \in CurRec /\ cur'.r = cur.r
  BY <1>3, <1>5, <1>6 DEF CurRec
<1>8. cur.r = 0
  BY <1>4, <1>6 DEF IInv, CreditInv
<1>9. \A y \in Socks : ~Stops(y) /\ ~Stops(y)'
  BY <1>7, <1>8 DEF Stops
<1> QED BY <1>2, <1>7, <1>8, <1>9, QuietStep DEF EventRead

\* The peer took the input: the mate wrote it, or A_WRTE was sent (EnqueueRemote).
LEMMA EnqueueWritesStep ==
    ASSUME IInv, NEW x \in Socks, EnqueueWrites(x) \/ EnqueueRemote(x)
    PROVE  IInv'
<1>1. cl \in [Clients -> ClientRec] /\ thread \in [Clients -> ThreadRec] /\ cur \in CurRec
  BY DEF IInv, CoreInv, SockType, RestType
<1>2. cur.pc = "enqueue" /\ cur.fd = x
  BY DEF EnqueueWrites, EnqueueRemote, InCall
<1>3. PICK r \in {0, 1} : Returned(r) /\ (r = 1 => sock[x].peer = "remote")
  BY DEF EnqueueWrites, EnqueueRemote
<1>4. cur' \in CurRec /\ cur'.pc = "after" /\ cur'.fd = cur.fd /\ cur'.r = r
  BY <1>1, <1>3, ReturnedCur
<1>5. \A y \in Socks : ~Stops(y) /\ (Stops(y)' => sock[y].peer = "remote")
  BY <1>2, <1>3, <1>4 DEF Stops
<1> QED BY <1>1, <1>4, <1>5, QuietStep DEF EnqueueWrites, EnqueueRemote

\* A request that is not complete.
LEMMA SmartWaitsStep ==
    ASSUME IInv, NEW c \in Clients, SmartWaits(c)
    PROVE  IInv'
<1>1. cl \in [Clients -> ClientRec] /\ thread \in [Clients -> ThreadRec] /\ cur \in CurRec
  BY DEF IInv, CoreInv, SockType, RestType
<1>2. cur' \in CurRec /\ cur'.r = 0 /\ cur.pc = "enqueue"
  BY <1>1, ReturnedCur DEF SmartWaits, InCall
<1>3. \A y \in Socks : ~Stops(y) /\ ~Stops(y)'
  BY <1>2 DEF Stops
<1> QED BY <1>1, <1>2, <1>3, QuietStep DEF SmartWaits

\* A callback whose asocket was freed.
LEMMA AfterFreeStep ==
    ASSUME IInv, NEW x \in Socks, AfterFree(x)
    PROVE  IInv'
<1>1. cl \in [Clients -> ClientRec] /\ thread \in [Clients -> ThreadRec] /\ cur \in CurRec
  BY DEF IInv, CoreInv, SockType, RestType
<1>2. cur.fd = x /\ sock[x].peer # "local"
  BY DEF AfterFree, InCall, IInv, CoreInv, PeersAgree, Alive
<1>3. cur' \in CurRec /\ cur'.pc # "after" /\ (cur'.r = 1 => cur'.pc = "crashed")
  <2>1. CASE Return
    BY <2>1, ReturnCur
  <2>2. CASE cur' = [cur EXCEPT !.pc = "crashed"]
    BY <1>1, <2>2 DEF CurRec
  <2> QED BY <2>1, <2>2 DEF AfterFree
<1>4. \A y \in Socks : (Stops(y) => sock[y].peer # "local") /\ ~Stops(y)'
  BY <1>2, <1>3 DEF Stops
<1> QED BY <1>1, <1>3, <1>4, QuietStep DEF AfterFree

-----------------------------------------------------------------------------
(* Steps of the event loop *)

\* A step of the loop that changes only what is pending.
LEMMA LoopStep ==
    ASSUME IInv, LoopType', PendingInv',
           \A x \in HostFds : fde'[x].active = fde[x].active /\ fde'[x].want = fde[x].want,
           UNCHANGED <<sock, smart, tracker, last, lst, disc, tr, thread, cl, updates>>,
           cur' \in CurRec, cur'.r = 0, \A x \in Socks : ~Stops(x)
    PROVE  IInv'
<1>1. CoreInv /\ RestType /\ ListenInv /\ UseInv /\ CreditInv /\ TrackersTold
  BY DEF IInv
<1>2. SockType' /\ PeersAgree' /\ StartInv'
  BY <1>1 DEF CoreInv, SockType, PeersAgree, StartInv
<1>3. SockInv'
  BY <1>1, SockNames DEF CoreInv, SockInv, Alive
<1>4. RestType' /\ UseInv' /\ TrackersTold'
  BY <1>1 DEF RestType, UseInv, TrackersTold
<1>5. ListenInv'
  BY <1>1, ListenerNames DEF ListenInv
<1>6. \A x \in Socks : ~Stops(x)'
  BY DEF Stops
<1>7. CreditInv'
  BY <1>1, <1>6, SockNames DEF CreditInv
<1> QED BY <1>2, <1>3, <1>4, <1>5, <1>7 DEF IInv, CoreInv

\* One round of poll().
LEMMA PollStep ==
    ASSUME IInv, NEW writable, Poll(writable)
    PROVE  IInv'
<1> DEFINE revents == [x \in HostFds |-> IF fde[x].active THEN Reported(x, writable) ELSE {}]
<1>1. \A x \in HostFds : revents[x] \in SUBSET Events
  BY DEF Reported, Events, Wanted
<1>2. Process(revents) /\ Idle /\ cur' = cur
  BY DEF Poll
<1>3. LoopType /\ PendingInv
  BY DEF IInv, CoreInv
<1> HIDE DEF revents
<1>4. /\ LoopType' /\ PendingInv'
      /\ \A x \in HostFds : fde'[x].active = fde[x].active /\ fde'[x].want = fde[x].want
  BY <1>1, <1>2, <1>3, ProcessEffect
<1>5. cur' \in CurRec /\ cur'.r = 0 /\ \A y \in Socks : ~Stops(y)
  BY <1>2, IdleFacts
<1>6. UNCHANGED <<sock, smart, tracker, last, lst, disc, tr, thread, cl, updates>>
  BY DEF Poll
<1> QED BY <1>4, <1>5, <1>6, LoopStep

\* A pending callback starts.
LEMMA DispatchStep ==
    ASSUME IInv, NEW x \in HostFds, Dispatch(x)
    PROVE  IInv'
<1>1. LoopType /\ PendingInv /\ CallFdfunc(x) /\ Idle
  BY DEF IInv, CoreInv, Dispatch
<1>2. /\ LoopType' /\ PendingInv'
      /\ \A y \in HostFds : fde'[y].active = fde[y].active /\ fde'[y].want = fde[y].want
  BY <1>1, CallEffect
<1>3. cur' = [pc |-> "event", fd |-> x, ev |-> fde[x].events, data |-> <<>>, eof |-> FALSE, r |-> 0]
  BY DEF Dispatch, NoCall
<1>4. <<>> \in Seq(AllRequests \cup {"data"}) /\ fde[x].events \in SUBSET Events
  BY <1>1 DEF LoopType, Fdevent
<1>5. cur' \in CurRec /\ cur'.r = 0
  BY <1>3, <1>4 DEF CurRec
<1>6. \A y \in Socks : ~Stops(y)
  BY <1>1 DEF Idle, Stops
<1>7. UNCHANGED <<sock, smart, tracker, last, lst, disc, tr, thread, cl, updates>>
  BY DEF Dispatch
<1> QED BY <1>2, <1>5, <1>6, <1>7, LoopStep

-----------------------------------------------------------------------------
(* Steps that change one client, whose peer is not a local asocket *)

\* The client c, with asocket x, is open afterwards, and its peer, its smart socket, its
\* tracker, its queue and its transport agree.
Reshaped(c, x) ==
    /\ sock[x].peer # "local" /\ sock'[x].peer # "local" /\ sock'[x].st = "open"
    /\ cl'[c].st = "conn" /\ fde'[x].active /\ ("WRITE" \in fde'[x].want <=> sock'[x].q > 0)
    /\ sock'[x].trans # NoTransport => tr[sock'[x].trans] = "online"
    /\ smart'[c].alive <=> sock'[x].peer = "smart"
    /\ ~smart'[c].alive => smart'[c] = NoSmart
    /\ smart'[c].trans # NoTransport => tr[smart'[c].trans] = "online"
    /\ c \in tracker' <=> sock'[x].peer = "tracker"
    /\ c \in tracker' => \A t \in Transports : /\ last'[c][t] = "none" <=> tr[t] = "none"
                                               /\ tr[t] = "online" => last'[c][t] = "online"
    /\ sock'[x].peer = "smart" => /\ sock'[x].q = 0 /\ "READ" \in fde'[x].want
                                  /\ sock[Service(c)].st = "none" /\ ~Stops(x)'

\* Everything else is as it was, and no callback of another asocket runs.
OthersKept(c, x) ==
    /\ \A y \in HostFds \ {x} : fde'[y] = fde[y]
    /\ \A y \in Socks \ {x} : sock'[y] = sock[y] /\ ~Stops(y) /\ ~Stops(y)'
    /\ \A d \in Clients \ {c} : /\ smart'[d] = smart[d] /\ cl'[d].st = cl[d].st /\ last'[d] = last[d]
                                /\ d \in tracker' <=> d \in tracker
    /\ cur'.r = 1 => cur'.pc \in {"after", "crashed"}

\* A step that changes one client, whose peer is and stays no local asocket.
LEMMA ClientChange ==
    ASSUME IInv, LoopType', PendingInv', SockType', RestType', UNCHANGED <<lst, disc, tr>>,
           NEW c \in Clients, NEW x, x = Client(c), Reshaped(c, x), OthersKept(c, x)
    PROVE  IInv'
<1> USE DEF Reshaped, OthersKept
<1>1. CoreInv /\ ListenInv /\ UseInv /\ CreditInv /\ TrackersTold
  BY DEF IInv
<1>2. /\ x \in Socks /\ Mate(x) = Service(c) /\ Mate(x) \in Socks \ {x} /\ x[1] # "service" /\ x \in HostFds
      /\ \A d \in Clients : Client(d) \in Socks /\ Service(d) \in Socks \ {x} /\ (d # c => Client(d) # x)
      /\ \A y \in Socks : y \in HostFds /\ Mate(y) \in Socks /\ Mate(Mate(y)) = y
  BY SockNames
<1>3. \A y \in Socks : sock[y].peer = "local" => y # x /\ Mate(y) # x
  BY <1>1, <1>2 DEF CoreInv, PeersAgree
<1>4. SockInv'
  BY <1>1, <1>2 DEF CoreInv, SockInv, Alive
<1>5. PeersAgree'
  <2>1. \A y \in Socks :
          /\ sock'[y].peer = "local" => sock'[Mate(y)].st = "open" /\ sock'[Mate(y)].peer = "local"
          /\ sock'[y].peer # "null" => sock'[y].st = "open"
    BY <1>1, <1>2, <1>3 DEF CoreInv, PeersAgree
  <2>2. \A d \in Clients :
          /\ smart'[d].alive <=> sock'[Client(d)].peer = "smart"
          /\ d \in tracker' <=> sock'[Client(d)].peer = "tracker"
    BY <1>1, <1>2 DEF CoreInv, PeersAgree
  <2> QED BY <2>1, <2>2 DEF PeersAgree
<1>6. StartInv'
  BY <1>1, <1>2 DEF CoreInv, StartInv
<1>7. ListenInv'
  BY <1>1, <1>2, ListenerNames DEF ListenInv
<1>8. UseInv'
  BY <1>1, <1>2 DEF UseInv
<1>9. CreditInv'
  <2>1. ASSUME NEW y \in Socks, sock'[y].peer = "local"
        PROVE  ~Stops(y)' /\ ("READ" \in fde'[y].want <=> sock'[Mate(y)].q = 0)
    <3>1. y # x /\ sock[y].peer = "local" /\ Mate(y) # x
      BY <1>3, <2>1
    <3> QED BY <1>1, <1>2, <3>1 DEF CreditInv
  <2>2. ASSUME NEW y \in Socks, sock'[y].peer = "smart"
        PROVE  sock'[y].q = 0 /\ "READ" \in fde'[y].want /\ ~Stops(y)'
    BY <1>1, <1>2, <2>2 DEF CreditInv
  <2> QED BY <2>1, <2>2 DEF CreditInv
<1>10. TrackersTold'
  <2>1. tracker' \subseteq Clients
    BY DEF SockType
  <2>2. c \in tracker' => \A t \in Transports : /\ last'[c][t] = "none" <=> tr[t] = "none"
                                                /\ tr[t] = "online" => last'[c][t] = "online"
    BY DEF Reshaped
  <2>3. \A d \in Clients \ {c} : last'[d] = last[d] /\ (d \in tracker' <=> d \in tracker)
    BY DEF OthersKept
  <2> HIDE DEF Reshaped, OthersKept
  <2> QED BY <1>1, <2>1, <2>2, <2>3 DEF TrackersTold
<1> QED BY <1>4, <1>5, <1>6, <1>7, <1>8, <1>9, <1>10 DEF IInv, CoreInv

\* A client connects to the server.
LEMMA AcceptClientStep ==
    ASSUME IInv, NEW c \in Clients, AcceptClient(c)
    PROVE  IInv'
<1> DEFINE x == Client(c)
           chg == [y \in {x} |-> Install({"READ"})]
<1>1. CoreInv /\ RestType
  BY DEF IInv
<1>2. x \in Socks /\ x \in HostFds
  BY SockNames
<1>3. sock[x].st = "none" /\ sock[x] = NoSock /\ sock[Service(c)].st = "none" /\ ~fde[x].active
  BY <1>1, <1>2 DEF AcceptClient, CoreInv, StartInv, SockInv, NoSock, Asocket, Alive
<1>4. smart[c] = NoSmart /\ c \notin tracker /\ sock[x].peer = "null"
  BY <1>1, <1>2, <1>3 DEF CoreInv, PeersAgree, StartInv, NoSock, Asocket
<1>5. sock' = [sock EXCEPT ![x] = Asocket("open", "smart", NoTransport, FALSE)]
  BY DEF AcceptClient
<1>6. /\ smart' = [smart EXCEPT ![c] = [smart[c] EXCEPT !.alive = TRUE]]
      /\ LET r == [smart[c] EXCEPT !.alive = TRUE] IN r \in SmartRec /\ r.alive /\ r.trans = NoTransport
  <2>1. smart' = [smart EXCEPT ![c] = [smart[c] EXCEPT !.alive = TRUE]]
    BY DEF AcceptClient
  <2>2. smart[c] \in SmartRec
    BY <1>1 DEF CoreInv, SockType
  <2>3. smart[c].trans = NoTransport
    BY <1>4 DEF NoSmart
  <2>4. \A r \in SmartRec : [r EXCEPT !.alive = TRUE] \in SmartRec /\ [r EXCEPT !.alive = TRUE].alive
                            /\ [r EXCEPT !.alive = TRUE].trans = r.trans
    BY DEF SmartRec
  <2> QED BY <2>1, <2>2, <2>3, <2>4
<1>7. cl' = [cl EXCEPT ![c] = [cl[c] EXCEPT !.st = "conn"]] /\ LoopChange(chg)
  BY DEF AcceptClient
<1>8. [cl[c] EXCEPT !.st = "conn"] \in ClientRec /\ [cl[c] EXCEPT !.st = "conn"].st = "conn"
  BY <1>1 DEF CoreInv, SockType, ClientRec
<1>9. /\ LoopType' /\ PendingInv' /\ fde'[x].active /\ fde'[x].want = {"READ"}
      /\ \A y \in HostFds \ {x} : fde'[y] = fde[y]
  <2>1. DOMAIN chg = {x} /\ chg[x] = Install({"READ"})
    OBVIOUS
  <2>2. Allowed(fde[x], chg[x])
    BY <1>3, <2>1 DEF Allowed, Wanted
  <2>3. chg[x].op # "remove" /\ chg[x].want = {"READ"}
    BY <2>1 DEF Install
  <2> HIDE DEF chg
  <2> QED BY <1>1, <1>2, <1>7, <2>1, <2>2, <2>3, LoopEffect DEF CoreInv
<1>10. SockType' /\ tracker' = tracker
  <2>1. Asocket("open", "smart", NoTransport, FALSE) \in SockRec
    BY DEF Asocket, SockRec, SockStates, PeerKinds
  <2>2. sock \in [Socks -> SockRec] /\ smart \in [Clients -> SmartRec] /\ cl \in [Clients -> ClientRec]
        /\ tracker \subseteq Clients /\ tracker' = tracker
    BY <1>1 DEF AcceptClient, CoreInv, SockType
  <2>3. sock' \in [Socks -> SockRec]
    BY <1>2, <1>5, <2>1, <2>2
  <2>4. smart' \in [Clients -> SmartRec]
    BY <1>6, <2>2
  <2>5. cl' \in [Clients -> ClientRec]
    BY <1>7, <1>8, <2>2
  <2> QED BY <2>2, <2>3, <2>4, <2>5 DEF SockType
<1>11. RestType' /\ UNCHANGED <<last, lst, disc, tr>>
  BY <1>1 DEF AcceptClient, RestType
<1>12. /\ sock'[x] = Asocket("open", "smart", NoTransport, FALSE) /\ \A y \in Socks \ {x} : sock'[y] = sock[y]
       /\ smart'[c].alive /\ smart'[c].trans = NoTransport /\ \A d \in Clients \ {c} : smart'[d] = smart[d]
       /\ cl'[c].st = "conn" /\ \A d \in Clients \ {c} : cl'[d] = cl[d]
  BY <1>1, <1>2, <1>5, <1>6, <1>7, <1>8 DEF CoreInv, SockType
<1>13. /\ sock'[x].st = "open" /\ sock'[x].peer = "smart" /\ sock'[x].trans = NoTransport /\ sock'[x].q = 0
  BY <1>12 DEF Asocket
<1>14. Idle /\ cur' = cur
  BY DEF AcceptClient
<1>15. cur'.r = 0 /\ \A y \in Socks : ~Stops(y) /\ ~Stops(y)'
  BY <1>14, IdleFacts
<1> HIDE DEF x
<1>16. Reshaped(c, x)
  <2>1. c \notin tracker' /\ ("WRITE" \in fde'[x].want <=> sock'[x].q > 0) /\ "READ" \in fde'[x].want
    BY <1>4, <1>9, <1>10, <1>13
  <2> QED BY <1>2, <1>3, <1>4, <1>9, <1>12, <1>13, <1>15, <2>1 DEF Reshaped
<1>17. OthersKept(c, x)
  BY <1>9, <1>10, <1>11, <1>12, <1>15 DEF OthersKept
<1> QED BY <1>9, <1>10, <1>11, <1>16, <1>17, ClientChange DEF x

\* A callback that changes one fdevent.
LEMMA OneChange ==
    ASSUME CoreInv, NEW x \in HostFds, NEW chg, DOMAIN chg = {x}, NEW w \in SUBSET Wanted,
           (chg[x] = Install(w) /\ ~fde[x].active) \/ (chg[x] = Set(w) /\ fde[x].active),
           LoopChange(chg)
    PROVE  /\ LoopType' /\ PendingInv' /\ fde'[x].active /\ fde'[x].want = w
           /\ \A y \in HostFds \ {x} : fde'[y] = fde[y]
<1>1. Allowed(fde[x], chg[x])
  BY DEF Allowed
<1>2. chg[x].op # "remove" /\ chg[x].want = w
  BY DEF Install, Set
<1> QED BY <1>1, <1>2, LoopEffect DEF CoreInv

\* A forward takes a client: the listener names a transport that is online, or was
\* removed while its callback was pending, and then names none.
LEMMA AcceptStep ==
    ASSUME IInv, NEW l \in Names, NEW c \in Clients, Accept(l, c)
    PROVE  IInv'
<1> DEFINE x == Client(c)
           chg == [y \in {x} |-> Install({})]
           new == Asocket("open", "null", lst[l].trans, FALSE)
<1>1. CoreInv /\ RestType /\ ListenInv
  BY DEF IInv
<1>2. x \in Socks /\ x \in HostFds
  BY SockNames
<1>3. sock[x].st = "none" /\ sock[x] = NoSock /\ ~fde[x].active
  BY <1>1, <1>2 DEF Accept, CoreInv, StartInv, SockInv, NoSock, Asocket, Alive
<1>4. smart[c] = NoSmart /\ c \notin tracker /\ sock[x].peer = "null"
  BY <1>1, <1>2, <1>3 DEF CoreInv, PeersAgree, StartInv, NoSock, Asocket
<1>5. lst[l].trans \in Transports \cup {NoTransport}
      /\ (lst[l].trans # NoTransport => tr[lst[l].trans] = "online")
  <2>1. lst[l] \in ListenerRec
    BY <1>1 DEF RestType
  <2>2. lst[l].trans # NoTransport => lst[l].on
    BY <1>1 DEF ListenInv, NoListener
  <2> QED BY <1>1, <2>1, <2>2 DEF ListenInv, ListenerRec
<1>6. /\ sock' = [sock EXCEPT ![x] = new] /\ cl' = [cl EXCEPT ![c] = [cl[c] EXCEPT !.st = "conn"]]
      /\ LoopChange(chg) /\ Return /\ UNCHANGED <<smart, tracker, last, lst, disc, tr, thread, updates>>
  BY DEF Accept
<1>7. [cl[c] EXCEPT !.st = "conn"] \in ClientRec /\ [cl[c] EXCEPT !.st = "conn"].st = "conn"
  BY <1>1 DEF CoreInv, SockType, ClientRec
<1>8. DOMAIN chg = {x} /\ chg[x] = Install({})
  OBVIOUS
<1>9. new \in SockRec /\ new.st = "open" /\ new.peer = "null" /\ new.q = 0 /\ new.trans = lst[l].trans
  BY <1>5 DEF Asocket, SockRec, SockStates, PeerKinds
<1> HIDE DEF x, chg, new
<1>10. /\ LoopType' /\ PendingInv' /\ fde'[x].active /\ fde'[x].want = {}
          /\ \A y \in HostFds \ {x} : fde'[y] = fde[y]
  <2>1. ~fde[x].active /\ LoopChange(chg)
    BY <1>3, <1>6
  <2>2. Allowed(fde[x], chg[x])
    BY <1>8, <2>1 DEF Allowed
  <2>3. chg[x].op # "remove" /\ chg[x].want = {}
    BY <1>8 DEF Install
  <2> QED BY <1>1, <1>2, <1>8, <2>1, <2>2, <2>3, LoopEffect DEF CoreInv
<1>11. SockType' /\ RestType'
  <2>1. cur' \in CurRec
    BY <1>6, ReturnCur
  <2>2. SockType'
    BY <1>1, <1>6, <1>7, <1>9 DEF CoreInv, SockType
  <2> QED BY <1>1, <1>6, <2>1, <2>2 DEF RestType
<1>12. /\ sock'[x] = new /\ \A y \in Socks \ {x} : sock'[y] = sock[y]
       /\ cl'[c].st = "conn" /\ \A d \in Clients \ {c} : cl'[d] = cl[d]
  BY <1>1, <1>2, <1>6, <1>7 DEF CoreInv, SockType
<1>13. cur'.r = 0 /\ \A y \in Socks : ~Stops(y) /\ ~Stops(y)'
  BY <1>6, ReturnCur DEF Accept, InCall, Stops
<1>14. Reshaped(c, x)
  <2>1. c \notin tracker' /\ smart'[c] = NoSmart /\ ~smart'[c].alive /\ smart'[c].trans = NoTransport
    BY <1>4, <1>6 DEF NoSmart
  <2> QED BY <1>4, <1>5, <1>9, <1>10, <1>12, <2>1 DEF Reshaped
<1>15. OthersKept(c, x)
  BY <1>6, <1>10, <1>12, <1>13 DEF OthersKept
<1> QED BY <1>6, <1>10, <1>11, <1>14, <1>15, ClientChange DEF x

\* A smart socket chooses a transport.
LEMMA SmartTransportStep ==
    ASSUME IInv, NEW c \in Clients, NEW u \in Requests[c], SmartTransport(c, u)
    PROVE  IInv'
<1> DEFINE x == Client(c)
           t == IF Acquired(u.t) THEN u.t ELSE smart[c].trans
           new == [smart[c] EXCEPT !.trans = t]
           ncl == [cl[c] EXCEPT !.owed = FALSE]
<1>1. CoreInv /\ RestType /\ UseInv /\ CreditInv
  BY DEF IInv
<1>2. /\ x \in Socks /\ sock[x].st = "open" /\ sock[x].peer = "smart" /\ Alive(x)
      /\ smart[c].alive /\ sock[Service(c)].st = "none" /\ u.t \in Transports
      /\ cur \in CurRec /\ \A y \in Socks : ~Stops(y)
  BY AskedFacts DEF SmartTransport
<1>3. cur' \in CurRec /\ cur'.r = 0
  BY <1>2, ReturnedCur DEF SmartTransport
<1>4. smart' = [smart EXCEPT ![c] = new] /\ cl' = [cl EXCEPT ![c] = ncl]
  BY DEF SmartTransport
<1>5. /\ UNCHANGED <<fde, pending, sock, tracker, last, lst, disc, tr, thread, updates>>
  BY DEF SmartTransport
<1>6. t \in Transports \cup {NoTransport} /\ (t # NoTransport => tr[t] = "online")
  <2>1. smart[c] \in SmartRec
    BY <1>1 DEF CoreInv, SockType
  <2> QED BY <1>1, <1>2, <2>1 DEF Acquired, UseInv, SmartRec
<1>7. new \in SmartRec /\ new.alive /\ new.trans = t
  <2>1. smart[c] \in SmartRec
    BY <1>1 DEF CoreInv, SockType
  <2> HIDE DEF t
  <2> QED BY <1>2, <1>6, <2>1 DEF SmartRec
<1>8. ncl \in ClientRec /\ ncl.st = cl[c].st
  BY <1>1 DEF CoreInv, SockType, ClientRec
<1> HIDE DEF t, new, ncl, x
<1>9. SockType' /\ LoopType' /\ PendingInv'
  BY <1>1, <1>4, <1>5, <1>7, <1>8 DEF CoreInv, SockType, LoopType, PendingInv
<1>10. RestType'
  BY <1>1, <1>3, <1>5 DEF RestType
<1>11. /\ smart'[c] = new /\ \A d \in Clients \ {c} : smart'[d] = smart[d]
       /\ cl'[c].st = cl[c].st /\ \A d \in Clients \ {c} : cl'[d] = cl[d]
  BY <1>1, <1>4, <1>8 DEF CoreInv, SockType
<1>12. \A y \in Socks : ~Stops(y)'
  BY <1>3 DEF Stops
<1>13. Reshaped(c, x)
  <2>1. cl[c].st = "conn" /\ fde[x].active /\ ("WRITE" \in fde[x].want <=> sock[x].q > 0) /\ c \notin tracker
    BY <1>1, <1>2 DEF CoreInv, StartInv, SockInv, PeersAgree, x
  <2>2. sock[x].q = 0 /\ "READ" \in fde[x].want
    BY <1>1, <1>2 DEF CreditInv
  <2>3. sock[x].trans # NoTransport => tr[sock[x].trans] = "online"
    BY <1>1, <1>2 DEF UseInv
  <2> QED BY <1>2, <1>5, <1>6, <1>7, <1>11, <1>12, <2>1, <2>2, <2>3 DEF Reshaped
<1>14. OthersKept(c, x)
  BY <1>2, <1>3, <1>5, <1>11, <1>12 DEF OthersKept
<1> QED BY <1>5, <1>9, <1>10, <1>13, <1>14, ClientChange DEF x

\* A client is connected to a service of a device.
LEMMA SmartOpenStep ==
    ASSUME IInv, NEW c \in Clients, NEW u \in Requests[c], SmartOpen(c, u)
    PROVE  IInv'
<1> DEFINE x == Client(c)
           new == Asocket("open", "null", smart[c].trans, TRUE)
<1>1. CoreInv /\ RestType /\ CreditInv
  BY DEF IInv
<1>2. /\ x \in Socks /\ sock[x].st = "open" /\ sock[x].peer = "smart" /\ Alive(x)
      /\ cur \in CurRec /\ cur.fd = x /\ \A y \in Socks : ~Stops(y)
  BY AskedFacts DEF SmartOpen
<1>3. cur' \in CurRec /\ cur'.r = 1 /\ cur'.pc = "after" /\ cur'.fd = x
  BY <1>2, ReturnedCur DEF SmartOpen
<1>4. /\ sock' = [sock EXCEPT ![x] = new] /\ smart' = [smart EXCEPT ![c] = NoSmart]
      /\ UNCHANGED <<fde, pending, tracker, last, lst, disc, tr, thread, cl, updates>>
  BY DEF SmartOpen
<1>5. smart[c].trans \in Transports /\ tr[smart[c].trans] = "online"
  <2>1. smart[c] \in SmartRec
    BY <1>1 DEF CoreInv, SockType
  <2> QED BY <2>1 DEF SmartOpen, Acquired, SmartRec
<1>6. new \in SockRec /\ new.st = "open" /\ new.peer = "null" /\ new.q = 0 /\ new.trans = smart[c].trans
  BY <1>5 DEF Asocket, SockRec, SockStates, PeerKinds
<1>7. NoSmart \in SmartRec /\ ~NoSmart.alive /\ NoSmart.trans = NoTransport
  BY DEF NoSmart, SmartRec
<1> HIDE DEF x, new
<1>8. SockType' /\ LoopType' /\ PendingInv'
  BY <1>1, <1>4, <1>6, <1>7 DEF CoreInv, SockType, LoopType, PendingInv
<1>9. RestType'
  BY <1>1, <1>3, <1>4 DEF RestType
<1>10. /\ sock'[x] = new /\ \A y \in Socks \ {x} : sock'[y] = sock[y]
       /\ smart'[c] = NoSmart /\ \A d \in Clients \ {c} : smart'[d] = smart[d]
  BY <1>1, <1>2, <1>4 DEF CoreInv, SockType
<1>11. \A y \in Socks \ {x} : ~Stops(y)'
  BY <1>3 DEF Stops
<1>12. Reshaped(c, x)
  <2>1. cl[c].st = "conn" /\ fde[x].active /\ ("WRITE" \in fde[x].want <=> sock[x].q > 0) /\ c \notin tracker
    BY <1>1, <1>2 DEF CoreInv, StartInv, SockInv, PeersAgree, x
  <2>2. sock[x].q = 0
    BY <1>1, <1>2 DEF CreditInv
  <2> QED BY <1>2, <1>4, <1>5, <1>6, <1>7, <1>10, <2>1, <2>2 DEF Reshaped
<1>13. OthersKept(c, x)
  BY <1>2, <1>3, <1>4, <1>10, <1>11 DEF OthersKept
<1> QED BY <1>4, <1>8, <1>9, <1>12, <1>13, ClientChange DEF x

\* A client becomes a tracker.
LEMMA SmartTrackStep ==
    ASSUME IInv, NEW c \in Clients, NEW u \in Requests[c], NEW queued \in BOOLEAN, SmartTrack(c, u, queued)
    PROVE  IInv'
<1> DEFINE x == Client(c)
           n == IF queued THEN 1 ELSE 0
           new == [sock[x] EXCEPT !.peer = "tracker", !.q = n]
           ncl == [cl[c] EXCEPT !.owed = FALSE]
           chg == IF queued THEN [y \in {x} |-> Set(fde[y].want \cup {"WRITE"})] ELSE Nothing
<1>1. CoreInv /\ RestType /\ CreditInv /\ UseInv
  BY DEF IInv
<1>2. /\ x \in Socks /\ sock[x].st = "open" /\ sock[x].peer = "smart" /\ Alive(x) /\ x \in HostFds
      /\ cur \in CurRec /\ \A y \in Socks : ~Stops(y)
  BY AskedFacts, SockNames DEF SmartTrack
<1>3. cur' \in CurRec /\ cur'.r = 0
  BY <1>2, ReturnedCur DEF SmartTrack
<1>4. /\ sock' = [sock EXCEPT ![x] = new] /\ smart' = [smart EXCEPT ![c] = NoSmart]
         /\ cl' = [cl EXCEPT ![c] = ncl]
      /\ tracker' = tracker \cup {c} /\ last' = [last EXCEPT ![c] = DeviceList] /\ LoopChange(chg)
      /\ UNCHANGED <<lst, disc, tr, thread, updates>>
  <2>1. sock \in [Socks -> SockRec]
    BY <1>1 DEF CoreInv, SockType
  <2>2. sock' = [sock EXCEPT ![x].peer = "tracker", ![x].q = n]
    BY DEF SmartTrack
  <2>3. sock' = [sock EXCEPT ![x] = new]
    BY <1>2, <2>1, <2>2
  <2> QED BY <2>3 DEF SmartTrack
<1>5. sock[x].q = 0 /\ fde[x].active /\ fde[x].want \in SUBSET Wanted /\ "WRITE" \notin fde[x].want
  BY <1>1, <1>2 DEF CreditInv, CoreInv, SockInv, LoopType, Fdevent
<1>6. new \in SockRec /\ new.st = "open" /\ new.peer = "tracker" /\ new.q = n /\ new.trans = sock[x].trans
  <2>1. sock[x] \in SockRec /\ n \in Nat
    BY <1>1, <1>2 DEF CoreInv, SockType
  <2> HIDE DEF n
  <2>2. \A r \in SockRec : LET s == [r EXCEPT !.peer = "tracker"]
                           IN  s \in SockRec /\ s.st = r.st /\ s.peer = "tracker" /\ s.trans = r.trans
    BY DEF SockRec, PeerKinds
  <2>3. \A r \in SockRec, m \in Nat : LET s == [r EXCEPT !.q = m]
                                      IN  s \in SockRec /\ s.st = r.st /\ s.peer = r.peer
                                        /\ s.trans = r.trans /\ s.q = m
    BY DEF SockRec
  <2>4. new = [[sock[x] EXCEPT !.peer = "tracker"] EXCEPT !.q = n]
    BY <2>1 DEF SockRec
  <2>5. PICK s : s = [sock[x] EXCEPT !.peer = "tracker"]
    OBVIOUS
  <2>6. s \in SockRec /\ s.st = "open" /\ s.peer = "tracker" /\ s.trans = sock[x].trans
        /\ new = [s EXCEPT !.q = n]
    BY <1>2, <2>1, <2>2, <2>4, <2>5
  <2> HIDE DEF new
  <2> QED BY <2>1, <2>3, <2>6
<1>7. ncl \in ClientRec /\ ncl.st = cl[c].st
  BY <1>1 DEF CoreInv, SockType, ClientRec
<1>8. NoSmart \in SmartRec /\ ~NoSmart.alive /\ NoSmart.trans = NoTransport
  BY DEF NoSmart, SmartRec
<1>9. /\ DeviceList \in [Transports -> States]
      /\ \A t \in Transports : (DeviceList[t] = "none" <=> tr[t] = "none")
         /\ (tr[t] = "online" => DeviceList[t] = "online")
  BY <1>1 DEF RestType, DeviceList, States
<1>10. /\ LoopType' /\ PendingInv' /\ fde'[x].active /\ ("WRITE" \in fde'[x].want <=> queued)
       /\ \A y \in HostFds \ {x} : fde'[y] = fde[y]
  <2>1. CASE queued
    <3>1. DOMAIN chg = {x} /\ chg[x] = Set(fde[x].want \cup {"WRITE"})
          /\ fde[x].want \cup {"WRITE"} \in SUBSET Wanted
      BY <1>5, <2>1 DEF Wanted
    <3> HIDE DEF chg
    <3> QED BY <1>1, <1>2, <1>4, <1>5, <2>1, <3>1, OneChange
  <2>2. CASE ~queued
    <3>1. DOMAIN chg = {}
      BY <2>2, NothingFits
    <3> HIDE DEF chg
    <3>2. LoopType' /\ PendingInv' /\ \A y \in HostFds : fde'[y] = fde[y]
      BY <1>1, <1>4, <3>1, LoopEffect DEF CoreInv
    <3> QED BY <1>2, <1>5, <2>2, <3>2
  <2> QED BY <2>1, <2>2
<1>11. n > 0 <=> queued
  OBVIOUS
<1> HIDE DEF x, new, ncl, chg, n
<1>12. SockType'
  BY <1>1, <1>4, <1>6, <1>7, <1>8 DEF CoreInv, SockType
<1>13. RestType'
  BY <1>1, <1>3, <1>4, <1>9 DEF RestType
<1>14. /\ sock'[x] = new /\ \A y \in Socks \ {x} : sock'[y] = sock[y]
       /\ smart'[c] = NoSmart /\ \A d \in Clients \ {c} : smart'[d] = smart[d]
       /\ cl'[c].st = cl[c].st /\ \A d \in Clients \ {c} : cl'[d] = cl[d]
       /\ last'[c] = DeviceList /\ \A d \in Clients \ {c} : last'[d] = last[d]
  BY <1>1, <1>2, <1>4, <1>7 DEF CoreInv, SockType, RestType
<1>15. \A y \in Socks : ~Stops(y)'
  BY <1>3 DEF Stops
<1>16. Reshaped(c, x)
  <2>1. cl[c].st = "conn" /\ (sock[x].trans # NoTransport => tr[sock[x].trans] = "online")
    BY <1>1, <1>2 DEF CoreInv, StartInv, UseInv, x
  <2> QED BY <1>2, <1>4, <1>6, <1>8, <1>9, <1>10, <1>11, <1>14, <2>1 DEF Reshaped
<1>17. OthersKept(c, x)
  BY <1>2, <1>3, <1>4, <1>10, <1>14, <1>15 DEF OthersKept
<1> QED BY <1>4, <1>10, <1>12, <1>13, <1>16, <1>17, ClientChange DEF x

\* A_OKAY.
LEMMA StreamOkayStep ==
    ASSUME IInv, NEW c \in Clients, StreamOkay(c)
    PROVE  IInv'
<1> DEFINE x == Client(c)
           new == [sock[x] EXCEPT !.peer = "remote", !.rig = FALSE]
           owed == IF sock[x].rig THEN FALSE ELSE cl[c].owed
           ncl == [cl[c] EXCEPT !.owed = owed]
           chg == [y \in {x} |-> Set(fde[y].want \cup {"READ"})]
<1>1. CoreInv /\ RestType /\ UseInv
  BY DEF IInv
<1>2. x \in Socks /\ x \in HostFds /\ sock[x].st = "open" /\ sock[x].peer \in {"null", "remote"} /\ Idle
  BY SockNames DEF StreamOkay, Streaming
<1>3. cur' \in CurRec /\ cur'.r = 0 /\ \A y \in Socks : ~Stops(y) /\ ~Stops(y)'
  BY IdleFacts DEF StreamOkay
<1>4. /\ sock' = [sock EXCEPT ![x] = new] /\ cl' = [cl EXCEPT ![c] = ncl] /\ LoopChange(chg)
      /\ UNCHANGED <<smart, tracker, last, lst, disc, tr, thread, updates>>
  <2>1. sock \in [Socks -> SockRec]
    BY <1>1 DEF CoreInv, SockType
  <2>2. sock' = [sock EXCEPT ![x].peer = "remote", ![x].rig = FALSE]
    BY DEF StreamOkay
  <2>3. sock' = [sock EXCEPT ![x] = new]
    BY <1>2, <2>1, <2>2
  <2> QED BY <2>3 DEF StreamOkay
<1>5. fde[x].active /\ fde[x].want \in SUBSET Wanted /\ ("WRITE" \in fde[x].want <=> sock[x].q > 0)
  BY <1>1, <1>2 DEF CoreInv, SockInv, Alive, LoopType, Fdevent
<1>6. new \in SockRec /\ new.st = "open" /\ new.peer = "remote" /\ new.q = sock[x].q
      /\ new.trans = sock[x].trans
  <2>1. sock[x] \in SockRec
    BY <1>1, <1>2 DEF CoreInv, SockType
  <2>2. \A r \in SockRec : LET s == [r EXCEPT !.peer = "remote"]
                           IN  s \in SockRec /\ s.st = r.st /\ s.peer = "remote" /\ s.trans = r.trans
                             /\ s.q = r.q
    BY DEF SockRec, PeerKinds
  <2>3. \A r \in SockRec : LET s == [r EXCEPT !.rig = FALSE]
                           IN  s \in SockRec /\ s.st = r.st /\ s.peer = r.peer /\ s.trans = r.trans
                             /\ s.q = r.q
    BY DEF SockRec
  <2> QED BY <1>2, <2>1, <2>2, <2>3
<1>7. ncl \in ClientRec /\ ncl.st = cl[c].st
  <2>1. cl[c] \in ClientRec /\ owed \in BOOLEAN
    BY <1>1 DEF CoreInv, SockType, ClientRec
  <2> HIDE DEF owed
  <2> QED BY <2>1 DEF ClientRec
<1>8. DOMAIN chg = {x} /\ chg[x] = Set(fde[x].want \cup {"READ"})
      /\ fde[x].want \cup {"READ"} \in SUBSET Wanted
  BY <1>5 DEF Wanted
<1> HIDE DEF x, new, ncl, chg
<1>10. /\ LoopType' /\ PendingInv' /\ fde'[x].active /\ fde'[x].want = fde[x].want \cup {"READ"}
       /\ \A y \in HostFds \ {x} : fde'[y] = fde[y]
  BY <1>1, <1>2, <1>4, <1>5, <1>8, OneChange
<1>12. SockType'
  BY <1>1, <1>4, <1>6, <1>7 DEF CoreInv, SockType
<1>13. RestType'
  BY <1>1, <1>3, <1>4 DEF RestType
<1>14. /\ sock'[x] = new /\ \A y \in Socks \ {x} : sock'[y] = sock[y]
       /\ cl'[c].st = cl[c].st /\ \A d \in Clients \ {c} : cl'[d] = cl[d]
  BY <1>1, <1>2, <1>4, <1>7 DEF CoreInv, SockType
<1>16. Reshaped(c, x)
  <2>1. cl[c].st = "conn" /\ (sock[x].trans # NoTransport => tr[sock[x].trans] = "online")
    BY <1>1, <1>2 DEF CoreInv, StartInv, UseInv, x
  <2>2. smart[c] = NoSmart /\ c \notin tracker
    BY <1>1, <1>2 DEF CoreInv, PeersAgree, StartInv, x
  <2>3. ~smart'[c].alive /\ smart'[c].trans = NoTransport /\ smart'[c] = NoSmart /\ c \notin tracker'
    BY <1>4, <2>2 DEF NoSmart
  <2>4. "WRITE" \in fde'[x].want <=> sock'[x].q > 0
    BY <1>5, <1>6, <1>10, <1>14
  <2> QED BY <1>2, <1>4, <1>6, <1>10, <1>14, <2>1, <2>3, <2>4 DEF Reshaped
<1>17. OthersKept(c, x)
  BY <1>3, <1>4, <1>10, <1>14 DEF OthersKept
<1> QED BY <1>4, <1>10, <1>12, <1>13, <1>16, <1>17, ClientChange DEF x

-----------------------------------------------------------------------------
(* Steps that change what is queued and what is listened for *)

\* A step that changes what is queued and listened for, and no state, peer or transport.
LEMMA QueueStep ==
    ASSUME IInv, LoopType', PendingInv', sock' \in [Socks -> SockRec],
           \A y \in Socks : /\ sock'[y].st = sock[y].st /\ sock'[y].peer = sock[y].peer
                               /\ sock'[y].trans = sock[y].trans
                            /\ sock[y].st \in {"none", "dead"} => sock'[y] = sock[y]
                            /\ fde'[y].active <=> fde[y].active
                            /\ Alive(y) => ("WRITE" \in fde'[y].want <=> sock'[y].q > 0),
           \A l \in Names : fde'[Lfd(l)] = fde[Lfd(l)],
           UNCHANGED <<smart, tracker, last, lst, disc, tr, thread, cl, updates>>, cur' \in CurRec, CreditInv'
    PROVE  IInv'
<1>1. CoreInv /\ RestType /\ ListenInv /\ UseInv /\ TrackersTold
  BY DEF IInv
<1>2. SockType'
  BY <1>1 DEF CoreInv, SockType
<1>3. SockInv'
  BY <1>1 DEF CoreInv, SockInv, Alive
<1>4. PeersAgree'
  BY <1>1, SockNames DEF CoreInv, PeersAgree
<1>5. StartInv'
  BY <1>1, SockNames DEF CoreInv, StartInv
<1>6. RestType' /\ TrackersTold' /\ ListenInv'
  BY <1>1 DEF RestType, TrackersTold, ListenInv
<1>7. UseInv'
  BY <1>1 DEF UseInv
<1> QED BY <1>2, <1>3, <1>4, <1>5, <1>6, <1>7 DEF IInv, CoreInv

\* A part of the queue is written: no credit is given.
LEMMA EventWriteSomeStep ==
    ASSUME IInv, NEW x \in Socks, NEW k \in Nat, EventWriteSome(x, k)
    PROVE  IInv'
<1> DEFINE new == [sock[x] EXCEPT !.q = sock[x].q - k]
<1>1. CoreInv /\ CreditInv
  BY DEF IInv
<1>2. k < sock[x].q /\ Return /\ cur.pc = "event" /\ sock' = [sock EXCEPT ![x] = new]
      /\ UNCHANGED <<fde, pending, smart, tracker, last, lst, disc, tr, thread, cl, updates>>
  BY DEF EventWriteSome, InCall
<1>3. sock[x] \in SockRec /\ sock[x].q \in Nat
  BY <1>1 DEF CoreInv, SockType, SockRec
<1>4. sock[x].st \notin {"none", "dead"}
  BY <1>1, <1>2 DEF CoreInv, SockInv, NoSock, Dead, Asocket
<1>5. new \in SockRec /\ new.st = sock[x].st /\ new.peer = sock[x].peer /\ new.trans = sock[x].trans
      /\ new.q > 0
  BY <1>2, <1>3 DEF SockRec
<1> HIDE DEF new
<1>6. sock' \in [Socks -> SockRec] /\ sock'[x] = new /\ \A y \in Socks \ {x} : sock'[y] = sock[y]
  BY <1>1, <1>2, <1>5 DEF CoreInv, SockType
<1>7. LoopType' /\ PendingInv'
  BY <1>1, <1>2 DEF CoreInv, LoopType, PendingInv
<1>8. \A y \in Socks : Alive(y) => ("WRITE" \in fde[y].want <=> sock'[y].q > 0)
  BY <1>1, <1>2, <1>3, <1>5, <1>6 DEF CoreInv, SockInv
<1>9. \A y \in Socks : ~Stops(y) /\ ~Stops(y)'
  BY <1>2, ReturnCur DEF Stops
<1>10. \A y \in Socks : sock'[y].peer = sock[y].peer /\ (sock'[y].q = 0 <=> sock[y].q = 0)
  BY <1>2, <1>3, <1>5, <1>6
<1>11. CreditInv'
  BY <1>1, <1>2, <1>9, <1>10, SockNames, ReturnCur DEF CreditInv
<1>12. \A y \in Socks : /\ sock'[y].st = sock[y].st /\ sock'[y].peer = sock[y].peer
                           /\ sock'[y].trans = sock[y].trans
                        /\ sock[y].st \in {"none", "dead"} => sock'[y] = sock[y]
  BY <1>4, <1>5, <1>6
<1> QED BY <1>2, <1>6, <1>7, <1>8, <1>11, <1>12, ReturnCur, QueueStep

\* The queue drains: the mate is read again.
LEMMA EventWriteAllStep ==
    ASSUME IInv, NEW x \in Socks, EventWriteAll(x)
    PROVE  IInv'
<1> DEFINE new == [sock[x] EXCEPT !.q = 0]
           chg == ReadyChange(x)
<1>1. CoreInv /\ CreditInv /\ RestType
  BY DEF IInv
<1>2. /\ sock[x].st = "open" /\ cur.pc = "event" /\ sock' = [sock EXCEPT ![x] = new] /\ LoopChange(chg)
      /\ cur' = IF "READ" \in cur.ev THEN [cur EXCEPT !.ev = @ \ {"WRITE"}] ELSE NoCall
      /\ UNCHANGED <<smart, tracker, last, lst, disc, tr, thread, cl, updates>>
  BY DEF EventWriteAll, InCall
<1>3. sock[x] \in SockRec
  BY <1>1 DEF CoreInv, SockType
<1>4. new \in SockRec /\ new.st = sock[x].st /\ new.peer = sock[x].peer /\ new.trans = sock[x].trans
      /\ new.q = 0
  BY <1>3 DEF SockRec
<1> HIDE DEF new
<1>5. sock' \in [Socks -> SockRec] /\ sock'[x] = new /\ \A y \in Socks \ {x} : sock'[y] = sock[y]
  BY <1>1, <1>2, <1>4 DEF CoreInv, SockType
<1>6. /\ x \in HostFds /\ Mate(x) \in HostFds /\ Mate(x) # x /\ Mate(x) \in Socks /\ Mate(Mate(x)) = x
      /\ fde[x].active /\ fde[x].want \in SUBSET Wanted /\ fde[Mate(x)].want \in SUBSET Wanted
      /\ sock[x].peer = "local" => fde[Mate(x)].active
  BY <1>1, <1>2, SockNames DEF CoreInv, SockInv, PeersAgree, Alive, LoopType, Fdevent
<1>7. /\ DOMAIN chg = {x} \cup (IF sock[x].peer = "local" THEN {Mate(x)} ELSE {})
      /\ chg[x] = Set(fde[x].want \ {"WRITE"})
      /\ sock[x].peer = "local" => chg[Mate(x)] = Set(fde[Mate(x)].want \cup {"READ"})
  BY <1>6 DEF ReadyChange
<1> HIDE DEF chg
<1>8. \A y \in DOMAIN chg : y \in HostFds /\ Allowed(fde[y], chg[y]) /\ chg[y].op # "remove"
  <2>1. fde[x].want \ {"WRITE"} \in SUBSET Wanted /\ fde[Mate(x)].want \cup {"READ"} \in SUBSET Wanted
    BY <1>6 DEF Wanted
  <2>2. Allowed(fde[x], chg[x]) /\ chg[x].op # "remove"
    BY <1>6, <1>7, <2>1 DEF Allowed, Set
  <2>3. sock[x].peer = "local" => Allowed(fde[Mate(x)], chg[Mate(x)]) /\ chg[Mate(x)].op # "remove"
    BY <1>6, <1>7, <2>1 DEF Allowed, Set
  <2> QED BY <1>6, <1>7, <2>2, <2>3
<1>9. /\ LoopType' /\ PendingInv'
      /\ \A y \in DOMAIN chg : fde'[y].active /\ fde'[y].want = chg[y].want
      /\ \A y \in HostFds \ DOMAIN chg : fde'[y] = fde[y]
  <2>1. DOMAIN chg \subseteq HostFds
    BY <1>8
  <2> QED BY <1>1, <1>2, <1>8, <2>1, LoopEffect DEF CoreInv
<1>10. /\ fde'[x].active /\ fde'[x].want = fde[x].want \ {"WRITE"}
       /\ sock[x].peer = "local" => fde'[Mate(x)].active
          /\ fde'[Mate(x)].want = fde[Mate(x)].want \cup {"READ"}
       /\ sock[x].peer # "local" => fde'[Mate(x)] = fde[Mate(x)]
       /\ \A y \in HostFds \ {x, Mate(x)} : fde'[y] = fde[y]
  BY <1>6, <1>7, <1>9 DEF Set
<1>11. cur' \in CurRec /\ cur'.r = 0
  <2>1. cur \in CurRec /\ cur.r = 0
    BY <1>1, <1>2 DEF RestType, CreditInv, CurRec
  <2>2. CASE "READ" \in cur.ev
    <3>1. cur' = [cur EXCEPT !.ev = cur.ev \ {"WRITE"}] /\ cur.ev \ {"WRITE"} \in SUBSET Events
      BY <1>2, <2>1, <2>2 DEF CurRec
    <3> QED BY <2>1, <3>1 DEF CurRec
  <2>3. CASE "READ" \notin cur.ev
    BY <1>2, <2>3, ReturnCur DEF Return
  <2> QED BY <2>2, <2>3
<1>12. \A y \in Socks : ~Stops(y) /\ ~Stops(y)'
  BY <1>2, <1>11 DEF Stops
<1>13. \A y \in Socks : /\ sock'[y].st = sock[y].st /\ sock'[y].peer = sock[y].peer
                           /\ sock'[y].trans = sock[y].trans
                        /\ sock[y].st \in {"none", "dead"} => sock'[y] = sock[y]
  BY <1>2, <1>4, <1>5
<1>14. \A y \in Socks : /\ fde'[y].active <=> fde[y].active
                        /\ Alive(y) => ("WRITE" \in fde'[y].want <=> sock'[y].q > 0)
  <2>1. \A y \in Socks : Alive(y) => ("WRITE" \in fde[y].want <=> sock[y].q > 0)
    BY <1>1 DEF CoreInv, SockInv
  <2> QED BY <1>4, <1>5, <1>6, <1>10, <2>1, SockNames
<1>15. CreditInv'
  <2>1. ASSUME NEW y \in Socks, sock'[y].peer = "local" PROVE "READ" \in fde'[y].want <=> sock'[Mate(y)].q = 0
    <3>1. sock[y].peer = "local" /\ sock[Mate(y)].peer = "local" /\ y \in HostFds /\ Mate(y) \in Socks
          /\ Mate(Mate(y)) = y
      BY <1>1, <1>13, <2>1, SockNames DEF CoreInv, PeersAgree
    <3>2. "READ" \in fde[y].want <=> sock[Mate(y)].q = 0
      BY <1>1, <1>12, <3>1 DEF CreditInv
    <3>3. CASE y = x
      BY <1>5, <1>6, <1>10, <3>2, <3>3
    <3>4. CASE y = Mate(x)
      BY <1>4, <1>5, <1>6, <1>10, <3>1, <3>4
    <3>5. CASE y # x /\ y # Mate(x)
      BY <1>5, <1>6, <1>10, <3>1, <3>2, <3>5
    <3> QED BY <3>3, <3>4, <3>5
  <2>2. ASSUME NEW y \in Socks, sock'[y].peer = "smart" PROVE sock'[y].q = 0 /\ "READ" \in fde'[y].want
    <3>1. sock[y].peer = "smart" /\ sock[y].q = 0 /\ "READ" \in fde[y].want /\ y \in HostFds
      BY <1>1, <1>13, <2>2, SockNames DEF CreditInv
    <3> QED BY <1>4, <1>5, <1>10, <3>1
  <2> QED BY <1>11, <1>12, <2>1, <2>2 DEF CreditInv
<1>16. \A l \in Names : fde'[Lfd(l)] = fde[Lfd(l)]
  BY <1>6, <1>10, ListenerNames
<1> QED BY <1>2, <1>5, <1>9, <1>11, <1>13, <1>14, <1>15, <1>16, QueueStep

\* A callback stops reading, or queues a packet for its mate.
LEMMA PairStep ==
    ASSUME IInv, NEW Q, NEW more, Fit({}, Q, more), Effects({}, {}, Q, more), DOMAIN more \subseteq Socks,
           UNCHANGED <<last, lst, disc, tr, thread, updates>>, cur' \in CurRec, CreditInv'
    PROVE  IInv'
<1>1. CoreInv /\ RestType /\ ListenInv /\ UseInv /\ TrackersTold
  BY DEF IInv
<1>2. EffectsMade({}, {}, Q, more) /\ CoreInv'
  BY <1>1, EffectsCore
<1>3. RestType'
  BY <1>1 DEF RestType
<1>4. UseInv'
  BY <1>1, <1>2, EffectsUse DEF CoreInv
<1>5. TrackersTold'
  BY <1>1, <1>2, EffectsTrack
<1>6. \A l \in Names : fde'[Lfd(l)] = fde[Lfd(l)]
  BY <1>2, ListenerNames DEF EffectsMade
<1>7. ListenInv'
  BY <1>1, <1>6 DEF ListenInv
<1> QED BY <1>2, <1>3, <1>4, <1>5, <1>7 DEF IInv

\* A packet is queued for the mate: the callback has yet to stop reading.
LEMMA EnqueueQueuesStep ==
    ASSUME IInv, NEW x \in Socks, EnqueueQueues(x)
    PROVE  IInv'
<1> DEFINE m == Mate(x)
<1>1. CoreInv /\ CreditInv /\ RestType
  BY DEF IInv
<1>2. /\ cur.pc = "enqueue" /\ cur.fd = x /\ sock[x].peer = "local" /\ Effects({}, {}, {m}, Nothing)
      /\ Returned(1) /\ UNCHANGED <<last, lst, disc, tr, thread, updates>>
  BY DEF EnqueueQueues, InCall
<1>3. m \in Socks /\ m # x /\ Mate(m) = x /\ sock[m].st = "open" /\ sock[m].peer = "local"
  BY <1>1, <1>2, SockNames DEF CoreInv, PeersAgree
<1>4. cur' \in CurRec /\ cur'.pc = "after" /\ cur'.fd = x /\ cur'.r = 1
  BY <1>1, <1>2, ReturnedCur DEF RestType
<1> HIDE DEF m
<1>5. Fit({}, {m}, Nothing)
  BY <1>3, NothingFits DEF Fit
<1>6. EffectsMade({}, {}, {m}, Nothing)
  BY <1>1, <1>2, <1>5, EffectsCore
<1>7. Victims({}) = {}
  BY DEF Victims
<1>8. \A y \in Socks : /\ sock'[y].peer = sock[y].peer
                          /\ sock'[y].q = (IF y = m THEN sock[y].q + 1 ELSE sock[y].q)
                       /\ "READ" \in fde'[y].want <=> "READ" \in fde[y].want
  BY <1>6, <1>7, NothingFits DEF EffectsMade
<1>9. sock[m].q \in Nat
  BY <1>1, <1>3 DEF CoreInv, SockType, SockRec
<1>10. /\ Stops(x)' /\ \A y \in Socks \ {x} : ~Stops(y)'
       /\ \A y \in Socks : ~Stops(y)
  BY <1>2, <1>4 DEF Stops
<1>11. CreditInv'
  <2>1. ASSUME NEW y \in Socks, sock'[y].peer = "local"
        PROVE IF Stops(y)' THEN sock'[Mate(y)].q > 0 ELSE ("READ" \in fde'[y].want <=> sock'[Mate(y)].q = 0)
    <3>1. CASE y = x
      BY <1>3, <1>8, <1>9, <1>10, <3>1 DEF m
    <3>2. CASE y # x
      <4>1. Mate(y) # m /\ Mate(y) \in Socks /\ sock[y].peer = "local"
        BY <1>3, <1>8, <2>1, <3>2, SockNames DEF m
      <4> QED BY <1>1, <1>8, <1>10, <3>2, <4>1 DEF CreditInv
    <3> QED BY <3>1, <3>2
  <2>2. ASSUME NEW y \in Socks, sock'[y].peer = "smart" PROVE sock'[y].q = 0 /\ "READ" \in fde'[y].want
        /\ ~Stops(y)'
    <3>1. y # m /\ y # x /\ sock[y].peer = "smart"
      BY <1>2, <1>3, <1>8, <2>2
    <3> QED BY <1>1, <1>8, <1>10, <3>1 DEF CreditInv
  <2> QED BY <1>4, <2>1, <2>2 DEF CreditInv
<1> QED BY <1>2, <1>4, <1>5, <1>11, NothingFits, PairStep

\* The callback stops reading if a packet was queued, and closes at the end of file.
LEMMA AfterReadStep ==
    ASSUME IInv, NEW x \in Socks, AfterRead(x)
    PROVE  IInv'
<1>1. CoreInv /\ CreditInv /\ RestType
  BY DEF IInv
<1>2. /\ cur.pc = "after" /\ cur.fd = x /\ Alive(x) /\ Return
      /\ UNCHANGED <<last, lst, disc, tr, thread, updates>>
  BY DEF AfterRead, InCall
<1>3. cur' \in CurRec /\ cur'.pc = "none" /\ cur'.r = 0
  BY <1>2, ReturnCur
<1>4. (\A y \in Socks \ {x} : ~Stops(y)) /\ \A y \in Socks : ~Stops(y)'
  BY <1>2, <1>3 DEF Stops
<1>5. CASE cur.eof
  <2>1. Effects({x}, {}, {}, Nothing) /\ x \in Victims({x})
    BY <1>5 DEF AfterRead, Victims
  <2> QED BY <1>2, <1>3, <1>4, <2>1, PlainEffects
<1>6. CASE ~cur.eof /\ cur.r = 0
  <2>1. Effects({}, {}, {}, Nothing)
    BY <1>6 DEF AfterRead
  <2>2. ~Stops(x)
    BY <1>6 DEF Stops
  <2> QED BY <1>3, <1>2, <1>4, <2>1, <2>2, PlainEffects
<1>7. CASE ~cur.eof /\ cur.r = 1
  <2> DEFINE more == [y \in {x} |-> Set(fde[y].want \ {"READ"})]
  <2>1. Effects({}, {}, {}, more) /\ DOMAIN more = {x} /\ more[x] = Set(fde[x].want \ {"READ"})
    BY <1>7 DEF AfterRead
  <2>2. x \in HostFds /\ fde[x].active /\ fde[x].want \ {"READ"} \in SUBSET Wanted
    BY <1>1, <1>2, SockNames DEF CoreInv, SockInv, LoopType, Fdevent
  <2> HIDE DEF more
  <2>3. Fit({}, {}, more)
    BY <2>1, <2>2 DEF Fit, Allowed
  <2>4. EffectsMade({}, {}, {}, more)
    BY <1>1, <2>1, <2>3, EffectsCore
  <2>5. Victims({}) = {}
    BY DEF Victims
  <2>6. /\ \A y \in Socks : sock'[y].peer = sock[y].peer /\ sock'[y].q = sock[y].q
        /\ \A y \in Socks \ {x} : "READ" \in fde'[y].want <=> "READ" \in fde[y].want
        /\ "READ" \notin fde'[x].want
    BY <2>1, <2>4, <2>5 DEF EffectsMade, Set
  <2>7. Stops(x)
    BY <1>2, <1>7 DEF Stops
  <2>8. CreditInv'
    <3>1. ASSUME NEW y \in Socks,
                 sock'[y].peer = "local" PROVE "READ" \in fde'[y].want <=> sock'[Mate(y)].q = 0
      <4>1. CASE y = x
        BY <1>1, <2>6, <2>7, <3>1, <4>1, SockNames DEF CreditInv
      <4>2. CASE y # x
        BY <1>1, <1>4, <2>6, <3>1, <4>2, SockNames DEF CreditInv
      <4> QED BY <4>1, <4>2
    <3>2. ASSUME NEW y \in Socks, sock'[y].peer = "smart" PROVE sock'[y].q = 0 /\ "READ" \in fde'[y].want
      <4>1. y # x /\ sock[y].peer = "smart"
        BY <1>1, <2>6, <2>7, <3>2 DEF CreditInv
      <4> QED BY <1>1, <2>6, <4>1 DEF CreditInv
    <3> QED BY <1>3, <1>4, <3>1, <3>2 DEF CreditInv
  <2> QED BY <1>2, <1>3, <2>1, <2>3, <2>8, PairStep
<1>8. cur.r \in {0, 1}
  BY <1>1 DEF RestType, CurRec
<1> QED BY <1>5, <1>6, <1>7, <1>8

\* The service thread of a client starts, and its asocket becomes the peer.
LEMMA SmartThreadStep ==
    ASSUME IInv, NEW c \in Clients, NEW u \in Requests[c], SmartThread(c, u)
    PROVE  IInv'
<1> DEFINE x == Client(c)
           s == Service(c)
           new == [sock[x] EXCEPT !.peer = "local"]
           nsv == Asocket("open", "local", NoTransport, FALSE)
           ncl == [cl[c] EXCEPT !.owed = FALSE]
           nth == [thread[c] EXCEPT !.st = "run"]
           chg == [y \in {s} |-> Install({"READ"})]
<1>1. CoreInv /\ RestType /\ CreditInv /\ UseInv /\ ListenInv /\ TrackersTold
  BY DEF IInv
<1>2. /\ x \in Socks /\ sock[x].st = "open" /\ sock[x].peer = "smart"
      /\ sock[s].st = "none" /\ cur \in CurRec /\ \A y \in Socks : ~Stops(y)
  BY AskedFacts DEF SmartThread
<1>3. cur' \in CurRec /\ cur'.r = 0
  BY <1>2, ReturnedCur DEF SmartThread
<1>4. /\ s \in Socks /\ s # x /\ Mate(x) = s /\ Mate(s) = x /\ x \in HostFds /\ s \in HostFds
         /\ x[1] = "client"
      /\ \A d \in Clients : /\ Client(d) \in Socks /\ Service(d) \in Socks
                            /\ d # c => Client(d) \notin {x, s} /\ Service(d) \notin {x, s}
      /\ \A y \in Socks : y \in HostFds /\ Mate(y) \in Socks /\ (y \notin {x, s} => Mate(y) \notin {x, s})
      /\ \A l \in Names : Lfd(l) \in HostFds /\ Lfd(l) # s
  BY SockNames, ListenerNames
<1>5. /\ sock' = [sock EXCEPT ![x] = new, ![s] = nsv] /\ smart' = [smart EXCEPT ![c] = NoSmart]
      /\ cl' = [cl EXCEPT ![c] = ncl] /\ thread' = [thread EXCEPT ![c] = nth] /\ LoopChange(chg)
      /\ UNCHANGED <<tracker, last, lst, disc, tr, updates>>
  BY DEF SmartThread
<1>6. sock[x].q = 0 /\ "READ" \in fde[x].want /\ fde[x].active /\ "WRITE" \notin fde[x].want /\ ~fde[s].active
  BY <1>1, <1>2, <1>4 DEF CreditInv, CoreInv, SockInv, Alive
<1>7. /\ new \in SockRec /\ new.st = "open" /\ new.peer = "local" /\ new.q = 0 /\ new.trans = sock[x].trans
  <2>1. sock[x] \in SockRec
    BY <1>1, <1>2 DEF CoreInv, SockType
  <2> QED BY <1>2, <1>6, <2>1 DEF SockRec, PeerKinds
<1>8. nsv \in SockRec /\ nsv.st = "open" /\ nsv.peer = "local" /\ nsv.q = 0 /\ nsv.trans = NoTransport
  BY DEF Asocket, SockRec, SockStates, PeerKinds
<1>9. ncl \in ClientRec /\ ncl.st = cl[c].st
  BY <1>1 DEF CoreInv, SockType, ClientRec
<1>10. nth \in ThreadRec
  BY <1>1 DEF RestType, ThreadRec
<1>11. NoSmart \in SmartRec /\ ~NoSmart.alive /\ NoSmart.trans = NoTransport
  BY DEF NoSmart, SmartRec
<1>12. DOMAIN chg = {s} /\ chg[s] = Install({"READ"}) /\ {"READ"} \in SUBSET Wanted
  BY DEF Wanted
<1> HIDE DEF x, s, new, nsv, ncl, nth, chg
<1>13. /\ LoopType' /\ PendingInv' /\ fde'[s].active /\ fde'[s].want = {"READ"}
          /\ \A y \in HostFds \ {s} : fde'[y] = fde[y]
  <2>1. Allowed(fde[s], chg[s])
    BY <1>6, <1>12 DEF Allowed
  <2>2. chg[s].op # "remove" /\ chg[s].want = {"READ"}
    BY <1>12 DEF Install
  <2> QED BY <1>1, <1>4, <1>5, <1>12, <2>1, <2>2, LoopEffect DEF CoreInv
<1>14. SockType' /\ RestType'
  <2>1. sock' \in [Socks -> SockRec] /\ smart' \in [Clients -> SmartRec] /\ cl' \in [Clients -> ClientRec]
    BY <1>1, <1>5, <1>7, <1>8, <1>9, <1>11 DEF CoreInv, SockType
  <2>2. thread' \in [Clients -> ThreadRec]
    BY <1>1, <1>5, <1>10 DEF RestType
  <2> QED BY <1>1, <1>3, <1>5, <2>1, <2>2 DEF CoreInv, SockType, RestType
<1>15. /\ sock'[x] = new /\ sock'[s] = nsv /\ \A y \in Socks \ {x, s} : sock'[y] = sock[y]
       /\ smart'[c] = NoSmart /\ \A d \in Clients \ {c} : smart'[d] = smart[d]
       /\ cl'[c].st = cl[c].st /\ \A d \in Clients \ {c} : cl'[d] = cl[d]
  BY <1>1, <1>2, <1>4, <1>5, <1>9 DEF CoreInv, SockType
<1>16. \A y \in Socks : ~Stops(y)'
  BY <1>3 DEF Stops
<1>17. SockInv'
  <2>1. ASSUME NEW y \in Socks \ {x, s}
        PROVE  sock'[y] = sock[y] /\ fde'[y] = fde[y] /\ y \in Socks
    BY <1>4, <1>13, <1>15
  <2>2. fde'[x] = fde[x]
    BY <1>4, <1>13
  <2> QED BY <1>1, <1>4, <1>6, <1>7, <1>8, <1>13, <1>15, <2>1, <2>2 DEF CoreInv, SockInv, Alive
<1>18. PeersAgree'
  <2>1. ASSUME NEW y \in Socks
        PROVE  /\ sock'[y].peer = "local" => sock'[Mate(y)].st = "open" /\ sock'[Mate(y)].peer = "local"
               /\ sock'[y].peer # "null" => sock'[y].st = "open"
    BY <1>1, <1>4, <1>7, <1>8, <1>15 DEF CoreInv, PeersAgree
  <2>2. ASSUME NEW d \in Clients
        PROVE  /\ smart'[d].alive <=> sock'[Client(d)].peer = "smart"
               /\ d \in tracker' <=> sock'[Client(d)].peer = "tracker"
    <3>1. CASE d = c
      <4>1. c \notin tracker
        BY <1>1, <1>2 DEF CoreInv, PeersAgree, x
      <4> QED BY <1>5, <1>7, <1>11, <1>15, <3>1, <4>1 DEF x
    <3>2. CASE d # c
      <4>1. sock'[Client(d)] = sock[Client(d)] /\ smart'[d] = smart[d] /\ tracker' = tracker
        BY <1>4, <1>5, <1>15, <3>2
      <4> QED BY <1>1, <4>1 DEF CoreInv, PeersAgree
    <3> QED BY <3>1, <3>2
  <2> QED BY <2>1, <2>2 DEF PeersAgree
<1>19. StartInv'
  <2>1. ASSUME NEW d \in Clients
        PROVE  /\ sock'[Client(d)].st = "none" <=> cl'[d].st # "conn"
               /\ sock'[Client(d)].st = "none" \/ sock'[Client(d)].peer = "smart" =>
                    sock'[Service(d)].st = "none"
               /\ ~smart'[d].alive => smart'[d] = NoSmart
    <3>1. CASE d = c
      <4>1. cl[c].st = "conn"
        BY <1>1, <1>2 DEF CoreInv, StartInv, x
      <4> QED BY <1>7, <1>15, <3>1, <4>1 DEF x
    <3>2. CASE d # c
      BY <1>1, <1>4, <1>15, <3>2 DEF CoreInv, StartInv
    <3> QED BY <3>1, <3>2
  <2> QED BY <2>1 DEF StartInv
<1>20. ListenInv' /\ TrackersTold'
  BY <1>1, <1>4, <1>5, <1>13 DEF ListenInv, TrackersTold
<1>21. UseInv'
  <2>1. \A y \in Socks : sock'[y].st = "open" /\ sock'[y].trans # NoTransport =>
                           sock[y].st = "open" /\ sock[y].trans = sock'[y].trans
    BY <1>2, <1>7, <1>8, <1>15
  <2>2. \A d \in Clients : smart'[d].trans # NoTransport => smart'[d] = smart[d]
    BY <1>11, <1>15
  <2>3. tr' = tr
    BY <1>5
  <2> QED BY <1>1, <2>1, <2>2, <2>3 DEF UseInv
<1>22. CreditInv'
  <2>1. ASSUME NEW y \in Socks, sock'[y].peer = "local" PROVE "READ" \in fde'[y].want <=> sock'[Mate(y)].q = 0
    <3>1. CASE y \in {x, s}
      BY <1>4, <1>6, <1>7, <1>8, <1>13, <1>15, <3>1
    <3>2. CASE y \notin {x, s}
      BY <1>1, <1>2, <1>4, <1>13, <1>15, <2>1, <3>2 DEF CreditInv
    <3> QED BY <3>1, <3>2
  <2>2. ASSUME NEW y \in Socks, sock'[y].peer = "smart" PROVE sock'[y].q = 0 /\ "READ" \in fde'[y].want
    <3>1. y \notin {x, s}
      BY <1>7, <1>8, <1>15, <2>2
    <3> QED BY <1>1, <1>4, <1>13, <1>15, <2>2, <3>1 DEF CreditInv
  <2> QED BY <1>3, <1>16, <2>1, <2>2 DEF CreditInv
<1> QED BY <1>13, <1>14, <1>17, <1>18, <1>19, <1>20, <1>21, <1>22 DEF IInv, CoreInv

-----------------------------------------------------------------------------
(* Steps that change listeners and transports *)

\* What ListenInv says of listeners and lists of disconnects.
ListedInv ==
    /\ \A l \in Names : /\ lst[l].on => lst[l].trans \in Transports
                        /\ ~lst[l].on => lst[l] = NoListener
    /\ \A l \in Names, t \in Transports :
          /\ l \in disc[t] <=> lst[l].on /\ lst[l].trans = t
          /\ l \in disc[t] => tr[t] = "online"

\* more installs the listeners that are new and removes those that go.
Matches(more) ==
    /\ DOMAIN more \subseteq {Lfd(l) : l \in Names}
    /\ \A l \in Names :
          IF Lfd(l) \in DOMAIN more
          THEN /\ Allowed(fde[Lfd(l)], more[Lfd(l)])
               /\ lst'[l].on <=> more[Lfd(l)].op # "remove"
          ELSE lst'[l].on <=> lst[l].on

\* A step that closes asockets and installs or removes listeners, with the transports
\* that come and go: whoever uses a transport that goes offline is among those closed.
LEMMA ListenEffects ==
    ASSUME IInv, NEW X, NEW err, NEW Q, NEW more, Effects(X, err, Q, more), Matches(more),
           X \subseteq Socks, \A x \in X : Alive(x),
           Q \subseteq Socks, \A x \in Q : sock[x].st = "open" /\ sock[x].peer \notin {"local", "smart"},
           RestType', ListedInv', cur'.r = 0, \A x \in Socks : ~Stops(x),
           \A t \in Transports : tr[t] = "online" => tr'[t] = "online" \/ Users(t) \subseteq X,
           (tracker' = {c \in tracker : Client(c) \notin Victims(X)}) => TrackersTold'
    PROVE  IInv'
<1>1. CoreInv /\ ListenInv /\ UseInv /\ CreditInv
  BY DEF IInv
<1>2. DOMAIN more \cap Socks = {} /\ DOMAIN more \subseteq HostFds
      /\ \A x \in DOMAIN more : Allowed(fde[x], more[x])
  BY ListenerNames DEF Matches
<1>3. Fit(X, Q, more)
  BY <1>2 DEF Fit
<1>4. EffectsMade(X, err, Q, more) /\ CoreInv'
  BY <1>1, <1>3, EffectsCore
<1>5. UseInv'
  BY <1>1, <1>4, EffectsUse DEF CoreInv
<1>6. \A x \in Socks : ~Stops(x)'
  BY DEF Stops
<1>7. CreditInv'
  BY <1>1, <1>2, <1>4, <1>6, EffectsCredit
<1>8. TrackersTold'
  BY <1>4 DEF EffectsMade
<1>9. ASSUME NEW l \in Names PROVE fde'[Lfd(l)].active <=> lst'[l].on
  <2>1. Lfd(l) \in HostFds /\ Lfd(l) \notin Socks /\ Lfd(l) \notin Victims(X) /\ Lfd(l) \notin Q
    BY <1>1, ListenerNames, VictimsAlive
  <2>2. CASE Lfd(l) \in DOMAIN more
    BY <1>4, <2>1, <2>2 DEF EffectsMade, Matches
  <2>3. CASE Lfd(l) \notin DOMAIN more
    <3>1. fde'[Lfd(l)] = fde[Lfd(l)]
      BY <1>4, <2>1, <2>3 DEF EffectsMade
    <3> QED BY <1>1, <2>3, <3>1 DEF Matches, ListenInv
  <2> QED BY <2>2, <2>3
<1>10. ListenInv'
  BY <1>9 DEF ListenInv, ListedInv
<1> QED BY <1>4, <1>5, <1>7, <1>8, <1>10 DEF IInv

\* No listener changes.
LEMMA NothingMatches ==
    ASSUME UNCHANGED lst
    PROVE  Matches(Nothing)
BY NothingFits DEF Matches

\* The trackers that stay are told what transports there are.
LEMMA UpdateStep ==
    ASSUME IInv, Idle, NEW X, NEW more, UpdateTransports(X, more), Matches(more),
           X \subseteq Socks, \A x \in X : Alive(x), UNCHANGED <<cur, thread>>, updates' \in Nat,
           lst' \in [Names -> ListenerRec], disc' \in [Transports -> SUBSET Names],
           tr' \in [Transports -> States \cup {"ending"}], ListedInv',
           \A t \in Transports : tr[t] = "online" => tr'[t] = "online" \/ Users(t) \subseteq X
    PROVE  IInv'
<1>1. CoreInv /\ RestType
  BY DEF IInv
<1>2. PICK F \in SUBSET tracker, QC \in SUBSET tracker :
         /\ Effects(X \cup {Client(c) : c \in F}, {Client(c) : c \in F}, {Client(c) : c \in QC}, more)
         /\ Told(F)
  BY DEF UpdateTransports
<1> DEFINE FX == {Client(c) : c \in F}
           Y == X \cup FX
           Q == {Client(c) : c \in QC}
<1>3. \A c \in tracker : c \in Clients /\ Client(c) \in Socks /\ sock[Client(c)].st = "open"
      /\ sock[Client(c)].peer = "tracker"
  BY <1>1, SockNames DEF CoreInv, SockType, PeersAgree
<1>4. Y \subseteq Socks /\ \A x \in Y : Alive(x)
  BY <1>3 DEF Alive
<1>5. Q \subseteq Socks /\ \A x \in Q : sock[x].st = "open" /\ sock[x].peer \notin {"local", "smart"}
  BY <1>3
<1>6. \A c \in F : Client(c) \in Y
  OBVIOUS
<1>7. Effects(Y, FX, Q, more)
  BY <1>2
<1>8. cur' \in CurRec /\ cur'.r = 0 /\ \A y \in Socks : ~Stops(y)
  BY IdleFacts
<1>9. /\ DeviceList' \in [Transports -> States]
      /\ \A t \in Transports : (DeviceList'[t] = "none" <=> tr'[t] = "none")
         /\ (tr'[t] = "online" => DeviceList'[t] = "online")
  BY DEF DeviceList, States
<1>10. last' = [c \in Clients |-> IF c \in tracker \ F THEN DeviceList' ELSE last[c]]
  BY <1>2 DEF Told
<1>11. RestType'
  BY <1>1, <1>8, <1>9, <1>10 DEF RestType
<1>12. (tracker' = {c \in tracker : Client(c) \notin Victims(Y)}) => TrackersTold'
  <2> SUFFICES ASSUME tracker' = {c \in tracker : Client(c) \notin Victims(Y)}
               PROVE  TrackersTold'
    OBVIOUS
  <2>1. Y \subseteq Victims(Y)
    BY DEF Victims
  <2>2. tracker' \subseteq tracker \ F
    BY <1>6, <2>1
  <2>3. \A c \in tracker' : last'[c] = DeviceList'
    BY <1>3, <1>10, <2>2
  <2> QED BY <1>9, <2>3 DEF TrackersTold
<1>13. \A t \in Transports : tr[t] = "online" => tr'[t] = "online" \/ Users(t) \subseteq Y
  OBVIOUS
<1> HIDE DEF Y, Q, FX
<1> QED BY <1>4, <1>5, <1>7, <1>8, <1>11, <1>12, <1>13, ListenEffects

\* A forward is made, or made over to another transport.
LEMMA SmartForwardStep ==
    ASSUME IInv, NEW c \in Clients, NEW u \in Requests[c], SmartForward(c, u)
    PROVE  IInv'
<1> DEFINE old == lst[u.l].on
           l == u.l
           t == u.t
           more == [x \in (IF old THEN {} ELSE {Lfd(l)}) |-> Install({"READ"})]
<1>1. CoreInv /\ RestType /\ ListenInv
  BY DEF IInv
<1>2. /\ Client(c) \in Socks /\ Alive(Client(c)) /\ t \in Transports /\ l \in Names
      /\ cur \in CurRec /\ \A y \in Socks : ~Stops(y)
  BY AskedFacts DEF SmartForward
<1>3. /\ tr[t] = "online" /\ lst' = [lst EXCEPT ![l] = [on |-> TRUE, trans |-> t]]
      /\ disc' = (IF old THEN (IF lst[l].trans # t THEN RebindDisc(l, t) ELSE disc)
                  ELSE [disc EXCEPT ![t] = @ \cup {l}])
      /\ Effects({Client(c)}, {}, {}, more) /\ Return /\ UNCHANGED <<last, tr, thread, updates>>
  BY DEF SmartForward, SmartCloses, Acquired
<1>4. cur' \in CurRec /\ cur'.r = 0
  BY <1>3, ReturnCur
<1>5. DOMAIN more = (IF old THEN {} ELSE {Lfd(l)}) /\ (~old => more[Lfd(l)] = Install({"READ"}))
  OBVIOUS
<1>6. /\ lst' \in [Names -> ListenerRec] /\ lst'[l].on /\ lst'[l].trans = t
      /\ \A m \in Names \ {l} : lst'[m] = lst[m]
  <2>1. [on |-> TRUE, trans |-> t] \in ListenerRec
    BY <1>2 DEF ListenerRec
  <2> QED BY <1>1, <1>2, <1>3, <2>1 DEF RestType
<1>7. /\ \A m \in Names : /\ fde[Lfd(m)].active <=> lst[m].on
                          /\ lst[m].on => lst[m].trans \in Transports
                          /\ ~lst[m].on => lst[m] = NoListener
      /\ \A m \in Names, v \in Transports :
            /\ m \in disc[v] <=> lst[m].on /\ lst[m].trans = v
            /\ m \in disc[v] => tr[v] = "online"
      /\ disc \in [Transports -> SUBSET Names]
  BY <1>1 DEF ListenInv, RestType
<1>8. /\ disc' \in [Transports -> SUBSET Names]
      /\ \A v \in Transports, m \in Names : m \in disc'[v] <=> IF m = l THEN v = t ELSE m \in disc[v]
  <2>1. CASE ~old
    <3>1. disc' = [disc EXCEPT ![t] = disc[t] \cup {l}]
      BY <1>3, <2>1
    <3> QED BY <1>2, <1>7, <2>1, <3>1
  <2>2. CASE old /\ lst[l].trans = t
    <3>1. disc' = disc
      BY <1>3, <2>2
    <3> QED BY <1>2, <1>7, <2>2, <3>1
  <2>3. CASE old /\ lst[l].trans # t
    <3> DEFINE o == lst[l].trans
    <3>1. o \in Transports /\ o # t
      BY <1>2, <1>7, <2>3
    <3>2. disc' = [disc EXCEPT ![o] = @ \ {l}, ![t] = @ \cup {l}]
      BY <1>3, <2>3 DEF RebindDisc
    <3> HIDE DEF o
    <3>3. disc' = [v \in Transports |-> IF v = t THEN disc[t] \cup {l}
                                        ELSE IF v = o THEN disc[o] \ {l} ELSE disc[v]]
      BY <1>2, <1>7, <3>1, <3>2
    <3>4. disc' \in [Transports -> SUBSET Names]
      BY <1>2, <1>7, <3>3
    <3>5. \A v \in Transports, m \in Names : m \in disc'[v] <=> IF m = l THEN v = t ELSE m \in disc[v]
      BY <1>2, <1>7, <2>3, <3>3 DEF o
    <3> QED BY <3>4, <3>5
  <2> QED BY <2>1, <2>2, <2>3
<1> HIDE DEF more, l, t, old
<1>9. ListedInv'
  BY <1>2, <1>3, <1>6, <1>7, <1>8 DEF ListedInv
<1>10. Matches(more)
  <2>1. old <=> lst[l].on
    BY DEF old, l
  <2>2. ~old => Allowed(fde[Lfd(l)], more[Lfd(l)]) /\ more[Lfd(l)].op # "remove"
    BY <1>2, <1>5, <1>7, <2>1 DEF Allowed, Install, Wanted
  <2>3. \A m \in Names : Lfd(m) \in DOMAIN more <=> ~old /\ m = l
    BY <1>2, <1>5, ListenerNames
  <2> QED BY <1>2, <1>5, <1>6, <2>1, <2>2, <2>3 DEF Matches
<1>11. RestType'
  BY <1>1, <1>3, <1>4, <1>6, <1>8 DEF RestType
<1>12. (tracker' = {d \in tracker : Client(d) \notin Victims({Client(c)})}) => TrackersTold'
  BY <1>3 DEF IInv, TrackersTold
<1>13. Effects({Client(c)}, {}, {}, more) /\ tr' = tr
  BY <1>3
<1> QED BY <1>2, <1>4, <1>9, <1>10, <1>11, <1>12, <1>13, ListenEffects

\* Forwards are removed.
LEMMA SmartKillForwardStep ==
    ASSUME IInv, NEW c \in Clients, NEW u \in Requests[c], SmartKillForward(c, u)
    PROVE  IInv'
<1> DEFINE gone == IF u.kind = "killall" THEN {m \in Names : lst[m].on} ELSE {u.l}
           more == [x \in {Lfd(m) : m \in gone} |-> Remove]
<1>1. CoreInv /\ RestType /\ ListenInv
  BY DEF IInv
<1>2. /\ Client(c) \in Socks /\ Alive(Client(c)) /\ u.l \in Names
      /\ cur \in CurRec /\ \A y \in Socks : ~Stops(y)
  BY AskedFacts DEF SmartKillForward
<1>3. /\ lst' = [m \in Names |-> IF m \in gone THEN NoListener ELSE lst[m]]
      /\ disc' = [t \in Transports |-> disc[t] \ gone]
      /\ Effects({Client(c)}, {}, {}, more) /\ Return /\ UNCHANGED <<last, tr, thread, updates>>
  BY DEF SmartKillForward, SmartCloses
<1>4. gone \subseteq Names
  BY <1>2
<1>5. DOMAIN more = {Lfd(m) : m \in gone} /\ \A m \in gone : more[Lfd(m)] = Remove
  OBVIOUS
<1> HIDE DEF gone, more
<1>6. cur' \in CurRec /\ cur'.r = 0
  BY <1>3, ReturnCur
<1>7. NoListener \in ListenerRec /\ ~NoListener.on
  BY DEF NoListener, ListenerRec
<1>8. lst' \in [Names -> ListenerRec] /\ disc' \in [Transports -> SUBSET Names]
  BY <1>1, <1>3, <1>7 DEF RestType
<1>9. ListedInv'
  BY <1>1, <1>3, <1>7 DEF ListedInv, ListenInv
<1>10. Matches(more)
  <2>1. DOMAIN more \subseteq {Lfd(m) : m \in Names} /\ \A m \in Names : Lfd(m) \in DOMAIN more <=> m \in gone
    BY <1>4, <1>5, ListenerNames
  <2>2. \A e : Allowed(e, Remove) /\ Remove.op = "remove"
    BY DEF Allowed, Remove
  <2> QED BY <1>3, <1>5, <1>7, <2>1, <2>2 DEF Matches
<1>11. RestType'
  BY <1>1, <1>3, <1>6, <1>8 DEF RestType
<1>12. (tracker' = {d \in tracker : Client(d) \notin Victims({Client(c)})}) => TrackersTold'
  BY <1>3 DEF IInv, TrackersTold
<1> QED BY <1>2, <1>3, <1>6, <1>9, <1>10, <1>11, <1>12, ListenEffects

\* One transport changes.
LEMMA TransportTypes ==
    ASSUME IInv, NEW t \in Transports, NEW s \in States \cup {"ending"}, tr' = [tr EXCEPT ![t] = s]
    PROVE  /\ tr' \in [Transports -> States \cup {"ending"}] /\ tr'[t] = s
           /\ \A v \in Transports \ {t} : tr'[v] = tr[v]
BY DEF IInv, RestType

\* The listeners of t go with its list of disconnects.
LEMMA DisconnectedEffect ==
    ASSUME IInv, NEW t \in Transports, Disconnected(t), \A v \in Transports \ {t} : tr'[v] = tr[v]
    PROVE  /\ lst' \in [Names -> ListenerRec] /\ disc' \in [Transports -> SUBSET Names] /\ ListedInv'
           /\ Matches(ListenerChange(t))
<1>1. RestType /\ ListenInv
  BY DEF IInv
<1>2. /\ lst' = [m \in Names |-> IF m \in Forwards(t) THEN NoListener ELSE lst[m]]
      /\ disc' = [disc EXCEPT ![t] = {}]
  BY DEF Disconnected
<1>3. Forwards(t) \subseteq Names /\ \A m \in Names : m \in Forwards(t) <=> m \in disc[t]
  BY DEF Forwards
<1>4. NoListener \in ListenerRec /\ ~NoListener.on
  BY DEF NoListener, ListenerRec
<1>5. lst' \in [Names -> ListenerRec] /\ disc' \in [Transports -> SUBSET Names]
  BY <1>1, <1>2, <1>4 DEF RestType
<1>6. disc'[t] = {} /\ \A v \in Transports \ {t} : disc'[v] = disc[v]
  BY <1>1, <1>2 DEF RestType
<1>7. ListedInv'
  BY <1>1, <1>2, <1>3, <1>4, <1>6 DEF ListedInv, ListenInv
<1>8. Matches(ListenerChange(t))
  <2> DEFINE more == ListenerChange(t)
  <2>1. DOMAIN more = {Lfd(m) : m \in Forwards(t)} /\ \A m \in Forwards(t) : more[Lfd(m)] = Remove
    BY DEF ListenerChange
  <2> HIDE DEF more
  <2>2. DOMAIN more \subseteq {Lfd(m) : m \in Names}
        /\ \A m \in Names : Lfd(m) \in DOMAIN more <=> m \in Forwards(t)
    BY <1>3, <2>1, ListenerNames
  <2>3. \A e : Allowed(e, Remove) /\ Remove.op = "remove"
    BY DEF Allowed, Remove
  <2>4. Matches(more)
    BY <1>2, <1>4, <2>1, <2>2, <2>3 DEF Matches
  <2> QED BY <2>4 DEF more
<1> QED BY <1>5, <1>7, <1>8

\* close_all_sockets closes asockets that live.
LEMMA UsersAlive ==
    ASSUME NEW t
    PROVE  Users(t) \subseteq Socks /\ \A x \in Users(t) : Alive(x)
BY DEF Users, Alive

\* A transport that was not online changes, and no listener does.
LEMMA ListsKept ==
    ASSUME IInv, NEW t \in Transports, tr[t] # "online", \A v \in Transports \ {t} : tr'[v] = tr[v],
           UNCHANGED <<lst, disc>>
    PROVE  /\ lst' \in [Names -> ListenerRec] /\ disc' \in [Transports -> SUBSET Names] /\ ListedInv'
           /\ Matches(Nothing) /\ \A v \in Transports : tr[v] = "online" => tr'[v] = "online"
<1>1. RestType /\ ListenInv
  BY DEF IInv
<1>2. ListedInv'
  BY <1>1 DEF ListedInv, ListenInv
<1> QED BY <1>1, <1>2, NothingMatches DEF RestType

\* A transport that is not online changes and the trackers are told.
LEMMA UpdateOnly ==
    ASSUME IInv, Idle, NEW t \in Transports, NEW s \in States \cup {"ending"}, tr[t] # "online",
           tr' = [tr EXCEPT ![t] = s], UpdateTransports({}, Nothing), UNCHANGED <<cur, lst, disc, thread>>,
           updates' \in Nat
    PROVE  IInv'
<1>1. tr' \in [Transports -> States \cup {"ending"}] /\ \A v \in Transports \ {t} : tr'[v] = tr[v]
  BY TransportTypes
<1>2. /\ lst' \in [Names -> ListenerRec] /\ disc' \in [Transports -> SUBSET Names] /\ ListedInv'
      /\ Matches(Nothing) /\ \A v \in Transports : tr[v] = "online" => tr'[v] = "online"
  BY <1>1, ListsKept
<1> QED BY <1>1, <1>2, UpdateStep

\* A transport is registered.
LEMMA RegisterStep ==
    ASSUME IInv, NEW t \in Transports, Register(t)
    PROVE  IInv'
<1>1. updates' \in Nat /\ "offline" \in States \cup {"ending"} /\ tr[t] # "online"
  BY DEF IInv, RestType, Register, States
<1> QED BY <1>1, UpdateOnly DEF Register

\* A transport is deleted.
LEMMA RemoveTransportStep ==
    ASSUME IInv, NEW t \in Transports, RemoveTransport(t)
    PROVE  IInv'
<1>1. updates' \in Nat /\ "none" \in States \cup {"ending"} /\ tr[t] # "online"
  BY DEF IInv, RestType, RemoveTransport, States
<1> QED BY <1>1, UpdateOnly DEF RemoveTransport

\* A_AUTH.
LEMMA HandleTokenStep ==
    ASSUME IInv, NEW t \in Transports, HandleToken(t)
    PROVE  IInv'
<1>1. CoreInv /\ RestType /\ ListenInv /\ UseInv /\ CreditInv /\ TrackersTold
  BY DEF IInv
<1>2. /\ tr' \in [Transports -> States \cup {"ending"}] /\ tr[t] = "offline" /\ tr'[t] = "unauthorized"
      /\ \A v \in Transports \ {t} : tr'[v] = tr[v]
  BY <1>1 DEF HandleToken, RestType, States
<1>3. UNCHANGED <<fde, pending, cur, sock, smart, tracker, last, lst, disc, thread, cl, updates>>
  BY DEF HandleToken
<1>4. CoreInv'
  BY <1>1, <1>3 DEF CoreInv, LoopType, PendingInv, SockType, SockInv, PeersAgree, StartInv, Alive
<1>5. RestType' /\ CreditInv'
  BY <1>1, <1>2, <1>3 DEF RestType, CreditInv, Stops
<1>6. \A v \in Transports : (tr[v] = "online" <=> tr'[v] = "online") /\ (tr[v] = "none" <=> tr'[v] = "none")
  BY <1>2
<1>7. ListenInv' /\ TrackersTold'
  BY <1>1, <1>3, <1>6 DEF ListenInv, TrackersTold
<1>8. UseInv'
  BY <1>1, <1>3, <1>6 DEF UseInv, CoreInv, SockType, SockRec, SmartRec
<1> QED BY <1>4, <1>5, <1>7, <1>8 DEF IInv

\* A_CNXN: the asockets and forwards of an earlier connection are closed.
LEMMA HandleCnxnStep ==
    ASSUME IInv, NEW t \in Transports, HandleCnxn(t)
    PROVE  IInv'
<1>1. /\ updates' \in Nat /\ "online" \in States \cup {"ending"} /\ Idle
      /\ tr' = [tr EXCEPT ![t] = "online"] /\ UNCHANGED <<cur, thread>>
  BY DEF IInv, RestType, HandleCnxn, States
<1>2. CASE tr[t] = "offline"
  BY <1>1, <1>2, UpdateOnly DEF HandleCnxn
<1>3. CASE tr[t] # "offline"
  <2>1. UpdateTransports(Users(t), ListenerChange(t)) /\ Disconnected(t)
    BY <1>3 DEF HandleCnxn
  <2>2. tr' \in [Transports -> States \cup {"ending"}] /\ tr'[t] = "online"
        /\ \A v \in Transports \ {t} : tr'[v] = tr[v]
    BY <1>1, TransportTypes
  <2>3. /\ lst' \in [Names -> ListenerRec] /\ disc' \in [Transports -> SUBSET Names] /\ ListedInv'
        /\ Matches(ListenerChange(t))
    BY <2>1, <2>2, DisconnectedEffect
  <2>4. \A v \in Transports : tr[v] = "online" => tr'[v] = "online"
    BY <2>2
  <2> QED BY <1>1, <2>1, <2>2, <2>3, <2>4, UsersAlive, UpdateStep
<1> QED BY <1>2, <1>3

\* The reader thread has left: the asockets and forwards of the transport are closed.
LEMMA HandleSyncOfflineStep ==
    ASSUME IInv, NEW t \in Transports, HandleSyncOffline(t)
    PROVE  IInv'
<1>1. /\ Idle /\ tr[t] # "none" /\ tr' = [tr EXCEPT ![t] = "ending"]
      /\ Effects(Users(t), {}, {}, ListenerChange(t)) /\ Disconnected(t)
      /\ UNCHANGED <<cur, last, thread, updates>>
  BY DEF HandleSyncOffline
<1>2. tr' \in [Transports -> States \cup {"ending"}] /\ tr'[t] = "ending"
      /\ \A v \in Transports \ {t} : tr'[v] = tr[v]
  BY <1>1, TransportTypes
<1>3. /\ lst' \in [Names -> ListenerRec] /\ disc' \in [Transports -> SUBSET Names] /\ ListedInv'
      /\ Matches(ListenerChange(t))
  BY <1>1, <1>2, DisconnectedEffect
<1>4. cur' \in CurRec /\ cur'.r = 0 /\ \A y \in Socks : ~Stops(y)
  BY <1>1, IdleFacts
<1>5. RestType'
  BY <1>1, <1>2, <1>3, <1>4 DEF IInv, RestType
<1>6. \A v \in Transports : tr[v] = "online" => tr'[v] = "online" \/ Users(v) \subseteq Users(t)
  BY <1>2
<1>7. (tracker' = {d \in tracker : Client(d) \notin Victims(Users(t))}) => TrackersTold'
  <2>1. \A v \in Transports : (tr'[v] = "none" <=> tr[v] = "none") /\ (tr'[v] = "online" => tr[v] = "online")
    BY <1>1, <1>2
  <2> QED BY <1>1, <2>1 DEF IInv, TrackersTold
<1> QED BY <1>1, <1>3, <1>4, <1>5, <1>6, <1>7, UsersAlive, ListenEffects

-----------------------------------------------------------------------------
(* The theorems *)

\* IInv holds of the initial states.
LEMMA InitInv == Init => IInv
<1> SUFFICES ASSUME Init PROVE IInv
  OBVIOUS
<1>1. Removed \in Fdevent /\ ~Removed.pend /\ Removed.events = {} /\ ~Removed.active /\ Removed.want = {}
  BY DEF Removed, Fdevent
<1>2. /\ NoSock \in SockRec /\ NoSock.st = "none" /\ NoSock.peer = "null" /\ NoSock.trans = NoTransport
      /\ NoSmart \in SmartRec /\ ~NoSmart.alive /\ NoSmart.trans = NoTransport
      /\ NoListener \in ListenerRec /\ ~NoListener.on
      /\ NewThread \in ThreadRec
  BY DEF NoSock, Asocket, SockRec, SockStates, PeerKinds, NoSmart, SmartRec, NoListener, ListenerRec, NewThread,
     ThreadRec
<1>3. NewClient \in ClientRec /\ NewClient.st = "idle"
  <2>1. <<>> \in Seq(UNION {Requests[c] : c \in Clients})
    OBVIOUS
  <2> QED BY <2>1 DEF NewClient, ClientRec
<1>4. NoCall \in CurRec /\ NoCall.r = 0 /\ NoCall.pc = "none"
  <2>1. <<>> \in Seq(AllRequests \cup {"data"}) /\ {} \in SUBSET Events
    OBVIOUS
  <2> QED BY <2>1 DEF NoCall, CurRec
<1>5. /\ fde = [x \in HostFds |-> Removed] /\ pending = {} /\ cur = NoCall
      /\ sock = [x \in Socks |-> NoSock] /\ smart = [c \in Clients |-> NoSmart] /\ tracker = {}
      /\ cl = [c \in Clients |-> NewClient]
  BY DEF Init, LoopInit
<1>6. LoopType /\ PendingInv /\ SockType
  BY <1>1, <1>2, <1>3, <1>5 DEF LoopType, PendingInv, SockType
<1>7. SockInv /\ PeersAgree /\ StartInv
  BY <1>1, <1>2, <1>3, <1>5, SockNames DEF SockInv, PeersAgree, StartInv, Alive
<1>8. RestType
  BY <1>2, <1>4 DEF Init, RestType, States
<1>9. ListenInv
  <2>1. /\ lst = [l \in Names |-> NoListener] /\ disc = [t \in Transports |-> {}]
    BY DEF Init
  <2> QED BY <1>1, <1>2, <1>5, <2>1, ListenerNames DEF ListenInv
<1>10. UseInv /\ TrackersTold /\ CreditInv
  BY <1>2, <1>4, <1>5 DEF UseInv, TrackersTold, CreditInv
<1> QED BY <1>6, <1>7, <1>8, <1>9, <1>10 DEF IInv, CoreInv

\* local_socket_event_func.
LEMMA EventFuncStep ==
    ASSUME IInv, NEW x \in Socks, EventFunc(x)
    PROVE  IInv'
<1>1. CASE \E k \in 0..sock[x].q : EventWriteSome(x, k)
  BY <1>1, EventWriteSomeStep
<1>2. CASE EventWriteSome(x, 0)
  BY <1>2, EventWriteSomeStep
<1>3. (\E k \in 1..sock[x].q : EventWriteSome(x, k)) => \E k \in 0..sock[x].q : EventWriteSome(x, k)
  OBVIOUS
<1> QED
  BY <1>1, <1>2, <1>3, EventWriteFailsStep, EventWriteClosesStep, EventWriteAllStep, EventReadStep,
     EnqueueWritesStep,
     EnqueueQueuesStep, EnqueueFailsStep, EnqueueTrackerStep, AfterReadStep, AfterFreeStep
  DEF EventFunc, EventWrites

\* smart_socket_enqueue.
LEMMA SmartEnqueueStep ==
    ASSUME IInv, NEW c \in Clients, SmartEnqueue(c)
    PROVE  IInv'
<1>1. CASE SmartWaits(c)
  BY <1>1, SmartWaitsStep
<1>2. ASSUME NEW u \in Requests[c], SmartAnswers(c, u) \/ SmartOpenFails(c, u) \/ SmartForwardFails(c, u)
      PROVE  IInv'
  BY <1>2, SmartClosesStep DEF SmartAnswers, SmartOpenFails, SmartForwardFails
<1> QED
  BY <1>1, <1>2, SmartTransportStep, SmartOpenStep, SmartThreadStep, SmartTrackStep, SmartTrackFailsStep,
     SmartForwardStep, SmartKillForwardStep
  DEF SmartEnqueue

\* Every step keeps IInv.
LEMMA Inductive == IInv /\ [Next]_vars => IInv'
<1> SUFFICES ASSUME IInv, [Next]_vars PROVE IInv'
  OBVIOUS
<1>1. CASE Loop
  <2>1. CASE \E writable \in SUBSET {x \in Socks : "WRITE" \in fde[x].want} : Poll(writable)
    BY <2>1, PollStep
  <2>2. CASE Callback
    BY <2>2, DispatchStep, AcceptStep, EventFuncStep, SmartEnqueueStep DEF Callback
  <2> QED BY <1>1, <2>1, <2>2 DEF Loop
<1>2. ASSUME NEW c \in Clients, User(c) PROVE IInv'
  BY <1>2, AcceptClientStep, DialStep, ClientWritesStep, ClientHangsUpStep DEF User
<1>3. ASSUME NEW c \in Clients, Stream(c) \/ ThreadAnswers(c) \/ ThreadSeesHup(c) PROVE IInv'
  BY <1>3, StreamOkayStep, StreamWrteStep, StreamClseStep, ThreadStep DEF Stream
<1>4. ASSUME NEW t \in Transports, Transport(t) PROVE IInv'
  BY <1>4, RegisterStep, HandleTokenStep, HandleCnxnStep, HandleSyncOfflineStep,
     RemoveTransportStep DEF Transport
<1>5. CASE UNCHANGED vars
  <2>1. cl \in [Clients -> ClientRec] /\ thread \in [Clients -> ThreadRec]
    BY DEF IInv, CoreInv, SockType, RestType
  <2> QED BY <1>5, <2>1, OutsideStep DEF vars
<1> QED BY <1>1, <1>2, <1>3, <1>4, <1>5 DEF Next

\* IInv is an invariant of the server's main thread, for any number of clients, transports
\* and forwards and whatever the clients ask for.
THEOREM HostInvariant == Spec => []IInv
BY InitInv, Inductive, PTL DEF Spec

\* The variables keep their types.
THEOREM HostTypes == Spec => []TypeOK
<1>1. IInv => TypeOK
  <2> SUFFICES ASSUME IInv PROVE TypeOK
    OBVIOUS
  <2>1. cur \in CurRec
    BY DEF IInv, RestType
  <2>2. /\ cur.pc \in {"none", "event", "enqueue", "after", "crashed"}
        /\ cur.fd \in HostFds \cup {<<>>} /\ cur.ev \subseteq Events
        /\ cur.eof \in BOOLEAN /\ cur.r \in {0, 1}
    BY <2>1 DEF CurRec
  <2>3. LoopType /\ tracker \subseteq Clients
    BY DEF IInv, CoreInv, SockType
  <2>4. sock \in [Socks -> SockRec] /\ smart \in [Clients -> SmartRec] /\ cl \in [Clients -> ClientRec]
    BY DEF IInv, CoreInv, SockType
  <2>5. /\ last \in [Clients -> [Transports -> States]] /\ lst \in [Names -> ListenerRec]
        /\ disc \in [Transports -> SUBSET Names] /\ tr \in [Transports -> States \cup {"ending"}]
        /\ thread \in [Clients -> ThreadRec] /\ updates \in Nat
    BY DEF IInv, RestType
  <2> QED BY <2>2, <2>3, <2>4, <2>5 DEF TypeOK, SockRec, SockStates, PeerKinds, SmartRec, ClientRec,
             ListenerRec, ThreadRec
<1> QED BY <1>1, HostInvariant, PTL

\* The event loop calls only fdevents that are active and have an event: none that a
\* callback before it removed or told to listen for nothing (fdevent_call_fdfunc).
THEOREM PendingCalled == Spec => []PendingInv
<1>1. IInv => PendingInv
  BY DEF IInv, CoreInv
<1> QED BY <1>1, HostInvariant, PTL

\* Peers point to each other and to nothing that was freed (sockets.cpp, smart sockets,
\* device trackers).
THEOREM PeersPaired == Spec => []PeersAgree
<1>1. IInv => PeersAgree
  BY DEF IInv, CoreInv
<1> QED BY <1>1, HostInvariant, PTL

\* Exactly the asockets and listeners that live have an active fdevent: local_socket_destroy
\* and ~alistener leave none behind.
THEOREM FdesOwned == Spec => []FdeOwned
<1>1. IInv => FdeOwned
  BY DEF IInv, CoreInv, SockInv, ListenInv, FdeOwned
<1> QED BY <1>1, HostInvariant, PTL

\* In a pair of local asockets one end is read exactly if the other has nothing queued, and
\* FDE_WRITE is on exactly while something is: neither end waits for ever for the other.
THEOREM CreditKept == Spec => []LocalCredit
<1>1. IInv => LocalCredit
  BY DEF IInv, CoreInv, SockInv, CreditInv, Stops, Idle, LocalCredit
<1> QED BY <1>1, HostInvariant, PTL

\* Open asockets, smart sockets and listeners name transports that are online, and each
\* listener is on the list of disconnects of its transport and on no other.
THEOREM UsedOnline == Spec => []TransportsOnline
<1>1. IInv => TransportsOnline
  BY DEF IInv, UseInv, ListenInv, TransportsOnline
<1> QED BY <1>1, HostInvariant, PTL

\* Every device tracker on the list was last sent the transports there are, the usable ones
\* as online (update_transports).
THEOREM TrackersInformed == Spec => []TrackersTold
<1>1. IInv => TrackersTold
  BY DEF IInv
<1> QED BY <1>1, HostInvariant, PTL
=============================================================================
