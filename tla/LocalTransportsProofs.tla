----------------------- MODULE LocalTransportsProofs -----------------------
(***************************************************************************)
(* LocalTransports: types, that no serial and no emulator port is          *)
(* registered twice, and that no port is lost between remote_close and     *)
(* client_socket_thread, for every number of threads, slots and            *)
(* atransports.                                                            *)
(***************************************************************************)
EXTENDS LocalTransports, TLAPS

\* OnePerPort needs to know that a transport that is not kicked has its slot and
\* that a thread alone uses the atransport it has allocated.
IInv == TypeOK /\ UniqueSerial /\ OnePerPort /\ SlotHeld /\ ThreadInv

\* Every entry of retry_ports has at least one retry left after Finish.
LEMMA FinishLists ==
    ASSUME IInv, NEW th \in Threads, thread[th].pc # "idle", NEW ok \in BOOLEAN, Finish(th, ok)
    PROVE  ListType' /\ dropped' \subseteq Nat
<1> USE LocalAssumption
<1>q. ListType /\ dropped \subseteq Nat /\ ThreadType
  BY DEF IInv, TypeOK, CountType
<1>1. CASE th = Client
  <2> DEFINE p == Head(ports)
             again == ~ok /\ p.count > 1
  <2>1. ports # <<>>
    BY <1>1 DEF IInv, ThreadInv, BusyInv
  <2>2. p \in Entry /\ Tail(ports) \in Seq(Entry)
    BY <1>q, <2>1 DEF ListType
  <2>3. p.port \in Nat /\ p.count \in 1..Retries
    BY <2>2 DEF Entry
  <2>4. again => [p EXCEPT !.count = @ - 1] \in Entry
    <3>1. again => p.count - 1 \in 1..Retries
      BY <2>3
    <3> QED BY <2>2, <3>1 DEF Entry
  <2>5. /\ ports' = Tail(ports)
        /\ nextPorts' = IF again THEN Append(nextPorts, [p EXCEPT !.count = @ - 1]) ELSE nextPorts
        /\ dropped' \in {dropped \ {p.port}, dropped \cup {p.port}}
        /\ retry' = retry
    BY <1>1 DEF Finish
  <2>6. nextPorts' \in Seq(Entry)
    BY <1>q, <2>4, <2>5 DEF ListType
  <2> HIDE DEF p, again
  <2> QED BY <1>q, <2>2, <2>3, <2>5, <2>6 DEF ListType
<1>2. CASE th # Client
  <2>1. retry' = retry /\ ports' = ports /\ nextPorts' = nextPorts
    BY <1>2 DEF Finish
  <2>2. dropped' \subseteq dropped
    BY <1>2 DEF Finish
  <2> QED BY <1>q, <2>1, <2>2 DEF ListType
<1> QED BY <1>1, <1>2

\* Finish touches no thread but its own.
LEMMA FinishThread ==
    ASSUME IInv, NEW th \in Threads, NEW ok \in BOOLEAN, Finish(th, ok)
    PROVE  /\ ThreadType'
           /\ thread'[th].pc = "idle"
           /\ \A o \in Threads \ {th} : thread'[o] = thread[o]
           /\ th # Client => ports' = ports
BY DEF IInv, TypeOK, ThreadType, Finish, Idle, Target, NoPort, Pcs, lists

\* Goto changes the place of one thread.
LEMMA GotoThread ==
    ASSUME IInv, NEW th \in Threads, NEW pc \in Pcs, Goto(th, pc)
    PROVE  /\ ThreadType'
           /\ thread'[th] = [thread[th] EXCEPT !.pc = pc]
           /\ \A o \in Threads \ {th} : thread'[o] = thread[o]
BY DEF IInv, TypeOK, ThreadType, Goto

\* One thread moves and one atransport changes that no other thread has: the
\* other threads keep theirs.
LEMMA ThreadFrame ==
    ASSUME ThreadInv, NEW th \in Threads, NEW t \in Transports \cup {NoTransport},
           \A o \in Threads \ {th} : thread'[o] = thread[o],
           \A u \in Transports \ {t} : tr'[u] = tr[u],
           \A o \in Threads \ {th} : thread[o].pc \in {"init", "register"} => thread[o].t # t,
           thread'[th].pc = "init" => Owns(th, "new")',
           thread'[th].pc = "register" => Owns(th, "inited")',
           thread'[th].pc \in {"init", "register"} => thread'[th].t = t,
           th # Client => ports' = ports,
           th = Client /\ thread'[th].pc # "idle" => ports' # <<>>
    PROVE  ThreadInv'
<1>1. ASSUME NEW o \in Threads \ {th}
      PROVE  /\ thread'[o].pc = "init" => Owns(o, "new")'
             /\ thread'[o].pc = "register" => Owns(o, "inited")'
  <2>1. thread'[o] = thread[o]
    OBVIOUS
  <2>2. thread[o].pc \in {"init", "register"} =>
           thread[o].t \in Transports /\ tr'[thread[o].t] = tr[thread[o].t]
    BY DEF ThreadInv, OwnInv, Owns
  <2> QED BY <2>1, <2>2 DEF ThreadInv, OwnInv, Owns
<1>2. OwnInv'
  BY <1>1 DEF OwnInv
<1>3. AloneInv'
  <2> SUFFICES ASSUME NEW a \in Threads, NEW b \in Threads,
                      thread'[a].pc \in {"init", "register"},
                      thread'[b].pc \in {"init", "register"},
                      thread'[a].t = thread'[b].t
               PROVE  a = b
    BY DEF AloneInv
  <2>1. CASE a = th \/ b = th
    BY <2>1
  <2>2. CASE a # th /\ b # th
    BY <2>2 DEF ThreadInv, AloneInv
  <2> QED BY <2>1, <2>2
<1>4. BusyInv'
  BY DEF ThreadInv, BusyInv, Threads
<1> QED BY <1>2, <1>3, <1>4 DEF ThreadInv

\* No thread has the null pointer for its atransport.
LEMMA NotNull ==
    ASSUME ThreadInv
    PROVE  \A o \in Threads : thread[o].pc \in {"init", "register"} => thread[o].t # NoTransport
BY LocalAssumption DEF ThreadInv, OwnInv, Owns

\* The invariant holds initially.
LEMMA InitIInv == Init => IInv
<1> SUFFICES ASSUME Init PROVE IInv
  OBVIOUS
<1> USE LocalAssumption DEF Init
<1>1. TrType /\ SlotType
  BY DEF TrType, SlotType, Free, NoPort, Phases
<1>2. ports \in Seq(Entry)
  BY DEF Entry
<1>3. ListType /\ CountType
  BY <1>2 DEF ListType, CountType
<1>4. ThreadType
  BY DEF ThreadType, Idle, Target, NoPort, Pcs
<1>5. UniqueSerial /\ OnePerPort /\ SlotHeld
  BY DEF UniqueSerial, OnePerPort, SlotHeld, Registered, Active, Free
<1>6. ThreadInv
  BY DEF ThreadInv, OwnInv, AloneInv, BusyInv, Idle, Threads
<1> QED BY <1>1, <1>3, <1>4, <1>5, <1>6 DEF IInv, TypeOK

\* What stays when the atransports and slots do.
LEMMA SameTransports ==
    ASSUME IInv, UNCHANGED <<tr, slots>>
    PROVE  TrType' /\ SlotType' /\ UniqueSerial' /\ OnePerPort' /\ SlotHeld'
BY DEF IInv, TypeOK, TrType, SlotType, UniqueSerial, OnePerPort, SlotHeld, Registered, Active

\* A check of a thread that is connecting: it gives up or goes on.
LEMMA CheckStep ==
    ASSUME IInv, NEW th \in Threads,
           thread[th].pc \notin {"idle", "init", "register"},
           UNCHANGED <<tr, slots, known, requests, kicks>>,
           \/ Finish(th, FALSE)
           \/ \E pc \in {"slot", "port", "serial", "dial"} : Goto(th, pc) /\ UNCHANGED lists
    PROVE  IInv'
<1>1. CASE Finish(th, FALSE)
  <2>1. ListType' /\ dropped' \subseteq Nat
    BY <1>1, FinishLists
  <2>2. /\ ThreadType' /\ thread'[th].pc = "idle"
        /\ \A o \in Threads \ {th} : thread'[o] = thread[o]
        /\ th # Client => ports' = ports
    BY <1>1, FinishThread
  <2>3. CountType'
    BY <2>1 DEF CountType, IInv, TypeOK
  <2>4. ThreadInv'
    <3>1. ThreadInv /\ \A u \in Transports \ {NoTransport} : tr'[u] = tr[u]
      BY DEF IInv
    <3>2. \A o \in Threads \ {th} : thread[o].pc \in {"init", "register"} => thread[o].t # NoTransport
      BY <3>1, NotNull
    <3>3. thread'[th].pc # "init" /\ thread'[th].pc # "register" /\ thread'[th].pc \notin {"init", "register"}
      BY <2>2
    <3> QED BY <2>2, <3>1, <3>2, <3>3, ThreadFrame
  <2> QED BY <2>1, <2>2, <2>3, <2>4, SameTransports DEF IInv, TypeOK
<1>2. CASE \E pc \in {"slot", "port", "serial", "dial"} : Goto(th, pc) /\ UNCHANGED lists
  <2> PICK pc \in {"slot", "port", "serial", "dial"} : Goto(th, pc) /\ UNCHANGED lists
    BY <1>2
  <2>1. /\ ThreadType' /\ thread'[th] = [thread[th] EXCEPT !.pc = pc]
        /\ \A o \in Threads \ {th} : thread'[o] = thread[o]
    BY GotoThread DEF Pcs
  <2>2. ListType' /\ CountType'
    BY DEF IInv, TypeOK, ListType, CountType, lists
  <2>3. thread'[th].pc \notin {"idle", "init", "register"}
    BY <2>1 DEF IInv, TypeOK, ThreadType
  <2>4. th = Client => ports # <<>>
    BY DEF IInv, ThreadInv, BusyInv
  <2>5. ports' = ports
    BY DEF lists
  <2>6. ThreadInv'
    <3>1. ThreadInv /\ \A u \in Transports \ {NoTransport} : tr'[u] = tr[u]
      BY DEF IInv
    <3>2. \A o \in Threads \ {th} : thread[o].pc \in {"init", "register"} => thread[o].t # NoTransport
      BY <3>1, NotNull
    <3>3. thread'[th].pc # "init" /\ thread'[th].pc # "register" /\ thread'[th].pc \notin {"init", "register"}
      BY <2>3
    <3>4. \A o \in Threads \ {th} : thread'[o] = thread[o]
      BY <2>1
    <3>5. ports' = ports /\ (th = Client /\ thread'[th].pc # "idle" => ports' # <<>>)
      BY <2>4, <2>5
    <3> QED BY <3>1, <3>2, <3>3, <3>4, <3>5, ThreadFrame
  <2> QED BY <2>1, <2>2, <2>6, SameTransports DEF IInv, TypeOK
<1> QED BY <1>1, <1>2

\* A thread that is idle takes a target.
LEMMA StartStep ==
    ASSUME IInv, NEW th \in Threads, thread[th].pc = "idle",
           NEW to \in [serial : Nat, port : Nat], NEW pc \in {"known", "port", "dial"},
           thread' = [thread EXCEPT ![th] = [pc |-> pc, to |-> to, t |-> NoTransport]],
           th = Client => ports # <<>>,
           UNCHANGED <<tr, slots, lists, known, kicks>>, requests' \in Nat
    PROVE  IInv'
<1>1. ThreadType'
  BY DEF IInv, TypeOK, ThreadType, Pcs
<1>2. thread'[th].pc = pc /\ \A o \in Threads \ {th} : thread'[o] = thread[o]
  BY DEF IInv, TypeOK, ThreadType
<1>3. ThreadInv'
  BY <1>2 DEF ThreadInv, OwnInv, AloneInv, BusyInv, Owns, IInv, lists
<1>4. ListType' /\ CountType'
  BY DEF IInv, TypeOK, ListType, CountType, lists
<1> QED BY <1>1, <1>3, <1>4, SameTransports DEF IInv, TypeOK

\* A transport in one of the lists moves on; Kick frees its slot.
LEMMA LifeStep ==
    ASSUME IInv, NEW t \in Transports, Life(t)
    PROVE  IInv'
<1>q. TrType /\ SlotType /\ ListType /\ CountType /\ ThreadInv /\ ThreadType
  BY DEF IInv, TypeOK
<1>t. tr[t].port \in Nat /\ tr[t].serial \in Nat
  BY <1>q DEF TrType
<1>1. /\ Registered(t)
      /\ tr' = [tr EXCEPT ![t] = tr'[t]]
      /\ tr'[t] \in [serial : Nat, port : Nat, phase : Phases]
      /\ Registered(t)' => tr'[t].serial = tr[t].serial
      /\ Active(t)' => Active(t) /\ tr'[t].port = tr[t].port /\ slots' = slots
  BY <1>q DEF Life, MainRegisters, Kick, Close, MainRemoves, Registered, Active, TrType, Free,
              NoPort, Phases
<1>2. TrType'
  BY <1>q, <1>1 DEF TrType
<1>3. \A u \in Transports \ {t} : tr'[u] = tr[u]
  BY <1>q, <1>1 DEF TrType
<1>4. slots' = slots \/ slots' = SlotsWithout(t)
  BY DEF Life, MainRegisters, Kick, Close, MainRemoves
<1>5. SlotType' /\ \A i \in 1..Slots : slots[i] # t => slots'[i] = slots[i]
  BY <1>q, <1>4 DEF SlotType, SlotsWithout
<1>6. UniqueSerial'
  BY <1>1, <1>3 DEF IInv, UniqueSerial, Registered
<1>7. OnePerPort'
  BY <1>1, <1>3 DEF IInv, OnePerPort, Active
<1>8. SlotHeld'
  BY <1>1, <1>3, <1>5 DEF IInv, SlotHeld, Active
<1>9. ListType' /\ CountType'
  <2>1. CASE Close(t)
    <3>1. Retries \in 1..Retries
      BY LocalAssumption
    <3>2. tr[t].port # NoPort => [port |-> tr[t].port, count |-> Retries] \in Entry
      BY <1>t, <3>1 DEF Entry, NoPort
    <3> QED BY <1>q, <2>1, <3>2 DEF Close, ListType, CountType
  <2>2. CASE MainRegisters(t) \/ MainRemoves(t)
    BY <1>q, <2>2 DEF MainRegisters, MainRemoves, ListType, CountType, lists
  <2>3. CASE Kick(t)
    BY <1>q, <2>3 DEF Kick, ListType, CountType, lists
  <2> QED BY <2>1, <2>2, <2>3 DEF Life
<1>10. thread' = thread /\ ports' = ports
  BY DEF Life, MainRegisters, Kick, Close, MainRemoves, lists
<1>11. ThreadInv'
  <2>1. \A th \in Threads : thread[th].pc \in {"init", "register"} => thread[th].t # t
    BY <1>q, <1>1 DEF ThreadInv, OwnInv, AloneInv, BusyInv, Owns, Registered
  <2> QED BY <1>q, <1>3, <1>10, <2>1 DEF ThreadInv, OwnInv, AloneInv, BusyInv, Owns
<1>12. ThreadType'
  BY <1>q, <1>10 DEF ThreadType
<1> QED BY <1>2, <1>5, <1>6, <1>7, <1>8, <1>9, <1>11, <1>12 DEF IInv, TypeOK

\* A thread allocates an atransport: one that nothing refers to as registered.
LEMMA DialStep ==
    ASSUME IInv, NEW th \in Threads, Dial(th)
    PROVE  IInv'
<1>q. TrType /\ SlotType /\ ListType /\ CountType /\ ThreadInv /\ ThreadType
  BY DEF IInv, TypeOK
<1>p. PICK t \in Transports :
      /\ Deleted(t)
      /\ tr' = [tr EXCEPT ![t] = [serial |-> thread[th].to.serial,
                                  port |-> thread[th].to.port, phase |-> "new"]]
      /\ thread' = [thread EXCEPT ![th].pc = "init", ![th].t = t]
  BY DEF Dial
<1>1. /\ thread[th].to \in [serial : Nat, port : Nat] /\ thread[th].pc = "dial"
      /\ thread'[th].pc = "init" /\ thread'[th].to = thread[th].to /\ thread'[th].t = t
      /\ \A o \in Threads \ {th} : thread'[o] = thread[o]
  BY <1>p, <1>q DEF ThreadType, Dial
<1>2. ThreadType'
  BY <1>p, <1>q DEF ThreadType, Pcs
<1>3. /\ TrType'
      /\ tr'[t] = [serial |-> thread[th].to.serial, port |-> thread[th].to.port, phase |-> "new"]
      /\ \A u \in Transports \ {t} : tr'[u] = tr[u]
  BY <1>p, <1>q, <1>1 DEF TrType, Phases
<1>4. UniqueSerial' /\ OnePerPort'
  BY <1>p, <1>3 DEF IInv, UniqueSerial, OnePerPort, Registered, Active
<1>5. slots' = slots /\ lists' = lists /\ UNCHANGED <<known, requests, kicks>>
  BY DEF Dial
<1>6. SlotHeld' /\ SlotType'
  BY <1>p, <1>q, <1>3, <1>5 DEF IInv, SlotHeld, SlotType, Active
<1>7. ListType' /\ CountType'
  BY <1>q, <1>5 DEF ListType, CountType, lists
<1>8. ThreadInv'
  <2>1. \A o \in Threads : thread[o].pc \in {"init", "register"} => thread[o].t # t
    BY <1>p, <1>q DEF ThreadInv, OwnInv, Owns, Deleted
  <2>2. ports' = ports
    BY <1>5 DEF lists
  <2>3. Owns(th, "new")'
    BY <1>1, <1>3 DEF Owns
  <2>4. th = Client => ports # <<>>
    BY <1>q, <1>1 DEF ThreadInv, BusyInv
  <2>5. /\ thread'[th].pc # "register" /\ thread'[th].t = t
        /\ \A o \in Threads \ {th} : thread'[o] = thread[o]
    BY <1>1
  <2>6. \A u \in Transports \ {t} : tr'[u] = tr[u]
    BY <1>3
  <2>7. ThreadInv /\ (th = Client /\ thread'[th].pc # "idle" => ports' # <<>>)
    BY <1>q, <2>2, <2>4
  <2> QED BY <2>1, <2>2, <2>3, <2>5, <2>6, <2>7, ThreadFrame
<1> QED BY <1>2, <1>3, <1>4, <1>6, <1>7, <1>8 DEF IInv, TypeOK

\* The atransport of a thread is deleted again, or registered: the thread is
\* done, and the atransports of the others are as they were.
LEMMA DoneStep ==
    ASSUME IInv, NEW th \in Threads, thread[th].pc \in {"init", "register"},
           NEW ok \in BOOLEAN, Finish(th, ok),
           NEW a \in [serial : Nat, port : Nat, phase : Phases],
           tr' = [tr EXCEPT ![thread[th].t] = a], UNCHANGED <<slots, requests, kicks>>,
           known' \subseteq Nat
    PROVE  /\ TypeOK' /\ ThreadInv'
           /\ thread[th].t \in Transports /\ tr'[thread[th].t] = a
           /\ \A u \in Transports \ {thread[th].t} : tr'[u] = tr[u]
<1>q. TrType /\ SlotType /\ ListType /\ CountType /\ ThreadInv /\ ThreadType
  BY DEF IInv, TypeOK
<1> DEFINE t == thread[th].t
<1>1. t \in Transports
  BY <1>q DEF ThreadInv, OwnInv, AloneInv, BusyInv, Owns
<1>2. TrType' /\ tr'[t] = a /\ \A u \in Transports \ {t} : tr'[u] = tr[u]
  BY <1>q, <1>1 DEF TrType
<1>3. ListType' /\ dropped' \subseteq Nat
  BY FinishLists
<1>4. /\ ThreadType' /\ thread'[th].pc = "idle"
      /\ \A o \in Threads \ {th} : thread'[o] = thread[o]
      /\ th # Client => ports' = ports
  BY FinishThread
<1>5. SlotType' /\ CountType'
  BY <1>q, <1>3 DEF SlotType, CountType
<1>6. ThreadInv'
  <2>1. \A o \in Threads \ {th} : thread[o].pc \in {"init", "register"} => thread[o].t # t
    BY <1>q DEF ThreadInv, OwnInv, AloneInv, BusyInv
  <2>2. thread'[th].pc # "init" /\ thread'[th].pc # "register" /\ thread'[th].pc \notin {"init", "register"}
    BY <1>4
  <2> QED BY <1>q, <1>1, <1>2, <1>4, <2>1, <2>2, ThreadFrame
<1> QED BY <1>1, <1>2, <1>3, <1>4, <1>5, <1>6 DEF TypeOK

\* init_socket_transport fails.
LEMMA InitSocketFailsStep ==
    ASSUME IInv, NEW th \in Threads, InitSocketFails(th)
    PROVE  IInv'
<1> DEFINE t == thread[th].t
<1>1. /\ thread[th].pc \in {"init", "register"} /\ Finish(th, FALSE)
      /\ tr' = [tr EXCEPT ![t] = Free] /\ UNCHANGED <<slots, requests, kicks>>
      /\ known' = known
  BY DEF InitSocketFails
<1>2. Free \in [serial : Nat, port : Nat, phase : Phases] /\ Free.phase = "deleted"
  BY DEF Free, NoPort, Phases
<1>3. known' \subseteq Nat
  BY <1>1 DEF IInv, TypeOK, CountType
<1>4. /\ TypeOK' /\ ThreadInv' /\ t \in Transports /\ tr'[t] = Free
      /\ \A u \in Transports \ {t} : tr'[u] = tr[u]
  BY <1>1, <1>2, <1>3, DoneStep
<1>5. UniqueSerial' /\ OnePerPort'
  BY <1>2, <1>4 DEF IInv, UniqueSerial, OnePerPort, Registered, Active
<1>6. SlotHeld'
  BY <1>1, <1>2, <1>4 DEF IInv, SlotHeld, Active
<1> QED BY <1>4, <1>5, <1>6 DEF IInv

\* register_socket_transport looks for the serial under transport_lock.
LEMMA RegisterSocketStep ==
    ASSUME IInv, NEW th \in Threads, RegisterSocket(th)
    PROVE  IInv'
<1> DEFINE t == thread[th].t
           taken == \E u \in Transports : Registered(u) /\ tr[u].serial = tr[t].serial
           a == IF taken THEN Free ELSE [tr[t] EXCEPT !.phase = "pending"]
<1>q. TrType /\ CountType /\ ThreadInv
  BY DEF IInv, TypeOK
<1>1. /\ thread[th].pc = "register" /\ taken \in BOOLEAN /\ Finish(th, ~taken)
      /\ tr' = [tr EXCEPT ![t] = a] /\ UNCHANGED <<slots, requests, kicks>>
      /\ known' = IF taken THEN known ELSE known \cup ({tr[t].port} \ {NoPort})
  BY DEF RegisterSocket
<1>2. t \in Transports /\ tr[t].phase = "inited"
  BY <1>q, <1>1 DEF ThreadInv, OwnInv, AloneInv, BusyInv, Owns
<1>3. /\ a \in [serial : Nat, port : Nat, phase : Phases]
      /\ ~taken => a.phase = "pending" /\ a.serial = tr[t].serial /\ a.port = tr[t].port
      /\ taken => a.phase = "deleted"
  BY <1>q, <1>2 DEF TrType, Free, NoPort, Phases
<1>4. known' \subseteq Nat
  BY <1>q, <1>1, <1>2 DEF CountType, TrType
<1> HIDE DEF a
<1>5. /\ TypeOK' /\ ThreadInv' /\ tr'[t] = a
      /\ \A u \in Transports \ {t} : tr'[u] = tr[u]
  BY <1>1, <1>3, <1>4, DoneStep
<1>6. UniqueSerial'
  BY <1>2, <1>3, <1>5 DEF IInv, UniqueSerial, Registered
<1>7. OnePerPort'
  BY <1>2, <1>3, <1>5 DEF IInv, OnePerPort, Active
<1>8. SlotHeld'
  BY <1>1, <1>2, <1>3, <1>5 DEF IInv, SlotHeld, Active
<1> QED BY <1>5, <1>6, <1>7, <1>8 DEF IInv

\* init_socket_transport looks for the port under local_transports_lock: every
\* transport with that port which is not kicked would have been found in its slot.
LEMMA InitSocketStep ==
    ASSUME IInv, NEW th \in Threads, InitSocket(th)
    PROVE  IInv'
<1> DEFINE t == thread[th].t
           port == thread[th].to.port
<1>q. TrType /\ SlotType /\ ListType /\ CountType /\ ThreadInv /\ ThreadType
  BY DEF IInv, TypeOK
<1>1. /\ thread[th].pc = "init" /\ Goto(th, "register")
      /\ tr' = [tr EXCEPT ![t].phase = "inited"]
      /\ UNCHANGED <<lists, known, requests, kicks>>
  BY DEF InitSocket
<1>2. /\ t \in Transports /\ tr[t].phase = "new"
      /\ tr[t].port = port /\ tr[t].serial = thread[th].to.serial
  BY <1>q, <1>1 DEF ThreadInv, OwnInv, AloneInv, BusyInv, Owns
<1>3. /\ TrType' /\ \A u \in Transports \ {t} : tr'[u] = tr[u]
      /\ tr'[t].phase = "inited" /\ tr'[t].port = port /\ tr'[t].serial = thread[th].to.serial
  BY <1>q, <1>1, <1>2 DEF TrType, Phases
<1>4. /\ ThreadType' /\ thread'[th] = [thread[th] EXCEPT !.pc = "register"]
      /\ \A o \in Threads \ {th} : thread'[o] = thread[o]
  BY <1>1, GotoThread DEF Pcs
<1>5. thread'[th].pc = "register" /\ thread'[th].to = thread[th].to /\ thread'[th].t = t
  BY <1>q, <1>4 DEF ThreadType
<1>6. /\ port = NoPort => slots' = slots
      /\ port # NoPort =>
            /\ FoundByPort(port, FALSE)
            /\ \E i \in 1..Slots : slots[i] = NoTransport /\ slots' = [slots EXCEPT ![i] = t]
  BY DEF InitSocket, Available
<1>7. /\ SlotType'
      /\ \A i \in 1..Slots : slots[i] \in Transports => slots'[i] = slots[i]
      /\ port # NoPort => \E i \in 1..Slots : slots'[i] = t
  BY <1>q, <1>2, <1>6, LocalAssumption DEF SlotType
<1>8. \A u \in Transports : port # NoPort /\ Active(u) => tr[u].port # port
  <2> SUFFICES ASSUME NEW u \in Transports, port # NoPort, Active(u), tr[u].port = port
               PROVE  FALSE
    OBVIOUS
  <2>1. PICK i \in 1..Slots : slots[i] = u
    BY DEF IInv, SlotHeld
  <2>2. slots[i] # NoTransport
    BY <2>1, LocalAssumption
  <2>3. tr[u].phase = "deleted" \/ tr[u].port # port
    BY <1>6, <2>1, <2>2 DEF FoundByPort
  <2> QED BY <2>3 DEF Active
<1>9. UniqueSerial'
  BY <1>2, <1>3 DEF IInv, UniqueSerial, Registered
<1>10. OnePerPort'
  BY <1>3, <1>8 DEF IInv, OnePerPort, Active
<1>11. SlotHeld'
  BY <1>3, <1>7 DEF IInv, SlotHeld, Active
<1>12. ListType' /\ CountType'
  BY <1>q, <1>1 DEF ListType, CountType, lists
<1>13. ThreadInv'
  <2>1. \A o \in Threads \ {th} : thread[o].pc \in {"init", "register"} => thread[o].t # t
    BY <1>q, <1>1 DEF ThreadInv, OwnInv, AloneInv, BusyInv
  <2>2. ports' = ports
    BY <1>1 DEF lists
  <2>3. Owns(th, "inited")'
    BY <1>2, <1>3, <1>5 DEF Owns
  <2>4. th = Client => ports # <<>>
    BY <1>q, <1>1 DEF ThreadInv, BusyInv
  <2>5. /\ thread'[th].pc # "init" /\ thread'[th].t = t
        /\ \A o \in Threads \ {th} : thread'[o] = thread[o]
    BY <1>4, <1>5
  <2>6. t \in Transports /\ \A u \in Transports \ {t} : tr'[u] = tr[u]
    BY <1>2, <1>3
  <2>7. ThreadInv /\ (th = Client /\ thread'[th].pc # "idle" => ports' # <<>>)
    BY <1>q, <2>2, <2>4
  <2> HIDE DEF t
  <2> QED BY <2>1, <2>2, <2>3, <2>5, <2>6, <2>7, ThreadFrame
<1> QED BY <1>3, <1>4, <1>7, <1>9, <1>10, <1>11, <1>12, <1>13 DEF IInv, TypeOK

\* client_socket_thread moves entries between its lists.
LEMMA ClientStep ==
    ASSUME IInv, ClientCopiesBack \/ ClientCollects
    PROVE  IInv'
<1>q. ListType /\ CountType /\ ThreadInv /\ ThreadType
  BY DEF IInv, TypeOK
<1>1. ListType'
  <2>1. retry \o nextPorts \in Seq(Entry)
    BY <1>q DEF ListType
  <2> QED BY <1>q, <2>1 DEF ClientCopiesBack, ClientCollects, ListType
<1>2. UNCHANGED <<tr, slots, thread, known, dropped, requests, kicks>> /\ thread[Client].pc = "idle"
  BY DEF ClientCopiesBack, ClientCollects
<1>3. ThreadInv' /\ ThreadType' /\ CountType'
  BY <1>q, <1>2 DEF ThreadInv, OwnInv, AloneInv, BusyInv, Owns, ThreadType, CountType
<1> QED BY <1>1, <1>2, <1>3, SameTransports DEF IInv, TypeOK

\* Every step keeps the invariant.
LEMMA NextStep == IInv /\ [Next]_vars => IInv'
<1> SUFFICES ASSUME IInv, [Next]_vars PROVE IInv'
  OBVIOUS
<1>q. ThreadType /\ ListType /\ CountType
  BY DEF IInv, TypeOK
<1>1. ASSUME NEW th \in Threads, LocalConnect(th) PROVE IInv'
  <2>1. CASE CheckKnown(th) \/ CheckSlot(th) \/ CheckPort(th) \/ CheckSerial(th) \/ DialFails(th)
    <3>1. /\ thread[th].pc \notin {"idle", "init", "register"}
          /\ UNCHANGED <<tr, slots, known, requests, kicks>>
      BY <2>1 DEF CheckKnown, CheckSlot, CheckPort, CheckSerial, DialFails
    <3>2. \/ Finish(th, FALSE)
          \/ \E pc \in {"slot", "port", "serial", "dial"} : Goto(th, pc) /\ UNCHANGED lists
      BY <2>1 DEF CheckKnown, CheckSlot, CheckPort, CheckSerial, DialFails
    <3> QED BY <3>1, <3>2, CheckStep
  <2> QED
    BY <1>1, <2>1, DialStep, InitSocketStep, InitSocketFailsStep, RegisterSocketStep
       DEF LocalConnect
<1>2. ASSUME NEW th \in Services, NEW to \in Requests, Request(th, to) PROVE IInv'
  <2>1. th \in Threads /\ th # Client /\ to \in [serial : Nat, port : Nat]
    BY LocalAssumption DEF Threads
  <2>2. /\ thread[th].pc = "idle" /\ requests' \in Nat
        /\ UNCHANGED <<tr, slots, lists, known, kicks>>
    BY <1>2, <1>q DEF Request, CountType
  <2>3. \E pc \in {"known", "port", "dial"} :
           thread' = [thread EXCEPT ![th] = [pc |-> pc, to |-> to, t |-> NoTransport]]
    BY <1>2 DEF Request
  <2> QED BY <2>1, <2>2, <2>3, StartStep
<1>3. CASE ClientTakes
  <2> DEFINE to == Emulator(Head(ports).port)
  <2>1. ports # <<>> /\ thread[Client].pc = "idle" /\ Client \in Threads
    BY <1>3 DEF ClientTakes, Threads
  <2>2. Head(ports) \in Entry
    BY <1>q, <2>1 DEF ListType
  <2>3. to \in [serial : Nat, port : Nat]
    BY <2>2 DEF Entry, Emulator, Target
  <2>4. /\ thread' = [thread EXCEPT ![Client] = [pc |-> "port", to |-> to, t |-> NoTransport]]
        /\ UNCHANGED <<tr, slots, lists, known, kicks>> /\ requests' \in Nat
    BY <1>3, <1>q DEF ClientTakes, CountType
  <2> QED BY <2>1, <2>3, <2>4, StartStep
<1>4. CASE UNCHANGED vars
  <2>1. ThreadInv' /\ ThreadType' /\ ListType' /\ CountType'
    BY <1>4 DEF vars, lists, IInv, TypeOK, ThreadInv, OwnInv, AloneInv, BusyInv, Owns, ThreadType, ListType, CountType
  <2> QED BY <1>4, <2>1, SameTransports DEF vars, IInv, TypeOK
<1> QED
  BY <1>1, <1>2, <1>3, <1>4, ClientStep, LifeStep DEF Next, ClientThread

-----------------------------------------------------------------------------
(* No port is lost *)

\* A port that client_socket_thread will try again.
Listing(port) == \E e \in Entries : e.port = port

\* A transport of the port whose remote_close is still to come.
Held(port) == \E t \in Transports : tr[t].phase \in {"pending", "listed", "kicked"} /\ tr[t].port = port

\* NoLostPort counts a transport until it is deleted, and its removal adds no
\* entry: what has to be kept is that the entry is there from remote_close on.
KeptInv == NoPort \notin known /\ \A p \in known \ dropped : Held(p) \/ Listing(p)

\* The entry that client_socket_thread gives up is that of the port it has tried.
TakenInv == thread[Client].pc # "idle" => thread[Client].to.port = Head(ports).port

\* What the proof of NoLostPort adds to IInv.
PortInv == KeptInv /\ TakenInv

\* What ToSet says of the lists that client_socket_thread builds.
LEMMA EntryLaws ==
    ASSUME NEW s \in Seq(Entry)
    PROVE  /\ \A u \in Seq(Entry) : ToSet(s \o u) = ToSet(s) \cup ToSet(u)
           /\ \A e \in Entry : ToSet(Append(s, e)) = ToSet(s) \cup {e}
           /\ s # <<>> => ToSet(s) = {Head(s)} \cup ToSet(Tail(s))
           /\ ToSet(<<>>) = {}
<1>1. ASSUME NEW u \in Seq(Entry) PROVE ToSet(s \o u) = ToSet(s) \cup ToSet(u)
  <2>1. ToSet(s \o u) \subseteq ToSet(s) \cup ToSet(u)
    <3> SUFFICES ASSUME NEW i \in 1..Len(s \o u) PROVE (s \o u)[i] \in ToSet(s) \cup ToSet(u)
      BY DEF ToSet
    <3>1. CASE i <= Len(s)
      BY <3>1 DEF ToSet
    <3>2. CASE i > Len(s)
      <4>1. i - Len(s) \in 1..Len(u) /\ (s \o u)[i] = u[i - Len(s)]
        BY <3>2
      <4> QED BY <4>1 DEF ToSet
    <3> QED BY <3>1, <3>2
  <2>2. ToSet(s) \subseteq ToSet(s \o u)
    <3> SUFFICES ASSUME NEW i \in 1..Len(s) PROVE s[i] \in ToSet(s \o u)
      BY DEF ToSet
    <3>1. i \in 1..Len(s \o u) /\ (s \o u)[i] = s[i]
      OBVIOUS
    <3> QED BY <3>1 DEF ToSet
  <2>3. ToSet(u) \subseteq ToSet(s \o u)
    <3> SUFFICES ASSUME NEW i \in 1..Len(u) PROVE u[i] \in ToSet(s \o u)
      BY DEF ToSet
    <3>1. Len(s) + i \in 1..Len(s \o u) /\ (s \o u)[Len(s) + i] = u[i]
      OBVIOUS
    <3> QED BY <3>1 DEF ToSet
  <2> QED BY <2>1, <2>2, <2>3
<1>2. ASSUME NEW e \in Entry PROVE ToSet(Append(s, e)) = ToSet(s) \cup {e}
  <2> DEFINE a == Append(s, e)
  <2>1. /\ DOMAIN a = 1..Len(s) + 1 /\ DOMAIN s = 1..Len(s) /\ Len(s) \in Nat
        /\ a[Len(s) + 1] = e /\ \A i \in 1..Len(s) : a[i] = s[i]
    OBVIOUS
  <2> HIDE DEF a
  <2> QED BY <2>1 DEF ToSet, a
<1>3. ASSUME s # <<>> PROVE ToSet(s) = {Head(s)} \cup ToSet(Tail(s))
  <2> DEFINE u == Tail(s)
  <2>1. /\ Len(s) \in Nat \ {0} /\ DOMAIN s = 1..Len(s) /\ DOMAIN u = 1..Len(s) - 1
        /\ Head(s) = s[1] /\ \A i \in 1..Len(s) - 1 : u[i] = s[i + 1]
    BY <1>3
  <2> HIDE DEF u
  <2>2. \A i \in 1..Len(s) : i # 1 => i - 1 \in 1..Len(s) - 1 /\ s[i] = u[i - 1]
    BY <2>1
  <2>3. \A i \in 1..Len(s) - 1 : i + 1 \in 1..Len(s) /\ u[i] = s[i + 1]
    BY <2>1
  <2>4. ToSet(s) \subseteq {Head(s)} \cup ToSet(u)
    BY <2>1, <2>2 DEF ToSet
  <2>5. {Head(s)} \cup ToSet(u) \subseteq ToSet(s)
    BY <2>1, <2>3 DEF ToSet
  <2> QED BY <2>4, <2>5 DEF u
<1>4. ToSet(<<>>) = {}
  BY DEF ToSet
<1> QED BY <1>1, <1>2, <1>3, <1>4

\* A thread that is done gives up no entry but that of its own port, and then
\* either it has registered the port or the port is out of retries.
LEMMA FinishPorts ==
    ASSUME IInv, PortInv, NEW th \in Threads, thread[th].pc # "idle", NEW ok \in BOOLEAN,
           Finish(th, ok)
    PROVE  /\ \A p : Listing(p) => Listing(p)' \/ (p = thread[th].to.port /\ (ok \/ p \in dropped'))
           /\ \A p : p \in dropped \ dropped' => p = thread[th].to.port /\ (ok \/ Listing(p)')
<1>q. ListType
  BY DEF IInv, TypeOK
<1>1. CASE th = Client
  <2> DEFINE e == Head(ports)
             again == ~ok /\ e.count > 1
             f == [e EXCEPT !.count = @ - 1]
  <2>1. ports # <<>> /\ thread[th].to.port = e.port
    BY <1>1 DEF IInv, ThreadInv, BusyInv, PortInv, TakenInv
  <2>2. e \in Entry
    BY <1>q, <2>1 DEF ListType
  <2>3. f.port = e.port /\ (again => f \in Entry)
    <3>1. again => e.count - 1 \in 1..Retries
      BY <2>2, LocalAssumption DEF Entry
    <3> QED BY <2>2, <3>1 DEF Entry
  <2>4. /\ ports' = Tail(ports) /\ retry' = retry
        /\ nextPorts' = IF again THEN Append(nextPorts, f) ELSE nextPorts
        /\ dropped' = IF again \/ ok THEN dropped \ {e.port} ELSE dropped \cup {e.port}
    BY <1>1 DEF Finish
  <2> HIDE DEF e, f
  <2>5. ToSet(ports) = {e} \cup ToSet(ports')
    BY <1>q, <2>1, <2>4, EntryLaws DEF ListType, e
  <2>6. ToSet(nextPorts') = IF again THEN ToSet(nextPorts) \cup {f} ELSE ToSet(nextPorts)
    <3>1. nextPorts \in Seq(Entry)
      BY <1>q DEF ListType
    <3>2. CASE again
      BY <2>3, <2>4, <3>1, <3>2, EntryLaws
    <3>3. CASE ~again
      BY <2>4, <3>3
    <3> QED BY <3>2, <3>3
  <2>7. ToSet(retry') = ToSet(retry)
    BY <2>4
  <2> HIDE DEF again
  <2>8. \A p : again /\ p = e.port => Listing(p)'
    BY <2>3, <2>6 DEF Listing, Entries
  <2>9. \A p : Listing(p) => Listing(p)' \/ p = e.port
    BY <2>5, <2>6, <2>7 DEF Listing, Entries
  <2>10. ~again => ok \/ e.port \in dropped'
    BY <2>4
  <2>11. \A p : p \in dropped \ dropped' => p = e.port /\ (again \/ ok)
    BY <2>4
  <2> QED BY <2>1, <2>8, <2>9, <2>10, <2>11
<1>2. CASE th # Client
  <2>1. /\ retry' = retry /\ ports' = ports /\ nextPorts' = nextPorts
        /\ dropped' = IF ok THEN dropped \ {thread[th].to.port} ELSE dropped
    BY <1>2 DEF Finish
  <2>2. Entries' = Entries
    BY <2>1 DEF Entries
  <2> QED BY <2>1, <2>2 DEF Listing
<1> QED BY <1>1, <1>2

\* What client_socket_thread tries stays what it tries while others step.
LEMMA TakenStep == IInv /\ PortInv /\ [Next]_vars => TakenInv'
<1> SUFFICES ASSUME IInv, PortInv, [Next]_vars, thread'[Client].pc # "idle"
             PROVE  thread'[Client].to.port = Head(ports').port
  BY DEF TakenInv
<1>q. ThreadType /\ ListType /\ Client \in Threads /\ TakenInv
  BY DEF IInv, TypeOK, Threads, PortInv
<1>k. ASSUME thread'[Client] = thread[Client], ports' = ports
      PROVE  thread'[Client].to.port = Head(ports').port
  BY <1>q, <1>k DEF TakenInv
<1>1. ASSUME NEW th \in Threads, LocalConnect(th)
      PROVE  thread'[Client].to.port = Head(ports').port
  <2>1. ASSUME NEW ok \in BOOLEAN, Finish(th, ok)
        PROVE  thread'[Client].to.port = Head(ports').port
    <3>1. /\ thread'[th].pc = "idle" /\ (th # Client => ports' = ports)
          /\ \A o \in Threads \ {th} : thread'[o] = thread[o]
      BY <2>1, FinishThread
    <3> QED BY <1>q, <1>k, <3>1
  <2>2. ASSUME NEW pc \in Pcs, Goto(th, pc), UNCHANGED lists, thread[th].pc # "idle"
        PROVE  thread'[Client].to.port = Head(ports').port
    <3>1. thread'[Client].to = thread[Client].to /\ ports' = ports
      BY <1>q, <2>2 DEF Goto, ThreadType, lists
    <3>2. thread[Client].pc # "idle"
      BY <1>q, <2>2 DEF Goto, ThreadType
    <3> QED BY <1>q, <3>1, <3>2 DEF TakenInv
  <2>3. CASE Dial(th)
    <3>1. thread'[Client].to = thread[Client].to /\ ports' = ports
      BY <1>q, <2>3 DEF Dial, ThreadType, lists
    <3>2. thread[Client].pc # "idle"
      BY <1>q, <2>3 DEF Dial, ThreadType
    <3> QED BY <1>q, <3>1, <3>2 DEF TakenInv
  <2>4. CASE InitSocket(th)
    BY <2>2, <2>4 DEF InitSocket, Pcs
  <2>5. CASE InitSocketFails(th)
    BY <2>1, <2>5 DEF InitSocketFails
  <2>6. CASE RegisterSocket(th)
    BY <2>1, <2>6 DEF RegisterSocket
  <2>7. CASE CheckKnown(th) \/ CheckSlot(th) \/ CheckPort(th) \/ CheckSerial(th) \/ DialFails(th)
    <3>1. /\ thread[th].pc # "idle"
          /\ \/ Finish(th, FALSE)
             \/ \E pc \in {"slot", "port", "serial", "dial"} : Goto(th, pc) /\ UNCHANGED lists
      BY <2>7 DEF CheckKnown, CheckSlot, CheckPort, CheckSerial, DialFails
    <3>2. {"slot", "port", "serial", "dial"} \subseteq Pcs
      BY DEF Pcs
    <3> QED BY <2>1, <2>2, <3>1, <3>2
  <2> QED BY <1>1, <2>3, <2>4, <2>5, <2>6, <2>7 DEF LocalConnect
<1>2. ASSUME NEW th \in Services, NEW to \in Requests, Request(th, to)
      PROVE  thread'[Client].to.port = Head(ports').port
  <2>1. th \in Threads /\ th # Client
    BY LocalAssumption DEF Threads
  <2> QED BY <1>q, <1>k, <1>2, <2>1 DEF Request, ThreadType, lists
<1>3. CASE ClientTakes
  BY <1>q, <1>3 DEF ClientTakes, ThreadType, lists, Emulator, Target
<1>4. CASE ClientCopiesBack \/ ClientCollects
  BY <1>4 DEF ClientCopiesBack, ClientCollects
<1>5. ASSUME NEW t \in Transports, Life(t)
      PROVE  thread'[Client].to.port = Head(ports').port
  BY <1>k, <1>5 DEF Life, MainRegisters, Kick, Close, MainRemoves, lists
<1>6. CASE UNCHANGED vars
  BY <1>k, <1>6 DEF vars, lists
<1> QED BY <1>1, <1>2, <1>3, <1>4, <1>5, <1>6 DEF Next, ClientThread

\* Transports, lists and drops are as they were for the ports.
LEMMA KeptFrame ==
    ASSUME KeptInv, known' = known, dropped' = dropped,
           \A p : Held(p) => Held(p)', \A p : Listing(p) => Listing(p)'
    PROVE  KeptInv'
BY DEF KeptInv

\* A thread gives up: its port is listed still, or it is dropped.
LEMMA GiveUpKeeps ==
    ASSUME IInv, PortInv, NEW th \in Threads, thread[th].pc # "idle", Finish(th, FALSE),
           known' = known, \A p : Held(p) => Held(p)'
    PROVE  KeptInv'
<1>1. /\ \A p : Listing(p) => Listing(p)' \/ p \in dropped'
      /\ \A p : p \in dropped \ dropped' => Listing(p)'
  BY FinishPorts
<1> QED BY <1>1 DEF PortInv, KeptInv

\* register_socket_transport: the port is held from here on.
LEMMA RegisterKeeps ==
    ASSUME IInv, PortInv, NEW th \in Threads, RegisterSocket(th)
    PROVE  KeptInv'
<1> DEFINE t == thread[th].t
           taken == \E u \in Transports : Registered(u) /\ tr[u].serial = tr[t].serial
<1>q. TrType /\ ThreadInv /\ KeptInv
  BY DEF IInv, TypeOK, PortInv
<1>1. /\ thread[th].pc = "register" /\ taken \in BOOLEAN /\ Finish(th, ~taken)
      /\ tr' = [tr EXCEPT ![t] = IF taken THEN Free ELSE [@ EXCEPT !.phase = "pending"]]
      /\ known' = IF taken THEN known ELSE known \cup ({tr[t].port} \ {NoPort})
  BY DEF RegisterSocket
<1>2. t \in Transports /\ tr[t].phase = "inited" /\ tr[t].port = thread[th].to.port
  BY <1>q, <1>1 DEF ThreadInv, OwnInv, Owns
<1>3. /\ \A u \in Transports \ {t} : tr'[u] = tr[u]
      /\ ~taken => tr'[t].phase = "pending" /\ tr'[t].port = tr[t].port
  BY <1>q, <1>1, <1>2 DEF TrType
<1> HIDE DEF taken
<1>4. \A p : Held(p) => Held(p)'
  BY <1>2, <1>3 DEF Held
<1>5. CASE taken
  <2>1. Finish(th, FALSE) /\ known' = known /\ thread[th].pc # "idle"
    BY <1>1, <1>5
  <2> QED BY <1>4, <2>1, GiveUpKeeps
<1>6. CASE ~taken
  <2>1. Finish(th, TRUE) /\ thread[th].pc # "idle"
    BY <1>1, <1>6
  <2>2. /\ \A p : Listing(p) => Listing(p)' \/ p = tr[t].port
        /\ \A p : p \in dropped \ dropped' => p = tr[t].port
    BY <1>2, <2>1, FinishPorts
  <2>3. \A p : p = tr[t].port => Held(p)'
    BY <1>2, <1>3, <1>6 DEF Held
  <2> QED BY <1>q, <1>1, <1>4, <1>6, <2>2, <2>3 DEF KeptInv
<1> QED BY <1>5, <1>6

\* remote_close pushes the port before the transport goes.
LEMMA LifeKeeps ==
    ASSUME IInv, PortInv, NEW t \in Transports, Life(t)
    PROVE  KeptInv'
<1>q. TrType /\ ListType /\ KeptInv /\ tr[t].port \in Nat
  BY DEF IInv, TypeOK, PortInv, TrType
<1>1. known' = known /\ dropped' = dropped
  BY DEF Life, MainRegisters, Kick, Close, MainRemoves, lists
<1>2. \A u \in Transports \ {t} : tr'[u] = tr[u]
  BY <1>q DEF Life, MainRegisters, Kick, Close, MainRemoves, TrType
<1>3. CASE ~Close(t)
  <2>1. \A p : Held(p) => Held(p)'
    <3>1. \/ tr'[t].phase \in {"pending", "listed", "kicked"} /\ tr'[t].port = tr[t].port
          \/ tr[t].phase = "closed"
      BY <1>q, <1>3 DEF Life, MainRegisters, Kick, MainRemoves, TrType
    <3> QED BY <1>2, <3>1 DEF Held
  <2>2. Entries' = Entries
    BY <1>3 DEF Life, MainRegisters, Kick, MainRemoves, lists, Entries
  <2> QED BY <1>q, <1>1, <2>1, <2>2, KeptFrame DEF Listing
<1>4. CASE Close(t)
  <2> DEFINE e == [port |-> tr[t].port, count |-> Retries]
  <2>1. \A p : Held(p) => Held(p)' \/ p = tr[t].port
    BY <1>2 DEF Held
  <2>2. CASE tr[t].port = NoPort
    <3>1. Entries' = Entries
      BY <1>4, <2>2 DEF Close, Entries
    <3> QED BY <1>q, <1>1, <2>1, <2>2, <3>1 DEF KeptInv, Listing
  <2>3. CASE tr[t].port # NoPort
    <3>1. e \in Entry
      BY <1>q, <2>3, LocalAssumption DEF Entry, NoPort
    <3>2. ToSet(retry') = ToSet(retry) \cup {e} /\ ports' = ports /\ nextPorts' = nextPorts
      BY <1>q, <1>4, <2>3, <3>1, EntryLaws DEF Close, ListType
    <3>3. e.port = tr[t].port
      OBVIOUS
    <3> HIDE DEF e
    <3>4. Entries' = Entries \cup {e}
      BY <3>2 DEF Entries
    <3> QED BY <1>q, <1>1, <2>1, <3>3, <3>4 DEF KeptInv, Listing
  <2> QED BY <2>2, <2>3
<1> QED BY <1>3, <1>4

\* Every step keeps the ports.
LEMMA KeptStep == IInv /\ PortInv /\ [Next]_vars => KeptInv'
<1> SUFFICES ASSUME IInv, PortInv, [Next]_vars PROVE KeptInv'
  OBVIOUS
<1>q. TrType /\ ListType /\ ThreadInv /\ ThreadType /\ KeptInv
  BY DEF IInv, TypeOK, PortInv
<1>k. ASSUME UNCHANGED <<lists, known>>, \A p : Held(p) => Held(p)' PROVE KeptInv'
  <2>1. Entries' = Entries /\ dropped' = dropped
    BY <1>k DEF lists, Entries
  <2> QED BY <1>q, <1>k, <2>1, KeptFrame DEF Listing
<1>1. ASSUME NEW th \in Threads, LocalConnect(th) PROVE KeptInv'
  <2>1. CASE CheckKnown(th) \/ CheckSlot(th) \/ CheckPort(th) \/ CheckSerial(th) \/ DialFails(th)
    <3>1. /\ thread[th].pc # "idle" /\ UNCHANGED <<tr, known>>
          /\ Finish(th, FALSE) \/ UNCHANGED lists
      BY <2>1 DEF CheckKnown, CheckSlot, CheckPort, CheckSerial, DialFails
    <3>2. \A p : Held(p) => Held(p)'
      BY <3>1 DEF Held
    <3> QED BY <1>k, <3>1, <3>2, GiveUpKeeps
  <2>2. CASE Dial(th)
    <3>1. \A p : Held(p) => Held(p)'
      BY <1>q, <2>2 DEF Held, Dial, Deleted, TrType
    <3> QED BY <1>k, <2>2, <3>1 DEF Dial
  <2>3. CASE InitSocket(th) \/ InitSocketFails(th)
    <3>1. thread[th].t \in Transports /\ tr[thread[th].t].phase = "new"
      BY <1>q, <2>3 DEF InitSocket, InitSocketFails, ThreadInv, OwnInv, Owns
    <3>2. \A u \in Transports \ {thread[th].t} : tr'[u] = tr[u]
      BY <1>q, <2>3, <3>1 DEF InitSocket, InitSocketFails, TrType
    <3>3. \A p : Held(p) => Held(p)'
      BY <3>1, <3>2 DEF Held
    <3>4. CASE InitSocket(th)
      BY <1>k, <3>3, <3>4 DEF InitSocket
    <3>5. CASE InitSocketFails(th)
      BY <3>3, <3>5, GiveUpKeeps DEF InitSocketFails
    <3> QED BY <2>3, <3>4, <3>5
  <2> QED BY <1>1, <2>1, <2>2, <2>3, RegisterKeeps DEF LocalConnect
<1>2. CASE \E th \in Services, to \in Requests : Request(th, to)
  BY <1>k, <1>2 DEF Request, Held
<1>3. CASE ClientTakes \/ UNCHANGED vars
  BY <1>k, <1>3 DEF ClientTakes, Held, vars
<1>4. CASE ClientCopiesBack \/ ClientCollects
  <2>1. UNCHANGED <<tr, known, dropped>>
    BY <1>4 DEF ClientCopiesBack, ClientCollects
  <2>2. Entries' = Entries
    <3>1. CASE ClientCopiesBack
      <4>1. ToSet(retry') = ToSet(retry) \cup ToSet(nextPorts) /\ ToSet(nextPorts') = {} /\ ports' = ports
        BY <1>q, <3>1, EntryLaws DEF ClientCopiesBack, ListType
      <4> QED BY <4>1 DEF Entries
    <3>2. CASE ClientCollects
      <4>1. ports' = retry /\ ToSet(ports) = {} /\ ToSet(retry') = {} /\ nextPorts' = nextPorts
        BY <1>q, <3>2, EntryLaws DEF ClientCollects, ListType
      <4> QED BY <4>1 DEF Entries
    <3> QED BY <1>4, <3>1, <3>2
  <2> QED BY <1>q, <2>1, <2>2, KeptFrame DEF Held, Listing
<1> QED BY <1>1, <1>2, <1>3, <1>4, LifeKeeps DEF Next, ClientThread

-----------------------------------------------------------------------------
(* The theorems *)

\* The invariant of the proof holds in every state.
LEMMA Inductive == Spec => []IInv
BY InitIInv, NextStep, PTL DEF Spec

\* Every variable keeps its type: in particular an entry of retry_ports always
\* has a retry left, and a thread registers the atransport it allocated.
THEOREM LocalTypes == Spec => []TypeOK
<1>1. IInv => TypeOK
  BY DEF IInv
<1> QED BY Inductive, <1>1, PTL

\* No two transports of pending_list and transport_list have the same serial,
\* however many threads run register_socket_transport at once.
THEOREM SerialsUnique == Spec => []UniqueSerial
<1>1. IInv => UniqueSerial
  BY DEF IInv
<1> QED BY Inductive, <1>1, PTL

\* No two transports that are not kicked belong to the emulator of one adb port,
\* even when slots hold atransports that were deleted.
THEOREM PortsUnique == Spec => []OnePerPort
<1>1. IInv => OnePerPort
  BY DEF IInv
<1> QED BY Inductive, <1>1, PTL

\* An emulator that was connected once is connected, or client_socket_thread has
\* its port in one of its lists, or its retries were used up: nothing that a
\* remote_close adds is lost between retry_ports, ports and next_ports.
THEOREM PortsKept == Spec => []NoLostPort
<1>1. Init => PortInv
  BY DEF Init, PortInv, KeptInv, TakenInv, Idle, Threads
<1>2. IInv /\ PortInv /\ [Next]_vars => PortInv'
  BY TakenStep, KeptStep DEF PortInv
<1>3. PortInv => NoLostPort
  BY DEF PortInv, KeptInv, Held, Listing, NoLostPort, Registered
<1> QED BY Inductive, <1>1, <1>2, <1>3, PTL DEF Spec
=============================================================================
