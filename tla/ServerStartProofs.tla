------------------------- MODULE ServerStartProofs -------------------------
(***************************************************************************)
(* ServerStart: the types, that a client meets the wrong server only if    *)
(* the one it had checked is gone, and that one that is alone does not     *)
(* fail, for every number of clients and of versions.                      *)
(***************************************************************************)
EXTENDS ServerStart, TLAPS

\* A process that has been able to bind, at some time.
Born(s) == srv[s].st \notin {"none", "starting"}

\* The port is with the one server that listens.
PortInv == \A s \in Servers : Listening(s) <=> port = s

\* A client launches its server once, after it checked another, and is told so after
\* that server has bound.
LaunchInv ==
    \A c \in Clients :
        /\ cl[c].pc \in {"start", "version", "mismatch", "kill", "launch"} => srv[c].st = "none" /\ ~srv[c].acked
        /\ srv[c].acked => Born(c)

\* What a client is connected to has listened; what it has checked too, and has its
\* version, or not, according to the way it took.
Checks(c) ==
    /\ cl[c].pc \in {"version", "kill", "service", "served"} => cl[c].at \in Servers /\ Born(cl[c].at)
    /\ cl[c].pc \in {"connect", "service", "served"} =>
          cl[c].seen \in Servers /\ Born(cl[c].seen) /\ ver[cl[c].seen] = ver[c]
    /\ cl[c].pc = "mismatch" \/ (cl[c].pc = "kill" /\ cmd[c] # "kill-server") =>
          cl[c].seen \in Servers /\ Born(cl[c].seen) /\ ver[cl[c].seen] # ver[c]

\* Connected to another server than the one it checked: that one is gone.
Replaced(c) ==
    cl[c].pc \in {"service", "served"} \/ (cl[c].pc = "kill" /\ cmd[c] # "kill-server") =>
        cl[c].at = cl[c].seen \/ Gone(cl[c].seen)

\* All clients.
ClientInv == \A c \in Clients : Checks(c) /\ Replaced(c)

\* The server that was there before the clients is never launched.
OldInv == srv[Old].st \notin {"starting", "bound"}

\* Nothing has disturbed the start of c's server, and no other client launches one.
Alone(c) ==
    /\ ~disturbed
    /\ \A d \in Clients \ {c} : cl[d].pc # "launch" /\ srv[d].st = "none"

\* Then nobody but c itself has ended a server, c ends the old one only on its way to
\* launch its own, and what c is connected to or has checked still runs.
Unhindered(c) ==
    /\ cl[c].pc \notin {"failed", "interrupted"}
    /\ srv[c].st \notin {"exiting", "dead"} /\ ~srv[c].sig
    /\ cl[c].pc \in {"start", "version", "mismatch", "kill"} => srv[Old].st \in {"none", "up"}
    /\ cl[c].pc \in {"launch", "ack"} \/ srv[c].st # "none" => srv[Old].st # "up"
    /\ cl[c].pc = "mismatch" => srv[Old].st = "up"
    /\ cl[c].pc = "ack" => srv[c].st # "none"
    /\ cl[c].pc \in {"version", "kill", "service"} => srv[cl[c].at].st = "up"
    /\ cl[c].pc \in {"connect", "service"} => srv[cl[c].seen].st = "up"
    /\ srv[c].acked => srv[c].st = "up"

\* All clients that are alone.
AloneInv == \A c \in Clients : Alone(c) => Unhindered(c)

\* The inductive invariant.
IInv == TypeOK /\ PortInv /\ LaunchInv /\ ClientInv /\ OldInv /\ AloneInv

\* The invariant holds initially.
LEMMA InitIInv == Init => IInv
<1> SUFFICES ASSUME Init PROVE IInv
  OBVIOUS
<1>1. PICK old \in {"none", "up"} :
        /\ srv = [s \in Servers |-> IF s = Old THEN [Fresh EXCEPT !.st = old] ELSE Fresh]
        /\ port = IF old = "up" THEN Old ELSE None
  BY DEF Init
<1>2. /\ Old \in Servers => srv[Old].st = old
      /\ \A c \in Clients : srv[c].st = "none" /\ ~srv[c].acked
  BY StartAssumption, <1>1 DEF Fresh, Servers
<1>3. srv \in [Servers -> [st : {"none", "starting", "bound", "up", "exiting", "dead"},
                          sig : BOOLEAN, acked : BOOLEAN]]
  BY <1>1 DEF Fresh
<1>4. cl = [c \in Clients |-> [pc |-> "start", at |-> None, seen |-> None]]
  BY DEF Init, Client
<1>5. disturbed \in BOOLEAN
  BY DEF Init
<1>6. TypeOK
  BY StartAssumption, <1>1, <1>3, <1>4, <1>5 DEF Init, TypeOK, Servers, Final
<1>7. PortInv
  <2>1. \A s \in Clients : ~Listening(s) /\ port # s
    BY StartAssumption, <1>1, <1>2 DEF Listening
  <2>2. Listening(Old) <=> port = Old
    BY StartAssumption, <1>1, <1>2 DEF Listening, Servers
  <2> QED BY <2>1, <2>2 DEF PortInv, Servers
<1>8. LaunchInv
  BY <1>2 DEF LaunchInv
<1>9. ClientInv
  BY <1>4 DEF ClientInv, Checks, Replaced
<1>10. OldInv
  BY <1>2 DEF OldInv, Servers
<1>11. AloneInv
  <2> SUFFICES ASSUME NEW c \in Clients PROVE Unhindered(c)
    BY DEF AloneInv
  <2>1. srv[Old].st \in {"none", "up"} /\ ~srv[c].sig
    BY StartAssumption, <1>1, <1>2 DEF Servers, Fresh
  <2> QED BY <1>2, <1>4, <2>1 DEF Unhindered
<1> QED BY <1>6, <1>7, <1>8, <1>9, <1>10, <1>11 DEF IInv

\* The types are kept by every step.
LEMMA TypeStep == TypeOK /\ [Next]_vars => TypeOK'
<1> SUFFICES ASSUME TypeOK, [Next]_vars PROVE TypeOK'
  OBVIOUS
<1> DEFINE SrvType == [st : {"none", "starting", "bound", "up", "exiting", "dead"}, sig : BOOLEAN, acked : BOOLEAN]
<1> HIDE DEF SrvType
<1>s. srv \in [Servers -> SrvType]
  BY DEF TypeOK, SrvType
<1> USE StartAssumption DEF TypeOK, Final, Servers
<1>1. ASSUME NEW c \in Clients, ConnectFirst(c) PROVE TypeOK'
  BY <1>1 DEF ConnectFirst, Connects, Goto, Client
<1>2. ASSUME NEW c \in Clients, ConnectKill(c) PROVE TypeOK'
  BY <1>2 DEF ConnectKill, Connects, Goto, Client
<1>3. ASSUME NEW c \in Clients, Launch(c) PROVE TypeOK'
  <2>1. CASE Goto(c, "ack") /\ srv' = [srv EXCEPT ![c].st = "starting"] /\ UNCHANGED disturbed
    BY <1>3, <2>1 DEF Launch, Goto, Client
  <2>2. CASE Goto(c, "failed") /\ disturbed' = TRUE /\ UNCHANGED srv
    BY <1>3, <2>2 DEF Launch, Goto, Client
  <2> QED BY <1>3, <2>1, <2>2 DEF Launch
<1>4. ASSUME NEW c \in Clients, ReadAck(c) PROVE TypeOK'
  BY <1>4 DEF ReadAck, Checked, Goto, Client
<1>5. ASSUME NEW c \in Clients, ConnectService(c) PROVE TypeOK'
  BY <1>5 DEF ConnectService, Connects, Goto, Client
<1>6. ASSUME NEW c \in Clients, ConnectionLost(c) PROVE TypeOK'
  BY <1>6 DEF ConnectionLost, Goto, Client, Killed
<1>7. ASSUME NEW c \in Clients, Interrupt(c) PROVE TypeOK'
  <2>1. CASE srv' = [srv EXCEPT ![c].st = "dead"]
    BY <1>7, <2>1 DEF Interrupt, Goto, Client
  <2>2. CASE srv' = [srv EXCEPT ![c].sig = TRUE]
    <3>1. srv' = [srv EXCEPT ![c] = [srv[c] EXCEPT !.sig = TRUE]]
      BY <2>2
    <3>2. srv' \in [Servers -> SrvType]
      BY <1>s, <3>1 DEF SrvType
    <3>3. UNCHANGED <<ver, cmd, port>> /\ disturbed' = TRUE /\ Goto(c, "interrupted")
      BY <1>7 DEF Interrupt
    <3> QED BY <3>2, <3>3 DEF SrvType, Goto, Client
  <2>3. CASE UNCHANGED srv
    BY <1>7, <2>3 DEF Interrupt, Goto, Client
  <2> QED BY <1>7, <2>1, <2>2, <2>3 DEF Interrupt
<1>8. ASSUME NEW s \in Servers, Bind(s) PROVE TypeOK'
  BY <1>8 DEF Bind
<1>9. ASSUME NEW s \in Servers, GiveUp(s) PROVE TypeOK'
  BY <1>9 DEF GiveUp
<1>10. ASSUME NEW s \in Servers, Run(s) PROVE TypeOK'
  BY <1>10 DEF Run
<1>11. ASSUME NEW s \in Servers, Exit(s) PROVE TypeOK'
  BY <1>11 DEF Exit, Dies
<1>12. ASSUME NEW s \in Servers, Ack(s) PROVE TypeOK'
  <2>1. srv' = [srv EXCEPT ![s] = [srv[s] EXCEPT !.acked = TRUE]] /\ UNCHANGED <<ver, cmd, cl, port, disturbed>>
    BY <1>12 DEF Ack
  <2>2. srv' \in [Servers -> SrvType]
    BY <1>s, <2>1 DEF SrvType
  <2> QED BY <2>1, <2>2 DEF SrvType
<1>13. ASSUME NEW s \in Servers, AckFails(s) PROVE TypeOK'
  BY <1>13 DEF AckFails, Dies
<1>14. ASSUME NEW s \in Servers, NEW c \in Clients, AnswerVersion(s, c) PROVE TypeOK'
  BY <1>14 DEF AnswerVersion, Checked, Client
<1>15. ASSUME NEW s \in Servers, NEW c \in Clients, AnswerService(s, c) PROVE TypeOK'
  BY <1>15 DEF AnswerService, Client
<1>16. ASSUME NEW s \in Servers, NEW c \in Clients, AnswerKill(s, c) PROVE TypeOK'
  BY <1>16 DEF AnswerKill, Goto, Client, Killed
<1>17. CASE UNCHANGED vars
  BY <1>17 DEF vars
<1> QED
  BY <1>1, <1>2, <1>3, <1>4, <1>5, <1>6, <1>7, <1>8, <1>9, <1>10, <1>11, <1>12, <1>13, <1>14, <1>15,
     <1>16, <1>17 DEF Next, ClientStep, ServerStep, Notify, Answer

\* What a step does to the servers: one that has bound never starts again, one that is
\* gone stays so, versions and commands stay.
Steady ==
    /\ ver' = ver /\ cmd' = cmd
    /\ \A s \in Servers : Born(s) => Born(s)'
    /\ \A s \in Servers : Gone(s) => Gone(s)'

\* Every step is steady, and keeps the port with the one server that listens.
LEMMA PortStep == IInv /\ [Next]_vars => PortInv' /\ Steady
<1> SUFFICES ASSUME IInv, [Next]_vars PROVE PortInv' /\ Steady
  OBVIOUS
<1> USE StartAssumption DEF IInv, TypeOK, Servers, PortInv, Listening, Steady, Born, Gone
<1>1. ASSUME UNCHANGED <<ver, cmd, srv, port>> PROVE PortInv' /\ Steady
  BY <1>1
<1>2. ASSUME NEW c \in Clients, Launch(c) PROVE PortInv' /\ Steady
  <2>1. CASE UNCHANGED srv
    BY <1>1, <1>2, <2>1 DEF Launch
  <2>2. CASE srv' = [srv EXCEPT ![c].st = "starting"]
    <3>1. srv[c].st = "none"
      BY <1>2 DEF Launch, LaunchInv
    <3> QED BY <1>2, <2>2, <3>1 DEF Launch
  <2> QED BY <1>2, <2>1, <2>2 DEF Launch
<1>3. ASSUME NEW c \in Clients, Interrupt(c) PROVE PortInv' /\ Steady
  <2>1. CASE srv[c].st = "starting" /\ srv' = [srv EXCEPT ![c].st = "dead"]
    BY <1>3, <2>1 DEF Interrupt
  <2>2. CASE srv' = [srv EXCEPT ![c].sig = TRUE]
    BY <1>3, <2>2 DEF Interrupt
  <2>3. CASE UNCHANGED srv
    BY <1>1, <1>3, <2>3 DEF Interrupt
  <2> QED BY <1>3, <2>1, <2>2, <2>3 DEF Interrupt
<1>4. ASSUME NEW s \in Servers, Bind(s) PROVE PortInv' /\ Steady
  BY <1>4 DEF Bind
<1>5. ASSUME NEW s \in Servers, GiveUp(s) PROVE PortInv' /\ Steady
  BY <1>5 DEF GiveUp
<1>6. ASSUME NEW s \in Servers, Run(s) PROVE PortInv' /\ Steady
  BY <1>6 DEF Run
<1>7. ASSUME NEW s \in Servers, Dies(s), Listening(s), UNCHANGED <<ver, cmd>> PROVE PortInv' /\ Steady
  BY <1>7 DEF Dies
<1>8. ASSUME NEW s \in Servers, Ack(s) PROVE PortInv' /\ Steady
  BY <1>8 DEF Ack
<1>9. ASSUME NEW s \in Servers, NEW c \in Clients, AnswerKill(s, c) PROVE PortInv' /\ Steady
  BY <1>9 DEF AnswerKill
<1>10. ASSUME NEW c \in Clients,
              ConnectFirst(c) \/ ConnectKill(c) \/ ReadAck(c) \/ ConnectService(c) \/ ConnectionLost(c)
       PROVE PortInv' /\ Steady
  BY <1>1, <1>10 DEF ConnectFirst, ConnectKill, ReadAck, ConnectService, ConnectionLost
<1>11. ASSUME NEW s \in Servers, NEW c \in Clients, AnswerVersion(s, c) \/ AnswerService(s, c)
       PROVE PortInv' /\ Steady
  BY <1>1, <1>11 DEF AnswerVersion, AnswerService
<1>12. ASSUME NEW s \in Servers, Exit(s) \/ AckFails(s) PROVE PortInv' /\ Steady
  BY <1>7, <1>12 DEF Exit, AckFails, MayAck
<1>13. CASE UNCHANGED vars
  BY <1>1, <1>13 DEF vars
<1> QED
  BY <1>2, <1>3, <1>4, <1>5, <1>6, <1>8, <1>9, <1>10, <1>11, <1>12, <1>13
     DEF Next, ClientStep, ServerStep, Notify, Answer

\* A client launches one server, and is told when that has bound.
LEMMA LaunchStep == IInv /\ [Next]_vars => LaunchInv'
<1> SUFFICES ASSUME IInv, [Next]_vars PROVE LaunchInv'
  OBVIOUS
<1> USE StartAssumption DEF IInv, TypeOK, Servers, LaunchInv, Born
<1>1. ASSUME NEW c \in Clients, ConnectFirst(c) PROVE LaunchInv'
  BY <1>1 DEF ConnectFirst, Connects, Goto, Client
<1>2. ASSUME NEW c \in Clients, ConnectKill(c) PROVE LaunchInv'
  BY <1>2 DEF ConnectKill, Connects, Goto, Client
<1>3. ASSUME NEW c \in Clients, Launch(c) PROVE LaunchInv'
  <2>1. CASE Goto(c, "ack") /\ srv' = [srv EXCEPT ![c].st = "starting"]
    BY <1>3, <2>1 DEF Launch, Goto, Client
  <2>2. CASE Goto(c, "failed") /\ UNCHANGED srv
    BY <1>3, <2>2 DEF Launch, Goto, Client
  <2> QED BY <1>3, <2>1, <2>2 DEF Launch
<1>4. ASSUME NEW c \in Clients, ReadAck(c) PROVE LaunchInv'
  BY <1>4 DEF ReadAck, Checked, Goto, Client
<1>5. ASSUME NEW c \in Clients, ConnectService(c) PROVE LaunchInv'
  BY <1>5 DEF ConnectService, Connects, Goto, Client
<1>6. ASSUME NEW c \in Clients, ConnectionLost(c) PROVE LaunchInv'
  BY <1>6 DEF ConnectionLost, Goto, Client, Killed
<1>7. ASSUME NEW c \in Clients, Interrupt(c) PROVE LaunchInv'
  <2>1. CASE srv' = [srv EXCEPT ![c].st = "dead"]
    BY <1>7, <2>1 DEF Interrupt, Goto, Client
  <2>2. CASE srv' = [srv EXCEPT ![c].sig = TRUE]
    BY <1>7, <2>2 DEF Interrupt, Goto, Client
  <2>3. CASE UNCHANGED srv
    BY <1>7, <2>3 DEF Interrupt, Goto, Client
  <2> QED BY <1>7, <2>1, <2>2, <2>3 DEF Interrupt
<1>8. ASSUME NEW s \in Servers, Bind(s) PROVE LaunchInv'
  BY <1>8 DEF Bind
<1>9. ASSUME NEW s \in Servers, GiveUp(s) PROVE LaunchInv'
  BY <1>9 DEF GiveUp
<1>10. ASSUME NEW s \in Servers, Run(s) PROVE LaunchInv'
  BY <1>10 DEF Run
<1>11. ASSUME NEW s \in Servers, Exit(s) \/ AckFails(s) PROVE LaunchInv'
  BY <1>11 DEF Exit, AckFails, Dies, MayAck
<1>12. ASSUME NEW s \in Servers, Ack(s) PROVE LaunchInv'
  BY <1>12 DEF Ack, Waits, MayAck
<1>13. ASSUME NEW s \in Servers, NEW c \in Clients, AnswerVersion(s, c) PROVE LaunchInv'
  BY <1>13 DEF AnswerVersion, Checked, Client
<1>14. ASSUME NEW s \in Servers, NEW c \in Clients, AnswerService(s, c) PROVE LaunchInv'
  BY <1>14 DEF AnswerService, Client
<1>15. ASSUME NEW s \in Servers, NEW c \in Clients, AnswerKill(s, c) PROVE LaunchInv'
  BY <1>15 DEF AnswerKill, Goto, Client, Killed
<1>16. CASE UNCHANGED vars
  BY <1>16 DEF vars
<1> QED
  BY <1>1, <1>2, <1>3, <1>4, <1>5, <1>6, <1>7, <1>8, <1>9, <1>10, <1>11, <1>12, <1>13, <1>14, <1>15,
     <1>16 DEF Next, ClientStep, ServerStep, Notify, Answer

\* A client that does not move keeps what is said of it.
LEMMA ClientKept ==
    ASSUME IInv, Steady, NEW c \in Clients, cl'[c] = cl[c]
    PROVE  (Checks(c) /\ Replaced(c))'
<1>1. Checks(c) /\ Replaced(c)
  BY DEF IInv, ClientInv
<1>2. Checks(c)'
  BY <1>1 DEF Steady, Checks
<1>3. cl[c].pc \in {"service", "served"} \/ (cl[c].pc = "kill" /\ cmd[c] # "kill-server") => cl[c].seen \in Servers
  BY <1>1 DEF Checks
<1>4. Replaced(c)'
  BY <1>1, <1>3 DEF Steady, Replaced
<1> QED BY <1>2, <1>4

\* A server that has bound and does not have the port is dead.
LEMMA NotListening ==
    ASSUME IInv, NEW s \in Servers, Born(s), port # s
    PROVE  Gone(s)
BY DEF IInv, TypeOK, PortInv, Listening, Born, Gone

\* The three times a client connects.
Way(c, pc) ==
    \/ cl[c].pc = "start" /\ pc = "version"
    \/ cl[c].pc = "start" /\ pc = "kill" /\ cmd[c] = "kill-server"
    \/ cl[c].pc = "mismatch" /\ pc = "kill"
    \/ cl[c].pc = "connect" /\ pc = "service"

\* Who connects gets a server that listens: the one it has checked, unless that is gone.
LEMMA ClientConnects ==
    ASSUME IInv, NEW c \in Clients, NEW pc, port # None, cl'[c] = Client(pc, port, cl[c].seen),
           ver' = ver, cmd' = cmd, srv' = srv, Way(c, pc)
    PROVE  (Checks(c) /\ Replaced(c))'
<1>1. Checks(c)
  BY DEF IInv, ClientInv
<1>2. port \in Servers /\ Born(port)
  BY DEF IInv, TypeOK, PortInv, Listening, Born
<1>3. cl[c].pc \in {"mismatch", "connect"} => cl[c].seen = port \/ Gone(cl[c].seen)
  BY <1>1, NotListening DEF Checks
<1>4. cl'[c].pc = pc /\ cl'[c].at = port /\ cl'[c].seen = cl[c].seen
  BY DEF Client
<1>5. Checks(c)'
  BY <1>1, <1>2, <1>4 DEF Checks, Born, Way
<1>6. Replaced(c)'
  BY <1>3, <1>4 DEF Replaced, Gone, Way
<1> QED BY <1>5, <1>6

\* What clients are connected to and have checked.
LEMMA ClientStepInv == IInv /\ [Next]_vars => ClientInv'
<1> SUFFICES ASSUME IInv, [Next]_vars, NEW d \in Clients PROVE (Checks(d) /\ Replaced(d))'
  BY DEF ClientInv
<1>s. Steady
  BY PortStep
<1>k. ASSUME cl'[d] = cl[d] PROVE (Checks(d) /\ Replaced(d))'
  BY <1>s, <1>k, ClientKept
<1>f. ASSUME cl'[d].pc \in {"done", "launch", "ack", "failed", "interrupted"} PROVE (Checks(d) /\ Replaced(d))'
  BY <1>f DEF Checks, Replaced
<1>t. cl \in [Clients -> [pc : {"start", "version", "mismatch", "kill", "launch", "ack", "connect",
                               "service"} \cup Final, at : Servers \cup {None}, seen : Servers \cup {None}]]
  BY DEF IInv, TypeOK
<1>c. Checks(d)
  BY DEF IInv, ClientInv
<1>1. ASSUME NEW c \in Clients, ConnectFirst(c) PROVE (Checks(d) /\ Replaced(d))'
  <2>1. CASE c # d
    BY <1>1, <1>k, <1>t, <2>1 DEF ConnectFirst, Connects, Goto
  <2>2. CASE c = d /\ port # None
    <3>1. PICK pc : Way(c, pc) /\ cl'[c] = Client(pc, port, cl[c].seen)
      BY <1>1, <1>t, <2>2 DEF ConnectFirst, Connects, Way
    <3>2. ver' = ver /\ cmd' = cmd /\ srv' = srv
      BY <1>1 DEF ConnectFirst
    <3>3. (Checks(c) /\ Replaced(c))'
      BY <2>2, <3>1, <3>2, ClientConnects
    <3> QED BY <2>2, <3>3
  <2>3. CASE c = d /\ port = None
    BY <1>1, <1>f, <1>t, <2>3 DEF ConnectFirst, Goto, Client
  <2> QED BY <2>1, <2>2, <2>3
<1>2. ASSUME NEW c \in Clients, ConnectKill(c) PROVE (Checks(d) /\ Replaced(d))'
  <2>1. CASE c # d
    BY <1>2, <1>k, <1>t, <2>1 DEF ConnectKill, Connects, Goto
  <2>2. CASE c = d /\ port # None
    <3>1. cl'[c] = Client("kill", port, cl[c].seen)
      BY <1>2, <1>t, <2>2 DEF ConnectKill, Connects
    <3>2. ver' = ver /\ cmd' = cmd /\ srv' = srv /\ Way(c, "kill")
      BY <1>2 DEF ConnectKill, Way
    <3>3. (Checks(c) /\ Replaced(c))'
      BY <2>2, <3>1, <3>2, ClientConnects
    <3> QED BY <2>2, <3>3
  <2>3. CASE c = d /\ port = None
    BY <1>2, <1>f, <1>t, <2>3 DEF ConnectKill, Goto, Client
  <2> QED BY <2>1, <2>2, <2>3
<1>3. ASSUME NEW c \in Clients, ConnectService(c) PROVE (Checks(d) /\ Replaced(d))'
  <2>1. CASE c # d
    BY <1>3, <1>k, <1>t, <2>1 DEF ConnectService, Connects, Goto
  <2>2. CASE c = d /\ port # None
    <3>1. cl'[c] = Client("service", port, cl[c].seen)
      BY <1>3, <1>t, <2>2 DEF ConnectService, Connects
    <3>2. ver' = ver /\ cmd' = cmd /\ srv' = srv /\ Way(c, "service")
      BY <1>3 DEF ConnectService, Way
    <3>3. (Checks(c) /\ Replaced(c))'
      BY <2>2, <3>1, <3>2, ClientConnects
    <3> QED BY <2>2, <3>3
  <2>3. CASE c = d /\ port = None
    BY <1>3, <1>f, <1>t, <2>3 DEF ConnectService, Goto, Client
  <2> QED BY <2>1, <2>2, <2>3
<1>4. ASSUME NEW c \in Clients, NEW pc \in {"done", "launch", "ack", "failed", "interrupted"}, Goto(c, pc)
      PROVE (Checks(d) /\ Replaced(d))'
  BY <1>4, <1>k, <1>f, <1>t DEF Goto, Client
<1>5. ASSUME NEW c \in Clients, Launch(c) \/ ConnectionLost(c) \/ Interrupt(c) PROVE (Checks(d) /\ Replaced(d))'
  BY <1>4, <1>5 DEF Launch, ConnectionLost, Interrupt, Killed
<1>6. ASSUME NEW c \in Clients, NEW s \in Servers, Checked(c, s), Born(s), ver[s] = ver[c],
             UNCHANGED <<ver, cmd, srv>>
      PROVE (Checks(d) /\ Replaced(d))'
  <2>1. CASE c # d
    BY <1>6, <1>k, <1>t, <2>1 DEF Checked
  <2>2. CASE c = d
    <3>1. cl'[d].pc \in {"done", "connect"} /\ cl'[d].seen = s
      BY <1>6, <1>t, <2>2 DEF Checked, Client
    <3>2. Born(s)' /\ (ver[s] = ver[d])'
      BY <1>6, <2>2 DEF Born
    <3> QED BY <3>1, <3>2 DEF Checks, Replaced
  <2> QED BY <2>1, <2>2
<1>7. ASSUME NEW c \in Clients, ReadAck(c) PROVE (Checks(d) /\ Replaced(d))'
  <2>1. CASE Goto(c, "failed")
    BY <1>4, <2>1
  <2>2. CASE srv[c].acked /\ Checked(c, c)
    <3>1. Born(c)
      BY <2>2 DEF IInv, LaunchInv
    <3> QED BY <1>6, <1>7, <2>2, <3>1 DEF ReadAck, Servers
  <2> QED BY <1>7, <2>1, <2>2 DEF ReadAck
<1>8. ASSUME NEW s \in Servers, NEW c \in Clients, AnswerVersion(s, c) PROVE (Checks(d) /\ Replaced(d))'
  <2>1. Born(s)
    BY <1>8 DEF AnswerVersion, Born
  <2>2. CASE SameVersion(c, s)
    BY <1>6, <1>8, <2>1, <2>2 DEF AnswerVersion, SameVersion
  <2>3. CASE ~SameVersion(c, s) /\ c # d
    BY <1>8, <1>k, <1>t, <2>3 DEF AnswerVersion
  <2>4. CASE ~SameVersion(c, s) /\ c = d
    <3>1. cl'[d].pc = "mismatch" /\ cl'[d].seen = s
      BY <1>8, <1>t, <2>4 DEF AnswerVersion, Client
    <3>2. Born(s)' /\ (ver[s] # ver[d])'
      BY <1>8, <2>1, <2>4 DEF AnswerVersion, SameVersion, Born
    <3> QED BY <3>1, <3>2 DEF Checks, Replaced
  <2> QED BY <2>2, <2>3, <2>4
<1>9. ASSUME NEW s \in Servers, NEW c \in Clients, AnswerService(s, c) PROVE (Checks(d) /\ Replaced(d))'
  <2>1. CASE c # d
    BY <1>9, <1>k, <1>t, <2>1 DEF AnswerService
  <2>2. CASE c = d
    <3>1. cl'[d].pc = "served" /\ cl'[d].at = cl[d].at /\ cl'[d].seen = cl[d].seen /\ cl[d].pc = "service"
      BY <1>9, <1>t, <2>2 DEF AnswerService, Client
    <3>2. Replaced(d)
      BY DEF IInv, ClientInv
    <3>3. UNCHANGED <<ver, srv>>
      BY <1>9 DEF AnswerService
    <3>4. Checks(d)'
      BY <1>c, <3>1, <3>3 DEF Checks, Born
    <3>5. Replaced(d)'
      BY <3>1, <3>2, <3>3 DEF Replaced, Gone
    <3> QED BY <3>4, <3>5
  <2> QED BY <2>1, <2>2
<1>10. ASSUME NEW s \in Servers, NEW c \in Clients, AnswerKill(s, c) PROVE (Checks(d) /\ Replaced(d))'
  BY <1>4, <1>10 DEF AnswerKill, Killed
<1>11. ASSUME NEW s \in Servers, ServerStep(s) \/ Notify(s) PROVE (Checks(d) /\ Replaced(d))'
  BY <1>k, <1>11 DEF ServerStep, Notify, Bind, GiveUp, Run, Exit, Ack, AckFails
<1>12. CASE UNCHANGED vars
  BY <1>k, <1>12 DEF vars
<1> QED
  BY <1>1, <1>2, <1>3, <1>5, <1>7, <1>8, <1>9, <1>10, <1>11, <1>12 DEF Next, ClientStep, Answer

\* What happens is never undone: who is alone now has been alone before.
LEMMA AloneBefore ==
    ASSUME IInv, [Next]_vars, NEW c \in Clients, Alone(c)'
    PROVE  Alone(c)
<1>t. /\ cl \in [Clients -> [pc : {"start", "version", "mismatch", "kill", "launch", "ack", "connect",
                                 "service"} \cup Final, at : Servers \cup {None}, seen : Servers \cup {None}]]
      /\ srv \in [Servers -> [st : {"none", "starting", "bound", "up", "exiting", "dead"},
                              sig : BOOLEAN, acked : BOOLEAN]]
      /\ Clients \subseteq Servers
  BY DEF IInv, TypeOK, Servers
<1>1. ~disturbed' /\ (disturbed => disturbed')
  <2>1. ASSUME NEW f \in Clients, ConnectFirst(f) \/ ClientStep(f) \/ Interrupt(f) PROVE disturbed => disturbed'
    BY <2>1 DEF ConnectFirst, ClientStep, Interrupt, ConnectKill, Launch, ReadAck, ConnectService, ConnectionLost
  <2>2. ASSUME NEW s \in Servers, ServerStep(s) \/ Notify(s) PROVE disturbed => disturbed'
    BY <2>2 DEF ServerStep, Bind, GiveUp, Run, Exit, Notify, Ack, AckFails
  <2>3. ASSUME NEW s \in Servers, NEW f \in Clients, Answer(s, f) PROVE disturbed => disturbed'
    BY <2>3 DEF Answer, AnswerVersion, AnswerService, AnswerKill
  <2> QED BY <2>1, <2>2, <2>3 DEF Alone, Next, vars
<1> SUFFICES ASSUME NEW d \in Clients \ {c} PROVE cl[d].pc # "launch" /\ srv[d].st = "none"
  BY <1>1 DEF Alone
<1>2. cl'[d].pc # "launch" /\ srv'[d].st = "none"
  BY DEF Alone
<1>3. srv[d].st = "none"
  <2>1. ASSUME NEW f \in Clients, Launch(f) \/ Interrupt(f) PROVE srv[d].st = "none"
    BY <1>t, <1>2, <2>1 DEF Launch, Interrupt
  <2>2. ASSUME NEW s \in Servers, ServerStep(s) \/ Notify(s) PROVE srv[d].st = "none"
    BY <1>t, <1>2, <2>2 DEF ServerStep, Bind, GiveUp, Run, Exit, Notify, Ack, AckFails, Dies
  <2>3. ASSUME NEW s \in Servers, NEW f \in Clients, AnswerKill(s, f) PROVE srv[d].st = "none"
    BY <1>t, <1>2, <2>3 DEF AnswerKill
  <2>4. CASE UNCHANGED srv
    BY <1>2, <2>4
  <2> QED BY <2>1, <2>2, <2>3, <2>4
        DEF Next, vars, ConnectFirst, ClientStep, ConnectKill, ReadAck, ConnectService, ConnectionLost,
            Answer, AnswerVersion, AnswerService
<1>4. cl[d].pc # "launch"
  <2> SUFFICES ASSUME cl[d].pc = "launch" PROVE FALSE
    OBVIOUS
  <2>1. CASE cl'[d] = cl[d]
    BY <1>2, <2>1
  <2>2. CASE Launch(d)
    BY <1>t, <1>1, <1>2, <2>2 DEF Launch
  <2>3. ASSUME NEW f \in Clients, f # d \/ cl[f].pc # "launch",
               ConnectFirst(f) \/ ClientStep(f) \/ Interrupt(f)
        PROVE cl'[d] = cl[d]
    BY <1>t, <2>3 DEF ConnectFirst, ClientStep, Interrupt, ConnectKill, Launch, ReadAck, ConnectService,
         ConnectionLost, Connects, Goto, Checked
  <2>4. ASSUME NEW s \in Servers, ServerStep(s) \/ Notify(s) PROVE cl'[d] = cl[d]
    BY <2>4 DEF ServerStep, Bind, GiveUp, Run, Exit, Notify, Ack, AckFails
  <2>5. ASSUME NEW s \in Servers, NEW f \in Clients, Answer(s, f) PROVE cl'[d] = cl[d]
    BY <1>t, <2>5 DEF Answer, AnswerVersion, AnswerService, AnswerKill, Checked, Goto
  <2>6. CASE UNCHANGED vars
    BY <2>1, <2>6 DEF vars
  <2>7. ASSUME ConnectFirst(d) \/ ClientStep(d) \/ Interrupt(d) PROVE Launch(d)
    BY <2>7 DEF ConnectFirst, ClientStep, Interrupt, ConnectKill, ReadAck, ConnectService, ConnectionLost
  <2> QED BY <2>1, <2>2, <2>3, <2>4, <2>5, <2>6, <2>7 DEF Next
<1> QED BY <1>3, <1>4

\* Of a client that is alone: who can have the port, and who can be connected to.
LEMMA AloneFacts ==
    ASSUME IInv, NEW c \in Clients, Alone(c)
    PROVE  /\ Unhindered(c) /\ Checks(c) /\ c # Old /\ c \in Servers /\ Old \in Servers
           /\ \A s \in Servers : s \in {c, Old} \/ srv[s].st = "none"
           /\ srv[Old].st \in {"none", "up", "exiting", "dead"}
           /\ port \in {None, c, Old}
           /\ port # None => Listening(port)
           /\ \A s \in {c, Old} : Listening(s) <=> port = s
           /\ cl[c].pc \in {"start", "version", "mismatch", "kill", "launch"} => srv[c].st = "none" /\ ~srv[c].acked
<1>1. \A s \in Servers : s \in {c, Old} \/ srv[s].st = "none"
  BY DEF Alone, Servers
<1>2. port # None => Listening(port) /\ port \in Servers
  BY DEF IInv, TypeOK, PortInv
<1> QED BY <1>1, <1>2, StartAssumption DEF IInv, TypeOK, AloneInv, ClientInv, LaunchInv, PortInv, Listening, Servers, OldInv

\* A step keeps what is said of a client that is alone.
LEMMA AloneStep == IInv /\ [Next]_vars => AloneInv'
<1> SUFFICES ASSUME IInv, [Next]_vars, NEW c \in Clients, Alone(c)' PROVE Unhindered(c)'
  BY DEF AloneInv
<1>a. Alone(c)
  BY AloneBefore
<1>f. /\ Unhindered(c) /\ Checks(c) /\ c # Old /\ c \in Servers /\ Old \in Servers
      /\ \A s \in Servers : s \in {c, Old} \/ srv[s].st = "none"
      /\ srv[Old].st \in {"none", "up", "exiting", "dead"}
      /\ port \in {None, c, Old}
      /\ port # None => Listening(port)
      /\ \A s \in {c, Old} : Listening(s) <=> port = s
      /\ cl[c].pc \in {"start", "version", "mismatch", "kill", "launch"} => srv[c].st = "none" /\ ~srv[c].acked
  BY <1>a, AloneFacts
<1>t. /\ cl \in [Clients -> [pc : {"start", "version", "mismatch", "kill", "launch", "ack", "connect",
                                 "service"} \cup Final, at : Servers \cup {None}, seen : Servers \cup {None}]]
      /\ srv \in [Servers -> [st : {"none", "starting", "bound", "up", "exiting", "dead"},
                              sig : BOOLEAN, acked : BOOLEAN]]
      /\ Clients \subseteq Servers /\ None \notin Servers
  BY StartAssumption DEF IInv, TypeOK, Servers
<1>o. ~disturbed' /\ \A d \in Clients \ {c} : cl'[d].pc # "launch" /\ srv'[d].st = "none"
  BY DEF Alone
<1>k. ASSUME cl'[c] = cl[c], srv'[c] = srv[c], srv'[Old] = srv[Old] PROVE Unhindered(c)'
  <2>1. \A s \in Servers : srv[s].st = "up" => s \in {c, Old}
    BY <1>f
  <2>2. /\ cl[c].pc \in {"version", "kill", "service"} => cl[c].at \in Servers
        /\ cl[c].pc \in {"connect", "service"} => cl[c].seen \in Servers
    BY <1>f DEF Checks
  <2>3. /\ cl[c].pc \in {"version", "kill", "service"} => srv'[cl[c].at].st = "up"
        /\ cl[c].pc \in {"connect", "service"} => srv'[cl[c].seen].st = "up"
    BY <1>f, <1>k, <2>1, <2>2 DEF Unhindered
  <2> QED BY <1>f, <1>k, <2>3 DEF Unhindered
<1>1. ASSUME NEW d \in Clients, ConnectFirst(d) PROVE Unhindered(c)'
  <2>1. UNCHANGED srv
    BY <1>1 DEF ConnectFirst
  <2>2. CASE d # c
    BY <1>k, <1>t, <1>1, <2>1, <2>2 DEF ConnectFirst, Connects, Goto
  <2>3. CASE d = c /\ port # None
    <3>1. cl'[c].pc \in {"version", "kill"} /\ cl'[c].at = port /\ port = Old /\ srv[Old].st = "up"
      BY <1>f, <1>t, <1>1, <2>3 DEF ConnectFirst, Connects, Client, Unhindered, Listening
    <3> QED BY <1>f, <1>1, <2>1, <2>3, <3>1 DEF Unhindered, ConnectFirst
  <2>4. CASE d = c /\ port = None
    <3>1. cl'[c].pc \in {"done", "launch"} /\ srv[Old].st # "up"
      BY <1>f, <1>t, <1>1, <2>4 DEF ConnectFirst, Goto, Client, Listening
    <3> QED BY <1>f, <1>1, <2>1, <2>4, <3>1 DEF Unhindered, ConnectFirst
  <2> QED BY <2>2, <2>3, <2>4
<1>2. ASSUME NEW d \in Clients, ConnectKill(d) PROVE Unhindered(c)'
  <2>1. UNCHANGED srv
    BY <1>2 DEF ConnectKill
  <2>2. CASE d # c
    BY <1>k, <1>t, <1>2, <2>1, <2>2 DEF ConnectKill, Connects, Goto
  <2>3. CASE d = c
    <3>1. cl[c].pc = "mismatch" /\ srv[Old].st = "up" /\ port = Old /\ port # None
      BY <1>f, <1>t, <1>2, <2>3 DEF ConnectKill, Unhindered, Listening
    <3>2. cl'[c].pc = "kill" /\ cl'[c].at = Old
      BY <1>t, <1>2, <2>3, <3>1 DEF ConnectKill, Connects, Client
    <3> QED BY <1>f, <2>1, <3>1, <3>2 DEF Unhindered
  <2> QED BY <2>2, <2>3
<1>3. ASSUME NEW d \in Clients, Launch(d) PROVE Unhindered(c)'
  <2>1. d = c /\ Goto(c, "ack") /\ srv' = [srv EXCEPT ![c].st = "starting"] /\ cl[c].pc = "launch"
    BY <1>a, <1>o, <1>3 DEF Launch, Alone
  <2>2. cl'[c].pc = "ack" /\ srv'[c].st = "starting" /\ srv'[c].sig = srv[c].sig /\ srv'[c].acked = srv[c].acked
        /\ srv'[Old] = srv[Old]
    BY <1>f, <1>t, <2>1 DEF Goto, Client
  <2> QED BY <1>f, <2>1, <2>2 DEF Unhindered
<1>4. ASSUME NEW d \in Clients, ReadAck(d) PROVE Unhindered(c)'
  <2>1. UNCHANGED srv
    BY <1>4 DEF ReadAck
  <2>2. CASE d # c
    BY <1>k, <1>t, <1>4, <2>1, <2>2 DEF ReadAck, Checked, Goto
  <2>3. CASE d = c
    <3>1. srv[c].acked /\ Checked(c, c) /\ srv[c].st = "up"
      BY <1>f, <1>4, <2>3 DEF ReadAck, Unhindered
    <3>2. cl'[c].pc \in {"done", "connect"} /\ cl'[c].seen = c
      BY <1>t, <3>1 DEF Checked, Client
    <3> QED BY <1>f, <2>1, <3>1, <3>2 DEF Unhindered
  <2> QED BY <2>2, <2>3
<1>5. ASSUME NEW d \in Clients, ConnectService(d) PROVE Unhindered(c)'
  <2>1. UNCHANGED srv
    BY <1>5 DEF ConnectService
  <2>2. CASE d # c
    BY <1>k, <1>t, <1>5, <2>1, <2>2 DEF ConnectService, Connects, Goto
  <2>3. CASE d = c
    <3>1. cl[c].pc = "connect" /\ srv[cl[c].seen].st = "up" /\ cl[c].seen \in Servers
      BY <1>f, <1>5, <2>3 DEF ConnectService, Unhindered, Checks
    <3>2. cl[c].seen \in {c, Old} /\ port = cl[c].seen /\ port # None
      BY <1>f, <1>t, <3>1 DEF Listening
    <3>3. cl'[c].pc = "service" /\ cl'[c].at = port /\ cl'[c].seen = cl[c].seen
      BY <1>t, <1>5, <2>3, <3>2 DEF ConnectService, Connects, Client
    <3> QED BY <1>f, <2>1, <3>1, <3>2, <3>3 DEF Unhindered
  <2> QED BY <2>2, <2>3
<1>6. ASSUME NEW d \in Clients, ConnectionLost(d) PROVE Unhindered(c)'
  <2>1. d # c
    BY <1>f, <1>6 DEF ConnectionLost, Unhindered
  <2> QED BY <1>k, <1>t, <1>6, <2>1 DEF ConnectionLost, Goto
<1>7. ASSUME NEW d \in Clients, Interrupt(d) PROVE Unhindered(c)'
  BY <1>o, <1>7 DEF Interrupt
<1>8. ASSUME NEW s \in Servers, Bind(s) \/ Run(s) PROVE Unhindered(c)'
  <2>1. s = c /\ cl' = cl
    BY <1>f, <1>8 DEF Bind, Run
  <2>2. /\ srv'[c].st \in {"bound", "up"} /\ srv'[c].sig = srv[c].sig /\ srv'[c].acked = srv[c].acked
        /\ srv'[Old] = srv[Old] /\ srv[c].st \in {"starting", "bound"}
    BY <1>f, <1>t, <1>8, <2>1 DEF Bind, Run, Unhindered
  <2>3. cl[c].pc \in {"connect", "service"} => srv[cl[c].seen].st = "up" /\ cl[c].seen \in {c, Old}
    BY <1>f DEF Unhindered, Checks
  <2>4. cl[c].pc \in {"version", "kill", "service"} => srv[cl[c].at].st = "up" /\ cl[c].at \in {c, Old}
    BY <1>f DEF Unhindered, Checks
  <2> QED BY <1>f, <2>1, <2>2, <2>3, <2>4 DEF Unhindered
<1>9. ASSUME NEW s \in Servers, GiveUp(s) PROVE Unhindered(c)'
  <2>1. s = c /\ port = Old /\ srv[Old].st \in {"up", "exiting"}
    BY <1>f, <1>9 DEF GiveUp, Listening
  <2>2. srv[Old].st # "up"
    BY <1>f, <1>9, <2>1 DEF GiveUp, Unhindered
  <2> QED BY <1>o, <1>9, <2>1, <2>2 DEF GiveUp
<1>10. ASSUME NEW s \in Servers, Exit(s) PROVE Unhindered(c)'
  <2>1. s = Old /\ srv[Old].st = "exiting" /\ cl' = cl
    BY <1>f, <1>10 DEF Exit, Unhindered
  <2>2. srv'[c] = srv[c] /\ srv'[Old].st = "dead"
    BY <1>f, <1>t, <1>10, <2>1 DEF Exit, Dies
  <2>3. cl[c].pc \in {"connect", "service"} => srv[cl[c].seen].st = "up" /\ cl[c].seen = c
    BY <1>f, <2>1 DEF Unhindered, Checks
  <2>4. cl[c].pc \in {"version", "kill", "service"} => srv[cl[c].at].st = "up" /\ cl[c].at = c
    BY <1>f, <2>1 DEF Unhindered, Checks
  <2> QED BY <1>f, <2>1, <2>2, <2>3, <2>4 DEF Unhindered
<1>11. ASSUME NEW s \in Servers, Ack(s) PROVE Unhindered(c)'
  <2>1. s = c /\ cl' = cl /\ srv[c].st = "up"
    BY StartAssumption, <1>f, <1>11 DEF Ack, Waits, MayAck, Unhindered
  <2>2. srv'[Old] = srv[Old] /\ srv'[c].st = srv[c].st /\ srv'[c].sig = srv[c].sig
    BY <1>f, <1>t, <1>11, <2>1 DEF Ack
  <2>3. cl[c].pc \in {"connect", "service"} => srv[cl[c].seen].st = "up" /\ cl[c].seen \in {c, Old}
    BY <1>f DEF Unhindered, Checks
  <2>4. cl[c].pc \in {"version", "kill", "service"} => srv[cl[c].at].st = "up" /\ cl[c].at \in {c, Old}
    BY <1>f DEF Unhindered, Checks
  <2> QED BY <1>f, <2>1, <2>2, <2>3, <2>4 DEF Unhindered
<1>12. ASSUME NEW s \in Servers, AckFails(s) PROVE FALSE
  <2>1. s # c
    BY <1>f, <1>12 DEF AckFails, Unhindered
  <2> QED BY <1>f, <1>12, <2>1, StartAssumption DEF AckFails, MayAck
<1>13. ASSUME NEW s \in Servers, NEW d \in Clients, AnswerVersion(s, d) PROVE Unhindered(c)'
  <2>1. UNCHANGED srv
    BY <1>13 DEF AnswerVersion
  <2>2. CASE d # c
    BY <1>k, <1>t, <1>13, <2>1, <2>2 DEF AnswerVersion, Checked
  <2>3. CASE d = c
    <3>1. s = Old /\ srv[Old].st = "up" /\ srv[c].st = "none" /\ cl[c].pc = "version"
      BY <1>f, <1>13, <2>3 DEF AnswerVersion
    <3>2. cl'[c].pc \in {"done", "connect", "mismatch"} /\ cl'[c].seen = Old
      BY <1>t, <1>13, <2>3, <3>1 DEF AnswerVersion, Checked, Client
    <3> QED BY <1>f, <2>1, <3>1, <3>2 DEF Unhindered
  <2> QED BY <2>2, <2>3
<1>14. ASSUME NEW s \in Servers, NEW d \in Clients, AnswerService(s, d) PROVE Unhindered(c)'
  <2>1. UNCHANGED srv
    BY <1>14 DEF AnswerService
  <2>2. CASE d # c
    BY <1>k, <1>t, <1>14, <2>1, <2>2 DEF AnswerService
  <2>3. CASE d = c
    <3>1. cl'[c].pc = "served"
      BY <1>t, <1>14, <2>3 DEF AnswerService, Client
    <3> QED BY <1>f, <2>1, <3>1 DEF Unhindered
  <2> QED BY <2>2, <2>3
<1>15. ASSUME NEW s \in Servers, NEW d \in Clients, AnswerKill(s, d) PROVE Unhindered(c)'
  <2>1. cmd[d] # "kill-server" /\ cl'[d].pc = "launch"
    BY <1>o, <1>t, <1>15 DEF AnswerKill, Goto, Killed, Client
  <2>2. d = c
    BY <1>o, <2>1
  <2>3. s = Old /\ cl[c].pc = "kill" /\ srv[c].st = "none"
    BY <1>f, <1>15, <2>2 DEF AnswerKill
  <2>4. srv'[c] = srv[c] /\ srv'[Old].st = "exiting"
    BY <1>f, <1>t, <1>15, <2>3 DEF AnswerKill
  <2> QED BY <1>f, <2>1, <2>2, <2>3, <2>4 DEF Unhindered
<1>16. CASE UNCHANGED vars
  BY <1>k, <1>16 DEF vars
<1> QED
  BY <1>1, <1>2, <1>3, <1>4, <1>5, <1>6, <1>7, <1>8, <1>9, <1>10, <1>11, <1>12, <1>13, <1>14, <1>15,
     <1>16 DEF Next, ClientStep, ServerStep, Notify, Answer

\* Nobody launches the server that was there before.
LEMMA OldStep == IInv /\ [Next]_vars => OldInv'
<1> SUFFICES ASSUME IInv, [Next]_vars PROVE OldInv'
  OBVIOUS
<1>t. /\ srv \in [Servers -> [st : {"none", "starting", "bound", "up", "exiting", "dead"},
                              sig : BOOLEAN, acked : BOOLEAN]]
      /\ Old \in Servers /\ Old \notin Clients /\ srv[Old].st \notin {"starting", "bound"}
  BY StartAssumption DEF IInv, TypeOK, Servers, OldInv
<1>1. ASSUME NEW d \in Clients, Launch(d) \/ Interrupt(d) PROVE OldInv'
  BY <1>t, <1>1 DEF Launch, Interrupt, OldInv
<1>2. ASSUME NEW s \in Servers, ServerStep(s) \/ Notify(s) PROVE OldInv'
  BY <1>t, <1>2 DEF ServerStep, Bind, GiveUp, Run, Exit, Notify, Ack, AckFails, Dies, OldInv
<1>3. ASSUME NEW s \in Servers, NEW d \in Clients, AnswerKill(s, d) PROVE OldInv'
  BY <1>t, <1>3 DEF AnswerKill, OldInv
<1>4. CASE UNCHANGED srv
  BY <1>t, <1>4 DEF OldInv
<1> QED BY <1>1, <1>2, <1>3, <1>4
     DEF Next, vars, ConnectFirst, ClientStep, ConnectKill, ReadAck, ConnectService, ConnectionLost,
         Answer, AnswerVersion, AnswerService

\* The invariant of the proof holds in every state.
LEMMA Inductive == Spec => []IInv
<1>1. IInv /\ [Next]_vars => IInv'
  BY TypeStep, PortStep, LaunchStep, ClientStepInv, OldStep, AloneStep DEF IInv
<1> QED BY InitIInv, <1>1, PTL DEF Spec

\* Every variable of the start of a server keeps its type.
THEOREM StartTypes == Spec => []TypeOK
<1>1. IInv => TypeOK
  BY DEF IInv
<1> QED BY Inductive, <1>1, PTL

\* adb_connect uses a server of another version, or kills one of its own, only if the
\* one it had checked or launched is gone, for any number of clients and versions.
THEOREM VersionsRight == Spec => []RightVersion
<1>1. IInv => RightVersion
  BY StartAssumption DEF IInv, RightVersion, ClientInv, Checks, Replaced, Servers
<1> QED BY Inductive, <1>1, PTL

\* adb_connect gives up only if another client launches a server of its own, or for a
\* server that is slow to exit, kill-server, Ctrl-C or a failing fork: for any number of
\* clients and versions.
THEOREM AloneNeverFails == Spec => []AloneSucceeds
<1>1. IInv => AloneSucceeds
  <2> SUFFICES ASSUME IInv, NEW c \in Clients, cl[c].pc = "failed", ~disturbed
               PROVE \E d \in Clients \ {c} : cl[d].pc = "launch" \/ srv[d].st # "none"
    BY DEF AloneSucceeds
  <2>1. ~Alone(c)
    BY DEF IInv, AloneInv, Unhindered
  <2> QED BY <2>1 DEF Alone
<1> QED BY Inductive, <1>1, PTL
=============================================================================
