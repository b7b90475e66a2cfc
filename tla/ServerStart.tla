---------------------------- MODULE ServerStart ----------------------------
(***************************************************************************)
(* How clients find, replace and start the server: adb_connect,            *)
(* adb_kill_server and launch_server in the processes of the clients,      *)
(* adb_server_main and the answer to host:kill in those of the servers.    *)
(* Clients know nothing of each other; what they share is the port, which  *)
(* one process at a time can bind.  A client launches at most one server,  *)
(* which has its name and its version.                                     *)
(***************************************************************************)
EXTENDS Naturals

CONSTANTS
    Clients,    \* invocations of adb
    Old,        \* a server that may have been there before them
    None,
    Versions    \* ADB_SERVER_VERSION of the binaries that are installed

ASSUME StartAssumption ==
    /\ Old \notin Clients
    /\ None \notin Clients \cup {Old}

Servers == Clients \cup {Old}
Commands == {"service", "start-server", "kill-server"}

VARIABLES
    ver,        \* the version of every client and server
    cmd,        \* what each client is asked to do
    cl,         \* clients: pc; at, the process connected to; seen, the server checked
    srv,        \* servers: st; sig, SIGINT was queued; acked
    port,       \* the server that listens
    disturbed   \* ghost: a server was lost to something but its version

vars == <<ver, cmd, cl, srv, port, disturbed>>

Client(pc, at, seen) == [pc |-> pc, at |-> at, seen |-> seen]
Fresh == [st |-> "none", sig |-> FALSE, acked |-> FALSE]
Listening(s) == srv[s].st \in {"bound", "up", "exiting"}
Gone(s) == srv[s].st \in {"exiting", "dead"}

Init ==
    /\ ver \in [Servers -> Versions]
    /\ cmd \in [Clients -> Commands]
    /\ cl = [c \in Clients |-> Client("start", None, None)]
    /\ \E old \in {"none", "up"} :
          /\ srv = [s \in Servers |-> IF s = Old THEN [Fresh EXCEPT !.st = old] ELSE Fresh]
          /\ port = IF old = "up" THEN Old ELSE None
    /\ disturbed = FALSE

-----------------------------------------------------------------------------
(* Clients *)

Goto(c, pc) == cl' = [cl EXCEPT ![c] = Client(pc, None, cl[c].seen)]

\* socket_spec_connect: the connection waits in the backlog of whoever listens,
\* one that does not run its loop yet, or no longer, included.
Connects(c, pc) == cl' = [cl EXCEPT ![c] = Client(pc, port, cl[c].seen)]

\* Mutant: the client that killed the server takes it for started.
KilledNoLaunch(c) == "done"

\* adb_connect goes on with start_server.
Killed(c) == IF cmd[c] = "kill-server" THEN "done" ELSE "launch"

\* _adb_connect("host:version"), and the kill-server command.
ConnectFirst(c) ==
    /\ cl[c].pc = "start"
    /\ IF port # None
       THEN Connects(c, IF cmd[c] = "kill-server" THEN "kill" ELSE "version")
       ELSE Goto(c, IF cmd[c] = "kill-server" THEN "done" ELSE "launch")
    /\ UNCHANGED <<ver, cmd, srv, port, disturbed>>

\* adb_kill_server after a version that differs; without a server it is done.
ConnectKill(c) ==
    /\ cl[c].pc = "mismatch"
    /\ IF port # None THEN Connects(c, "kill") ELSE Goto(c, "launch")
    /\ UNCHANGED <<ver, cmd, srv, port, disturbed>>

\* pipe, fork and execl, which may fail.  A child whose execl fails goes on as a second
\* client; its parent reads no acknowledgement and fails as it does without a child.
Launch(c) ==
    /\ cl[c].pc = "launch"
    /\ \/ /\ Goto(c, "ack")
          /\ srv' = [srv EXCEPT ![c].st = "starting"]
          /\ UNCHANGED disturbed
       \/ /\ Goto(c, "failed")
          /\ disturbed' = TRUE
          /\ UNCHANGED srv
    /\ UNCHANGED <<ver, cmd, port>>

\* "if the command is start-server, we are done."
Checked(c, s) ==
    cl' = [cl EXCEPT ![c] = Client(IF cmd[c] = "start-server" THEN "done" ELSE "connect", None, s)]

\* The read of launch_server: "OK\n", or the end of the file when the server ends.
ReadAck(c) ==
    /\ cl[c].pc = "ack"
    /\ \/ srv[c].acked /\ Checked(c, c)
       \/ ~srv[c].acked /\ srv[c].st = "dead" /\ Goto(c, "failed")
    /\ UNCHANGED <<ver, cmd, srv, port, disturbed>>

\* _adb_connect(service); without a server "daemon still not running".
ConnectService(c) ==
    /\ cl[c].pc = "connect"
    /\ IF port # None THEN Connects(c, "service") ELSE Goto(c, "failed")
    /\ UNCHANGED <<ver, cmd, srv, port, disturbed>>

\* The server ended before it answered: ReadFdExactly or ReadOrderlyShutdown return.
ConnectionLost(c) ==
    /\ cl[c].pc \in {"version", "kill", "service"} /\ srv[cl[c].at].st = "dead"
    /\ Goto(c, IF cl[c].pc = "kill" THEN Killed(c) ELSE "failed")
    /\ UNCHANGED <<ver, cmd, srv, port, disturbed>>

\* Ctrl-C while launch_server waits.  Before setsid the server gets SIGINT too: it ends
\* at once, or its main thread does when it comes to its loop.
Interrupt(c) ==
    /\ cl[c].pc = "ack" /\ ~srv[c].acked
    /\ Goto(c, "interrupted")
    /\ \/ srv[c].st = "starting" /\ srv' = [srv EXCEPT ![c].st = "dead"]
       \/ srv[c].st \in {"starting", "bound"} /\ srv' = [srv EXCEPT ![c].sig = TRUE]
       \/ srv[c].st \in {"up", "exiting", "dead"} /\ UNCHANGED srv
    /\ disturbed' = TRUE
    /\ UNCHANGED <<ver, cmd, port>>

-----------------------------------------------------------------------------
(* Servers *)

\* install_listener: bind takes the port.
Bind(s) ==
    /\ srv[s].st = "starting" /\ port = None
    /\ port' = s
    /\ srv' = [srv EXCEPT ![s].st = "bound"]
    /\ UNCHANGED <<ver, cmd, cl, disturbed>>

\* Half a second of attempts were not enough: fatal.  A server that is on its way out
\* may have the port for longer than that.
GiveUp(s) ==
    /\ srv[s].st = "starting" /\ port # None
    /\ srv' = [srv EXCEPT ![s].st = "dead"]
    /\ disturbed' = (disturbed \/ srv[port].st = "exiting")
    /\ UNCHANGED <<ver, cmd, cl, port>>

\* adb_auth_init, setsid, the thread that acknowledges, fdevent_loop.
Run(s) ==
    /\ srv[s].st = "bound"
    /\ srv' = [srv EXCEPT ![s].st = IF srv[s].sig THEN "exiting" ELSE "up"]
    /\ UNCHANGED <<ver, cmd, cl, port, disturbed>>

Waits(s) == s \in Clients /\ cl[s].pc = "ack" /\ ~srv[s].acked

\* Mutant: the server acknowledges before it has its port.
MayAckEarly(s) == srv[s].st \in {"starting", "bound", "up", "exiting"}

\* The thread that waits for the devices, while the main thread may already exit.
MayAck(s) == srv[s].st \in {"up", "exiting"}

Ack(s) ==
    /\ Waits(s) /\ MayAck(s)
    /\ srv' = [srv EXCEPT ![s].acked = TRUE]
    /\ UNCHANGED <<ver, cmd, cl, port, disturbed>>

Dies(s) ==
    /\ srv' = [srv EXCEPT ![s].st = "dead"]
    /\ port' = IF port = s THEN None ELSE port

\* "error writing ACK": the client that launched it is gone.
AckFails(s) ==
    /\ s \in Clients /\ cl[s].pc = "interrupted" /\ MayAck(s)
    /\ Dies(s)
    /\ UNCHANGED <<ver, cmd, cl, disturbed>>

\* Mutant: whatever version answers will do.
SameVersionAny(c, s) == TRUE

\* version != ADB_SERVER_VERSION
SameVersion(c, s) == ver[s] = ver[c]

AnswerVersion(s, c) ==
    /\ srv[s].st = "up" /\ cl[c].pc = "version" /\ cl[c].at = s
    /\ IF SameVersion(c, s)
       THEN Checked(c, s)
       ELSE cl' = [cl EXCEPT ![c] = Client("mismatch", None, s)]
    /\ UNCHANGED <<ver, cmd, srv, port, disturbed>>

AnswerService(s, c) ==
    /\ srv[s].st = "up" /\ cl[c].pc = "service" /\ cl[c].at = s
    /\ cl' = [cl EXCEPT ![c] = Client("served", s, cl[c].seen)]
    /\ UNCHANGED <<ver, cmd, srv, port, disturbed>>

\* host:kill: OKAY is sent and quick_exit called; the client goes on when it
\* reads OKAY, while the server still cleans up and has the port.
AnswerKill(s, c) ==
    /\ srv[s].st = "up" /\ cl[c].pc = "kill" /\ cl[c].at = s
    /\ srv' = [srv EXCEPT ![s].st = "exiting"]
    /\ Goto(c, Killed(c))
    /\ disturbed' = (disturbed \/ cmd[c] = "kill-server")
    /\ UNCHANGED <<ver, cmd, port>>

\* The end of quick_exit.
Exit(s) ==
    /\ srv[s].st = "exiting"
    /\ Dies(s)
    /\ UNCHANGED <<ver, cmd, cl, disturbed>>

-----------------------------------------------------------------------------
ClientStep(c) ==
    \/ ConnectKill(c)
    \/ Launch(c)
    \/ ReadAck(c)
    \/ ConnectService(c)
    \/ ConnectionLost(c)

Answer(s, c) == AnswerVersion(s, c) \/ AnswerService(s, c) \/ AnswerKill(s, c)

ServerStep(s) ==
    \/ Bind(s)
    \/ GiveUp(s)
    \/ Run(s)
    \/ Exit(s)

Notify(s) == Ack(s) \/ AckFails(s)

Next ==
    \/ \E c \in Clients : ConnectFirst(c) \/ ClientStep(c) \/ Interrupt(c)
    \/ \E s \in Servers : ServerStep(s) \/ Notify(s) \/ \E c \in Clients : Answer(s, c)

Spec == Init /\ [][Next]_vars

\* Processes run, the exit of a server comes to its end (UsbHost shows when it does
\* not), and a server in its loop answers every client.  Nobody has to call adb.
Fairness ==
    /\ \A c \in Clients : WF_vars(ClientStep(c))
    /\ \A s \in Servers :
          /\ WF_vars(ServerStep(s))
          /\ WF_vars(Notify(s))
          /\ \A c \in Clients : WF_vars(Answer(s, c))

FairSpec == Spec /\ Fairness

-----------------------------------------------------------------------------
(* Properties *)

Final == {"done", "served", "failed", "interrupted"}

\* Types of the variables.
TypeOK ==
    /\ ver \in [Servers -> Versions]
    /\ cmd \in [Clients -> Commands]
    /\ cl \in [Clients -> [pc : {"start", "version", "mismatch", "kill", "launch", "ack", "connect",
                                 "service"} \cup Final,
                           at : Servers \cup {None}, seen : Servers \cup {None}]]
    /\ srv \in [Servers -> [st : {"none", "starting", "bound", "up", "exiting", "dead"},
                            sig : BOOLEAN, acked : BOOLEAN]]
    /\ port \in Servers \cup {None}
    /\ disturbed \in BOOLEAN

\* adb_connect checks a server and then connects again, to whoever listens by then.
\* A client is served by a version that is not its own, and kills a server of its own
\* version, only if the server it had checked or launched is gone.
RightVersion ==
    \A c \in Clients :
        \/ cl[c].pc = "served" /\ ver[cl[c].at] # ver[c]
        \/ cl[c].pc = "kill" /\ cmd[c] # "kill-server" /\ ver[cl[c].at] = ver[c]
        => cl[c].seen # None /\ Gone(cl[c].seen)

\* adb_connect fails, whatever server it finds and however that ends, only if another
\* client launches one of its own, or for what disturbs the start: a server that
\* needs longer to exit than its successor waits, kill-server, Ctrl-C or a failing fork.
AloneSucceeds ==
    \A c \in Clients :
        cl[c].pc = "failed" /\ ~disturbed
            => \E d \in Clients \ {c} : cl[d].pc = "launch" \/ srv[d].st # "none"

\* Every client comes to an end, and if any needed a server one is left running,
\* however often they have killed each other's.
Settles ==
    <>[] /\ \A c \in Clients : cl[c].pc \in Final \cup {"start"}
         /\ \/ disturbed
            \/ \A c \in Clients : cl[c].pc = "start" \/ cmd[c] = "kill-server"
            \/ \E s \in Servers : srv[s].st = "up"
=============================================================================
