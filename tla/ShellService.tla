---------------------------- MODULE ShellService ----------------------------
(***************************************************************************)
(* One shell service of adbd (shell_service.cpp): the thread that passes   *)
(* data between the local socket, by the shell protocol, and the input and *)
(* output of a subprocess, and that reports the exit code.                 *)
(*                                                                         *)
(* Data is counted in units.  The subprocess stands for all the processes  *)
(* that hold its descriptors: they may outlive the one that is waited for. *)
(* A packet of the client is in the socket as a whole before it is read.   *)
(***************************************************************************)
EXTENDS Naturals, Sequences, FiniteSets

CONSTANTS
    Kinds,          \* "raw" or "pty" with the shell protocol, or "none": no protocol
    Capacity,       \* data_capacity() of a ShellProtocol
    Pipe,           \* units of stdin the subprocess may leave unread
    Room,           \* packets a socket holds
    MaxPacket,      \* units of data in a packet of the client
    MaxIn,          \* bound: packets of the client
    MaxOut          \* bound: units the subprocess writes

ASSUME ShellAssumption ==
    /\ Kinds \subseteq {"raw", "pty", "none"}
    /\ Capacity \in Nat \ {0} /\ Pipe \in Nat \ {0} /\ Room \in Nat \ {0} /\ MaxPacket \in Nat
    /\ MaxIn \in Nat /\ MaxOut \in Nat

Streams == {"stdinout", "stderr"}

VARIABLES
    kind,
    pc,         \* where the thread is
    open,       \* which of protocol_sfd_, stdinout_sfd_ and stderr_sfd_ is not -1
    rset, wset, \* master_read_set, master_write_set
    ready,      \* read_set and write_set after select()
    input,      \* input_: id and bytes_left_
    left,       \* input_bytes_left_
    hold,       \* what PassOutput has read and is writing
    toSvc,      \* packets in the socket to the thread
    toClient,   \* packets in the socket from it
    hungUp,     \* the main thread has closed the local socket
    got,        \* the client has received an exit packet
    sent,       \* [data, packets, eof] the client has sent
    alive,      \* the process that is waited for
    ends,       \* descriptors some process still holds
    out,        \* units in the pipes to the thread
    stdin,      \* units the subprocess has not read
    shut,       \* stdin was shut down
    sighup,     \* the process was sent SIGHUP
    written,    \* units the subprocess has written
    passed,     \* units of each stream that were passed on
    given,      \* units that were written to stdin
    cut,        \* why a pipe was closed before its end: "no", a call failed ("error"), "stdin"
    exitSent    \* the exit packet was written

fds == <<open, rset, wset>>
client == <<hungUp, got, sent>>
proc == <<alive, ends, stdin, written>>
ghosts == <<passed, cut, exitSent>>
vars == <<kind, pc, fds, ready, input, left, hold, toSvc, toClient, client, proc, out, shut,
          sighup, given, ghosts>>

Least(a, b) == IF a < b THEN a ELSE b
NotReady == [read |-> {}, write |-> {}]
NoHold == [from |-> "none", n |-> 0]
Message(id, n) == [id |-> id, n |-> n]

-----------------------------------------------------------------------------
(* Start *)

\* StartSubprocess: ForkAndExec, then the thread.  Without the protocol
\* PassDataStreams returns at once: the pty is the local socket.
Start ==
    /\ pc = "start"
    /\ alive' = TRUE
    /\ ends' = CASE kind = "raw" -> Streams [] kind = "pty" -> {"stdinout"} [] OTHER -> {}
    /\ open' = IF kind = "none" THEN {} ELSE ends' \cup {"protocol"}
    /\ rset' = open'
    /\ pc' = IF kind = "none" THEN "wait" ELSE "select"
    /\ UNCHANGED <<kind, wset, ready, input, left, hold, toSvc, toClient, client, out, stdin,
                   written, shut, sighup, given, ghosts>>

\* ForkAndExec fails: ReportError.
StartFails ==
    /\ pc = "start"
    /\ pc' = "done"
    /\ toClient' = IF kind = "none" THEN <<Message("stderr", 0)>>
                   ELSE <<Message("stderr", 0), Message("exit", 0)>>
    /\ exitSent' = (kind # "none")
    /\ UNCHANGED <<kind, fds, ready, input, left, hold, toSvc, client, proc, out, shut, sighup,
                   given, passed, cut>>

-----------------------------------------------------------------------------
(* PassDataStreams and SelectLoop *)

\* Mutant: the loop ends with the first pipe.
LoopsWhileBoth(fs) == "protocol" \in fs /\ "stdinout" \in fs

\* Mutant: the loop does not end with the pipes.
LoopsForProtocol(fs) == "protocol" \in fs

\* The loop of PassDataStreams.
Loops(fs) == "protocol" \in fs /\ fs \cap Streams # {}

\* The descriptor that SelectLoop returned is closed; with the protocol's, the
\* process is sent SIGHUP and the pipes are closed.
Dies(f) ==
    /\ open' = IF f = "protocol" THEN {} ELSE open \ {f}
    /\ sighup' = (sighup \/ f = "protocol")
    /\ pc' = IF Loops(open') THEN "select" ELSE "wait"
    /\ ready' = NotReady

Readable(f) ==
    \/ f \in Streams /\ (out[f] > 0 \/ f \notin ends)
    \/ f = "protocol" /\ (toSvc # <<>> \/ input.n > 0 \/ hungUp)

Writable == stdin < Pipe \/ "stdinout" \notin ends \/ shut

\* SelectLoop looks at stdout, stderr, the protocol and stdin in this order:
\* which one is next once it is done with some streams.
NextOf(done, rd) ==
    IF "stdinout" \in (open \cap rd.read) \ done THEN "stdinout"
    ELSE IF "stderr" \in (open \cap rd.read) \ done THEN "stderr"
    ELSE IF "protocol" \in open \cap rd.read THEN "input"
    ELSE IF "stdinout" \in open \cap rd.write THEN "feed"
    ELSE "select"

SelectReturns ==
    LET r == {f \in rset : Readable(f)}
        w == {f \in wset : Writable}
    IN  /\ pc = "select"
        /\ r \cup w # {}
        /\ ready' = [read |-> r, write |-> w]
        /\ pc' = NextOf({}, ready')
        /\ UNCHANGED <<kind, fds, input, left, hold, toSvc, toClient, client, proc, out, shut,
                       sighup, given, ghosts>>

\* select() fails: the pipes are closed.
SelectFails ==
    /\ pc = "select"
    /\ open' = open \ Streams
    /\ cut' = "error"
    /\ pc' = "wait"
    /\ UNCHANGED <<kind, rset, wset, ready, input, left, hold, toSvc, toClient, client, proc, out,
                   shut, sighup, given, passed, exitSent>>

\* PassOutput reads what there is, up to its capacity.
ReadOutput(f) ==
    LET n == Least(out[f], Capacity)
    IN  /\ pc = f /\ out[f] > 0
        /\ out' = [out EXCEPT ![f] = @ - n]
        /\ hold' = [from |-> f, n |-> n]
        /\ pc' = "write"
        /\ UNCHANGED <<kind, fds, ready, input, left, toSvc, toClient, client, proc, shut, sighup,
                       given, ghosts>>

\* PassOutput reads the end of the stream.
EndOfOutput(f) ==
    /\ pc = f /\ out[f] = 0
    /\ Dies(f)
    /\ rset' = rset \ {f}
    /\ wset' = wset \ {f}
    /\ UNCHANGED <<kind, input, left, hold, toSvc, toClient, client, proc, out, shut, given,
                   ghosts>>

\* PassOutput writes a packet; the write waits for room.
WriteOutput ==
    /\ pc = "write" /\ ~hungUp /\ Len(toClient) < Room
    /\ toClient' = Append(toClient, Message(hold.from, hold.n))
    /\ passed' = [passed EXCEPT ![hold.from] = @ + hold.n]
    /\ hold' = NoHold
    /\ pc' = NextOf({"stdinout", hold.from}, ready)
    /\ ready' = IF pc' = "select" THEN NotReady ELSE ready
    /\ UNCHANGED <<kind, fds, input, left, toSvc, client, proc, out, shut, sighup, given, cut,
                   exitSent>>

\* The write fails: nobody reads the socket any more.
WriteFails ==
    /\ pc = "write" /\ hungUp
    /\ Dies("protocol")
    /\ hold' = NoHold
    /\ rset' = rset \ {"protocol"}
    /\ wset' = wset \ {"protocol"}
    /\ UNCHANGED <<kind, input, left, toSvc, toClient, client, proc, out, shut, given, ghosts>>

-----------------------------------------------------------------------------
(* PassInput *)

\* ShellProtocol::Read: how much of a packet, or of what is left of one.
Part(m) == Least(m.n, Capacity)

\* ShellProtocol::Read gets a packet, or the rest of one; what there is for
\* stdin is written next.
ReadInput ==
    LET m == IF input.n > 0 THEN input ELSE Head(toSvc)
    IN  /\ pc = "input"
        /\ input.n > 0 \/ toSvc # <<>>
        /\ toSvc' = IF input.n > 0 THEN toSvc ELSE Tail(toSvc)
        /\ input' = [m EXCEPT !.n = @ - Part(m)]
        /\ IF m.id = "stdin" /\ "stdinout" \in open
           THEN left' = Part(m) /\ pc' = IF Part(m) > 0 THEN "feed" ELSE "select"
           ELSE /\ pc' = IF m.id = "close" /\ "stdinout" \in open /\ kind = "raw" THEN "shutdown"
                                                                                ELSE "select"
                /\ UNCHANGED left
        /\ ready' = NotReady
        /\ UNCHANGED <<kind, fds, hold, toClient, client, proc, out, shut, sighup, given, ghosts>>

\* There is nothing to read, and no one to write it.
EndOfInput ==
    /\ pc = "input"
    /\ input.n = 0 /\ toSvc = <<>>
    /\ Dies("protocol")
    /\ rset' = rset \ {"protocol"}
    /\ wset' = wset \ {"protocol"}
    /\ UNCHANGED <<kind, input, left, hold, toSvc, toClient, client, proc, out, shut, given,
                   ghosts>>

\* kIdCloseStdin to a raw subprocess.
ShutdownInput ==
    /\ pc = "shutdown"
    /\ shut' = TRUE
    /\ pc' = "select"
    /\ ready' = NotReady
    /\ UNCHANGED <<kind, fds, input, left, hold, toSvc, toClient, client, proc, out, sighup, given,
                   ghosts>>

\* shutdown() fails: the descriptor is closed.
ShutdownFails ==
    /\ pc = "shutdown"
    /\ Dies("stdinout")
    /\ rset' = rset \ {"stdinout"}
    /\ wset' = wset \ {"stdinout"}
    /\ cut' = "error"
    /\ UNCHANGED <<kind, input, left, hold, toSvc, toClient, client, proc, out, shut, given, passed,
                   exitSent>>

\* Mutant: what did not fit into the pipe is dropped.
FeedOnce ==
    LET n == Least(left, Pipe - stdin)
    IN  /\ pc = "feed" /\ "stdinout" \in ends /\ ~shut
        /\ stdin' = stdin + n /\ given' = given + n
        /\ left' = 0
        /\ pc' = "select"
        /\ ready' = NotReady
        /\ UNCHANGED <<kind, fds, input, hold, toSvc, toClient, client, alive, ends, written, out,
                       shut, sighup, ghosts>>

\* The write to stdin takes what there is room for.  While something is left
\* the thread waits for stdin and not for the protocol.
Feed ==
    LET n == Least(left, Pipe - stdin)
    IN  /\ pc = "feed" /\ "stdinout" \in ends /\ ~shut
        /\ stdin' = stdin + n /\ given' = given + n
        /\ left' = left - n
        /\ rset' = IF left' > 0 THEN rset \ {"protocol"} ELSE rset \cup {"protocol"}
        /\ wset' = IF left' > 0 THEN wset \cup {"stdinout"} ELSE wset \ {"stdinout"}
        /\ pc' = "select"
        /\ ready' = NotReady
        /\ UNCHANGED <<kind, open, input, hold, toSvc, toClient, client, alive, ends, written, out,
                       shut, sighup, ghosts>>

\* It fails: no process has the other end, or it was shut down.  The descriptor
\* that is closed is stdout, too.
FeedFails ==
    /\ pc = "feed" /\ ("stdinout" \notin ends \/ shut)
    /\ left' = 0
    /\ Dies("stdinout")
    /\ rset' = (rset \ {"stdinout"}) \cup {"protocol"}
    /\ wset' = wset \ {"stdinout"}
    /\ cut' = "stdin"
    /\ UNCHANGED <<kind, input, hold, toSvc, toClient, client, proc, out, shut, given, passed,
                   exitSent>>

-----------------------------------------------------------------------------
(* WaitForExit *)

\* The process has ended: the exit packet, if the protocol is open; the write
\* waits for room.  The descriptor passed to the main thread is -1, since
\* StartSubprocess has released it: nothing comes of that.
WaitForExit ==
    /\ pc = "wait" /\ ~alive
    /\ "protocol" \in open /\ ~hungUp => Len(toClient) < Room
    /\ IF "protocol" \in open /\ ~hungUp
       THEN toClient' = Append(toClient, Message("exit", 0)) /\ exitSent' = TRUE
       ELSE UNCHANGED <<toClient, exitSent>>
    /\ open' = {}
    /\ pc' = "done"
    /\ UNCHANGED <<kind, rset, wset, ready, input, left, hold, toSvc, client, proc, out, shut,
                   sighup, given, passed, cut>>

-----------------------------------------------------------------------------
(* The client, through the main thread, and the subprocess *)

ClientSends(m) ==
    /\ pc # "start" /\ kind # "none"
    /\ ~hungUp /\ ~sent.eof /\ sent.packets < MaxIn /\ Len(toSvc) < Room
    /\ toSvc' = Append(toSvc, m)
    /\ sent' = [data |-> sent.data + (IF m.id = "stdin" THEN m.n ELSE 0),
                packets |-> sent.packets + 1, eof |-> m.id = "close"]
    /\ UNCHANGED <<kind, pc, fds, ready, input, left, hold, toClient, hungUp, got, proc, out, shut,
                   sighup, given, ghosts>>

ClientReads ==
    /\ ~hungUp /\ toClient # <<>>
    /\ got' = (got \/ Head(toClient).id = "exit")
    /\ toClient' = Tail(toClient)
    /\ UNCHANGED <<kind, pc, fds, ready, input, left, hold, toSvc, hungUp, sent, proc, out, shut,
                   sighup, given, ghosts>>

ClientHangsUp ==
    /\ pc # "start" /\ ~hungUp
    /\ hungUp' = TRUE
    /\ toClient' = <<>>
    /\ UNCHANGED <<kind, pc, fds, ready, input, left, hold, toSvc, got, sent, proc, out, shut,
                   sighup, given, ghosts>>

\* A process writes to a stream that has a reader.
ProcessWrites(f) ==
    /\ f \in ends \cap open /\ written["stdinout"] + written["stderr"] < MaxOut
    /\ written' = [written EXCEPT ![f] = @ + 1]
    /\ out' = [out EXCEPT ![f] = @ + 1]
    /\ UNCHANGED <<kind, pc, fds, ready, input, left, hold, toSvc, toClient, client, alive, ends,
                   stdin, shut, sighup, given, ghosts>>

ProcessReads ==
    /\ "stdinout" \in ends /\ stdin > 0
    /\ stdin' = stdin - 1
    /\ UNCHANGED <<kind, pc, fds, ready, input, left, hold, toSvc, toClient, client, alive, ends,
                   written, out, shut, sighup, given, ghosts>>

\* The last holder of a descriptor closes it.
ProcessCloses(f) ==
    /\ f \in ends
    /\ ends' = ends \ {f}
    /\ UNCHANGED <<kind, pc, fds, ready, input, left, hold, toSvc, toClient, client, alive, stdin,
                   written, out, shut, sighup, given, ghosts>>

ProcessExits ==
    /\ alive
    /\ alive' = FALSE
    /\ UNCHANGED <<kind, pc, fds, ready, input, left, hold, toSvc, toClient, client, ends, stdin,
                   written, out, shut, sighup, given, ghosts>>

-----------------------------------------------------------------------------
Init ==
    /\ kind \in Kinds
    /\ pc = "start"
    /\ open = {} /\ rset = {} /\ wset = {}
    /\ ready = NotReady
    /\ input = Message("invalid", 0) /\ left = 0 /\ hold = NoHold
    /\ toSvc = <<>> /\ toClient = <<>>
    /\ hungUp = FALSE /\ got = FALSE /\ sent = [data |-> 0, packets |-> 0, eof |-> FALSE]
    /\ alive = FALSE /\ ends = {} /\ stdin = 0
    /\ out = [f \in Streams |-> 0] /\ written = [f \in Streams |-> 0]
    /\ shut = FALSE /\ sighup = FALSE
    /\ passed = [f \in Streams |-> 0] /\ given = 0 /\ cut = "no" /\ exitSent = FALSE

Outputs == \E f \in Streams : ReadOutput(f) \/ EndOfOutput(f)
Inputs == ReadInput \/ EndOfInput \/ ShutdownInput \/ Feed \/ FeedFails
Thread == SelectReturns \/ Outputs \/ WriteOutput \/ WriteFails \/ Inputs \/ WaitForExit

Messages == {Message("stdin", n) : n \in 1..MaxPacket} \cup {Message("close", 0), Message("winsize", 0)}

Client == (\E m \in Messages : ClientSends(m)) \/ ClientReads \/ ClientHangsUp
Process == (\E f \in Streams : ProcessWrites(f) \/ ProcessCloses(f)) \/ ProcessReads \/ ProcessExits

Next == Start \/ StartFails \/ Thread \/ SelectFails \/ ShutdownFails \/ Client \/ Process

Spec == Init /\ [][Next]_vars

\* The thread runs, and the main thread takes what it writes.  Nothing is
\* assumed of the subprocess, nor that the client sends or hangs up.
Fairness == WF_vars(Thread) /\ WF_vars(ClientReads)

FairSpec == Spec /\ Fairness

-----------------------------------------------------------------------------
(* Properties *)

Pcs == {"start", "select", "stdinout", "stderr", "write", "input", "shutdown", "feed", "wait", "done"}
Fds == Streams \cup {"protocol"}
Packet == [id : {"invalid", "stdin", "close", "winsize"}, n : Nat]
Reply == [id : Streams \cup {"exit"}, n : 0..Capacity]
Units == [Streams -> Nat]

ThreadType ==
    /\ kind \in {"raw", "pty", "none"} /\ pc \in Pcs
    /\ open \subseteq Fds /\ rset \subseteq Fds /\ wset \subseteq Fds
    /\ ready \in [read : SUBSET Fds, write : SUBSET Fds]
    /\ input \in Packet /\ left \in 0..Capacity
    /\ hold \in [from : Streams \cup {"none"}, n : 0..Capacity]
SocketType ==
    toSvc \in Seq(Packet) /\ toClient \in Seq(Reply)
ClientType ==
    hungUp \in BOOLEAN /\ got \in BOOLEAN /\ sent \in [data : Nat, packets : Nat, eof : BOOLEAN]
ProcType ==
    /\ alive \in BOOLEAN /\ ends \subseteq Streams /\ stdin \in 0..Pipe
    /\ written \in Units /\ out \in Units
GhostType ==
    /\ shut \in BOOLEAN /\ sighup \in BOOLEAN
    /\ passed \in Units /\ given \in Nat /\ cut \in {"no", "error", "stdin"} /\ exitSent \in BOOLEAN

\* Types of the variables: in particular a packet longer than the buffer is
\* read in parts, and stdin never takes more than fits.
TypeOK == ThreadType /\ SocketType /\ ClientType /\ ProcType /\ GhostType

\* The exit packet comes after all the output: when it is written, everything that was
\* written to stdout and stderr was passed on, by whichever process, unless a
\* pipe was closed because of an error.
OutputBeforeExit == exitSent /\ cut = "no" => passed = written /\ ends = {}

DataOf(m) == IF m.id = "stdin" THEN m.n ELSE 0

\* The data in the packets of a socket.
Data(q) == LET upTo[i \in 0..Len(q)] == IF i = 0 THEN 0 ELSE upTo[i - 1] + DataOf(q[i])
           IN  upTo[Len(q)]

\* Input is neither lost nor doubled, however it is split into packets, buffers
\* and writes: what the client sent was given to the subprocess or is on its way.
InputConserved ==
    {"stdinout", "protocol"} \subseteq open =>
        sent.data = given + left + DataOf(input) + Data(toSvc)

\* What InputConserved rests on: PassInput reads no packet while something is
\* left of the one before.
LeftInv ==
    /\ pc = "start" => sent.data = 0 /\ given = 0 /\ left = 0 /\ input.n = 0 /\ toSvc = <<>>
    /\ left > 0 /\ pc # "feed" => pc # "input" /\ "protocol" \notin rset \cup ready.read

\* The inductive strengthening of OutputBeforeExit.  While the protocol is open
\* every unit that was written is in its pipe, held by PassOutput or passed on.
Held(f) == IF hold.from = f THEN hold.n ELSE 0
OutputConserved ==
    "protocol" \in open => \A f \in Streams : written[f] = passed[f] + out[f] + Held(f)

\* A stream that is closed without an error was at its end.
Available(f) == out[f] > 0 \/ f \notin ends
ClosedAtEnd ==
    "protocol" \in open /\ cut = "no" => \A f \in Streams \ open : f \notin ends /\ out[f] = 0

\* What select() found readable stays so until it is read.
StillReadable ==
    /\ pc \in Streams => Available(pc)
    /\ (pc = "stdinout" \/ (pc = "write" /\ hold.from = "stdinout")) /\ "stderr" \in ready.read
          => Available("stderr")

StepInv ==
    /\ pc = "write" => hold.from \in Streams
    /\ pc # "write" => hold.from = "none"
    /\ pc = "start" => passed = written /\ ends = {} /\ out = [f \in Streams |-> 0] /\ open = {}
    /\ pc = "wait" /\ "protocol" \in open => open \cap Streams = {}
    /\ exitSent => pc = "done"

\* Once no process is left the thread ends, whether the client hangs up or reads
\* slowly and whatever was left unwritten, and a client that has not hung up
\* gets an exit packet.
ExitReported ==
    (pc # "start" /\ ~alive /\ ends = {}) ~> (pc = "done" /\ (kind = "none" \/ got \/ hungUp))
=============================================================================
