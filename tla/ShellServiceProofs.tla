------------------------- MODULE ShellServiceProofs -------------------------
(***************************************************************************)
(* Proofs about ShellService: types, that the exit packet comes after all  *)
(* the output and that no input is lost or doubled, for any buffers, pipes *)
(* and number of packets.                                                  *)
(***************************************************************************)
EXTENDS ShellService, FiniteSetTheorems, SequenceTheorems, WellFoundedInduction, TLAPS

\* OutputBeforeExit needs to know where each unit of output is, that a stream is
\* closed at its end, and what the thread holds.
IInv ==
    /\ TypeOK /\ OutputBeforeExit
    /\ OutputConserved /\ ClosedAtEnd /\ StillReadable /\ StepInv

\* The ends of a queue.
LEMMA Queue ==
    ASSUME NEW S, NEW q \in Seq(S), q # <<>>
    PROVE  Head(q) \in S /\ Tail(q) \in Seq(S)
OBVIOUS

\* The packets that the thread writes.
LEMMA Replies ==
    /\ Message("stderr", 0) \in Reply /\ Message("exit", 0) \in Reply
    /\ \A f \in Streams, n \in 0..Capacity : Message(f, n) \in Reply
BY ShellAssumption DEF Message, Reply, Streams

\* The invariant holds initially.
LEMMA InitIInv == Init => IInv
<1> SUFFICES ASSUME Init PROVE IInv
  OBVIOUS
<1> USE ShellAssumption DEF Init, Streams, Message, NoHold, NotReady
<1>1. ThreadType
  BY DEF ThreadType, Pcs, Fds, Packet
<1>2. SocketType
  BY DEF SocketType
<1>3. ClientType
  BY DEF ClientType
<1>5. ProcType
  <2>1. alive \in BOOLEAN /\ ends \subseteq Streams
    OBVIOUS
  <2>3. stdin \in 0..Pipe
    OBVIOUS
  <2>2. written \in Units /\ out \in Units
    BY DEF Units
  <2> QED BY <2>1, <2>2, <2>3 DEF ProcType
<1>6. GhostType
  BY DEF GhostType, Units
<1>4. OutputBeforeExit /\ OutputConserved /\ ClosedAtEnd /\ StillReadable /\ StepInv
  BY DEF OutputBeforeExit, OutputConserved, Held, ClosedAtEnd, StillReadable, StepInv
<1> QED BY <1>1, <1>2, <1>3, <1>4, <1>5, <1>6 DEF IInv, TypeOK

\* The thread: no buffer holds more than its capacity.
LEMMA ThreadStep == IInv /\ [Next]_vars => ThreadType'
<1> SUFFICES ASSUME IInv, [Next]_vars PROVE ThreadType'
  OBVIOUS
<1> USE ShellAssumption DEF ThreadType, Streams, Fds, Pcs, Packet
<1>q. ThreadType /\ ProcType /\ SocketType
  BY DEF IInv, TypeOK
<1>1. CASE Start
  BY <1>q, <1>1 DEF Start, client, ghosts
<1>2. CASE StartFails
  BY <1>q, <1>2 DEF StartFails, fds, client, proc
<1>3. CASE SelectReturns
  <2>1. ready' \in [read : SUBSET Fds, write : SUBSET Fds]
    BY <1>q, <1>3 DEF SelectReturns
  <2>2. pc' \in Pcs
    BY <1>3 DEF SelectReturns, NextOf
  <2> QED BY <1>q, <1>3, <2>1, <2>2 DEF SelectReturns, fds
<1>4. CASE SelectFails
  BY <1>q, <1>4 DEF SelectFails, client, proc
<1>5. ASSUME NEW f \in Streams, ReadOutput(f) PROVE ThreadType'
  <2>1. Least(out[f], Capacity) \in 0..Capacity
    BY <1>q DEF Least, ProcType, Units
  <2> QED BY <1>q, <1>5, <2>1 DEF ReadOutput, fds
<1>6. ASSUME NEW f \in Streams, EndOfOutput(f) PROVE ThreadType'
  BY <1>q, <1>6 DEF EndOfOutput, Dies, NotReady, client, proc, ghosts
<1>7. CASE WriteOutput
  <2>1. pc' \in Pcs /\ ready' \in [read : SUBSET Fds, write : SUBSET Fds]
    BY <1>q, <1>7 DEF WriteOutput, NextOf, NotReady
  <2> QED BY <1>q, <1>7, <2>1 DEF WriteOutput, NoHold, fds
<1>8. CASE WriteFails
  BY <1>q, <1>8 DEF WriteFails, NoHold, Dies, NotReady, client, proc, ghosts
<1>9. CASE ReadInput
  <2> DEFINE m == IF input.n > 0 THEN input ELSE Head(toSvc)
  <2>0. toSvc # <<>> => Head(toSvc) \in Packet
    BY <1>q, Queue DEF SocketType
  <2>1. m \in Packet
    BY <1>q, <1>9, <2>0 DEF ReadInput
  <2>2. Part(m) \in 0..Capacity /\ m.n - Part(m) \in Nat
    BY <2>1 DEF Part, Least
  <2>3. [m EXCEPT !.n = @ - Part(m)] \in Packet
    BY <2>1, <2>2
  <2>4. input' \in Packet /\ left' \in 0..Capacity /\ pc' \in Pcs
    BY <1>q, <1>9, <2>2, <2>3 DEF ReadInput
  <2> QED BY <1>q, <1>9, <2>4 DEF ReadInput, NotReady, fds
<1>10. CASE EndOfInput
  BY <1>q, <1>10 DEF EndOfInput, Dies, NotReady, client, proc, ghosts
<1>11. CASE ShutdownInput
  BY <1>q, <1>11 DEF ShutdownInput, NotReady, fds, client, proc, ghosts
<1>12. CASE ShutdownFails
  BY <1>q, <1>12 DEF ShutdownFails, Dies, NotReady, client, proc
<1>13. CASE Feed
  <2>1. left - Least(left, Pipe - stdin) \in 0..Capacity
    BY <1>q DEF Least, ProcType
  <2> QED BY <1>q, <1>13, <2>1 DEF Feed, NotReady
<1>14. CASE FeedFails
  BY <1>q, <1>14 DEF FeedFails, Dies, NotReady, client, proc
<1>15. CASE WaitForExit
  BY <1>q, <1>15 DEF WaitForExit, client, proc
<1>16. CASE ClientReads \/ ClientHangsUp \/ ProcessReads \/ ProcessExits \/
           (\E f \in Streams : ProcessWrites(f) \/ ProcessCloses(f)) \/
           (\E m \in Messages : ClientSends(m)) \/ UNCHANGED vars
  <2>1. UNCHANGED <<kind, pc, open, rset, wset, ready, input, left, hold>>
    BY <1>16
       DEF ClientSends, ClientReads, ClientHangsUp, ProcessWrites, ProcessReads,
           ProcessCloses, ProcessExits, vars, fds, client, proc, ghosts
  <2> QED BY <1>q, <2>1
<1> QED
  BY <1>1, <1>2, <1>3, <1>4, <1>5, <1>6, <1>7, <1>8, <1>9, <1>10, <1>11, <1>12, <1>13,
     <1>14, <1>15, <1>16
     DEF Next, Thread, Outputs, Inputs, Client, Process

\* The sockets.
LEMMA SocketStep == IInv /\ [Next]_vars => SocketType'
<1> SUFFICES ASSUME IInv, [Next]_vars PROVE SocketType'
  OBVIOUS
<1> USE DEF SocketType
<1>q. SocketType /\ ThreadType /\ StepInv
  BY DEF IInv, TypeOK
<1>1. CASE StartFails
  BY <1>q, <1>1, Replies DEF StartFails, fds, client, proc
<1>2. CASE WriteOutput
  <2>1. Message(hold.from, hold.n) \in Reply
    BY <1>q, <1>2, Replies DEF WriteOutput, ThreadType, StepInv
  <2> QED BY <1>q, <1>2, <2>1 DEF WriteOutput
<1>3. CASE ReadInput
  BY <1>q, <1>3, Queue DEF ReadInput, fds, client, proc, ghosts
<1>4. CASE WaitForExit
  BY <1>q, <1>4, Replies DEF WaitForExit, client, proc
<1>5. ASSUME NEW m \in Messages, ClientSends(m) PROVE SocketType'
  <2>1. m \in Packet
    BY ShellAssumption DEF Messages, Message, Packet
  <2> QED BY <1>q, <1>5, <2>1 DEF ClientSends
<1>6. CASE ClientReads
  BY <1>q, <1>6, Queue DEF ClientReads, fds, proc, ghosts
<1>7. CASE ClientHangsUp
  BY <1>q, <1>7 DEF ClientHangsUp, fds, proc, ghosts
<1>8. CASE Start \/ SelectReturns \/ SelectFails \/ WriteFails \/ EndOfInput \/
           ShutdownInput \/ ShutdownFails \/ Feed \/ FeedFails \/ ProcessReads \/
           ProcessExits \/
           (\E f \in Streams : ReadOutput(f) \/ EndOfOutput(f) \/ ProcessWrites(f) \/ ProcessCloses(f)) \/
           UNCHANGED vars
  <2>1. UNCHANGED <<toSvc, toClient>>
    BY <1>8
       DEF Start, SelectReturns, SelectFails, ReadOutput, EndOfOutput, WriteFails,
           EndOfInput, ShutdownInput, ShutdownFails, Feed, FeedFails, ProcessWrites,
           ProcessReads, ProcessCloses, ProcessExits, vars, fds, client, proc, ghosts
  <2> QED BY <1>q, <2>1
<1> QED
  BY <1>1, <1>2, <1>3, <1>4, <1>5, <1>6, <1>7, <1>8
     DEF Next, Thread, Outputs, Inputs, Client, Process

\* The client.
LEMMA ClientStep == IInv /\ [Next]_vars => ClientType'
<1> SUFFICES ASSUME IInv, [Next]_vars PROVE ClientType'
  OBVIOUS
<1> USE ShellAssumption DEF ClientType
<1>q. ClientType
  BY DEF IInv, TypeOK
<1>1. ASSUME NEW m \in Messages, ClientSends(m) PROVE ClientType'
  <2>1. m.id = "stdin" => m.n \in Nat
    BY DEF Messages, Message
  <2> QED BY <1>q, <1>1, <2>1 DEF ClientSends
<1>2. CASE ClientReads
  BY <1>q, <1>2 DEF ClientReads, fds, proc, ghosts
<1>3. CASE ClientHangsUp
  BY <1>q, <1>3 DEF ClientHangsUp, fds, proc, ghosts
<1>4. CASE Start \/ StartFails \/ SelectReturns \/ SelectFails \/ WriteOutput \/
           WriteFails \/ ReadInput \/ EndOfInput \/ ShutdownInput \/ ShutdownFails \/
           Feed \/ FeedFails \/ WaitForExit \/ ProcessReads \/ ProcessExits \/
           (\E f \in Streams : ReadOutput(f) \/ EndOfOutput(f) \/ ProcessWrites(f) \/ ProcessCloses(f)) \/
           UNCHANGED vars
  <2>1. UNCHANGED <<hungUp, got, sent>>
    BY <1>4
       DEF Start, StartFails, SelectReturns, SelectFails, ReadOutput, EndOfOutput,
           WriteOutput, WriteFails, ReadInput, EndOfInput, ShutdownInput, ShutdownFails,
           Feed, FeedFails, WaitForExit, ProcessWrites, ProcessReads, ProcessCloses,
           ProcessExits, vars, fds, client, proc, ghosts
  <2> QED BY <1>q, <2>1
<1> QED
  BY <1>1, <1>2, <1>3, <1>4
     DEF Next, Thread, Outputs, Inputs, Client, Process

\* The subprocess: stdin never takes more than fits.
LEMMA ProcStep == IInv /\ [Next]_vars => ProcType'
<1> SUFFICES ASSUME IInv, [Next]_vars PROVE ProcType'
  OBVIOUS
<1> USE ShellAssumption DEF ProcType, Units, Streams
<1>q. ProcType /\ ThreadType
  BY DEF IInv, TypeOK
<1>1. CASE Start
  BY <1>q, <1>1 DEF Start, client, ghosts
<1>2. ASSUME NEW f \in Streams, ReadOutput(f) PROVE ProcType'
  <2>1. out[f] - Least(out[f], Capacity) \in Nat
    BY <1>q DEF Least
  <2> QED BY <1>q, <1>2, <2>1 DEF ReadOutput, proc
<1>3. CASE Feed
  <2>1. stdin + Least(left, Pipe - stdin) \in 0..Pipe
    BY <1>q DEF Least, ThreadType
  <2> QED BY <1>q, <1>3, <2>1 DEF Feed
<1>4. ASSUME NEW f \in Streams, ProcessWrites(f) PROVE ProcType'
  BY <1>q, <1>4 DEF ProcessWrites, fds, client, ghosts
<1>5. CASE ProcessReads
  BY <1>q, <1>5 DEF ProcessReads, fds, client, ghosts
<1>6. ASSUME NEW f \in Streams, ProcessCloses(f) PROVE ProcType'
  BY <1>q, <1>6 DEF ProcessCloses, fds, client, ghosts
<1>7. CASE ProcessExits
  BY <1>q, <1>7 DEF ProcessExits, fds, client, ghosts
<1>8. CASE StartFails \/ SelectReturns \/ SelectFails \/ WriteOutput \/ WriteFails \/
           ReadInput \/ EndOfInput \/ ShutdownInput \/ ShutdownFails \/ FeedFails \/
           WaitForExit \/ ClientReads \/ ClientHangsUp \/
           (\E f \in Streams : EndOfOutput(f)) \/
           (\E m \in Messages : ClientSends(m)) \/ UNCHANGED vars
  <2>1. UNCHANGED <<alive, ends, stdin, written, out>>
    BY <1>8
       DEF StartFails, SelectReturns, SelectFails, EndOfOutput, WriteOutput, WriteFails,
           ReadInput, EndOfInput, ShutdownInput, ShutdownFails, FeedFails, WaitForExit,
           ClientSends, ClientReads, ClientHangsUp, vars, fds, client, proc, ghosts
  <2> QED BY <1>q, <2>1
<1> QED
  BY <1>1, <1>2, <1>3, <1>4, <1>5, <1>6, <1>7, <1>8
     DEF Next, Thread, Outputs, Inputs, Client, Process

\* What the properties count.
LEMMA GhostStep == IInv /\ [Next]_vars => GhostType'
<1> SUFFICES ASSUME IInv, [Next]_vars PROVE GhostType'
  OBVIOUS
<1> USE ShellAssumption DEF GhostType, Units, Streams
<1>q. GhostType /\ ThreadType /\ ProcType /\ StepInv
  BY DEF IInv, TypeOK
<1>1. CASE StartFails
  BY <1>q, <1>1 DEF StartFails, fds, client, proc
<1>2. CASE SelectFails
  BY <1>q, <1>2 DEF SelectFails, client, proc
<1>3. ASSUME NEW f \in Streams, EndOfOutput(f) PROVE GhostType'
  BY <1>q, <1>3 DEF EndOfOutput, Dies, client, proc, ghosts
<1>4. CASE WriteOutput
  <2>1. hold.from \in Streams /\ hold.n \in Nat
    BY <1>q, <1>4 DEF WriteOutput, ThreadType, StepInv
  <2>2. passed' \in Units
    BY <1>q, <1>4, <2>1 DEF WriteOutput
  <2> QED BY <1>q, <1>4, <2>2 DEF WriteOutput
<1>5. CASE WriteFails
  BY <1>q, <1>5 DEF WriteFails, Dies, client, proc, ghosts
<1>6. CASE EndOfInput
  BY <1>q, <1>6 DEF EndOfInput, Dies, client, proc, ghosts
<1>7. CASE ShutdownInput
  BY <1>q, <1>7 DEF ShutdownInput, fds, client, proc, ghosts
<1>8. CASE ShutdownFails
  BY <1>q, <1>8 DEF ShutdownFails, Dies, client, proc
<1>9. CASE Feed
  <2>1. Least(left, Pipe - stdin) \in Nat
    BY <1>q DEF Least, ThreadType, ProcType
  <2> QED BY <1>q, <1>9, <2>1 DEF Feed, ghosts
<1>10. CASE FeedFails
  BY <1>q, <1>10 DEF FeedFails, Dies, client, proc
<1>11. CASE WaitForExit
  BY <1>q, <1>11 DEF WaitForExit, client, proc
<1>12. CASE Start \/ SelectReturns \/ ReadInput \/ ClientReads \/ ClientHangsUp \/
           ProcessReads \/ ProcessExits \/
           (\E f \in Streams : ReadOutput(f) \/ ProcessWrites(f) \/ ProcessCloses(f)) \/
           (\E m \in Messages : ClientSends(m)) \/ UNCHANGED vars
  <2>1. UNCHANGED <<shut, sighup, passed, given, cut, exitSent>>
    BY <1>12
       DEF Start, SelectReturns, ReadOutput, ReadInput, ClientSends, ClientReads,
           ClientHangsUp, ProcessWrites, ProcessReads, ProcessCloses, ProcessExits, vars,
           fds, client, proc, ghosts
  <2> QED BY <1>q, <2>1
<1> QED
  BY <1>1, <1>2, <1>3, <1>4, <1>5, <1>6, <1>7, <1>8, <1>9, <1>10, <1>11, <1>12
     DEF Next, Thread, Outputs, Inputs, Client, Process

\* Where the thread is and what it holds.
LEMMA StepStep == IInv /\ [Next]_vars => StepInv'
<1> SUFFICES ASSUME IInv, [Next]_vars PROVE StepInv'
  OBVIOUS
<1> USE DEF StepInv, Streams, Pcs, ThreadType
<1>q. StepInv /\ ThreadType
  BY DEF IInv, TypeOK
<1>1. CASE Start
  BY <1>q, <1>1 DEF Start, client, ghosts
<1>2. CASE StartFails
  BY <1>q, <1>2 DEF StartFails, fds, client, proc
<1>3. CASE SelectReturns
  <2>1. pc' \notin {"write", "start", "wait", "done"}
    BY <1>3 DEF SelectReturns, NextOf
  <2> QED BY <1>q, <1>3, <2>1 DEF SelectReturns, ghosts
<1>4. CASE SelectFails
  BY <1>q, <1>4 DEF SelectFails, client, proc
<1>5. ASSUME NEW f \in Streams, ReadOutput(f) PROVE StepInv'
  BY <1>q, <1>5 DEF ReadOutput, fds, client, proc, ghosts
<1>6. ASSUME NEW f \in Streams, EndOfOutput(f) PROVE StepInv'
  BY <1>q, <1>6 DEF EndOfOutput, Dies, Loops, client, proc, ghosts
<1>7. CASE WriteOutput
  <2>1. pc' \notin {"write", "start", "wait", "done"}
    BY <1>7 DEF WriteOutput, NextOf
  <2> QED BY <1>q, <1>7, <2>1 DEF WriteOutput, NoHold
<1>8. CASE WriteFails
  BY <1>q, <1>8 DEF WriteFails, Dies, Loops, NoHold, client, proc, ghosts
<1>9. CASE ReadInput
  <2>1. pc' \notin {"write", "start", "wait", "done"}
    BY <1>9 DEF ReadInput
  <2> QED BY <1>q, <1>9, <2>1 DEF ReadInput, ghosts
<1>10. CASE EndOfInput
  BY <1>q, <1>10 DEF EndOfInput, Dies, Loops, client, proc, ghosts
<1>11. CASE ShutdownInput
  BY <1>q, <1>11 DEF ShutdownInput, fds, client, proc, ghosts
<1>12. CASE ShutdownFails
  BY <1>q, <1>12 DEF ShutdownFails, Dies, Loops, client, proc
<1>13. CASE Feed
  BY <1>q, <1>13 DEF Feed, client, ghosts
<1>14. CASE FeedFails
  BY <1>q, <1>14 DEF FeedFails, Dies, Loops, client, proc
<1>15. CASE WaitForExit
  BY <1>q, <1>15 DEF WaitForExit, client, proc
<1>16. ASSUME NEW f \in Streams, ProcessWrites(f) PROVE StepInv'
  BY <1>q, <1>16 DEF ProcessWrites, fds, client, ghosts
<1>17. ASSUME NEW f \in Streams, ProcessCloses(f) PROVE StepInv'
  BY <1>q, <1>17 DEF ProcessCloses, fds, client, ghosts
<1>18. CASE ClientReads \/ ClientHangsUp \/ ProcessReads \/ ProcessExits \/
           (\E m \in Messages : ClientSends(m)) \/ UNCHANGED vars
  <2>1. UNCHANGED <<pc, hold, passed, written, ends, out, open, exitSent>>
    BY <1>18
       DEF ClientSends, ClientReads, ClientHangsUp, ProcessReads, ProcessExits, vars, fds,
           client, proc, ghosts
  <2> QED BY <1>q, <2>1
<1> QED
  BY <1>1, <1>2, <1>3, <1>4, <1>5, <1>6, <1>7, <1>8, <1>9, <1>10, <1>11, <1>12, <1>13,
     <1>14, <1>15, <1>16, <1>17, <1>18
     DEF Next, Thread, Outputs, Inputs, Client, Process

\* No unit of output is lost while the protocol is open.
LEMMA ConservedStep == IInv /\ [Next]_vars => OutputConserved'
<1> SUFFICES ASSUME IInv, [Next]_vars PROVE OutputConserved'
  OBVIOUS
<1> USE DEF OutputConserved, Held, Streams, ProcType, GhostType, ThreadType, Units
<1>q. OutputConserved /\ StepInv /\ ThreadType /\ ProcType /\ GhostType
  BY DEF IInv, TypeOK
<1>1. CASE Start
  BY <1>q, <1>1 DEF Start, StepInv, client, ghosts
<1>2. CASE SelectFails
  BY <1>q, <1>2 DEF SelectFails, client, proc
<1>3. ASSUME NEW f \in Streams, ReadOutput(f) PROVE OutputConserved'
  <2>1. Least(out[f], Capacity) \in Nat /\ Least(out[f], Capacity) <= out[f]
    BY <1>q, ShellAssumption DEF Least
  <2> QED BY <1>q, <1>3, <2>1 DEF ReadOutput, StepInv, fds, proc, ghosts
<1>4. ASSUME NEW f \in Streams, EndOfOutput(f) PROVE OutputConserved'
  BY <1>q, <1>4 DEF EndOfOutput, Dies, client, proc, ghosts
<1>5. CASE WriteOutput
  <2>1. hold.from \in Streams /\ hold.n \in Nat
    BY <1>q, <1>5 DEF WriteOutput, StepInv
  <2>2. passed' = [passed EXCEPT ![hold.from] = passed[hold.from] + hold.n] /\ hold' = NoHold
    BY <1>5 DEF WriteOutput
  <2>3. UNCHANGED <<open, written, out>>
    BY <1>5 DEF WriteOutput, fds, proc
  <2> QED BY <1>q, <2>1, <2>2, <2>3 DEF NoHold
<1>6. CASE WriteFails
  BY <1>q, <1>6 DEF WriteFails, Dies, client, proc, ghosts
<1>7. CASE EndOfInput
  BY <1>q, <1>7 DEF EndOfInput, Dies, client, proc, ghosts
<1>8. CASE ShutdownFails
  BY <1>q, <1>8 DEF ShutdownFails, Dies, client, proc
<1>9. CASE FeedFails
  BY <1>q, <1>9 DEF FeedFails, Dies, client, proc
<1>10. CASE WaitForExit
  BY <1>q, <1>10 DEF WaitForExit, client, proc
<1>11. ASSUME NEW f \in Streams, ProcessWrites(f) PROVE OutputConserved'
  BY <1>q, <1>11 DEF ProcessWrites, fds, client, ghosts
<1>12. CASE StartFails \/ SelectReturns \/ ReadInput \/ ShutdownInput \/ Feed \/
           ClientReads \/ ClientHangsUp \/ ProcessReads \/ ProcessExits \/
           (\E f \in Streams : ProcessCloses(f)) \/
           (\E m \in Messages : ClientSends(m)) \/ UNCHANGED vars
  <2>1. UNCHANGED <<open, written, passed, out, hold>>
    BY <1>12
       DEF StartFails, SelectReturns, ReadInput, ShutdownInput, Feed, ClientSends,
           ClientReads, ClientHangsUp, ProcessReads, ProcessCloses, ProcessExits, vars, fds,
           client, proc, ghosts
  <2> QED BY <1>q, <2>1
<1> QED
  BY <1>1, <1>2, <1>3, <1>4, <1>5, <1>6, <1>7, <1>8, <1>9, <1>10, <1>11, <1>12
     DEF Next, Thread, Outputs, Inputs, Client, Process

\* A stream is closed at its end.
LEMMA ClosedStep == IInv /\ [Next]_vars => ClosedAtEnd'
<1> SUFFICES ASSUME IInv, [Next]_vars PROVE ClosedAtEnd'
  OBVIOUS
<1> USE DEF ClosedAtEnd, Streams, ProcType, ThreadType, Units
<1>q. ClosedAtEnd /\ StillReadable /\ StepInv /\ ThreadType /\ ProcType
  BY DEF IInv, TypeOK
<1>1. CASE Start
  BY <1>q, <1>1 DEF Start, StepInv, client, ghosts
<1>2. CASE SelectFails
  BY <1>q, <1>2 DEF SelectFails, client, proc
<1>3. ASSUME NEW f \in Streams, ReadOutput(f) PROVE ClosedAtEnd'
  <2>1. out[f] > 0 => out' = [out EXCEPT ![f] = out[f] - Least(out[f], Capacity)]
    BY <1>3 DEF ReadOutput
  <2>2. out[f] - Least(out[f], Capacity) <= out[f] /\ out[f] - Least(out[f], Capacity) \in Nat
    BY <1>q, ShellAssumption DEF Least
  <2> QED BY <1>q, <1>3, <2>1, <2>2 DEF ReadOutput, fds, proc, ghosts
<1>4. ASSUME NEW f \in Streams, EndOfOutput(f) PROVE ClosedAtEnd'
  BY <1>q, <1>4 DEF EndOfOutput, Dies, StillReadable, Available, client, proc, ghosts
<1>5. CASE WriteFails
  BY <1>q, <1>5 DEF WriteFails, Dies, client, proc, ghosts
<1>6. CASE EndOfInput
  BY <1>q, <1>6 DEF EndOfInput, Dies, client, proc, ghosts
<1>7. CASE ShutdownFails
  BY <1>q, <1>7 DEF ShutdownFails, Dies, client, proc
<1>8. CASE FeedFails
  BY <1>q, <1>8 DEF FeedFails, Dies, client, proc
<1>9. CASE WaitForExit
  BY <1>q, <1>9 DEF WaitForExit, client, proc
<1>10. ASSUME NEW f \in Streams, ProcessWrites(f) PROVE ClosedAtEnd'
  BY <1>q, <1>10 DEF ProcessWrites, fds, client, ghosts
<1>11. ASSUME NEW f \in Streams, ProcessCloses(f) PROVE ClosedAtEnd'
  BY <1>q, <1>11 DEF ProcessCloses, fds, client, ghosts
<1>12. CASE StartFails \/ SelectReturns \/ WriteOutput \/ ReadInput \/ ShutdownInput \/
           Feed \/ ClientReads \/ ClientHangsUp \/ ProcessReads \/ ProcessExits \/
           (\E m \in Messages : ClientSends(m)) \/ UNCHANGED vars
  <2>1. UNCHANGED <<open, ends, out, cut>>
    BY <1>12
       DEF StartFails, SelectReturns, WriteOutput, ReadInput, ShutdownInput, Feed,
           ClientSends, ClientReads, ClientHangsUp, ProcessReads, ProcessExits, vars, fds,
           client, proc, ghosts
  <2> QED BY <1>q, <2>1
<1> QED
  BY <1>1, <1>2, <1>3, <1>4, <1>5, <1>6, <1>7, <1>8, <1>9, <1>10, <1>11, <1>12
     DEF Next, Thread, Outputs, Inputs, Client, Process

\* What is readable stays so: only the thread reads.
LEMMA ReadableStep == IInv /\ [Next]_vars => StillReadable'
<1> SUFFICES ASSUME IInv, [Next]_vars PROVE StillReadable'
  OBVIOUS
<1> USE DEF StillReadable, Available, Streams, ProcType, ThreadType, Units
<1>q. StillReadable /\ StepInv /\ ThreadType /\ ProcType
  BY DEF IInv, TypeOK
<1>1. CASE Start
  BY <1>q, <1>1 DEF Start, client, ghosts
<1>2. CASE StartFails
  BY <1>q, <1>2 DEF StartFails, fds, client, proc
<1>3. CASE SelectReturns
  <2>1. \A g \in {"stdinout", "stderr"} : g \in ready'.read => out[g] > 0 \/ g \notin ends
    BY <1>3 DEF SelectReturns, Readable
  <2>2. pc' \in {"stdinout", "stderr"} => pc' \in ready'.read
    BY <1>3 DEF SelectReturns, NextOf
  <2>3. pc' # "write"
    BY <1>3 DEF SelectReturns, NextOf
  <2> QED BY <1>q, <1>3, <2>1, <2>2, <2>3 DEF SelectReturns, proc
<1>4. CASE SelectFails
  BY <1>q, <1>4 DEF SelectFails, client, proc
<1>5. ASSUME NEW f \in Streams, ReadOutput(f) PROVE StillReadable'
  BY <1>q, <1>5 DEF ReadOutput, fds, client, proc, ghosts
<1>6. ASSUME NEW f \in Streams, EndOfOutput(f) PROVE StillReadable'
  BY <1>q, <1>6 DEF EndOfOutput, Dies, client, proc, ghosts
<1>7. CASE WriteOutput
  <2>1. /\ pc' \notin {"write", "stdinout"}
        /\ (pc' = "stderr" => hold.from = "stdinout" /\ "stderr" \in ready.read)
    BY <1>q, <1>7 DEF WriteOutput, NextOf, StepInv
  <2> QED BY <1>q, <1>7, <2>1 DEF WriteOutput, proc
<1>8. CASE WriteFails
  BY <1>q, <1>8 DEF WriteFails, Dies, client, proc, ghosts
<1>9. CASE ReadInput
  <2>1. pc' \notin {"write", "stdinout", "stderr"}
    BY <1>9 DEF ReadInput
  <2> QED BY <2>1
<1>10. CASE EndOfInput
  BY <1>q, <1>10 DEF EndOfInput, Dies, client, proc, ghosts
<1>11. CASE ShutdownInput
  BY <1>q, <1>11 DEF ShutdownInput, fds, client, proc, ghosts
<1>12. CASE ShutdownFails
  BY <1>q, <1>12 DEF ShutdownFails, Dies, client, proc
<1>13. CASE Feed
  BY <1>q, <1>13 DEF Feed, client, ghosts
<1>14. CASE FeedFails
  BY <1>q, <1>14 DEF FeedFails, Dies, client, proc
<1>15. CASE WaitForExit
  BY <1>q, <1>15 DEF WaitForExit, client, proc
<1>16. ASSUME NEW f \in Streams, ProcessWrites(f) PROVE StillReadable'
  BY <1>q, <1>16 DEF ProcessWrites, fds, client, ghosts
<1>17. ASSUME NEW f \in Streams, ProcessCloses(f) PROVE StillReadable'
  BY <1>q, <1>17 DEF ProcessCloses, fds, client, ghosts
<1>18. CASE ClientReads \/ ClientHangsUp \/ ProcessReads \/ ProcessExits \/
           (\E m \in Messages : ClientSends(m)) \/ UNCHANGED vars
  <2>1. UNCHANGED <<pc, hold, ready, ends, out>>
    BY <1>18
       DEF ClientSends, ClientReads, ClientHangsUp, ProcessReads, ProcessExits, vars, fds,
           client, proc, ghosts
  <2> QED BY <1>q, <2>1
<1> QED
  BY <1>1, <1>2, <1>3, <1>4, <1>5, <1>6, <1>7, <1>8, <1>9, <1>10, <1>11, <1>12, <1>13,
     <1>14, <1>15, <1>16, <1>17, <1>18
     DEF Next, Thread, Outputs, Inputs, Client, Process

\* The exit packet is written when all the output has been passed on.
LEMMA ExitStep == IInv /\ [Next]_vars => OutputBeforeExit'
<1> SUFFICES ASSUME IInv, [Next]_vars PROVE OutputBeforeExit'
  OBVIOUS
<1> USE DEF OutputBeforeExit, Streams, ProcType, GhostType, ThreadType, Units
<1>q. /\ OutputBeforeExit /\ OutputConserved /\ ClosedAtEnd /\ StepInv
      /\ ThreadType /\ ProcType /\ GhostType
  BY DEF IInv, TypeOK
<1>1. CASE Start
  BY <1>q, <1>1 DEF Start, StepInv, client, ghosts
<1>2. CASE StartFails
  BY <1>q, <1>2 DEF StartFails, StepInv, fds, client, proc
<1>3. CASE SelectFails
  BY <1>q, <1>3 DEF SelectFails, client, proc
<1>4. CASE WriteOutput
  BY <1>q, <1>4 DEF WriteOutput, StepInv, fds, client, proc
<1>5. CASE ShutdownFails
  BY <1>q, <1>5 DEF ShutdownFails, client, proc
<1>6. CASE FeedFails
  BY <1>q, <1>6 DEF FeedFails, client, proc
<1>7. CASE WaitForExit
  <2>1. CASE "protocol" \in open /\ ~hungUp /\ cut = "no"
    <3>1. \A f \in Streams : f \notin ends /\ out[f] = 0
      BY <1>q, <1>7, <2>1 DEF WaitForExit, ClosedAtEnd, StepInv
    <3>2. \A f \in Streams : written[f] = passed[f]
      BY <1>q, <1>7, <2>1, <3>1 DEF WaitForExit, OutputConserved, Held, StepInv
    <3>3. ends = {} /\ passed = written
      BY <1>q, <3>1, <3>2
    <3> QED BY <1>7, <3>3 DEF WaitForExit, proc
  <2>2. CASE "protocol" \in open /\ ~hungUp /\ cut # "no"
    BY <1>7, <2>2 DEF WaitForExit
  <2>3. CASE ~("protocol" \in open /\ ~hungUp)
    BY <1>q, <1>7, <2>3 DEF WaitForExit, proc
  <2> QED BY <2>1, <2>2, <2>3
<1>8. ASSUME NEW f \in Streams, ProcessWrites(f) PROVE OutputBeforeExit'
  BY <1>q, <1>8 DEF ProcessWrites, fds, client, ghosts
<1>9. ASSUME NEW f \in Streams, ProcessCloses(f) PROVE OutputBeforeExit'
  BY <1>q, <1>9 DEF ProcessCloses, fds, client, ghosts
<1>10. CASE SelectReturns \/ WriteFails \/ ReadInput \/ EndOfInput \/ ShutdownInput \/
           Feed \/ ClientReads \/ ClientHangsUp \/ ProcessReads \/ ProcessExits \/
           (\E f \in Streams : ReadOutput(f) \/ EndOfOutput(f)) \/
           (\E m \in Messages : ClientSends(m)) \/ UNCHANGED vars
  <2>1. UNCHANGED <<exitSent, cut, passed, written, ends>>
    BY <1>10
       DEF SelectReturns, ReadOutput, EndOfOutput, WriteFails, ReadInput, EndOfInput,
           ShutdownInput, Feed, ClientSends, ClientReads, ClientHangsUp, ProcessReads,
           ProcessExits, vars, fds, client, proc, ghosts
  <2> QED BY <1>q, <2>1
<1> QED
  BY <1>1, <1>2, <1>3, <1>4, <1>5, <1>6, <1>7, <1>8, <1>9, <1>10
     DEF Next, Thread, Outputs, Inputs, Client, Process

-----------------------------------------------------------------------------
(* Input *)

\* A set of naturals has a least element: the intervals 1..x are finite sets, and
\* strict inclusion of those is well-founded.
LEMMA LeastNat == ASSUME NEW T \in SUBSET Nat, T # {} PROVE \E x \in T : \A y \in T : x <= y
<1> DEFINE U == {1..x : x \in T}
<1>1. U \subseteq FiniteSubsetsOf(Nat) /\ U # {}
  <2>1. \A x \in T : 1..x \in SUBSET Nat /\ IsFiniteSet(1..x)
    BY FS_Interval
  <2> QED BY <2>1 DEF FiniteSubsetsOf
<1>2. PICK m \in U : \A u \in U : ~(<<u, m>> \in StrictSubsetOrdering(Nat))
  <2> HIDE DEF U
  <2>1. IsWellFoundedOn(StrictSubsetOrdering(Nat), FiniteSubsetsOf(Nat))
    BY FS_StrictSubsetOrderingWellFounded
  <2> QED BY <1>1, <2>1, WFMin
<1>3. PICK x \in T : m = 1..x
  OBVIOUS
<1>4. ASSUME NEW y \in T, y < x PROVE FALSE
  <2>1. 1..y \in U /\ 1..y \subseteq 1..x /\ 1..y \in SUBSET Nat /\ 1..x \in SUBSET Nat
    BY <1>4
  <2>2. x \in 1..x /\ x \notin 1..y
    BY <1>4
  <2>3. <<1..y, 1..x>> \in StrictSubsetOrdering(Nat)
    BY <2>1, <2>2 DEF StrictSubsetOrdering
  <2> HIDE DEF U
  <2> QED BY <1>2, <1>3, <2>1, <2>3
<1> QED BY <1>4

\* Induction over the naturals, for a set in place of a predicate.
LEMMA Induction == ASSUME NEW T, 0 \in T, \A n \in Nat : n \in T => n + 1 \in T PROVE Nat \subseteq T
<1> SUFFICES ASSUME Nat \ T # {} PROVE FALSE
  OBVIOUS
<1>1. PICK x \in Nat \ T : \A y \in Nat \ T : x <= y
  BY LeastNat
<1>2. x # 0 /\ x - 1 \in Nat
  BY <1>1
<1>3. x - 1 \in T
  BY <1>1, <1>2
<1> QED BY <1>1, <1>2, <1>3

\* f[i] is the data of the first i packets of q, for every i up to n.
Counts(f, q, n) ==
    /\ f \in [0..n -> Nat] /\ f[0] = 0
    /\ \A i \in 1..n : f[i] = f[i - 1] + DataOf(q[i])

\* There is such a count for every queue.
LEMMA CountsExist ==
    ASSUME NEW q \in Seq(Packet)
    PROVE  \E f : Counts(f, q, Len(q))
<1> DEFINE T == {n \in Nat : n <= Len(q) => \E f : Counts(f, q, n)}
<1>1. 0 \in T
  <2>1. Counts([i \in 0..0 |-> 0], q, 0)
    BY DEF Counts
  <2> QED BY <2>1
<1>2. ASSUME NEW n \in Nat, n \in T PROVE n + 1 \in T
  <2> SUFFICES ASSUME n + 1 <= Len(q) PROVE \E f : Counts(f, q, n + 1)
    OBVIOUS
  <2>1. PICK f : Counts(f, q, n)
    BY <1>2
  <2>2. q[n + 1] \in Packet
    BY ElementOfSeq
  <2>3. DataOf(q[n + 1]) \in Nat
    BY <2>2 DEF DataOf, Packet
  <2> DEFINE g == [i \in 0..n + 1 |-> IF i = n + 1 THEN f[n] + DataOf(q[n + 1]) ELSE f[i]]
  <2>4. g \in [0..n + 1 -> Nat] /\ g[0] = 0
    BY <2>1, <2>3 DEF Counts
  <2>5. ASSUME NEW i \in 1..n + 1 PROVE g[i] = g[i - 1] + DataOf(q[i])
    BY <2>1 DEF Counts
  <2>6. Counts(g, q, n + 1)
    BY <2>4, <2>5 DEF Counts
  <2> QED BY <2>6
<1> HIDE DEF T
<1>3. Len(q) \in T
  BY <1>1, <1>2, Induction
<1> QED BY <1>3 DEF T

\* What Data computes is the last of these counts, which are all the same.
LEMMA DataCounts ==
    ASSUME NEW q \in Seq(Packet), NEW f, Counts(f, q, Len(q))
    PROVE  Data(q) = f[Len(q)] /\ Data(q) \in Nat
<1> DEFINE n == Len(q)
           Def(h) == h = [i \in 0..n |-> IF i = 0 THEN 0 ELSE h[i - 1] + DataOf(q[i])]
           u == CHOOSE h : Def(h)
           T == {i \in Nat : i <= n => u[i] = f[i]}
<1>1. Def(f)
  BY DEF Counts
<1>2. Def(u)
  BY <1>1
<1> HIDE DEF u
<1>3. u[0] = 0 /\ \A i \in 0..n : i # 0 => u[i] = u[i - 1] + DataOf(q[i])
  BY <1>2
<1>4. 0 \in T
  BY <1>3 DEF Counts
<1>5. ASSUME NEW i \in Nat, i \in T PROVE i + 1 \in T
  BY <1>3, <1>5 DEF Counts
<1> HIDE DEF T
<1>6. n \in T
  BY <1>4, <1>5, Induction
<1>7. u[n] = f[n]
  BY <1>6 DEF T
<1>8. Data(q) = u[n]
  BY DEF Data, u
<1> QED BY <1>7, <1>8 DEF Counts

\* The laws of Data that the steps of the socket need.
LEMMA DataEmpty == Data(<<>>) = 0
<1> DEFINE e == <<>>
<1>1. e \in Seq(Packet) /\ Len(e) = 0
  OBVIOUS
<1> HIDE DEF e
<1>2. PICK f : Counts(f, e, Len(e))
  BY <1>1, CountsExist
<1>3. Data(e) = f[0] /\ f[0] = 0
  BY <1>1, <1>2, DataCounts DEF Counts
<1> QED BY <1>3 DEF e

\* The data of a queue is a number.
LEMMA DataNat ==
    ASSUME NEW q \in Seq(Packet)
    PROVE  Data(q) \in Nat
BY CountsExist, DataCounts

\* The client sends a packet.
LEMMA DataAppend ==
    ASSUME NEW q \in Seq(Packet), NEW m \in Packet
    PROVE  Data(Append(q, m)) = Data(q) + DataOf(m)
<1> DEFINE a == Append(q, m)
           n == Len(q)
<1>1. a \in Seq(Packet) /\ Len(a) = n + 1 /\ a[n + 1] = m /\ \A i \in 1..n : a[i] = q[i]
  OBVIOUS
<1>2. PICK f : Counts(f, a, Len(a))
  BY <1>1, CountsExist
<1> HIDE DEF a
<1> DEFINE g == [i \in 0..n |-> f[i]]
<1>3. Counts(g, q, n)
  BY <1>1, <1>2 DEF Counts
<1>4. f[n + 1] = f[n] + DataOf(m)
  BY <1>1, <1>2 DEF Counts
<1>5. Data(a) = f[n + 1]
  BY <1>1, <1>2, DataCounts
<1>6. Data(q) = g[n]
  <2> HIDE DEF g
  <2> QED BY <1>3, DataCounts
<1>7. g[n] = f[n]
  OBVIOUS
<1> QED BY <1>4, <1>5, <1>6, <1>7 DEF a

\* The thread reads a packet.
LEMMA DataTail ==
    ASSUME NEW q \in Seq(Packet), q # <<>>
    PROVE  Data(q) = DataOf(Head(q)) + Data(Tail(q))
<1> DEFINE r == Tail(q)
           n == Len(r)
<1>1. /\ r \in Seq(Packet) /\ n \in Nat /\ Len(q) = n + 1 /\ Head(q) = q[1] /\ Head(q) \in Packet
      /\ \A i \in 1..n : r[i] = q[i + 1]
  OBVIOUS
<1> HIDE DEF r
<1>2. DataOf(Head(q)) \in Nat
  BY <1>1 DEF DataOf, Packet
<1>3. PICK f : Counts(f, r, n)
  BY <1>1, CountsExist
<1> DEFINE d == DataOf(Head(q))
           g == [i \in 0..n + 1 |-> IF i = 0 THEN 0 ELSE d + f[i - 1]]
<1>4. Counts(g, q, n + 1)
  <2>1. g \in [0..n + 1 -> Nat] /\ g[0] = 0
    <3>1. \A i \in 0..n + 1 : i # 0 => i - 1 \in 0..n
      BY <1>1
    <3> QED BY <1>2, <1>3, <3>1 DEF Counts
  <2>2. ASSUME NEW i \in 1..n + 1 PROVE g[i] = g[i - 1] + DataOf(q[i])
    <3>1. CASE i = 1
      <4>1. g[1] = d + f[0] /\ g[0] = 0 /\ f[0] = 0 /\ DataOf(q[1]) = d
        BY <1>1, <1>3 DEF Counts
      <4> QED BY <1>2, <3>1, <4>1
    <3>2. CASE i # 1
      <4>1. i - 1 \in 1..n /\ i - 2 \in 0..n /\ i \in 0..n + 1 /\ i - 1 \in 0..n + 1
        BY <1>1, <3>2
      <4>2. g[i] = d + f[i - 1] /\ g[i - 1] = d + f[i - 2]
        BY <1>1, <3>2, <4>1
      <4>3. q[i] = r[i - 1]
        BY <1>1, <4>1
      <4>4. f[i - 1] = f[i - 2] + DataOf(r[i - 1]) /\ f[i - 2] \in Nat /\ DataOf(r[i - 1]) \in Nat
        <5>1. f[i - 1] = f[i - 1 - 1] + DataOf(r[i - 1]) /\ i - 1 - 1 = i - 2
          BY <1>3, <4>1 DEF Counts
        <5>2. r[i - 1] \in Packet
          BY <1>1, <4>1, ElementOfSeq
        <5>3. DataOf(r[i - 1]) \in Nat
          BY <5>2 DEF DataOf, Packet
        <5> QED BY <1>3, <4>1, <5>1, <5>3 DEF Counts
      <4> HIDE DEF g, d
      <4> QED BY <1>2, <4>2, <4>3, <4>4 DEF d
    <3> QED BY <3>1, <3>2
  <2> HIDE DEF g
  <2> QED BY <2>1, <2>2 DEF Counts
<1>5. g[n + 1] = d + f[n]
  BY <1>1
<1> HIDE DEF g
<1>6. Data(q) = g[n + 1] /\ Data(r) = f[n]
  BY <1>1, <1>3, <1>4, DataCounts
<1> QED BY <1>5, <1>6 DEF r

\* No unit of input is lost or doubled: ReadInput has nothing left of the packet before.
LEMMA InputStep == IInv /\ InputConserved /\ LeftInv /\ [Next]_vars => InputConserved'
<1> SUFFICES ASSUME IInv, InputConserved, LeftInv, [Next]_vars,
                    "stdinout" \in open', "protocol" \in open'
             PROVE  sent'.data = given' + left' + DataOf(input') + Data(toSvc')
  BY DEF InputConserved
<1>q. /\ ThreadType /\ SocketType /\ ClientType /\ GhostType /\ ProcType /\ StepInv
  BY DEF IInv, TypeOK
<1>s. /\ given \in Nat /\ left \in Nat /\ input \in Packet /\ DataOf(input) \in Nat
      /\ toSvc \in Seq(Packet) /\ sent.data \in Nat /\ stdin \in 0..Pipe
      /\ Data(toSvc) \in Nat
  BY <1>q, ShellAssumption, DataNat
     DEF ThreadType, SocketType, ClientType, GhostType, ProcType, Packet, DataOf
<1>k. ASSUME open' = open PROVE sent.data = given + left + DataOf(input) + Data(toSvc)
  BY <1>k DEF InputConserved
<1>1. CASE Start
  <2>1. toSvc' = <<>> /\ sent'.data = 0 /\ given' = 0 /\ left' = 0 /\ input' = input /\ input.n = 0
    BY <1>1 DEF Start, LeftInv, client
  <2>2. DataOf(input') = 0
    BY <2>1 DEF DataOf
  <2> QED BY <2>1, <2>2, DataEmpty
<1>2. ASSUME NEW m \in Messages, ClientSends(m)
      PROVE  sent'.data = given' + left' + DataOf(input') + Data(toSvc')
  <2>1. m \in Packet /\ DataOf(m) \in Nat
    BY ShellAssumption DEF Messages, Message, Packet, DataOf
  <2>2. toSvc' = Append(toSvc, m) /\ UNCHANGED <<open, given, left, input>>
    BY <1>2 DEF ClientSends, fds
  <2>3. sent'.data = sent.data + DataOf(m)
    BY <1>2 DEF ClientSends, DataOf
  <2>4. Data(toSvc') = Data(toSvc) + DataOf(m)
    BY <1>s, <2>1, <2>2, DataAppend
  <2>5. sent.data = given + left + DataOf(input) + Data(toSvc)
    BY <1>k, <2>2
  <2> QED BY <1>s, <2>1, <2>2, <2>3, <2>4, <2>5
<1>3. CASE ReadInput
  <2> DEFINE m == IF input.n > 0 THEN input ELSE Head(toSvc)
  <2>1. /\ input' = [m EXCEPT !.n = @ - Part(m)]
        /\ toSvc' = IF input.n > 0 THEN toSvc ELSE Tail(toSvc)
        /\ m.id = "stdin" => left' = Part(m)
        /\ m.id # "stdin" => left' = left
        /\ pc = "input" /\ (input.n > 0 \/ toSvc # <<>>)
        /\ UNCHANGED <<open, given, sent>>
    BY <1>3 DEF ReadInput, fds, client
  <2>2. left = 0
    BY <1>s, <2>1 DEF LeftInv
  <2>3. m \in Packet /\ m.n \in Nat /\ Part(m) \in Nat /\ Part(m) <= m.n /\ DataOf(m) \in Nat
    <3>1. m \in Packet
      BY <1>s, <2>1
    <3> HIDE DEF m
    <3> QED BY <3>1, ShellAssumption DEF Packet, Part, Least, DataOf
  <2>4. DataOf(input) + Data(toSvc) = DataOf(m) + Data(toSvc')
    <3>1. CASE input.n > 0
      BY <2>1, <3>1
    <3>2. CASE ~(input.n > 0)
      <4>1. m = Head(toSvc) /\ toSvc' = Tail(toSvc) /\ toSvc # <<>>
        BY <2>1, <3>2
      <4>2. Data(toSvc) = DataOf(m) + Data(toSvc')
        <5> HIDE DEF m
        <5> QED BY <1>s, <4>1, DataTail
      <4>3. DataOf(input) = 0
        BY <1>s, <3>2 DEF DataOf, Packet
      <4> QED BY <1>s, <4>2, <4>3
    <3> QED BY <3>1, <3>2
  <2>5. sent.data = given + left + DataOf(input) + Data(toSvc)
    BY <1>k, <2>1
  <2>6. DataOf(m) = left' + DataOf(input')
    <3> HIDE DEF m
    <3>1. input' = [m EXCEPT !.n = m.n - Part(m)]
      BY <2>1
    <3>2. input'.id = m.id /\ input'.n = m.n - Part(m)
      BY <2>3, <3>1 DEF Packet
    <3>3. CASE m.id = "stdin"
      BY <2>1, <2>3, <3>2, <3>3 DEF DataOf
    <3>4. CASE m.id # "stdin"
      BY <2>1, <2>2, <3>2, <3>4 DEF DataOf
    <3> QED BY <3>3, <3>4
  <2>7. PICK a, b, c, d : /\ a \in Nat /\ a = DataOf(m) /\ b = left'
                          /\ c = DataOf(input') /\ d = Data(toSvc')
    BY <2>3
  <2>8. b \in Nat /\ c \in Nat /\ d \in Nat
    <3>1. b \in Nat
      BY <2>1, <2>2, <2>3, <2>7
    <3>2. toSvc' \in Seq(Packet)
      BY <1>s, <2>1
    <3>3. d \in Nat
      BY <2>7, <3>2, DataNat
    <3>4. c \in Nat
      <4> HIDE DEF m
      <4>1. input'.n = m.n - Part(m)
        BY <2>1, <2>3 DEF Packet
      <4> QED BY <2>3, <2>7, <4>1 DEF DataOf
    <3> QED BY <3>1, <3>3, <3>4
  <2>9. a = b + c /\ DataOf(input) + Data(toSvc) = a + d /\ sent' = sent /\ given' = given
    BY <2>1, <2>4, <2>6, <2>7
  <2>10. sent.data = given + b + c + d
    BY <1>s, <2>2, <2>5, <2>8, <2>9
  <2> HIDE DEF m
  <2> QED BY <2>7, <2>9, <2>10
<1>4. CASE Feed
  <2> DEFINE n == Least(left, Pipe - stdin)
  <2>1. given' = given + n /\ left' = left - n /\ UNCHANGED <<open, input, toSvc, sent>>
    BY <1>4 DEF Feed, client
  <2>2. n \in Nat /\ n <= left
    BY <1>s, ShellAssumption DEF Least
  <2>3. sent.data = given + left + DataOf(input) + Data(toSvc)
    BY <1>k, <2>1
  <2> HIDE DEF n
  <2>4. sent.data = (given + n) + (left - n) + DataOf(input) + Data(toSvc)
    BY <1>s, <2>2, <2>3
  <2> QED BY <2>1, <2>4
<1>5. CASE UNCHANGED <<sent, given, left, input, toSvc>> /\ open' \subseteq open
  <2>1. "stdinout" \in open /\ "protocol" \in open
    BY <1>5
  <2>2. sent.data = given + left + DataOf(input) + Data(toSvc)
    BY <2>1 DEF InputConserved
  <2> QED BY <1>5, <2>2
<1>6. CASE StartFails \/ SelectReturns \/ SelectFails \/ WriteOutput \/ WriteFails \/ EndOfInput \/
           ShutdownInput \/ ShutdownFails \/ WaitForExit \/ ClientReads \/ ClientHangsUp \/
           ProcessReads \/ ProcessExits \/ UNCHANGED vars
  BY <1>5, <1>6 DEF StartFails, SelectReturns, SelectFails, WriteOutput, WriteFails, EndOfInput,
       ShutdownInput, ShutdownFails, WaitForExit, ClientReads, ClientHangsUp, ProcessReads,
       ProcessExits, Dies, vars, fds, client, proc, ghosts
<1>7. CASE FeedFails
  BY <1>7 DEF FeedFails, Dies
<1>8. CASE \E f \in Streams : ReadOutput(f) \/ EndOfOutput(f) \/ ProcessWrites(f) \/ ProcessCloses(f)
  BY <1>5, <1>8 DEF ReadOutput, EndOfOutput, ProcessWrites, ProcessCloses, Dies, fds, client, proc, ghosts
<1> QED
  BY <1>1, <1>2, <1>3, <1>4, <1>6, <1>7, <1>8
     DEF Next, Thread, Outputs, Inputs, Client, Process

\* While something is left the thread does not wait for the protocol.
LEMMA LeftStep == IInv /\ LeftInv /\ [Next]_vars => LeftInv'
<1> SUFFICES ASSUME IInv, LeftInv, [Next]_vars PROVE LeftInv'
  OBVIOUS
<1>q. ThreadType /\ StepInv /\ SocketType
  BY DEF IInv, TypeOK
<1> USE DEF LeftInv
<1>1. CASE Start \/ StartFails
  BY <1>1 DEF Start, StartFails, fds, client
<1>2. CASE SelectReturns
  <2>1. pc = "select" /\ pc' # "start" /\ UNCHANGED <<left, rset>> /\ ready'.read \subseteq rset
    BY <1>2 DEF SelectReturns, NextOf, fds
  <2>2. pc' = "input" => "protocol" \in ready'.read
    BY <1>2 DEF SelectReturns, NextOf
  <2> QED BY <2>1, <2>2
<1>3. CASE SelectFails
  BY <1>3 DEF SelectFails
<1>4. ASSUME NEW f \in Streams, ReadOutput(f) PROVE LeftInv'
  <2>1. pc \notin {"start", "feed"}
    BY <1>4 DEF ReadOutput, Streams
  <2> QED BY <1>4, <2>1 DEF ReadOutput, fds
<1>5. ASSUME NEW f \in Streams, EndOfOutput(f) PROVE LeftInv'
  <2>1. pc \notin {"start", "feed"} /\ pc' \notin {"start", "input"}
    BY <1>5 DEF EndOfOutput, Dies, Streams
  <2> QED BY <1>5, <2>1 DEF EndOfOutput, Dies, NotReady
<1>6. CASE WriteOutput
  <2>1. /\ pc = "write" /\ pc' # "start" /\ UNCHANGED <<left, rset>>
        /\ ready' = ready \/ ready' = NotReady
    BY <1>6 DEF WriteOutput, NextOf, fds
  <2>2. pc' = "input" => "protocol" \in ready.read
    BY <1>6 DEF WriteOutput, NextOf
  <2> QED BY <2>1, <2>2 DEF NotReady
<1>7. CASE WriteFails \/ EndOfInput
  BY <1>7 DEF WriteFails, EndOfInput, Dies, NotReady
<1>8. CASE ReadInput
  <2>1. left \in Nat /\ pc = "input" /\ pc' \in {"feed", "select", "shutdown"}
    BY <1>q, <1>8, ShellAssumption DEF ReadInput, ThreadType
  <2>2. left = 0
    BY <2>1
  <2>3. pc' # "feed" => ~(left' > 0)
    BY <1>8, <2>2 DEF ReadInput
  <2> QED BY <2>1, <2>3
<1>9. CASE ShutdownInput \/ ShutdownFails
  BY <1>9 DEF ShutdownInput, ShutdownFails, Dies, NotReady, fds
<1>10. CASE Feed
  BY <1>10 DEF Feed, NotReady
<1>11. CASE FeedFails
  BY <1>11 DEF FeedFails, Dies
<1>12. CASE WaitForExit
  BY <1>12 DEF WaitForExit
<1>13. CASE ClientReads \/ ClientHangsUp \/ ProcessReads \/ ProcessExits \/ UNCHANGED vars
  BY <1>13 DEF ClientReads, ClientHangsUp, ProcessReads, ProcessExits, vars, fds, client, proc, ghosts
<1>14. ASSUME NEW m \in Messages, ClientSends(m) PROVE LeftInv'
  BY <1>14 DEF ClientSends, fds
<1>15. ASSUME NEW f \in Streams, ProcessWrites(f) \/ ProcessCloses(f) PROVE LeftInv'
  BY <1>15 DEF ProcessWrites, ProcessCloses, fds, client, ghosts
<1> QED
  BY <1>1, <1>2, <1>3, <1>4, <1>5, <1>6, <1>7, <1>8, <1>9, <1>10, <1>11, <1>12, <1>13, <1>14, <1>15
     DEF Next, Thread, Outputs, Inputs, Client, Process

-----------------------------------------------------------------------------
(* The theorems *)

\* IInv is an invariant.
THEOREM Inductive == Spec => []IInv
<1>1. IInv /\ [Next]_vars => IInv'
  BY ThreadStep, SocketStep, ClientStep, ProcStep, GhostStep, StepStep, ConservedStep,
     ClosedStep, ReadableStep, ExitStep
     DEF IInv, TypeOK
<1> QED BY InitIInv, <1>1, PTL DEF Spec

\* Every variable of the shell service keeps its type: a packet longer than the
\* buffer of ShellProtocol is read in parts, and a write to stdin takes no more than fits.
THEOREM ShellTypes == Spec => []TypeOK
<1>1. IInv => TypeOK
  BY DEF IInv
<1> QED BY Inductive, <1>1, PTL

\* WaitForExit writes the exit packet after everything that the subprocess wrote,
\* unless a pipe had to be closed because of an error.
THEOREM ExitComesLast == Spec => []OutputBeforeExit
<1>1. IInv => OutputBeforeExit
  BY DEF IInv
<1> QED BY Inductive, <1>1, PTL

\* What the client has sent was written to stdin or is in the socket, in the
\* buffer of ShellProtocol or left of what PassInput has read, as long as both
\* descriptors are open: neither a packet that is read in parts nor a write that
\* takes less than there is loses or repeats data.
THEOREM InputKept == Spec => []InputConserved
<1>1. Init => LeftInv /\ InputConserved
  BY DEF Init, LeftInv, InputConserved, Message
<1>2. IInv /\ LeftInv /\ InputConserved /\ [Next]_vars => LeftInv' /\ InputConserved'
  BY InputStep, LeftStep
<1> QED BY Inductive, <1>1, <1>2, PTL DEF Spec
=============================================================================
