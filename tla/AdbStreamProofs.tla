--------------------------- MODULE AdbStreamProofs ---------------------------
(***************************************************************************)
(* The safety of AdbStream, for any number of streams, chunks, broken      *)
(* connections and restarts: its types, the asocket queues, the one status *)
(* line of a smart socket client (the first part); that no end of a stream *)
(* is left behind, that its flow-control token is in one place, and that   *)
(* data stays with the server process it was sent by (the second part);    *)
(* and that a stream is the pipe of StreamPipe (the third part).           *)
(*                                                                         *)
(* The second part reads the actions once, as the cases of Works and Moves *)
(* (Views), and argues from those.  The invariants are in AdbStreamInv.    *)
(***************************************************************************)
EXTENDS AdbStreamInv, TLAPS, FiniteSetTheorems, SequenceTheorems, WellFoundedInduction

\* Types of asockets, descriptors, channels and the rest, as in TypeOK.
SockType == sock \in [Side -> [Ids -> Socket]]
FdType == fd \in [Side -> [Ids -> Descriptor]]
NetType == net \in [Side -> Seq(Packet)]
RestType ==
    /\ next \in [Side -> Nat \ {0}]
    /\ online \in [Side -> BOOLEAN]
    /\ up \in BOOLEAN /\ resent \in BOOLEAN
    /\ downs \in Nat /\ runs \in Nat /\ resends \in Nat

\* The type invariant, by parts.
LEMMA TypeParts == TypeOK <=> SockType /\ FdType /\ NetType /\ RestType
BY DEF TypeOK, SockType, FdType, NetType, RestType

USE StreamAssumption

-----------------------------------------------------------------------------
(* The operators the actions are built from *)

\* A packet with natural arguments is a packet.
LEMMA PktType ==
    ASSUME NEW c \in {"CNXN", "OPEN", "OKAY", "WRTE", "CLSE"}, NEW a0 \in Nat, NEW a1 \in Nat
    PROVE  Pkt(c, a0, a1) \in Packet
BY DEF Pkt, Packet

\* So is an A_WRTE.
LEMMA WrteType ==
    ASSUME NEW a0 \in Nat, NEW a1 \in Nat, NEW n \in Nat, NEW run \in Nat
    PROVE  Wrte(a0, a1, n, run) \in Packet
BY DEF Wrte, Pkt, Packet

\* The data of a packet is a chunk.
LEMMA ChunkType == ASSUME NEW m \in Packet PROVE Chunk(m) \in Chunks
BY DEF Chunk, Chunks, Packet

\* An asocket just created or freed has the right type and no queue.
LEMMA AsocketType ==
    ASSUME NEW st \in {"none", "open", "dead"}, NEW peer \in Nat,
           NEW rd \in BOOLEAN, NEW rig \in BOOLEAN
    PROVE  /\ Asocket(st, peer, rd, rig) \in Socket
           /\ (rig => st = "open" /\ peer = 0) => QueueOK(Asocket(st, peer, rd, rig))
BY DEF Asocket, Socket, QueueOK

\* The asockets before creation and after destruction, and a new descriptor.
LEMMA NoSockType ==
    /\ NoSock \in Socket /\ QueueOK(NoSock)
    /\ Dead \in Socket /\ QueueOK(Dead)
    /\ NewFd \in Descriptor
BY DEF NewFd, Descriptor, NoSock, Dead, Asocket, Socket, QueueOK

\* local_socket_close leaves a well-typed asocket with a consistent queue.
LEMMA ClosedType ==
    ASSUME NEW s \in Socket, NEW e \in BOOLEAN
    PROVE  /\ Closed(s, e) \in Socket
           /\ QueueOK(s) => QueueOK(Closed(s, e))
BY NoSockType DEF Closed, Socket, QueueOK

\* What local_socket_close sends is a sequence of packets.
LEMMA CloseMsgsType ==
    ASSUME NEW s \in Socket, NEW i \in Ids PROVE CloseMsgs(s, i) \in Seq(Packet)
BY PktType DEF Socket, Ids, CloseMsgs

\* The server process a descriptor's stream was opened with.
LEMMA DescriptorRun ==
    ASSUME NEW f \in Descriptor, NEW run \in Nat PROVE [f EXCEPT !.run = run] \in Descriptor
BY DEF Descriptor

\* The status a client was told.
LEMMA DescriptorReply ==
    ASSUME NEW f \in Descriptor, NEW r \in {"none", "await", "OKAY", "FAIL"}
    PROVE  [f EXCEPT !.reply = r] \in Descriptor
BY DEF Descriptor

\* The chunks written to it.
LEMMA DescriptorOut ==
    ASSUME NEW f \in Descriptor, NEW o \in Seq(Chunks) PROVE [f EXCEPT !.out = o] \in Descriptor
BY DEF Descriptor

\* Telling the client leaves a well-typed descriptor.
LEMMA CloseFdType ==
    ASSUME NEW s \in Socket, NEW f \in Descriptor PROVE CloseFd(s, f) \in Descriptor
BY DEF CloseFd, Descriptor

\* What close_all_sockets sends is a sequence of packets.
LEMMA CloseAllMsgsType ==
    ASSUME TypeOK, NEW p \in Side, NEW f \in CloseOrder(p)
    PROVE  CloseAllMsgs(p, f) \in Seq(Packet)
<1> DEFINE ids == {i \in Ids : sock[p][i].st = "open" /\ sock[p][i].peer # 0}
<1>1. IsFiniteSet(Ids)
  BY FS_Interval DEF Ids
<1>2. IsFiniteSet(ids) 
  BY <1>1, FS_Subset
<1>3. Cardinality(ids) \in Nat
  BY <1>2, FS_CardinalityType
<1>4. f \in [1..Cardinality(ids) -> ids]
  BY DEF CloseOrder
<1>5. \A i \in ids : Pkt("CLSE", i, sock[p][i].peer) \in Packet
  <2> SUFFICES ASSUME NEW i \in ids PROVE Pkt("CLSE", i, sock[p][i].peer) \in Packet
    OBVIOUS
  <2>1. i \in Nat /\ sock[p][i].peer \in Nat
    BY DEF TypeOK, Socket, Ids
  <2> QED BY <2>1, PktType
<1> HIDE DEF ids
<1>6. CloseAllMsgs(p, f) \in [1..Cardinality(ids) -> Packet]
  BY <1>4, <1>5 DEF CloseAllMsgs
<1> QED BY <1>3, <1>6, IsASeq

\* Sending packets keeps the connection well typed.
LEMMA SendType ==
    ASSUME TypeOK, NEW p \in Side, NEW msgs \in Seq(Packet), Send(p, msgs)
    PROVE  NetType'
BY ConcatProperties DEF TypeOK, Sent, Send, NetType

\* So does handling one.
LEMMA ReplyType ==
    ASSUME TypeOK, NEW p \in Side, NEW msgs \in Seq(Packet), Reply(p, msgs), net[Other(p)] # <<>>
    PROVE  NetType'
BY ConcatProperties, HeadTailProperties DEF TypeOK, Sent, Side, Other, Reply, NetType

\* The packet that is handled is a packet.
LEMMA HeadType ==
    ASSUME TypeOK, NEW p \in Side, net[Other(p)] # <<>>
    PROVE  Head(net[Other(p)]) \in Packet
BY HeadTailProperties DEF TypeOK, Side, Other

\* One asocket changes, to a well-typed one with a consistent queue.
LEMMA SockUpdate ==
    ASSUME TypeOK, QueueInv, NEW p \in Side, NEW i \in Ids,
           NEW s \in Socket, QueueOK(s), sock' = [sock EXCEPT ![p][i] = s]
    PROVE  SockType' /\ QueueInv'
BY DEF TypeOK, SockType, QueueInv

\* One descriptor changes, to a well-typed one.
LEMMA FdUpdate ==
    ASSUME TypeOK, NEW p \in Side, NEW i \in Ids,
           NEW f \in Descriptor, fd' = [fd EXCEPT ![p][i] = f]
    PROVE  FdType'
BY DEF TypeOK, FdType

\* close_all_sockets keeps types and queues.
LEMMA CloseAllType ==
    ASSUME TypeOK, QueueInv, NEW p \in Side, CloseAll(p)
    PROVE  SockType' /\ FdType' /\ QueueInv'
<1>1. \A i \in Ids : /\ sock[p][i] \in Socket /\ QueueOK(sock[p][i])
                     /\ fd[p][i] \in Descriptor
  BY DEF TypeOK, QueueInv
<1>2. \A i \in Ids : /\ Closed(sock[p][i], FALSE) \in Socket
                     /\ QueueOK(Closed(sock[p][i], FALSE))
                     /\ CloseFd(sock[p][i], fd[p][i]) \in Descriptor
  BY <1>1, ClosedType, CloseFdType
<1>3. SockType' /\ QueueInv'
  BY <1>1, <1>2 DEF CloseAll, TypeOK, SockType, QueueInv
<1>4. FdType'
  BY <1>1, <1>2 DEF CloseAll, TypeOK, FdType
<1> QED BY <1>3, <1>4

-----------------------------------------------------------------------------
(* The handlers of a packet keep the invariant *)

\* Opening a stream creates an asocket without a queue.
LEMMA OpenInv ==
    ASSUME IInv, NEW p \in Side, NEW m \in Packet, net[Other(p)] # <<>>,
           HandleOpen(p, m) \/ HandleOpenFails(p, m)
    PROVE  IInv'
<1>0. TypeOK /\ QueueInv /\ m.arg0 \in Nat /\ m.run \in Nat
  BY DEF IInv, Packet
<1>1. CASE HandleOpen(p, m)
  <2>1. next[p] \in Ids /\ next[p] \in Nat
    BY <1>0, <1>1 DEF HandleOpen, TypeOK, Ids
  <2>2. SockType' /\ QueueInv'
    BY <1>0, <1>1, <2>1, AsocketType, SockUpdate DEF HandleOpen
  <2>3. FdType'
    <3>1. [fd[p][next[p]] EXCEPT !.run = m.run] \in Descriptor
      BY <1>0, <2>1, DescriptorRun DEF TypeOK
    <3>2. fd' = [fd EXCEPT ![p][next[p]] = [fd[p][next[p]] EXCEPT !.run = m.run]]
      BY <1>1 DEF HandleOpen
    <3> QED BY <1>0, <2>1, <3>1, <3>2, FdUpdate
  <2>4. NetType'
    <3>1. <<Pkt("OKAY", next[p], m.arg0)>> \in Seq(Packet)
      BY <1>0, <2>1, PktType
    <3> QED BY <1>0, <1>1, <3>1, ReplyType DEF HandleOpen
  <2>5. RestType'
    <3>1. next' \in [Side -> Nat \ {0}]
      <4>1. next \in [Side -> Nat \ {0}] /\ next[p] + 1 \in Nat \ {0}
        BY <1>0, <2>1 DEF TypeOK
      <4>2. next' = [next EXCEPT ![p] = next[p] + 1]
        BY <1>1 DEF HandleOpen
      <4> QED BY <4>1, <4>2
    <3>2. UNCHANGED <<online, up, resent, downs, runs, resends>>
      BY <1>1 DEF HandleOpen, link
    <3> QED BY <1>0, <3>1, <3>2 DEF TypeOK, RestType
  <2> QED BY <2>2, <2>3, <2>4, <2>5, TypeParts DEF IInv, SockType, FdType, NetType, RestType, TypeOK
<1>2. CASE HandleOpenFails(p, m)
  <2>1. <<Pkt("CLSE", 0, m.arg0)>> \in Seq(Packet)
    BY <1>0, PktType
  <2>2. NetType'
    BY <1>0, <1>2, <2>1, ReplyType DEF HandleOpenFails
  <2> QED BY <1>0, <1>2, <2>2 DEF HandleOpenFails, link, IInv, TypeOK, NetType, QueueInv
<1> QED BY <1>1, <1>2

\* A_OKAY connects an asocket that has no queue yet, or changes FDE_READ only.
LEMMA OkayInv ==
    ASSUME IInv, NEW p \in Side, NEW m \in Packet, net[Other(p)] # <<>>,
           HandleOkay(p, m) \/ HandleOkayGone(p, m)
    PROVE  IInv'
<1>0. TypeOK /\ QueueInv /\ m.arg0 \in Nat /\ m.arg1 \in Nat
  BY DEF IInv, Packet
<1>1. CASE HandleOkay(p, m)
  <2> DEFINE i == m.arg1
             s == sock[p][i]
  <2>1. i \in Ids /\ s.st = "open" /\ m.arg0 # 0 /\ s \in Socket /\ QueueOK(s)
        /\ fd[p][i] \in Descriptor
    BY <1>0, <1>1 DEF HandleOkay, Found, TypeOK, QueueInv
  <2>2. NetType'
    <3>1. <<>> \in Seq(Packet)
      OBVIOUS
    <3> QED BY <1>0, <1>1, <3>1, ReplyType DEF HandleOkay
  <2>3. RestType'
    BY <1>0, <1>1 DEF HandleOkay, TypeOK, RestType, link
  <2>4. CASE s.peer \in {0, m.arg0}
    <3>1. SockType' /\ QueueInv'
      <4>1. [s EXCEPT !.peer = m.arg0, !.rd = TRUE, !.rig = FALSE] \in Socket
        BY <1>0, <2>1 DEF Socket
      <4>2. QueueOK([s EXCEPT !.peer = m.arg0, !.rd = TRUE, !.rig = FALSE])
        BY <1>0, <2>1 DEF Socket, QueueOK
      <4>3. sock' = [sock EXCEPT ![p][i] = [s EXCEPT !.peer = m.arg0, !.rd = TRUE, !.rig = FALSE]]
        BY <1>1, <2>4 DEF HandleOkay
      <4> QED BY <1>0, <2>1, <4>1, <4>2, <4>3, SockUpdate
    <3>2. FdType'
      <4> DEFINE r == IF s.rig THEN "OKAY" ELSE fd[p][i].reply
      <4>1. [fd[p][i] EXCEPT !.reply = r] \in Descriptor
        BY <2>1, DescriptorReply DEF Descriptor
      <4>2. fd' = [fd EXCEPT ![p][i] = [fd[p][i] EXCEPT !.reply = r]]
        BY <1>0, <1>1, <2>1, <2>4 DEF HandleOkay, TypeOK
      <4> QED BY <1>0, <2>1, <4>1, <4>2, FdUpdate
    <3> QED BY <2>2, <2>3, <3>1, <3>2 DEF IInv, SockType, FdType, NetType, RestType, TypeOK
  <2>5. CASE s.peer \notin {0, m.arg0}
    <3>1. UNCHANGED <<sock, fd>>
      BY <1>1, <2>5 DEF HandleOkay
    <3> QED BY <1>0, <2>2, <2>3, <3>1 DEF IInv, NetType, RestType, TypeOK, QueueInv
  <2> QED BY <2>4, <2>5
<1>2. CASE HandleOkayGone(p, m)
  <2>1. <<Pkt("CLSE", m.arg1, m.arg0)>> \in Seq(Packet)
    BY <1>0, PktType
  <2>2. NetType'
    BY <1>0, <1>2, <2>1, ReplyType DEF HandleOkayGone
  <2> QED BY <1>0, <1>2, <2>2 DEF HandleOkayGone, link, IInv, TypeOK, NetType, QueueInv
<1> QED BY <1>1, <1>2

\* A_WRTE writes past an empty queue, queues with FDE_WRITE on, or closes.
LEMMA WrteInv ==
    ASSUME IInv, NEW p \in Side, NEW m \in Packet, net[Other(p)] # <<>>,
           HandleWrte(p, m) \/ HandleWrteQueues(p, m) \/ HandleWrteFails(p, m)
    PROVE  IInv'
<1> DEFINE i == m.arg1
           s == sock[p][i]
<1>0. TypeOK /\ QueueInv /\ m.arg0 \in Nat /\ m.arg1 \in Nat /\ Chunk(m) \in Chunks
  BY ChunkType DEF IInv, Packet
<1>1. /\ i \in Ids /\ i \in Nat /\ s.st = "open" /\ m.arg0 # 0 /\ s.peer = m.arg0
      /\ s \in Socket /\ QueueOK(s) /\ fd[p][i] \in Descriptor
  <2>1. Found(p, i, m.arg0) /\ m.arg0 # 0
    BY DEF HandleWrte, HandleWrteQueues, HandleWrteFails
  <2>2. i \in Ids /\ s.st = "open" /\ s.peer = m.arg0
    BY <2>1 DEF Found
  <2> QED BY <1>0, <2>1, <2>2 DEF TypeOK, QueueInv
<1>2. RestType'
  BY <1>0 DEF HandleWrte, HandleWrteQueues, HandleWrteFails, TypeOK, RestType, link
<1>3. CASE HandleWrte(p, m)
  <2>1. NetType'
    <3>1. <<Pkt("OKAY", m.arg1, m.arg0)>> \in Seq(Packet)
      BY <1>0, PktType
    <3> QED BY <1>0, <1>3, <3>1, ReplyType DEF HandleWrte
  <2>2. FdType'
    <3>1. Append(fd[p][i].out, Chunk(m)) \in Seq(Chunks)
      BY <1>0, <1>1 DEF Descriptor
    <3>2. fd' = [fd EXCEPT ![p][i] = [fd[p][i] EXCEPT !.out = Append(fd[p][i].out, Chunk(m))]]
      BY <1>0, <1>1, <1>3 DEF HandleWrte, TypeOK
    <3> QED BY <1>0, <1>1, <3>1, <3>2, FdUpdate, DescriptorOut
  <2>3. UNCHANGED sock
    BY <1>3 DEF HandleWrte
  <2> QED BY <1>0, <1>2, <2>1, <2>2, <2>3 DEF IInv, FdType, NetType, RestType, TypeOK, QueueInv
<1>4. CASE HandleWrteQueues(p, m)
  <2>1. NetType'
    <3>1. <<>> \in Seq(Packet)
      OBVIOUS
    <3> QED BY <1>0, <1>4, <3>1, ReplyType DEF HandleWrteQueues
  <2>2. SockType' /\ QueueInv'
    <3> DEFINE a == [s EXCEPT !.q = Append(s.q, Chunk(m)), !.wr = TRUE]
    <3>1. Append(s.q, Chunk(m)) \in Seq(Chunks) /\ Append(s.q, Chunk(m)) # <<>>
      BY <1>0, <1>1, AppendProperties DEF Socket
    <3>2. a \in Socket
      BY <1>1, <3>1 DEF Socket
    <3>3. QueueOK(a)
      BY <1>0, <1>1, <3>1 DEF Socket, QueueOK
    <3>4. sock' = [sock EXCEPT ![p][i] = a]
      BY <1>0, <1>1, <1>4 DEF HandleWrteQueues, TypeOK
    <3> QED BY <1>0, <1>1, <3>2, <3>3, <3>4, SockUpdate
  <2>3. UNCHANGED fd
    BY <1>4 DEF HandleWrteQueues
  <2> QED BY <1>0, <1>2, <2>1, <2>2, <2>3 DEF IInv, SockType, NetType, RestType, TypeOK
<1>5. CASE HandleWrteFails(p, m)
  <2>1. NetType'
    BY <1>0, <1>1, <1>5, CloseMsgsType, ReplyType DEF HandleWrteFails
  <2>2. SockType' /\ QueueInv'
    BY <1>0, <1>1, <1>5, ClosedType, SockUpdate DEF HandleWrteFails, TypeOK
  <2>3. FdType'
    BY <1>0, <1>1, <1>5, CloseFdType, FdUpdate DEF HandleWrteFails, TypeOK
  <2> QED BY <1>2, <2>1, <2>2, <2>3 DEF IInv, SockType, FdType, NetType, RestType, TypeOK
<1> QED BY <1>3, <1>4, <1>5

\* A_CLSE closes one asocket.
LEMMA ClseInv ==
    ASSUME IInv, NEW p \in Side, NEW m \in Packet, net[Other(p)] # <<>>, HandleClse(p, m)
    PROVE  IInv'
<1> DEFINE i == m.arg1
           s == sock[p][i]
<1>1. /\ TypeOK /\ QueueInv
      /\ i \in Ids /\ s \in Socket /\ QueueOK(s) /\ fd[p][i] \in Descriptor
  BY DEF IInv, HandleClse, Found, TypeOK, QueueInv
<1>2. NetType'
  BY <1>1, CloseMsgsType, ReplyType DEF HandleClse
<1>3. SockType' /\ QueueInv'
  BY <1>1, ClosedType, SockUpdate DEF HandleClse, TypeOK
<1>4. FdType'
  BY <1>1, CloseFdType, FdUpdate DEF HandleClse, TypeOK
<1>5. RestType'
  BY <1>1 DEF HandleClse, TypeOK, RestType, link
<1> QED BY <1>2, <1>3, <1>4, <1>5 DEF IInv, SockType, FdType, NetType, RestType, TypeOK

\* A packet that is ignored changes the connection only.
LEMMA IgnoreInv ==
    ASSUME IInv, NEW p \in Side, NEW m \in Packet, net[Other(p)] # <<>>,
           IgnoreStale(p, m) \/ \E resend \in BOOLEAN : IgnoreOffline(p, m, resend)
    PROVE  IInv'
<1>0. TypeOK /\ QueueInv /\ <<>> \in Seq(Packet) /\ <<Pkt("CNXN", 0, 0)>> \in Seq(Packet)
  BY PktType DEF IInv
<1>1. CASE IgnoreStale(p, m)
  BY <1>0, <1>1, ReplyType DEF IgnoreStale, link, IInv, TypeOK, NetType, QueueInv
<1>2. ASSUME NEW resend \in BOOLEAN, IgnoreOffline(p, m, resend) PROVE IInv'
  <2>1. NetType'
    BY <1>0, <1>2, ReplyType DEF IgnoreOffline
  <2>2. resends' \in Nat /\ resent' \in BOOLEAN
    BY <1>0, <1>2 DEF IgnoreOffline, TypeOK
  <2> QED BY <1>0, <1>2, <2>1, <2>2 DEF IgnoreOffline, link, IInv, TypeOK, NetType, QueueInv
<1> QED BY <1>1, <1>2

\* A_CNXN closes the streams of the earlier connection.
LEMMA CnxnInv ==
    ASSUME IInv, NEW p \in Side, NEW m \in Packet, net[Other(p)] # <<>>, HandleCnxn(p, m)
    PROVE  IInv'
<1>0. TypeOK /\ QueueInv /\ <<>> \in Seq(Packet) /\ <<Pkt("CNXN", 0, 0)>> \in Seq(Packet)
  BY PktType DEF IInv
<1>1. SockType' /\ FdType' /\ QueueInv'
  BY <1>0, CloseAllType DEF HandleCnxn, TypeOK, SockType, FdType, QueueInv
<1>2. NetType'
  <2> DEFINE msgs(f) == (IF online[p] THEN CloseAllMsgs(p, f) ELSE <<>>)
                         \o (IF p = "device" THEN <<Pkt("CNXN", 0, 0)>> ELSE <<>>)
  <2>1. PICK f \in CloseOrder(p) : Reply(p, msgs(f))
    BY DEF HandleCnxn
  <2>2. CloseAllMsgs(p, f) \in Seq(Packet)
    BY <1>0, CloseAllMsgsType
  <2>3. msgs(f) \in Seq(Packet)
    BY <1>0, <2>2, ConcatProperties
  <2> QED BY <1>0, <2>1, <2>3, ReplyType
<1>3. RestType'
  BY <1>0 DEF HandleCnxn, TypeOK, RestType, link
<1> QED BY <1>1, <1>2, <1>3 DEF IInv, SockType, FdType, NetType, RestType, TypeOK

\* handle_packet, with the packet at the head of the connection.
LEMMA HandlePacketInv ==
    ASSUME IInv, NEW p \in Side, HandlePacket(p)
    PROVE  IInv'
<1> DEFINE m == Head(net[Other(p)])
<1>1. net[Other(p)] # <<>>
  BY DEF HandlePacket
<1>2. m \in Packet
  BY <1>1, HeadType DEF IInv
<1>3. \/ HandleOpen(p, m) \/ HandleOpenFails(p, m)
      \/ HandleOkay(p, m) \/ HandleOkayGone(p, m)
      \/ HandleWrte(p, m) \/ HandleWrteQueues(p, m) \/ HandleWrteFails(p, m)
      \/ HandleClse(p, m)
      \/ IgnoreStale(p, m) \/ \E resend \in BOOLEAN : IgnoreOffline(p, m, resend)
      \/ HandleCnxn(p, m)
  BY DEF HandlePacket
<1> HIDE DEF m
<1> QED BY <1>1, <1>2, <1>3, OpenInv, OkayInv, WrteInv, ClseInv, IgnoreInv, CnxnInv

-----------------------------------------------------------------------------
(* The events of a descriptor keep the invariant *)

\* FDE_WRITE leaves a queue with FDE_WRITE on, or no queue and FDE_WRITE off.
LEMMA WriteEventInv ==
    ASSUME IInv, NEW p \in Side, NEW i \in Ids,
           \/ \E k \in 1..Len(sock[p][i].q) : WriteSome(p, i, k)
           \/ WriteAll(p, i)
           \/ WriteError(p, i)
    PROVE  IInv'
<1> DEFINE s == sock[p][i]
           f == fd[p][i]
<1>0. /\ TypeOK /\ QueueInv
      /\ s \in Socket /\ QueueOK(s) /\ f \in Descriptor /\ i \in Nat
      /\ s.q \in Seq(Chunks) /\ f.out \in Seq(Chunks) /\ s.peer \in Nat
  <2>1. /\ TypeOK /\ QueueInv
        /\ s \in Socket /\ QueueOK(s) /\ f \in Descriptor /\ i \in Nat
    BY DEF IInv, TypeOK, QueueInv, Ids
  <2>2. s.q \in Seq(Chunks) /\ s.peer \in Nat
    BY <2>1 DEF Socket
  <2>3. f.out \in Seq(Chunks)
    BY <2>1 DEF Descriptor
  <2> QED BY <2>1, <2>2, <2>3
<1>1. ASSUME NEW k \in 1..Len(s.q), WriteSome(p, i, k) PROVE IInv'
  <2>1. k \in 1..Len(s.q) - 1 /\ s.wr
    BY <1>1 DEF WriteSome
  <2>2. /\ SubSeq(s.q, k + 1, Len(s.q)) \in Seq(Chunks)
        /\ SubSeq(s.q, k + 1, Len(s.q)) # <<>>
        /\ SubSeq(s.q, 1, k) \in Seq(Chunks)
    <3>1. Len(s.q) \in Nat
      BY <1>0, LenProperties
    <3>2. SubSeq(s.q, k + 1, Len(s.q)) \in Seq(Chunks) /\ SubSeq(s.q, 1, k) \in Seq(Chunks)
      BY <1>0, <2>1, <3>1, SubSeqProperties
    <3>3. Len(SubSeq(s.q, k + 1, Len(s.q))) = Len(s.q) - k
      BY <1>0, <2>1, <3>1, SubSeqProperties
    <3>4. Len(SubSeq(s.q, k + 1, Len(s.q))) # 0
      BY <2>1, <3>1, <3>3
    <3> QED BY <3>2, <3>4, EmptySeq
  <2>3. SockType' /\ QueueInv'
    <3> DEFINE a == [s EXCEPT !.q = SubSeq(s.q, k + 1, Len(s.q))]
    <3>1. a \in Socket
      BY <1>0, <2>2 DEF Socket
    <3>2. QueueOK(a)
      BY <1>0, <2>1, <2>2 DEF Socket, QueueOK
    <3>3. sock' = [sock EXCEPT ![p][i] = a]
      BY <1>0, <1>1 DEF WriteSome, TypeOK
    <3> QED BY <1>0, <3>1, <3>2, <3>3, SockUpdate
  <2>4. FdType'
    BY <1>0, <1>1, <2>2, ConcatProperties, FdUpdate, DescriptorOut DEF WriteSome, TypeOK
  <2> QED BY <1>0, <1>1, <2>3, <2>4 DEF WriteSome, link, IInv, SockType, FdType, TypeOK
<1>2. CASE WriteAll(p, i)
  <2>1. SockType' /\ QueueInv'
    <3>1. CASE s.st = "closing"
      BY <1>0, <1>2, <3>1, ClosedType, SockUpdate DEF WriteAll
    <3>2. CASE s.st # "closing"
      <4> DEFINE a == [s EXCEPT !.q = <<>>, !.wr = FALSE]
      <4>1. sock' = [sock EXCEPT ![p][i] = a]
        BY <1>2, <3>2 DEF WriteAll
      <4>2. a \in Socket
        <5>1. <<>> \in Seq(Chunks)
          OBVIOUS
        <5> QED BY <1>0, <5>1 DEF Socket
      <4>3. QueueOK(a)
        BY <1>0, <3>2 DEF Socket, QueueOK
      <4> QED BY <1>0, <4>1, <4>2, <4>3, SockUpdate
    <3> QED BY <3>1, <3>2
  <2>2. FdType'
    BY <1>0, <1>2, ConcatProperties, FdUpdate, DescriptorOut DEF WriteAll, TypeOK
  <2>3. NetType'
    <3>1. <<Pkt("OKAY", i, s.peer)>> \in Seq(Packet)
      <4>1. Pkt("OKAY", i, s.peer) \in Packet
        BY <1>0, PktType
      <4> QED BY <4>1
    <3>2. UNCHANGED net \/ Send(p, <<Pkt("OKAY", i, s.peer)>>)
      BY <1>2 DEF WriteAll
    <3> QED BY <1>0, <3>1, <3>2, SendType DEF TypeOK, NetType
  <2>4. RestType'
    BY <1>0, <1>2 DEF WriteAll, TypeOK, RestType, link
  <2> QED BY <2>1, <2>2, <2>3, <2>4 DEF IInv, SockType, FdType, NetType, RestType, TypeOK
<1>3. CASE WriteError(p, i)
  <2>1. SockType' /\ QueueInv'
    BY <1>0, <1>3, ClosedType, SockUpdate DEF WriteError
  <2>2. FdType'
    BY <1>0, <1>3, CloseFdType, FdUpdate DEF WriteError, TypeOK
  <2>3. NetType'
    BY <1>0, <1>3, CloseMsgsType, SendType DEF WriteError
  <2>4. RestType'
    BY <1>0, <1>3 DEF WriteError, TypeOK, RestType, link
  <2> QED BY <2>1, <2>2, <2>3, <2>4 DEF IInv, SockType, FdType, NetType, RestType, TypeOK
<1> QED BY <1>1, <1>2, <1>3

\* FDE_READ touches FDE_READ only, or closes.
LEMMA ReadEventInv ==
    ASSUME IInv, NEW p \in Side, NEW i \in Ids, NEW n \in 0..1, NEW is_eof \in BOOLEAN,
           ReadEvent(p, i, n, is_eof)
    PROVE  IInv'
<1> DEFINE s == sock[p][i]
           f == [fd[p][i] EXCEPT !.avail = @ - n, !.got = @ + n]
           data == IF n > 0 /\ s.peer # 0 THEN <<Wrte(i, s.peer, f.got, f.run)>> ELSE <<>>
           after == IF data # <<>> THEN [s EXCEPT !.rd = FALSE] ELSE s
<1>0. /\ TypeOK /\ QueueInv
      /\ s \in Socket /\ QueueOK(s) /\ fd[p][i] \in Descriptor /\ i \in Nat
      /\ s.peer \in Nat
  <2>1. TypeOK /\ QueueInv
    BY DEF IInv
  <2>2. s \in Socket /\ fd[p][i] \in Descriptor
    BY <2>1 DEF TypeOK
  <2>3. QueueOK(s)
    BY <2>1 DEF QueueInv
  <2>4. i \in Nat
    BY StreamAssumption DEF StreamAssumption, Ids
  <2>5. s.peer \in Nat
    BY <2>2 DEF Socket
  <2> QED BY <2>1, <2>2, <2>3, <2>4, <2>5
<1>1. f \in Descriptor
  <2>1. n \in 0..fd[p][i].avail
    BY DEF ReadEvent
  <2>2. fd[p][i].avail - n \in Nat /\ fd[p][i].got + n \in Nat
    BY <1>0, <2>1 DEF Descriptor
  <2> QED BY <1>0, <2>2 DEF Descriptor
<1>2. f.got \in Nat /\ f.run \in Nat
  BY <1>1 DEF Descriptor
<1>3. data \in Seq(Packet)
  BY <1>0, <1>2, WrteType
<1> HIDE DEF data
<1>4. after \in Socket /\ QueueOK(after)
  BY <1>0 DEF Socket, QueueOK
<1> HIDE DEF after, f
<1>5. RestType'
  BY <1>0 DEF ReadEvent, TypeOK, RestType, link
<1>6. CASE is_eof
  <2>1. /\ sock' = [sock EXCEPT ![p][i] = Closed(after, FALSE)]
        /\ fd' = [fd EXCEPT ![p][i] = CloseFd(after, f)]
        /\ Send(p, LastMsgs(after, i, data))
    BY <1>6 DEF ReadEvent, after, data, f
  <2>2. SockType' /\ QueueInv'
    BY <1>0, <1>4, <2>1, ClosedType, SockUpdate
  <2>3. FdType'
    BY <1>0, <1>1, <1>4, <2>1, CloseFdType, FdUpdate
  <2>4. NetType'
    BY <1>0, <1>3, <1>4, <2>1, CloseMsgsType, ConcatProperties, SendType DEF LastMsgs
  <2> QED BY <1>5, <2>2, <2>3, <2>4 DEF IInv, SockType, FdType, NetType, RestType, TypeOK
<1>7. CASE ~is_eof
  <2>1. /\ sock' = [sock EXCEPT ![p][i] = after]
        /\ fd' = [fd EXCEPT ![p][i] = f]
        /\ Send(p, data)
    BY <1>7 DEF ReadEvent, after, data, f
  <2>2. SockType' /\ QueueInv' /\ FdType' /\ NetType'
    BY <1>0, <1>1, <1>3, <1>4, <2>1, SockUpdate, FdUpdate, SendType
  <2> QED BY <1>5, <2>2 DEF IInv, SockType, FdType, NetType, RestType, TypeOK
<1> QED BY <1>6, <1>7

-----------------------------------------------------------------------------
(* The other actions keep the invariant *)

\* A client or a listener creates an asocket without a queue.
LEMMA ConnectToRemoteInv ==
    ASSUME IInv, NEW p \in Side, NEW rigged \in BOOLEAN, ConnectToRemote(p, rigged)
    PROVE  IInv'
<1> DEFINE i == next[p]
           r == IF rigged THEN "await" ELSE fd[p][i].reply
           a == Asocket("open", 0, FALSE, rigged)
<1>0. TypeOK /\ QueueInv
  BY DEF IInv
<1>1. i \in Ids /\ i \in Nat /\ runs \in Nat /\ fd[p][i] \in Descriptor
  BY <1>0 DEF ConnectToRemote, TypeOK, Ids
<1>2. SockType' /\ QueueInv'
  BY <1>0, <1>1, AsocketType, SockUpdate DEF ConnectToRemote
<1>3. FdType'
  <2>1. r \in {"none", "await", "OKAY", "FAIL"}
    BY <1>1 DEF Descriptor
  <2>2. [fd[p][i] EXCEPT !.run = runs, !.reply = r] \in Descriptor
    BY <1>1, <2>1 DEF Descriptor
  <2>3. fd' = [fd EXCEPT ![p][i] = [fd[p][i] EXCEPT !.run = runs, !.reply = r]]
    BY <1>0, <1>1 DEF ConnectToRemote, TypeOK
  <2> QED BY <1>0, <1>1, <2>2, <2>3, FdUpdate
<1>4. NetType'
  <2>1. [Pkt("OPEN", i, 0) EXCEPT !.run = runs] \in Packet
    BY <1>1 DEF Pkt, Packet
  <2>2. <<[Pkt("OPEN", i, 0) EXCEPT !.run = runs]>> \in Seq(Packet)
    BY <2>1
  <2> QED BY <1>0, <2>2, SendType DEF ConnectToRemote
<1>5. RestType'
  BY <1>0 DEF ConnectToRemote, TypeOK, RestType, link
<1> QED BY <1>2, <1>3, <1>4, <1>5 DEF IInv, SockType, FdType, NetType, RestType, TypeOK

\* Connecting, breaking and losing the connection.
LEMMA ConnectionInv ==
    ASSUME IInv, Connect \/ ResendConnect \/ Break \/ HostRestart
                   \/ \E p \in Side : HandleOffline(p)
    PROVE  IInv'
<1>0. /\ TypeOK /\ QueueInv /\ "host" \in Side /\ "device" \in Side
      /\ <<Pkt("CNXN", 0, 0)>> \in Seq(Packet)
      /\ net["host"] \in Seq(Packet) /\ net["device"] \in Seq(Packet)
  BY PktType DEF IInv, Side, TypeOK
<1>1. \A q \in Seq(Packet) : \A k \in 0..Len(q) :
          SubSeq(q, 1, k) \in Seq(Packet) /\ SubSeq(q, k + 1, Len(q)) \in Seq(Packet)
  <2> SUFFICES ASSUME NEW q \in Seq(Packet), NEW k \in 0..Len(q)
               PROVE  SubSeq(q, 1, k) \in Seq(Packet) /\ SubSeq(q, k + 1, Len(q)) \in Seq(Packet)
    OBVIOUS
  <2>1. Len(q) \in Nat
    BY LenProperties
  <2> QED BY <2>1, SubSeqProperties
<1>2. CASE Connect
  BY <1>0, <1>2 DEF Connect, IInv, TypeOK, QueueInv
<1>3. CASE ResendConnect
  <2>1. NetType'
    BY <1>0, <1>3, SendType DEF ResendConnect
  <2> QED BY <1>0, <1>3, <2>1 DEF ResendConnect, link, IInv, TypeOK, NetType, QueueInv
<1>4. CASE Break
  <2>1. NetType'
    <3>1. PICK h \in 0..Len(net["host"]), d \in 0..Len(net["device"]) :
              net' = [net EXCEPT !["host"] = SubSeq(@, 1, h), !["device"] = SubSeq(@, 1, d)]
      BY <1>4 DEF Break
    <3>2. SubSeq(net["host"], 1, h) \in Seq(Packet) /\ SubSeq(net["device"], 1, d) \in Seq(Packet)
      BY <1>0, <1>1
    <3> QED BY <1>0, <3>1, <3>2 DEF TypeOK, NetType
  <2>2. SockType' /\ FdType' /\ QueueInv'
    BY <1>0, <1>4 DEF Break, TypeOK, SockType, FdType, QueueInv
  <2>3. RestType'
    <3>1. up' = FALSE /\ downs' = downs + 1 /\ UNCHANGED <<next, online, resent, resends, runs>>
      BY <1>4 DEF Break
    <3>2. up' \in BOOLEAN /\ resent' \in BOOLEAN
      BY <1>0, <3>1, Zenon DEF TypeOK
    <3>3. downs' \in Nat
      BY <1>0, <3>1 DEF TypeOK
    <3> QED BY <1>0, <3>1, <3>2, <3>3 DEF TypeOK, RestType
  <2> QED BY <2>1, <2>2, <2>3 DEF IInv, SockType, FdType, NetType, RestType, TypeOK
<1>5. CASE HostRestart
  <2>1. NetType'
    <3>1. PICK h \in 0..Len(net["host"]), d \in 0..Len(net["device"]) :
              net' = [net EXCEPT !["host"] = SubSeq(@, 1, h) \o <<Pkt("CNXN", 0, 0)>>,
                                 !["device"] = SubSeq(@, d + 1, Len(@))]
      BY <1>5 DEF HostRestart
    <3>2. SubSeq(net["host"], 1, h) \o <<Pkt("CNXN", 0, 0)>> \in Seq(Packet)
      BY <1>0, <1>1, ConcatProperties
    <3>3. SubSeq(net["device"], d + 1, Len(net["device"])) \in Seq(Packet)
      BY <1>0, <1>1
    <3> QED BY <1>0, <3>1, <3>2, <3>3 DEF TypeOK, NetType
  <2>2. SockType' /\ QueueInv' /\ FdType'
    BY <1>0, <1>5, NoSockType DEF HostRestart, TypeOK, SockType, FdType, QueueInv
  <2>3. RestType'
    <3>1. /\ next' = [next EXCEPT !["host"] = 1] /\ online' = [online EXCEPT !["host"] = FALSE]
          /\ resent' = FALSE /\ runs' = runs + 1 /\ UNCHANGED <<resends, up, downs>>
      BY <1>5 DEF HostRestart
    <3>2. next' \in [Side -> Nat \ {0}] /\ online' \in [Side -> BOOLEAN]
      BY <1>0, <3>1 DEF TypeOK
    <3>3. up' \in BOOLEAN /\ resent' \in BOOLEAN
      BY <1>0, <3>1, Zenon DEF TypeOK
    <3>4. downs' \in Nat /\ runs' \in Nat /\ resends' \in Nat
      BY <1>0, <3>1 DEF TypeOK
    <3> QED BY <3>2, <3>3, <3>4 DEF RestType
  <2> QED BY <2>1, <2>2, <2>3 DEF IInv, SockType, FdType, NetType, RestType, TypeOK
<1>6. ASSUME NEW p \in Side, HandleOffline(p) PROVE IInv'
  BY <1>0, <1>6, CloseAllType DEF HandleOffline, link, IInv, SockType, FdType, TypeOK
<1> QED BY <1>2, <1>3, <1>4, <1>5, <1>6

\* The applications change their side of a descriptor only.
LEMMA AppInv ==
    ASSUME IInv, NEW p \in Side, NEW i \in Ids, App(p, i)
    PROVE  IInv'
<1> DEFINE f == fd[p][i]
<1>0. TypeOK /\ QueueInv /\ f \in Descriptor
  BY DEF IInv, TypeOK
<1>1. CASE AppWrite(p, i)
  <2>1. [f EXCEPT !.avail = f.avail + 1] \in Descriptor
    <3>1. f.avail + 1 \in Nat
      BY <1>0 DEF Descriptor
    <3> QED BY <1>0, <3>1 DEF Descriptor
  <2>2. fd' = [fd EXCEPT ![p][i] = [f EXCEPT !.avail = f.avail + 1]]
    BY <1>0, <1>1 DEF AppWrite, TypeOK
  <2>3. FdType'
    BY <1>0, <2>1, <2>2, FdUpdate
  <2> QED BY <1>0, <1>1, <2>3 DEF AppWrite, link, IInv, FdType, TypeOK, QueueInv
<1>2. ASSUME NEW how \in Hangups, AppHangup(p, i, how) PROVE IInv'
  BY <1>0, <1>2, FdUpdate DEF Descriptor, AppHangup, TypeOK, link, IInv, FdType, QueueInv
<1> QED BY <1>1, <1>2 DEF App

-----------------------------------------------------------------------------
(* A client is told its status before it gets data *)

\* One asocket that was created, and its descriptor, change.
LEMMA OneStatus ==
    ASSUME IInv, StatusInv, NEW p \in Side, NEW i \in Ids, sock[p][i].st # "none",
           \A q \in Side, j \in Ids : q # p \/ j # i => sock'[q][j] = sock[q][j] /\ fd'[q][j] = fd[q][j],
           StatusOK(sock'[p][i], fd'[p][i]), next' = next
    PROVE  StatusInv'
BY DEF StatusInv, ReplyInv, FreshInv

\* local_socket_close_notify tells the client when it closes: an asocket that
\* owes a status has nothing queued, so that it is freed at once.
LEMMA ClosedStatus ==
    ASSUME NEW s \in Socket, NEW f \in Descriptor, QueueOK(s), StatusOK(s, f),
           s.st \in {"open", "closing"}, NEW e \in BOOLEAN
    PROVE  StatusOK(Closed(s, e), CloseFd(s, f))
BY DEF QueueOK, StatusOK, Closed, CloseFd, Descriptor, Dead, Asocket, Socket

\* close_all_sockets.
LEMMA CloseAllStatus ==
    ASSUME IInv, StatusInv, NEW p \in Side, CloseAll(p), next' = next
    PROVE  StatusInv'
<1>q. TypeOK /\ QueueInv /\ ReplyInv /\ FreshInv
  BY DEF IInv, StatusInv
<1>1. ASSUME NEW i \in Ids
      PROVE  /\ StatusOK(sock'[p][i], fd'[p][i])
             /\ sock[p][i].st = "none" => sock'[p][i] = sock[p][i] /\ fd'[p][i] = fd[p][i]
  <2>1. /\ sock'[p][i] = IF sock[p][i].st = "open" THEN Closed(sock[p][i], FALSE) ELSE sock[p][i]
        /\ fd'[p][i] = IF sock[p][i].st = "open" THEN CloseFd(sock[p][i], fd[p][i]) ELSE fd[p][i]
    BY <1>q DEF CloseAll, TypeOK
  <2>2. sock[p][i] \in Socket /\ fd[p][i] \in Descriptor
    BY <1>q DEF TypeOK
  <2>3. QueueOK(sock[p][i]) /\ StatusOK(sock[p][i], fd[p][i])
    BY <1>q DEF QueueInv, ReplyInv
  <2>4. sock[p][i].st = "open" => StatusOK(Closed(sock[p][i], FALSE), CloseFd(sock[p][i], fd[p][i]))
    BY <2>2, <2>3, ClosedStatus
  <2> QED BY <2>1, <2>3, <2>4
<1>2. \A q \in Side \ {p}, i \in Ids : sock'[q][i] = sock[q][i] /\ fd'[q][i] = fd[q][i]
  BY <1>q DEF CloseAll, TypeOK
<1>3. ReplyInv'
  BY <1>q, <1>1, <1>2 DEF ReplyInv
<1>4. FreshInv'
  BY <1>q, <1>1, <1>2 DEF FreshInv
<1> QED BY <1>3, <1>4 DEF StatusInv

\* An asocket and its descriptor are created with the next id.
LEMMA CreateStatus ==
    ASSUME IInv, StatusInv, NEW p \in Side, next[p] \in Ids,
           \A q \in Side, j \in Ids :
               q # p \/ j # next[p] => sock'[q][j] = sock[q][j] /\ fd'[q][j] = fd[q][j],
           StatusOK(sock'[p][next[p]], fd'[p][next[p]]), next' = [next EXCEPT ![p] = @ + 1]
    PROVE  StatusInv'
<1>1. ReplyInv'
  BY DEF StatusInv, ReplyInv
<1>2. FreshInv'
  <2> SUFFICES ASSUME NEW q \in Side, NEW j \in Ids, j >= next'[q]
               PROVE  sock'[q][j].st = "none" /\ fd'[q][j] = NewFd
    BY DEF FreshInv
  <2>1. next \in [Side -> Nat] /\ j \in Nat
    BY DEF IInv, TypeOK, Ids
  <2>2. j >= next[q] /\ (q # p \/ j # next[p])
    BY <2>1
  <2> QED BY <2>2 DEF StatusInv, FreshInv
<1> QED BY <1>1, <1>2 DEF StatusInv

\* A packet.
LEMMA PacketStatus ==
    ASSUME IInv, StatusInv, NEW p \in Side, HandlePacket(p)
    PROVE  StatusInv'
<1> DEFINE m == Head(net[Other(p)])
           i == m.arg1
           s == sock[p][i]
           f == fd[p][i]
<1>q. TypeOK /\ QueueInv /\ ReplyInv /\ FreshInv
  BY DEF IInv, StatusInv
<1>h. m \in Packet
  BY HeadType DEF HandlePacket, IInv
<1>n. \/ HandleOpen(p, m) \/ HandleOpenFails(p, m)
      \/ HandleOkay(p, m) \/ HandleOkayGone(p, m)
      \/ HandleWrte(p, m) \/ HandleWrteQueues(p, m) \/ HandleWrteFails(p, m)
      \/ HandleClse(p, m)
      \/ IgnoreStale(p, m) \/ \E resend \in BOOLEAN : IgnoreOffline(p, m, resend)
      \/ HandleCnxn(p, m)
  BY DEF HandlePacket
<1> HIDE DEF m
<1>f. ASSUME i \in Ids, s.st = "open"
      PROVE  s \in Socket /\ f \in Descriptor /\ QueueOK(s) /\ StatusOK(s, f)
  BY <1>f, <1>q DEF TypeOK, QueueInv, ReplyInv
<1>1. CASE UNCHANGED <<sock, fd, next>>
  BY <1>q, <1>1 DEF StatusInv, ReplyInv, FreshInv
<1>2. CASE HandleOpen(p, m)
  <2>1. next[p] \in Ids
    BY <1>q, <1>2 DEF HandleOpen, TypeOK, Ids
  <2>2. sock[p][next[p]].st = "none" /\ fd[p][next[p]] = NewFd
    BY <1>q, <2>1 DEF FreshInv, TypeOK
  <2>3. /\ sock' = [sock EXCEPT ![p][next[p]] = Asocket("open", m.arg0, TRUE, FALSE)]
        /\ fd' = [fd EXCEPT ![p][next[p]] = [fd[p][next[p]] EXCEPT !.run = m.run]]
        /\ next' = [next EXCEPT ![p] = @ + 1]
    BY <1>2 DEF HandleOpen
  <2>4. \A q \in Side, j \in Ids :
            q # p \/ j # next[p] => sock'[q][j] = sock[q][j] /\ fd'[q][j] = fd[q][j]
    BY <1>q, <2>1, <2>3 DEF TypeOK
  <2>5. /\ sock'[p][next[p]] = Asocket("open", m.arg0, TRUE, FALSE)
        /\ fd'[p][next[p]] = [NewFd EXCEPT !.run = m.run]
    BY <1>q, <2>1, <2>2, <2>3 DEF TypeOK
  <2>6. StatusOK(sock'[p][next[p]], fd'[p][next[p]])
    BY <2>5 DEF StatusOK, Asocket, NewFd
  <2> QED BY <2>1, <2>3, <2>4, <2>6, CreateStatus
<1>3. CASE HandleOkay(p, m)
  <2>1. i \in Ids /\ s.st = "open" /\ m.arg0 # 0 /\ next' = next
    BY <1>3 DEF HandleOkay, Found
  <2>2. CASE s.peer \in {0, m.arg0}
    <3>1. /\ sock' = [sock EXCEPT ![p][i] = [s EXCEPT !.peer = m.arg0, !.rd = TRUE, !.rig = FALSE]]
          /\ fd' = [fd EXCEPT ![p][i] = [f EXCEPT !.reply = IF s.rig THEN "OKAY" ELSE f.reply]]
      BY <1>3, <2>2 DEF HandleOkay
    <3>2. /\ sock'[p][i] = [s EXCEPT !.peer = m.arg0, !.rd = TRUE, !.rig = FALSE]
          /\ fd'[p][i] = [f EXCEPT !.reply = IF s.rig THEN "OKAY" ELSE f.reply]
          /\ \A q \in Side, j \in Ids : q # p \/ j # i => sock'[q][j] = sock[q][j] /\ fd'[q][j] = fd[q][j]
      BY <1>q, <2>1, <3>1 DEF TypeOK
    <3>3. sock'[p][i].st = "open" /\ ~sock'[p][i].rig
      BY <1>f, <2>1, <3>2 DEF Socket
    <3>4. fd'[p][i].reply = IF s.rig THEN "OKAY" ELSE f.reply
      BY <1>f, <2>1, <3>2 DEF Descriptor
    <3>5. StatusOK(sock'[p][i], fd'[p][i])
      BY <1>f, <2>1, <3>3, <3>4 DEF StatusOK
    <3> QED BY <2>1, <3>2, <3>5, OneStatus
  <2>3. CASE ~(s.peer \in {0, m.arg0})
    BY <1>1, <1>3, <2>3 DEF HandleOkay
  <2> QED BY <2>2, <2>3
<1>4. CASE HandleWrte(p, m)
  <2>1. i \in Ids /\ s.st = "open" /\ s.peer # 0 /\ next' = next /\ sock' = sock
    BY <1>4 DEF HandleWrte, Found
  <2>2. fd' = [fd EXCEPT ![p][i] = [f EXCEPT !.out = Append(f.out, Chunk(m))]]
    BY <1>4 DEF HandleWrte
  <2>3. /\ fd'[p][i] = [f EXCEPT !.out = Append(f.out, Chunk(m))]
        /\ \A q \in Side, j \in Ids : q # p \/ j # i => sock'[q][j] = sock[q][j] /\ fd'[q][j] = fd[q][j]
    BY <1>q, <2>1, <2>2 DEF TypeOK
  <2>4. fd'[p][i].reply = f.reply /\ sock'[p][i] = s
    BY <1>f, <2>1, <2>3 DEF Descriptor
  <2>5. ~s.rig
    BY <1>f, <2>1 DEF QueueOK
  <2>6. StatusOK(sock'[p][i], fd'[p][i])
    BY <1>f, <2>1, <2>4, <2>5 DEF StatusOK
  <2> QED BY <2>1, <2>3, <2>6, OneStatus
<1>5. CASE HandleWrteQueues(p, m)
  <2>1. i \in Ids /\ s.st = "open" /\ s.peer # 0 /\ next' = next /\ fd' = fd
    BY <1>5 DEF HandleWrteQueues, Found
  <2>2. sock' = [sock EXCEPT ![p][i] = [s EXCEPT !.q = Append(s.q, Chunk(m)), !.wr = TRUE]]
    BY <1>q, <1>5, <2>1 DEF HandleWrteQueues, TypeOK
  <2>3. /\ sock'[p][i] = [s EXCEPT !.q = Append(s.q, Chunk(m)), !.wr = TRUE]
        /\ \A q \in Side, j \in Ids : q # p \/ j # i => sock'[q][j] = sock[q][j] /\ fd'[q][j] = fd[q][j]
    BY <1>q, <2>1, <2>2 DEF TypeOK
  <2>4. sock'[p][i].rig = s.rig /\ sock'[p][i].st = "open" /\ fd'[p][i] = f
    BY <1>f, <2>1, <2>3 DEF Socket
  <2>5. StatusOK(sock'[p][i], fd'[p][i])
    BY <1>f, <2>1, <2>4 DEF StatusOK
  <2> QED BY <2>1, <2>3, <2>5, OneStatus
<1>6. ASSUME NEW e \in BOOLEAN, i \in Ids, s.st = "open", next' = next,
             sock' = [sock EXCEPT ![p][i] = Closed(s, e)],
             fd' = [fd EXCEPT ![p][i] = CloseFd(s, f)]
      PROVE  StatusInv'
  <2>1. /\ sock'[p][i] = Closed(s, e) /\ fd'[p][i] = CloseFd(s, f)
        /\ \A q \in Side, j \in Ids : q # p \/ j # i => sock'[q][j] = sock[q][j] /\ fd'[q][j] = fd[q][j]
    BY <1>q, <1>6 DEF TypeOK
  <2>2. StatusOK(sock'[p][i], fd'[p][i])
    BY <1>f, <1>6, <2>1, ClosedStatus
  <2> QED BY <1>6, <2>1, <2>2, OneStatus
<1>7. CASE HandleWrteFails(p, m)
  BY <1>q, <1>6, <1>7 DEF HandleWrteFails, Found, TypeOK
<1>8. CASE HandleClse(p, m)
  BY <1>q, <1>6, <1>8 DEF HandleClse, Found, TypeOK
<1>9. CASE HandleCnxn(p, m)
  BY <1>1, <1>9, CloseAllStatus DEF HandleCnxn
<1> QED
  BY <1>n, <1>1, <1>2, <1>3, <1>4, <1>5, <1>7, <1>8, <1>9
     DEF HandleOpenFails, HandleOkayGone, IgnoreStale, IgnoreOffline

\* An event of a descriptor.
LEMMA EventStatus ==
    ASSUME IInv, StatusInv, NEW p \in Side, NEW i \in Ids, Event(p, i) \/ App(p, i)
    PROVE  StatusInv'
<1> DEFINE s == sock[p][i]
           f == fd[p][i]
<1>q. TypeOK /\ QueueInv /\ ReplyInv /\ FreshInv
  BY DEF IInv, StatusInv
<1>f. s \in Socket /\ f \in Descriptor /\ QueueOK(s) /\ StatusOK(s, f)
  BY <1>q DEF TypeOK, QueueInv, ReplyInv
<1>u. ASSUME NEW a, NEW b, sock' = [sock EXCEPT ![p][i] = a], fd' = [fd EXCEPT ![p][i] = b],
             StatusOK(a, b), s.st # "none", next' = next
      PROVE  StatusInv'
  <2>1. /\ sock'[p][i] = a /\ fd'[p][i] = b
        /\ \A q \in Side, j \in Ids : q # p \/ j # i => sock'[q][j] = sock[q][j] /\ fd'[q][j] = fd[q][j]
    BY <1>q, <1>u DEF TypeOK
  <2>2. StatusOK(sock'[p][i], fd'[p][i])
    BY <1>u, <2>1
  <2> QED BY <1>u, <2>1, <2>2, OneStatus
<1>w. ASSUME s.wr PROVE s.st \in {"open", "closing"} /\ ~s.rig /\ f.reply \notin {"await", "FAIL"}
  BY <1>f, <1>w DEF StatusOK, Socket, QueueOK
<1>1. ASSUME NEW k \in 1..Len(s.q), WriteSome(p, i, k) PROVE StatusInv'
  <2> DEFINE a == [s EXCEPT !.q = SubSeq(s.q, k + 1, Len(s.q))]
             b == [f EXCEPT !.out = f.out \o SubSeq(s.q, 1, k)]
  <2>1. /\ sock' = [sock EXCEPT ![p][i] = a] /\ fd' = [fd EXCEPT ![p][i] = b]
        /\ next' = next /\ s.wr
    BY <1>q, <1>1 DEF WriteSome, TypeOK
  <2>2. a.st = s.st /\ a.rig = s.rig /\ b.reply = f.reply
    BY <1>f DEF Socket, Descriptor
  <2>3. StatusOK(a, b)
    BY <1>w, <2>1, <2>2 DEF StatusOK
  <2> HIDE DEF a, b
  <2> QED BY <1>u, <1>w, <2>1, <2>3
<1>2. CASE WriteAll(p, i)
  <2> DEFINE a == IF s.st = "closing" THEN Closed(s, FALSE) ELSE [s EXCEPT !.q = <<>>, !.wr = FALSE]
             b == [f EXCEPT !.out = f.out \o s.q]
  <2>1. /\ sock' = [sock EXCEPT ![p][i] = a] /\ fd' = [fd EXCEPT ![p][i] = b]
        /\ next' = next /\ s.wr
    BY <1>q, <1>2 DEF WriteAll, TypeOK
  <2>2. ~a.wr /\ ~a.rig /\ b.reply = f.reply
    BY <1>f, <1>w, <2>1 DEF Socket, Descriptor, Closed, Dead, Asocket
  <2>3. StatusOK(a, b)
    BY <1>w, <2>1, <2>2 DEF StatusOK
  <2> HIDE DEF a, b
  <2> QED BY <1>u, <1>w, <2>1, <2>3
<1>3. CASE WriteError(p, i)
  BY <1>f, <1>q, <1>u, <1>w, <1>3, ClosedStatus DEF WriteError, TypeOK
<1>4. ASSUME NEW n \in 0..1, NEW is_eof \in BOOLEAN, ReadEvent(p, i, n, is_eof) PROVE StatusInv'
  <2> DEFINE g == [f EXCEPT !.avail = @ - n, !.got = @ + n]
             data == IF n > 0 /\ s.peer # 0 THEN <<Wrte(i, s.peer, g.got, g.run)>> ELSE <<>>
             after == IF data # <<>> THEN [s EXCEPT !.rd = FALSE] ELSE s
  <2>1. s.st \in {"open", "closing"} /\ next' = next
    BY <1>4 DEF ReadEvent, Readable
  <2>2. /\ is_eof => /\ sock' = [sock EXCEPT ![p][i] = Closed(after, FALSE)]
                     /\ fd' = [fd EXCEPT ![p][i] = CloseFd(after, g)]
        /\ ~is_eof => sock' = [sock EXCEPT ![p][i] = after] /\ fd' = [fd EXCEPT ![p][i] = g]
    BY <1>4 DEF ReadEvent
  <2> HIDE DEF data
  <2>3. after \in Socket /\ QueueOK(after) /\ after.st = s.st /\ after.rig = s.rig
    BY <1>f DEF Socket, QueueOK
  <2>4. g \in Descriptor /\ g.reply = f.reply /\ g.out = f.out
    <3>1. n \in 0..f.avail
      BY <1>4 DEF ReadEvent
    <3>2. f.avail - n \in Nat /\ f.got + n \in Nat
      BY <1>f, <3>1 DEF Descriptor
    <3> QED BY <1>f, <3>2 DEF Descriptor
  <2> HIDE DEF after, g
  <2>5. StatusOK(after, g)
    BY <1>f, <2>1, <2>3, <2>4 DEF StatusOK
  <2>6. StatusOK(Closed(after, FALSE), CloseFd(after, g))
    BY <2>1, <2>3, <2>4, <2>5, ClosedStatus
  <2>7. s.st # "none"
    BY <2>1
  <2>8. CASE is_eof
    BY <1>u, <2>1, <2>2, <2>6, <2>7, <2>8
  <2>9. CASE ~is_eof
    BY <1>u, <2>1, <2>2, <2>5, <2>7, <2>9
  <2> QED BY <2>8, <2>9
<1>5. CASE App(p, i)
  <2>1. s.st \in {"open", "closing"} /\ next' = next /\ sock' = sock
    BY <1>5 DEF App, AppWrite, AppHangup
  <2>2. /\ fd'[p][i].reply = f.reply /\ fd'[p][i].out = f.out
        /\ \A q \in Side, j \in Ids : q # p \/ j # i => fd'[q][j] = fd[q][j]
    <3>1. CASE AppWrite(p, i)
      BY <1>f, <1>q, <3>1 DEF AppWrite, TypeOK, Descriptor
    <3>2. ASSUME NEW how \in Hangups, AppHangup(p, i, how)
          PROVE  /\ fd'[p][i].reply = f.reply /\ fd'[p][i].out = f.out
                 /\ \A q \in Side, j \in Ids : q # p \/ j # i => fd'[q][j] = fd[q][j]
      BY <1>f, <1>q, <3>2 DEF AppHangup, TypeOK, Descriptor
    <3> QED BY <1>5, <3>1, <3>2 DEF App
  <2>3. StatusOK(sock'[p][i], fd'[p][i])
    BY <1>f, <2>1, <2>2 DEF StatusOK
  <2> QED BY <2>1, <2>2, <2>3, OneStatus
<1> QED BY <1>1, <1>2, <1>3, <1>4, <1>5 DEF Event

\* Every step keeps the statuses.
LEMMA StatusStep == IInv /\ StatusInv /\ [Next]_vars => StatusInv'
<1> SUFFICES ASSUME IInv, StatusInv, [Next]_vars PROVE StatusInv'
  OBVIOUS
<1>q. TypeOK /\ QueueInv /\ ReplyInv /\ FreshInv
  BY DEF IInv, StatusInv
<1>1. CASE UNCHANGED <<sock, fd, next>>
  BY <1>q, <1>1 DEF StatusInv, ReplyInv, FreshInv
<1>2. ASSUME NEW p \in Side, NEW rigged \in Notify, ConnectToRemote(p, rigged) PROVE StatusInv'
  <2> DEFINE i == next[p]
  <2>1. i \in Ids /\ rigged \in BOOLEAN
    BY <1>q, <1>2 DEF ConnectToRemote, TypeOK, Ids
  <2>2. sock[p][i].st = "none" /\ fd[p][i] = NewFd
    BY <1>q, <2>1 DEF FreshInv, TypeOK
  <2>3. /\ sock' = [sock EXCEPT ![p][i] = Asocket("open", 0, FALSE, rigged)]
        /\ fd' = [fd EXCEPT ![p][i] = [fd[p][i] EXCEPT !.run = runs,
                                          !.reply = IF rigged THEN "await" ELSE fd[p][i].reply]]
        /\ next' = [next EXCEPT ![p] = @ + 1]
    BY <1>q, <1>2, <2>1 DEF ConnectToRemote, TypeOK
  <2>4. \A q \in Side, j \in Ids : q # p \/ j # i => sock'[q][j] = sock[q][j] /\ fd'[q][j] = fd[q][j]
    BY <1>q, <2>1, <2>3 DEF TypeOK
  <2>5. /\ sock'[p][next[p]] = Asocket("open", 0, FALSE, rigged)
        /\ fd'[p][next[p]] = [NewFd EXCEPT !.run = runs, !.reply = IF rigged THEN "await" ELSE NewFd.reply]
    BY <1>q, <2>1, <2>2, <2>3 DEF TypeOK
  <2>6. StatusOK(sock'[p][next[p]], fd'[p][next[p]])
    BY <2>1, <2>5 DEF StatusOK, Asocket, NewFd
  <2> QED BY <2>1, <2>3, <2>4, <2>6, CreateStatus
<1>3. CASE HostRestart
  <2>1. /\ sock' = [sock EXCEPT !["host"] = [i \in Ids |-> NoSock]]
        /\ fd' = [fd EXCEPT !["host"] = [i \in Ids |-> NewFd]]
        /\ next' = [next EXCEPT !["host"] = 1]
    BY <1>3 DEF HostRestart
  <2>2. \A i \in Ids : sock'["host"][i] = NoSock /\ fd'["host"][i] = NewFd
    BY <1>q, <2>1 DEF TypeOK, Side
  <2>3. /\ \A i \in Ids : sock'["device"][i] = sock["device"][i] /\ fd'["device"][i] = fd["device"][i]
        /\ next'["device"] = next["device"]
    BY <1>q, <2>1 DEF TypeOK, Side
  <2>4. StatusOK(NoSock, NewFd) /\ NoSock.st = "none"
    BY DEF StatusOK, NoSock, NewFd, Asocket
  <2>5. ReplyInv'
    BY <1>q, <2>2, <2>3, <2>4 DEF ReplyInv, Side
  <2>6. FreshInv'
    BY <1>q, <2>2, <2>3, <2>4 DEF FreshInv, Side
  <2> QED BY <2>5, <2>6 DEF StatusInv
<1>4. ASSUME NEW p \in Side, HandleOffline(p) PROVE StatusInv'
  BY <1>4, CloseAllStatus DEF HandleOffline
<1>5. CASE Connect \/ ResendConnect \/ Break \/ UNCHANGED vars
  BY <1>1, <1>5 DEF Connect, ResendConnect, Break, vars
<1> QED BY <1>2, <1>3, <1>4, <1>5, PacketStatus, EventStatus DEF Next

-----------------------------------------------------------------------------
(* The theorems *)

\* The invariant is inductive.
LEMMA InductiveStep == IInv /\ [Next]_vars => IInv'
<1> SUFFICES ASSUME IInv, [Next]_vars PROVE IInv'
  OBVIOUS
<1>1. CASE UNCHANGED vars
  BY <1>1 DEF vars, link, IInv, TypeOK, QueueInv
<1>2. ASSUME NEW p \in Side, NEW rigged \in Notify, ConnectToRemote(p, rigged) PROVE IInv'
  BY <1>2, ConnectToRemoteInv
<1>3. ASSUME NEW p \in Side, HandlePacket(p) PROVE IInv'
  BY <1>3, HandlePacketInv
<1>4. ASSUME NEW p \in Side, NEW i \in Ids, Event(p, i) PROVE IInv'
  BY <1>4, WriteEventInv, ReadEventInv DEF Event
<1>5. ASSUME NEW p \in Side, NEW i \in Ids, App(p, i) PROVE IInv'
  BY <1>5, AppInv
<1>6. CASE Connect \/ ResendConnect \/ Break \/ HostRestart \/ \E p \in Side : HandleOffline(p)
  BY <1>6, ConnectionInv
<1> QED BY <1>1, <1>2, <1>3, <1>4, <1>5, <1>6 DEF Next

\* It holds initially.
LEMMA InductiveBase == Init => IInv
<1> SUFFICES ASSUME Init PROVE IInv
  OBVIOUS
<1>1. TypeOK
  <2>1. SockType /\ FdType
    BY NoSockType DEF Init, SockType, FdType
  <2>2. NetType
    BY DEF Init, NetType
  <2>3. RestType
    <3>1. up \in BOOLEAN /\ resent \in BOOLEAN
      BY Zenon DEF Init
    <3>2. next \in [Side -> Nat \ {0}] /\ online \in [Side -> BOOLEAN]
      BY DEF Init
    <3>3. downs \in Nat /\ runs \in Nat /\ resends \in Nat
      BY DEF Init
    <3> QED BY <3>1, <3>2, <3>3 DEF RestType
  <2> QED BY <2>1, <2>2, <2>3, TypeParts
<1>2. QueueInv
  BY NoSockType DEF Init, QueueInv
<1> QED BY <1>1, <1>2 DEF IInv

\* No client waits for a status at the start.
LEMMA StatusBase == Init => StatusInv
BY DEF StatusOK, NoSock, NewFd, Asocket, Init, StatusInv, ReplyInv, FreshInv

\* Every reachable state of the stream layer is well typed; in particular
\* install_local_socket never hands out the id 0.
THEOREM TypeCorrect == Spec => []TypeOK
<1>1. IInv => TypeOK
  BY DEF IInv
<1> QED BY <1>1, InductiveBase, InductiveStep, PTL DEF Spec

\* The CHECK_EQ of local_socket_close never fails, FDE_WRITE is never lost
\* while packets are queued, and local_socket_event_func always finds the peer
\* it calls ready() on, whatever the other side, the applications and the
\* connection do.
THEOREM QueuesCorrect == Spec => []QueueInv
<1>1. IInv => QueueInv
  BY DEF IInv
<1> QED BY <1>1, InductiveBase, InductiveStep, PTL DEF Spec

\* local_socket_ready_notify and local_socket_close_notify: a smart socket client
\* gets OKAY before any data, or FAIL and no data, and it waits for one of the two
\* exactly as long as its asocket lives.
THEOREM StatusComesFirst == Spec => []StatusFirst
<1>1. IInv /\ StatusInv => StatusFirst
  <2> SUFFICES ASSUME IInv, StatusInv, NEW p \in Side, NEW i \in Ids,
                      fd[p][i].reply \in {"await", "FAIL"}
               PROVE  fd[p][i].out = <<>> /\ (fd[p][i].reply = "await" <=> Alive(p, i))
    BY DEF StatusFirst
  <2>1. StatusOK(sock[p][i], fd[p][i]) /\ QueueOK(sock[p][i])
    BY DEF StatusInv, ReplyInv, IInv, QueueInv
  <2> QED BY <2>1 DEF StatusOK, QueueOK, Alive
<1> QED BY <1>1, InductiveBase, InductiveStep, StatusBase, StatusStep, PTL DEF Spec

-----------------------------------------------------------------------------
(* What a step does to the asockets and to the packets under way.  The      *)
(* proofs about both ends of a stream go by these cases and not by the      *)
(* actions of AdbStream.                                                    *)

\* No asocket but i of p, and no descriptor but its own, changes.
OnlyAt(p, i) ==
    \A q \in Side, j \in Ids :
        q # p \/ j # i => sock'[q][j] = sock[q][j] /\ fd'[q][j] = fd[q][j]

\* Side p has sent ms and, if n, handled a packet.
Moved(p, n, ms) ==
    /\ ms \in Seq(Packet)
    /\ net'[p] = IF up THEN net[p] \o ms ELSE net[p]
    /\ net'[Other(p)] = IF n THEN Tail(net[Other(p)]) ELSE net[Other(p)]
    /\ n => net[Other(p)] # <<>>

\* The packet side p handles.
Got(p) == Head(net[Other(p)])

\* The connection, and whether the sides are online, stay as they are.
Kept == UNCHANGED <<online, up, runs, resends>>

\* The descriptor keeps its process, and its stream gets chunks of r only.
SameRun(p, i, r) ==
    /\ fd'[p][i].run = fd[p][i].run
    /\ RunsOf(p, i)' \subseteq RunsOf(p, i) \cup r

\* An asocket is closed, or freed from the closing list.
GoneAt(p, i) == sock'[p][i].st # "open" /\ sock'[p][i].peer = 0

\* Nothing the other side could tell.
Idles(p, i) ==
    /\ OnlyAt(p, i) /\ Kept /\ next' = next /\ net' = net
    /\ (sock'[p][i].st = "open") = Open(p, i) /\ sock'[p][i].peer = Peer(p, i)
    /\ Open(p, i) => /\ sock'[p][i].rd = sock[p][i].rd
                     /\ (sock'[p][i].q = <<>>) = (sock[p][i].q = <<>>)
    /\ ~Open(p, i) => ~sock'[p][i].rd
    /\ fd'[p][i].hup = "no" => fd[p][i].hup = "no"
    /\ SameRun(p, i, {})

\* Asocket i sends data, or goes on after its queue has drained.
Says(p, i, m) ==
    /\ OnlyAt(p, i) /\ Kept /\ next' = next /\ Moved(p, FALSE, <<m>>)
    /\ m.arg0 = i /\ m.arg1 = Peer(p, i) /\ Peer(p, i) # 0
    /\ Open(p, i) /\ sock'[p][i].st = "open" /\ sock'[p][i].peer = Peer(p, i)
    /\ fd'[p][i].hup = fd[p][i].hup
    /\ SameRun(p, i, {})
    /\ \/ /\ m.cmd = "OKAY"
          /\ sock[p][i].q # <<>> /\ sock'[p][i].q = <<>> /\ sock'[p][i].rd = sock[p][i].rd
       \/ /\ m.cmd = "WRTE" /\ m.run = fd[p][i].run
          /\ sock'[p][i].q = sock[p][i].q /\ ~sock'[p][i].rd
          /\ fd[p][i].hup = "no" => sock[p][i].rd

\* A_CLSE is nowhere but at the end of s.
ClseLast(s) == \A k, l \in 1..Len(s) : k < l => s[k].cmd # "CLSE"

\* Asocket i closes and tells its peer, of its own accord or for a packet (n).
Leaves(p, i, n, ms) ==
    /\ OnlyAt(p, i) /\ Kept /\ next' = next /\ Moved(p, n, ms)
    /\ Open(p, i) /\ GoneAt(p, i) /\ ~sock'[p][i].rd
    /\ SameRun(p, i, {})
    /\ \A m \in Els(ms) : /\ m.cmd \in {"WRTE", "CLSE"}
                          /\ m.arg0 = i /\ m.arg1 = Peer(p, i) /\ Peer(p, i) # 0
                          /\ m.cmd = "WRTE" => m.run = fd[p][i].run
    /\ Peer(p, i) # 0 => \E m \in Els(ms) : m.cmd = "CLSE"
    /\ ClseLast(ms)
    /\ n => /\ Got(p).cmd \in {"WRTE", "CLSE"} /\ Got(p).arg1 = i /\ online[p]
            /\ Got(p).arg0 = 0 \/ Got(p).arg0 = Peer(p, i)

\* A new asocket, for which A_OPEN m is sent.
Dials(p, i, m) ==
    /\ i = next[p] /\ online[p] /\ p \in Openers
    /\ OnlyAt(p, i) /\ Kept /\ Moved(p, FALSE, <<m>>)
    /\ next' = [next EXCEPT ![p] = i + 1]
    /\ m.cmd = "OPEN" /\ m.arg0 = i /\ m.arg1 = 0 /\ m.run = fd'[p][i].run
    /\ sock'[p][i].st = "open" /\ sock'[p][i].peer = 0 /\ ~sock'[p][i].rd /\ sock'[p][i].q = <<>>
    /\ RunsOf(p, i)' = {} /\ fd'[p][i].run = runs

\* A new asocket for an A_OPEN, answered by A_OKAY m.
Accepts(p, i, m) ==
    /\ i = next[p] /\ online[p]
    /\ OnlyAt(p, i) /\ Kept /\ Moved(p, TRUE, <<m>>)
    /\ next' = [next EXCEPT ![p] = i + 1]
    /\ Got(p).cmd = "OPEN" /\ Got(p).arg0 # 0
    /\ m.cmd = "OKAY" /\ m.arg0 = i /\ m.arg1 = Got(p).arg0
    /\ sock'[p][i].st = "open" /\ sock'[p][i].peer = Got(p).arg0 /\ sock'[p][i].rd
    /\ sock'[p][i].q = <<>>
    /\ RunsOf(p, i)' = {} /\ fd'[p][i].run = Got(p).run

\* A_CLSE m instead of a stream, for an A_OPEN, or for an A_OKAY that names no open asocket.
Refuses(p, m) ==
    /\ UNCHANGED <<sock, fd>> /\ Kept /\ next' = next /\ Moved(p, TRUE, <<m>>)
    /\ online[p] /\ Got(p).arg0 # 0 /\ m.cmd = "CLSE" /\ m.arg1 = Got(p).arg0
    /\ \/ Got(p).cmd = "OPEN" /\ m.arg0 = 0
       \/ /\ Got(p).cmd = "OKAY" /\ Got(p).arg1 # 0
          /\ ~(Got(p).arg1 \in Ids /\ Open(p, Got(p).arg1))
          /\ m.arg0 = Got(p).arg1

\* A_OKAY connects asocket i, or lets it go on.
Resumes(p, i) ==
    /\ OnlyAt(p, i) /\ Kept /\ next' = next /\ Moved(p, TRUE, <<>>)
    /\ online[p] /\ Got(p).cmd = "OKAY" /\ Got(p).arg0 # 0 /\ Got(p).arg1 = i
    /\ Open(p, i) /\ Peer(p, i) \in {0, Got(p).arg0}
    /\ sock'[p][i].st = "open" /\ sock'[p][i].peer = Got(p).arg0 /\ sock'[p][i].rd
    /\ sock'[p][i].q = sock[p][i].q /\ fd'[p][i].hup = fd[p][i].hup
    /\ SameRun(p, i, {})

\* A_WRTE is written at once and answered, or queued.
Takes(p, i, ms) ==
    /\ OnlyAt(p, i) /\ Kept /\ next' = next /\ Moved(p, TRUE, ms)
    /\ online[p] /\ Got(p).cmd = "WRTE" /\ Got(p).arg0 # 0 /\ Got(p).arg1 = i
    /\ Open(p, i) /\ Peer(p, i) = Got(p).arg0
    /\ sock'[p][i].st = "open" /\ sock'[p][i].peer = Peer(p, i) /\ sock'[p][i].rd = sock[p][i].rd
    /\ fd'[p][i].hup = fd[p][i].hup
    /\ SameRun(p, i, {Got(p).run})
    /\ \/ /\ sock[p][i].q = <<>> /\ sock'[p][i].q = <<>>
          /\ \E m \in Packet : ms = <<m>> /\ m.cmd = "OKAY" /\ m.arg0 = i /\ m.arg1 = Peer(p, i)
       \/ sock'[p][i].q # <<>> /\ ms = <<>>

\* A packet that changes nothing: it names no stream of p, or p is offline.
Drops(p) ==
    /\ UNCHANGED <<sock, fd>> /\ Kept /\ next' = next /\ Moved(p, TRUE, <<>>)
    /\ \/ /\ online[p] /\ Got(p).cmd \in {"WRTE", "CLSE"}
          /\ ~Found(p, Got(p).arg1, Got(p).arg0)
       \/ /\ online[p] /\ Got(p).cmd = "OKAY" /\ Got(p).arg1 \in Ids
          /\ Open(p, Got(p).arg1) /\ Peer(p, Got(p).arg1) \notin {0, Got(p).arg0}
       \/ ~online[p] /\ Got(p).cmd # "CNXN"

\* The host, offline, sends A_CNXN again, perhaps for a packet (n).
Repeats(n, m) ==
    /\ UNCHANGED <<sock, fd, next, online, up, runs>> /\ resends' = resends + 1
    /\ Moved("host", n, <<m>>) /\ m = Pkt("CNXN", 0, 0)
    /\ ~online["host"] /\ (n => Got("host").cmd # "CNXN")

\* Every open asocket of p is closed.
ClosedAll(p) ==
    \A i \in Ids : IF Open(p, i) THEN GoneAt(p, i) /\ ~sock'[p][i].rd /\ SameRun(p, i, {})
                   ELSE sock'[p][i] = sock[p][i] /\ fd'[p][i] = fd[p][i]

\* A_CNXN: the streams there were are closed, the device answers.
Restarts(p, ms) ==
    /\ UNCHANGED <<next, up, runs, resends>> /\ online' = [online EXCEPT ![p] = TRUE]
    /\ Got(p).cmd = "CNXN" /\ Moved(p, TRUE, ms)
    /\ \A j \in Ids : sock'[Other(p)][j] = sock[Other(p)][j] /\ fd'[Other(p)][j] = fd[Other(p)][j]
    /\ IF online[p] THEN ClosedAll(p)
       ELSE \A i \in Ids : sock'[p][i] = sock[p][i] /\ fd'[p][i] = fd[p][i]
    /\ \A m \in Els(ms) :
          \/ m = Pkt("CNXN", 0, 0) /\ p = "device"
          \/ m.cmd = "CLSE" /\ \E i \in Ids : m.arg0 = i /\ m.arg1 = Peer(p, i) /\ Open(p, i) /\ m.arg1 # 0
    /\ p = "device" => ms # <<>> /\ ms[Len(ms)].cmd = "CNXN"
    /\ CnxnLast(ms)

\* The connection of p has broken and p has handled what there was.
Ends(p) ==
    /\ ~up /\ UNCHANGED <<next, net, up, runs, resends>>
    /\ online[p] /\ online' = [online EXCEPT ![p] = FALSE] /\ net[Other(p)] = <<>>
    /\ \A j \in Ids : sock'[Other(p)][j] = sock[Other(p)][j] /\ fd'[Other(p)][j] = fd[Other(p)][j]
    /\ ClosedAll(p)

\* What side p does with its asockets and its packets, A_CNXN apart.
Works(p) ==
    \/ \E i \in Ids : Idles(p, i)
    \/ \E i \in Ids, m \in Packet : Says(p, i, m)
    \/ \E i \in Ids, n \in BOOLEAN, ms \in Seq(Packet) : Leaves(p, i, n, ms)
    \/ \E i \in Ids, m \in Packet : Dials(p, i, m) \/ Accepts(p, i, m)
    \/ \E m \in Packet : Refuses(p, m)
    \/ \E i \in Ids : Resumes(p, i)
    \/ \E i \in Ids, ms \in Seq(Packet) : Takes(p, i, ms)
    \/ Drops(p)

\* What may happen to the connection.
Moves ==
    \/ \E n \in BOOLEAN, m \in Packet : Repeats(n, m)
    \/ \E p \in Side, ms \in Seq(Packet) : Restarts(p, ms)
    \/ \E p \in Side : Ends(p)
    \/ Connect \/ Break \/ HostRestart

\* The packets of a channel after more are sent.
LEMMA ElsConcat ==
    ASSUME NEW S, NEW s \in Seq(S), NEW t \in Seq(S)
    PROVE  Els(s \o t) = Els(s) \cup Els(t)
<1>1. /\ Len(s \o t) = Len(s) + Len(t) /\ Len(s) \in Nat /\ Len(t) \in Nat
      /\ \A k \in 1..Len(s) + Len(t) : (s \o t)[k] = IF k <= Len(s) THEN s[k] ELSE t[k - Len(s)]
  BY ConcatProperties, LenProperties
<1>2. ASSUME NEW k \in 1..Len(s \o t) PROVE (s \o t)[k] \in Els(s) \cup Els(t)
  BY <1>1, <1>2 DEF Els
<1>3. ASSUME NEW k \in 1..Len(s) PROVE s[k] \in Els(s \o t)
  BY <1>1, <1>3 DEF Els
<1>4. ASSUME NEW k \in 1..Len(t) PROVE t[k] \in Els(s \o t)
  <2>1. k + Len(s) \in 1..Len(s \o t) /\ (s \o t)[k + Len(s)] = t[k]
    BY <1>1, <1>4
  <2> QED BY <2>1 DEF Els
<1> QED BY <1>2, <1>3, <1>4 DEF Els

\* The packets of a channel before and after one is handled.
LEMMA ElsTail ==
    ASSUME NEW S, NEW s \in Seq(S), s # <<>>
    PROVE  Els(s) = Els(Tail(s)) \cup {Head(s)}
<1>1. /\ Len(s) \in Nat \ {0} /\ Len(Tail(s)) = Len(s) - 1 /\ Head(s) = s[1]
      /\ \A k \in 1..Len(s) - 1 : Tail(s)[k] = s[k + 1]
  BY HeadTailProperties, EmptySeq
<1>2. ASSUME NEW k \in 1..Len(s) PROVE s[k] \in Els(Tail(s)) \cup {Head(s)}
  BY <1>1, <1>2 DEF Els
<1>3. ASSUME NEW k \in 1..Len(Tail(s)) PROVE Tail(s)[k] \in Els(s)
  BY <1>1, <1>3 DEF Els
<1>4. Head(s) \in Els(s)
  BY <1>1 DEF Els
<1> QED BY <1>2, <1>3, <1>4 DEF Els

\* No packet, one packet, and a part of a channel.
LEMMA ElsSmall ==
    ASSUME NEW S
    PROVE  /\ Els(<<>>) = {}
           /\ \A m : Els(<<m>>) = {m}
           /\ \A s \in Seq(S) : Els(s) \subseteq S
           /\ \A s \in Seq(S) : s # <<>> => Els(s) # {}
           /\ \A s \in Seq(S), k \in Nat \ {0}, l \in Nat : l <= Len(s) => Els(SubSeq(s, k, l)) \subseteq Els(s)
<1>1. Els(<<>>) = {} /\ \A m : Els(<<m>>) = {m}
  BY DEF Els
<1>2. \A s \in Seq(S) : Els(s) \subseteq S
  BY ElementOfSeq DEF Els
<1>4. ASSUME NEW s \in Seq(S), s # <<>> PROVE Els(s) # {}
  BY <1>4, EmptySeq DEF Els
<1>3. ASSUME NEW s \in Seq(S), NEW k \in Nat \ {0}, NEW l \in Nat, l <= Len(s)
      PROVE  Els(SubSeq(s, k, l)) \subseteq Els(s)
  <2> SUFFICES ASSUME NEW n \in 1..Len(SubSeq(s, k, l)) PROVE SubSeq(s, k, l)[n] \in Els(s)
    BY DEF Els
  <2>0. Len(s) \in Nat
    BY LenProperties
  <2>1. Len(SubSeq(s, k, l)) = IF k <= l THEN l - k + 1 ELSE 0
    BY <1>3, <2>0
  <2>2. n + k - 1 \in 1..Len(s)
    BY <1>3, <2>0, <2>1
  <2>3. SubSeq(s, k, l)[n] = s[n + k - 1]
    BY <1>3, <2>0, <2>1
  <2> QED BY <2>2, <2>3 DEF Els
<1> QED BY <1>1, <1>2, <1>3, <1>4

\* The chunks of a stream when a new one is given or queued, or when all or some are written.
LEMMA RunsOfEmpty ==
    ASSUME NEW p \in Side, NEW i \in Ids, sock[p][i].q = <<>>, fd[p][i].out = <<>>
    PROVE  RunsOf(p, i) = {}
BY ElsSmall DEF RunsOf

\* One asocket and its descriptor change.
LEMMA OneChange ==
    ASSUME TypeOK, NEW p \in Side, NEW i \in Ids, NEW a, NEW b,
           sock' = [sock EXCEPT ![p][i] = a], fd' = [fd EXCEPT ![p][i] = b]
    PROVE  sock'[p][i] = a /\ fd'[p][i] = b /\ OnlyAt(p, i)
BY DEF TypeOK, OnlyAt

\* Its stream gets no chunks, or those of a process.
LEMMA ChunksKept ==
    ASSUME NEW p \in Side, NEW i \in Ids, NEW C, fd'[p][i].run = fd[p][i].run,
           Els(sock'[p][i].q) \cup Els(fd'[p][i].out)
               \subseteq Els(sock[p][i].q) \cup Els(fd[p][i].out) \cup C
    PROVE  SameRun(p, i, {c.run : c \in C})
BY DEF SameRun, RunsOf

\* Sending and answering.
LEMMA SendMoves ==
    ASSUME TypeOK, NEW p \in Side, NEW ms \in Seq(Packet), Send(p, ms)
    PROVE  Moved(p, FALSE, ms)
BY DEF Side, Other, TypeOK, Send, Sent, Moved

\* A packet is handled, and answered with ms.
LEMMA ReplyMoves ==
    ASSUME TypeOK, NEW p \in Side, NEW ms \in Seq(Packet), Reply(p, ms), net[Other(p)] # <<>>
    PROVE  Moved(p, TRUE, ms)
BY DEF Side, Other, TypeOK, Reply, Sent, Moved

\* A closed asocket is connected to nobody, and what it has queued is what it had queued.
LEMMA ClosedView ==
    ASSUME NEW s \in Socket, NEW e \in BOOLEAN, QueueOK(s), NEW f \in Descriptor
    PROVE  /\ Closed(s, e).st # "open" /\ Closed(s, e).peer = 0 /\ ~Closed(s, e).rd
           /\ Els(Closed(s, e).q) \subseteq Els(s.q)
           /\ CloseFd(s, f).run = f.run /\ CloseFd(s, f).out = f.out /\ CloseFd(s, f).hup = f.hup
BY ElsSmall DEF Closed, Dead, Asocket, CloseFd, Descriptor, Socket

\* What a closing asocket tells its peer.
LEMMA CloseMsgsView ==
    ASSUME NEW s \in Socket, NEW i \in Ids
    PROVE  /\ CloseMsgs(s, i) \in Seq(Packet)
           /\ \A m \in Els(CloseMsgs(s, i)) : m.cmd = "CLSE" /\ m.arg0 = i /\ m.arg1 = s.peer /\ s.peer # 0
           /\ s.peer # 0 => \E m \in Els(CloseMsgs(s, i)) : m.cmd = "CLSE"
           /\ Len(CloseMsgs(s, i)) <= 1
<1>1. Els(CloseMsgs(s, i)) = IF s.peer # 0 THEN {Pkt("CLSE", i, s.peer)} ELSE {}
  BY ElsSmall DEF CloseMsgs
<1>2. CloseMsgs(s, i) \in Seq(Packet)
  BY CloseMsgsType
<1>3. LET m == Pkt("CLSE", i, s.peer) IN m.cmd = "CLSE" /\ m.arg0 = i /\ m.arg1 = s.peer
  BY DEF Pkt
<1>l. Len(CloseMsgs(s, i)) <= 1
  BY DEF CloseMsgs
<1>4. CASE s.peer = 0
  BY <1>1, <1>2, <1>l, <1>4
<1>5. CASE s.peer # 0
  BY <1>1, <1>2, <1>3, <1>l, <1>5
<1> QED BY <1>4, <1>5

\* The chunks that are written, and those that are left in the queue.
LEMMA PartView ==
    ASSUME NEW q \in Seq(Chunks), NEW out \in Seq(Chunks), NEW k \in 1..Len(q), k < Len(q)
    PROVE  /\ SubSeq(q, k + 1, Len(q)) # <<>> /\ q # <<>>
           /\ Els(SubSeq(q, k + 1, Len(q))) \subseteq Els(q)
           /\ Els(out \o SubSeq(q, 1, k)) \subseteq Els(out) \cup Els(q)
<1>1. Len(q) \in Nat /\ k \in Nat /\ k + 1 \in Nat \ {0}
  BY LenProperties
<1>2. SubSeq(q, 1, k) \in Seq(Chunks) /\ Len(SubSeq(q, k + 1, Len(q))) = Len(q) - k
  BY <1>1, SubSeqProperties
<1>3. Els(SubSeq(q, 1, k)) \subseteq Els(q) /\ Els(SubSeq(q, k + 1, Len(q))) \subseteq Els(q)
  BY <1>1, ElsSmall
<1>4. Els(out \o SubSeq(q, 1, k)) = Els(out) \cup Els(SubSeq(q, 1, k))
  BY <1>2, ElsConcat
<1>5. SubSeq(q, k + 1, Len(q)) # <<>> /\ q # <<>>
  <2>1. Len(q) # 0 /\ Len(SubSeq(q, k + 1, Len(q))) # 0 /\ Len(<<>>) = 0
    BY <1>1, <1>2
  <2> QED BY <2>1, Zenon
<1> QED BY <1>3, <1>4, <1>5

\* An asocket is closed by its own side or for a packet.
LEMMA LeavesView ==
    ASSUME TypeOK, QueueInv, NEW p \in Side, NEW i \in Ids, NEW e \in BOOLEAN, NEW n \in BOOLEAN,
           Open(p, i), Kept, next' = next,
           sock' = [sock EXCEPT ![p][i] = Closed(sock[p][i], e)],
           fd' = [fd EXCEPT ![p][i] = CloseFd(sock[p][i], fd[p][i])],
           Moved(p, n, CloseMsgs(sock[p][i], i)),
           n => /\ Got(p).cmd \in {"WRTE", "CLSE"} /\ Got(p).arg1 = i /\ online[p]
                /\ Got(p).arg0 = 0 \/ Got(p).arg0 = Peer(p, i)
    PROVE  \E ms \in Seq(Packet) : Leaves(p, i, n, ms)
<1> DEFINE s == sock[p][i]
<1>1. s \in Socket /\ QueueOK(s) /\ fd[p][i] \in Descriptor
  BY DEF TypeOK, QueueInv
<1>2. sock'[p][i] = Closed(s, e) /\ fd'[p][i] = CloseFd(s, fd[p][i]) /\ OnlyAt(p, i)
  BY OneChange
<1>3. SameRun(p, i, {})
  <2> DEFINE t == Closed(s, e)
             h == CloseFd(s, fd[p][i])
  <2>1. sock'[p][i] = t /\ fd'[p][i] = h
    BY <1>2
  <2>2. Els(t.q) \subseteq Els(s.q) /\ h.run = fd[p][i].run /\ h.out = fd[p][i].out
    BY <1>1, ClosedView
  <2> HIDE DEF t, h
  <2> QED BY <2>1, <2>2 DEF SameRun, RunsOf
<1>4. GoneAt(p, i) /\ ~sock'[p][i].rd
  BY <1>1, <1>2, ClosedView DEF GoneAt
<1>6. ClseLast(CloseMsgs(s, i))
  BY <1>1, CloseMsgsView, LenProperties DEF ClseLast
<1>5. Leaves(p, i, n, CloseMsgs(s, i))
  BY <1>1, <1>2, <1>3, <1>4, <1>6, CloseMsgsView DEF Leaves, Peer
<1> QED BY <1>1, <1>5, CloseMsgsView

\* An event of a descriptor: FDE_WRITE.
LEMMA WriteViews ==
    ASSUME IInv, StatusInv, NEW p \in Side, NEW i \in Ids,
           (\E k \in 1..Len(sock[p][i].q) : WriteSome(p, i, k)) \/ WriteAll(p, i) \/ WriteError(p, i)
    PROVE  Works(p)
<1> DEFINE s == sock[p][i]
           f == fd[p][i]
<1>q. TypeOK /\ QueueInv /\ ReplyInv /\ FreshInv
  BY DEF IInv, StatusInv
<1>f. s \in Socket /\ f \in Descriptor /\ QueueOK(s) /\ StatusOK(s, f) /\ s.q \in Seq(Chunks) /\ f.out \in Seq(Chunks)
  BY <1>q DEF TypeOK, QueueInv, ReplyInv, Socket, Descriptor
<1>w. s.wr => s.st \in {"open", "closing"}
  BY <1>f DEF StatusOK, Socket
<1>1. ASSUME NEW k \in 1..Len(s.q), WriteSome(p, i, k) PROVE Works(p)
  <2> DEFINE a == [s EXCEPT !.q = SubSeq(s.q, k + 1, Len(s.q))]
             b == [f EXCEPT !.out = f.out \o SubSeq(s.q, 1, k)]
  <2>1. /\ sock' = [sock EXCEPT ![p][i] = a] /\ fd' = [fd EXCEPT ![p][i] = b]
        /\ next' = next /\ net' = net /\ s.wr
    BY <1>q, <1>1 DEF WriteSome, TypeOK
  <2>e. Kept
    BY <1>1 DEF WriteSome, Kept, link
  <2>k. k < Len(s.q)
    <3>1. k \in 1..Len(s.q) - 1
      BY <1>1, Zenon DEF WriteSome
    <3>2. Len(s.q) \in Nat
      BY <1>f
    <3> QED BY <3>1, <3>2
  <2>2. sock'[p][i] = a /\ fd'[p][i] = b /\ OnlyAt(p, i)
    BY <1>q, <2>1, OneChange
  <2>3. /\ a.st = s.st /\ a.peer = s.peer /\ a.rd = s.rd /\ a.q = SubSeq(s.q, k + 1, Len(s.q))
        /\ b.hup = f.hup /\ b.run = f.run /\ b.out = f.out \o SubSeq(s.q, 1, k)
    BY <1>f DEF Socket, Descriptor
  <2>4. /\ a.q # <<>> /\ s.q # <<>>
        /\ Els(a.q) \subseteq Els(s.q) /\ Els(b.out) \subseteq Els(f.out) \cup Els(s.q)
    <3> DEFINE u == SubSeq(s.q, 1, k)
               v == SubSeq(s.q, k + 1, Len(s.q))
    <3>1. v # <<>> /\ s.q # <<>> /\ Els(v) \subseteq Els(s.q) /\ Els(f.out \o u) \subseteq Els(f.out) \cup Els(s.q)
      BY <1>f, <2>k, PartView
    <3>2. a.q = v /\ b.out = f.out \o u
      BY <2>3
    <3> HIDE DEF a, b, u, v
    <3> QED BY <3>1, <3>2
  <2>8. ~Open(p, i) => ~s.rd
    BY <1>f, <1>w, <2>1 DEF QueueOK, Open
  <2> HIDE DEF a, b
  <2>7. SameRun(p, i, {})
    BY <2>2, <2>3, <2>4 DEF SameRun, RunsOf
  <2>9. Idles(p, i)
    BY <2>e, <2>1, <2>2, <2>3, <2>4, <2>7, <2>8 DEF Idles, Open, Peer
  <2> QED BY <2>9 DEF Works
<1>2. CASE WriteAll(p, i)
  <2> DEFINE b == [f EXCEPT !.out = f.out \o s.q]
  <2>1. /\ fd' = [fd EXCEPT ![p][i] = b] /\ next' = next /\ Kept /\ s.wr
    BY <1>q, <1>2 DEF WriteAll, TypeOK, Kept, link
  <2>2. b.hup = f.hup /\ b.run = f.run /\ Els(b.out) = Els(f.out) \cup Els(s.q)
    <3>1. b.hup = f.hup /\ b.run = f.run /\ b.out = f.out \o s.q
      BY <1>f DEF Descriptor
    <3> QED BY <1>f, <3>1, ElsConcat
  <2>3. s.q # <<>>
    BY <1>f, <2>1 DEF QueueOK
  <2> HIDE DEF b
  <2>4. CASE s.st = "closing"
    <3>1. sock' = [sock EXCEPT ![p][i] = Dead] /\ net' = net
      BY <1>2, <2>4 DEF WriteAll, Closed
    <3>2. sock'[p][i] = Dead /\ fd'[p][i] = b /\ OnlyAt(p, i)
      BY <1>q, <2>1, <3>1, OneChange
    <3>3. Dead.st = "dead" /\ Dead.peer = 0 /\ ~Dead.rd /\ Dead.q = <<>>
      BY DEF Dead, Asocket
    <3>4. SameRun(p, i, {})
      BY <2>2, <3>2, <3>3, ElsSmall DEF SameRun, RunsOf
    <3>5. s.peer = 0
      BY <1>f, <2>4 DEF QueueOK
    <3>6. Idles(p, i)
      BY <2>1, <2>2, <2>4, <3>1, <3>2, <3>3, <3>4, <3>5 DEF Idles, Open, Peer
    <3> QED BY <3>6 DEF Works
  <2>5. CASE s.st # "closing"
    <3> DEFINE a == [s EXCEPT !.q = <<>>, !.wr = FALSE]
               m == Pkt("OKAY", i, s.peer)
    <3>1. sock' = [sock EXCEPT ![p][i] = a] /\ Send(p, <<m>>)
      BY <1>2, <2>5 DEF WriteAll
    <3>2. s.st = "open" /\ s.peer # 0 /\ s.peer \in Nat /\ i \in Nat
      BY <1>f, <1>w, <2>1, <2>5 DEF QueueOK, Socket, Ids
    <3>3. m \in Packet /\ m.cmd = "OKAY" /\ m.arg0 = i /\ m.arg1 = s.peer
      BY <3>2, PktType DEF Pkt
    <3>4. a.st = "open" /\ a.peer = s.peer /\ a.rd = s.rd /\ a.q = <<>>
      BY <1>f, <3>2 DEF Socket
    <3> HIDE DEF a, m
    <3>5. Moved(p, FALSE, <<m>>)
      <4>1. <<m>> \in Seq(Packet)
        BY <3>3
      <4> QED BY <1>q, <3>1, <4>1, SendMoves
    <3>6. sock'[p][i] = a /\ fd'[p][i] = b /\ OnlyAt(p, i)
      BY <1>q, <2>1, <3>1, OneChange
    <3>7. SameRun(p, i, {})
      BY <2>2, <3>4, <3>6, ElsSmall DEF SameRun, RunsOf
    <3>8. Says(p, i, m)
      BY <2>1, <2>2, <2>3, <3>2, <3>3, <3>4, <3>5, <3>6, <3>7 DEF Says, Open, Peer
    <3> QED BY <3>3, <3>8 DEF Works
  <2> QED BY <2>4, <2>5
<1>3. CASE WriteError(p, i)
  <2>1. /\ sock' = [sock EXCEPT ![p][i] = Closed(s, TRUE)]
        /\ fd' = [fd EXCEPT ![p][i] = CloseFd(s, f)] /\ next' = next /\ Kept /\ s.wr
        /\ Send(p, CloseMsgs(s, i))
    BY <1>q, <1>3 DEF WriteError, TypeOK, Kept, link
  <2>2. Moved(p, FALSE, CloseMsgs(s, i))
    BY <1>q, <1>f, <2>1, SendMoves, CloseMsgsView
  <2>3. CASE s.st = "open"
    BY <1>q, <2>1, <2>2, <2>3, LeavesView DEF Open, Works
  <2>4. CASE s.st = "closing"
    <3>1. s.peer = 0 /\ CloseMsgs(s, i) = <<>>
      BY <1>f, <2>4 DEF QueueOK, CloseMsgs
    <3>2. net' = net
      BY <1>q, <2>1, <3>1, ConcatEmptySeq DEF TypeOK, Send, Sent
    <3>3. sock'[p][i] = Closed(s, TRUE) /\ fd'[p][i] = CloseFd(s, f) /\ OnlyAt(p, i)
      BY <1>q, <2>1, OneChange
    <3>4. /\ Closed(s, TRUE).st # "open" /\ Closed(s, TRUE).peer = 0 /\ ~Closed(s, TRUE).rd
          /\ Els(Closed(s, TRUE).q) \subseteq Els(s.q)
          /\ CloseFd(s, f).run = f.run /\ CloseFd(s, f).out = f.out /\ CloseFd(s, f).hup = f.hup
      BY <1>f, ClosedView
    <3>5. SameRun(p, i, {})
      BY <3>3, <3>4 DEF SameRun, RunsOf
    <3>6. Idles(p, i)
      BY <2>1, <2>4, <3>1, <3>2, <3>3, <3>4, <3>5 DEF Idles, Open, Peer
    <3> QED BY <3>6 DEF Works
  <2> QED BY <1>w, <2>1, <2>3, <2>4
<1> QED BY <1>1, <1>2, <1>3

\* An event of a descriptor: FDE_READ.
LEMMA ReadViews ==
    ASSUME IInv, StatusInv, NEW p \in Side, NEW i \in Ids,
           NEW n \in 0..1, NEW is_eof \in BOOLEAN, ReadEvent(p, i, n, is_eof)
    PROVE  Works(p)
<1> DEFINE s == sock[p][i]
           f == fd[p][i]
           g == [f EXCEPT !.avail = @ - n, !.got = @ + n]
           m == Wrte(i, s.peer, g.got, g.run)
           data == IF n > 0 /\ s.peer # 0 THEN <<m>> ELSE <<>>
           after == IF data # <<>> THEN [s EXCEPT !.rd = FALSE] ELSE s
<1>q. TypeOK /\ QueueInv /\ ReplyInv /\ FreshInv
  BY DEF IInv, StatusInv
<1>f. s \in Socket /\ f \in Descriptor /\ QueueOK(s) /\ StatusOK(s, f)
  BY <1>q DEF TypeOK, QueueInv, ReplyInv
<1>1. s.st \in {"open", "closing"} /\ next' = next
  BY DEF ReadEvent, Readable
<1>0. Kept
  BY DEF ReadEvent, Kept, link
<1>r. /\ f.hup = "no" => s.rd
      /\ is_eof => f.hup # "no"
  BY DEF ReadEvent, Readable
<1>2. /\ is_eof => /\ sock' = [sock EXCEPT ![p][i] = Closed(after, FALSE)]
                   /\ fd' = [fd EXCEPT ![p][i] = CloseFd(after, g)]
                   /\ Send(p, data \o CloseMsgs(after, i))
      /\ ~is_eof => /\ sock' = [sock EXCEPT ![p][i] = after] /\ fd' = [fd EXCEPT ![p][i] = g]
                    /\ Send(p, data)
  BY DEF ReadEvent, LastMsgs
<1>3. g \in Descriptor /\ g.hup = f.hup /\ g.out = f.out /\ g.run = f.run /\ g.run \in Nat /\ g.got \in Nat
  <2>1. n \in 0..f.avail
    BY DEF ReadEvent
  <2>2. f.avail - n \in Nat /\ f.got + n \in Nat
    <3>1. f.avail \in Nat /\ f.got \in Nat
      BY <1>f DEF Descriptor
    <3> QED BY <2>1, <3>1
  <2> QED BY <1>f, <2>2 DEF Descriptor
<1> HIDE DEF g
<1>4. /\ m \in Packet /\ m.cmd = "WRTE" /\ m.arg0 = i /\ m.arg1 = s.peer /\ m.run = f.run
  <2>1. i \in Nat /\ s.peer \in Nat
    BY <1>f DEF Socket, Ids
  <2> QED BY <1>3, <2>1, WrteType DEF Wrte, Pkt
<1> HIDE DEF m
<1>5. /\ data \in Seq(Packet)
      /\ n > 0 /\ s.peer # 0 => data = <<m>> /\ Els(data) = {m} /\ data # <<>>
      /\ ~(n > 0 /\ s.peer # 0) => data = <<>> /\ Els(data) = {}
  BY <1>4, ElsSmall
<1> HIDE DEF data
<1>6. /\ after \in Socket /\ QueueOK(after) /\ after.st = s.st /\ after.peer = s.peer /\ after.q = s.q
      /\ after.rig = s.rig
      /\ data # <<>> => ~after.rd
      /\ data = <<>> => after = s
  BY <1>f DEF Socket, QueueOK
<1> HIDE DEF after
<1>7. CASE ~is_eof /\ data = <<>>
  <2>0. sock'[p][i] = after /\ fd'[p][i] = g /\ OnlyAt(p, i)
    BY <1>q, <1>2, <1>7, OneChange
  <2>1. sock'[p][i] = s /\ fd'[p][i] = g /\ OnlyAt(p, i)
    BY <1>6, <1>7, <2>0
  <2>2. net' = net
    BY <1>q, <1>2, <1>7, ConcatEmptySeq DEF TypeOK, Send, Sent
  <2>3. SameRun(p, i, {})
    BY <1>3, <2>1 DEF SameRun, RunsOf
  <2>4. s.st # "open" => ~s.rd
    BY <1>f, <1>1 DEF QueueOK
  <2>5. Idles(p, i)
    BY <1>0, <1>1, <1>3, <2>1, <2>2, <2>3, <2>4 DEF Idles, Open, Peer
  <2> QED BY <2>5 DEF Works
<1>8. CASE ~is_eof /\ data # <<>>
  <2>1. sock'[p][i] = after /\ fd'[p][i] = g /\ OnlyAt(p, i)
    BY <1>q, <1>2, <1>8, OneChange
  <2>2. Moved(p, FALSE, <<m>>) /\ s.peer # 0
    BY <1>q, <1>2, <1>5, <1>8, SendMoves
  <2>3. SameRun(p, i, {})
    BY <1>3, <1>6, <2>1 DEF SameRun, RunsOf
  <2>4. s.st = "open"
    BY <1>f, <1>1, <2>2 DEF QueueOK
  <2>6. ~sock'[p][i].rd /\ sock'[p][i].q = s.q /\ sock'[p][i].st = "open" /\ sock'[p][i].peer = s.peer
    BY <1>6, <1>8, <2>1, <2>4
  <2>7. fd'[p][i].hup = f.hup
    BY <1>3, <2>1
  <2>5. Says(p, i, m)
    BY <1>0, <1>1, <1>4, <1>r, <2>1, <2>2, <2>3, <2>4, <2>6, <2>7 DEF Says, Open, Peer
  <2> QED BY <1>4, <2>5 DEF Works
<1>9. CASE is_eof
  <2>1. sock'[p][i] = Closed(after, FALSE) /\ fd'[p][i] = CloseFd(after, g) /\ OnlyAt(p, i)
    <3>1. /\ sock' = [sock EXCEPT ![p][i] = Closed(after, FALSE)]
          /\ fd' = [fd EXCEPT ![p][i] = CloseFd(after, g)]
      BY <1>2, <1>9, Zenon
    <3> HIDE DEF Closed, CloseFd
    <3> QED BY <1>q, <3>1, OneChange
  <2>2. /\ Closed(after, FALSE).st # "open" /\ Closed(after, FALSE).peer = 0 /\ ~Closed(after, FALSE).rd
        /\ Els(Closed(after, FALSE).q) \subseteq Els(s.q)
        /\ CloseFd(after, g).run = f.run /\ CloseFd(after, g).out = f.out /\ CloseFd(after, g).hup = f.hup
    BY <1>3, <1>6, ClosedView
  <2>3. SameRun(p, i, {})
    BY <2>1, <2>2 DEF SameRun, RunsOf
  <2>4. /\ CloseMsgs(after, i) \in Seq(Packet)
        /\ \A x \in Els(CloseMsgs(after, i)) : x.cmd = "CLSE" /\ x.arg0 = i /\ x.arg1 = s.peer /\ s.peer # 0
        /\ s.peer # 0 => \E x \in Els(CloseMsgs(after, i)) : x.cmd = "CLSE"
        /\ Len(CloseMsgs(after, i)) <= 1
    BY <1>6, CloseMsgsView
  <2> DEFINE ms == data \o CloseMsgs(after, i)
  <2>5. ms \in Seq(Packet) /\ Els(ms) = Els(data) \cup Els(CloseMsgs(after, i))
    BY <1>5, <2>4, ElsConcat, ConcatProperties
  <2>l. ClseLast(ms)
    <3> DEFINE cl == CloseMsgs(after, i)
    <3>1. cl \in Seq(Packet) /\ Len(cl) \in Nat /\ Len(cl) <= 1
      BY <2>4, LenProperties
    <3> HIDE DEF cl
    <3>2. CASE data = <<>>
      BY <3>1, <3>2, ConcatEmptySeq DEF ClseLast, cl
    <3>3. CASE data = <<m>>
      <4>1. <<m>> \in Seq(Packet) /\ Len(<<m>>) = 1 /\ <<m>>[1] = m
        BY <1>4
      <4>2. /\ Len(<<m>> \o cl) = 1 + Len(cl)
            /\ \A k \in 1..1 + Len(cl) : (<<m>> \o cl)[k] = IF k <= 1 THEN <<m>>[k] ELSE cl[k - 1]
        BY <3>1, <4>1, ConcatProperties
      <4>3. ASSUME NEW k \in 1..Len(<<m>> \o cl), NEW l \in 1..Len(<<m>> \o cl), k < l
            PROVE  (<<m>> \o cl)[k].cmd # "CLSE"
        BY <1>4, <3>1, <4>1, <4>2, <4>3
      <4> QED BY <3>3, <4>3 DEF ClseLast, cl
    <3> QED BY <1>5, <3>2, <3>3
  <2>6. Moved(p, FALSE, ms)
    BY <1>q, <1>2, <1>9, <2>5, SendMoves
  <2> HIDE DEF ms
  <2>7. CASE s.st = "open"
    <3>1. /\ \A x \in Els(ms) : /\ x.cmd \in {"WRTE", "CLSE"}
                                /\ x.arg0 = i /\ x.arg1 = s.peer /\ s.peer # 0
                                /\ x.cmd = "WRTE" => x.run = f.run
          /\ s.peer # 0 => \E x \in Els(ms) : x.cmd = "CLSE"
      BY <1>4, <1>5, <2>4, <2>5
    <3>2. Leaves(p, i, FALSE, ms)
      BY <1>0, <1>1, <2>1, <2>2, <2>3, <2>l, <2>6, <2>7, <3>1 DEF Leaves, Open, Peer, GoneAt
    <3> QED BY <2>5, <3>2 DEF Works
  <2>8. CASE s.st = "closing"
    <3>1. s.peer = 0
      BY <1>f, <2>8 DEF QueueOK
    <3>2. net' = net
      <4>1. ms = <<>>
        BY <1>5, <1>6, <3>1 DEF CloseMsgs, ms
      <4>2. net[p] \o <<>> = net[p]
        BY <1>q, ConcatEmptySeq DEF TypeOK
      <4>3. Send(p, <<>>)
        BY <1>2, <1>9, <4>1 DEF ms
      <4> QED BY <1>q, <4>2, <4>3 DEF Send, Sent, TypeOK
    <3>3. Idles(p, i)
      BY <1>0, <1>1, <2>1, <2>2, <2>3, <2>8, <3>1, <3>2 DEF Idles, Open, Peer
    <3> QED BY <3>3 DEF Works
  <2> QED BY <1>1, <2>7, <2>8
<1> QED BY <1>7, <1>8, <1>9

\* The application writes or hangs up.
LEMMA AppViews ==
    ASSUME IInv, StatusInv, NEW p \in Side, NEW i \in Ids, App(p, i)
    PROVE  Works(p)
<1> DEFINE s == sock[p][i]
           f == fd[p][i]
<1>q. TypeOK /\ QueueInv
  BY DEF IInv
<1>f. s \in Socket /\ f \in Descriptor /\ QueueOK(s)
  BY <1>q DEF TypeOK, QueueInv
<1>1. s.st \in {"open", "closing"} /\ next' = next /\ sock' = sock /\ net' = net /\ f.hup = "no"
  BY DEF App, AppWrite, AppHangup
<1>0. Kept
  BY DEF App, AppWrite, AppHangup, Kept, link
<1>2. /\ fd'[p][i].run = f.run /\ fd'[p][i].out = f.out
      /\ \A q \in Side, j \in Ids : q # p \/ j # i => fd'[q][j] = fd[q][j]
  <2>1. CASE AppWrite(p, i)
    BY <1>f, <1>q, <2>1 DEF AppWrite, TypeOK, Descriptor
  <2>2. ASSUME NEW how \in Hangups, AppHangup(p, i, how)
        PROVE  /\ fd'[p][i].run = f.run /\ fd'[p][i].out = f.out
               /\ \A q \in Side, j \in Ids : q # p \/ j # i => fd'[q][j] = fd[q][j]
    BY <1>f, <1>q, <2>2 DEF AppHangup, TypeOK, Descriptor
  <2> QED BY <2>1, <2>2 DEF App
<1>3. SameRun(p, i, {}) /\ OnlyAt(p, i)
  BY <1>1, <1>2 DEF SameRun, RunsOf, OnlyAt
<1>4. s.st # "open" => ~s.rd
  BY <1>f, <1>1 DEF QueueOK
<1>5. Idles(p, i)
  BY <1>0, <1>1, <1>3, <1>4 DEF Idles, Open, Peer
<1> QED BY <1>5 DEF Works

\* A chunk is added.
LEMMA ElsAppend ==
    ASSUME NEW S, NEW s \in Seq(S), NEW c \in S
    PROVE  Els(Append(s, c)) = Els(s) \cup {c} /\ Append(s, c) # <<>>
<1>1. <<c>> \in Seq(S)
  OBVIOUS
<1>2. Append(s, c) = s \o <<c>>
  BY AppendIsConcat
<1>3. Els(s \o <<c>>) = Els(s) \cup Els(<<c>>)
  BY <1>1, ElsConcat
<1>4. Els(<<c>>) = {c}
  BY ElsSmall
<1>5. Append(s, c) # <<>>
  BY AppendProperties
<1> QED BY <1>2, <1>3, <1>4, <1>5

\* The server processes of the chunks of a stream that changes.
LEMMA RunsOfNext ==
    ASSUME NEW p \in Side, NEW i \in Ids, NEW a, NEW b, sock'[p][i] = a, fd'[p][i] = b
    PROVE  RunsOf(p, i)' = {c.run : c \in Els(a.q) \cup Els(b.out)}
BY DEF RunsOf

\* A new stream has no chunks.
LEMMA NewRuns ==
    ASSUME NEW p \in Side, NEW i \in Ids, sock'[p][i].q = <<>>, fd'[p][i].out = <<>>
    PROVE  RunsOf(p, i)' = {}
BY ElsSmall DEF RunsOf

\* A client or a listener opens a stream.
LEMMA DialViews ==
    ASSUME IInv, StatusInv, NEW p \in Side, NEW rigged \in Notify, ConnectToRemote(p, rigged)
    PROVE  Works(p)
<1>i. next[p] \in Ids
  BY DEF ConnectToRemote, TypeOK, IInv, Ids
<1>p. PICK i \in Ids : i = next[p]
  BY <1>i
<1> DEFINE m == [Pkt("OPEN", i, 0) EXCEPT !.run = runs]
           b == [fd[p][i] EXCEPT !.run = runs, !.reply = IF rigged THEN "await" ELSE fd[p][i].reply]
<1>q. TypeOK /\ FreshInv
  BY DEF IInv, StatusInv
<1>1. i \in Ids /\ rigged \in BOOLEAN /\ i \in Nat /\ runs \in Nat
  BY <1>q DEF TypeOK, Ids
<1>2. fd[p][i] = NewFd /\ sock[p][i].st = "none"
  BY <1>q, <1>p DEF FreshInv, TypeOK, Ids
<1>3. /\ sock' = [sock EXCEPT ![p][i] = Asocket("open", 0, FALSE, rigged)]
      /\ fd' = [fd EXCEPT ![p][i] = b]
      /\ next' = [next EXCEPT ![p] = i + 1] /\ Send(p, <<m>>)
  BY <1>q, <1>1, <1>p DEF ConnectToRemote, TypeOK
<1>0. Kept /\ online[p] /\ p \in Openers
  BY DEF ConnectToRemote, Kept, link
<1>4. b.out = <<>> /\ b.run = runs
  BY <1>2 DEF NewFd
<1>5. m \in Packet /\ m.cmd = "OPEN" /\ m.arg0 = i /\ m.arg1 = 0 /\ m.run = runs
  BY <1>1 DEF Pkt, Packet
<1> HIDE DEF m, b
<1>6. Moved(p, FALSE, <<m>>)
  <2>1. <<m>> \in Seq(Packet)
    BY <1>5
  <2> QED BY <1>q, <1>3, <2>1, SendMoves
<1>7. /\ OnlyAt(p, i) /\ fd'[p][i] = b
      /\ sock'[p][i].st = "open" /\ sock'[p][i].peer = 0 /\ sock'[p][i].rd = FALSE
      /\ sock'[p][i].q = <<>>
  <2>1. sock'[p][i] = Asocket("open", 0, FALSE, rigged) /\ fd'[p][i] = b /\ OnlyAt(p, i)
    BY <1>q, <1>3, OneChange
  <2> QED BY <2>1 DEF Asocket
<1>9. RunsOf(p, i)' = {}
  BY <1>4, <1>7, NewRuns
<1>8. Dials(p, i, m)
  BY <1>9, <1>p, <1>0, <1>1, <1>3, <1>4, <1>5, <1>6, <1>7 DEF Dials
<1> QED BY <1>5, <1>8 DEF Works

\* A packet other than A_CNXN.
LEMMA PacketViews ==
    ASSUME IInv, StatusInv, NEW p \in Side, HandlePacket(p), Got(p).cmd # "CNXN"
    PROVE  Works(p) \/ \E m \in Packet : Repeats(TRUE, m)
<1>p. PICK i : i = Got(p).arg1
  OBVIOUS
<1> DEFINE h == Got(p)
           s == sock[p][i]
           f == fd[p][i]
<1>q. TypeOK /\ QueueInv /\ ReplyInv /\ FreshInv
  BY DEF IInv, StatusInv
<1>e. net[Other(p)] # <<>>
  BY DEF HandlePacket
<1>h. h \in Packet /\ h.arg0 \in Nat /\ h.arg1 \in Nat /\ h.n \in Nat /\ h.run \in Nat
  BY <1>q, <1>e, HeadType DEF Got, Packet
<1>n. \/ HandleOpen(p, h) \/ HandleOpenFails(p, h)
      \/ HandleOkay(p, h) \/ HandleOkayGone(p, h)
      \/ HandleWrte(p, h) \/ HandleWrteQueues(p, h) \/ HandleWrteFails(p, h)
      \/ HandleClse(p, h)
      \/ IgnoreStale(p, h) \/ \E resend \in BOOLEAN : IgnoreOffline(p, h, resend)
  BY DEF HandlePacket, Got, HandleCnxn
<1> HIDE DEF h
<1>f. ASSUME i \in Ids
      PROVE  s \in Socket /\ f \in Descriptor /\ QueueOK(s) /\ f.out \in Seq(Chunks) /\ s.q \in Seq(Chunks)
  BY <1>q, <1>f DEF TypeOK, QueueInv, Socket, Descriptor
<1>z. <<>> \in Seq(Packet)
  OBVIOUS
<1>i. h.arg1 = i
  BY <1>p DEF h
<1>1. CASE HandleOpen(p, h)
  <2>i. next[p] \in Ids
    BY <1>q, <1>1 DEF HandleOpen, TypeOK, Ids
  <2>p. PICK x \in Ids : x = next[p]
    BY <2>i
  <2> DEFINE b == [fd[p][x] EXCEPT !.run = h.run]
             m == Pkt("OKAY", x, h.arg0)
  <2>1. x \in Ids /\ x \in Nat
    BY <1>q DEF TypeOK, Ids
  <2>2. fd[p][x] = NewFd
    BY <1>q, <2>1, <2>p DEF FreshInv, TypeOK
  <2>3. /\ sock' = [sock EXCEPT ![p][x] = Asocket("open", h.arg0, TRUE, FALSE)]
        /\ fd' = [fd EXCEPT ![p][x] = b]
        /\ next' = [next EXCEPT ![p] = x + 1] /\ Reply(p, <<m>>)
    BY <1>1, <2>p DEF HandleOpen
  <2>0. Kept /\ online[p] /\ h.cmd = "OPEN" /\ h.arg0 # 0
    BY <1>1 DEF HandleOpen, Kept, link
  <2>4. b.out = <<>> /\ b.run = h.run
    BY <2>2 DEF NewFd
  <2>5. m \in Packet /\ m.cmd = "OKAY" /\ m.arg0 = x /\ m.arg1 = h.arg0
    BY <1>h, <2>1, PktType DEF Pkt
  <2> HIDE DEF m, b
  <2>6. Moved(p, TRUE, <<m>>)
    <3>1. <<m>> \in Seq(Packet)
      BY <2>5
    <3> QED BY <1>q, <1>e, <2>3, <3>1, ReplyMoves
  <2>7. /\ OnlyAt(p, x) /\ fd'[p][x] = b
        /\ sock'[p][x].st = "open" /\ sock'[p][x].peer = h.arg0 /\ sock'[p][x].rd = TRUE
        /\ sock'[p][x].q = <<>>
    <3>1. sock'[p][x] = Asocket("open", h.arg0, TRUE, FALSE) /\ fd'[p][x] = b /\ OnlyAt(p, x)
      BY <1>q, <2>3, OneChange
    <3> QED BY <3>1 DEF Asocket
  <2>9. RunsOf(p, x)' = {}
    BY <2>4, <2>7, NewRuns
  <2>8. Accepts(p, x, m)
    BY <2>9, <2>p, <2>0, <2>1, <2>3, <2>4, <2>5, <2>6, <2>7 DEF Accepts, h
  <2> QED BY <2>5, <2>8 DEF Works
<1>2. CASE HandleOpenFails(p, h)
  <2> DEFINE m == Pkt("CLSE", 0, h.arg0)
  <2>1. m \in Packet /\ m.cmd = "CLSE" /\ m.arg0 = 0 /\ m.arg1 = h.arg0
    BY <1>h, PktType DEF Pkt
  <2>2. Kept /\ online[p] /\ h.cmd = "OPEN" /\ h.arg0 # 0 /\ UNCHANGED <<sock, fd, next>> /\ Reply(p, <<m>>)
    BY <1>2 DEF HandleOpenFails, Kept, link
  <2> HIDE DEF m
  <2>3. Moved(p, TRUE, <<m>>)
    <3>1. <<m>> \in Seq(Packet)
      BY <2>1
    <3> QED BY <1>q, <1>e, <2>2, <3>1, ReplyMoves
  <2>4. Refuses(p, m)
    BY <2>1, <2>2, <2>3 DEF Refuses, h
  <2> QED BY <2>1, <2>4 DEF Works
<1>3. CASE HandleOkayGone(p, h)
  <2> DEFINE m == Pkt("CLSE", h.arg1, h.arg0)
  <2>1. m \in Packet /\ m.cmd = "CLSE" /\ m.arg0 = h.arg1 /\ m.arg1 = h.arg0
    BY <1>h, PktType DEF Pkt
  <2>2. /\ Kept /\ online[p] /\ h.cmd = "OKAY" /\ h.arg0 # 0 /\ h.arg1 # 0
        /\ UNCHANGED <<sock, fd, next>> /\ Reply(p, <<m>>)
    BY <1>3 DEF HandleOkayGone, Kept, link
  <2>5. ~(h.arg1 \in Ids /\ Open(p, h.arg1))
    BY <1>3 DEF HandleOkayGone, Found, Open
  <2> HIDE DEF m
  <2>3. Moved(p, TRUE, <<m>>)
    <3>1. <<m>> \in Seq(Packet)
      BY <2>1
    <3> QED BY <1>q, <1>e, <2>2, <3>1, ReplyMoves
  <2>4. Refuses(p, m)
    BY <2>1, <2>2, <2>3, <2>5 DEF Refuses, h
  <2> QED BY <2>1, <2>4 DEF Works
<1>4. CASE HandleOkay(p, h)
  <2>0. Kept /\ online[p] /\ h.cmd = "OKAY" /\ h.arg0 # 0 /\ next' = next /\ Reply(p, <<>>)
    BY <1>i, <1>4 DEF HandleOkay, Kept, link
  <2>1. i \in Ids /\ s.st = "open"
    BY <1>i, <1>4 DEF HandleOkay, Found
  <2>m. Moved(p, TRUE, <<>>)
    BY <1>q, <1>e, <1>z, <2>0, ReplyMoves
  <2>2. CASE s.peer \in {0, h.arg0}
    <3> DEFINE a == [s EXCEPT !.peer = h.arg0, !.rd = TRUE, !.rig = FALSE]
               b == [f EXCEPT !.reply = IF s.rig THEN "OKAY" ELSE f.reply]
    <3>1. /\ sock' = [sock EXCEPT ![p][i] = a]
          /\ fd' = [fd EXCEPT ![p][i] = b]
      BY <1>i, <1>4, <2>2 DEF HandleOkay
    <3>2. /\ a.st = "open" /\ a.peer = h.arg0 /\ a.rd = TRUE /\ a.q = s.q
          /\ b.out = f.out /\ b.run = f.run /\ b.hup = f.hup
      BY <1>i, <1>f, <2>1 DEF Socket, Descriptor
    <3> HIDE DEF a, b
    <3>3. sock'[p][i] = a /\ fd'[p][i] = b /\ OnlyAt(p, i)
      BY <1>q, <2>1, <3>1, OneChange
    <3>4. SameRun(p, i, {})
      <4>1. fd'[p][i].run = f.run /\ sock'[p][i].q = s.q /\ fd'[p][i].out = f.out
        BY <3>2, <3>3
      <4>2. Els(sock'[p][i].q) \cup Els(fd'[p][i].out) \subseteq Els(s.q) \cup Els(f.out) \cup {}
        BY <4>1
      <4>3. SameRun(p, i, {c.run : c \in {}})
        BY <2>1, <4>1, <4>2, ChunksKept
      <4> QED BY <1>i, <4>3 DEF SameRun
    <3>5. Resumes(p, i)
      BY <1>i, <2>0, <2>1, <2>m, <2>2, <3>2, <3>3, <3>4 DEF Resumes, h, Open, Peer
    <3> QED BY <1>i, <2>1, <3>5 DEF Works
  <2>3. CASE ~(s.peer \in {0, h.arg0})
    <3>1. UNCHANGED <<sock, fd>>
      BY <1>i, <1>4, <2>3 DEF HandleOkay
    <3>2. Drops(p)
      BY <1>i, <2>0, <2>1, <2>m, <2>3, <3>1 DEF Drops, h, Open, Peer
    <3> QED BY <1>i, <3>2 DEF Works
  <2> QED BY <2>2, <2>3
<1>5. CASE HandleWrte(p, h)
  <2> DEFINE m == Pkt("OKAY", i, h.arg0)
             b == [f EXCEPT !.out = Append(f.out, Chunk(h))]
  <2>0. Kept /\ online[p] /\ h.cmd = "WRTE" /\ h.arg0 # 0 /\ next' = next /\ sock' = sock
        /\ Reply(p, <<m>>)
    BY <1>i, <1>5 DEF HandleWrte, Kept, link
  <2>1. i \in Ids /\ s.st = "open" /\ s.peer = h.arg0 /\ s.q = <<>>
    BY <1>i, <1>5 DEF HandleWrte, Found
  <2>2. fd' = [fd EXCEPT ![p][i] = b]
    BY <1>i, <1>5 DEF HandleWrte
  <2>3. m \in Packet /\ m.cmd = "OKAY" /\ m.arg0 = i /\ m.arg1 = h.arg0
    BY <1>i, <1>h, PktType DEF Pkt
  <2>4. b.run = f.run /\ b.hup = f.hup /\ Els(b.out) = Els(f.out) \cup {Chunk(h)} /\ Chunk(h).run = h.run
    <3>1. b.run = f.run /\ b.hup = f.hup /\ b.out = Append(f.out, Chunk(h))
      BY <1>i, <1>f, <2>1 DEF Descriptor
    <3>2. Chunk(h) \in Chunks /\ Chunk(h).run = h.run
      BY <1>i, <1>h, ChunkType DEF Chunk
    <3>3. Els(Append(f.out, Chunk(h))) = Els(f.out) \cup {Chunk(h)} /\ Append(f.out, Chunk(h)) # <<>>
      BY <1>f, <2>1, <3>2, ElsAppend
    <3> HIDE DEF b
    <3> QED BY <3>1, <3>2, <3>3
  <2> HIDE DEF m, b
  <2>m. Moved(p, TRUE, <<m>>)
    <3>1. <<m>> \in Seq(Packet)
      BY <2>3
    <3> QED BY <1>q, <1>e, <2>0, <3>1, ReplyMoves
  <2>5. fd'[p][i] = b /\ OnlyAt(p, i)
    BY <1>i, <1>q, <2>0, <2>1, <2>2 DEF OnlyAt, TypeOK
  <2>6. SameRun(p, i, {h.run})
    <3>1. fd'[p][i].run = f.run
      BY <2>4, <2>5
    <3>2. Els(sock'[p][i].q) \cup Els(fd'[p][i].out) \subseteq Els(s.q) \cup Els(f.out) \cup {Chunk(h)}
      BY <2>0, <2>4, <2>5
    <3>3. SameRun(p, i, {c.run : c \in {Chunk(h)}})
      BY <2>1, <3>1, <3>2, ChunksKept
    <3>4. {c.run : c \in {Chunk(h)}} = {h.run}
      BY <2>4
    <3> QED BY <3>3, <3>4
  <2>7. Takes(p, i, <<m>>)
    BY <1>i, <2>0, <2>1, <2>3, <2>4, <2>m, <2>5, <2>6 DEF Takes, h, Open, Peer
  <2>8. <<m>> \in Seq(Packet)
    BY <2>3
  <2> QED BY <1>i, <2>1, <2>7, <2>8 DEF Works
<1>6. CASE HandleWrteQueues(p, h)
  <2> DEFINE a == [s EXCEPT !.q = Append(s.q, Chunk(h)), !.wr = TRUE]
  <2>0. Kept /\ online[p] /\ h.cmd = "WRTE" /\ h.arg0 # 0 /\ next' = next /\ fd' = fd
        /\ Reply(p, <<>>)
    BY <1>i, <1>6 DEF HandleWrteQueues, Kept, link
  <2>1. i \in Ids /\ s.st = "open" /\ s.peer = h.arg0
    BY <1>i, <1>6 DEF HandleWrteQueues, Found
  <2>2. sock' = [sock EXCEPT ![p][i] = a]
    BY <1>i, <1>q, <1>6, <2>1 DEF HandleWrteQueues, TypeOK
  <2>4. /\ a.st = "open" /\ a.peer = s.peer /\ a.rd = s.rd /\ a.q # <<>>
        /\ Els(a.q) = Els(s.q) \cup {Chunk(h)} /\ Chunk(h).run = h.run
    <3>1. a.st = "open" /\ a.peer = s.peer /\ a.rd = s.rd /\ a.q = Append(s.q, Chunk(h))
      BY <1>i, <1>f, <2>1 DEF Socket
    <3>2. Chunk(h) \in Chunks /\ Chunk(h).run = h.run
      BY <1>i, <1>h, ChunkType DEF Chunk
    <3>3. Els(Append(s.q, Chunk(h))) = Els(s.q) \cup {Chunk(h)} /\ Append(s.q, Chunk(h)) # <<>>
      BY <1>f, <2>1, <3>2, ElsAppend
    <3> HIDE DEF a
    <3> QED BY <3>1, <3>2, <3>3
  <2> HIDE DEF a
  <2>m. Moved(p, TRUE, <<>>)
    BY <1>q, <1>e, <1>z, <2>0, ReplyMoves
  <2>5. sock'[p][i] = a /\ OnlyAt(p, i)
    BY <1>i, <1>q, <2>0, <2>1, <2>2 DEF OnlyAt, TypeOK
  <2>6. SameRun(p, i, {h.run})
    <3>1. fd'[p][i].run = f.run
      BY <2>0
    <3>2. Els(sock'[p][i].q) \cup Els(fd'[p][i].out) \subseteq Els(s.q) \cup Els(f.out) \cup {Chunk(h)}
      BY <2>0, <2>4, <2>5
    <3>3. SameRun(p, i, {c.run : c \in {Chunk(h)}})
      BY <2>1, <3>1, <3>2, ChunksKept
    <3>4. {c.run : c \in {Chunk(h)}} = {h.run}
      BY <2>4
    <3> QED BY <3>3, <3>4
  <2>7. Takes(p, i, <<>>)
    BY <1>i, <2>0, <2>1, <2>4, <2>m, <2>5, <2>6 DEF Takes, h, Open, Peer
  <2> QED BY <1>i, <1>z, <2>1, <2>7 DEF Works
<1>7. CASE HandleWrteFails(p, h) \/ HandleClse(p, h)
  <2>1. PICK e \in BOOLEAN :
           /\ sock' = [sock EXCEPT ![p][i] = Closed(@, e)]
           /\ fd' = [fd EXCEPT ![p][i] = CloseFd(sock[p][i], @)]
    BY <1>i, <1>7 DEF HandleWrteFails, HandleClse
  <2>2. Kept /\ next' = next /\ Reply(p, CloseMsgs(s, i)) /\ online[p] /\ h.cmd \in {"WRTE", "CLSE"}
    BY <1>i, <1>7 DEF HandleWrteFails, HandleClse, Kept, link
  <2>3. i \in Ids /\ Open(p, i) /\ (h.arg0 = 0 \/ h.arg0 = Peer(p, i))
    BY <1>i, <1>7 DEF HandleWrteFails, HandleClse, Found, Open, Peer
  <2>4. Moved(p, TRUE, CloseMsgs(s, i))
    BY <1>q, <1>e, <1>f, <2>2, <2>3, ReplyMoves, CloseMsgsView
  <2>5. /\ sock' = [sock EXCEPT ![p][i] = Closed(s, e)]
        /\ fd' = [fd EXCEPT ![p][i] = CloseFd(s, f)]
    BY <1>i, <1>q, <2>1, <2>3 DEF TypeOK
  <2>6. \E ms \in Seq(Packet) : Leaves(p, i, TRUE, ms)
    BY <1>i, <1>q, <2>2, <2>3, <2>4, <2>5, LeavesView DEF h
  <2> QED BY <1>i, <2>3, <2>6 DEF Works
<1>8. CASE IgnoreStale(p, h)
  <2>1. Kept /\ next' = next /\ Reply(p, <<>>) /\ online[p] /\ h.cmd \in {"WRTE", "CLSE"}
        /\ UNCHANGED <<sock, fd>> /\ ~Found(p, h.arg1, h.arg0)
    BY <1>i, <1>8 DEF IgnoreStale, Kept, link
  <2>2. Moved(p, TRUE, <<>>)
    BY <1>q, <1>e, <1>z, <2>1, ReplyMoves
  <2>3. Drops(p)
    BY <1>i, <2>1, <2>2 DEF Drops, h
  <2> QED BY <1>i, <2>3 DEF Works
<1>9. ASSUME NEW resend \in BOOLEAN, IgnoreOffline(p, h, resend)
      PROVE  Works(p) \/ \E m \in Packet : Repeats(TRUE, m)
  <2>1. CASE ~resend
    <3>1. Kept /\ next' = next /\ Reply(p, <<>>) /\ ~online[p] /\ h.cmd # "CNXN" /\ UNCHANGED <<sock, fd>>
      BY <1>i, <1>9, <2>1 DEF IgnoreOffline, Kept, link
    <3>2. Moved(p, TRUE, <<>>)
      BY <1>q, <1>e, <1>z, <3>1, ReplyMoves
    <3>3. Drops(p)
      BY <1>i, <3>1, <3>2 DEF Drops, h
    <3> QED BY <1>i, <3>3 DEF Works
  <2>2. CASE resend
    <3> DEFINE m == Pkt("CNXN", 0, 0)
    <3>1. /\ p = "host" /\ UNCHANGED <<sock, fd, next, online, up, runs>> /\ resends' = resends + 1
          /\ Reply(p, <<m>>) /\ ~online[p] /\ h.cmd # "CNXN"
      BY <1>i, <1>9, <2>2 DEF IgnoreOffline, link
    <3>2. m \in Packet /\ <<m>> \in Seq(Packet)
      BY PktType
    <3>3. Moved(p, TRUE, <<m>>)
      BY <1>q, <1>e, <3>1, <3>2, ReplyMoves
    <3>4. Repeats(TRUE, m)
      BY <1>i, <3>1, <3>3 DEF Repeats, h
    <3> QED BY <3>2, <3>4
  <2> QED BY <2>1, <2>2
<1> QED BY <1>n, <1>1, <1>2, <1>3, <1>4, <1>5, <1>6, <1>7, <1>8, <1>9

\* close_all_sockets.
LEMMA ClosedAllView ==
    ASSUME TypeOK, QueueInv, NEW p \in Side, CloseAll(p)
    PROVE  /\ ClosedAll(p)
           /\ \A j \in Ids : sock'[Other(p)][j] = sock[Other(p)][j] /\ fd'[Other(p)][j] = fd[Other(p)][j]
<1>1. ASSUME NEW j \in Ids PROVE sock'[Other(p)][j] = sock[Other(p)][j] /\ fd'[Other(p)][j] = fd[Other(p)][j]
  BY DEF Side, Other, CloseAll, TypeOK
<1>2. ASSUME NEW i \in Ids, ~Open(p, i) PROVE sock'[p][i] = sock[p][i] /\ fd'[p][i] = fd[p][i]
  BY <1>2 DEF CloseAll, TypeOK, Open
<1>3. ASSUME NEW i \in Ids, Open(p, i) PROVE GoneAt(p, i) /\ ~sock'[p][i].rd /\ SameRun(p, i, {})
  <2> DEFINE s == sock[p][i]
             f == fd[p][i]
             a == Closed(s, FALSE)
             b == CloseFd(s, f)
  <2>1. sock'[p][i] = a /\ fd'[p][i] = b
    BY <1>3 DEF CloseAll, TypeOK, Open
  <2>2. s \in Socket /\ f \in Descriptor /\ QueueOK(s)
    BY DEF TypeOK, QueueInv
  <2>3. a.st # "open" /\ a.peer = 0 /\ ~a.rd /\ Els(a.q) \subseteq Els(s.q)
        /\ b.run = f.run /\ b.out = f.out
    BY <2>2, ClosedView
  <2> HIDE DEF a, b
  <2>4. GoneAt(p, i) /\ ~sock'[p][i].rd
    BY <2>1, <2>3 DEF GoneAt
  <2>5. fd'[p][i].run = f.run
        /\ Els(sock'[p][i].q) \cup Els(fd'[p][i].out) \subseteq Els(s.q) \cup Els(f.out) \cup {}
    BY <2>1, <2>3
  <2>6. SameRun(p, i, {c.run : c \in {}})
    BY <2>5, ChunksKept
  <2> QED BY <2>4, <2>6 DEF SameRun
<1> QED BY <1>1, <1>2, <1>3 DEF ClosedAll

\* What close_all_sockets sends.
LEMMA CloseAllEls ==
    ASSUME TypeOK, NEW p \in Side, NEW f \in CloseOrder(p)
    PROVE  /\ CloseAllMsgs(p, f) \in Seq(Packet)
           /\ \A m \in Els(CloseAllMsgs(p, f)) :
                 m.cmd = "CLSE" /\ \E i \in Ids : m.arg0 = i /\ m.arg1 = Peer(p, i) /\ Open(p, i) /\ m.arg1 # 0
<1> DEFINE ids == {i \in Ids : sock[p][i].st = "open" /\ sock[p][i].peer # 0}
           ms == CloseAllMsgs(p, f)
<1>1. ms \in Seq(Packet)
  BY CloseAllMsgsType
<1>2. f \in [1..Cardinality(ids) -> ids]
  BY DEF CloseOrder
<1>3. DOMAIN ms = DOMAIN f
  BY DEF CloseAllMsgs
<1>4. 1..Len(ms) = DOMAIN f
  BY <1>1, <1>3, LenProperties
<1>5. ASSUME NEW k \in 1..Len(ms)
      PROVE  ms[k].cmd = "CLSE"
             /\ \E i \in Ids : ms[k].arg0 = i /\ ms[k].arg1 = Peer(p, i) /\ Open(p, i) /\ ms[k].arg1 # 0
  BY <1>2, <1>4 DEF CloseAllMsgs, Pkt, Peer, Open
<1> HIDE DEF ms
<1>6. \A m \in Els(ms) : m.cmd = "CLSE"
             /\ \E i \in Ids : m.arg0 = i /\ m.arg1 = Peer(p, i) /\ Open(p, i) /\ m.arg1 # 0
  BY <1>5 DEF Els
<1> QED BY <1>1, <1>6 DEF ms

\* A_CNXN.
LEMMA RestartViews ==
    ASSUME IInv, StatusInv, NEW p \in Side, net[Other(p)] # <<>>, HandleCnxn(p, Got(p))
    PROVE  \E ms \in Seq(Packet) : Restarts(p, ms)
<1>q. TypeOK /\ QueueInv
  BY DEF IInv
<1> DEFINE c == Pkt("CNXN", 0, 0)
           v == IF p = "device" THEN <<c>> ELSE <<>>
<1>1. PICK f \in CloseOrder(p) : Reply(p, (IF online[p] THEN CloseAllMsgs(p, f) ELSE <<>>) \o v)
  BY DEF HandleCnxn
<1> DEFINE u == IF online[p] THEN CloseAllMsgs(p, f) ELSE <<>>
           ms == u \o v
<1>2. c \in Packet /\ c.cmd = "CNXN"
  BY PktType DEF Pkt
<1>3. /\ v \in Seq(Packet) /\ \A m \in Els(v) : m = c /\ p = "device"
      /\ p = "device" => Len(v) = 1 /\ v[1] = c
  <2> HIDE DEF c
  <2>1. CASE p = "device"
    BY <1>2, <2>1, ElsSmall
  <2>2. CASE p # "device"
    BY <2>2, ElsSmall
  <2> QED BY <2>1, <2>2
<1>4. /\ u \in Seq(Packet)
      /\ \A m \in Els(u) : m.cmd = "CLSE"
             /\ \E i \in Ids : m.arg0 = i /\ m.arg1 = Peer(p, i) /\ Open(p, i) /\ m.arg1 # 0
  <2>1. CASE online[p]
    BY <1>q, <2>1, CloseAllEls
  <2>2. CASE ~online[p]
    <3>1. u = <<>> /\ <<>> \in Seq(Packet) /\ Els(<<>>) = {}
      BY <2>2, ElsSmall
    <3> HIDE DEF u
    <3> QED BY <3>1
  <2> QED BY <2>1, <2>2
<1>5. Reply(p, ms)
  BY <1>1
<1> HIDE DEF u, v
<1>6. ms \in Seq(Packet) /\ Els(ms) = Els(u) \cup Els(v)
  BY <1>3, <1>4, ElsConcat, ConcatProperties
<1>7. p = "device" => ms # <<>> /\ ms[Len(ms)].cmd = "CNXN"
  <2> SUFFICES ASSUME p = "device" PROVE ms # <<>> /\ ms[Len(ms)].cmd = "CNXN"
    OBVIOUS
  <2>0. /\ Len(ms) = Len(u) + Len(v) /\ Len(u) \in Nat
        /\ \A k \in 1..Len(u) + Len(v) : ms[k] = IF k <= Len(u) THEN u[k] ELSE v[k - Len(u)]
    BY <1>3, <1>4, ConcatProperties, LenProperties
  <2>1. Len(ms) = Len(u) + 1 /\ Len(u) \in Nat /\ ms[Len(u) + 1] = v[1]
    <3>1. Len(v) = 1
      BY <1>3
    <3> QED BY <2>0, <3>1
  <2>2. ms # <<>>
    BY <1>6, <2>1, EmptySeq
  <2> QED BY <1>2, <1>3, <2>1, <2>2
<1>c. CnxnLast(ms)
  <2> SUFFICES ASSUME NEW k \in 1..Len(ms), ms[k].cmd = "CNXN" PROVE k = Len(ms)
    BY DEF CnxnLast
  <2>1. /\ Len(ms) = Len(u) + Len(v) /\ Len(u) \in Nat /\ Len(v) \in Nat
        /\ ms[k] = IF k <= Len(u) THEN u[k] ELSE v[k - Len(u)]
    BY <1>3, <1>4, ConcatProperties, LenProperties
  <2>2. k > Len(u)
    <3> SUFFICES ASSUME k <= Len(u) PROVE FALSE
      BY <2>1
    <3>1. u[k] \in Els(u) /\ ms[k] = u[k]
      BY <2>1 DEF Els
    <3> QED BY <1>4, <3>1
  <2>3. v[k - Len(u)] \in Els(v)
    BY <2>1, <2>2 DEF Els
  <2>4. Len(v) = 1
    BY <1>3, <2>3
  <2> QED BY <2>1, <2>2, <2>4
<1> HIDE DEF ms
<1>8. Moved(p, TRUE, ms)
  BY <1>q, <1>5, <1>6, ReplyMoves
<1>9. \A m \in Els(ms) :
          \/ m = Pkt("CNXN", 0, 0) /\ p = "device"
          \/ m.cmd = "CLSE" /\ \E i \in Ids : m.arg0 = i /\ m.arg1 = Peer(p, i) /\ Open(p, i) /\ m.arg1 # 0
  BY <1>3, <1>4, <1>6
<1>10. /\ UNCHANGED <<next, up, runs, resends>> /\ online' = [online EXCEPT ![p] = TRUE]
       /\ Got(p).cmd = "CNXN"
  BY DEF HandleCnxn, link
<1>11. /\ \A j \in Ids : sock'[Other(p)][j] = sock[Other(p)][j] /\ fd'[Other(p)][j] = fd[Other(p)][j]
       /\ IF online[p] THEN ClosedAll(p)
          ELSE \A i \in Ids : sock'[p][i] = sock[p][i] /\ fd'[p][i] = fd[p][i]
  BY <1>q, ClosedAllView DEF HandleCnxn
<1>12. Restarts(p, ms)
  BY <1>7, <1>8, <1>9, <1>10, <1>11, <1>c DEF Restarts
<1> QED BY <1>6, <1>12

\* Every step is one of these.
LEMMA Views ==
    ASSUME IInv, StatusInv, [Next]_vars
    PROVE  (\E p \in Side : Works(p)) \/ Moves \/ UNCHANGED vars
<1>q. TypeOK /\ QueueInv
  BY DEF IInv
<1>1. ASSUME NEW p \in Side, NEW rigged \in Notify, ConnectToRemote(p, rigged) PROVE Works(p)
  BY <1>1, DialViews
<1>2. ASSUME NEW p \in Side, HandlePacket(p) PROVE Works(p) \/ Moves
  <2>0. net[Other(p)] # <<>>
    BY <1>2 DEF HandlePacket
  <2>1. CASE Got(p).cmd # "CNXN"
    BY <1>2, <2>1, PacketViews DEF Moves
  <2>2. CASE Got(p).cmd = "CNXN"
    <3>1. HandleCnxn(p, Got(p))
      BY <1>2, <2>2 DEF HandlePacket, Got, HandleOpen, HandleOpenFails, HandleOkay, HandleOkayGone,
         HandleWrte, HandleWrteQueues, HandleWrteFails, HandleClse, IgnoreStale, IgnoreOffline
    <3>2. \E ms \in Seq(Packet) : Restarts(p, ms)
      BY <2>0, <3>1, RestartViews
    <3> QED BY <3>2 DEF Moves
  <2> QED BY <2>1, <2>2
<1>3. ASSUME NEW p \in Side, HandleOffline(p) PROVE Moves
  BY <1>q, <1>3, ClosedAllView DEF HandleOffline, link, Ends, Moves
<1>4. ASSUME ResendConnect PROVE Moves
  <2> DEFINE m == Pkt("CNXN", 0, 0)
  <2>1. m \in Packet /\ <<m>> \in Seq(Packet)
    BY PktType
  <2>2. /\ UNCHANGED <<sock, fd, next, online, up, runs>> /\ resends' = resends + 1
        /\ Send("host", <<m>>) /\ ~online["host"]
    BY <1>4 DEF ResendConnect, link
  <2>3. "host" \in Side
    BY DEF Side
  <2>4. Moved("host", FALSE, <<m>>)
    BY <1>q, <2>1, <2>2, <2>3, SendMoves
  <2>5. Repeats(FALSE, m)
    BY <2>2, <2>4 DEF Repeats
  <2> QED BY <2>1, <2>5 DEF Moves
<1>5. ASSUME NEW p \in Side, NEW i \in Ids, Event(p, i) \/ App(p, i) PROVE Works(p)
  BY <1>5, WriteViews, ReadViews, AppViews DEF Event
<1>6. CASE UNCHANGED vars
  BY <1>6
<1>7. CASE Next
  <2>1. ASSUME Connect \/ Break \/ HostRestart PROVE Moves
    BY <2>1 DEF Moves
  <2> QED BY <1>1, <1>2, <1>3, <1>4, <1>5, <1>7, <2>1 DEF Next
<1> QED BY <1>6, <1>7

-----------------------------------------------------------------------------
(* The packets on either side of the last A_CNXN of a channel *)

-----------------------------------------------------------------------------
(* Channels *)

\* The place of a packet in a longer channel.
LEMMA ConcatAt ==
    ASSUME NEW S, NEW s \in Seq(S), NEW t \in Seq(S)
    PROVE  /\ Len(s) \in Nat /\ Len(t) \in Nat /\ Len(s \o t) = Len(s) + Len(t)
           /\ \A k \in 1..Len(s) : k \in 1..Len(s \o t) /\ (s \o t)[k] = s[k]
           /\ \A k \in 1..Len(t) : k + Len(s) \in 1..Len(s \o t) /\ (s \o t)[k + Len(s)] = t[k]
           /\ \A k \in 1..Len(s \o t) : k \in 1..Len(s) \/ (k > Len(s) /\ k - Len(s) \in 1..Len(t))
           /\ \A k \in 1..Len(s \o t) : k > Len(s) => k - Len(s) \in 1..Len(t) /\ (s \o t)[k] = t[k - Len(s)]
<1>1. /\ Len(s \o t) = Len(s) + Len(t) /\ Len(s) \in Nat /\ Len(t) \in Nat
      /\ \A k \in 1..Len(s) + Len(t) : (s \o t)[k] = IF k <= Len(s) THEN s[k] ELSE t[k - Len(s)]
  BY ConcatProperties, LenProperties
<1>2. ASSUME NEW k \in 1..Len(s) PROVE k \in 1..Len(s \o t) /\ (s \o t)[k] = s[k]
  BY <1>1
<1>3. ASSUME NEW k \in 1..Len(t) PROVE k + Len(s) \in 1..Len(s \o t) /\ (s \o t)[k + Len(s)] = t[k]
  BY <1>1
<1>4. ASSUME NEW k \in 1..Len(s \o t) PROVE k \in 1..Len(s) \/ (k > Len(s) /\ k - Len(s) \in 1..Len(t))
  BY <1>1
<1>5. ASSUME NEW k \in 1..Len(s \o t), k > Len(s) PROVE k - Len(s) \in 1..Len(t) /\ (s \o t)[k] = t[k - Len(s)]
  BY <1>1, <1>5
<1> QED BY <1>1, <1>2, <1>3, <1>4, <1>5

\* And in a channel whose head was handled.
LEMMA TailAt ==
    ASSUME NEW S, NEW s \in Seq(S), s # <<>>
    PROVE  /\ Len(s) \in Nat \ {0} /\ Len(Tail(s)) = Len(s) - 1 /\ Head(s) = s[1] /\ 1 \in 1..Len(s)
           /\ \A k \in 1..Len(Tail(s)) : k + 1 \in 1..Len(s) /\ Tail(s)[k] = s[k + 1]
           /\ \A k \in 1..Len(s) : k = 1 \/ k - 1 \in 1..Len(Tail(s))
           /\ \A k \in 1..Len(s) : k # 1 => k - 1 \in 1..Len(Tail(s)) /\ Tail(s)[k - 1] = s[k]
<1>1. /\ Len(s) \in Nat \ {0} /\ Len(Tail(s)) = Len(s) - 1 /\ Head(s) = s[1]
      /\ \A k \in 1..Len(s) - 1 : Tail(s)[k] = s[k + 1]
  BY HeadTailProperties, EmptySeq
<1>2. ASSUME NEW k \in 1..Len(Tail(s)) PROVE k + 1 \in 1..Len(s) /\ Tail(s)[k] = s[k + 1]
  BY <1>1
<1>3. ASSUME NEW k \in 1..Len(s), k # 1 PROVE k - 1 \in 1..Len(Tail(s)) /\ Tail(s)[k - 1] = s[k]
  BY <1>1, <1>3
<1> QED BY <1>1, <1>2, <1>3

\* Every packet is early or late.
LEMMA EarlyOrLate ==
    ASSUME NEW s
    PROVE  /\ Els(s) = Early(s) \cup Late(s)
           /\ (\A m \in Els(s) : m.cmd # "CNXN") => Late(s) = Els(s) /\ Early(s) = {}
<1>1. Els(s) = Early(s) \cup Late(s)
  BY DEF Els, Early, Late
<1>2. ASSUME \A m \in Els(s) : m.cmd # "CNXN", NEW l \in 1..Len(s) PROVE IsLate(s, l)
  BY <1>2 DEF IsLate, Els
<1>3. ASSUME \A m \in Els(s) : m.cmd # "CNXN" PROVE Early(s) = {}
  BY <1>2, <1>3 DEF Early
<1> QED BY <1>1, <1>3

\* Packets other than A_CNXN are sent.
LEMMA LateConcat ==
    ASSUME NEW S, NEW s \in Seq(S), NEW t \in Seq(S), \A m \in Els(t) : m.cmd # "CNXN"
    PROVE  Late(s \o t) = Late(s) \cup Els(t) /\ Early(s \o t) = Early(s)
<1>0. ASSUME NEW k \in 1..Len(t) PROVE t[k].cmd # "CNXN"
  BY DEF Els
<1>1. ASSUME NEW k \in 1..Len(s) PROVE IsLate(s \o t, k) = IsLate(s, k)
  <2>1. ASSUME IsLate(s \o t, k), NEW l \in k..Len(s) PROVE s[l].cmd # "CNXN"
    BY <2>1, ConcatAt DEF IsLate
  <2>2. ASSUME IsLate(s, k), NEW l \in k..Len(s \o t) PROVE (s \o t)[l].cmd # "CNXN"
    <3>1. /\ l <= Len(s) => l \in k..Len(s) /\ (s \o t)[l] = s[l]
          /\ ~(l <= Len(s)) => l - Len(s) \in 1..Len(t) /\ (s \o t)[l] = t[l - Len(s)]
      BY <2>2, ConcatAt
    <3> QED BY <1>0, <2>2, <3>1 DEF IsLate
  <2> QED BY <2>1, <2>2 DEF IsLate
<1>2. ASSUME NEW k \in 1..Len(s \o t), k > Len(s) PROVE IsLate(s \o t, k)
  <2> SUFFICES ASSUME NEW l \in k..Len(s \o t) PROVE (s \o t)[l].cmd # "CNXN"
    BY DEF IsLate
  <2>1. l \in 1..Len(s \o t) /\ l > Len(s)
    BY <1>2, ConcatAt
  <2> QED BY <1>0, <2>1, ConcatAt
<1>3. ASSUME NEW m \in Late(s \o t) PROVE m \in Late(s) \cup Els(t)
  <2>1. PICK k \in 1..Len(s \o t) : m = (s \o t)[k] /\ IsLate(s \o t, k)
    BY <1>3 DEF Late
  <2>2. CASE k \in 1..Len(s)
    BY <1>1, <2>1, <2>2, ConcatAt DEF Late
  <2>3. CASE ~(k \in 1..Len(s))
    BY <2>1, <2>3, ConcatAt DEF Els
  <2> QED BY <2>2, <2>3
<1>4. ASSUME NEW m \in Late(s) PROVE m \in Late(s \o t)
  <2>1. PICK k \in 1..Len(s) : m = s[k] /\ IsLate(s, k)
    BY <1>4 DEF Late
  <2> QED BY <1>1, <2>1, ConcatAt DEF Late
<1>5. ASSUME NEW m \in Els(t) PROVE m \in Late(s \o t)
  <2>1. PICK k \in 1..Len(t) : m = t[k]
    BY <1>5 DEF Els
  <2>2. k + Len(s) \in 1..Len(s \o t) /\ (s \o t)[k + Len(s)] = m /\ k + Len(s) > Len(s)
    BY <2>1, ConcatAt
  <2> QED BY <1>2, <2>2 DEF Late
<1>6. ASSUME NEW m \in Early(s \o t) PROVE m \in Early(s)
  <2>1. PICK k \in 1..Len(s \o t) : m = (s \o t)[k] /\ ~IsLate(s \o t, k)
    BY <1>6 DEF Early
  <2>2. k \in 1..Len(s)
    BY <1>2, <2>1, ConcatAt
  <2> QED BY <1>1, <2>1, <2>2, ConcatAt DEF Early
<1>7. ASSUME NEW m \in Early(s) PROVE m \in Early(s \o t)
  <2>1. PICK k \in 1..Len(s) : m = s[k] /\ ~IsLate(s, k)
    BY <1>7 DEF Early
  <2> QED BY <1>1, <2>1, ConcatAt DEF Early
<1> QED BY <1>3, <1>4, <1>5, <1>6, <1>7

\* A_CNXN is sent.
LEMMA LateCnxn ==
    ASSUME NEW S, NEW s \in Seq(S), s # <<>>, s[Len(s)].cmd = "CNXN"
    PROVE  Late(s) = {} /\ Early(s) = Els(s)
<1>1. Len(s) \in Nat \ {0}
  BY EmptySeq, LenProperties
<1>2. ASSUME NEW k \in 1..Len(s) PROVE ~IsLate(s, k)
  BY <1>1 DEF IsLate
<1>3. Late(s) = {}
  BY <1>2 DEF Late
<1> QED BY <1>3, EarlyOrLate

\* A packet is handled.
LEMMA LateTail ==
    ASSUME NEW S, NEW s \in Seq(S), s # <<>>
    PROVE  /\ Late(Tail(s)) \subseteq Late(s) /\ Early(Tail(s)) \subseteq Early(s)
           /\ (\E m \in Els(s) : m.cmd = "CNXN") => Head(s) \in Early(s) /\ Late(Tail(s)) = Late(s)
<1>1. ASSUME NEW k \in 1..Len(Tail(s)) PROVE IsLate(Tail(s), k) = IsLate(s, k + 1)
  <2>1. ASSUME IsLate(Tail(s), k), NEW l \in k + 1..Len(s) PROVE s[l].cmd # "CNXN"
    BY <2>1, TailAt DEF IsLate
  <2>2. ASSUME IsLate(s, k + 1), NEW l \in k..Len(Tail(s)) PROVE Tail(s)[l].cmd # "CNXN"
    BY <2>2, TailAt DEF IsLate
  <2> QED BY <2>1, <2>2 DEF IsLate
<1>2. Late(Tail(s)) \subseteq Late(s) /\ Early(Tail(s)) \subseteq Early(s)
  BY <1>1, TailAt DEF Late, Early
<1>3. ASSUME NEW m \in Els(s), m.cmd = "CNXN" PROVE ~IsLate(s, 1)
  <2>1. PICK k \in 1..Len(s) : m = s[k]
    BY <1>3 DEF Els
  <2> QED BY <1>3, <2>1 DEF IsLate
<1>4. ASSUME ~IsLate(s, 1) PROVE Head(s) \in Early(s) /\ Late(s) \subseteq Late(Tail(s))
  <2>1. Head(s) \in Early(s)
    BY <1>4, TailAt DEF Early
  <2>2. ASSUME NEW m \in Late(s) PROVE m \in Late(Tail(s))
    <3>1. PICK k \in 1..Len(s) : m = s[k] /\ IsLate(s, k)
      BY <2>2 DEF Late
    <3>2. k # 1
      BY <1>4, <3>1
    <3>3. k - 1 \in 1..Len(Tail(s)) /\ Tail(s)[k - 1] = m /\ (k - 1) + 1 = k
      BY <3>1, <3>2, TailAt
    <3>4. IsLate(Tail(s), k - 1)
      BY <1>1, <3>1, <3>3
    <3> QED BY <3>3, <3>4 DEF Late
  <2> QED BY <2>1, <2>2
<1> QED BY <1>2, <1>3, <1>4

\* A_OPEN is sent once.
LEMMA OneOpenConcat ==
    ASSUME NEW S, NEW s \in Seq(S), NEW t \in Seq(S), NEW i, OneOpen(s, i),
           \A m \in Els(t) : ~(m.cmd = "OPEN" /\ m.arg0 = i)
    PROVE  OneOpen(s \o t, i)
<1>0. ASSUME NEW k \in 1..Len(t) PROVE ~(t[k].cmd = "OPEN" /\ t[k].arg0 = i)
  BY DEF Els
<1>1. ASSUME NEW k \in 1..Len(s \o t), (s \o t)[k].cmd = "OPEN", (s \o t)[k].arg0 = i
      PROVE  k \in 1..Len(s) /\ (s \o t)[k] = s[k]
  BY <1>0, <1>1, ConcatAt
<1> QED BY <1>1 DEF OneOpen

\* The first one.
LEMMA OneOpenFirst ==
    ASSUME NEW S, NEW s \in Seq(S), NEW m \in S, NEW i,
           \A x \in Els(s) : ~(x.cmd = "OPEN" /\ x.arg0 = i)
    PROVE  OneOpen(s \o <<m>>, i)
<1>0. ASSUME NEW k \in 1..Len(s) PROVE ~(s[k].cmd = "OPEN" /\ s[k].arg0 = i)
  BY DEF Els
<1>2. <<m>> \in Seq(S) /\ Len(<<m>>) = 1
  OBVIOUS
<1>1. ASSUME NEW k \in 1..Len(s \o <<m>>), (s \o <<m>>)[k].cmd = "OPEN", (s \o <<m>>)[k].arg0 = i
      PROVE  k = Len(s) + 1
  BY <1>0, <1>1, <1>2, ConcatAt
<1> QED BY <1>1 DEF OneOpen

\* It is handled.
LEMMA OneOpenTail ==
    ASSUME NEW S, NEW s \in Seq(S), s # <<>>, NEW i, OneOpen(s, i)
    PROVE  /\ OneOpen(Tail(s), i)
           /\ Head(s).cmd = "OPEN" /\ Head(s).arg0 = i =>
                  \A m \in Els(Tail(s)) : ~(m.cmd = "OPEN" /\ m.arg0 = i)
<1>1. ASSUME NEW k \in 1..Len(Tail(s)), NEW l \in 1..Len(Tail(s)),
             Tail(s)[k].cmd = "OPEN", Tail(s)[l].cmd = "OPEN", Tail(s)[k].arg0 = i, Tail(s)[l].arg0 = i
      PROVE  k = l
  BY <1>1, TailAt DEF OneOpen
<1>2. ASSUME Head(s).cmd = "OPEN", Head(s).arg0 = i, NEW k \in 1..Len(Tail(s)),
             Tail(s)[k].cmd = "OPEN", Tail(s)[k].arg0 = i
      PROVE  FALSE
  BY <1>2, TailAt DEF OneOpen
<1> QED BY <1>1, <1>2 DEF OneOpen, Els

\* Packets other than A_OKAY(c, i) are sent, or any if there is no A_CLSE(c, i).
LEMMA LastConcat ==
    ASSUME NEW S, NEW s \in Seq(S), NEW t \in Seq(S), NEW c, NEW i, Last(s, c, i),
           ~Has(Els(t), "OKAY", c, i) \/ (~Has(Els(s), "CLSE", c, i) /\ ~Has(Els(t), "CLSE", c, i))
    PROVE  Last(s \o t, c, i)
<1>1. CASE ~Has(Els(t), "OKAY", c, i)
  <2>0. ASSUME NEW k \in 1..Len(t) PROVE ~(t[k].cmd = "OKAY" /\ t[k].arg0 = c /\ t[k].arg1 = i)
    BY <1>1 DEF Els, Has
  <2> SUFFICES ASSUME NEW k \in 1..Len(s \o t), NEW l \in 1..Len(s \o t), k < l,
                      (s \o t)[k].cmd = "CLSE", (s \o t)[k].arg0 = c, (s \o t)[k].arg1 = i,
                      (s \o t)[l].cmd = "OKAY", (s \o t)[l].arg0 = c, (s \o t)[l].arg1 = i
               PROVE  FALSE
    BY DEF Last
  <2>1. l \in 1..Len(s) /\ (s \o t)[l] = s[l]
    BY <2>0, ConcatAt
  <2>2. k \in 1..Len(s) /\ (s \o t)[k] = s[k]
    BY <2>1, ConcatAt
  <2> QED BY <2>1, <2>2 DEF Last
<1>2. CASE ~Has(Els(s), "CLSE", c, i) /\ ~Has(Els(t), "CLSE", c, i)
  BY <1>2, ElsConcat DEF Has, Last, Els
<1> QED BY <1>1, <1>2

\* A packet is handled, A_CLSE(c, i) perhaps.
LEMMA LastTail ==
    ASSUME NEW S, NEW s \in Seq(S), s # <<>>, NEW c, NEW i, Last(s, c, i)
    PROVE  /\ Last(Tail(s), c, i)
           /\ Head(s).cmd = "CLSE" /\ Head(s).arg0 = c /\ Head(s).arg1 = i => ~Has(Els(Tail(s)), "OKAY", c, i)
<1>1. ASSUME NEW k \in 1..Len(Tail(s)), NEW l \in 1..Len(Tail(s)), k < l,
             Tail(s)[k].cmd = "CLSE", Tail(s)[k].arg0 = c, Tail(s)[k].arg1 = i
      PROVE  ~(Tail(s)[l].cmd = "OKAY" /\ Tail(s)[l].arg0 = c /\ Tail(s)[l].arg1 = i)
  BY <1>1, TailAt DEF Last
<1>2. ASSUME Head(s).cmd = "CLSE", Head(s).arg0 = c, Head(s).arg1 = i, NEW k \in 1..Len(Tail(s))
      PROVE  ~(Tail(s)[k].cmd = "OKAY" /\ Tail(s)[k].arg0 = c /\ Tail(s)[k].arg1 = i)
  BY <1>2, TailAt DEF Last
<1> QED BY <1>1, <1>2 DEF Last, Els, Has

-----------------------------------------------------------------------------
(* The ids that packets and asockets carry *)

-----------------------------------------------------------------------------
(* Ids *)

\* What the steps of Works have in common: side p handles a packet (n), sends ms
\* and changes its asocket i, if any.
Acts(p, i, n, ms) ==
    /\ OnlyAt(p, i) /\ Kept /\ Moved(p, n, ms)
    /\ next'[Other(p)] = next[Other(p)] /\ next'[p] >= next[p]
    /\ n => Got(p).cmd # "CNXN"
    /\ n /\ Got(p).cmd = "CLSE" =>
          \/ Got(p).arg1 = i /\ sock'[p][i].st # "open"
          \/ ~online[p]
          \/ ~Found(p, Got(p).arg1, Got(p).arg0)
    /\ \A m \in Els(ms) :
          /\ m.cmd # "CNXN"
          /\ \/ m.arg0 \in Ids /\ m.arg0 < next'[p]
             \/ m.cmd = "CLSE" /\ (m.arg0 = 0 \/ (n /\ m.arg0 = Got(p).arg1))
          /\ m.arg1 = 0 <=> m.cmd = "OPEN"
          /\ \/ m.arg1 = 0
             \/ i \in Ids /\ m.arg1 = Peer(p, i)
             \/ n /\ Got(p).cmd \in {"OPEN", "OKAY"} /\ m.arg1 = Got(p).arg0
          /\ m.cmd # "CLSE" => /\ i \in Ids /\ m.arg0 = i
                               /\ sock'[p][i].st = "open" /\ m.cmd = "OPEN" => sock'[p][i].peer = 0
                               /\ sock'[p][i].st = "open" /\ m.cmd # "OPEN" => sock'[p][i].peer = m.arg1
          /\ m.cmd = "OPEN" => i = next[p] /\ ms = <<m>>
    /\ i \in Ids =>
          /\ \/ sock'[p][i].peer \in {0, Peer(p, i)}
             \/ n /\ Got(p).cmd \in {"OPEN", "OKAY"} /\ sock'[p][i].peer = Got(p).arg0
          /\ sock'[p][i].st # "open" => sock'[p][i].peer = 0
          /\ sock'[p][i].peer = 0 => ~sock'[p][i].rd
          /\ sock'[p][i].st = "open" /\ Open(p, i) =>
                \/ sock'[p][i].peer = Peer(p, i)
                \/ n /\ Got(p).cmd = "OKAY" /\ Got(p).arg1 = i /\ sock'[p][i].peer = Got(p).arg0
          /\ sock'[p][i].st = "open" /\ ~Open(p, i) =>
                /\ i = next[p] /\ online[p]
                /\ \/ sock'[p][i].peer = 0
                   \/ n /\ Got(p).cmd = "OPEN" /\ Has(Els(ms), "OKAY", i, sock'[p][i].peer)

\* Asocket i of p gets the data of the packet that p handles.
Gets(p, i, n) ==
    n /\ Got(p).cmd = "WRTE" /\ Got(p).arg1 = i /\ Open(p, i) /\ Peer(p, i) = Got(p).arg0

\* An asocket keeps its server process, and its stream gets the data of one packet at most.
KeepsRun(p, i, n) ==
    /\ fd'[p][i].run = fd[p][i].run
    /\ RunsOf(p, i)' \subseteq RunsOf(p, i) \/ (Gets(p, i, n) /\ RunsOf(p, i)' \subseteq RunsOf(p, i) \cup {Got(p).run})
    /\ sock'[p][i].st = "open" => Open(p, i)

\* An asocket is new, and has the server process of the A_OPEN it was created for.
StartsRun(p, i, n) ==
    /\ i = next[p] /\ RunsOf(p, i)' = {}
    /\ sock'[p][i].peer # 0 =>
          n /\ Got(p).cmd = "OPEN" /\ sock'[p][i].peer = Got(p).arg0 /\ fd'[p][i].run = Got(p).run

\* The same steps, as to which server process a stream and its data belong to.
RunActs(p, i, n, ms) ==
    /\ \A m \in Els(ms) :
          /\ m.cmd \in {"OPEN", "WRTE"} => m.run = fd'[p][i].run
          /\ m.cmd = "WRTE" => Open(p, i) /\ m.arg1 = Peer(p, i)
          /\ m.cmd = "OKAY" => sock'[p][i].st = "open"
    /\ i \in Ids => KeepsRun(p, i, n) \/ StartsRun(p, i, n)

\* Every step of Works is one of these, with the asocket, the packet and the answers it is about.
LEMMA ActsView ==
    ASSUME IInv, StatusInv, \A q \in Side, j \in Ids : SockShape(sock[q][j]), NEW p \in Side, Works(p)
    PROVE  \E i \in {0} \cup Ids, n \in BOOLEAN, ms \in Seq(Packet) :
               Acts(p, i, n, ms) /\ RunActs(p, i, n, ms)
<1>q. TypeOK /\ FreshInv
  BY DEF IInv, StatusInv
<1>n. next[p] \in Nat \ {0} /\ Other(p) \in Side /\ Other(p) # p /\ next[Other(p)] \in Nat
  BY <1>q DEF TypeOK, Side, Other
<1>f. ASSUME NEW i \in Ids, Open(p, i) PROVE i < next[p] /\ i \in Nat
  BY <1>q, <1>n, <1>f DEF FreshInv, Open, Ids
<1>s. ASSUME NEW i \in Ids PROVE SockShape(sock[p][i])
  OBVIOUS
<1>z. <<>> \in Seq(Packet) /\ Els(<<>>) = {}
  BY ElsSmall
<1>u. ASSUME NEW m \in Packet PROVE <<m>> \in Seq(Packet) /\ Els(<<m>>) = {m}
  BY ElsSmall
<1>k. ASSUME next' = next PROVE next'[Other(p)] = next[Other(p)] /\ next'[p] >= next[p]
  BY <1>n, <1>k
<1>1. ASSUME NEW i \in Ids, Idles(p, i) PROVE Acts(p, i, FALSE, <<>>)
  <2>1. Moved(p, FALSE, <<>>)
    BY <1>1, <1>q, <1>n, <1>z DEF Idles, Moved, TypeOK
  <2>2. /\ sock'[p][i].peer = Peer(p, i)
        /\ sock'[p][i].st # "open" => sock'[p][i].peer = 0
        /\ sock'[p][i].peer = 0 => ~sock'[p][i].rd
        /\ sock'[p][i].st = "open" => Open(p, i)
    BY <1>1, <1>s DEF Idles, SockShape, Open, Peer
  <2>3. OnlyAt(p, i) /\ Kept /\ next' = next
    BY <1>1 DEF Idles
  <2> QED BY <1>k, <1>z, <2>1, <2>2, <2>3 DEF Acts
<1>2. ASSUME NEW i \in Ids, NEW m \in Packet, Says(p, i, m) PROVE Acts(p, i, FALSE, <<m>>)
  <2>1. OnlyAt(p, i) /\ Kept /\ next' = next /\ Moved(p, FALSE, <<m>>)
    BY <1>2 DEF Says
  <2>2. m.arg0 = i /\ m.arg1 = Peer(p, i) /\ Peer(p, i) # 0 /\ m.cmd \in {"OKAY", "WRTE"}
        /\ Open(p, i) /\ sock'[p][i].peer = Peer(p, i) /\ sock'[p][i].st = "open"
    BY <1>2 DEF Says
  <2>3. i < next'[p]
    BY <1>f, <2>1, <2>2
  <2> QED BY <1>k, <1>u, <2>1, <2>2, <2>3 DEF Acts
<1>3. ASSUME NEW i \in Ids, NEW n \in BOOLEAN, NEW ms \in Seq(Packet), Leaves(p, i, n, ms)
      PROVE  Acts(p, i, n, ms)
  BY <1>f, <1>k, <1>3 DEF Leaves, GoneAt, Acts
<1>4. ASSUME NEW i \in Ids, NEW m \in Packet, Dials(p, i, m) PROVE Acts(p, i, FALSE, <<m>>)
  <2>1. OnlyAt(p, i) /\ Kept /\ Moved(p, FALSE, <<m>>)
    BY <1>4 DEF Dials
  <2>2. i = next[p] /\ next' = [next EXCEPT ![p] = i + 1]
    BY <1>4 DEF Dials
  <2>3. next'[Other(p)] = next[Other(p)] /\ next'[p] >= next[p] /\ i < next'[p]
    BY <1>q, <1>n, <2>2 DEF TypeOK
  <2>5. ~Open(p, i)
    BY <1>f, <1>n, <2>2
  <2>4. m.cmd = "OPEN" /\ m.arg0 = i /\ m.arg1 = 0 /\ sock'[p][i].st = "open" /\ sock'[p][i].peer = 0
        /\ ~sock'[p][i].rd /\ online[p]
    BY <1>4 DEF Dials
  <2> QED BY <1>u, <2>1, <2>2, <2>3, <2>4, <2>5 DEF Acts, Has
<1>5. ASSUME NEW i \in Ids, NEW m \in Packet, Accepts(p, i, m) PROVE Acts(p, i, TRUE, <<m>>)
  <2>1. OnlyAt(p, i) /\ Kept /\ Moved(p, TRUE, <<m>>)
    BY <1>5 DEF Accepts
  <2>2. i = next[p] /\ next' = [next EXCEPT ![p] = i + 1]
    BY <1>5 DEF Accepts
  <2>3. next'[Other(p)] = next[Other(p)] /\ next'[p] >= next[p] /\ i < next'[p]
    BY <1>q, <1>n, <2>2 DEF TypeOK
  <2>5. ~Open(p, i)
    BY <1>f, <1>n, <2>2
  <2>4. m.cmd = "OKAY" /\ m.arg0 = i /\ m.arg1 = Got(p).arg0 /\ sock'[p][i].st = "open"
        /\ sock'[p][i].peer = Got(p).arg0 /\ Got(p).arg0 # 0 /\ Got(p).cmd = "OPEN" /\ online[p]
    BY <1>5 DEF Accepts
  <2> QED BY <1>u, <2>1, <2>2, <2>3, <2>4, <2>5 DEF Acts, Has
<1>o. ASSUME UNCHANGED <<sock, fd>> PROVE OnlyAt(p, 0) /\ 0 \notin Ids
  BY <1>o DEF OnlyAt, Ids
<1>6. ASSUME NEW m \in Packet, Refuses(p, m) PROVE Acts(p, 0, TRUE, <<m>>)
  BY <1>k, <1>o, <1>u, <1>6 DEF Refuses, Acts
<1>7. ASSUME NEW i \in Ids, Resumes(p, i) PROVE Acts(p, i, TRUE, <<>>)
  BY <1>k, <1>z, <1>7 DEF Resumes, Acts
<1>8. ASSUME NEW i \in Ids, NEW ms \in Seq(Packet), Takes(p, i, ms) PROVE Acts(p, i, TRUE, ms)
  <2>1. OnlyAt(p, i) /\ Kept /\ next' = next /\ Moved(p, TRUE, ms)
    BY <1>8 DEF Takes
  <2>2. Got(p).cmd = "WRTE" /\ Got(p).arg0 # 0 /\ Open(p, i) /\ Peer(p, i) = Got(p).arg0
        /\ sock'[p][i].st = "open" /\ sock'[p][i].peer = Peer(p, i)
    BY <1>8 DEF Takes
  <2>3. i < next'[p]
    BY <1>f, <2>1, <2>2
  <2>4. \A m \in Els(ms) : m.cmd = "OKAY" /\ m.arg0 = i /\ m.arg1 = Peer(p, i)
    BY <1>u, <1>z, <1>8 DEF Takes
  <2> QED BY <1>k, <2>1, <2>2, <2>3, <2>4 DEF Acts
<1>9. ASSUME Drops(p) PROVE Acts(p, 0, TRUE, <<>>)
  BY <1>k, <1>o, <1>z, <1>9 DEF Drops, Acts
<1>r. ASSUME NEW i \in Ids, SameRun(p, i, {}), NEW n \in BOOLEAN, sock'[p][i].st = "open" => Open(p, i)
      PROVE  KeepsRun(p, i, n)
  BY <1>r DEF SameRun, KeepsRun
<1>11. ASSUME NEW i \in Ids, Idles(p, i) PROVE RunActs(p, i, FALSE, <<>>)
  BY <1>r, <1>z, <1>11 DEF Idles, RunActs
<1>12. ASSUME NEW i \in Ids, NEW m \in Packet, Says(p, i, m) PROVE RunActs(p, i, FALSE, <<m>>)
  <2>1. KeepsRun(p, i, FALSE)
    BY <1>r, <1>12 DEF Says
  <2>2. /\ m.cmd \in {"OKAY", "WRTE"} /\ (m.cmd = "WRTE" => m.run = fd'[p][i].run)
        /\ Open(p, i) /\ m.arg1 = Peer(p, i) /\ sock'[p][i].st = "open"
    BY <1>12 DEF Says, SameRun
  <2> QED BY <1>u, <2>1, <2>2 DEF RunActs
<1>13. ASSUME NEW i \in Ids, NEW n \in BOOLEAN, NEW ms \in Seq(Packet), Leaves(p, i, n, ms)
       PROVE  RunActs(p, i, n, ms)
  BY <1>r, <1>13 DEF Leaves, SameRun, RunActs
<1>14. ASSUME NEW i \in Ids, NEW m \in Packet, Dials(p, i, m) PROVE RunActs(p, i, FALSE, <<m>>)
  BY <1>u, <1>14 DEF Dials, StartsRun, RunActs
<1>15. ASSUME NEW i \in Ids, NEW m \in Packet, Accepts(p, i, m) PROVE RunActs(p, i, TRUE, <<m>>)
  BY <1>u, <1>15 DEF Accepts, StartsRun, RunActs
<1>16. ASSUME NEW m \in Packet, Refuses(p, m) PROVE RunActs(p, 0, TRUE, <<m>>)
  BY <1>u, <1>16 DEF Refuses, Ids, RunActs
<1>17. ASSUME NEW i \in Ids, Resumes(p, i) PROVE RunActs(p, i, TRUE, <<>>)
  BY <1>r, <1>z, <1>17 DEF Resumes, RunActs
<1>18. ASSUME NEW i \in Ids, NEW ms \in Seq(Packet), Takes(p, i, ms) PROVE RunActs(p, i, TRUE, ms)
  <2>1. KeepsRun(p, i, TRUE)
    BY <1>18 DEF Takes, SameRun, KeepsRun, Gets
  <2>2. \A m \in Els(ms) : m.cmd = "OKAY" /\ sock'[p][i].st = "open"
    BY <1>u, <1>z, <1>18 DEF Takes
  <2> QED BY <2>1, <2>2 DEF RunActs
<1>19. ASSUME Drops(p) PROVE RunActs(p, 0, TRUE, <<>>)
  BY <1>z DEF RunActs, Ids
<1> QED
  <2>1. CASE \E i \in Ids : Idles(p, i)
    BY <1>1, <1>11, <1>z, <2>1
  <2>2. CASE \E i \in Ids, m \in Packet : Says(p, i, m) \/ Dials(p, i, m) \/ Accepts(p, i, m)
    BY <1>2, <1>4, <1>5, <1>12, <1>14, <1>15, <1>u, <2>2
  <2>3. CASE \E i \in Ids, n \in BOOLEAN, ms \in Seq(Packet) : Leaves(p, i, n, ms)
    BY <1>3, <1>13, <2>3
  <2>4. CASE \E m \in Packet : Refuses(p, m)
    BY <1>6, <1>16, <1>u, <2>4
  <2>5. CASE \E i \in Ids : Resumes(p, i)
    BY <1>7, <1>17, <1>z, <2>5
  <2>6. CASE \E i \in Ids, ms \in Seq(Packet) : Takes(p, i, ms)
    BY <1>8, <1>18, <2>6
  <2>7. CASE Drops(p)
    BY <1>9, <1>19, <1>z, <2>7
  <2> QED BY <2>1, <2>2, <2>3, <2>4, <2>5, <2>6, <2>7 DEF Works

\* The packets under way after a step of side p.
LEMMA MovedEls ==
    ASSUME TypeOK, NEW p \in Side, NEW n \in BOOLEAN, NEW ms, Moved(p, n, ms)
    PROVE  /\ Els(net'[p]) \subseteq Els(net[p]) \cup Els(ms) /\ Els(net[p]) \subseteq Els(net'[p])
           /\ up => Els(ms) \subseteq Els(net'[p])
           /\ Els(net'[Other(p)]) \subseteq Els(net[Other(p)])
           /\ Els(net[Other(p)]) \subseteq Els(net'[Other(p)]) \cup {Got(p)}
           /\ n => Got(p) \in Els(net[Other(p)])
           /\ ~n => net'[Other(p)] = net[Other(p)]
<1> DEFINE o == Other(p)
<1>0. o \in Side /\ net[p] \in Seq(Packet) /\ net[o] \in Seq(Packet) /\ ms \in Seq(Packet)
  BY DEF Side, Other, TypeOK, Moved
<1>1. Els(net[p] \o ms) = Els(net[p]) \cup Els(ms)
  BY <1>0, ElsConcat
<1>2. /\ Els(net'[p]) \subseteq Els(net[p]) \cup Els(ms) /\ Els(net[p]) \subseteq Els(net'[p])
      /\ up => Els(ms) \subseteq Els(net'[p])
  BY <1>1 DEF Moved
<1>3. CASE n
  BY <1>0, <1>2, <1>3, ElsTail DEF Moved, Got
<1>4. CASE ~n
  BY <1>2, <1>4 DEF Moved
<1> QED BY <1>3, <1>4

\* After a break or a restart of the server.
LEMMA CutEls ==
    ASSUME TypeOK, Break \/ HostRestart, NEW p \in Side
    PROVE  /\ net'[p] \in Seq(Packet)
           /\ \A m \in Els(net'[p]) : m \in Els(net[p]) \/ (HostRestart /\ p = "host" /\ m = Pkt("CNXN", 0, 0))
           /\ HostRestart => Late(net'["host"]) = {} /\ ~Quiet("host")'
<1>0. "host" \in Side /\ "device" \in Side /\ net[p] \in Seq(Packet) /\ Len(net[p]) \in Nat
      /\ net["host"] \in Seq(Packet) /\ net["device"] \in Seq(Packet)
  BY LenProperties DEF TypeOK, Side
<1>c. LET c == Pkt("CNXN", 0, 0) IN c \in Packet /\ <<c>> \in Seq(Packet) /\ c.cmd = "CNXN"
                                   /\ Els(<<c>>) = {c} /\ Len(<<c>>) = 1 /\ <<c>>[1] = c
  BY PktType, ElsSmall DEF Pkt
<1>1. CASE Break
  <2>1. PICK k \in 0..Len(net[p]) : net'[p] = SubSeq(net[p], 1, k)
    <3>1. PICK h \in 0..Len(net["host"]), d \in 0..Len(net["device"]) :
             net' = [net EXCEPT !["host"] = SubSeq(@, 1, h), !["device"] = SubSeq(@, 1, d)]
      BY <1>1 DEF Break
    <3>2. CASE p = "host"
      BY <1>0, <3>1, <3>2 DEF TypeOK
    <3>3. CASE p = "device"
      BY <1>0, <3>1, <3>3 DEF TypeOK
    <3> QED BY <3>2, <3>3 DEF Side
  <2>2. Els(SubSeq(net[p], 1, k)) \subseteq Els(net[p]) /\ SubSeq(net[p], 1, k) \in Seq(Packet)
    BY <1>0, ElsSmall, SubSeqProperties
  <2>3. ~HostRestart
    BY <1>1 DEF Break, HostRestart, TypeOK
  <2> QED BY <2>1, <2>2, <2>3
<1>2. CASE HostRestart
  <2> DEFINE c == Pkt("CNXN", 0, 0)
  <2>1. PICK h \in 0..Len(net["host"]), d \in 0..Len(net["device"]) :
           net' = [net EXCEPT !["host"] = SubSeq(@, 1, h) \o <<Pkt("CNXN", 0, 0)>>,
                              !["device"] = SubSeq(@, d + 1, Len(@))]
    BY <1>2 DEF HostRestart
  <2> DEFINE a == SubSeq(net["host"], 1, h)
             b == SubSeq(net["device"], d + 1, Len(net["device"]))
  <2>2. net'["host"] = a \o <<c>> /\ net'["device"] = b
    BY <1>0, <2>1 DEF TypeOK
  <2>3. a \in Seq(Packet) /\ Els(a) \subseteq Els(net["host"])
    BY <1>0, LenProperties, ElsSmall, SubSeqProperties
  <2>4. b \in Seq(Packet) /\ Els(b) \subseteq Els(net["device"])
    BY <1>0, LenProperties, ElsSmall, SubSeqProperties
  <2> HIDE DEF a, b, c
  <2>5. a \o <<c>> \in Seq(Packet) /\ Els(a \o <<c>>) = Els(a) \cup {c}
    <3>1. <<c>> \in Seq(Packet) /\ Els(<<c>>) = {c}
      BY <1>c DEF c
    <3> DEFINE t == <<c>>
    <3> HIDE DEF t
    <3>4. t \in Seq(Packet)
      BY <3>1 DEF t
    <3>2. Els(a \o t) = Els(a) \cup Els(t) /\ a \o t \in Seq(Packet)
      BY <2>3, <3>4, ElsConcat, ConcatProperties
    <3> QED BY <3>1, <3>2 DEF t
  <2>6. (a \o <<c>>) # <<>> /\ (a \o <<c>>)[Len(a \o <<c>>)].cmd = "CNXN"
    BY <1>c, <2>3, <2>5, ConcatAt, EmptySeq DEF c
  <2>7. Late(net'["host"]) = {}
    BY <2>2, <2>5, <2>6, LateCnxn
  <2>8. ~Quiet("host")'
    BY <1>c, <2>2, <2>5 DEF c, Quiet
  <2>9. CASE p = "host"
    BY <1>2, <2>2, <2>3, <2>5, <2>7, <2>8, <2>9 DEF c
  <2>10. CASE p = "device"
    BY <1>2, <2>2, <2>4, <2>7, <2>8, <2>10
  <2> QED BY <2>9, <2>10 DEF Side
<1> QED BY <1>1, <1>2

\* Steps other than those of the connection leave A_CNXN alone.
LEMMA QuietKept ==
    ASSUME TypeOK, NEW p \in Side, NEW i, NEW n \in BOOLEAN, NEW ms \in Seq(Packet), Acts(p, i, n, ms),
           NEW q \in Side
    PROVE  Quiet(q)' <=> Quiet(q)
BY MovedEls DEF Acts, Side, Other, Quiet

\* A_CNXN sent again, or answered by the device.
LEMMA CnxnSent ==
    ASSUME TypeOK, up, NEW p \in Side, NEW n \in BOOLEAN, NEW ms \in Seq(Packet), Moved(p, n, ms),
           ms # <<>>, ms[Len(ms)].cmd = "CNXN"
    PROVE  ~Quiet(p)' /\ Late(net'[p]) = {}
<1>0. net[p] \in Seq(Packet) /\ net'[p] = net[p] \o ms
  BY DEF Moved, TypeOK
<1>1. Len(ms) \in 1..Len(ms)
  BY EmptySeq, LenProperties
<1>2. Len(ms) + Len(net[p]) \in 1..Len(net'[p]) /\ net'[p][Len(ms) + Len(net[p])] = ms[Len(ms)]
      /\ Len(net'[p]) = Len(ms) + Len(net[p]) /\ net'[p] \in Seq(Packet)
  BY <1>0, <1>1, ConcatAt, ConcatProperties
<1>3. net'[p] # <<>> /\ net'[p][Len(net'[p])].cmd = "CNXN"
  BY <1>2, EmptySeq
<1>4. Late(net'[p]) = {}
  BY <1>2, <1>3, LateCnxn
<1>5. net'[p][Len(net'[p])] \in Els(net'[p])
  BY <1>2 DEF Els
<1> QED BY <1>3, <1>4, <1>5 DEF Quiet

\* The one packet that says it.
LEMMA CnxnOnly ==
    /\ Pkt("CNXN", 0, 0) \in Packet /\ Pkt("CNXN", 0, 0).cmd = "CNXN"
    /\ <<Pkt("CNXN", 0, 0)>> \in Seq(Packet) /\ Els(<<Pkt("CNXN", 0, 0)>>) = {Pkt("CNXN", 0, 0)}
    /\ <<Pkt("CNXN", 0, 0)>> # <<>> /\ <<Pkt("CNXN", 0, 0)>>[Len(<<Pkt("CNXN", 0, 0)>>)].cmd = "CNXN"
    /\ Shape(Pkt("CNXN", 0, 0)) /\ Pkt("CNXN", 0, 0).arg0 = 0 /\ Pkt("CNXN", 0, 0).arg1 = 0
<1> DEFINE c == Pkt("CNXN", 0, 0)
<1>1. c \in Packet /\ c.cmd = "CNXN" /\ c.arg0 = 0 /\ c.arg1 = 0
  BY PktType DEF Pkt
<1> HIDE DEF c
<1>2. <<c>> \in Seq(Packet) /\ <<c>> # <<>> /\ Len(<<c>>) = 1 /\ <<c>>[1] = c
  BY <1>1
<1>3. Els(<<c>>) = {c}
  BY ElsSmall
<1>4. Shape(c)
  BY <1>1 DEF Shape
<1> QED BY <1>1, <1>2, <1>3, <1>4 DEF c

\* Sides.
LEMMA Sides ==
    /\ "host" \in Side /\ "device" \in Side /\ Other("host") = "device" /\ Other("device") = "host"
    /\ \A p \in Side : p = "host" \/ p = "device"
    /\ \A p \in Side : Other(p) \in Side /\ Other(p) # p /\ Other(Other(p)) = p
    /\ \A p, q \in Side : q = p \/ q = Other(p)
BY DEF Side, Other

\* The host sends it again.
LEMMA CnxnAgain ==
    ASSUME TypeOK, NEW n \in BOOLEAN, NEW m \in Packet, Repeats(n, m)
    PROVE  up => ~Quiet("host")' /\ Late(net'["host"]) = {}
<1> SUFFICES ASSUME up PROVE ~Quiet("host")' /\ Late(net'["host"]) = {}
  OBVIOUS
<1> DEFINE ms == <<m>>
<1>1. ms \in Seq(Packet) /\ ms # <<>> /\ ms[Len(ms)].cmd = "CNXN" /\ Moved("host", n, ms)
  BY CnxnOnly DEF Repeats
<1> HIDE DEF ms
<1>2. "host" \in Side /\ TypeOK
  BY Sides
<1> QED BY <1>1, <1>2, CnxnSent

\* A new server process begins with no asockets.
LEMMA RestartSocks ==
    ASSUME TypeOK, HostRestart
    PROVE  /\ up' = up /\ runs' = runs + 1 /\ resends' = resends
           /\ \A j \in Ids : sock'["host"][j] = NoSock /\ fd'["host"][j] = NewFd
           /\ \A j \in Ids : sock'["device"][j] = sock["device"][j] /\ fd'["device"][j] = fd["device"][j]
           /\ next'["host"] = 1 /\ next'["device"] = next["device"]
           /\ online'["host"] = FALSE /\ online'["device"] = online["device"]
           /\ NoSock.st = "none" /\ NoSock.peer = 0 /\ ~NoSock.rd /\ NoSock.q = <<>> /\ NewFd.out = <<>>
BY Sides DEF HostRestart, TypeOK, NoSock, Asocket, NewFd

\* ShapeInv, for what side p does.
LEMMA ShapeActs ==
    ASSUME IInv, IInv', ShapeInv, NEW p \in Side, NEW i \in {0} \cup Ids, NEW n \in BOOLEAN,
           NEW ms \in Seq(Packet), Acts(p, i, n, ms)
    PROVE  ShapeInv'
<1>q. TypeOK /\ TypeOK'
  BY DEF IInv
<1>1. Moved(p, n, ms) /\ OnlyAt(p, i)
  BY DEF Acts
<1>2. n => Shape(Got(p))
  <2>1. n => Got(p) \in Els(net[Other(p)])
    BY <1>q, <1>1, MovedEls
  <2>2. Other(p) \in Side
    BY Sides
  <2> QED BY <2>1, <2>2 DEF ShapeInv
<1>3. i \in Ids => SockShape(sock[p][i])
  BY DEF ShapeInv
<1>4. ASSUME NEW m \in Els(ms) PROVE Shape(m)
  BY <1>2, <1>3 DEF Acts, Shape, Ids, SockShape, Peer
<1>5. ASSUME NEW q \in Side, NEW m \in Els(net'[q]) PROVE Shape(m)
  BY <1>q, <1>1, <1>4, MovedEls, Sides DEF ShapeInv
<1>6. ASSUME NEW q \in Side, NEW j \in Ids PROVE SockShape(sock'[q][j])
  BY <1>1, <1>2, <1>3 DEF OnlyAt, ShapeInv, Acts, SockShape, Shape, Peer
<1> QED BY <1>5, <1>6 DEF ShapeInv

\* ShapeInv, for what happens to the connection.
LEMMA ShapeMoves ==
    ASSUME IInv, IInv', ShapeInv, Moves
    PROVE  ShapeInv'
<1>q. TypeOK /\ TypeOK'
  BY DEF IInv
<1>s. \A p \in Side, j \in Ids : SockShape(sock[p][j])
  BY DEF ShapeInv
<1>c. ASSUME NEW p \in Side, NEW i \in Ids, Open(p, i), ClosedAll(p) PROVE SockShape(sock'[p][i])
  BY <1>c DEF ClosedAll, GoneAt, SockShape
<1>d. ASSUME NEW p \in Side, NEW i \in Ids, ClosedAll(p) PROVE SockShape(sock'[p][i])
  BY <1>c, <1>d, <1>s DEF ClosedAll
<1>1. ASSUME NEW n \in BOOLEAN, NEW m \in Packet, Repeats(n, m) PROVE ShapeInv'
  BY <1>q, <1>s, <1>1, CnxnOnly, MovedEls, Sides DEF Repeats, ShapeInv
<1>2. ASSUME NEW p \in Side, NEW ms \in Seq(Packet), Restarts(p, ms) PROVE ShapeInv'
  <2>1. ASSUME NEW m \in Els(ms) PROVE Shape(m)
    BY <1>s, <1>2, CnxnOnly DEF Shape, SockShape, Peer, Restarts
  <2>2. Moved(p, TRUE, ms)
    BY <1>2 DEF Restarts
  <2>3. \A q \in Side : \A x \in Els(net'[q]) : x \in Els(net[q]) \/ x \in Els(ms)
    <3>1. \A q \in Side : q = p \/ q = Other(p)
      BY Sides
    <3>2. Els(net'[p]) \subseteq Els(net[p]) \cup Els(ms) /\ Els(net'[Other(p)]) \subseteq Els(net[Other(p)])
      BY <1>q, <2>2, MovedEls
    <3> QED BY <3>1, <3>2
  <2>4. ASSUME NEW j \in Ids PROVE SockShape(sock'[Other(p)][j])
    BY <1>2, <1>s, Sides DEF Restarts
  <2>5. ASSUME NEW j \in Ids PROVE SockShape(sock'[p][j])
    BY <1>d, <1>s, <1>2 DEF Restarts
  <2> QED BY <2>1, <2>3, <2>4, <2>5, Sides DEF ShapeInv
<1>3. ASSUME NEW p \in Side, Ends(p) PROVE ShapeInv'
  <2>1. net' = net /\ ClosedAll(p) /\ \A j \in Ids : sock'[Other(p)][j] = sock[Other(p)][j]
    BY <1>3 DEF Ends
  <2>2. ASSUME NEW q \in Side, NEW j \in Ids PROVE SockShape(sock'[q][j])
    BY <1>d, <1>s, <2>1, Sides
  <2> QED BY <2>1, <2>2 DEF ShapeInv
<1>4. ASSUME Connect PROVE ShapeInv'
  <2>1. sock' = sock /\ net'["host"] = <<Pkt("CNXN", 0, 0)>> /\ net'["device"] = net["device"]
    BY <1>4, <1>q, Sides DEF Connect, TypeOK
  <2>2. \A q \in Side : \A x \in Els(net'[q]) : Shape(x)
    BY <2>1, CnxnOnly, Sides DEF ShapeInv
  <2> QED BY <2>1, <2>2, <1>s DEF ShapeInv
<1>5. ASSUME Break \/ HostRestart PROVE ShapeInv'
  <2>1. \A q \in Side : \A x \in Els(net'[q]) : x \in Els(net[q]) \/ x = Pkt("CNXN", 0, 0)
    BY <1>5, <1>q, CutEls
  <2>2. \A q \in Side : \A x \in Els(net'[q]) : Shape(x)
    BY <2>1, CnxnOnly DEF ShapeInv
  <2>3. ASSUME NEW q \in Side, NEW j \in Ids PROVE SockShape(sock'[q][j])
    <3>1. sock'[q][j] = sock[q][j] \/ sock'[q][j] = NoSock
      <4>1. CASE Break
        BY <4>1 DEF Break
      <4>2. CASE HostRestart
        BY <1>q, <4>2, RestartSocks, Sides
      <4> QED BY <1>5, <4>1, <4>2
    <3>2. SockShape(NoSock)
      BY DEF SockShape, NoSock, Asocket
    <3> QED BY <1>s, <3>1, <3>2
  <2> QED BY <2>2, <2>3 DEF ShapeInv
<1> QED BY <1>1, <1>2, <1>3, <1>4, <1>5 DEF Moves

\* OnlineInv, for what side p does.
LEMMA OnlineActs ==
    ASSUME IInv, OnlineInv, NEW p \in Side, NEW i \in {0} \cup Ids, NEW n \in BOOLEAN,
           NEW ms \in Seq(Packet), Acts(p, i, n, ms)
    PROVE  OnlineInv'
<1>q. TypeOK
  BY DEF IInv
<1>1. (Quiet("host")' <=> Quiet("host")) /\ (Quiet("device")' <=> Quiet("device"))
  BY <1>q, QuietKept, Sides
<1>2. online' = online /\ (up' <=> up) /\ OnlyAt(p, i)
  BY DEF Acts, Kept
<1>3. ASSUME NEW q \in Side, NEW j \in Ids, Open(q, j)' PROVE online[q]
  BY <1>2, <1>3 DEF OnlyAt, Open, OnlineInv, Acts
<1> QED BY <1>1, <1>2, <1>3 DEF OnlineInv

\* OnlineInv, for what happens to the connection.
LEMMA OnlineMoves ==
    ASSUME IInv, OnlineInv, Moves
    PROVE  OnlineInv'
<1>q. TypeOK /\ up \in BOOLEAN /\ online \in [Side -> BOOLEAN]
  BY DEF IInv, TypeOK
<1>1. ASSUME NEW n \in BOOLEAN, NEW m \in Packet, Repeats(n, m) PROVE OnlineInv'
  BY <1>q, <1>1, CnxnAgain DEF Repeats, OnlineInv, Open
<1>2. ASSUME NEW p \in Side, NEW ms \in Seq(Packet), Restarts(p, ms) PROVE OnlineInv'
  <2>1. Moved(p, TRUE, ms) /\ online' = [online EXCEPT ![p] = TRUE]
    BY <1>2 DEF Restarts
  <2>2. up' <=> up
    BY <1>2 DEF Restarts
  <2>3. online'[p] /\ online'[Other(p)] = online[Other(p)]
    BY <1>q, <2>1, Sides
  <2>4. ASSUME NEW q \in Side, NEW j \in Ids, Open(q, j)' PROVE online'[q]
    BY <1>2, <2>3, <2>4, Sides DEF Restarts, OnlineInv, Open
  <2>5. CASE p = "device"
    <3>1. ms # <<>> /\ ms[Len(ms)].cmd = "CNXN"
      BY <1>2, <2>5 DEF Restarts
    <3>2. up => ~Quiet("device")' /\ Late(net'["device"]) = {}
      BY <1>q, <2>1, <2>5, <3>1, CnxnSent, Sides
    <3> QED BY <2>2, <2>3, <2>4, <2>5, <3>2 DEF OnlineInv
  <2>6. CASE p = "host"
    BY <1>q, <2>1, <2>2, <2>3, <2>4, <2>6, MovedEls, Sides DEF Quiet, OnlineInv
  <2> QED BY <2>5, <2>6, Sides
<1>3. ASSUME NEW p \in Side, Ends(p) PROVE OnlineInv'
  <2>1. ~up' /\ online' = [online EXCEPT ![p] = FALSE] /\ ClosedAll(p)
        /\ \A j \in Ids : sock'[Other(p)][j] = sock[Other(p)][j]
    BY <1>3 DEF Ends
  <2>2. ASSUME NEW q \in Side, NEW j \in Ids, Open(q, j)' PROVE online'[q]
    BY <1>q, <2>1, <2>2, Sides DEF ClosedAll, GoneAt, Open, OnlineInv
  <2> QED BY <2>1, <2>2 DEF OnlineInv
<1>4. ASSUME Connect PROVE OnlineInv'
  <2>1. sock' = sock /\ online' = online /\ net'["host"] = <<Pkt("CNXN", 0, 0)>>
    BY <1>4, <1>q, Sides DEF Connect, TypeOK
  <2>2. ~Quiet("host")'
    BY <2>1, CnxnOnly DEF Quiet
  <2> QED BY <2>1, <2>2 DEF OnlineInv, Open
<1>5. ASSUME Break PROVE OnlineInv'
  BY <1>5 DEF Break, OnlineInv, Open
<1>6. ASSUME HostRestart PROVE OnlineInv'
  <2>1. ~Quiet("host")'
    BY <1>6, <1>q, CutEls, Sides
  <2>2. ASSUME NEW q \in Side, NEW j \in Ids, Open(q, j)' PROVE online'[q]
    BY <1>6, <1>q, <2>2, RestartSocks, Sides DEF OnlineInv, Open
  <2> QED BY <2>1, <2>2 DEF OnlineInv
<1> QED BY <1>1, <1>2, <1>3, <1>4, <1>5, <1>6 DEF Moves

\* A closed asocket has no peer.
LEMMA NoPeer ==
    ASSUME ShapeInv, NEW p \in Side, NEW i \in Ids, ~Open(p, i)
    PROVE  Peer(p, i) = 0
BY DEF ShapeInv, SockShape, Peer, Open

\* DeviceIds, for what side p does.
LEMMA DeviceIdsActs ==
    ASSUME IInv, IInv', ShapeInv, DeviceIds, NEW p \in Side, NEW i \in {0} \cup Ids, NEW n \in BOOLEAN,
           NEW ms \in Seq(Packet), Acts(p, i, n, ms)
    PROVE  DeviceIds'
<1>q. TypeOK /\ TypeOK' /\ next["device"] \in Nat \ {0} /\ next'["device"] \in Nat \ {0}
  BY Sides DEF IInv, TypeOK
<1>1. Moved(p, n, ms) /\ OnlyAt(p, i)
  BY DEF Acts
<1>a. \A m \in Els(net["device"]) \cup Els(net["host"]) : m.arg0 \in Nat /\ m.arg1 \in Nat
  BY Sides DEF ShapeInv, Shape, Ids
<1>b. \A j \in Ids : Peer("host", j) \in Nat
  BY <1>q, Sides DEF TypeOK, Socket, Peer
<1>2. CASE p = "device"
  <2>1. next'["device"] >= next["device"]
    BY <1>2 DEF Acts
  <2>2. n => Got(p) \in Els(net["host"])
    BY <1>q, <1>1, <1>2, MovedEls, Sides
  <2>3. ASSUME NEW m \in Els(ms) PROVE m.arg0 < next'["device"]
    BY <1>a, <1>q, <1>2, <2>1, <2>2 DEF DeviceIds, Acts
  <2>4. \A m \in Els(net'["device"]) : m \in Els(net["device"]) \/ m \in Els(ms)
    BY <1>q, <1>1, <1>2, MovedEls
  <2>5. \A m \in Els(net'["device"]) : m.arg0 < next'["device"]
    BY <1>q, <1>a, <2>1, <2>3, <2>4 DEF DeviceIds
  <2>6. Els(net'["host"]) \subseteq Els(net["host"])
    BY <1>q, <1>1, <1>2, MovedEls, Sides
  <2>7. \A m \in Els(net'["host"]) : m.arg1 < next'["device"]
    BY <1>q, <1>a, <2>1, <2>6 DEF DeviceIds
  <2>8. \A j \in Ids : sock'["host"][j].peer = Peer("host", j)
    BY <1>1, <1>2, Sides DEF OnlyAt, Peer
  <2>9. \A j \in Ids : sock'["host"][j].peer < next'["device"]
    BY <1>q, <1>b, <2>1, <2>8 DEF DeviceIds
  <2> QED BY <2>5, <2>7, <2>9 DEF DeviceIds, Peer
<1>3. CASE p = "host"
  <2>1. next'["device"] = next["device"]
    BY <1>3, Sides DEF Acts
  <2>2. n => Got(p) \in Els(net["device"])
    BY <1>q, <1>1, <1>3, MovedEls, Sides
  <2>3. ASSUME NEW m \in Els(ms) PROVE m.arg1 < next["device"]
    BY <1>q, <1>3, <2>2 DEF DeviceIds, Acts
  <2>4. \A m \in Els(net'["host"]) : m \in Els(net["host"]) \/ m \in Els(ms)
    BY <1>q, <1>1, <1>3, MovedEls
  <2>6. Els(net'["device"]) \subseteq Els(net["device"])
    BY <1>q, <1>1, <1>3, MovedEls, Sides
  <2>8. ASSUME NEW j \in Ids PROVE sock'["host"][j].peer < next["device"]
    BY <1>q, <1>1, <1>3, <2>2 DEF OnlyAt, Peer, DeviceIds, Acts
  <2> QED BY <2>1, <2>3, <2>4, <2>6, <2>8 DEF DeviceIds, Peer
<1> QED BY <1>2, <1>3, Sides

\* The asockets of a side that has handled A_CNXN, or has gone offline, are closed.
LEMMA AllClosed ==
    ASSUME ShapeInv, ShapeInv', OnlineInv, NEW p \in Side, NEW ms, Restarts(p, ms) \/ Ends(p), NEW j \in Ids
    PROVE  ~Open(p, j)' /\ sock'[p][j].peer = 0
<1>1. ~Open(p, j)'
  BY DEF Restarts, ClosedAll, GoneAt, Open, Ends, OnlineInv
<1> QED BY <1>1 DEF ShapeInv, SockShape, Open

\* DeviceIds, for what happens to the connection.
LEMMA DeviceIdsMoves ==
    ASSUME IInv, StatusInv, ShapeInv, ShapeInv', OnlineInv, DeviceIds, Moves
    PROVE  DeviceIds'
<1>q. TypeOK /\ next["device"] \in Nat \ {0} /\ FreshInv
  BY Sides DEF IInv, TypeOK, StatusInv
<1>c. Pkt("CNXN", 0, 0).arg0 < next["device"] /\ Pkt("CNXN", 0, 0).arg1 < next["device"]
  BY <1>q, CnxnOnly
<1>f. ASSUME NEW i \in Ids, Open("device", i) PROVE i < next["device"]
  BY <1>f, <1>q, Sides DEF FreshInv, Open, Ids
<1>1. ASSUME NEW n \in BOOLEAN, NEW m \in Packet, Repeats(n, m) PROVE DeviceIds'
  BY <1>c, <1>q, <1>1, CnxnOnly, MovedEls, Sides DEF Repeats, DeviceIds, Peer
<1>2. ASSUME NEW p \in Side, NEW ms \in Seq(Packet), Restarts(p, ms) PROVE DeviceIds'
  <2>1. Moved(p, TRUE, ms) /\ next' = next
    BY <1>2 DEF Restarts
  <2>2. ASSUME NEW m \in Els(ms) PROVE IF p = "device" THEN m.arg0 < next["device"] ELSE m.arg1 < next["device"]
    BY <1>c, <1>f, <1>2, Sides DEF DeviceIds, Restarts
  <2>3. \A x \in Els(net'[p]) : x \in Els(net[p]) \/ x \in Els(ms)
    BY <1>q, <2>1, MovedEls
  <2>4. Els(net'[Other(p)]) \subseteq Els(net[Other(p)])
    BY <1>q, <2>1, MovedEls
  <2>5. \A j \in Ids : sock'["host"][j].peer \in {0, Peer("host", j)}
    <3>1. CASE p = "host"
      BY <1>2, <3>1, AllClosed
    <3>2. CASE p = "device"
      BY <1>2, <3>2, Sides DEF Restarts, Peer
    <3> QED BY <3>1, <3>2, Sides
  <2>6. \A j \in Ids : sock'["host"][j].peer < next["device"]
    BY <1>q, <2>5 DEF DeviceIds
  <2>7. CASE p = "host"
    BY <2>1, <2>2, <2>3, <2>4, <2>6, <2>7, Sides DEF DeviceIds, Peer
  <2>8. CASE p = "device"
    BY <2>1, <2>2, <2>3, <2>4, <2>6, <2>8, Sides DEF DeviceIds, Peer
  <2> QED BY <2>7, <2>8, Sides
<1>3. ASSUME NEW p \in Side, Ends(p) PROVE DeviceIds'
  <2>1. net' = net /\ next' = next
    BY <1>3 DEF Ends
  <2>5. \A j \in Ids : sock'["host"][j].peer \in {0, Peer("host", j)}
    <3>1. CASE p = "host"
      BY <1>3, <3>1, AllClosed
    <3>2. CASE p = "device"
      BY <1>3, <3>2, Sides DEF Ends, Peer
    <3> QED BY <3>1, <3>2, Sides
  <2> QED BY <1>q, <2>1, <2>5 DEF DeviceIds, Peer
<1>4. ASSUME Connect PROVE DeviceIds'
  <2>1. sock' = sock /\ net'["host"] = <<Pkt("CNXN", 0, 0)>> /\ net'["device"] = net["device"] /\ next' = next
    BY <1>4, <1>q, Sides DEF Connect, TypeOK
  <2>2. \A m \in Els(net'["host"]) : m = Pkt("CNXN", 0, 0)
    BY <2>1, CnxnOnly
  <2> QED BY <1>c, <2>1, <2>2 DEF DeviceIds, Peer
<1>5. ASSUME Break \/ HostRestart PROVE DeviceIds'
  <2>1. \A q \in Side : \A x \in Els(net'[q]) : x \in Els(net[q]) \/ x = Pkt("CNXN", 0, 0)
    BY <1>5, <1>q, CutEls
  <2>2. next'["device"] = next["device"] /\ \A j \in Ids : sock'["host"][j].peer \in {0, Peer("host", j)}
    BY <1>q, <1>5, RestartSocks DEF Break, Peer
  <2> QED BY <1>q, <1>c, <2>1, <2>2, Sides DEF DeviceIds, Peer
<1> QED BY <1>1, <1>2, <1>3, <1>4, <1>5 DEF Moves

\* The late and the early packets after a step of side p that sends no A_CNXN.
LEMMA MovedLate ==
    ASSUME TypeOK, NEW p \in Side, NEW n \in BOOLEAN, NEW ms, Moved(p, n, ms), up,
           \A m \in Els(ms) : m.cmd # "CNXN"
    PROVE  /\ Late(net'[p]) = Late(net[p]) \cup Els(ms) /\ Early(net'[p]) = Early(net[p])
           /\ Late(net'[Other(p)]) \subseteq Late(net[Other(p)])
           /\ Early(net'[Other(p)]) \subseteq Early(net[Other(p)])
           /\ ~Quiet(Other(p)) => /\ Late(net'[Other(p)]) = Late(net[Other(p)])
                                  /\ n => Got(p) \in Early(net[Other(p)])
<1> DEFINE o == Other(p)
<1>0. o \in Side /\ net[p] \in Seq(Packet) /\ net[o] \in Seq(Packet) /\ ms \in Seq(Packet)
      /\ net'[p] = net[p] \o ms
  BY DEF Side, Other, TypeOK, Moved
<1>1. Late(net'[p]) = Late(net[p]) \cup Els(ms) /\ Early(net'[p]) = Early(net[p])
  BY <1>0, LateConcat
<1>2. CASE n
  BY <1>0, <1>1, <1>2, LateTail DEF Moved, Quiet, Got
<1>3. CASE ~n
  BY <1>1, <1>3 DEF Moved
<1> QED BY <1>2, <1>3

\* HostIds, for what side p does.
LEMMA HostIdsActs ==
    ASSUME IInv, IInv', ShapeInv, ShapeInv', HostIds, NEW p \in Side, NEW i \in {0} \cup Ids, NEW n \in BOOLEAN,
           NEW ms \in Seq(Packet), Acts(p, i, n, ms)
    PROVE  HostIds'
<1>q. TypeOK /\ TypeOK' /\ next["host"] \in Nat \ {0} /\ next'["host"] \in Nat \ {0}
  BY Sides DEF IInv, TypeOK
<1>1. Moved(p, n, ms) /\ OnlyAt(p, i) /\ \A m \in Els(ms) : m.cmd # "CNXN"
  BY DEF Acts
<1>2. (up' <=> up) /\ (Quiet("host")' <=> Quiet("host"))
  BY <1>q, QuietKept, Sides DEF Acts, Kept
<1>3. CASE ~up
  BY <1>2, <1>3 DEF HostIds
<1>4. CASE up /\ p = "host"
  <2>1. next'["host"] >= next["host"]
    BY <1>4 DEF Acts
  <2>2. Late(net'["host"]) = Late(net["host"]) \cup Els(ms) /\ Late(net'["device"]) \subseteq Late(net["device"])
    BY <1>q, <1>1, <1>4, MovedLate, Sides
  <2>3. \A m \in Els(ms) : m.cmd # "CLSE" => m.arg0 < next'["host"]
    BY <1>4 DEF Acts
  <2>4. \A m \in Late(net["host"]) \cup Late(net["device"]) : m.arg0 \in Nat /\ m.arg1 \in Nat
    BY EarlyOrLate, Sides DEF ShapeInv, Shape, Ids
  <2>5. \A m \in Late(net'["host"]) : m.cmd # "CLSE" => m.arg0 < next'["host"]
    <3>1. ASSUME NEW m \in Late(net["host"]), m.cmd # "CLSE" PROVE m.arg0 < next'["host"]
      <4>1. m.arg0 < next["host"]
        BY <1>4, <3>1 DEF HostIds
      <4> QED BY <1>q, <2>1, <2>4, <4>1
    <3> QED BY <2>2, <2>3, <3>1
  <2>6. \A j \in Ids : sock'["device"][j].peer = Peer("device", j) /\ Peer("device", j) \in Nat
    <3>1. \A j \in Ids : sock["device"][j] \in Socket
      BY <1>q, Sides DEF TypeOK
    <3>2. \A j \in Ids : sock'["device"][j] = sock["device"][j]
      BY <1>1, <1>4, Sides DEF OnlyAt
    <3> QED BY <3>1, <3>2 DEF Peer, Socket
  <2>7. Quiet("host") => /\ \A m \in Late(net'["device"]) : m.arg1 < next'["host"]
                         /\ \A j \in Ids : sock'["device"][j].peer < next'["host"]
    BY <1>q, <1>4, <2>1, <2>2, <2>4, <2>6 DEF HostIds
  <2> QED BY <1>2, <2>5, <2>7 DEF HostIds, Peer
<1>5. CASE up /\ p = "device"
  <2>1. next'["host"] = next["host"]
    BY <1>5, Sides DEF Acts
  <2>2. Late(net'["device"]) = Late(net["device"]) \cup Els(ms) /\ Late(net'["host"]) \subseteq Late(net["host"])
    BY <1>q, <1>1, <1>5, MovedLate, Sides
  <2>3. \A m \in Late(net'["host"]) : m.cmd # "CLSE" => m.arg0 < next'["host"]
    BY <1>5, <2>1, <2>2 DEF HostIds
  <2>4. ASSUME Quiet("host")
        PROVE  /\ \A m \in Late(net'["device"]) : m.arg1 < next["host"]
               /\ \A j \in Ids : sock'["device"][j].peer < next["host"]
    <3>1. n /\ Got(p).cmd \in {"OPEN", "OKAY"} => Got(p).arg0 < next["host"]
      <4>1. Late(net["host"]) = Els(net["host"])
        BY <2>4, EarlyOrLate DEF Quiet
      <4>2. n => Got(p) \in Els(net["host"])
        BY <1>q, <1>1, <1>5, MovedEls, Sides
      <4> QED BY <1>5, <4>1, <4>2 DEF HostIds
    <3>2. ASSUME NEW m \in Els(ms) PROVE m.arg1 < next["host"]
      BY <1>q, <1>5, <2>4, <3>1 DEF Acts, HostIds
    <3>3. ASSUME NEW j \in Ids PROVE sock'["device"][j].peer < next["host"]
      BY <1>q, <1>1, <1>5, <2>4, <3>1 DEF OnlyAt, Peer, HostIds, Acts
    <3> QED BY <1>5, <2>2, <2>4, <3>2, <3>3 DEF HostIds
  <2> QED BY <1>2, <2>1, <2>3, <2>4 DEF HostIds, Peer
<1> QED BY <1>3, <1>4, <1>5, Sides

\* HostIds, for what happens to the connection.
LEMMA HostIdsMoves ==
    ASSUME IInv, ShapeInv, ShapeInv', OnlineInv, HostIds, Moves
    PROVE  HostIds'
<1>q. TypeOK /\ next["host"] \in Nat \ {0}
  BY Sides DEF IInv, TypeOK
<1>1. ASSUME NEW n \in BOOLEAN, NEW m \in Packet, Repeats(n, m) PROVE HostIds'
  BY <1>q, <1>1, CnxnAgain DEF Repeats, HostIds
<1>2. ASSUME NEW ms \in Seq(Packet), Restarts("device", ms) PROVE HostIds'
  <2>1. Moved("device", TRUE, ms) /\ next' = next /\ ms # <<>> /\ ms[Len(ms)].cmd = "CNXN"
    BY <1>2 DEF Restarts
  <2>2. up' <=> up
    BY <1>2 DEF Restarts
  <2>3. up => Late(net'["device"]) = {}
    BY <1>q, <2>1, CnxnSent, Sides
  <2>4. Late(net'["host"]) \subseteq Late(net["host"])
    BY <1>q, <2>1, Sides, LateTail DEF Moved, TypeOK
  <2>5. \A j \in Ids : sock'["device"][j].peer = 0
    BY <1>2, AllClosed, Sides
  <2> QED BY <1>q, <2>1, <2>2, <2>3, <2>4, <2>5 DEF HostIds, Peer
<1>3. ASSUME NEW ms \in Seq(Packet), Restarts("host", ms) PROVE HostIds'
  <2>1. Moved("host", TRUE, ms) /\ next' = next /\ \A m \in Els(ms) : m.cmd = "CLSE"
    BY <1>3 DEF Restarts
  <2>2. up' <=> up
    BY <1>3 DEF Restarts
  <2>3. CASE ~up
    BY <2>2, <2>3 DEF HostIds
  <2>4. CASE up
    <3>1. Late(net'["host"]) = Late(net["host"]) \cup Els(ms) /\ Late(net'["device"]) \subseteq Late(net["device"])
      BY <1>q, <2>1, <2>4, MovedLate, Sides
    <3>2. Quiet("host")' => Quiet("host")
      BY <1>q, <2>1, MovedEls, Sides DEF Quiet
    <3>3. \A j \in Ids : sock'["device"][j] = sock["device"][j]
      BY <1>3, Sides DEF Restarts
    <3> QED BY <2>1, <2>2, <2>4, <3>1, <3>2, <3>3 DEF HostIds, Peer
  <2> QED BY <2>3, <2>4
<1>4. ASSUME Connect PROVE HostIds'
  <2>1. net'["host"] = <<Pkt("CNXN", 0, 0)>>
    BY <1>4, <1>q, Sides DEF Connect, TypeOK
  <2> DEFINE t == <<Pkt("CNXN", 0, 0)>>
  <2> HIDE DEF t
  <2>2. t \in Seq(Packet) /\ t # <<>> /\ t[Len(t)].cmd = "CNXN" /\ ~(\A m \in Els(t) : m.cmd # "CNXN")
    BY CnxnOnly DEF t
  <2>3. Late(t) = {}
    BY <2>2, LateCnxn
  <2>4. net'["host"] = t
    BY <2>1 DEF t
  <2> QED BY <2>2, <2>3, <2>4 DEF HostIds, Quiet
<1>5. ASSUME HostRestart PROVE HostIds'
  BY <1>5, <1>q, CutEls, Sides DEF HostIds
<1>6. ASSUME Break \/ \E p \in Side : Ends(p) PROVE HostIds'
  BY <1>6 DEF Break, Ends, HostIds
<1> QED BY <1>1, <1>2, <1>3, <1>4, <1>5, <1>6, Sides DEF Moves

-----------------------------------------------------------------------------
(* The device has answered and the host does not know it yet *)

\* AnswerInv, for what the device does.
LEMMA AnswerDevice ==
    ASSUME IInv, IInv', StatusInv, ShapeInv, DeviceIds, AnswerInv, Answering, NEW i \in {0} \cup Ids, NEW n \in BOOLEAN,
           NEW ms \in Seq(Packet), Acts("device", i, n, ms), NEW j \in Ids, Open("device", j)'
    PROVE  Unknown(j)'
<1>q. TypeOK /\ next["device"] \in Nat /\ net["device"] \in Seq(Packet)
  BY Sides DEF IInv, TypeOK
<1>u. up /\ ~Quiet("device")
  BY DEF Answering
<1>1. Moved("device", n, ms) /\ OnlyAt("device", i) /\ \A m \in Els(ms) : m.cmd # "CNXN"
  BY DEF Acts
<1>2. Late(net'["device"]) = Late(net["device"]) \cup Els(ms) /\ Early(net'["device"]) = Early(net["device"])
  BY <1>q, <1>u, <1>1, MovedLate, Sides
<1>3. Els(net'["host"]) \subseteq Els(net["host"]) /\ (n => Got("device") \in Els(net["host"]))
  BY <1>q, <1>1, MovedEls, Sides
<1>4. net'["device"] = net["device"] \o ms
  BY <1>u, <1>1 DEF Moved
<1>5. \A k \in Ids : sock'["host"][k].peer = Peer("host", k)
  BY <1>1, Sides DEF OnlyAt, Peer
<1>6. Early(net["device"]) \subseteq Els(net["device"]) /\ Late(net["device"]) \subseteq Els(net["device"])
  BY EarlyOrLate
<1>7. CASE j # i
  <2>1. Open("device", j) /\ sock'["device"][j].peer = Peer("device", j)
    BY <1>1, <1>7, Sides DEF OnlyAt, Open, Peer
  <2>2. Unknown(j)
    BY <2>1 DEF AnswerInv
  <2>3. \A m \in Els(ms) : m.arg0 = j => m.cmd = "CLSE"
    BY <1>7 DEF Acts
  <2>4. OneOpen(net'["device"], j)
    <3>1. OneOpen(net["device"], j) /\ \A m \in Els(ms) : ~(m.cmd = "OPEN" /\ m.arg0 = j)
      BY <2>2, <2>3 DEF Unknown
    <3> QED BY <1>q, <1>4, <3>1, OneOpenConcat
  <2>5. SaidOK(Peer("device", j), Late(net'["device"]), j)
    BY <1>2, <2>2, <2>3 DEF Unknown, SaidOK
  <2> QED BY <1>2, <1>3, <1>5, <2>1, <2>2, <2>4, <2>5 DEF Unknown, Peer, Has
<1>8. CASE j = i /\ Open("device", j)
  <2>2. Unknown(j)
    BY <1>8 DEF AnswerInv
  <2>1. sock'["device"][j].peer = Peer("device", j)
    BY <1>3, <1>8, <2>2 DEF Acts, Unknown, Open
  <2>3. \A m \in Els(ms) : /\ m.cmd # "OPEN"
                           /\ m.cmd \in {"OKAY", "WRTE"} => m.arg1 = Peer("device", j)
    <3>1. i # next["device"]
      <4>1. ASSUME i = next["device"] PROVE sock["device"][i].st = "none"
        BY <1>q, <1>8, <4>1, Sides DEF FreshInv, StatusInv, Ids
      <4> QED BY <1>8, <4>1 DEF Open
    <3> QED BY <1>8, <2>1, <3>1 DEF Acts, Open
  <2>4. OneOpen(net'["device"], j)
    BY <1>q, <1>4, <2>2, <2>3, OneOpenConcat DEF Unknown
  <2>5. SaidOK(Peer("device", j), Late(net'["device"]), j)
    BY <1>2, <2>2, <2>3 DEF Unknown, SaidOK
  <2> QED BY <1>2, <1>3, <1>5, <2>1, <2>2, <2>4, <2>5 DEF Unknown, Peer, Has
<1>9. CASE j = i /\ ~Open("device", j)
  <2>1. /\ j = next["device"]
        /\ \/ sock'["device"][j].peer = 0
           \/ Has(Els(ms), "OKAY", j, sock'["device"][j].peer)
    BY <1>9 DEF Acts, Open
  <2>2. \A m \in Els(net["device"]) : m.arg0 # j
    BY <1>q, <2>1 DEF DeviceIds
  <2>3. \A m \in Els(net'["host"]) : m.arg1 # j
    BY <1>q, <1>3, <2>1 DEF DeviceIds
  <2>4. \A k \in Ids : sock'["host"][k].peer # j
    BY <1>q, <1>5, <2>1 DEF DeviceIds
  <2>5. OneOpen(net'["device"], j)
    <3>1. CASE \E m \in Els(ms) : m.cmd = "OPEN"
      <4>1. PICK m \in Els(ms) : m.cmd = "OPEN"
        BY <3>1
      <4>2. ms = <<m>> /\ m \in Packet
        BY <4>1, ElsSmall DEF Acts
      <4>3. OneOpen(net["device"] \o <<m>>, j)
        BY <1>q, <2>2, <4>2, OneOpenFirst
      <4> QED BY <1>4, <4>2, <4>3
    <3>2. CASE ~(\E m \in Els(ms) : m.cmd = "OPEN")
      <4>1. OneOpen(net["device"], j)
        BY <2>2 DEF OneOpen, Els
      <4> QED BY <1>q, <1>4, <3>2, <4>1, OneOpenConcat
    <3> QED BY <3>1, <3>2
  <2>6. SaidOK(sock'["device"][j].peer, Late(net'["device"]), j)
    BY <1>2, <1>6, <1>9, <2>2 DEF Acts, Open, SaidOK
  <2>7. \A m \in Early(net'["device"]) : m.arg0 # j
    BY <1>2, <1>6, <2>2
  <2>8. sock'["device"][j].peer # 0 => Has(Late(net'["device"]), "OKAY", j, sock'["device"][j].peer)
    BY <1>2, <2>1 DEF Has
  <2> QED BY <2>3, <2>4, <2>5, <2>6, <2>7, <2>8 DEF Unknown, Peer
<1> QED BY <1>7, <1>8, <1>9

\* AnswerInv, for what the host does.
LEMMA AnswerHost ==
    ASSUME IInv, IInv', ShapeInv, AnswerInv, Answering, NEW i \in {0} \cup Ids, NEW n \in BOOLEAN,
           NEW ms \in Seq(Packet), Acts("host", i, n, ms), NEW j \in Ids, Open("device", j)'
    PROVE  Unknown(j)'
<1>q. TypeOK /\ net["device"] \in Seq(Packet)
  BY Sides DEF IInv, TypeOK
<1>u. up /\ ~Quiet("device")
  BY DEF Answering
<1>1. Moved("host", n, ms) /\ OnlyAt("host", i) /\ \A m \in Els(ms) : m.cmd # "CNXN"
  BY DEF Acts
<1>2. /\ Late(net'["device"]) = Late(net["device"]) /\ Early(net'["device"]) \subseteq Early(net["device"])
      /\ n => Got("host") \in Early(net["device"])
  BY <1>q, <1>u, <1>1, MovedLate, Sides
<1>3. Els(net'["host"]) \subseteq Els(net["host"]) \cup Els(ms)
  BY <1>q, <1>1, MovedEls, Sides
<1>4. Open("device", j) /\ sock'["device"][j].peer = Peer("device", j)
  BY <1>1, Sides DEF OnlyAt, Open, Peer
<1>5. Unknown(j) /\ j # 0
  BY <1>4 DEF AnswerInv, Ids
<1>6. \A m \in Els(ms) : m.arg1 # j
  BY <1>2, <1>5 DEF Acts, Unknown
<1>7. \A k \in Ids : sock'["host"][k].peer # j
  <2> SUFFICES ASSUME NEW k \in Ids PROVE sock'["host"][k].peer # j
    OBVIOUS
  <2>1. CASE k # i
    BY <1>1, <1>5, <2>1, Sides DEF OnlyAt, Peer, Unknown
  <2>2. CASE k = i
    BY <1>2, <1>5, <2>2 DEF Acts, Unknown
  <2> QED BY <2>1, <2>2
<1>8. OneOpen(net'["device"], j)
  BY <1>q, <1>1, <1>5, Sides, OneOpenTail DEF Moved, Unknown
<1> QED BY <1>2, <1>3, <1>4, <1>5, <1>6, <1>7, <1>8 DEF Unknown, Peer

\* AnswerInv, for A_CNXN that the host handles, while it is not the last one.
LEMMA AnswerAgain ==
    ASSUME IInv, IInv', ShapeInv, ShapeInv', OnlineInv, AnswerInv, Answering, NEW ms \in Seq(Packet),
           Restarts("host", ms), NEW j \in Ids, Open("device", j)'
    PROVE  Unknown(j)' /\ Open("device", j) /\ sock'["device"][j].peer = Peer("device", j)
<1>q. TypeOK /\ net["device"] \in Seq(Packet)
  BY Sides DEF IInv, TypeOK
<1>u. up /\ ~Quiet("device")
  BY DEF Answering
<1>1. /\ Moved("host", TRUE, ms)
      /\ \A m \in Els(ms) : m.cmd = "CLSE" /\ \E i \in Ids : m.arg1 = Peer("host", i)
      /\ \A k \in Ids : sock'["device"][k] = sock["device"][k]
  <2>1. Moved("host", TRUE, ms)
    BY DEF Restarts
  <2>2. \A k \in Ids : sock'["device"][k] = sock["device"][k]
    BY Sides DEF Restarts
  <2>3. \A m \in Els(ms) : m.cmd = "CLSE" /\ \E i \in Ids : m.arg1 = Peer("host", i)
    BY DEF Restarts
  <2> QED BY <2>1, <2>2, <2>3
<1>c. \A m \in Els(ms) : m.cmd # "CNXN"
  BY <1>1
<1>2. /\ Late(net'["device"]) = Late(net["device"]) /\ Early(net'["device"]) \subseteq Early(net["device"])
  <2>1. PICK n \in BOOLEAN : n = TRUE
    OBVIOUS
  <2>2. Moved("host", n, ms)
    BY <1>1, <2>1
  <2> QED BY <1>q, <1>u, <1>c, <2>2, MovedLate, Sides
<1>3. Els(net'["host"]) \subseteq Els(net["host"]) \cup Els(ms)
  BY <1>q, <1>1, MovedEls, Sides
<1>4. Open("device", j) /\ sock'["device"][j].peer = Peer("device", j)
  BY <1>1, Sides DEF Open, Peer
<1>5. Unknown(j) /\ j # 0
  BY <1>4 DEF AnswerInv, Ids
<1>6. \A m \in Els(ms) : m.arg1 # j
  BY <1>1, <1>5 DEF Unknown
<1>7. \A k \in Ids : sock'["host"][k].peer # j
  BY <1>5, AllClosed, Sides
<1>8. OneOpen(net'["device"], j)
  BY <1>q, <1>1, <1>5, Sides, OneOpenTail DEF Moved, Unknown
<1>9. Unknown(j)'
  BY <1>2, <1>3, <1>4, <1>5, <1>6, <1>7, <1>8 DEF Unknown, Peer
<1> QED BY <1>4, <1>9

-----------------------------------------------------------------------------
(* Both ends of a stream, once the connection has settled *)

\* Ids not given yet are not in use, and those of peers were given.
LEMMA FreshIds ==
    ASSUME IInv, Calm, DeviceIds, HostIds, NEW p \in Side
    PROVE  /\ \A m \in Els(net[p]) : m.cmd # "CLSE" => m.arg0 # next[p]
           /\ \A m \in Els(net[Other(p)]) : m.arg1 # next[p]
           /\ \A j \in Ids : Peer(Other(p), j) # next[p]
           /\ \A j \in Ids : Peer(p, j) < next[Other(p)]
<1>1. next["host"] \in Nat /\ next["device"] \in Nat
  BY Sides DEF IInv, TypeOK
<1>2. Late(net["host"]) = Els(net["host"]) /\ Late(net["device"]) = Els(net["device"])
  BY EarlyOrLate DEF Calm, Quiet
<1>3. CASE p = "host"
  BY <1>1, <1>2, <1>3, Sides DEF HostIds, DeviceIds, Calm
<1>4. CASE p = "device"
  BY <1>1, <1>2, <1>4, Sides DEF HostIds, DeviceIds, Calm
<1> QED BY <1>3, <1>4, Sides

\* The channels after a step of side p on a connection that is up.
LEMMA MovedNet ==
    ASSUME TypeOK, up, NEW p \in Side, NEW n \in BOOLEAN, NEW ms, Moved(p, n, ms)
    PROVE  /\ net[p] \in Seq(Packet) /\ net[Other(p)] \in Seq(Packet) /\ ms \in Seq(Packet)
           /\ net'[p] = net[p] \o ms /\ Els(net'[p]) = Els(net[p]) \cup Els(ms)
           /\ n => net[Other(p)] # <<>> /\ net'[Other(p)] = Tail(net[Other(p)])
           /\ n => Els(net[Other(p)]) = Els(net'[Other(p)]) \cup {Got(p)}
           /\ ~n => net'[Other(p)] = net[Other(p)]
           /\ Els(net'[Other(p)]) \subseteq Els(net[Other(p)])
BY Sides, ElsConcat, ElsTail DEF Moved, TypeOK, Got

\* Asocket i stays open in a step of its own side.
LEMMA StreamOwn ==
    ASSUME IInv, StatusInv, ShapeInv, Calm, online["host"], online["device"],
           NEW p \in Side, NEW a \in {0} \cup Ids, NEW n \in BOOLEAN, NEW ms \in Seq(Packet), Acts(p, a, n, ms),
           NEW i \in Ids, Open(p, i), Open(p, i)', NEW c \in {0} \cup Ids, Stream(p, i, c)
    PROVE  Stream(p, i, c)'
<1> DEFINE o == Other(p)
           E == Els(net[p])
           F == Els(net[o])
           b == sock'[p][i].peer
<1>q. TypeOK /\ up /\ o \in Side /\ o # p
  BY Sides DEF IInv, Calm
<1>1. Moved(p, n, ms) /\ OnlyAt(p, a) /\ next'[o] = next[o]
  BY DEF Acts
<1>2. /\ net[p] \in Seq(Packet) /\ net[o] \in Seq(Packet)
      /\ net'[p] = net[p] \o ms /\ Els(net'[p]) = E \cup Els(ms)
      /\ n => net[o] # <<>> /\ net'[o] = Tail(net[o])
      /\ n => F = Els(net'[o]) \cup {Got(p)}
      /\ ~n => net'[o] = net[o]
      /\ Els(net'[o]) \subseteq F
  <2>1. TypeOK /\ up /\ Moved(p, n, ms)
    BY <1>q, <1>1
  <2>2. /\ net[p] \in Seq(Packet) /\ net[Other(p)] \in Seq(Packet) /\ ms \in Seq(Packet)
        /\ net'[p] = net[p] \o ms /\ Els(net'[p]) = Els(net[p]) \cup Els(ms)
        /\ n => net[Other(p)] # <<>> /\ net'[Other(p)] = Tail(net[Other(p)])
        /\ n => Els(net[Other(p)]) = Els(net'[Other(p)]) \cup {Got(p)}
        /\ ~n => net'[Other(p)] = net[Other(p)]
        /\ Els(net'[Other(p)]) \subseteq Els(net[Other(p)])
    BY <2>1, MovedNet, Zenon
  <2> QED BY <2>2
<1>3. b = Peer(p, i) \/ (n /\ Got(p).cmd = "OKAY" /\ Got(p).arg1 = i /\ b = Got(p).arg0)
  BY <1>1 DEF Acts, Open, OnlyAt, Peer
<1>4. i # next[p]
  BY DEF StatusInv, FreshInv, Open, IInv, TypeOK, Ids
<1>5. \A m \in Els(ms) : m.arg0 = i => m.cmd # "OPEN" /\ (m.cmd \in {"OKAY", "WRTE"} => m.arg1 = b)
  BY <1>4 DEF Acts, Open
<1>6. n /\ Got(p).cmd = "CLSE" /\ Got(p).arg1 = i => Got(p).arg0 # Peer(p, i)
  <2> SUFFICES ASSUME n, Got(p).cmd = "CLSE", Got(p).arg1 = i PROVE Got(p).arg0 # Peer(p, i)
    OBVIOUS
  <2>1. online[p]
    BY Sides
  <2>2. ~Found(p, i, Got(p).arg0)
    BY <2>1 DEF Acts, Open
  <2> QED BY <2>2 DEF Found, Open, Peer
<1>7. \A j \in Ids : sock'[o][j] = sock[o][j]
  BY <1>q, <1>1 DEF OnlyAt
<1>s. \A m \in E \cup F : Shape(m)
  BY <1>q DEF ShapeInv
<1>g. n => Got(p) \in F
  BY <1>2
<1>8. b \in {0, c}
  BY <1>3, <1>g DEF Stream
<1>9. SaidOK(b, Els(net'[p]), i)
  <2>1. ASSUME NEW m \in E, m.arg0 = i, m.cmd = "OPEN" PROVE b = 0
    BY <1>8, <2>1 DEF Stream
  <2>2. ASSUME NEW m \in E, m.arg0 = i, m.cmd \in {"OKAY", "WRTE"} PROVE b = m.arg1
    BY <1>g, <1>s, <1>3, <1>8, <2>2 DEF Stream, SaidOK, Shape
  <2> QED BY <1>2, <1>5, <2>1, <2>2 DEF SaidOK
<1>10. OneOpen(net'[p], i)
  <2>1. OneOpen(net[p], i) /\ \A m \in Els(ms) : ~(m.cmd = "OPEN" /\ m.arg0 = i)
    BY <1>5 DEF Stream
  <2> QED BY <1>2, <2>1, OneOpenConcat
<1>11. \A m \in Els(net'[p]) : m.cmd = "OPEN" /\ m.arg0 = i => c = 0
  BY <1>2, <1>5 DEF Stream
<1>12. ASSUME c # 0
       PROVE  /\ Has(Els(net'[o]), "CLSE", c, i) => ~Open(o, c)' /\ c < next'[o]
              /\ Last(net'[o], c, i)
              /\ b = c \/ Has(Els(net'[o]), "OKAY", c, i)
                   => \/ sock'[o][c].peer = i
                      \/ Has(Els(net'[p]), "OKAY", i, c)
                      \/ Has(Els(net'[o]), "CLSE", c, i)
  <2>0. Met(p, i, c) /\ c \in Ids
    BY <1>12 DEF Stream
  <2>1. Has(Els(net'[o]), "CLSE", c, i) => ~Open(o, c)' /\ c < next'[o]
    BY <1>1, <1>2, <1>7, <2>0 DEF Met, Has, Open
  <2>2. Last(net'[o], c, i)
    BY <1>2, <2>0, LastTail DEF Met
  <2>3. ASSUME b = c \/ Has(Els(net'[o]), "OKAY", c, i)
        PROVE  Peer(p, i) = c \/ Has(F, "OKAY", c, i)
    BY <1>2, <1>3, <1>g, <2>3 DEF Has
  <2>4. ASSUME n, Got(p).cmd = "CLSE", Got(p).arg0 = c, Got(p).arg1 = i
        PROVE  b # c /\ ~Has(Els(net'[o]), "OKAY", c, i)
    BY <1>2, <1>3, <1>6, <2>0, <2>4, LastTail DEF Met, Got
  <2>5. ASSUME Has(F, "CLSE", c, i), b = c \/ Has(Els(net'[o]), "OKAY", c, i)
        PROVE  Has(Els(net'[o]), "CLSE", c, i)
    BY <1>2, <2>4, <2>5 DEF Has
  <2>6. Has(E, "OKAY", i, c) => Has(Els(net'[p]), "OKAY", i, c)
    BY <1>2 DEF Has
  <2>7. Peer(o, c) = i => sock'[o][c].peer = i
    BY <1>7, <2>0 DEF Peer
  <2>8. ASSUME b = c \/ Has(Els(net'[o]), "OKAY", c, i)
        PROVE  \/ sock'[o][c].peer = i
               \/ Has(Els(net'[p]), "OKAY", i, c)
               \/ Has(Els(net'[o]), "CLSE", c, i)
    BY <2>0, <2>3, <2>5, <2>6, <2>7, <2>8 DEF Met
  <2> QED BY <2>1, <2>2, <2>8
<1>13. c # 0 => Met(p, i, c)'
  BY <1>12 DEF Met, Peer
<1>14. \A m \in Els(net'[o]) : m.arg1 = i => m.arg0 \in {0, c}
  BY <1>2 DEF Stream
<1>15. \A j \in Ids : sock'[o][j].peer = i => j = c
  BY <1>7 DEF Stream, Peer
<1> QED BY <1>8, <1>9, <1>10, <1>11, <1>13, <1>14, <1>15 DEF Stream, Peer

\* Asocket i is created by a step of its side.
LEMMA StreamNew ==
    ASSUME IInv, StatusInv, ShapeInv', Calm, DeviceIds, HostIds,
           NEW p \in Side, NEW a \in {0} \cup Ids, NEW n \in BOOLEAN, NEW ms \in Seq(Packet), Acts(p, a, n, ms),
           NEW i \in Ids, ~Open(p, i), Open(p, i)'
    PROVE  \E c \in {0} \cup Ids : Stream(p, i, c)'
<1> DEFINE o == Other(p)
           b == sock'[p][i].peer
<1>q. TypeOK /\ up /\ o \in Side /\ o # p
  BY Sides DEF IInv, Calm
<1>1. Moved(p, n, ms) /\ OnlyAt(p, a)
  BY DEF Acts
<1>2. /\ net[p] \in Seq(Packet) /\ net'[p] = net[p] \o ms /\ Els(net'[p]) = Els(net[p]) \cup Els(ms)
      /\ Els(net'[Other(p)]) \subseteq Els(net[Other(p)])
  BY <1>q, <1>1, MovedNet
<1>3. a = i
  BY <1>1 DEF OnlyAt, Open
<1>4. /\ i = next[p]
      /\ b = 0 \/ Has(Els(ms), "OKAY", i, b)
  BY <1>3 DEF Acts, Open
<1>5. b \in {0} \cup Ids
  BY DEF ShapeInv, SockShape
<1>6. /\ \A m \in Els(net[p]) : m.arg0 = i => m.cmd = "CLSE"
      /\ \A m \in Els(net'[o]) : m.arg1 # i
      /\ \A j \in Ids : sock'[o][j].peer # i
  BY <1>q, <1>1, <1>2, <1>4, FreshIds DEF OnlyAt, Peer
<1>7. \A m \in Els(ms) : /\ m.cmd = "OPEN" => b = 0
                         /\ m.cmd \in {"OKAY", "WRTE"} => b = m.arg1
  BY <1>3 DEF Acts, Open
<1>8. SaidOK(b, Els(net'[p]), i)
  BY <1>2, <1>6, <1>7 DEF SaidOK
<1>9. OneOpen(net'[p], i)
  <2>1. CASE \E m \in Els(ms) : m.cmd = "OPEN"
    <3>1. PICK m \in Els(ms) : m.cmd = "OPEN"
      BY <2>1
    <3>2. ms = <<m>> /\ m \in Packet
      BY <3>1, ElsSmall DEF Acts
    <3>3. OneOpen(net[p] \o <<m>>, i)
      BY <1>2, <1>6, <3>2, OneOpenFirst
    <3> QED BY <1>2, <3>2, <3>3
  <2>2. CASE ~(\E m \in Els(ms) : m.cmd = "OPEN")
    BY <1>2, <1>6, <2>2, OneOpenConcat DEF OneOpen, Els
  <2> QED BY <2>1, <2>2
<1>10. \A m \in Els(net'[p]) : m.cmd = "OPEN" /\ m.arg0 = i => b = 0
  BY <1>2, <1>6, <1>7
<1>11. b # 0 => Has(Els(net'[p]), "OKAY", i, b)
  BY <1>2, <1>4 DEF Has
<1>12. ~Has(Els(net'[o]), "CLSE", b, i)
  BY <1>6 DEF Has
<1>13. Last(net'[o], b, i)
  BY <1>6 DEF Last, Els
<1>14. PICK c \in {0} \cup Ids : c = b
  BY <1>5
<1>15. c # 0 => Met(p, i, c)'
  BY <1>11, <1>12, <1>13, <1>14 DEF Met
<1>16. Stream(p, i, c)'
  BY <1>6, <1>8, <1>9, <1>10, <1>14, <1>15 DEF Stream, Peer
<1> QED BY <1>16

\* What side o does to the stream of asocket i of the other side and of its
\* partner c: it handles a packet (n) and sends ms.
Meets(o, i, c, n, ms) ==
    /\ \A m \in Els(ms) : m.arg1 = i => m.arg0 \in {0, c}
    /\ \A j \in Ids : sock'[o][j].peer = i => j = c
    /\ c # 0 =>
          /\ Has(Els(net[o]) \cup Els(ms), "CLSE", c, i) => ~Open(o, c)' /\ c < next'[o]
          /\ Has(Els(ms), "OKAY", c, i) =>
                /\ ~Has(Els(net[o]), "CLSE", c, i) /\ ~Has(Els(ms), "CLSE", c, i)
                /\ sock'[o][c].peer = i
          /\ Peer(o, c) = i \/ (n /\ Got(o).cmd = "OKAY" /\ Got(o).arg0 = i /\ Got(o).arg1 = c)
                => sock'[o][c].peer = i \/ Has(Els(ms), "CLSE", c, i)

\* Such a step keeps the stream.
LEMMA StreamMeets ==
    ASSUME TypeOK, up, NEW p \in Side, NEW o \in Side, o = Other(p), NEW i \in Ids, NEW c \in {0} \cup Ids,
           Stream(p, i, c), NEW n \in BOOLEAN, NEW ms \in Seq(Packet), Moved(o, n, ms), Meets(o, i, c, n, ms),
           sock'[p][i].peer = Peer(p, i)
    PROVE  Stream(p, i, c)'
<1>q. Other(o) = p /\ o # p
  BY Sides
<1>1. /\ net[p] \in Seq(Packet) /\ net[o] \in Seq(Packet) /\ ms \in Seq(Packet)
      /\ net'[o] = net[o] \o ms /\ Els(net'[o]) = Els(net[o]) \cup Els(ms)
      /\ n => net[p] # <<>> /\ net'[p] = Tail(net[p])
      /\ n => Els(net[p]) = Els(net'[p]) \cup {Got(o)}
      /\ ~n => net'[p] = net[p]
      /\ Els(net'[p]) \subseteq Els(net[p])
  BY <1>q, MovedNet
<1>2. SaidOK(Peer(p, i), Els(net'[p]), i)
  BY <1>1 DEF Stream, SaidOK
<1>3. OneOpen(net'[p], i)
  BY <1>1, OneOpenTail DEF Stream
<1>4. ASSUME c # 0
      PROVE  /\ Has(Els(net'[o]), "CLSE", c, i) => ~Open(o, c)' /\ c < next'[o]
             /\ Last(net'[o], c, i)
             /\ Peer(p, i) = c \/ Has(Els(net'[o]), "OKAY", c, i)
                  => \/ sock'[o][c].peer = i
                     \/ Has(Els(net'[p]), "OKAY", i, c)
                     \/ Has(Els(net'[o]), "CLSE", c, i)
  <2>0. Met(p, i, c)
    BY <1>4 DEF Stream
  <2>1. Has(Els(net'[o]), "CLSE", c, i) => ~Open(o, c)' /\ c < next'[o]
    BY <1>1, <1>4 DEF Meets
  <2>2. Last(net'[o], c, i)
    BY <1>1, <1>4, <2>0, LastConcat DEF Met, Meets
  <2>3. ASSUME Peer(p, i) = c \/ Has(Els(net'[o]), "OKAY", c, i)
        PROVE  \/ sock'[o][c].peer = i
               \/ Has(Els(net'[p]), "OKAY", i, c)
               \/ Has(Els(net'[o]), "CLSE", c, i)
    <3>1. CASE Has(Els(ms), "OKAY", c, i)
      BY <1>4, <3>1 DEF Meets
    <3>2. CASE ~Has(Els(ms), "OKAY", c, i)
      <4>1. Peer(p, i) = c \/ Has(Els(net[o]), "OKAY", c, i)
        BY <1>1, <2>3, <3>2 DEF Has
      <4>2. CASE Peer(o, c) = i
        BY <1>1, <1>4, <4>2 DEF Meets, Has
      <4>3. CASE Has(Els(net[p]), "OKAY", i, c)
        <5>1. PICK m \in Els(net[p]) : m.cmd = "OKAY" /\ m.arg0 = i /\ m.arg1 = c
          BY <4>3 DEF Has
        <5>2. m \in Els(net'[p]) \/ (n /\ m = Got(o))
          BY <1>1
        <5>3. CASE n /\ m = Got(o)
          BY <1>1, <1>4, <5>1, <5>3 DEF Meets, Has
        <5> QED BY <5>1, <5>2, <5>3 DEF Has
      <4>4. CASE Has(Els(net[o]), "CLSE", c, i)
        BY <1>1, <4>4 DEF Has
      <4> QED BY <2>0, <4>1, <4>2, <4>3, <4>4 DEF Met
    <3> QED BY <3>1, <3>2
  <2> QED BY <2>1, <2>2, <2>3
<1>5. c # 0 => Met(p, i, c)'
  BY <1>4 DEF Met, Peer
<1>6. \A m \in Els(net'[o]) : m.arg1 = i => m.arg0 \in {0, c}
  BY <1>1 DEF Stream, Meets
<1>7. \A j \in Ids : sock'[o][j].peer = i => j = c
  BY DEF Meets
<1>8. \A m \in Els(net'[p]) : m.cmd = "OPEN" /\ m.arg0 = i => c = 0
  BY <1>1 DEF Stream
<1>9. Peer(p, i) \in {0, c}
  BY DEF Stream
<1> QED BY <1>2, <1>3, <1>5, <1>6, <1>7, <1>8, <1>9 DEF Stream, Peer

\* Asocket i stays open in a step of the other side.
LEMMA StreamOther ==
    ASSUME IInv, StatusInv, ShapeInv, Calm, online["host"], online["device"], DeviceIds, HostIds, StreamInv,
           NEW p \in Side, NEW o \in Side, o = Other(p), Works(o),
           NEW i \in Ids, Open(p, i), NEW c \in {0} \cup Ids, Stream(p, i, c)
    PROVE  \E d \in {0} \cup Ids : Stream(p, i, d)'
<1>q. TypeOK /\ up /\ Other(o) = p /\ o # p /\ online[o] /\ i # 0 /\ 0 \notin Ids
  BY Sides DEF IInv, Calm, Ids
<1>n. next[o] \in Nat /\ \A j \in Ids : j \in Nat
  BY <1>q DEF TypeOK, Ids
<1>s. /\ Peer(p, i) \in {0, c}
      /\ \A m \in Els(net[o]) : m.arg1 = i => m.arg0 \in {0, c}
      /\ \A j \in Ids : Peer(o, j) = i => j = c
      /\ SaidOK(Peer(p, i), Els(net[p]), i)
      /\ c # 0 /\ Has(Els(net[o]), "CLSE", c, i) => ~Open(o, c) /\ c < next[o]
  BY DEF Stream, Met
<1>h. /\ \A m \in Els(net[p]) \cup Els(net[o]) : Shape(m)
      /\ \A j \in Ids : ~Open(o, j) => Peer(o, j) = 0
  BY NoPeer DEF ShapeInv
<1>f. \A j \in Ids : Open(o, j) => j < next[o]
  BY <1>n DEF StatusInv, FreshInv, Open
<1>e. Els(<<>>) = {} /\ (\A m : Els(<<m>>) = {m}) /\ <<>> \in Seq(Packet) /\ \A m \in Packet : <<m>> \in Seq(Packet)
  BY ElsSmall
<1>o. ASSUME NEW a, OnlyAt(o, a)
      PROVE  sock'[p][i].peer = Peer(p, i) /\ \A j \in Ids : j # a => sock'[o][j] = sock[o][j]
  BY <1>q, <1>o DEF OnlyAt, Peer
<1>m. ASSUME NEW n \in BOOLEAN, NEW ms \in Seq(Packet), Moved(o, n, ms), Meets(o, i, c, n, ms),
             sock'[p][i].peer = Peer(p, i)
      PROVE  \E d \in {0} \cup Ids : Stream(p, i, d)'
  BY <1>q, <1>m, StreamMeets
<1>g. ASSUME NEW ms, Moved(o, TRUE, ms) PROVE Got(o) \in Els(net[p])
  BY <1>q, <1>g, MovedEls
<1>1. ASSUME NEW a \in Ids, Idles(o, a) PROVE \E d \in {0} \cup Ids : Stream(p, i, d)'
  <2> DEFINE ms == <<>>
  <2>1. OnlyAt(o, a) /\ next' = next /\ net' = net /\ sock'[o][a].peer = Peer(o, a) /\ (Open(o, a)' <=> Open(o, a))
    BY <1>1 DEF Idles, Open
  <2>2. Moved(o, FALSE, ms) /\ ms \in Seq(Packet) /\ Els(ms) = {}
    BY <1>q, <1>e, <2>1 DEF Moved, TypeOK
  <2>3. \A j \in Ids : sock'[o][j].peer = Peer(o, j) /\ (Open(o, j)' <=> Open(o, j))
    BY <1>o, <2>1 DEF Open, Peer
  <2> HIDE DEF ms
  <2>4. Meets(o, i, c, FALSE, ms)
    BY <1>s, <2>1, <2>2, <2>3 DEF Meets, Has
  <2> QED BY <1>m, <1>o, <2>1, <2>2, <2>4
<1>2. ASSUME NEW a \in Ids, NEW n \in BOOLEAN, NEW ms \in Seq(Packet), OnlyAt(o, a), next' = next, Moved(o, n, ms),
             Open(o, a), sock'[o][a].peer = Peer(o, a), Open(o, a)',
             n => Got(o).cmd # "OKAY",
             \A m \in Els(ms) : m.cmd # "CLSE" /\ m.arg0 = a /\ m.arg1 = Peer(o, a)
      PROVE  \E d \in {0} \cup Ids : Stream(p, i, d)'
  BY <1>m, <1>o, <1>s, <1>2 DEF Open, Peer, Meets, Has
<1>3. ASSUME NEW a \in Ids, NEW m \in Packet, Says(o, a, m) PROVE \E d \in {0} \cup Ids : Stream(p, i, d)'
  <2> DEFINE ms == <<m>>
  <2>1. OnlyAt(o, a) /\ next' = next /\ Moved(o, FALSE, ms) /\ Open(o, a) /\ sock'[o][a].peer = Peer(o, a) /\ Open(o, a)'
    BY <1>3 DEF Says, Open
  <2>2. ms \in Seq(Packet) /\ \A x \in Els(ms) : x.cmd # "CLSE" /\ x.arg0 = a /\ x.arg1 = Peer(o, a)
    BY <1>3, <1>e DEF Says
  <2> HIDE DEF ms
  <2> QED BY <1>2, <2>1, <2>2
<1>4. ASSUME NEW a \in Ids, NEW ms \in Seq(Packet), Takes(o, a, ms) PROVE \E d \in {0} \cup Ids : Stream(p, i, d)'
  <2>1. OnlyAt(o, a) /\ next' = next /\ Moved(o, TRUE, ms) /\ Open(o, a) /\ sock'[o][a].peer = Peer(o, a) /\ Open(o, a)'
        /\ Got(o).cmd = "WRTE"
    BY <1>4 DEF Takes, Open
  <2>2. \A x \in Els(ms) : x.cmd # "CLSE" /\ x.arg0 = a /\ x.arg1 = Peer(o, a)
    BY <1>e, <1>4 DEF Takes
  <2> QED BY <1>2, <2>1, <2>2
<1>5. ASSUME NEW a \in Ids, NEW n \in BOOLEAN, NEW ms \in Seq(Packet), Leaves(o, a, n, ms)
      PROVE  \E d \in {0} \cup Ids : Stream(p, i, d)'
  <2>1. OnlyAt(o, a) /\ next' = next /\ Moved(o, n, ms) /\ Open(o, a) /\ sock'[o][a].peer = 0 /\ ~Open(o, a)'
        /\ (n => Got(o).cmd # "OKAY")
    BY <1>5 DEF Leaves, GoneAt, Open
  <2>2. /\ \A m \in Els(ms) : m.cmd # "OKAY" /\ m.arg0 = a /\ m.arg1 = Peer(o, a)
        /\ Peer(o, a) # 0 => Has(Els(ms), "CLSE", a, Peer(o, a))
    BY <1>5 DEF Leaves, Has
  <2>3. \A j \in Ids : j # a => sock'[o][j].peer = Peer(o, j) /\ (Open(o, j)' <=> Open(o, j))
    BY <1>o, <2>1 DEF Open, Peer
  <2>4. \A m \in Els(ms) : m.arg1 = i => m.arg0 \in {0, c}
    BY <1>s, <2>2
  <2>5. \A j \in Ids : sock'[o][j].peer = i => j = c
    BY <1>q, <1>s, <2>1, <2>3
  <2>6. ASSUME c # 0, Has(Els(net[o]) \cup Els(ms), "CLSE", c, i) PROVE ~Open(o, c)' /\ c < next'[o]
    <3>1. CASE c = a
      BY <1>f, <2>1, <3>1
    <3>2. CASE c # a
      BY <1>s, <2>1, <2>2, <2>3, <2>6, <3>2 DEF Has
    <3> QED BY <3>1, <3>2
  <2>7. ~Has(Els(ms), "OKAY", c, i)
    BY <2>2 DEF Has
  <2>8. c # 0 /\ Peer(o, c) = i => sock'[o][c].peer = i \/ Has(Els(ms), "CLSE", c, i)
    BY <1>q, <2>2, <2>3
  <2>9. Meets(o, i, c, n, ms)
    BY <2>1, <2>4, <2>5, <2>6, <2>7, <2>8 DEF Meets
  <2> QED BY <1>m, <1>o, <2>1, <2>9
<1>6. ASSUME NEW a \in Ids, Resumes(o, a) PROVE \E d \in {0} \cup Ids : Stream(p, i, d)'
  <2> DEFINE ms == <<>>
  <2>1. OnlyAt(o, a) /\ next' = next /\ Moved(o, TRUE, ms) /\ Open(o, a) /\ Open(o, a)'
        /\ sock'[o][a].peer = Got(o).arg0 /\ Got(o).cmd = "OKAY" /\ Got(o).arg1 = a /\ Peer(o, a) \in {0, Got(o).arg0}
    BY <1>6 DEF Resumes, Open
  <2>2. ms \in Seq(Packet) /\ Els(ms) = {}
    BY <1>e
  <2> HIDE DEF ms
  <2>3. \A j \in Ids : /\ j # a => sock'[o][j].peer = Peer(o, j)
                       /\ Open(o, j)' <=> Open(o, j)
    BY <1>o, <2>1 DEF Open, Peer
  <2>4. Got(o).arg0 = i => a = c
    BY <1>g, <1>q, <1>s, <2>1 DEF SaidOK
  <2>5. \A j \in Ids : sock'[o][j].peer = i => j = c
    BY <1>s, <2>1, <2>3, <2>4
  <2>6. c # 0 /\ (Peer(o, c) = i \/ (Got(o).arg0 = i /\ Got(o).arg1 = c)) => sock'[o][c].peer = i
    BY <1>q, <2>1, <2>3
  <2>7. Meets(o, i, c, TRUE, ms)
    BY <1>s, <2>1, <2>2, <2>3, <2>5, <2>6 DEF Meets, Has
  <2> QED BY <1>m, <1>o, <2>1, <2>2, <2>7
<1>7. ASSUME Drops(o) PROVE \E d \in {0} \cup Ids : Stream(p, i, d)'
  <2> DEFINE ms == <<>>
  <2>1. sock' = sock /\ next' = next /\ Moved(o, TRUE, ms)
        /\ (Got(o).cmd = "OKAY" => Got(o).arg1 \in Ids /\ Open(o, Got(o).arg1) /\ Peer(o, Got(o).arg1) \notin {0, Got(o).arg0})
    BY <1>7, <1>q DEF Drops
  <2>2. ms \in Seq(Packet) /\ Els(ms) = {}
    BY <1>e
  <2> HIDE DEF ms
  <2>3. ~(Got(o).cmd = "OKAY" /\ Got(o).arg0 = i)
    <3> SUFFICES ASSUME Got(o).cmd = "OKAY", Got(o).arg0 = i PROVE FALSE
      OBVIOUS
    <3>1. PICK j \in Ids : j = Got(o).arg1
      BY <2>1
    <3>2. Open(o, j) /\ Peer(o, j) \notin {0, i}
      BY <2>1, <3>1
    <3>3. PICK d \in {0} \cup Ids : Stream(o, j, d)
      BY <3>2 DEF StreamInv
    <3>4. Got(o) \in Els(net[p])
      BY <1>g, <2>1
    <3>5. i \in {0, d} /\ Peer(o, j) \in {0, d}
      BY <1>q, <3>1, <3>3, <3>4 DEF Stream
    <3> QED BY <1>q, <3>2, <3>5
  <2>4. sock'[p][i].peer = Peer(p, i) /\ \A j \in Ids : sock'[o][j].peer = Peer(o, j) /\ (Open(o, j)' <=> Open(o, j))
    BY <2>1 DEF Open, Peer
  <2>5. Meets(o, i, c, TRUE, ms)
    BY <1>s, <2>1, <2>2, <2>3, <2>4 DEF Meets, Has
  <2> QED BY <1>m, <2>1, <2>2, <2>4, <2>5
<1>8. ASSUME NEW m \in Packet, Refuses(o, m) PROVE \E d \in {0} \cup Ids : Stream(p, i, d)'
  <2> DEFINE ms == <<m>>
  <2>1. sock' = sock /\ next' = next /\ Moved(o, TRUE, ms) /\ m.cmd = "CLSE" /\ m.arg1 = Got(o).arg0
        /\ \/ Got(o).cmd = "OPEN" /\ m.arg0 = 0
           \/ Got(o).cmd = "OKAY" /\ m.arg0 = Got(o).arg1 /\ ~(Got(o).arg1 \in Ids /\ Open(o, Got(o).arg1))
    BY <1>8 DEF Refuses
  <2>2. ms \in Seq(Packet) /\ Els(ms) = {m}
    BY <1>e
  <2> HIDE DEF ms
  <2>3. Got(o) \in Els(net[p])
    BY <1>g, <2>1
  <2>4. ASSUME Got(o).cmd = "OKAY", Got(o).arg0 = i
        PROVE  m.arg0 = c /\ c \in Ids /\ ~Open(o, c) /\ c < next[o] /\ Peer(p, i) = c
    BY <1>h, <1>s, <2>1, <2>3, <2>4, FreshIds DEF SaidOK, Shape
  <2>5. sock'[p][i].peer = Peer(p, i) /\ \A j \in Ids : sock'[o][j].peer = Peer(o, j) /\ (Open(o, j)' <=> Open(o, j))
    BY <2>1 DEF Open, Peer
  <2>6. \A x \in Els(ms) : x.arg1 = i => x.arg0 \in {0, c}
    BY <2>1, <2>2, <2>4
  <2>7. ASSUME c # 0, Has(Els(net[o]) \cup Els(ms), "CLSE", c, i) PROVE ~Open(o, c)' /\ c < next'[o]
    BY <1>s, <2>1, <2>2, <2>4, <2>5, <2>7 DEF Has
  <2>8. ~Has(Els(ms), "OKAY", c, i)
    BY <2>1, <2>2 DEF Has
  <2>9. c # 0 /\ (Peer(o, c) = i \/ (Got(o).cmd = "OKAY" /\ Got(o).arg0 = i /\ Got(o).arg1 = c))
          => sock'[o][c].peer = i \/ Has(Els(ms), "CLSE", c, i)
    BY <2>1, <2>2, <2>4, <2>5 DEF Has
  <2>10. Meets(o, i, c, TRUE, ms)
    BY <1>s, <2>5, <2>6, <2>7, <2>8, <2>9 DEF Meets
  <2> QED BY <1>m, <2>1, <2>2, <2>5, <2>10
<1>9. ASSUME NEW a \in Ids, NEW n \in BOOLEAN, NEW ms \in Seq(Packet), a = next[o], OnlyAt(o, a), Moved(o, n, ms),
             next' = [next EXCEPT ![o] = a + 1], sock'[o][a].peer # i,
             n => Got(o).cmd # "OKAY",
             \A m \in Els(ms) : m.arg1 # i
      PROVE  \E d \in {0} \cup Ids : Stream(p, i, d)'
  <2>1. next'[o] = a + 1 /\ a \in Nat
    BY <1>q, <1>n, <1>9 DEF TypeOK
  <2>2. \A j \in Ids : j # a => sock'[o][j].peer = Peer(o, j) /\ (Open(o, j)' <=> Open(o, j))
    BY <1>o, <1>9 DEF Open, Peer
  <2>3. Peer(o, a) = 0
    BY <1>f, <1>h, <1>n, <1>9
  <2>4. \A j \in Ids : sock'[o][j].peer = i => j = c
    BY <1>s, <1>9, <2>2
  <2>5. ~Has(Els(ms), "OKAY", c, i) /\ ~Has(Els(ms), "CLSE", c, i)
    BY <1>9 DEF Has
  <2>6. ASSUME c # 0, Has(Els(net[o]) \cup Els(ms), "CLSE", c, i) PROVE ~Open(o, c)' /\ c < next'[o]
    <3>1. Has(Els(net[o]), "CLSE", c, i)
      BY <2>5, <2>6 DEF Has
    <3>2. ~Open(o, c) /\ c < next[o] /\ c \in Ids
      BY <1>s, <2>6, <3>1
    <3>3. c # a /\ c < next'[o]
      <4>1. c \in Nat /\ c < a /\ a \in Nat /\ next'[o] = a + 1
        BY <1>n, <1>9, <2>1, <3>2
      <4> QED BY <4>1
    <3> QED BY <2>2, <3>2, <3>3
  <2>7. c # 0 /\ Peer(o, c) = i => sock'[o][c].peer = i
    BY <1>q, <2>2, <2>3
  <2>8. Meets(o, i, c, n, ms)
    BY <1>9, <2>4, <2>5, <2>6, <2>7 DEF Meets
  <2> QED BY <1>m, <1>o, <1>9, <2>8
<1>10. ASSUME NEW a \in Ids, NEW m \in Packet, Dials(o, a, m) PROVE \E d \in {0} \cup Ids : Stream(p, i, d)'
  <2> DEFINE ms == <<m>>
  <2>1. a = next[o] /\ OnlyAt(o, a) /\ Moved(o, FALSE, ms) /\ next' = [next EXCEPT ![o] = a + 1]
        /\ sock'[o][a].peer = 0 /\ m.arg1 = 0
    BY <1>10 DEF Dials
  <2>2. ms \in Seq(Packet) /\ \A x \in Els(ms) : x.arg1 # i
    BY <1>e, <1>q, <2>1
  <2> HIDE DEF ms
  <2>3. sock'[o][a].peer # i
    BY <1>q, <2>1
  <2> QED BY <1>9, <2>1, <2>2, <2>3
<1>11. ASSUME NEW a \in Ids, NEW m \in Packet, Accepts(o, a, m) PROVE \E d \in {0} \cup Ids : Stream(p, i, d)'
  <2> DEFINE ms == <<m>>
  <2>1. a = next[o] /\ OnlyAt(o, a) /\ Moved(o, TRUE, ms) /\ next' = [next EXCEPT ![o] = a + 1]
        /\ sock'[o][a].peer = Got(o).arg0 /\ m.arg1 = Got(o).arg0 /\ m.arg0 = a /\ m.cmd = "OKAY" /\ Got(o).cmd = "OPEN"
    BY <1>11 DEF Accepts
  <2>2. ms \in Seq(Packet) /\ Els(ms) = {m}
    BY <1>e
  <2> HIDE DEF ms
  <2>3. CASE Got(o).arg0 # i
    BY <1>9, <2>1, <2>2, <2>3
  <2>4. CASE Got(o).arg0 = i
    <3>1. /\ net[p] \in Seq(Packet) /\ net[p] # <<>> /\ net'[p] = Tail(net[p]) /\ Got(o) = Head(net[p])
          /\ Els(net'[o]) = Els(net[o]) \cup {m} /\ Els(net'[p]) \subseteq Els(net[p]) /\ Got(o) \in Els(net[p])
      <4>1. PICK n \in BOOLEAN : n = TRUE
        OBVIOUS
      <4>2. Moved(o, n, ms)
        BY <2>1, <4>1
      <4>3. /\ net[p] \in Seq(Packet) /\ net[p] # <<>> /\ net'[p] = Tail(net[p])
            /\ Els(net'[o]) = Els(net[o]) \cup Els(ms) /\ Els(net'[p]) \subseteq Els(net[p])
        BY <1>q, <4>1, <4>2, MovedNet
      <4> QED BY <1>q, <1>g, <2>1, <2>2, <4>3 DEF Got
    <3>2. c = 0 /\ Peer(p, i) = 0
      BY <1>s, <2>1, <2>4, <3>1 DEF Stream
    <3>3. OneOpen(net'[p], i) /\ \A x \in Els(net'[p]) : ~(x.cmd = "OPEN" /\ x.arg0 = i)
      BY <2>1, <2>4, <3>1, OneOpenTail DEF Stream
    <3>4. sock'[p][i].peer = 0 /\ \A j \in Ids : j # a => sock'[o][j].peer # i
      BY <1>o, <1>q, <1>s, <2>1, <3>2 DEF Peer
    <3>5. \A x \in Els(net'[o]) : x.arg1 = i => x.arg0 = 0 \/ x = m
      BY <1>s, <3>1, <3>2
    <3>6. SaidOK(0, Els(net'[p]), i)
      BY <1>s, <3>1, <3>2 DEF SaidOK
    <3>7. ~Has(Els(net'[o]), "CLSE", a, i)
      BY <1>q, <2>1, <3>5 DEF Has
    <3>8. Last(net'[o], a, i)
      BY <3>7 DEF Last, Els, Has
    <3>9. Met(p, i, a)'
      BY <2>1, <2>4, <3>7, <3>8 DEF Met, Peer
    <3>10. Stream(p, i, a)'
      BY <2>1, <3>3, <3>4, <3>5, <3>6, <3>9 DEF Stream, Peer
    <3> QED BY <3>10
  <2> QED BY <2>3, <2>4
<1> QED BY <1>1, <1>3, <1>4, <1>5, <1>6, <1>7, <1>8, <1>10, <1>11 DEF Works

-----------------------------------------------------------------------------
(* What both ends agree on, step by step *)

\* The connection has settled, or the device has answered: what happened to it before.
LEMMA QuietMoves ==
    ASSUME IInv, Moves, up', Quiet("host")'
    PROVE  /\ up /\ \E p \in Side, ms \in Seq(Packet) : Restarts(p, ms)
           /\ \A ms \in Seq(Packet) : Restarts("device", ms) => ~Quiet("device")'
           /\ \A ms \in Seq(Packet) : Restarts("host", ms) => Answering
<1>q. TypeOK
  BY DEF IInv
<1>1. ~Connect
  <2> SUFFICES ASSUME Connect PROVE FALSE
    OBVIOUS
  <2>1. net'["host"] = <<Pkt("CNXN", 0, 0)>>
    BY <1>q, Sides DEF Connect, TypeOK
  <2>2. Pkt("CNXN", 0, 0) \in Els(net'["host"])
    BY <2>1, CnxnOnly
  <2> QED BY <2>2, CnxnOnly DEF Quiet
<1>2. ~Break
  BY DEF Break
<1>3. ~HostRestart
  BY <1>q, CutEls, Sides
<1>4. \A p \in Side : ~Ends(p)
  BY DEF Ends
<1>5. ASSUME NEW n \in BOOLEAN, NEW m \in Packet, Repeats(n, m) PROVE FALSE
  BY <1>q, <1>5, CnxnAgain DEF Repeats
<1>6. PICK p \in Side, ms \in Seq(Packet) : Restarts(p, ms)
  BY <1>1, <1>2, <1>3, <1>4, <1>5 DEF Moves
<1>7. up
  BY <1>6 DEF Restarts
<1>t. PICK n \in BOOLEAN : n = TRUE
  OBVIOUS
<1>8. ASSUME NEW ns \in Seq(Packet), Restarts("device", ns) PROVE ~Quiet("device")'
  BY <1>q, <1>t, <1>7, <1>8, CnxnSent, Sides DEF Restarts
<1>9. ASSUME NEW ns \in Seq(Packet), Restarts("host", ns) PROVE Answering
  BY <1>q, <1>t, <1>7, <1>9, MovedEls, Sides DEF Restarts, Answering, Quiet
<1> QED BY <1>6, <1>7, <1>8, <1>9

\* AnswerInv, for what side p does.
LEMMA AnswerActs ==
    ASSUME IInv, IInv', StatusInv, LinkInv, NEW p \in Side, NEW a \in {0} \cup Ids, NEW n \in BOOLEAN,
           NEW ms \in Seq(Packet), Acts(p, a, n, ms)
    PROVE  AnswerInv'
<1>q. TypeOK
  BY DEF IInv
<1>1. Answering' => Answering
  BY <1>q, QuietKept, Sides DEF Acts, Kept, Answering
<1>2. ASSUME Answering', NEW j \in Ids, Open("device", j)' PROVE Unknown(j)'
  BY <1>1, <1>2, AnswerDevice, AnswerHost, Sides DEF LinkInv
<1> QED BY <1>2 DEF AnswerInv

\* AnswerInv, for what happens to the connection.
LEMMA AnswerMoves ==
    ASSUME IInv, IInv', ShapeInv', LinkInv, Moves
    PROVE  AnswerInv'
<1>1. ASSUME Answering', NEW j \in Ids, Open("device", j)' PROVE Unknown(j)'
  <2>1. up' /\ Quiet("host")'
    BY <1>1 DEF Answering
  <2>2. PICK p \in Side, ms \in Seq(Packet) : Restarts(p, ms)
    BY <2>1, QuietMoves
  <2>3. CASE p = "device"
    BY <1>1, <2>2, <2>3, AllClosed DEF LinkInv
  <2>4. CASE p = "host"
    BY <1>1, <2>1, <2>2, <2>4, QuietMoves, AnswerAgain DEF LinkInv
  <2> QED BY <2>3, <2>4, Sides
<1> QED BY <1>1 DEF AnswerInv

\* StreamInv, for what side p does.
LEMMA StreamActs ==
    ASSUME IInv, StatusInv, LinkInv, ShapeInv', NEW p \in Side, Works(p), NEW a \in {0} \cup Ids, NEW n \in BOOLEAN,
           NEW ms \in Seq(Packet), Acts(p, a, n, ms)
    PROVE  StreamInv'
<1>q. TypeOK /\ ShapeInv /\ OnlineInv /\ DeviceIds /\ HostIds /\ StreamInv
  BY DEF IInv, LinkInv
<1>1. Calm' => Calm
  BY <1>q, QuietKept, Sides DEF Acts, Kept, Calm
<1>2. ASSUME Calm', NEW q \in Side, NEW i \in Ids, Open(q, i)'
      PROVE  \E c \in {0} \cup Ids : Stream(q, i, c)'
  <2>1. Calm /\ online["host"] /\ online["device"]
    BY <1>1, <1>2, <1>q DEF Calm, OnlineInv
  <2>2. ASSUME Open(q, i) PROVE \E c \in {0} \cup Ids : Stream(q, i, c)
    BY <1>q, <2>1, <2>2 DEF StreamInv
  <2>3. CASE q = p /\ Open(q, i)
    <3>1. PICK c \in {0} \cup Ids : Stream(p, i, c)
      BY <2>2, <2>3
    <3>2. Stream(p, i, c)'
      BY <1>2, <1>q, <2>1, <2>3, <3>1, StreamOwn
    <3> QED BY <2>3, <3>2
  <2>4. CASE q = p /\ ~Open(q, i)
    BY <1>2, <1>q, <2>1, <2>4, StreamNew
  <2>5. CASE q # p
    <3>1. p = Other(q) /\ Open(q, i)
      BY <1>2, <2>5, Sides DEF Acts, OnlyAt, Open
    <3>2. PICK c \in {0} \cup Ids : Stream(q, i, c)
      BY <2>2, <3>1
    <3> QED BY <1>q, <2>1, <3>1, <3>2, StreamOther
  <2> QED BY <2>3, <2>4, <2>5
<1> QED BY <1>2 DEF StreamInv

\* StreamInv, for what happens to the connection: it settles when the host
\* handles the last answer of the device.
LEMMA StreamMoves ==
    ASSUME IInv, IInv', ShapeInv', LinkInv, Moves
    PROVE  StreamInv'
<1>1. ASSUME Calm', NEW q \in Side, NEW j \in Ids, Open(q, j)'
      PROVE  \E c \in {0} \cup Ids : Stream(q, j, c)'
  <2>1. up' /\ Quiet("host")' /\ Quiet("device")'
    BY <1>1 DEF Calm
  <2>2. PICK p \in Side, ms \in Seq(Packet) : Restarts(p, ms)
    BY <2>1, QuietMoves
  <2>3. p = "host"
    BY <2>1, <2>2, QuietMoves, Sides
  <2>4. Answering
    BY <2>1, <2>2, <2>3, QuietMoves
  <2>5. q = "device" /\ \A i \in Ids : sock'["host"][i].peer = 0
    BY <1>1, <2>2, <2>3, AllClosed, Sides DEF LinkInv
  <2>6. Unknown(j)'
    BY <1>1, <2>2, <2>3, <2>4, <2>5, AnswerAgain DEF LinkInv
  <2>7. Late(net'["device"]) = Els(net'["device"])
    BY <2>1, EarlyOrLate DEF Quiet
  <2>8. PICK c \in {0} \cup Ids : c = sock'["device"][j].peer
    BY Sides DEF ShapeInv, SockShape
  <2>9. /\ \A m \in Els(net'["host"]) : m.arg1 # j
        /\ \A i \in Ids : sock'["host"][i].peer # j
        /\ c # 0 => Has(Els(net'["device"]), "OKAY", j, c)
        /\ SaidOK(c, Els(net'["device"]), j)
        /\ OneOpen(net'["device"], j)
    BY <2>6, <2>7, <2>8 DEF Unknown, Peer
  <2>10. ~Has(Els(net'["host"]), "CLSE", c, j) /\ Last(net'["host"], c, j)
    BY <2>9 DEF Has, Last, Els
  <2>11. c # 0 => Met("device", j, c)'
    BY <2>9, <2>10, Sides DEF Met
  <2>12. Stream("device", j, c)'
    BY <2>8, <2>9, <2>11, Sides DEF Stream, Peer, SaidOK
  <2> QED BY <2>5, <2>12
<1> QED BY <1>1 DEF StreamInv

\* LinkInv holds at first.
LEMMA LinkBase == Init => LinkInv
<1> SUFFICES ASSUME Init PROVE LinkInv
  OBVIOUS
<1>1. /\ \A p \in Side, i \in Ids : sock[p][i] = NoSock
      /\ \A p \in Side : net[p] = <<>> /\ next[p] = 1
      /\ up = FALSE
  BY DEF Init
<1>2. NoSock.st = "none" /\ NoSock.peer = 0 /\ ~NoSock.rd
  BY DEF NoSock, Asocket
<1>3. \A p \in Side : Els(net[p]) = {}
  BY <1>1, ElsSmall
<1>4. ShapeInv
  BY <1>1, <1>2, <1>3 DEF ShapeInv, SockShape
<1>5. OnlineInv
  BY <1>1, <1>2 DEF OnlineInv, Open
<1>6. DeviceIds
  BY <1>1, <1>2, <1>3, Sides DEF DeviceIds, Peer
<1>7. HostIds /\ AnswerInv /\ StreamInv
  BY <1>1 DEF HostIds, AnswerInv, Answering, StreamInv, Calm
<1> QED BY <1>4, <1>5, <1>6, <1>7 DEF LinkInv

\* And every step keeps it.
LEMMA LinkStep ==
    ASSUME IInv, IInv', StatusInv, LinkInv, [Next]_vars
    PROVE  LinkInv'
<1>q. ShapeInv /\ OnlineInv /\ DeviceIds /\ HostIds
  BY DEF LinkInv
<1>1. ASSUME NEW p \in Side, Works(p) PROVE LinkInv'
  <2>1. PICK a \in {0} \cup Ids, n \in BOOLEAN, ms \in Seq(Packet) : Acts(p, a, n, ms)
    BY <1>1, <1>q, ActsView DEF ShapeInv
  <2>2. ShapeInv'
    BY <1>q, <2>1, ShapeActs
  <2>3. OnlineInv' /\ DeviceIds' /\ HostIds'
    BY <1>q, <2>1, <2>2, OnlineActs, DeviceIdsActs, HostIdsActs
  <2>4. AnswerInv' /\ StreamInv'
    BY <1>1, <2>1, <2>2, AnswerActs, StreamActs
  <2> QED BY <2>2, <2>3, <2>4 DEF LinkInv
<1>2. ASSUME Moves PROVE LinkInv'
  BY <1>q, <1>2, ShapeMoves, OnlineMoves, DeviceIdsMoves, HostIdsMoves, AnswerMoves, StreamMoves DEF LinkInv
<1>3. ASSUME UNCHANGED vars PROVE LinkInv'
  <2>1. UNCHANGED <<sock, fd, next, net, online, up>>
    BY <1>3 DEF vars, link
  <2>2. ShapeInv' /\ OnlineInv' /\ DeviceIds' /\ HostIds'
    BY <1>q, <2>1 DEF ShapeInv, OnlineInv, DeviceIds, HostIds, Open, Peer, Quiet
  <2>3. AnswerInv'
    BY <2>1 DEF LinkInv, AnswerInv, Answering, Unknown, Open, Peer, Quiet
  <2>4. StreamInv'
    BY <2>1 DEF LinkInv, StreamInv, Calm, Stream, Met, Open, Peer, Quiet
  <2> QED BY <2>2, <2>3, <2>4 DEF LinkInv
<1> QED BY <1>1, <1>2, <1>3, Views

\* Count, as the number of those places.
LEMMA CountAt ==
    ASSUME TypeOK, NEW p \in Side, NEW c, NEW a0, NEW a1
    PROVE  /\ Count(p, c, a0, a1) = Cardinality(At(net[p], c, a0, a1))
           /\ IsFiniteSet(At(net[p], c, a0, a1)) /\ Count(p, c, a0, a1) \in Nat
           /\ InFlight(p, c, a0, a1) <=> Has(Els(net[p]), c, a0, a1)
<1>1. net[p] \in Seq(Packet) /\ Len(net[p]) \in Nat
  BY LenProperties DEF TypeOK
<1>2. IsFiniteSet(At(net[p], c, a0, a1))
  <2>1. IsFiniteSet(1..Len(net[p]))
    BY <1>1, FS_Interval
  <2> QED BY <2>1, FS_Subset DEF At
<1>3. Count(p, c, a0, a1) = Cardinality(At(net[p], c, a0, a1))
  BY DEF Count, At
<1>4. Count(p, c, a0, a1) \in Nat /\ (Count(p, c, a0, a1) = 0 <=> At(net[p], c, a0, a1) = {})
  BY <1>2, <1>3, FS_CardinalityType, FS_EmptySet
<1>5. At(net[p], c, a0, a1) # {} <=> Has(Els(net[p]), c, a0, a1)
  BY DEF At, Has, Els
<1>6. InFlight(p, c, a0, a1) <=> Count(p, c, a0, a1) # 0
  BY <1>4 DEF InFlight
<1> QED BY <1>2, <1>3, <1>4, <1>5, <1>6

\* A connection that has settled carries no A_CNXN.
LEMMA SettledCalm ==
    ASSUME IInv, ShapeInv, Settled
    PROVE  Calm
<1>1. ASSUME NEW p \in Side PROVE Quiet(p)
  BY CountAt DEF IInv, Settled, Quiet, Has, ShapeInv, Shape
<1> QED BY <1>1, Sides DEF Calm, Settled

\* What the streams of a connection that has settled have at their other ends.
LEMMA LinkHolds == IInv /\ LinkInv => NoHalfOpen
<1> SUFFICES ASSUME IInv, LinkInv, NEW p \in Side, NEW i \in Ids,
                    Settled, Open(p, i), Peer(p, i) # 0
             PROVE  \/ Peer(p, i) \in Ids /\ Open(Other(p), Peer(p, i)) /\ sock[Other(p)][Peer(p, i)].peer = i
                    \/ InFlight(p, "OKAY", i, Peer(p, i))
                    \/ InFlight(Other(p), "CLSE", Peer(p, i), i)
  BY DEF NoHalfOpen, Peer
<1>q. TypeOK /\ ShapeInv /\ Calm /\ Other(p) \in Side /\ i # 0
  BY SettledCalm, Sides DEF IInv, LinkInv, Ids
<1>1. PICK c \in {0} \cup Ids : Stream(p, i, c)
  BY <1>q DEF LinkInv, StreamInv
<1>2. c = Peer(p, i) /\ c \in Ids
  BY <1>1 DEF Stream
<1>3. \/ Peer(Other(p), c) = i
      \/ Has(Els(net[p]), "OKAY", i, c)
      \/ Has(Els(net[Other(p)]), "CLSE", c, i)
  BY <1>1, <1>2 DEF Stream, Met
<1>4. Peer(Other(p), c) = i => Open(Other(p), c)
  BY <1>q, <1>2, NoPeer
<1>5. Has(Els(net[p]), "OKAY", i, c) => InFlight(p, "OKAY", i, c)
  BY <1>q, CountAt
<1>6. Has(Els(net[Other(p)]), "CLSE", c, i) => InFlight(Other(p), "CLSE", c, i)
  BY <1>q, CountAt
<1> QED BY <1>2, <1>3, <1>4, <1>5, <1>6 DEF Peer

-----------------------------------------------------------------------------
(* The flow-control token of either direction of a stream *)

\* The number of places in a channel is finite.
LEMMA NumNat ==
    ASSUME NEW S, NEW s \in Seq(S), NEW c, NEW a0, NEW a1
    PROVE  /\ IsFiniteSet(At(s, c, a0, a1)) /\ Num(s, c, a0, a1) \in Nat
           /\ ~Has(Els(s), c, a0, a1) => Num(s, c, a0, a1) = 0
<1>1. Len(s) \in Nat
  BY LenProperties
<1>2. IsFiniteSet(At(s, c, a0, a1))
  <2>1. IsFiniteSet(1..Len(s))
    BY <1>1, FS_Interval
  <2> QED BY <2>1, FS_Subset DEF At
<1>3. Num(s, c, a0, a1) \in Nat /\ (Num(s, c, a0, a1) = 0 <=> At(s, c, a0, a1) = {})
  BY <1>2, FS_CardinalityType, FS_EmptySet DEF Num
<1>4. At(s, c, a0, a1) # {} <=> Has(Els(s), c, a0, a1)
  BY DEF At, Has, Els
<1> QED BY <1>2, <1>3, <1>4

\* Other packets are sent.
LEMMA NumConcat ==
    ASSUME NEW S, NEW s \in Seq(S), NEW t \in Seq(S), NEW c, NEW a0, NEW a1, ~Has(Els(t), c, a0, a1)
    PROVE  Num(s \o t, c, a0, a1) = Num(s, c, a0, a1)
<1>1. ASSUME NEW k \in At(s \o t, c, a0, a1) PROVE k \in At(s, c, a0, a1)
  BY ConcatAt DEF At, Is, Els, Has
<1>2. ASSUME NEW k \in At(s, c, a0, a1) PROVE k \in At(s \o t, c, a0, a1)
  BY ConcatAt DEF At
<1>3. At(s \o t, c, a0, a1) = At(s, c, a0, a1)
  BY <1>1, <1>2
<1> QED BY <1>3 DEF Num

\* One such packet is sent.
LEMMA NumOne ==
    ASSUME NEW S, NEW s \in Seq(S), NEW t \in Seq(S), Len(t) = 1, NEW c, NEW a0, NEW a1, Is(t[1], c, a0, a1)
    PROVE  Num(s \o t, c, a0, a1) = Num(s, c, a0, a1) + 1
<1> DEFINE k == Len(s) + 1
<1>0. Len(s) \in Nat /\ 1 \in 1..Len(t)
  BY LenProperties
<1>1. k \in At(s \o t, c, a0, a1)
  <2>1. /\ Len(s \o t) = Len(s) + Len(t)
        /\ \A x \in 1..Len(s) + Len(t) : (s \o t)[x] = IF x <= Len(s) THEN s[x] ELSE t[x - Len(s)]
    BY ConcatProperties
  <2>2. k \in 1..Len(s) + Len(t) /\ ~(k <= Len(s)) /\ k - Len(s) = 1
    BY <1>0
  <2>3. k \in 1..Len(s \o t) /\ (s \o t)[k] = t[1]
    BY <2>1, <2>2
  <2> QED BY <2>3 DEF At, Is
<1>2. ASSUME NEW l \in At(s \o t, c, a0, a1) PROVE l = k \/ l \in At(s, c, a0, a1)
  <2>1. l \in 1..Len(s \o t) /\ Is((s \o t)[l], c, a0, a1)
    BY DEF At, Is
  <2>2. CASE l \in 1..Len(s)
    BY <2>1, <2>2, ConcatAt DEF At, Is
  <2>3. CASE l > Len(s)
    <3>1. l - Len(s) \in 1..1
      BY <2>1, <2>3, ConcatAt
    <3> QED BY <1>0, <2>1, <2>3, <3>1
  <2> QED BY <2>1, <2>2, <2>3, ConcatAt
<1>3. ASSUME NEW l \in At(s, c, a0, a1) PROVE l \in At(s \o t, c, a0, a1) /\ l # k
  BY <1>0, ConcatAt DEF At, Is
<1>4. At(s \o t, c, a0, a1) = At(s, c, a0, a1) \cup {k} /\ k \notin At(s, c, a0, a1)
  BY <1>1, <1>2, <1>3
<1>5. IsFiniteSet(At(s, c, a0, a1))
  BY NumNat
<1> HIDE DEF k
<1>6. Cardinality(At(s, c, a0, a1) \cup {k}) = Cardinality(At(s, c, a0, a1)) + 1
  BY <1>4, <1>5, FS_AddElement
<1> QED BY <1>4, <1>6 DEF Num

\* A packet is handled.
LEMMA NumTail ==
    ASSUME NEW S, NEW s \in Seq(S), s # <<>>, NEW c, NEW a0, NEW a1
    PROVE  Num(s, c, a0, a1) = Num(Tail(s), c, a0, a1) + (IF Is(Head(s), c, a0, a1) THEN 1 ELSE 0)
<1> DEFINE A == At(s, c, a0, a1)
           B == At(Tail(s), c, a0, a1)
           T == {k \in A : k # 1}
           f == [k \in B |-> k + 1]
<1>0. Tail(s) \in Seq(S) /\ Len(s) \in Nat /\ Len(Tail(s)) \in Nat /\ 1 \in 1..Len(s)
  BY TailAt, LenProperties
<1>1. ASSUME NEW k \in B PROVE k + 1 \in T /\ k \in Nat
  BY <1>0, TailAt DEF At, Is
<1>2. ASSUME NEW k \in T PROVE k - 1 \in B /\ (k - 1) + 1 = k
  BY <1>0, TailAt DEF At, Is
<1>3. f \in [B -> T] /\ \A k \in B : f[k] = k + 1
  BY <1>1
<1>4. IsFiniteSet(A) /\ IsFiniteSet(B)
  BY <1>0, NumNat
<1>5. 1 \in A <=> Is(Head(s), c, a0, a1)
  BY <1>0, TailAt DEF At, Is
<1>n. Cardinality(A) = Num(s, c, a0, a1) /\ Cardinality(B) = Num(Tail(s), c, a0, a1)
  BY DEF Num
<1>t. T = A \ {1} /\ T \subseteq A
  OBVIOUS
<1> HIDE DEF A, B, T, f
<1>6. f \in Bijection(B, T)
  BY <1>1, <1>2, <1>3 DEF Injection, IsInjective, Surjection, Bijection
<1>7. ExistsBijection(B, T)
  BY <1>6 DEF ExistsBijection
<1>8. IsFiniteSet(T) /\ Cardinality(T) = Cardinality(B)
  BY <1>t, <1>4, <1>7, FS_Subset, FS_Bijection
<1>9. Cardinality(A) \in Nat /\ Cardinality(B) \in Nat
  BY <1>4, FS_CardinalityType
<1>10. CASE 1 \in A
  BY <1>n, <1>t, <1>4, <1>5, <1>8, <1>9, <1>10, FS_RemoveElement
<1>11. CASE 1 \notin A
  <2>1. T = A
    BY <1>11, <1>t
  <2> QED BY <1>5, <1>8, <1>9, <1>11, <1>n, <2>1
<1> QED BY <1>10, <1>11

\* More packets are sent.
LEMMA FirstConcat ==
    ASSUME NEW S, NEW s \in Seq(S), NEW t \in Seq(S), NEW i, NEW j, First(s, i, j),
           ~Has(Els(t), "WRTE", i, j) \/ Has(Els(s), "OKAY", i, j)
    PROVE  First(s \o t, i, j)
<1> SUFFICES ASSUME NEW k \in 1..Len(s \o t), Is((s \o t)[k], "WRTE", i, j)
             PROVE  \E l \in 1..Len(s \o t) : l < k /\ Is((s \o t)[l], "OKAY", i, j)
  BY DEF First
<1>0. Len(s) \in Nat
  BY LenProperties
<1>1. CASE k \in 1..Len(s)
  <2>1. Is(s[k], "WRTE", i, j)
    BY <1>1, ConcatAt
  <2>2. PICK l \in 1..Len(s) : l < k /\ Is(s[l], "OKAY", i, j)
    BY <1>1, <2>1 DEF First
  <2>3. l \in 1..Len(s \o t) /\ (s \o t)[l] = s[l]
    BY ConcatAt
  <2> QED BY <2>2, <2>3
<1>2. CASE k > Len(s)
  <2>1. k - Len(s) \in 1..Len(t) /\ (s \o t)[k] = t[k - Len(s)]
    BY <1>2, ConcatAt
  <2>2. Has(Els(t), "WRTE", i, j)
    BY <2>1 DEF Has, Els, Is
  <2>3. PICK l \in 1..Len(s) : Is(s[l], "OKAY", i, j)
    BY <2>2 DEF Has, Els, Is
  <2>4. l \in 1..Len(s \o t) /\ (s \o t)[l] = s[l]
    BY ConcatAt
  <2>5. l < k
    BY <1>0, <1>2
  <2> QED BY <2>3, <2>4, <2>5
<1> QED BY <1>1, <1>2, ConcatAt

\* The head, which is no such A_WRTE, is handled.
LEMMA FirstTail ==
    ASSUME NEW S, NEW s \in Seq(S), s # <<>>, NEW i, NEW j, First(s, i, j)
    PROVE  /\ ~Is(Head(s), "WRTE", i, j)
           /\ ~Is(Head(s), "OKAY", i, j) => First(Tail(s), i, j)
<1>0. Len(s) \in Nat /\ 1 \in 1..Len(s) /\ Head(s) = s[1]
  BY TailAt
<1>1. ~Is(Head(s), "WRTE", i, j)
  BY <1>0 DEF First
<1>2. ASSUME ~Is(Head(s), "OKAY", i, j), NEW k \in 1..Len(Tail(s)), Is(Tail(s)[k], "WRTE", i, j)
      PROVE  \E l \in 1..Len(Tail(s)) : l < k /\ Is(Tail(s)[l], "OKAY", i, j)
  <2>1. k + 1 \in 1..Len(s) /\ Is(s[k + 1], "WRTE", i, j)
    BY <1>2, TailAt
  <2>2. PICK l \in 1..Len(s) : l < k + 1 /\ Is(s[l], "OKAY", i, j)
    BY <2>1 DEF First
  <2>3. l # 1
    BY <1>0, <1>2, <2>2
  <2>4. l - 1 \in 1..Len(Tail(s)) /\ Tail(s)[l - 1] = s[l]
    BY <2>3, TailAt
  <2>5. l - 1 < k
    BY <1>0, <2>2
  <2> QED BY <2>2, <2>4, <2>5
<1> QED BY <1>1, <1>2 DEF First

\* The packets of some kind under way after a step of side p on a connection that is up.
LEMMA MovedNum ==
    ASSUME TypeOK, up, NEW p \in Side, NEW n \in BOOLEAN, NEW ms, Moved(p, n, ms), NEW c, NEW a0, NEW a1
    PROVE  /\ Num(net[p], c, a0, a1) \in Nat /\ Num(net[Other(p)], c, a0, a1) \in Nat
           /\ Num(net'[Other(p)], c, a0, a1) \in Nat
           /\ ~Has(Els(ms), c, a0, a1) => Num(net'[p], c, a0, a1) = Num(net[p], c, a0, a1)
           /\ Len(ms) = 1 /\ Is(ms[1], c, a0, a1) => Num(net'[p], c, a0, a1) = Num(net[p], c, a0, a1) + 1
           /\ n /\ Is(Got(p), c, a0, a1) => Num(net[Other(p)], c, a0, a1) = Num(net'[Other(p)], c, a0, a1) + 1
           /\ ~(n /\ Is(Got(p), c, a0, a1)) => Num(net'[Other(p)], c, a0, a1) = Num(net[Other(p)], c, a0, a1)
<1>1. /\ net[p] \in Seq(Packet) /\ net[Other(p)] \in Seq(Packet) /\ ms \in Seq(Packet)
      /\ net'[p] = net[p] \o ms
      /\ n => net[Other(p)] # <<>> /\ net'[Other(p)] = Tail(net[Other(p)])
      /\ ~n => net'[Other(p)] = net[Other(p)]
  BY MovedNet
<1>2. Num(net[p], c, a0, a1) \in Nat /\ Num(net[Other(p)], c, a0, a1) \in Nat
  BY <1>1, NumNat
<1>3. ~Has(Els(ms), c, a0, a1) => Num(net'[p], c, a0, a1) = Num(net[p], c, a0, a1)
  BY <1>1, NumConcat
<1>4. Len(ms) = 1 /\ Is(ms[1], c, a0, a1) => Num(net'[p], c, a0, a1) = Num(net[p], c, a0, a1) + 1
  BY <1>1, NumOne
<1>5. CASE n
  <2>1. Tail(net[Other(p)]) \in Seq(Packet) /\ Got(p) = Head(net[Other(p)])
    BY <1>1, <1>5 DEF Got
  <2>2. Num(net'[Other(p)], c, a0, a1) \in Nat
    BY <1>1, <1>5, <2>1, NumNat
  <2>3. Num(net[Other(p)], c, a0, a1)
          = Num(net'[Other(p)], c, a0, a1) + (IF Is(Got(p), c, a0, a1) THEN 1 ELSE 0)
    BY <1>1, <1>5, <2>1, NumTail
  <2> QED BY <1>2, <1>3, <1>4, <1>5, <2>2, <2>3
<1>6. CASE ~n
  BY <1>1, <1>2, <1>3, <1>4, <1>6
<1> QED BY <1>5, <1>6

\* Credit, for a step of the writer: it sends no data on the stream and is not
\* told to go on, it sends data, or it is told to go on.
LEMMA WriterCredit ==
    ASSUME TypeOK, up, NEW p \in Side, NEW o \in Side, o = Other(p), NEW i \in Ids, NEW j \in Ids, Credit(p, i, j),
           NEW n \in BOOLEAN, NEW ms, Moved(p, n, ms), sock'[o][j] = sock[o][j],
           fd'[p][i].hup = "no" => fd[p][i].hup = "no",
           \/ /\ ~Has(Els(ms), "WRTE", i, j) /\ ~(n /\ Is(Got(p), "OKAY", j, i))
              /\ sock'[p][i].rd <=> sock[p][i].rd
           \/ /\ ~n /\ Len(ms) = 1 /\ Is(ms[1], "WRTE", i, j)
              /\ ~sock'[p][i].rd /\ (fd[p][i].hup = "no" => sock[p][i].rd)
              /\ Peer(o, j) = 0 => Has(Els(net[p]), "OKAY", i, j)
           \/ /\ n /\ ~Has(Els(ms), "WRTE", i, j) /\ Is(Got(p), "OKAY", j, i) /\ sock'[p][i].rd
    PROVE  Credit(p, i, j)'
<1> DEFINE W == Num(net[p], "WRTE", i, j)
           K == Num(net[o], "OKAY", j, i)
           V == Num(net'[p], "WRTE", i, j)
           L == Num(net'[o], "OKAY", j, i)
<1>1. net[p] \in Seq(Packet) /\ ms \in Seq(Packet) /\ net'[p] = net[p] \o ms
  BY MovedNet
<1>2. /\ W \in Nat
      /\ ~Has(Els(ms), "WRTE", i, j) => V = W
      /\ Len(ms) = 1 /\ Is(ms[1], "WRTE", i, j) => V = W + 1
  BY MovedNum
<1>3. /\ K \in Nat /\ L \in Nat
      /\ n /\ Is(Got(p), "OKAY", j, i) => K = L + 1
      /\ ~(n /\ Is(Got(p), "OKAY", j, i)) => L = K
  BY MovedNum
<1>4. Peer(o, j) = 0 => First(net[p], i, j)
  BY DEF Credit
<1>5. sock'[o][j].peer = 0 => First(net'[p], i, j)
  <2> SUFFICES ASSUME Peer(o, j) = 0 PROVE First(net'[p], i, j)
    BY DEF Peer
  <2>1. ~Has(Els(ms), "WRTE", i, j) \/ Has(Els(net[p]), "OKAY", i, j)
    OBVIOUS
  <2> QED BY <1>1, <1>4, <2>1, FirstConcat
<1>6. fd[p][i].hup = "no" => W + K + (IF sock[p][i].rd THEN 1 ELSE 0) + (IF sock[o][j].q # <<>> THEN 1 ELSE 0) = 1
  BY DEF Credit
<1> HIDE DEF W, K, V, L
<1>7. fd'[p][i].hup = "no" =>
         V + L + (IF sock'[p][i].rd THEN 1 ELSE 0) + (IF sock'[o][j].q # <<>> THEN 1 ELSE 0) = 1
  <2> SUFFICES ASSUME fd[p][i].hup = "no"
               PROVE  V + L + (IF sock'[p][i].rd THEN 1 ELSE 0) + (IF sock[o][j].q # <<>> THEN 1 ELSE 0) = 1
    OBVIOUS
  <2>0. W + K + (IF sock[p][i].rd THEN 1 ELSE 0) + (IF sock[o][j].q # <<>> THEN 1 ELSE 0) = 1
    BY <1>6
  <2>1. CASE /\ ~Has(Els(ms), "WRTE", i, j) /\ ~(n /\ Is(Got(p), "OKAY", j, i))
             /\ sock'[p][i].rd <=> sock[p][i].rd
    BY <1>2, <1>3, <2>0, <2>1
  <2>2. CASE /\ ~n /\ Len(ms) = 1 /\ Is(ms[1], "WRTE", i, j)
             /\ ~sock'[p][i].rd /\ (fd[p][i].hup = "no" => sock[p][i].rd)
    BY <1>2, <1>3, <2>0, <2>2
  <2>3. CASE n /\ ~Has(Els(ms), "WRTE", i, j) /\ Is(Got(p), "OKAY", j, i) /\ sock'[p][i].rd
    BY <1>2, <1>3, <2>0, <2>3
  <2> QED BY <2>1, <2>2, <2>3
<1> QED BY <1>5, <1>7 DEF Credit, W, K, V, L, Peer

\* And of the reader: no data is handled on the stream and it does not tell the
\* writer to go on; it does once its queue has drained; or it handles data,
\* which it writes at once or queues.
LEMMA ReaderCredit ==
    ASSUME TypeOK, up, NEW p \in Side, NEW o \in Side, o = Other(p), NEW i \in Ids, NEW j \in Ids, Credit(p, i, j),
           NEW n \in BOOLEAN, NEW ms, Moved(o, n, ms), sock'[p][i] = sock[p][i], fd'[p][i] = fd[p][i],
           sock'[o][j].peer = 0 => Peer(o, j) = 0 /\ ~(n /\ Is(Got(o), "OKAY", i, j)),
           \/ /\ ~Has(Els(ms), "OKAY", j, i) /\ ~(n /\ Is(Got(o), "WRTE", i, j))
              /\ sock'[o][j].q = <<>> <=> sock[o][j].q = <<>>
           \/ /\ ~n /\ Len(ms) = 1 /\ Is(ms[1], "OKAY", j, i)
              /\ sock[o][j].q # <<>> /\ sock'[o][j].q = <<>>
           \/ /\ n /\ Len(ms) = 1 /\ Is(ms[1], "OKAY", j, i) /\ Is(Got(o), "WRTE", i, j)
              /\ sock[o][j].q = <<>> /\ sock'[o][j].q = <<>>
           \/ /\ n /\ ~Has(Els(ms), "OKAY", j, i) /\ Is(Got(o), "WRTE", i, j)
              /\ sock'[o][j].q # <<>>
    PROVE  Credit(p, i, j)'
<1> DEFINE W == Num(net[p], "WRTE", i, j)
           K == Num(net[o], "OKAY", j, i)
           V == Num(net'[p], "WRTE", i, j)
           L == Num(net'[o], "OKAY", j, i)
<1>o. Other(o) = p
  BY Sides
<1>1. /\ net[p] \in Seq(Packet)
      /\ n => net[p] # <<>> /\ net'[p] = Tail(net[p])
      /\ ~n => net'[p] = net[p]
  BY <1>o, MovedNet
<1>2. /\ K \in Nat
      /\ ~Has(Els(ms), "OKAY", j, i) => L = K
      /\ Len(ms) = 1 /\ Is(ms[1], "OKAY", j, i) => L = K + 1
  BY MovedNum
<1>3. /\ W \in Nat /\ V \in Nat
      /\ n /\ Is(Got(o), "WRTE", i, j) => W = V + 1
      /\ ~(n /\ Is(Got(o), "WRTE", i, j)) => V = W
  BY <1>o, MovedNum
<1>5. sock'[o][j].peer = 0 => First(net'[p], i, j)
  <2> SUFFICES ASSUME Peer(o, j) = 0, ~(n /\ Is(Got(o), "OKAY", i, j)) PROVE First(net'[p], i, j)
    OBVIOUS
  <2>1. First(net[p], i, j)
    BY DEF Credit
  <2>2. CASE n
    BY <1>o, <1>1, <2>1, <2>2, FirstTail DEF Got
  <2>3. CASE ~n
    BY <1>1, <2>1, <2>3
  <2> QED BY <2>2, <2>3
<1>6. fd[p][i].hup = "no" => W + K + (IF sock[p][i].rd THEN 1 ELSE 0) + (IF sock[o][j].q # <<>> THEN 1 ELSE 0) = 1
  BY DEF Credit
<1> HIDE DEF W, K, V, L
<1>7. fd'[p][i].hup = "no" =>
         V + L + (IF sock'[p][i].rd THEN 1 ELSE 0) + (IF sock'[o][j].q # <<>> THEN 1 ELSE 0) = 1
  <2> SUFFICES ASSUME fd[p][i].hup = "no"
               PROVE  V + L + (IF sock[p][i].rd THEN 1 ELSE 0) + (IF sock'[o][j].q # <<>> THEN 1 ELSE 0) = 1
    OBVIOUS
  <2>0. W + K + (IF sock[p][i].rd THEN 1 ELSE 0) + (IF sock[o][j].q # <<>> THEN 1 ELSE 0) = 1
    BY <1>6
  <2>1. CASE /\ ~Has(Els(ms), "OKAY", j, i) /\ ~(n /\ Is(Got(o), "WRTE", i, j))
             /\ sock'[o][j].q = <<>> <=> sock[o][j].q = <<>>
    BY <1>2, <1>3, <2>0, <2>1
  <2>2. CASE /\ ~n /\ Len(ms) = 1 /\ Is(ms[1], "OKAY", j, i)
             /\ sock[o][j].q # <<>> /\ sock'[o][j].q = <<>>
    BY <1>2, <1>3, <2>0, <2>2
  <2>3. CASE /\ n /\ Len(ms) = 1 /\ Is(ms[1], "OKAY", j, i) /\ Is(Got(o), "WRTE", i, j)
             /\ sock[o][j].q = <<>> /\ sock'[o][j].q = <<>>
    BY <1>2, <1>3, <2>0, <2>3
  <2>4. CASE /\ n /\ ~Has(Els(ms), "OKAY", j, i) /\ Is(Got(o), "WRTE", i, j) /\ sock'[o][j].q # <<>>
    BY <1>2, <1>3, <2>0, <2>4
  <2> QED BY <2>1, <2>2, <2>3, <2>4
<1> QED BY <1>5, <1>7 DEF Credit, W, K, V, L, Peer

\* What the packets between the ends of a stream can be.
LEMMA LinkedPair ==
    ASSUME IInv, ShapeInv, Calm, StreamInv, NEW p \in Side, NEW o \in Side, o = Other(p),
           NEW i \in Ids, NEW j \in Ids, Linked(p, i, j)
    PROVE  /\ Linked(o, j, i)
           /\ \A m \in Els(net[o]) : m.cmd = "OKAY" /\ m.arg1 = i => m.arg0 = j
           /\ \A m \in Els(net[p]) : m.cmd = "OKAY" /\ m.arg1 = j => m.arg0 = i
           /\ Peer(p, i) = j /\ Peer(o, j) = 0 => Has(Els(net[p]), "OKAY", i, j)
<1>q. Other(o) = p /\ o # p /\ i # 0 /\ j # 0
  BY Sides DEF Ids
<1>1. Linked(o, j, i)
  BY <1>q DEF Linked
<1>2. PICK c \in {0} \cup Ids : Stream(p, i, c)
  BY DEF StreamInv, Linked
<1>3. PICK d \in {0} \cup Ids : Stream(o, j, d)
  BY <1>1 DEF StreamInv, Linked
<1>4. c = j
  BY <1>q, <1>2 DEF Stream, Linked
<1>5. d = i
  BY <1>q, <1>3 DEF Stream, Linked
<1>6. \A m \in Els(net[p]) \cup Els(net[o]) : m.cmd = "OKAY" => m.arg0 # 0
  BY DEF ShapeInv, Shape
<1>7. \A m \in Els(net[o]) : m.cmd = "OKAY" /\ m.arg1 = i => m.arg0 = j
  BY <1>2, <1>4, <1>6 DEF Stream
<1>8. \A m \in Els(net[p]) : m.cmd = "OKAY" /\ m.arg1 = j => m.arg0 = i
  BY <1>3, <1>5, <1>6, <1>q DEF Stream
<1>9. Peer(p, i) = j /\ Peer(o, j) = 0 => Has(Els(net[p]), "OKAY", i, j)
  BY <1>2, <1>4, <1>q DEF Stream, Met, Linked
<1> QED BY <1>1, <1>7, <1>8, <1>9

\* Single packets and none.
LEMMA OneMsg ==
    /\ Els(<<>>) = {} /\ <<>> \in Seq(Packet)
    /\ \A m : Els(<<m>>) = {m} /\ Len(<<m>>) = 1 /\ <<m>>[1] = m
    /\ \A m \in Packet : <<m>> \in Seq(Packet)
BY ElsSmall

\* The ids of open asockets were given.
LEMMA OpenGiven ==
    ASSUME IInv, StatusInv, NEW p \in Side, NEW i \in Ids, Open(p, i)
    PROVE  i < next[p] /\ i # next[p]
<1>1. next[p] \in Nat /\ i \in Nat
  BY DEF IInv, TypeOK, Ids
<1>2. i >= next[p] => sock[p][i].st = "none"
  BY DEF StatusInv, FreshInv
<1>3. ~(i >= next[p])
  BY <1>2 DEF Open
<1> QED BY <1>1, <1>3

\* Credit, for what the side of the writer does.
LEMMA CreditWriter ==
    ASSUME IInv, StatusInv, ShapeInv, Calm, online["host"], online["device"], StreamInv,
           NEW p \in Side, NEW o \in Side, o = Other(p), Works(p),
           NEW i \in Ids, NEW j \in Ids, Linked(p, i, j), Credit(p, i, j), Open(p, i)'
    PROVE  Credit(p, i, j)'
<1>q. TypeOK /\ up /\ Other(o) = p /\ o # p /\ online[p] /\ i # 0 /\ j # 0
  BY Sides DEF IInv, Calm, Ids
<1>l. Open(p, i) /\ Open(o, j) /\ Peer(p, i) \in {0, j} /\ Peer(o, j) \in {0, i}
  BY DEF Linked
<1>p. /\ \A m \in Els(net[o]) : m.cmd = "OKAY" /\ m.arg1 = i => m.arg0 = j
      /\ Peer(p, i) = j /\ Peer(o, j) = 0 => Has(Els(net[p]), "OKAY", i, j)
  BY LinkedPair
<1>n. next[p] # i
  BY <1>l, OpenGiven
<1>g. ASSUME NEW ms, Moved(p, TRUE, ms) PROVE Got(p) \in Els(net[o])
  BY <1>q, <1>g, MovedEls
<1>o. ASSUME NEW a, OnlyAt(p, a)
      PROVE  sock'[o][j] = sock[o][j] /\ (a # i => sock'[p][i] = sock[p][i] /\ fd'[p][i] = fd[p][i])
  BY <1>q, <1>o DEF OnlyAt
<1>k. ASSUME NEW n \in BOOLEAN, NEW ms, Moved(p, n, ms), sock'[o][j] = sock[o][j],
             fd'[p][i].hup = "no" => fd[p][i].hup = "no",
             ~Has(Els(ms), "WRTE", i, j), ~(n /\ Is(Got(p), "OKAY", j, i)), sock'[p][i].rd <=> sock[p][i].rd
      PROVE  Credit(p, i, j)'
  BY <1>k, <1>q, WriterCredit
<1>1. ASSUME NEW a \in Ids, Idles(p, a) PROVE Credit(p, i, j)'
  <2> DEFINE ms == <<>>
  <2>1. OnlyAt(p, a) /\ net' = net
    BY <1>1 DEF Idles
  <2>2. Moved(p, FALSE, ms) /\ ~Has(Els(ms), "WRTE", i, j)
    BY <1>q, <2>1, OneMsg DEF Moved, TypeOK, Has
  <2> HIDE DEF ms
  <2>3. (fd'[p][i].hup = "no" => fd[p][i].hup = "no") /\ (sock'[p][i].rd <=> sock[p][i].rd)
    BY <1>l, <1>o, <1>1, <2>1 DEF Idles
  <2>4. sock'[o][j] = sock[o][j]
    BY <1>o, <2>1
  <2> QED BY <1>k, <2>2, <2>3, <2>4
<1>2. ASSUME NEW a \in Ids, NEW m \in Packet, Says(p, a, m) PROVE Credit(p, i, j)'
  <2> DEFINE ms == <<m>>
  <2>1. OnlyAt(p, a) /\ Moved(p, FALSE, ms) /\ m.arg0 = a /\ m.arg1 = Peer(p, a) /\ fd'[p][a].hup = fd[p][a].hup
        /\ \/ m.cmd = "OKAY" /\ sock'[p][a].rd = sock[p][a].rd
           \/ m.cmd = "WRTE" /\ ~sock'[p][a].rd /\ (fd[p][a].hup = "no" => sock[p][a].rd)
    BY <1>2 DEF Says
  <2>2. Els(ms) = {m} /\ Len(ms) = 1 /\ ms[1] = m
    BY OneMsg
  <2> HIDE DEF ms
  <2>3. sock'[o][j] = sock[o][j]
    BY <1>o, <2>1
  <2>4. CASE a # i
    <3>1. ~Has(Els(ms), "WRTE", i, j)
      BY <2>1, <2>2, <2>4 DEF Has
    <3>2. sock'[p][i] = sock[p][i] /\ fd'[p][i] = fd[p][i]
      BY <1>o, <2>1, <2>4
    <3> QED BY <1>k, <2>1, <2>3, <3>1, <3>2
  <2>5. CASE a = i /\ m.cmd = "OKAY"
    <3>1. ~Has(Els(ms), "WRTE", i, j)
      BY <2>2, <2>5 DEF Has
    <3> QED BY <1>k, <2>1, <2>3, <2>5, <3>1
  <2>6. CASE a = i /\ m.cmd = "WRTE"
    <3>1. m.arg1 = j /\ Peer(p, i) = j
      BY <1>2, <1>l, <2>6 DEF Says
    <3>2. Is(ms[1], "WRTE", i, j)
      BY <2>1, <2>2, <2>6, <3>1 DEF Is
    <3>3. Peer(o, j) = 0 => Has(Els(net[p]), "OKAY", i, j)
      BY <1>p, <3>1
    <3>4. /\ ~sock'[p][i].rd /\ (fd[p][i].hup = "no" => sock[p][i].rd)
          /\ fd'[p][i].hup = fd[p][i].hup
      BY <2>1, <2>6
    <3>5. PICK n \in BOOLEAN : n = FALSE
      OBVIOUS
    <3>6. Moved(p, n, ms) /\ ~n
      BY <2>1, <3>5
    <3> QED BY <1>q, <2>2, <2>3, <3>2, <3>3, <3>4, <3>6, WriterCredit
  <2> QED BY <2>1, <2>4, <2>5, <2>6
<1>3. ASSUME NEW a \in Ids, NEW n \in BOOLEAN, NEW ms \in Seq(Packet), Leaves(p, a, n, ms) PROVE Credit(p, i, j)'
  BY <1>k, <1>o, <1>3 DEF Leaves, GoneAt, Open, Has, Is
<1>4. ASSUME NEW a \in Ids, NEW n \in BOOLEAN, NEW ms, OnlyAt(p, a), a = next[p], Moved(p, n, ms),
             n => Got(p).cmd # "OKAY", \A m \in Els(ms) : m.cmd # "WRTE"
      PROVE  Credit(p, i, j)'
  BY <1>k, <1>n, <1>o, <1>4 DEF Has, Is
<1>5. ASSUME NEW a \in Ids, NEW m \in Packet, Dials(p, a, m) PROVE Credit(p, i, j)'
  <2> DEFINE ms == <<m>>
  <2>1. OnlyAt(p, a) /\ a = next[p] /\ Moved(p, FALSE, ms) /\ m.cmd = "OPEN"
    BY <1>5 DEF Dials
  <2>2. \A x \in Els(ms) : x.cmd # "WRTE"
    BY <2>1, OneMsg
  <2> HIDE DEF ms
  <2> QED BY <1>4, <2>1, <2>2
<1>6. ASSUME NEW a \in Ids, NEW m \in Packet, Accepts(p, a, m) PROVE Credit(p, i, j)'
  <2> DEFINE ms == <<m>>
  <2>1. OnlyAt(p, a) /\ a = next[p] /\ Moved(p, TRUE, ms) /\ m.cmd = "OKAY" /\ Got(p).cmd = "OPEN"
    BY <1>6 DEF Accepts
  <2>2. \A x \in Els(ms) : x.cmd # "WRTE"
    BY <2>1, OneMsg
  <2> HIDE DEF ms
  <2> QED BY <1>4, <2>1, <2>2
<1>7. ASSUME NEW n \in BOOLEAN, NEW ms, UNCHANGED <<sock, fd>>, Moved(p, n, ms), \A m \in Els(ms) : m.cmd # "WRTE",
             n /\ Got(p).cmd = "OKAY" => ~(Got(p).arg1 \in Ids /\ Open(p, Got(p).arg1) /\ Peer(p, Got(p).arg1) \in {0, Got(p).arg0})
      PROVE  Credit(p, i, j)'
  BY <1>k, <1>l, <1>7 DEF Has, Is
<1>8. ASSUME NEW m \in Packet, Refuses(p, m) PROVE Credit(p, i, j)'
  <2> DEFINE ms == <<m>>
  <2>1. UNCHANGED <<sock, fd>> /\ Moved(p, TRUE, ms) /\ m.cmd = "CLSE"
        /\ (Got(p).cmd = "OKAY" => ~(Got(p).arg1 \in Ids /\ Open(p, Got(p).arg1)))
    BY <1>8 DEF Refuses
  <2>2. \A x \in Els(ms) : x.cmd # "WRTE"
    BY <2>1, OneMsg
  <2> HIDE DEF ms
  <2> QED BY <1>7, <2>1, <2>2
<1>9. ASSUME Drops(p) PROVE Credit(p, i, j)'
  <2> DEFINE ms == <<>>
  <2>1. UNCHANGED <<sock, fd>> /\ Moved(p, TRUE, ms)
        /\ (Got(p).cmd = "OKAY" => Peer(p, Got(p).arg1) \notin {0, Got(p).arg0})
    BY <1>9, <1>q DEF Drops
  <2>2. \A x \in Els(ms) : x.cmd # "WRTE"
    BY OneMsg
  <2> HIDE DEF ms
  <2> QED BY <1>7, <2>1, <2>2
<1>10. ASSUME NEW a \in Ids, Resumes(p, a) PROVE Credit(p, i, j)'
  <2> DEFINE ms == <<>>
  <2>1. OnlyAt(p, a) /\ Moved(p, TRUE, ms) /\ Got(p).cmd = "OKAY" /\ Got(p).arg1 = a
        /\ sock'[p][a].rd /\ fd'[p][a].hup = fd[p][a].hup
    BY <1>10 DEF Resumes
  <2>2. ~Has(Els(ms), "WRTE", i, j)
    BY OneMsg DEF Has
  <2> HIDE DEF ms
  <2>3. sock'[o][j] = sock[o][j]
    BY <1>o, <2>1
  <2>4. CASE a # i
    BY <1>k, <1>o, <2>1, <2>2, <2>3, <2>4 DEF Is
  <2>5. CASE a = i
    <3>1. Is(Got(p), "OKAY", j, i)
      BY <1>g, <1>p, <2>1, <2>5 DEF Is
    <3>2. PICK n \in BOOLEAN : n = TRUE
      OBVIOUS
    <3>3. Moved(p, n, ms) /\ n
      BY <2>1, <3>2
    <3>4. sock'[p][i].rd /\ fd'[p][i].hup = fd[p][i].hup
      BY <2>1, <2>5
    <3> QED BY <1>q, <2>2, <2>3, <3>1, <3>3, <3>4, WriterCredit
  <2> QED BY <2>4, <2>5
<1>11. ASSUME NEW a \in Ids, NEW ms \in Seq(Packet), Takes(p, a, ms) PROVE Credit(p, i, j)'
  <2>1. OnlyAt(p, a) /\ Moved(p, TRUE, ms) /\ Got(p).cmd = "WRTE"
        /\ sock'[p][a].rd = sock[p][a].rd /\ fd'[p][a].hup = fd[p][a].hup
    BY <1>11 DEF Takes
  <2>2. \A x \in Els(ms) : x.cmd # "WRTE"
    BY <1>11, OneMsg DEF Takes
  <2>3. sock'[o][j] = sock[o][j] /\ (sock'[p][i].rd <=> sock[p][i].rd) /\ fd'[p][i].hup = fd[p][i].hup
    BY <1>o, <2>1
  <2>4. ~Has(Els(ms), "WRTE", i, j) /\ ~Is(Got(p), "OKAY", j, i)
    BY <2>1, <2>2 DEF Has, Is
  <2> QED BY <1>k, <2>1, <2>3, <2>4
<1> QED BY <1>1, <1>2, <1>3, <1>5, <1>6, <1>8, <1>9, <1>10, <1>11 DEF Works

\* Credit, for what the side of the reader does.
LEMMA CreditReader ==
    ASSUME IInv, StatusInv, ShapeInv, Calm, online["host"], online["device"], StreamInv,
           NEW p \in Side, NEW o \in Side, o = Other(p), Works(o),
           NEW i \in Ids, NEW j \in Ids, Linked(p, i, j), Credit(p, i, j), Open(o, j)'
    PROVE  Credit(p, i, j)'
<1>q. TypeOK /\ up /\ Other(o) = p /\ o # p /\ online[o] /\ i # 0 /\ j # 0
  BY Sides DEF IInv, Calm, Ids
<1>l. Open(p, i) /\ Open(o, j) /\ Peer(p, i) \in {0, j} /\ Peer(o, j) \in {0, i}
  BY DEF Linked
<1>p. \A m \in Els(net[p]) : m.cmd = "OKAY" /\ m.arg1 = j => m.arg0 = i
  BY LinkedPair
<1>n. next[o] # j
  BY <1>l, OpenGiven
<1>g. ASSUME NEW ms, Moved(o, TRUE, ms) PROVE Got(o) \in Els(net[p]) /\ net[p] # <<>> /\ net[p] \in Seq(Packet)
  BY <1>g, <1>q, MovedEls DEF Moved, TypeOK
<1>o. ASSUME NEW a, OnlyAt(o, a)
      PROVE  sock'[p][i] = sock[p][i] /\ fd'[p][i] = fd[p][i] /\ (a # j => sock'[o][j] = sock[o][j])
  BY <1>q, <1>o DEF OnlyAt
<1>k. ASSUME NEW n \in BOOLEAN, NEW ms, Moved(o, n, ms), sock'[p][i] = sock[p][i], fd'[p][i] = fd[p][i],
             sock'[o][j].peer = 0 => Peer(o, j) = 0 /\ ~(n /\ Is(Got(o), "OKAY", i, j)),
             ~Has(Els(ms), "OKAY", j, i), ~(n /\ Is(Got(o), "WRTE", i, j)), sock'[o][j].q = <<>> <=> sock[o][j].q = <<>>
      PROVE  Credit(p, i, j)'
  BY <1>k, <1>q, ReaderCredit
<1>1. ASSUME NEW a \in Ids, Idles(o, a) PROVE Credit(p, i, j)'
  <2> DEFINE ms == <<>>
  <2>1. OnlyAt(o, a) /\ net' = net
    BY <1>1 DEF Idles
  <2>2. Moved(o, FALSE, ms) /\ ~Has(Els(ms), "OKAY", j, i)
    BY <1>q, <2>1, OneMsg DEF Moved, TypeOK, Has
  <2> HIDE DEF ms
  <2>3. sock'[o][j].peer = Peer(o, j) /\ (sock'[o][j].q = <<>> <=> sock[o][j].q = <<>>)
    BY <1>l, <1>o, <1>1, <2>1 DEF Idles, Peer
  <2>4. sock'[p][i] = sock[p][i] /\ fd'[p][i] = fd[p][i]
    BY <1>o, <2>1
  <2> QED BY <1>k, <2>2, <2>3, <2>4
<1>a. ASSUME NEW a \in Ids, a # j, NEW n \in BOOLEAN, NEW ms, OnlyAt(o, a), Moved(o, n, ms),
             ~(n /\ Is(Got(o), "OKAY", i, j)), ~(n /\ Is(Got(o), "WRTE", i, j)),
             \A m \in Els(ms) : m.cmd = "OKAY" => m.arg0 = a
      PROVE  Credit(p, i, j)'
  BY <1>a, <1>k, <1>o DEF Has, Peer
<1>2. ASSUME NEW a \in Ids, NEW m \in Packet, Says(o, a, m) PROVE Credit(p, i, j)'
  <2> DEFINE ms == <<m>>
  <2>1. OnlyAt(o, a) /\ Moved(o, FALSE, ms) /\ m.arg0 = a /\ m.arg1 = Peer(o, a) /\ Peer(o, a) # 0
        /\ sock'[o][a].peer = Peer(o, a)
        /\ \/ m.cmd = "OKAY" /\ sock[o][a].q # <<>> /\ sock'[o][a].q = <<>>
           \/ m.cmd = "WRTE" /\ sock'[o][a].q = sock[o][a].q
    BY <1>2 DEF Says
  <2>2. Els(ms) = {m} /\ Len(ms) = 1 /\ ms[1] = m
    BY OneMsg
  <2> HIDE DEF ms
  <2>3. sock'[p][i] = sock[p][i] /\ fd'[p][i] = fd[p][i]
    BY <1>o, <2>1
  <2>4. CASE a # j
    <3>1. ~Has(Els(ms), "OKAY", j, i)
      BY <2>1, <2>2, <2>4 DEF Has
    <3>2. sock'[o][j] = sock[o][j]
      BY <1>o, <2>1, <2>4
    <3> QED BY <1>k, <2>1, <2>3, <3>1, <3>2 DEF Peer
  <2>5. CASE a = j /\ m.cmd = "WRTE"
    <3>1. ~Has(Els(ms), "OKAY", j, i)
      BY <2>2, <2>5 DEF Has
    <3>2. sock'[o][j].peer # 0 /\ sock'[o][j].q = sock[o][j].q
      BY <2>1, <2>5
    <3> QED BY <1>k, <2>1, <2>3, <3>1, <3>2
  <2>6. CASE a = j /\ m.cmd = "OKAY"
    <3>1. Is(ms[1], "OKAY", j, i)
      BY <1>l, <2>1, <2>2, <2>6 DEF Is
    <3>2. sock'[o][j].peer # 0 /\ sock[o][j].q # <<>> /\ sock'[o][j].q = <<>>
      BY <2>1, <2>6
    <3>3. PICK n \in BOOLEAN : n = FALSE
      OBVIOUS
    <3>4. Moved(o, n, ms) /\ ~n
      BY <2>1, <3>3
    <3> QED BY <1>q, <2>2, <2>3, <3>1, <3>2, <3>4, ReaderCredit
  <2> QED BY <2>1, <2>4, <2>5, <2>6
<1>3. ASSUME NEW a \in Ids, NEW n \in BOOLEAN, NEW ms \in Seq(Packet), Leaves(o, a, n, ms) PROVE Credit(p, i, j)'
  BY <1>a, <1>3 DEF Leaves, GoneAt, Open, Is
<1>4. ASSUME NEW a \in Ids, NEW m \in Packet, Dials(o, a, m) PROVE Credit(p, i, j)'
  <2> DEFINE ms == <<m>>
  <2>1. OnlyAt(o, a) /\ a # j /\ Moved(o, FALSE, ms) /\ m.arg0 = a
    BY <1>4, <1>n DEF Dials
  <2>2. \A x \in Els(ms) : x.arg0 = a
    BY <2>1, OneMsg
  <2> HIDE DEF ms
  <2> QED BY <1>a, <2>1, <2>2
<1>5. ASSUME NEW a \in Ids, NEW m \in Packet, Accepts(o, a, m) PROVE Credit(p, i, j)'
  <2> DEFINE ms == <<m>>
  <2>1. OnlyAt(o, a) /\ a # j /\ Moved(o, TRUE, ms) /\ m.arg0 = a /\ Got(o).cmd = "OPEN"
    BY <1>5, <1>n DEF Accepts
  <2>2. \A x \in Els(ms) : x.arg0 = a
    BY <2>1, OneMsg
  <2> HIDE DEF ms
  <2>3. ~Is(Got(o), "OKAY", i, j) /\ ~Is(Got(o), "WRTE", i, j)
    BY <2>1 DEF Is
  <2> QED BY <1>a, <2>1, <2>2, <2>3
<1>6. ASSUME NEW n \in BOOLEAN, NEW ms, UNCHANGED <<sock, fd>>, Moved(o, n, ms), \A m \in Els(ms) : m.cmd # "OKAY",
             ~(n /\ Is(Got(o), "OKAY", i, j)), ~(n /\ Is(Got(o), "WRTE", i, j))
      PROVE  Credit(p, i, j)'
  BY <1>k, <1>6 DEF Has, Peer
<1>7. ASSUME NEW m \in Packet, Refuses(o, m) PROVE Credit(p, i, j)'
  <2> DEFINE ms == <<m>>
  <2>1. UNCHANGED <<sock, fd>> /\ Moved(o, TRUE, ms) /\ m.cmd = "CLSE" /\ Got(o).cmd # "WRTE"
        /\ (Got(o).cmd = "OKAY" => ~(Got(o).arg1 \in Ids /\ Open(o, Got(o).arg1)))
    BY <1>7 DEF Refuses
  <2>2. \A x \in Els(ms) : x.cmd # "OKAY"
    BY <2>1, OneMsg
  <2> HIDE DEF ms
  <2>3. ~Is(Got(o), "OKAY", i, j) /\ ~Is(Got(o), "WRTE", i, j)
    BY <1>l, <2>1 DEF Is
  <2> QED BY <1>6, <2>1, <2>2, <2>3
<1>8. ASSUME Drops(o) PROVE Credit(p, i, j)'
  <2> DEFINE ms == <<>>
  <2>1. UNCHANGED <<sock, fd>> /\ Moved(o, TRUE, ms)
        /\ (Got(o).cmd = "OKAY" => Peer(o, Got(o).arg1) \notin {0, Got(o).arg0})
        /\ (Got(o).cmd = "WRTE" => ~Found(o, Got(o).arg1, Got(o).arg0))
    BY <1>8, <1>q DEF Drops
  <2>2. \A x \in Els(ms) : x.cmd # "OKAY"
    BY OneMsg
  <2> HIDE DEF ms
  <2>3. ~Is(Got(o), "OKAY", i, j)
    BY <1>l, <2>1 DEF Is
  <2>4. ~Is(Got(o), "WRTE", i, j)
    <3> SUFFICES ASSUME Is(Got(o), "WRTE", i, j) PROVE FALSE
      OBVIOUS
    <3>1. Peer(o, j) = 0
      BY <1>l, <2>1 DEF Is, Found, Open, Peer
    <3>2. First(net[p], i, j)
      BY <3>1 DEF Credit
    <3>3. net[p] # <<>> /\ net[p] \in Seq(Packet) /\ Got(o) = Head(net[p])
      BY <1>g, <1>q, <2>1 DEF Got
    <3> QED BY <3>2, <3>3, FirstTail
  <2> QED BY <1>6, <2>1, <2>2, <2>3, <2>4
<1>9. ASSUME NEW a \in Ids, Resumes(o, a) PROVE Credit(p, i, j)'
  <2> DEFINE ms == <<>>
  <2>1. OnlyAt(o, a) /\ Moved(o, TRUE, ms) /\ Got(o).cmd = "OKAY" /\ Got(o).arg0 # 0 /\ Got(o).arg1 = a
        /\ sock'[o][a].peer = Got(o).arg0 /\ sock'[o][a].q = sock[o][a].q
    BY <1>9 DEF Resumes
  <2>2. Els(ms) = {}
    BY OneMsg
  <2> HIDE DEF ms
  <2>3. sock'[p][i] = sock[p][i] /\ fd'[p][i] = fd[p][i]
    BY <1>o, <2>1
  <2>4. ~Is(Got(o), "WRTE", i, j)
    BY <2>1 DEF Is
  <2>5. CASE a # j
    BY <1>a, <2>1, <2>2, <2>4, <2>5 DEF Is
  <2>6. CASE a = j
    <3>1. sock'[o][j].peer # 0 /\ sock'[o][j].q = sock[o][j].q
      BY <2>1, <2>6
    <3>2. ~Has(Els(ms), "OKAY", j, i)
      BY <2>2 DEF Has
    <3> QED BY <1>k, <2>1, <2>3, <2>4, <3>1, <3>2
  <2> QED BY <2>5, <2>6
<1>10. ASSUME NEW a \in Ids, NEW ms \in Seq(Packet), Takes(o, a, ms) PROVE Credit(p, i, j)'
  <2>1. OnlyAt(o, a) /\ Moved(o, TRUE, ms) /\ Got(o).cmd = "WRTE" /\ Got(o).arg1 = a
        /\ Got(o).arg0 # 0 /\ Peer(o, a) = Got(o).arg0 /\ sock'[o][a].peer = Peer(o, a)
    BY <1>10 DEF Takes
  <2>2. \/ /\ sock[o][a].q = <<>> /\ sock'[o][a].q = <<>> /\ Len(ms) = 1 /\ Is(ms[1], "OKAY", a, Peer(o, a)) /\ Els(ms) = {ms[1]}
        \/ sock'[o][a].q # <<>> /\ Els(ms) = {}
    BY <1>10, OneMsg DEF Is, Takes
  <2>3. sock'[p][i] = sock[p][i] /\ fd'[p][i] = fd[p][i]
    BY <1>o, <2>1
  <2>4. CASE a # j
    <3>1. ~Is(Got(o), "OKAY", i, j) /\ ~Is(Got(o), "WRTE", i, j)
      BY <2>1, <2>4 DEF Is
    <3>2. \A m \in Els(ms) : m.arg0 = a
      BY <2>2 DEF Is
    <3> QED BY <1>a, <2>1, <2>4, <3>1, <3>2
  <2>5. CASE a = j
    <3>1. Is(Got(o), "WRTE", i, j) /\ Peer(o, j) = i /\ sock'[o][j].peer # 0
      BY <1>l, <2>1, <2>5 DEF Is
    <3>2. PICK n \in BOOLEAN : n = TRUE
      OBVIOUS
    <3>3. Moved(o, n, ms) /\ n
      BY <2>1, <3>2
    <3>4. CASE sock[o][j].q = <<>> /\ sock'[o][j].q = <<>> /\ Len(ms) = 1 /\ Is(ms[1], "OKAY", j, i)
      BY <1>q, <2>3, <3>1, <3>3, <3>4, ReaderCredit
    <3>5. CASE sock'[o][j].q # <<>> /\ Els(ms) = {}
      BY <1>q, <2>3, <3>1, <3>3, <3>5, ReaderCredit DEF Has
    <3> QED BY <2>2, <2>5, <3>1, <3>4, <3>5
  <2> QED BY <2>4, <2>5
<1> QED BY <1>1, <1>2, <1>3, <1>4, <1>5, <1>7, <1>8, <1>9, <1>10 DEF Works

\* An asocket that a step of its side creates is for a client, or for an A_OPEN.
LEMMA WorksNew ==
    ASSUME NEW p \in Side, Works(p), NEW i \in Ids, ~Open(p, i), Open(p, i)'
    PROVE  \E m \in Packet : Dials(p, i, m) \/ Accepts(p, i, m)
<1>o. ASSUME NEW a, OnlyAt(p, a) PROVE a = i
  BY <1>o DEF OnlyAt, Open
<1>1. ASSUME NEW a \in Ids, Idles(p, a) PROVE FALSE
  BY <1>o, <1>1 DEF Idles, Open
<1>2. ASSUME NEW a \in Ids, NEW m \in Packet, Says(p, a, m) PROVE FALSE
  BY <1>o, <1>2 DEF Says
<1>3. ASSUME NEW a \in Ids, NEW n \in BOOLEAN, NEW ms \in Seq(Packet), Leaves(p, a, n, ms) PROVE FALSE
  BY <1>o, <1>3 DEF Leaves
<1>4. ASSUME NEW a \in Ids, NEW m \in Packet, Dials(p, a, m) \/ Accepts(p, a, m) PROVE a = i
  BY <1>4, <1>o DEF Dials, Accepts
<1>5. ASSUME NEW m \in Packet, Refuses(p, m) PROVE FALSE
  BY <1>5 DEF Refuses, Open
<1>6. ASSUME NEW a \in Ids, Resumes(p, a) PROVE FALSE
  BY <1>o, <1>6 DEF Resumes
<1>7. ASSUME NEW a \in Ids, NEW ms \in Seq(Packet), Takes(p, a, ms) PROVE FALSE
  BY <1>o, <1>7 DEF Takes
<1>8. ~Drops(p)
  BY DEF Drops, Open
<1> QED BY <1>1, <1>2, <1>3, <1>4, <1>5, <1>6, <1>7, <1>8 DEF Works

\* A stream whose ends were open is no news.
LEMMA LinkedKept ==
    ASSUME IInv, ShapeInv, Calm, StreamInv, NEW p \in Side, NEW o \in Side, o = Other(p),
           NEW a \in {0} \cup Ids, NEW n \in BOOLEAN, NEW ms \in Seq(Packet), Acts(p, a, n, ms),
           NEW i \in Ids, NEW j \in Ids, Open(p, i), Linked(p, i, j)'
    PROVE  Linked(p, i, j)
<1> DEFINE b == sock'[p][i].peer
<1>q. TypeOK /\ up /\ o # p /\ i # 0 /\ j # 0
  BY Sides DEF IInv, Calm, Ids
<1>1. Moved(p, n, ms) /\ OnlyAt(p, a)
  BY DEF Acts
<1>2. sock'[o][j] = sock[o][j]
  BY <1>q, <1>1 DEF OnlyAt
<1>3. /\ Open(p, i)' /\ Open(o, j) /\ b \in {0, j} /\ Peer(o, j) \in {0, i}
      /\ b = j \/ Peer(o, j) = i
  BY <1>2 DEF Linked, Open, Peer
<1>4. b = Peer(p, i) \/ (n /\ Got(p).cmd = "OKAY" /\ Got(p).arg1 = i /\ b = Got(p).arg0)
  BY <1>1, <1>3 DEF Acts, Open, OnlyAt, Peer
<1>5. CASE b = Peer(p, i)
  BY <1>3, <1>5 DEF Linked
<1>6. CASE n /\ Got(p).cmd = "OKAY" /\ Got(p).arg1 = i /\ b = Got(p).arg0
  <2>1. Got(p) \in Els(net[o])
    BY <1>q, <1>1, <1>6, MovedEls
  <2>2. b = j
    BY <1>3, <1>6, <2>1 DEF ShapeInv, Shape
  <2>3. PICK c \in {0} \cup Ids : Stream(p, i, c)
    BY DEF StreamInv
  <2>4. c = j
    BY <1>6, <1>q, <2>1, <2>2, <2>3 DEF Stream
  <2>5. Has(Els(net[o]), "OKAY", j, i)
    BY <1>6, <2>1, <2>2 DEF Has
  <2>6. \/ Peer(o, j) = i
        \/ Has(Els(net[p]), "OKAY", i, j)
        \/ Has(Els(net[o]), "CLSE", j, i)
    BY <1>q, <2>3, <2>4, <2>5 DEF Stream, Met
  <2>7. ~Has(Els(net[o]), "CLSE", j, i)
    BY <1>q, <1>3, <2>3, <2>4 DEF Stream, Met
  <2>8. Has(Els(net[p]), "OKAY", i, j) => Peer(p, i) = j
    BY <2>3 DEF Stream, SaidOK, Has
  <2>9. Peer(p, i) \in {0, j}
    BY <2>3, <2>4 DEF Stream
  <2> QED BY <1>3, <2>6, <2>7, <2>8, <2>9 DEF Linked
<1> QED BY <1>4, <1>5, <1>6

\* A stream that a step begins: the token of either direction.
LEMMA CreditNew ==
    ASSUME IInv, IInv', ShapeInv, Calm, DeviceIds, HostIds, NEW p \in Side, NEW o \in Side, o = Other(p),
           NEW i \in Ids, NEW j \in Ids, NEW m \in Packet, Dials(p, i, m) \/ Accepts(p, i, m), Linked(p, i, j)'
    PROVE  Credit(p, i, j)' /\ Credit(o, j, i)'
<1>q. TypeOK /\ TypeOK' /\ up /\ o # p /\ Other(o) = p /\ i # 0 /\ j # 0
  BY Sides DEF IInv, Calm, Ids
<1>1. i = next[p] /\ OnlyAt(p, i)
  BY DEF Dials, Accepts
<1>2. sock'[o][j] = sock[o][j]
  BY <1>1, <1>q DEF OnlyAt
<1>3. /\ \A x \in Els(net[p]) : x.cmd # "CLSE" => x.arg0 # i
      /\ \A x \in Els(net[o]) : x.arg1 # i
      /\ \A k \in Ids : Peer(o, k) # i
  BY <1>1, FreshIds
<1>4. Open(o, j) /\ Peer(o, j) = 0 /\ sock'[p][i].peer = j
  BY <1>2, <1>3 DEF Linked, Open, Peer
<1>5. Accepts(p, i, m)
  BY <1>4, <1>q DEF Dials
<1> DEFINE ms == <<m>>
<1>t. PICK n \in BOOLEAN : n = TRUE
  OBVIOUS
<1>6. Moved(p, n, ms) /\ Is(m, "OKAY", i, j) /\ sock'[p][i].rd /\ sock'[p][i].q = <<>>
  BY <1>4, <1>5, <1>t DEF Accepts, Is
<1>7. Els(ms) = {m} /\ Len(ms) = 1 /\ ms[1] = m
  BY OneMsg
<1> HIDE DEF ms
<1>8. Els(net'[p]) = Els(net[p]) \cup {m} /\ Els(net'[o]) \subseteq Els(net[o])
  <2>1. TypeOK /\ up /\ Moved(p, n, ms)
    BY <1>6, <1>q
  <2>2. Els(net'[p]) = Els(net[p]) \cup Els(ms) /\ Els(net'[Other(p)]) \subseteq Els(net[Other(p)])
    BY <2>1, MovedNet
  <2> QED BY <1>7, <2>2
<1>9. net[p] \in Seq(Packet) /\ net'[p] \in Seq(Packet) /\ net'[o] \in Seq(Packet)
  BY <1>q DEF TypeOK
<1>10. sock[o][j].q = <<>> /\ ~sock[o][j].rd
  BY <1>4 DEF IInv, QueueInv, ShapeInv, QueueOK, SockShape, Open, Peer
<1>11. /\ ~Has(Els(net'[p]), "WRTE", i, j)
       /\ ~Has(Els(net[p]), "OKAY", i, j)
       /\ ~Has(Els(net'[o]), "OKAY", j, i)
       /\ ~Has(Els(net'[o]), "WRTE", j, i)
  BY <1>3, <1>6, <1>8 DEF Has, Is
<1>12. /\ Num(net'[p], "WRTE", i, j) = 0 /\ Num(net[p], "OKAY", i, j) = 0
       /\ Num(net'[o], "OKAY", j, i) = 0 /\ Num(net'[o], "WRTE", j, i) = 0
  BY <1>9, <1>11, NumNat
<1>13. Num(net'[p], "OKAY", i, j) = Num(net[p], "OKAY", i, j) + 1
  BY <1>6, <1>7, <1>q, MovedNum
<1>14. First(net'[p], i, j)
  BY <1>11 DEF First, Has, Is, Els
<1>15. Credit(p, i, j)'
  BY <1>2, <1>6, <1>10, <1>12, <1>14 DEF Credit
<1>16. Credit(o, j, i)'
  BY <1>2, <1>4, <1>6, <1>10, <1>12, <1>13, <1>q DEF Credit, Peer
<1> QED BY <1>15, <1>16

\* CreditInv, for what side p does.
LEMMA CreditActs ==
    ASSUME IInv, IInv', StatusInv, LinkInv, CreditInv, NEW x \in Side, Works(x),
           NEW a \in {0} \cup Ids, NEW n \in BOOLEAN, NEW ms \in Seq(Packet), Acts(x, a, n, ms)
    PROVE  CreditInv'
<1>q. TypeOK /\ ShapeInv /\ OnlineInv /\ DeviceIds /\ HostIds /\ StreamInv
  BY DEF IInv, LinkInv
<1> SUFFICES ASSUME Calm', NEW p \in Side, NEW i \in Ids, NEW j \in Ids, Linked(p, i, j)'
             PROVE  Credit(p, i, j)'
  BY DEF CreditInv
<1>1. Calm /\ online["host"] /\ online["device"]
  BY <1>q, QuietKept, Sides DEF Acts, Kept, Calm, OnlineInv
<1>2. PICK o \in Side : o = Other(p)
  BY Sides
<1>3. p = Other(o) /\ (x = p \/ x = o) /\ o # p
  BY <1>2, Sides
<1>4. Linked(o, j, i)'
  BY <1>2, <1>3 DEF Linked
<1>5. Open(p, i)' /\ Open(o, j)'
  BY <1>2 DEF Linked
<1>6. CASE x = p
  <2>1. CASE Open(p, i)
    BY <1>q, <1>1, <1>2, <1>5, <1>6, <2>1, LinkedKept, CreditWriter DEF CreditInv
  <2>2. CASE ~Open(p, i)
    <3>1. PICK m \in Packet : Dials(p, i, m) \/ Accepts(p, i, m)
      BY <1>5, <1>6, <2>2, WorksNew
    <3> QED BY <1>1, <1>2, <1>q, <3>1, CreditNew
  <2> QED BY <2>1, <2>2
<1>7. CASE x = o
  <2>1. CASE Open(o, j)
    <3>1. Linked(o, j, i)
      BY <1>1, <1>3, <1>4, <1>7, <1>q, <2>1, LinkedKept
    <3>2. Linked(p, i, j)
      BY <1>2, <1>3, <3>1 DEF Linked
    <3>3. Credit(p, i, j)
      BY <1>1, <3>2 DEF CreditInv
    <3> QED BY <1>1, <1>2, <1>5, <1>7, <1>q, <3>2, <3>3, CreditReader
  <2>2. CASE ~Open(o, j)
    <3>1. PICK m \in Packet : Dials(o, j, m) \/ Accepts(o, j, m)
      BY <1>5, <1>7, <2>2, WorksNew
    <3> QED BY <1>1, <1>3, <1>4, <1>q, <3>1, CreditNew
  <2> QED BY <2>1, <2>2
<1> QED BY <1>3, <1>6, <1>7

\* And every step keeps it: no stream is open at the host when the connection settles.
LEMMA CreditStep ==
    ASSUME IInv, IInv', StatusInv, LinkInv, LinkInv', CreditInv, [Next]_vars
    PROVE  CreditInv'
<1>q. ShapeInv /\ ShapeInv' /\ OnlineInv
  BY DEF LinkInv
<1>1. ASSUME NEW p \in Side, Works(p) PROVE CreditInv'
  <2>1. PICK a \in {0} \cup Ids, n \in BOOLEAN, ms \in Seq(Packet) : Acts(p, a, n, ms)
    BY <1>1, <1>q, ActsView DEF ShapeInv
  <2> QED BY <1>1, <2>1, CreditActs
<1>2. ASSUME Moves PROVE CreditInv'
  <2> SUFFICES ASSUME Calm', NEW p \in Side, NEW i \in Ids, NEW j \in Ids, Linked(p, i, j)'
               PROVE  FALSE
    BY DEF CreditInv
  <2>1. up' /\ Quiet("host")' /\ Quiet("device")'
    BY DEF Calm
  <2>2. PICK q \in Side, ms \in Seq(Packet) : Restarts(q, ms)
    BY <1>2, <2>1, QuietMoves
  <2>3. q = "host"
    BY <1>2, <2>1, <2>2, QuietMoves, Sides
  <2>4. \A k \in Ids : ~Open("host", k)'
    BY <1>q, <2>2, <2>3, AllClosed, Sides
  <2> QED BY <2>4, Sides DEF Linked
<1>3. ASSUME UNCHANGED vars PROVE CreditInv'
  BY <1>3 DEF vars, link, CreditInv, Calm, Quiet, Linked, Credit, Open, Peer
<1> QED BY <1>1, <1>2, <1>3, Views

\* What CreditInv says of a connection that has settled.
LEMMA CreditHolds == IInv /\ LinkInv /\ CreditInv => OneCredit
<1> SUFFICES ASSUME IInv, LinkInv, CreditInv, NEW p \in Side, NEW i \in Ids, NEW j \in Ids, Settled, Open(p, i),
                    Open(Other(p), j), sock[Other(p)][j].peer = i, sock[p][i].peer \in {0, j}, fd[p][i].hup = "no"
             PROVE  Count(p, "WRTE", i, j) + Count(Other(p), "OKAY", j, i)
                      + (IF sock[p][i].rd THEN 1 ELSE 0) + (IF sock[Other(p)][j].q # <<>> THEN 1 ELSE 0) = 1
  BY DEF OneCredit
<1>1. Calm
  BY SettledCalm DEF LinkInv
<1>2. Credit(p, i, j)
  BY <1>1 DEF CreditInv, Linked, Peer
<1>3. Count(p, "WRTE", i, j) = Num(net[p], "WRTE", i, j) /\ Count(Other(p), "OKAY", j, i) = Num(net[Other(p)], "OKAY", j, i)
  BY DEF Count, Num, At
<1> QED BY <1>2, <1>3 DEF Credit

-----------------------------------------------------------------------------
(* The streams of one server process and the data of another.               *)

\* Descriptors of asockets that exist keep their server process.
LEMMA RunKept ==
    ASSUME IInv, IInv', StatusInv, NEW p \in Side, NEW a \in {0} \cup Ids, NEW n \in BOOLEAN, NEW ms \in Seq(Packet),
           Acts(p, a, n, ms), RunActs(p, a, n, ms)
    PROVE  /\ \A q \in Side, i \in Ids : i < next[q] => fd'[q][i].run = fd[q][i].run
           /\ \A q \in Side, i \in Ids : Open(q, i) => i < next[q]
           /\ \A q \in Side, k \in Nat : k < next[q] => k < next'[q]
           /\ a \in Ids /\ Open(p, a) => fd'[p][a].run = fd[p][a].run
<1>q. \A q \in Side : next[q] \in Nat
  BY DEF IInv, TypeOK
<1>1. ASSUME NEW q \in Side, NEW i \in Ids, Open(q, i) PROVE i < next[q]
  BY <1>q, <1>1 DEF StatusInv, FreshInv, Open, Ids
<1>2. ASSUME NEW q \in Side, NEW i \in Ids, i < next[q] PROVE fd'[q][i].run = fd[q][i].run
  BY <1>q, <1>2 DEF Acts, OnlyAt, StartsRun, Ids, RunActs, KeepsRun
<1>3. ASSUME NEW q \in Side, NEW k \in Nat, k < next[q] PROVE k < next'[q]
  <2>1. next'[q] = next[q] \/ next'[q] >= next[q]
    BY Sides DEF Acts
  <2>2. next'[q] \in Nat
    BY DEF IInv, TypeOK
  <2> QED BY <1>3, <1>q, <2>1, <2>2
<1> QED BY <1>1, <1>2, <1>3

\* NoReuse, for what side p does: the asockets.
LEMMA ReusePeers ==
    ASSUME IInv, IInv', StatusInv, ShapeInv, ShapeInv', NoReuse, NEW p \in Side, NEW a \in {0} \cup Ids, NEW n \in BOOLEAN,
           NEW ms \in Seq(Packet), Acts(p, a, n, ms), RunActs(p, a, n, ms),
           NEW q \in Side, NEW i \in Ids, sock'[q][i].peer # 0
    PROVE  /\ sock'[q][i].peer \in Ids /\ sock'[q][i].peer < next'[Other(q)]
           /\ fd'[Other(q)][sock'[q][i].peer].run = fd'[q][i].run
<1> DEFINE b == sock'[q][i].peer
<1>1. b \in Ids /\ Ids \subseteq Nat
  BY DEF ShapeInv, SockShape, Ids
<1>r. /\ \A x \in Side, y \in Ids : y < next[x] => fd'[x][y].run = fd[x][y].run
      /\ \A x \in Side, k \in Nat : k < next[x] => k < next'[x]
  BY RunKept
<1>o. Other(q) \in Side
  BY Sides
<1>2. SUFFICES b < next[Other(q)] /\ fd[Other(q)][b].run = fd'[q][i].run
  BY <1>1, <1>r, <1>o
<1>3. CASE Peer(q, i) = b /\ fd'[q][i].run = fd[q][i].run
  BY <1>3 DEF NoReuse, Peer
<1>4. CASE ~(Peer(q, i) = b /\ fd'[q][i].run = fd[q][i].run)
  <2>1. q = p /\ i = a
    BY <1>4 DEF Acts, OnlyAt, Peer
  <2>2. Moved(p, n, ms)
    BY DEF Acts
  <2>3. n => Got(p) \in Els(net[Other(p)])
    BY <2>2, MovedEls DEF IInv
  <2>4. n => IdOK(Other(p), Got(p)) /\ Other(Other(p)) = p /\ Shape(Got(p))
    BY <2>3, Sides DEF NoReuse, ShapeInv
  <2>5. CASE KeepsRun(p, a, n)
    BY <1>4, <2>1, <2>4, <2>5 DEF Acts, KeepsRun, Peer, IdOK
  <2>6. CASE StartsRun(p, a, n)
    BY <2>1, <2>4, <2>6 DEF StartsRun, IdOK
  <2> QED BY <2>1, <2>5, <2>6 DEF RunActs
<1> QED BY <1>3, <1>4

\* NoReuse, for what side p does: the packets.
LEMMA ReuseActs ==
    ASSUME IInv, IInv', StatusInv, ShapeInv, ShapeInv', NoReuse, NEW p \in Side, NEW a \in {0} \cup Ids, NEW n \in BOOLEAN,
           NEW ms \in Seq(Packet), Acts(p, a, n, ms), RunActs(p, a, n, ms)
    PROVE  NoReuse'
<1>1. \A q \in Side, i \in Ids : sock'[q][i].peer # 0 =>
          /\ sock'[q][i].peer \in Ids /\ sock'[q][i].peer < next'[Other(q)]
          /\ fd'[Other(q)][sock'[q][i].peer].run = fd'[q][i].run
  BY ReusePeers
<1>2. ASSUME NEW q \in Side, NEW m \in Els(net[q]) PROVE IdOK(q, m)'
  <2>1. IdOK(q, m) /\ Shape(m) /\ Other(q) \in Side /\ Ids \subseteq Nat
    BY Sides DEF NoReuse, ShapeInv, Ids
  <2>2. m.cmd \in {"OPEN", "OKAY", "WRTE"} => m.arg0 \in Ids
    BY <2>1 DEF Shape
  <2>3. m.cmd \in {"OKAY", "WRTE"} => m.arg1 \in Ids
    BY <2>1 DEF Shape
  <2> QED BY <2>1, <2>2, <2>3, RunKept DEF IdOK
<1>3. ASSUME NEW m \in Els(ms) PROVE IdOK(p, m)'
  <2>1. m.cmd # "CLSE" => a \in Ids /\ m.arg0 = a /\ m.arg0 < next'[p]
    BY DEF Acts
  <2>2. m.cmd \in {"OPEN", "WRTE"} => m.run = fd'[p][m.arg0].run
    BY <2>1 DEF RunActs
  <2>3. m.cmd = "WRTE" => m.arg1 < next'[Other(p)] /\ fd'[Other(p)][m.arg1].run = fd'[p][m.arg0].run
    <3> SUFFICES ASSUME m.cmd = "WRTE" PROVE m.arg1 < next'[Other(p)] /\ fd'[Other(p)][m.arg1].run = fd'[p][a].run
      BY <2>1
    <3>1. Open(p, a) /\ m.arg1 = Peer(p, a) /\ m.arg1 # 0 /\ a \in Ids
      BY <2>1 DEF Acts, RunActs
    <3>2. m.arg1 \in Ids /\ Ids \subseteq Nat
      BY <3>1 DEF ShapeInv, SockShape, Peer, Ids
    <3>3. m.arg1 < next[Other(p)] /\ fd[Other(p)][m.arg1].run = fd[p][a].run
      BY <3>1 DEF NoReuse
    <3>4. fd'[p][a].run = fd[p][a].run
      BY <3>1, RunKept
    <3>5. Other(p) \in Side
      BY Sides
    <3>6. m.arg1 < next'[Other(p)] /\ fd'[Other(p)][m.arg1].run = fd[Other(p)][m.arg1].run
      BY <3>2, <3>3, <3>5, RunKept
    <3> QED BY <3>3, <3>4, <3>6
  <2>4. m.cmd = "OKAY" => m.arg1 < next'[Other(p)] /\ fd'[Other(p)][m.arg1].run = fd'[p][m.arg0].run
    <3> SUFFICES ASSUME m.cmd = "OKAY" PROVE m.arg1 < next'[Other(p)] /\ fd'[Other(p)][m.arg1].run = fd'[p][a].run
      BY <2>1
    <3>1. sock'[p][a].peer = m.arg1 /\ m.arg1 # 0 /\ a \in Ids
      BY <2>1 DEF Acts, RunActs
    <3> QED BY <1>1, <3>1
  <2> QED BY <2>1, <2>2, <2>3, <2>4 DEF IdOK, Acts
<1>4. ASSUME NEW q \in Side, NEW m \in Els(net'[q]) PROVE IdOK(q, m)'
  BY <1>2, <1>3, MovedEls, Sides DEF Acts, IInv
<1> QED BY <1>1, <1>4 DEF NoReuse, Peer

\* OutOK, for what side p does, if the data it gets belongs to the stream.
LEMMA OutActs ==
    ASSUME OutOK, NEW p \in Side, NEW a \in {0} \cup Ids, NEW n \in BOOLEAN, NEW ms \in Seq(Packet),
           Acts(p, a, n, ms), RunActs(p, a, n, ms),
           a \in Ids /\ Gets(p, a, n) => Got(p).run = fd[p][a].run
    PROVE  OutOK'
<1> SUFFICES ASSUME NEW q \in Side, NEW i \in Ids PROVE RunsOf(q, i)' \subseteq {fd'[q][i].run}
  BY DEF OutOK
<1>1. CASE q # p \/ i # a
  <2>1. sock'[q][i] = sock[q][i] /\ fd'[q][i] = fd[q][i]
    BY <1>1 DEF Acts, OnlyAt
  <2> QED BY <2>1 DEF OutOK, RunsOf
<1>2. CASE q = p /\ i = a
  BY <1>2 DEF KeepsRun, OutOK, StartsRun, RunActs
<1> QED BY <1>1, <1>2

\* Nobody reuses ids: data belongs to the stream it is for.
LEMMA ReuseGets ==
    ASSUME IInv, NoReuse, NEW p \in Side, NEW a \in Ids, NEW n \in BOOLEAN, NEW ms \in Seq(Packet),
           Acts(p, a, n, ms), Gets(p, a, n)
    PROVE  Got(p).run = fd[p][a].run
<1>1. Moved(p, n, ms) /\ n
  BY DEF Acts, Gets
<1>2. Got(p) \in Els(net[Other(p)])
  BY <1>1, MovedEls DEF IInv
<1>3. IdOK(Other(p), Got(p)) /\ Other(Other(p)) = p
  BY <1>2, Sides DEF NoReuse
<1> QED BY <1>3 DEF IdOK, Gets

\* Packets other than A_CNXN are sent, or the first A_CNXN is.
LEMMA OnceConcat ==
    ASSUME NEW S, NEW s \in Seq(S), NEW t \in Seq(S)
    PROVE  /\ CnxnOnce(s) /\ (\A m \in Els(t) : m.cmd # "CNXN") => CnxnOnce(s \o t)
           /\ (\A m \in Els(s) : m.cmd # "CNXN") /\ CnxnLast(t) => CnxnOnce(s \o t)
<1>1. /\ Len(s) \in Nat /\ Len(t) \in Nat /\ Len(s \o t) = Len(s) + Len(t)
      /\ \A k \in 1..Len(s) : (s \o t)[k] = s[k]
      /\ \A k \in 1..Len(s \o t) : k \in 1..Len(s) \/ (k > Len(s) /\ k - Len(s) \in 1..Len(t))
      /\ \A k \in 1..Len(s \o t) : k > Len(s) => k - Len(s) \in 1..Len(t) /\ (s \o t)[k] = t[k - Len(s)]
  BY ConcatAt
<1>2. ASSUME CnxnOnce(s), \A m \in Els(t) : m.cmd # "CNXN" PROVE CnxnOnce(s \o t)
  BY <1>1, <1>2 DEF Els, CnxnOnce
<1>3. ASSUME \A m \in Els(s) : m.cmd # "CNXN", CnxnLast(t) PROVE CnxnOnce(s \o t)
  <2>1. ASSUME NEW k \in 1..Len(s \o t), (s \o t)[k].cmd = "CNXN" PROVE k > Len(s) /\ k - Len(s) = Len(t)
    <3>1. k > Len(s)
      BY <1>1, <1>3, <2>1 DEF Els
    <3>2. k - Len(s) \in 1..Len(t) /\ t[k - Len(s)].cmd = "CNXN"
      BY <1>1, <2>1, <3>1
    <3> QED BY <1>3, <3>1, <3>2 DEF CnxnLast
  <2>2. Len(s) \in Nat
    BY LenProperties
  <2> QED BY <2>1, <2>2 DEF CnxnOnce
<1> QED BY <1>2, <1>3

\* A packet is handled.
LEMMA OnceTail ==
    ASSUME NEW S, NEW s \in Seq(S), s # <<>>
    PROVE  /\ CnxnOnce(s) => CnxnOnce(Tail(s))
           /\ CnxnLast(s) => CnxnLast(Tail(s))
           /\ CnxnOnce(s) /\ Head(s).cmd = "CNXN" =>
                  (\A m \in Els(Tail(s)) : m.cmd # "CNXN") /\ Els(Tail(s)) \subseteq Late(s)
           /\ CnxnLast(s) /\ Head(s).cmd = "CNXN" => Tail(s) = <<>>
<1>1. /\ Len(s) \in Nat \ {0} /\ Len(Tail(s)) = Len(s) - 1 /\ Head(s) = s[1] /\ 1 \in 1..Len(s)
      /\ \A k \in 1..Len(Tail(s)) : k + 1 \in 1..Len(s) /\ Tail(s)[k] = s[k + 1]
  BY TailAt
<1>a. PICK e \in Nat : Len(s) = e + 1 /\ Len(Tail(s)) = e
  <2>1. Len(s) - 1 \in Nat /\ Len(s) = (Len(s) - 1) + 1
    BY <1>1
  <2> QED BY <1>1, <2>1
<1>2. ASSUME CnxnOnce(s) PROVE CnxnOnce(Tail(s))
  BY <1>1, <1>2 DEF CnxnOnce
<1>3. ASSUME CnxnLast(s) PROVE CnxnLast(Tail(s))
  <2>1. \A k \in 1..Len(s) : s[k].cmd = "CNXN" => k = Len(s)
    BY <1>3 DEF CnxnLast
  <2>2. ASSUME NEW k \in 1..Len(Tail(s)), Tail(s)[k].cmd = "CNXN" PROVE k = Len(Tail(s))
    BY <1>a, <1>1, <2>1, <2>2
  <2> QED BY <2>2 DEF CnxnLast
<1>4. ASSUME CnxnOnce(s), Head(s).cmd = "CNXN"
      PROVE  (\A m \in Els(Tail(s)) : m.cmd # "CNXN") /\ Els(Tail(s)) \subseteq Late(s)
  <2>1. \A k \in 1..Len(s) : k # 1 => s[k].cmd # "CNXN"
    BY <1>1, <1>4 DEF CnxnOnce
  <2>2. \A k \in 1..Len(s) : k # 1 => IsLate(s, k)
    BY <1>1, <2>1 DEF IsLate
  <2>3. ASSUME NEW k \in 1..Len(Tail(s)) PROVE Tail(s)[k].cmd # "CNXN" /\ Tail(s)[k] \in Late(s)
    BY <1>1, <2>1, <2>2, <2>3 DEF Late
  <2> QED BY <2>3 DEF Els
<1>5. ASSUME CnxnLast(s), Head(s).cmd = "CNXN" PROVE Tail(s) = <<>>
  BY <1>a, <1>1, <1>5, HeadTailProperties, EmptySeq DEF CnxnLast
<1> QED BY <1>2, <1>3, <1>4, <1>5

\* The end of a channel is lost.
LEMMA OncePrefix ==
    ASSUME NEW S, NEW s \in Seq(S), NEW h \in 0..Len(s)
    PROVE  /\ CnxnOnce(s) => CnxnOnce(SubSeq(s, 1, h))
           /\ CnxnLast(s) => CnxnLast(SubSeq(s, 1, h))
           /\ CnxnOnce(s) /\ (\E m \in Els(SubSeq(s, 1, h)) : m.cmd = "CNXN") => Late(SubSeq(s, 1, h)) \subseteq Late(s)
           /\ h = 0 => SubSeq(s, 1, h) = <<>>
<1> DEFINE t == SubSeq(s, 1, h)
<1>1. Len(t) = h /\ Len(s) \in Nat /\ t \in Seq(S) /\ \A k \in 1..h : t[k] = s[k] /\ k \in 1..Len(s)
  BY SubSeqProperties, LenProperties
<1> HIDE DEF t
<1>2. ASSUME CnxnOnce(s) PROVE CnxnOnce(t)
  BY <1>1, <1>2 DEF CnxnOnce
<1>3. ASSUME CnxnLast(s) PROVE CnxnLast(t)
  BY <1>1, <1>3 DEF CnxnLast
<1>4. ASSUME CnxnOnce(s), \E m \in Els(t) : m.cmd = "CNXN" PROVE Late(t) \subseteq Late(s)
  <2>1. PICK c \in 1..h : s[c].cmd = "CNXN"
    BY <1>1, <1>4 DEF Els
  <2>2. \A k \in 1..Len(s) : s[k].cmd = "CNXN" => k = c
    BY <1>1, <1>4, <2>1 DEF CnxnOnce
  <2>3. ASSUME NEW k \in 1..h, IsLate(t, k) PROVE t[k] \in Late(s)
    BY <1>1, <2>1, <2>2, <2>3 DEF IsLate, Late
  <2> QED BY <1>1, <2>3 DEF Late
<1>5. h = 0 => t = <<>>
  BY <1>1, EmptySeq
<1> QED BY <1>2, <1>3, <1>4, <1>5 DEF t

\* A_CNXN is sent after packets other than A_CNXN.
LEMMA LastAppend ==
    ASSUME NEW S, NEW s \in Seq(S), NEW m \in S, \A x \in Els(s) : x.cmd # "CNXN"
    PROVE  CnxnLast(s \o <<m>>)
<1>1. PICK t \in Seq(S) : t = <<m>> /\ Len(t) = 1
  <2>1. <<m>> \in Seq(S) /\ Len(<<m>>) = 1
    OBVIOUS
  <2> QED BY <2>1
<1>2. /\ Len(s) \in Nat /\ Len(s \o t) = Len(s) + 1
      /\ \A k \in 1..Len(s) : (s \o t)[k] = s[k]
  BY <1>1, ConcatAt
<1>3. CnxnLast(s \o t)
  BY <1>2 DEF CnxnLast, Els
<1> QED BY <1>1, <1>3

\* One that was asked for nothing: side p, offline.
LEMMA OfflineWorks ==
    ASSUME TypeOK, OnlineInv, NEW p \in Side, Works(p), ~online[p]
    PROVE  /\ Kept /\ next' = next
           /\ \E n \in BOOLEAN : Moved(p, n, <<>>) /\ (n => Got(p).cmd # "CNXN")
           /\ \A q \in Side, i \in Ids : sock'[q][i].peer = Peer(q, i) /\ SameRun(q, i, {})
<1>z. <<>> \in Seq(Packet)
  BY ElsSmall
<1>o. \A i \in Ids : ~Open(p, i)
  BY DEF OnlineInv
<1>t. PICK b \in BOOLEAN : b = TRUE
  OBVIOUS
<1>f. PICK e \in BOOLEAN : e = FALSE
  OBVIOUS
<1>1. CASE \E i \in Ids : Idles(p, i)
  <2>1. PICK i \in Ids : Idles(p, i)
    BY <1>1
  <2>2. Kept /\ next' = next /\ net' = net /\ OnlyAt(p, i)
    BY <2>1 DEF Idles
  <2>3. Moved(p, e, <<>>)
    BY <1>f, <1>z, <2>2, Sides DEF TypeOK, Moved
  <2>4. ASSUME NEW q \in Side, NEW j \in Ids PROVE sock'[q][j].peer = Peer(q, j) /\ SameRun(q, j, {})
    BY <2>1, <2>2 DEF Idles, OnlyAt, Peer, SameRun, RunsOf
  <2> QED BY <1>f, <2>2, <2>3, <2>4
<1>2. CASE Drops(p)
  BY <1>t, <1>2 DEF Drops, Peer, SameRun, RunsOf
<1>3. \A i \in Ids, m \in Packet : ~Says(p, i, m) /\ ~Dials(p, i, m) /\ ~Accepts(p, i, m)
  BY <1>o DEF Says, Dials, Accepts
<1>4. \A i \in Ids, n \in BOOLEAN, ms \in Seq(Packet) : ~Leaves(p, i, n, ms)
  BY <1>o DEF Leaves
<1>6. \A m \in Packet : ~Refuses(p, m)
  BY DEF Refuses
<1>7. \A i \in Ids : ~Resumes(p, i)
  BY <1>o DEF Resumes
<1>8. \A i \in Ids, ms \in Seq(Packet) : ~Takes(p, i, ms)
  BY <1>o DEF Takes
<1> QED BY <1>1, <1>2, <1>3, <1>4, <1>6, <1>7, <1>8 DEF Works

\* What the device sends while it is connected to nobody and has handled what there was.
LEMMA DeviceOpens ==
    ASSUME \A j \in Ids : Peer("device", j) = 0, NEW a \in {0} \cup Ids, NEW ms \in Seq(Packet),
           Acts("device", a, FALSE, ms)
    PROVE  /\ \A m \in Els(ms) : m.cmd = "OPEN" /\ a \in Ids /\ m.arg0 = a
           /\ \A j \in Ids : sock'["device"][j].peer = 0
<1>1. \A m \in Els(ms) : m.cmd = "OPEN" /\ a \in Ids /\ m.arg0 = a
  BY DEF Acts
<1>2. ASSUME NEW j \in Ids PROVE sock'["device"][j].peer = 0
  BY Sides DEF Acts, OnlyAt, Peer
<1> QED BY <1>1, <1>2

\* A server that is offline has no streams and says nothing.
LEMMA OfflineHost ==
    ASSUME IInv, OnlineInv, Works("host"), ~online["host"]
    PROVE  /\ ~online'["host"] /\ next' = next /\ up' = up /\ runs' = runs /\ resends' = resends
           /\ net'["host"] = net["host"]
           /\ Els(net'["device"]) \subseteq Els(net["device"]) /\ Late(net'["device"]) \subseteq Late(net["device"])
           /\ CnxnOnce(net["device"]) => CnxnOnce(net'["device"])
           /\ \A q \in Side, i \in Ids : /\ sock'[q][i].peer = Peer(q, i) /\ fd'[q][i].run = fd[q][i].run
                                         /\ RunsOf(q, i)' \subseteq RunsOf(q, i)
<1>q. TypeOK /\ net["host"] \in Seq(Packet) /\ net["device"] \in Seq(Packet)
  BY Sides DEF IInv, TypeOK
<1>1. /\ Kept /\ next' = next
      /\ \E n \in BOOLEAN : Moved("host", n, <<>>) /\ (n => Got("host").cmd # "CNXN")
      /\ \A q \in Side, i \in Ids : sock'[q][i].peer = Peer(q, i) /\ SameRun(q, i, {})
  BY <1>q, OfflineWorks, Sides
<1>2. PICK n \in BOOLEAN : Moved("host", n, <<>>)
  BY <1>1
<1>3. net'["host"] = net["host"]
  BY <1>q, <1>2 DEF Moved
<1>4. net'["device"] = net["device"] \/ (net["device"] # <<>> /\ net'["device"] = Tail(net["device"]))
  BY <1>2, Sides DEF Moved
<1>5. /\ Els(net'["device"]) \subseteq Els(net["device"]) /\ Late(net'["device"]) \subseteq Late(net["device"])
      /\ CnxnOnce(net["device"]) => CnxnOnce(net'["device"])
  BY <1>q, <1>4, ElsTail, LateTail, OnceTail
<1> QED BY <1>1, <1>3, <1>5 DEF Kept, SameRun

\* OutOK, for a server that is offline.
LEMMA OfflineOut ==
    ASSUME IInv, OnlineInv, Works("host"), ~online["host"], OutOK
    PROVE  OutOK'
BY OfflineHost DEF OutOK

\* Restarted, for what side p does.
LEMMA RestartedActs ==
    ASSUME IInv, IInv', StatusInv, LinkInv, NEW p \in Side, Works(p), NEW a \in {0} \cup Ids, NEW n \in BOOLEAN,
           NEW ms \in Seq(Packet), Acts(p, a, n, ms), RunActs(p, a, n, ms), OutOK, Restarted
    PROVE  OutOK' /\ Restarted'
<1>q. TypeOK /\ OnlineInv /\ ShapeInv /\ ~online["host"]
  BY DEF IInv, LinkInv, Restarted
<1>k. /\ \A q \in Side, i \in Ids : i < next[q] => fd'[q][i].run = fd[q][i].run
      /\ \A q \in Side, k \in Nat : k < next[q] => k < next'[q]
  BY RunKept
<1>1. (Quiet("host")' <=> Quiet("host")) /\ (Quiet("device")' <=> Quiet("device")) /\ up' = up
  BY <1>q, QuietKept, Sides DEF Acts, Kept
<1>2. CASE p = "host"
  BY <1>q, <1>1, <1>2, OfflineHost, Sides, OfflineOut DEF ShapeInv, Shape, Restarted
<1>3. CASE p = "device"
  <2>1. Moved("device", n, ms) /\ ~online'["host"]
    BY <1>3, <1>q DEF Acts, Kept
  <2>2. net'["host"] = net["host"] \/ (net["host"] # <<>> /\ net'["host"] = Tail(net["host"]))
    BY <2>1, Sides DEF Moved
  <2>3. CnxnLast(net'["host"]) /\ Els(net'["host"]) \subseteq Els(net["host"])
    <3>1. net["host"] \in Seq(Packet) /\ CnxnLast(net["host"])
      BY <1>q, Sides DEF TypeOK, Restarted
    <3>2. CASE net["host"] # <<>> /\ net'["host"] = Tail(net["host"])
      BY <3>1, <3>2, OnceTail, ElsTail
    <3> QED BY <2>2, <3>1, <3>2
  <2>4. ASSUME NEW m \in Els(net["host"]), m.cmd = "WRTE"
        PROVE  /\ m.arg1 < next'["device"] /\ m.run = fd'["device"][m.arg1].run
               /\ m.run = fd["device"][m.arg1].run
    BY <1>k, <1>q, <2>4, Sides DEF ShapeInv, Shape, Ids, Restarted
  <2>5. Restarted'
    BY <1>1, <2>1, <2>3, <2>4 DEF Restarted
  <2>6. a \in Ids /\ Gets("device", a, n) => Got("device").run = fd["device"][a].run
    <3>1. n => Got("device") \in Els(net[Other("device")])
      BY <1>q, <2>1, MovedEls, Sides
    <3> QED BY <2>4, <3>1, Sides DEF Gets
  <2> QED BY <1>3, <2>5, <2>6, OutActs
<1> QED BY <1>2, <1>3, Sides

\* Answered, for what side p does.
LEMMA AnsweredActs ==
    ASSUME IInv, IInv', StatusInv, LinkInv, NEW p \in Side, Works(p), NEW a \in {0} \cup Ids, NEW n \in BOOLEAN,
           NEW ms \in Seq(Packet), Acts(p, a, n, ms), RunActs(p, a, n, ms), OutOK, Answered
    PROVE  OutOK' /\ Answered'
<1>q. /\ TypeOK /\ OnlineInv /\ ShapeInv /\ DeviceIds /\ ~online["host"] /\ net["host"] = <<>>
      /\ net["device"] \in Seq(Packet) /\ CnxnOnce(net["device"]) /\ \A j \in Ids : Peer("device", j) = 0
  BY Sides DEF IInv, TypeOK, LinkInv, Answered
<1>1. Quiet("device")' <=> Quiet("device")
  BY <1>q, QuietKept, Sides
<1>2. ASSUME NEW m \in Late(net["device"])
      PROVE  /\ m.cmd = "OPEN" /\ m.run = fd["device"][m.arg0].run
             /\ m.arg0 \in Ids /\ fd'["device"][m.arg0].run = fd["device"][m.arg0].run
  <2>1. m \in Els(net["device"])
    BY EarlyOrLate
  <2>2. m.cmd = "OPEN" /\ m.run = fd["device"][m.arg0].run
    BY DEF Answered
  <2>3. m.arg0 \in Ids /\ m.arg0 < next["device"]
    BY <1>q, <2>1, <2>2, Sides DEF ShapeInv, Shape, DeviceIds
  <2> QED BY <2>2, <2>3, RunKept, Sides
<1>3. CASE p = "host"
  BY <1>q, <1>1, <1>2, <1>3, OfflineHost, Sides, OfflineOut DEF Answered, Peer
<1>4. CASE p = "device"
  <2>1. Moved("device", n, ms) /\ ~online'["host"] /\ (n => net["host"] # <<>>)
    BY <1>4, <1>q, Sides DEF Acts, Kept, Moved
  <2>2. n = FALSE
    BY <1>q, <2>1
  <2>3. /\ \A m \in Els(ms) : m.cmd = "OPEN" /\ a \in Ids /\ m.arg0 = a
        /\ \A j \in Ids : sock'["device"][j].peer = 0
    BY <1>4, <1>q, <2>2, DeviceOpens
  <2>4. net'["host"] = <<>>
    BY <1>q, <2>1, <2>2, Sides DEF Moved
  <2>5. net'["device"] = net["device"] \/ net'["device"] = net["device"] \o ms
    BY <2>1 DEF Moved
  <2>6. CnxnOnce(net'["device"]) /\ Late(net'["device"]) \subseteq Late(net["device"]) \cup Els(ms)
    <3>1. \A m \in Els(ms) : m.cmd # "CNXN"
      BY <2>3
    <3>2. CnxnOnce(net["device"] \o ms) /\ Late(net["device"] \o ms) = Late(net["device"]) \cup Els(ms)
      BY <1>q, <3>1, OnceConcat, LateConcat
    <3> QED BY <1>q, <2>5, <3>2
  <2>7. \A m \in Els(ms) : m.cmd = "OPEN" /\ m.run = fd'["device"][m.arg0].run
    BY <1>4, <2>3 DEF RunActs
  <2>8. Answered'
    BY <1>1, <1>2, <2>1, <2>3, <2>4, <2>6, <2>7 DEF Answered, Peer
  <2>9. ~Gets("device", a, n)
    BY <2>2 DEF Gets
  <2> QED BY <1>4, <2>8, <2>9, OutActs
<1> QED BY <1>3, <1>4, Sides

\* Fresh, for what side p does.
LEMMA FreshActs ==
    ASSUME IInv, LinkInv, NEW p \in Side, Works(p), NEW a \in {0} \cup Ids, NEW n \in BOOLEAN,
           NEW ms \in Seq(Packet), Acts(p, a, n, ms), Fresh
    PROVE  Fresh'
<1>q. /\ TypeOK /\ OnlineInv /\ ~online["host"] /\ \A j \in Ids : Peer("device", j) = 0
      /\ net["device"] \in Seq(Packet) /\ net["host"] \in Seq(Packet)
      /\ \A m \in Els(net["device"]) : m.cmd \in {"CNXN", "OPEN"}
      /\ \/ net["host"] = <<Pkt("CNXN", 0, 0)>> /\ Quiet("device")
         \/ net["host"] = <<>> /\ CnxnOnce(net["device"])
  BY Sides DEF IInv, TypeOK, LinkInv, Fresh
<1>1. Quiet("device")' <=> Quiet("device")
  BY <1>q, QuietKept, Sides
<1>2. CASE p = "host"
  BY <1>q, <1>1, <1>2, OfflineHost, Sides DEF Fresh, Peer
<1>3. CASE p = "device"
  <2>1. Moved("device", n, ms) /\ ~online'["host"] /\ (n => net["host"] # <<>>) /\ (n => Got("device").cmd # "CNXN")
    BY <1>3, <1>q, Sides DEF Acts, Kept, Moved
  <2>2. n = FALSE
    BY <1>q, <2>1, Sides, CnxnOnly DEF Got
  <2>3. /\ \A m \in Els(ms) : m.cmd = "OPEN" /\ a \in Ids /\ m.arg0 = a
        /\ \A j \in Ids : sock'["device"][j].peer = 0
    BY <1>3, <1>q, <2>2, DeviceOpens
  <2>4. net'["host"] = net["host"]
    BY <1>q, <2>1, <2>2, Sides DEF Moved
  <2>5. net'["device"] = net["device"] \/ net'["device"] = net["device"] \o ms
    BY <2>1 DEF Moved
  <2>6. /\ CnxnOnce(net["device"]) => CnxnOnce(net'["device"])
        /\ Els(net'["device"]) \subseteq Els(net["device"]) \cup Els(ms)
    <3>1. \A m \in Els(ms) : m.cmd # "CNXN"
      BY <2>3
    <3>2. /\ CnxnOnce(net["device"]) => CnxnOnce(net["device"] \o ms)
          /\ Els(net["device"] \o ms) = Els(net["device"]) \cup Els(ms)
      BY <1>q, <3>1, OnceConcat, ElsConcat
    <3> QED BY <1>q, <2>5, <3>2
  <2> QED BY <1>1, <1>q, <2>1, <2>3, <2>4, <2>6 DEF Fresh, Peer
<1> QED BY <1>2, <1>3, Sides

\* RunsInv, for what side p does.
LEMMA RunsActs ==
    ASSUME IInv, IInv', StatusInv, LinkInv, ShapeInv', NEW p \in Side, Works(p), NEW a \in {0} \cup Ids, NEW n \in BOOLEAN,
           NEW ms \in Seq(Packet), Acts(p, a, n, ms), RunActs(p, a, n, ms), RunsInv
    PROVE  RunsInv'
<1>q. runs' = runs /\ resends' = resends /\ up' = up /\ TypeOK /\ ShapeInv
  BY DEF Acts, Kept, IInv, LinkInv
<1>1. ASSUME OutOK, NoReuse PROVE OutOK' /\ NoReuse'
  BY <1>1, <1>q, ReuseActs, ReuseGets, OutActs
<1>2. ASSUME Calm PROVE Calm'
  BY <1>2, <1>q, QuietKept, Sides DEF Calm
<1> QED BY <1>q, <1>1, <1>2, RestartedActs, AnsweredActs, FreshActs DEF RunsInv

\* Closing all asockets of a side, or none.
LEMMA ClosedRuns ==
    ASSUME ShapeInv, NEW p \in Side, NEW ms, Restarts(p, ms) \/ Ends(p), NEW q \in Side, NEW i \in Ids
    PROVE  /\ fd'[q][i].run = fd[q][i].run /\ RunsOf(q, i)' \subseteq RunsOf(q, i)
           /\ sock'[q][i].peer \in {0, Peer(q, i)} /\ next' = next
           /\ ~Open(q, i) => sock'[q][i].peer = 0
<1>1. CASE sock'[q][i] = sock[q][i] /\ fd'[q][i] = fd[q][i]
  BY <1>1, NoPeer DEF RunsOf, Peer, Restarts, Ends
<1>2. CASE ~(sock'[q][i] = sock[q][i] /\ fd'[q][i] = fd[q][i])
  <2>a. \A j \in Ids : sock'[Other(p)][j] = sock[Other(p)][j] /\ fd'[Other(p)][j] = fd[Other(p)][j]
    BY DEF Restarts, Ends
  <2>b. q = p
    BY <1>2, <2>a, Sides
  <2>1. q = p /\ ClosedAll(p)
    BY <1>2, <2>b DEF Restarts, Ends
  <2>2. Open(p, i) /\ GoneAt(p, i) /\ SameRun(p, i, {})
    BY <1>2, <2>1 DEF ClosedAll
  <2> QED BY <2>1, <2>2 DEF GoneAt, SameRun, Restarts, Ends
<1> QED BY <1>1, <1>2

\* NoReuse, when asockets are only closed and packets lost, or sent that name no stream.
LEMMA ReuseLess ==
    ASSUME ShapeInv, NoReuse, next' = next,
           \A q \in Side, i \in Ids : fd'[q][i].run = fd[q][i].run /\ sock'[q][i].peer \in {0, Peer(q, i)},
           \A q \in Side : \A m \in Els(net'[q]) : m \in Els(net[q]) \/ m.cmd \in {"CNXN", "CLSE"}
    PROVE  NoReuse'
<1>1. ASSUME NEW q \in Side, NEW i \in Ids, sock'[q][i].peer # 0
      PROVE  sock'[q][i].peer < next'[Other(q)] /\ fd'[Other(q)][sock'[q][i].peer].run = fd'[q][i].run
  <2>1. sock'[q][i].peer = Peer(q, i) /\ Peer(q, i) \in Ids /\ Other(q) \in Side
    BY <1>1, Sides DEF ShapeInv, SockShape, Peer
  <2>2. Peer(q, i) < next[Other(q)] /\ fd[Other(q)][Peer(q, i)].run = fd[q][i].run
    BY <1>1, <2>1 DEF NoReuse
  <2> QED BY <2>1, <2>2
<1>2. ASSUME NEW q \in Side, NEW m \in Els(net'[q]) PROVE IdOK(q, m)'
  <2>1. CASE m \in Els(net[q])
    <3>1. IdOK(q, m) /\ Shape(m) /\ Other(q) \in Side
      BY <2>1, Sides DEF NoReuse, ShapeInv
    <3>2. m.cmd \in {"OPEN", "OKAY", "WRTE"} => m.arg0 \in Ids
      BY <3>1 DEF Shape
    <3>3. m.cmd \in {"OKAY", "WRTE"} => m.arg1 \in Ids
      BY <3>1 DEF Shape
    <3> QED BY <3>1, <3>2, <3>3 DEF IdOK
  <2>2. CASE m.cmd \in {"CNXN", "CLSE"}
    BY <2>2 DEF IdOK
  <2> QED BY <2>1, <2>2
<1> QED BY <1>1, <1>2 DEF NoReuse, Peer

\* The channels when A_CNXN is handled.
LEMMA RestartNet ==
    ASSUME TypeOK, NEW p \in Side, NEW ms \in Seq(Packet), Restarts(p, ms)
    PROVE  /\ net[Other(p)] \in Seq(Packet) /\ net[p] \in Seq(Packet) /\ net[Other(p)] # <<>>
           /\ net'[Other(p)] = Tail(net[Other(p)])
           /\ net'[p] = IF up THEN net[p] \o ms ELSE net[p]
           /\ Head(net[Other(p)]).cmd = "CNXN" /\ ~Quiet(Other(p))
           /\ \A m \in Els(net'[Other(p)]) : m \in Els(net[Other(p)])
           /\ \A m \in Els(net'[p]) : m \in Els(net[p]) \/ m \in Els(ms)
           /\ \A m \in Els(ms) : m.cmd = "CLSE" \/ (m.cmd = "CNXN" /\ p = "device")
           /\ up' = up /\ runs' = runs /\ resends' = resends
<1>t. PICK n \in BOOLEAN : n = TRUE
  OBVIOUS
<1>1. Moved(p, n, ms) /\ Got(p).cmd = "CNXN" /\ up' = up /\ runs' = runs /\ resends' = resends
  BY <1>t DEF Restarts
<1>2. net[Other(p)] \in Seq(Packet) /\ net[p] \in Seq(Packet)
  BY Sides DEF TypeOK
<1>3. /\ net[Other(p)] # <<>> /\ net'[Other(p)] = Tail(net[Other(p)])
      /\ net'[p] = IF up THEN net[p] \o ms ELSE net[p]
  BY <1>1, <1>t DEF Moved
<1>4. /\ Els(net'[p]) \subseteq Els(net[p]) \cup Els(ms)
      /\ Els(net'[Other(p)]) \subseteq Els(net[Other(p)])
      /\ Got(p) \in Els(net[Other(p)])
  BY <1>1, <1>t, MovedEls
<1>5. \A m \in Els(ms) : m.cmd = "CLSE" \/ (m.cmd = "CNXN" /\ p = "device")
  BY CnxnOnly DEF Restarts
<1> QED BY <1>1, <1>2, <1>3, <1>4, <1>5 DEF Got, Quiet

\* RunsInv, when the device handles A_CNXN.
LEMMA RunsDevice ==
    ASSUME IInv, LinkInv, ShapeInv', NEW ms \in Seq(Packet), Restarts("device", ms), RunsInv
    PROVE  RunsInv'
<1>q. TypeOK /\ ShapeInv /\ OnlineInv
  BY DEF IInv, LinkInv
<1>n. /\ net["host"] \in Seq(Packet) /\ net["device"] \in Seq(Packet) /\ net["host"] # <<>>
      /\ net'["host"] = Tail(net["host"]) /\ Head(net["host"]).cmd = "CNXN" /\ ~Quiet("host")
      /\ net'["device"] = IF up THEN net["device"] \o ms ELSE net["device"]
      /\ \A m \in Els(net'["host"]) : m \in Els(net["host"])
      /\ \A m \in Els(net'["device"]) : m \in Els(net["device"]) \/ m \in Els(ms)
      /\ \A m \in Els(ms) : m.cmd \in {"CNXN", "CLSE"}
      /\ up' = up /\ runs' = runs /\ resends' = resends
  <2>1. "device" \in Side /\ Other("device") = "host"
    BY Sides
  <2> QED BY <1>q, <2>1, RestartNet
<1>c. /\ \A q \in Side, i \in Ids : /\ fd'[q][i].run = fd[q][i].run /\ sock'[q][i].peer \in {0, Peer(q, i)}
                                    /\ RunsOf(q, i)' \subseteq RunsOf(q, i)
      /\ next' = next /\ online'["host"] = online["host"]
      /\ \A j \in Ids : sock'["device"][j].peer = 0
  <2>1. next' = next /\ online'["host"] = online["host"]
    BY <1>q, Sides DEF Restarts, TypeOK
  <2>2. \A j \in Ids : sock'["device"][j].peer = 0
    BY <1>q, AllClosed, Sides
  <2> QED BY <1>q, <2>1, <2>2, ClosedRuns, Sides
<1>m. up => ~Quiet("device")' /\ Late(net'["device"]) = {}
  <2>t. PICK n \in BOOLEAN : n = TRUE
    OBVIOUS
  <2>1. Moved("device", n, ms) /\ ms # <<>> /\ ms[Len(ms)].cmd = "CNXN"
    BY <2>t, Sides DEF Restarts
  <2> QED BY <1>q, <2>1, CnxnSent, Sides
<1>o. up /\ Quiet("device") => CnxnOnce(net'["device"])
  BY <1>n, OnceConcat DEF Restarts, Quiet
<1>1. OutOK => OutOK'
  BY <1>c DEF OutOK
<1>2. NoReuse => NoReuse'
  BY <1>c, <1>n, <1>q, Sides, ReuseLess
<1>3. ASSUME Restarted PROVE Restarted' \/ Answered'
  <2>1. ~online'["host"] /\ net'["host"] = <<>>
    BY <1>3, <1>c, <1>n, OnceTail DEF Restarted
  <2>2. CASE up
    BY <1>c, <1>m, <1>o, <1>3, <2>1, <2>2 DEF Restarted, Answered, Peer
  <2>3. CASE ~up
    BY <1>n, <1>3, <2>1, <2>3, ElsSmall DEF Restarted, Quiet, CnxnLast
  <2> QED BY <2>2, <2>3
<1>4. ~Answered /\ ~Calm
  BY <1>n DEF Answered, Calm
<1>5. ASSUME Fresh, up PROVE Fresh'
  <2>1. net["host"] = <<Pkt("CNXN", 0, 0)>> /\ Quiet("device") /\ ~online["host"]
    BY <1>5, <1>n DEF Fresh
  <2>2. net'["host"] = <<>>
    BY <1>n, <2>1
  <2>3. \A m \in Els(ms) : m.cmd = "CNXN"
    BY <1>5, CnxnOnly DEF Fresh, Restarts
  <2>4. \A m \in Els(net'["device"]) : m.cmd \in {"CNXN", "OPEN"}
    BY <1>5, <1>n, <2>3 DEF Fresh
  <2> QED BY <1>5, <1>c, <1>o, <2>1, <2>2, <2>4 DEF Fresh, Peer
<1> QED BY <1>n, <1>1, <1>2, <1>3, <1>4, <1>5 DEF RunsInv

\* RunsInv, when the host handles A_CNXN.
LEMMA RunsHost ==
    ASSUME IInv, LinkInv, ShapeInv', NEW ms \in Seq(Packet), Restarts("host", ms), RunsInv
    PROVE  RunsInv'
<1>q. TypeOK /\ ShapeInv /\ OnlineInv /\ DeviceIds
  BY DEF IInv, LinkInv
<1>n. /\ net["host"] \in Seq(Packet) /\ net["device"] \in Seq(Packet) /\ net["device"] # <<>>
      /\ net'["device"] = Tail(net["device"]) /\ Head(net["device"]).cmd = "CNXN" /\ ~Quiet("device")
      /\ \A m \in Els(net'["device"]) : m \in Els(net["device"])
      /\ \A m \in Els(net'["host"]) : m \in Els(net["host"]) \/ m \in Els(ms)
      /\ \A m \in Els(ms) : m.cmd = "CLSE"
      /\ up' = up /\ runs' = runs /\ resends' = resends
  <2>1. "host" \in Side /\ Other("host") = "device" /\ "host" # "device"
    BY Sides
  <2> QED BY <1>q, <2>1, RestartNet
<1>c. /\ \A q \in Side, i \in Ids : /\ fd'[q][i].run = fd[q][i].run /\ sock'[q][i].peer \in {0, Peer(q, i)}
                                    /\ RunsOf(q, i)' \subseteq RunsOf(q, i)
      /\ next' = next
      /\ \A j \in Ids : sock'["host"][j].peer = 0
  <2>1. next' = next
    BY DEF Restarts
  <2>2. \A j \in Ids : sock'["host"][j].peer = 0
    BY <1>q, AllClosed, Sides
  <2> QED BY <1>q, <2>1, <2>2, ClosedRuns, Sides
<1>o. CnxnOnce(net["device"]) => Quiet("device")' /\ Els(net'["device"]) \subseteq Late(net["device"])
  BY <1>n, OnceTail DEF Quiet
<1>1. OutOK => OutOK'
  BY <1>c DEF OutOK
<1>2. NoReuse => NoReuse'
  <2>1. \A q \in Side : \A m \in Els(net'[q]) : m \in Els(net[q]) \/ m.cmd \in {"CNXN", "CLSE"}
    BY <1>n, Sides
  <2> QED BY <1>c, <1>q, <2>1, ReuseLess
<1>3. ~Restarted /\ ~Calm
  BY <1>n DEF Restarted, Calm
<1>4. ASSUME Answered PROVE NoReuse'
  <2>1. \A q \in Side, j \in Ids : sock'[q][j].peer = 0
    BY <1>4, <1>c, Sides DEF Answered
  <2>2. \A m \in Els(net'["host"]) : m.cmd = "CLSE"
    BY <1>4, <1>n, ElsSmall DEF Answered
  <2>3. ASSUME NEW m \in Els(net'["device"])
        PROVE  m.cmd = "OPEN" /\ m.arg0 < next'["device"] /\ m.run = fd'["device"][m.arg0].run
    BY <1>c, <1>n, <1>o, <1>q, <1>4, Sides DEF Answered, DeviceIds, ShapeInv, Shape
  <2>4. \A q \in Side : \A m \in Els(net'[q]) : IdOK(q, m)'
    BY <2>2, <2>3, Sides DEF IdOK
  <2> QED BY <2>1, <2>4 DEF NoReuse, Peer
<1>5. ASSUME Fresh, up PROVE Calm'
  BY <1>n, <1>o, <1>5, ElsSmall DEF Fresh, Quiet, Calm
<1> QED BY <1>n, <1>1, <1>2, <1>3, <1>4, <1>5 DEF RunsInv

\* RunsInv, when a side goes offline.
LEMMA RunsEnds ==
    ASSUME IInv, LinkInv, ShapeInv', NEW p \in Side, Ends(p), RunsInv
    PROVE  RunsInv'
<1>q. TypeOK /\ ShapeInv /\ OnlineInv
  BY DEF IInv, LinkInv
<1>n. /\ net' = net /\ next' = next /\ ~up' /\ runs' = runs /\ resends' = resends /\ online[p]
      /\ ~online["host"] => ~online'["host"]
  BY <1>q, Sides DEF Ends, TypeOK
<1>c. \A q \in Side, i \in Ids : /\ fd'[q][i].run = fd[q][i].run /\ sock'[q][i].peer \in {0, Peer(q, i)}
                                 /\ RunsOf(q, i)' \subseteq RunsOf(q, i)
  BY <1>q, ClosedRuns
<1>1. OutOK => OutOK'
  BY <1>c DEF OutOK
<1>2. NoReuse => NoReuse'
  BY <1>c, <1>n, <1>q, ReuseLess
<1>3. ASSUME Restarted PROVE Restarted'
  <2>1. ASSUME NEW m \in Els(net["host"]), m.cmd = "WRTE"
        PROVE  m.arg1 < next'["device"] /\ m.run = fd'["device"][m.arg1].run
    BY <1>c, <1>n, <1>q, <1>3, <2>1, Sides DEF ShapeInv, Shape, Restarted
  <2> QED BY <1>3, <1>n, <2>1 DEF Restarted, Quiet
<1>4. ASSUME Answered PROVE Answered'
  <2>1. ASSUME NEW m \in Late(net["device"])
        PROVE  m.cmd = "OPEN" /\ m.run = fd'["device"][m.arg0].run
    BY <1>c, <1>q, <1>4, <2>1, EarlyOrLate, Sides DEF Answered, ShapeInv, Shape
  <2>2. \A j \in Ids : sock'["device"][j].peer = 0
    BY <1>4, <1>c, Sides DEF Answered
  <2> QED BY <1>4, <1>n, <2>1, <2>2 DEF Answered, Quiet, Peer
<1> QED BY <1>n, <1>1, <1>2, <1>3, <1>4 DEF RunsInv

\* RunsInv, when A_CNXN is sent again.
LEMMA RunsRepeats ==
    ASSUME IInv, LinkInv, NEW n \in BOOLEAN, NEW m \in Packet, Repeats(n, m), RunsInv
    PROVE  RunsInv'
<1>q. TypeOK /\ ShapeInv /\ runs \in Nat /\ resends \in Nat
  BY DEF IInv, TypeOK, LinkInv
<1>n. UNCHANGED <<sock, fd, next>> /\ runs' = runs /\ resends' = resends + 1 /\ Moved("host", n, <<m>>) /\ m.cmd = "CNXN"
  BY CnxnOnly DEF Repeats
<1>1. OutOK => OutOK'
  BY <1>n DEF OutOK, RunsOf
<1>2. NoReuse => NoReuse'
  <2>1. Els(<<m>>) = {m}
    BY ElsSmall
  <2>2. /\ Els(net'["host"]) \subseteq Els(net["host"]) \cup {m}
        /\ Els(net'["device"]) \subseteq Els(net["device"])
    BY <1>n, <1>q, <2>1, MovedEls, Sides
  <2>3. \A q \in Side : \A x \in Els(net'[q]) : x \in Els(net[q]) \/ x.cmd \in {"CNXN", "CLSE"}
    BY <1>n, <2>2, Sides
  <2>4. \A q \in Side, i \in Ids : fd'[q][i].run = fd[q][i].run /\ sock'[q][i].peer \in {0, Peer(q, i)}
    BY <1>n DEF Peer
  <2> QED BY <1>n, <1>q, <2>3, <2>4, ReuseLess
<1>3. runs' + resends' < 2 => runs + resends < 2 /\ runs # 1
  BY <1>n, <1>q
<1>4. runs' + resends' # 0
  BY <1>n, <1>q
<1> QED BY <1>1, <1>2, <1>3, <1>4 DEF RunsInv

\* RunsInv, when a connection is made.
LEMMA RunsConnect ==
    ASSUME IInv, LinkInv, Connect, RunsInv
    PROVE  RunsInv'
<1>q. TypeOK /\ ShapeInv /\ OnlineInv
  BY DEF IInv, LinkInv
<1>n. /\ UNCHANGED <<sock, fd, next, online, runs, resends>>
      /\ net["host"] = <<>> /\ net["device"] = <<>> /\ ~online["host"] /\ ~online["device"]
      /\ net'["host"] = <<Pkt("CNXN", 0, 0)>> /\ net'["device"] = <<>>
  BY <1>q, Sides DEF Connect, TypeOK
<1>e. Els(<<>>) = {} /\ Els(net'["host"]) = {Pkt("CNXN", 0, 0)}
  BY <1>n, ElsSmall, CnxnOnly
<1>1. OutOK => OutOK'
  BY <1>n DEF OutOK, RunsOf
<1>2. NoReuse => NoReuse'
  BY <1>e, <1>n, <1>q, CnxnOnly, Sides, ReuseLess DEF Peer
<1>d. Quiet("device")' /\ Quiet("device")
  BY <1>e, <1>n DEF Quiet
<1>3. ASSUME Restarted PROVE Restarted'
  BY <1>d, <1>e, <1>n, CnxnOnly DEF Quiet, CnxnLast, Restarted
<1>4. ~Answered
  BY <1>d DEF Answered
<1>5. Fresh'
  BY <1>d, <1>e, <1>n, <1>q, Sides, NoPeer DEF OnlineInv, Peer, Fresh
<1> QED BY <1>n, <1>1, <1>2, <1>3, <1>4, <1>5 DEF RunsInv

\* RunsInv, when the connection breaks.
LEMMA RunsBreak ==
    ASSUME IInv, LinkInv, Break, RunsInv
    PROVE  RunsInv'
<1>q. TypeOK /\ ShapeInv /\ net["host"] \in Seq(Packet) /\ net["device"] \in Seq(Packet)
  BY Sides DEF IInv, LinkInv, TypeOK
<1>n. UNCHANGED <<sock, fd, next, online, runs, resends>> /\ ~up'
  BY DEF Break
<1>b. PICK h \in 0..Len(net["host"]), d \in 0..Len(net["device"]) :
          net' = [net EXCEPT !["host"] = SubSeq(@, 1, h), !["device"] = SubSeq(@, 1, d)]
  BY DEF Break
<1>c. net'["host"] = SubSeq(net["host"], 1, h) /\ net'["device"] = SubSeq(net["device"], 1, d)
  BY <1>b, <1>q, Sides DEF TypeOK
<1>e. \A q \in Side : Els(net'[q]) \subseteq Els(net[q])
  <2>1. HostRestart => FALSE
    BY <1>n DEF HostRestart
  <2> QED BY <1>q, <2>1, CutEls
<1>o. /\ CnxnLast(net["host"]) => CnxnLast(net'["host"])
      /\ CnxnOnce(net["device"]) => CnxnOnce(net'["device"])
      /\ CnxnOnce(net["device"]) /\ ~Quiet("device")' => Late(net'["device"]) \subseteq Late(net["device"])
      /\ net["host"] = <<>> => net'["host"] = <<>>
  <2>1. /\ CnxnLast(net["host"]) => CnxnLast(net'["host"])
        /\ h = 0 => net'["host"] = <<>>
    BY <1>c, <1>q, OncePrefix
  <2>2. /\ CnxnOnce(net["device"]) => CnxnOnce(net'["device"])
        /\ CnxnOnce(net["device"]) /\ (\E m \in Els(net'["device"]) : m.cmd = "CNXN") => Late(net'["device"]) \subseteq Late(net["device"])
    BY <1>c, <1>q, OncePrefix
  <2>3. net["host"] = <<>> => h = 0
    BY <1>b
  <2> QED BY <2>1, <2>2, <2>3 DEF Quiet
<1>1. OutOK => OutOK'
  BY <1>n DEF OutOK, RunsOf
<1>2. NoReuse => NoReuse'
  BY <1>e, <1>n, <1>q, ReuseLess DEF Peer
<1>d. Quiet("device") => Quiet("device")'
  BY <1>e, Sides DEF Quiet
<1>3. ASSUME Restarted PROVE Restarted'
  BY <1>3, <1>d, <1>e, <1>n, <1>o, Sides DEF Restarted
<1>4. ASSUME Answered PROVE Restarted' \/ Answered'
  BY <1>n, <1>o, <1>4, ElsSmall DEF CnxnLast, Answered, Restarted, Peer
<1> QED BY <1>n, <1>1, <1>2, <1>3, <1>4 DEF RunsInv

\* RunsInv, when the server is restarted.
LEMMA RunsRestart ==
    ASSUME IInv, LinkInv, HostRestart, RunsInv
    PROVE  RunsInv'
<1>q. TypeOK /\ ShapeInv /\ net["host"] \in Seq(Packet) /\ net["device"] \in Seq(Packet) /\ runs \in Nat /\ resends \in Nat
  BY Sides DEF IInv, LinkInv, TypeOK
<1>n. /\ up /\ up' = up /\ runs' = runs + 1 /\ resends' = resends
      /\ \A j \in Ids : sock'["host"][j].peer = 0 /\ sock'["host"][j].q = <<>> /\ fd'["host"][j].out = <<>>
      /\ \A j \in Ids : sock'["device"][j] = sock["device"][j] /\ fd'["device"][j] = fd["device"][j]
      /\ next'["device"] = next["device"] /\ ~online'["host"]
  BY <1>q, RestartSocks DEF HostRestart
<1>e. /\ \A m \in Els(net'["host"]) : m \in Els(net["host"]) \/ m = Pkt("CNXN", 0, 0)
      /\ \A m \in Els(net'["device"]) : m \in Els(net["device"])
      /\ ~Quiet("host")'
  BY <1>q, CutEls, Sides
<1>1. OutOK => OutOK'
  <2>1. \A i \in Ids : RunsOf("host", i)' = {}
    BY <1>n, NewRuns, Sides
  <2>2. \A i \in Ids : RunsOf("device", i)' = RunsOf("device", i) /\ fd'["device"][i].run = fd["device"][i].run
    BY <1>n DEF RunsOf
  <2> QED BY <2>1, <2>2, Sides DEF OutOK
<1>2. ASSUME NoReuse, Fresh PROVE NoReuse'
  <2>1. \A q \in Side, j \in Ids : sock'[q][j].peer = 0
    BY <1>2, <1>n, Sides DEF Fresh, Peer
  <2>2. \A m \in Els(net'["host"]) : m.cmd = "CNXN"
    BY <1>e, <1>2, CnxnOnly, ElsSmall DEF Fresh
  <2>3. ASSUME NEW m \in Els(net'["device"]) PROVE IdOK("device", m)'
    BY <1>e, <1>n, <1>q, <1>2, Sides DEF NoReuse, ShapeInv, Fresh, Shape, IdOK
  <2>4. \A q \in Side : \A m \in Els(net'[q]) : IdOK(q, m)'
    BY <2>2, <2>3, Sides DEF IdOK
  <2> QED BY <2>1, <2>4 DEF NoReuse, Peer
<1>3. ASSUME NoReuse, Calm PROVE Restarted'
  <2>1. Quiet("device")'
    BY <1>3, <1>e DEF Calm, Quiet
  <2>2. CnxnLast(net'["host"])
    <3>1. PICK h \in 0..Len(net["host"]) : net'["host"] = SubSeq(net["host"], 1, h) \o <<Pkt("CNXN", 0, 0)>>
      BY <1>q, Sides DEF HostRestart, TypeOK
    <3>2. SubSeq(net["host"], 1, h) \in Seq(Packet) /\ Els(SubSeq(net["host"], 1, h)) \subseteq Els(net["host"])
      BY <1>q, LenProperties, SubSeqProperties, ElsSmall
    <3>3. \A x \in Els(SubSeq(net["host"], 1, h)) : x.cmd # "CNXN"
      BY <1>3, <3>2 DEF Calm, Quiet
    <3>4. PICK u \in Seq(Packet) : u = SubSeq(net["host"], 1, h)
      BY <3>2
    <3>5. PICK m \in Packet : m = Pkt("CNXN", 0, 0)
      BY CnxnOnly
    <3>6. \A x \in Els(u) : x.cmd # "CNXN"
      BY <3>3, <3>4
    <3>7. CnxnLast(u \o <<m>>)
      BY <3>6, LastAppend
    <3> QED BY <3>1, <3>4, <3>5, <3>7
  <2>3. ASSUME NEW m \in Els(net'["host"]), m.cmd = "WRTE"
        PROVE  m.arg1 < next'["device"] /\ m.run = fd'["device"][m.arg1].run
    <3>1. m \in Els(net["host"])
      BY <1>e, <2>3, CnxnOnly
    <3>2. IdOK("host", m) /\ Shape(m)
      BY <1>3, <1>q, <3>1, Sides DEF NoReuse, ShapeInv
    <3>3. m.arg1 < next["device"] /\ m.run = fd["device"][m.arg1].run /\ m.arg1 \in Ids
      BY <2>3, <3>2, Sides DEF IdOK, Shape
    <3> QED BY <1>n, <3>3
  <2> QED BY <1>e, <1>n, <2>1, <2>2, <2>3 DEF Restarted
<1>4. runs' + resends' < 2 => runs = 0 /\ resends = 0 /\ runs + resends = 0 /\ runs + resends < 2 /\ runs' = 1
  BY <1>n, <1>q
<1>5. runs' + resends' # 0
  BY <1>n, <1>q
<1> QED BY <1>n, <1>1, <1>2, <1>3, <1>4, <1>5 DEF RunsInv

\* RunsInv holds at first.
LEMMA RunsBase == Init => RunsInv
<1> SUFFICES ASSUME Init PROVE RunsInv
  OBVIOUS
<1>1. /\ \A p \in Side, i \in Ids : sock[p][i] = NoSock /\ fd[p][i] = NewFd
      /\ \A p \in Side : net[p] = <<>>
      /\ up = FALSE
  BY DEF Init
<1>2. NoSock.peer = 0 /\ NoSock.q = <<>> /\ NewFd.out = <<>>
  BY DEF NoSock, Asocket, NewFd
<1>3. OutOK
  BY <1>1, <1>2, RunsOfEmpty DEF OutOK
<1>4. NoReuse
  BY <1>1, <1>2, ElsSmall DEF NoReuse, Peer
<1> QED BY <1>1, <1>3, <1>4 DEF RunsInv

\* And every step keeps it.
LEMMA RunsStep ==
    ASSUME IInv, IInv', StatusInv, LinkInv, LinkInv', RunsInv, [Next]_vars
    PROVE  RunsInv'
<1>q. ShapeInv /\ ShapeInv'
  BY DEF LinkInv
<1>1. ASSUME NEW p \in Side, Works(p) PROVE RunsInv'
  <2>1. PICK a \in {0} \cup Ids, n \in BOOLEAN, ms \in Seq(Packet) : Acts(p, a, n, ms) /\ RunActs(p, a, n, ms)
    BY <1>1, <1>q, ActsView DEF ShapeInv
  <2> QED BY <1>1, <1>q, <2>1, RunsActs
<1>2. ASSUME NEW p \in Side, NEW ms \in Seq(Packet), Restarts(p, ms) PROVE RunsInv'
  BY <1>q, <1>2, RunsDevice, RunsHost, Sides
<1>3. ASSUME Moves PROVE RunsInv'
  BY <1>2, <1>3, <1>q, RunsEnds, RunsRepeats, RunsConnect, RunsBreak, RunsRestart DEF Moves
<1>4. ASSUME UNCHANGED vars PROVE RunsInv'
  <2>1. UNCHANGED <<sock, fd, next, net, online, up, runs, resends>>
    BY <1>4 DEF vars, link
  <2>2. UNCHANGED <<OutOK, NoReuse, Restarted, Answered, Fresh, Calm>>
    BY <2>1 DEF OutOK, RunsOf, NoReuse, IdOK, Restarted, Answered, Fresh, Calm, Quiet, Peer
  <2> QED BY <2>1, <2>2 DEF RunsInv
<1> QED BY <1>1, <1>3, <1>4, Views

\* SameRuns, for asocket i that stays open in a step of its own side.
LEMMA SameOwn ==
    ASSUME IInv, IInv', StatusInv, ShapeInv, Calm, NEW p \in Side, NEW a \in {0} \cup Ids, NEW n \in BOOLEAN,
           NEW ms \in Seq(Packet), Acts(p, a, n, ms), RunActs(p, a, n, ms),
           NEW i \in Ids, Open(p, i), Open(p, i)', SameRuns(p, i), NEW c \in {0} \cup Ids, Stream(p, i, c),
           \A j \in Ids : Open(Other(p), j) => SameRuns(Other(p), j)
    PROVE  SameRuns(p, i)'
<1> DEFINE o == Other(p)
<1>q. TypeOK /\ up /\ o \in Side /\ o # p /\ Other(o) = p
  BY Sides DEF IInv, Calm
<1>k. fd'[p][i].run = fd[p][i].run /\ i < next[p] /\ next[p] \in Nat
  BY <1>q, RunKept DEF TypeOK
<1>1. Moved(p, n, ms) /\ OnlyAt(p, a)
  BY DEF Acts
<1>2. /\ net'[p] = net[p] \o ms /\ Els(net'[p]) = Els(net[p]) \cup Els(ms)
      /\ Els(net'[Other(p)]) \subseteq Els(net[Other(p)])
  BY <1>q, <1>1, MovedNet
<1>g. n => Got(p) \in Els(net[o])
  BY <1>q, <1>1, MovedEls
<1>3. RunsOf(p, i)' \subseteq {fd'[p][i].run}
  <2>1. CASE i # a
    <3>1. sock'[p][i] = sock[p][i] /\ fd'[p][i] = fd[p][i]
      BY <1>1, <2>1 DEF OnlyAt
    <3> QED BY <3>1 DEF SameRuns, RunsOf
  <2>2. CASE i = a
    BY <1>g, <1>k, <2>2 DEF StartsRun, Ids, RunActs, Gets, SameRuns, KeepsRun
  <2> QED BY <2>1, <2>2
<1>4. \A m \in Els(net'[o]) : m.cmd = "WRTE" /\ m.arg1 = i => m.run = fd'[p][i].run
  BY <1>2, <1>k DEF SameRuns
<1>5. \A m \in Els(net'[p]) : m.cmd = "OPEN" /\ m.arg0 = i => m.run = fd'[p][i].run
  BY <1>k, <1>2 DEF Acts, RunActs, SameRuns
<1>6. ASSUME NEW j \in Ids, Open(o, j)', sock'[p][i].peer = j PROVE fd'[o][j].run = fd'[p][i].run
  <2>1. sock'[o][j] = sock[o][j] /\ fd'[o][j] = fd[o][j]
    BY <1>1, <1>q DEF OnlyAt
  <2>2. Open(o, j)
    BY <1>6, <2>1 DEF Open
  <2>3. CASE Peer(p, i) = j
    BY <1>k, <2>1, <2>2, <2>3 DEF SameRuns
  <2>4. CASE Peer(p, i) # j
    <3>1. i = a
      BY <1>1, <1>6, <2>4 DEF OnlyAt, Peer
    <3>2. n /\ Got(p).cmd = "OKAY" /\ Got(p).arg1 = i /\ Got(p).arg0 = j
      BY <1>6, <2>4, <3>1 DEF Acts, Open
    <3>3. c = j /\ c # 0 /\ Has(Els(net[o]), "OKAY", c, i)
      BY <1>g, <3>2 DEF Stream, Has, Ids
    <3>4. Met(p, i, c) /\ SaidOK(Peer(p, i), Els(net[p]), i)
      BY <3>3 DEF Stream
    <3>5. ~Has(Els(net[o]), "CLSE", c, i)
      BY <2>2, <3>3, <3>4 DEF Met
    <3>6. ~Has(Els(net[p]), "OKAY", i, c)
      BY <2>4, <3>3, <3>4 DEF SaidOK, Has
    <3>7. Peer(o, c) = i
      BY <3>3, <3>4, <3>5, <3>6 DEF Met
    <3>8. fd[p][i].run = fd[o][j].run
      BY <1>q, <2>2, <3>3, <3>7 DEF SameRuns
    <3> QED BY <1>k, <2>1, <3>8
  <2> QED BY <2>3, <2>4
<1> QED BY <1>3, <1>4, <1>5, <1>6 DEF SameRuns, Peer

\* SameRuns, for asocket i that a step of its side creates.
LEMMA SameNew ==
    ASSUME IInv, Calm, DeviceIds, HostIds, NEW p \in Side, NEW a \in {0} \cup Ids, NEW n \in BOOLEAN,
           NEW ms \in Seq(Packet), Acts(p, a, n, ms), RunActs(p, a, n, ms),
           NEW i \in Ids, ~Open(p, i), Open(p, i)',
           \A j \in Ids : Open(Other(p), j) => SameRuns(Other(p), j)
    PROVE  SameRuns(p, i)'
<1> DEFINE o == Other(p)
<1>q. TypeOK /\ up /\ o \in Side /\ o # p /\ Other(o) = p
  BY Sides DEF IInv, Calm
<1>1. Moved(p, n, ms) /\ OnlyAt(p, a)
  BY DEF Acts
<1>2. /\ net'[p] = net[p] \o ms /\ Els(net'[p]) = Els(net[p]) \cup Els(ms)
      /\ Els(net'[Other(p)]) \subseteq Els(net[Other(p)])
  BY <1>q, <1>1, MovedNet
<1>g. n => Got(p) \in Els(net[o])
  BY <1>q, <1>1, MovedEls
<1>3. a = i
  BY <1>1 DEF OnlyAt, Open
<1>4. i = next[p] /\ StartsRun(p, i, n)
  BY <1>3 DEF Acts, RunActs, KeepsRun, Open
<1>5. /\ \A m \in Els(net[p]) : m.cmd # "CLSE" => m.arg0 # i
      /\ \A m \in Els(net[o]) : m.arg1 # i
  BY <1>4, FreshIds
<1>6. \A m \in Els(net'[p]) : m.cmd = "OPEN" /\ m.arg0 = i => m.run = fd'[p][i].run
  BY <1>2, <1>3, <1>5 DEF RunActs
<1>7. ASSUME NEW j \in Ids, Open(o, j)', sock'[p][i].peer = j PROVE fd'[o][j].run = fd'[p][i].run
  BY <1>g, <1>q, <1>1, <1>4, <1>7 DEF OnlyAt, Open, StartsRun, Ids, SameRuns
<1> QED BY <1>2, <1>4, <1>5, <1>6, <1>7 DEF SameRuns, StartsRun, Peer

\* SameRuns, for asocket i that is open, in a step of the other side.
LEMMA SameOther ==
    ASSUME IInv, IInv', StatusInv, ShapeInv, Calm, DeviceIds, HostIds, NEW o \in Side, NEW a \in {0} \cup Ids,
           NEW n \in BOOLEAN, NEW ms \in Seq(Packet), Acts(o, a, n, ms), RunActs(o, a, n, ms),
           NEW p \in Side, p = Other(o), NEW i \in Ids, Open(p, i), SameRuns(p, i),
           \A j \in Ids : Open(o, j) => SameRuns(o, j)
    PROVE  SameRuns(p, i)'
<1>q. TypeOK /\ up /\ o # p /\ Other(p) = o
  BY Sides DEF IInv, Calm
<1>1. Moved(o, n, ms) /\ OnlyAt(o, a)
  BY DEF Acts
<1>2. /\ Els(net'[o]) = Els(net[o]) \cup Els(ms)
      /\ Els(net'[p]) \subseteq Els(net[p])
  <2>1. /\ net'[o] = net[o] \o ms /\ Els(net'[o]) = Els(net[o]) \cup Els(ms)
        /\ Els(net'[Other(o)]) \subseteq Els(net[Other(o)])
    BY <1>q, <1>1, MovedNet
  <2> QED BY <2>1
<1>3. sock'[p][i] = sock[p][i] /\ fd'[p][i] = fd[p][i]
  BY <1>1, <1>q DEF OnlyAt
<1>4. RunsOf(p, i)' = RunsOf(p, i)
  BY <1>3 DEF RunsOf
<1>5. ASSUME NEW m \in Els(ms), m.cmd = "WRTE", m.arg1 = i PROVE m.run = fd[p][i].run
  <2>1. a \in Ids /\ Open(o, a) /\ Peer(o, a) = i /\ m.run = fd'[o][a].run
    BY <1>5 DEF Acts, RunActs
  <2>2. fd'[o][a].run = fd[o][a].run
    BY <2>1, RunKept
  <2>3. fd[p][i].run = fd[o][a].run
    BY <2>1 DEF SameRuns
  <2> QED BY <2>1, <2>2, <2>3
<1>6. ASSUME NEW j \in Ids, Open(o, j)', Peer(p, i) = j PROVE fd'[o][j].run = fd[p][i].run
  <2>1. CASE Open(o, j)
    BY <1>q, <1>6, <2>1, RunKept DEF SameRuns
  <2>2. CASE ~Open(o, j)
    BY <1>1, <1>6, <2>2, FreshIds DEF OnlyAt, Open, Acts
  <2> QED BY <2>1, <2>2
<1> QED BY <1>2, <1>3, <1>4, <1>5, <1>6, <1>q DEF SameRuns, Peer

\* NoRuns, for asocket i of the device.
LEMMA NoRunsActs ==
    ASSUME IInv, IInv', StatusInv, LinkInv, RunInv, Answering, NEW p \in Side, NEW a \in {0} \cup Ids, NEW n \in BOOLEAN,
           NEW ms \in Seq(Packet), Acts(p, a, n, ms), RunActs(p, a, n, ms), NEW i \in Ids, Open("device", i)'
    PROVE  NoRuns(i)'
<1>q. TypeOK /\ up /\ DeviceIds /\ ~Quiet("device") /\ next["device"] \in Nat
  BY Sides DEF IInv, LinkInv, Answering, TypeOK
<1>1. Moved(p, n, ms) /\ OnlyAt(p, a) /\ \A m \in Els(ms) : m.cmd # "CNXN"
  BY DEF Acts
<1>2. CASE p = "host"
  <2>1. sock'["device"][i] = sock["device"][i] /\ fd'["device"][i] = fd["device"][i]
    BY <1>1, <1>2, Sides DEF OnlyAt
  <2>2. Late(net'["device"]) \subseteq Late(net["device"])
    BY <1>1, <1>2, <1>q, MovedLate, Sides
  <2>3. NoRuns(i)
    BY <2>1 DEF RunInv, Open
  <2> QED BY <2>1, <2>2, <2>3 DEF NoRuns, RunsOf
<1>3. CASE p = "device"
  <2>1. Late(net'["device"]) = Late(net["device"]) \cup Els(ms)
    BY <1>1, <1>3, <1>q, MovedLate
  <2>2. \A m \in Els(ms) : m.cmd = "OPEN" => m.arg0 = a /\ m.run = fd'["device"][a].run
    BY <1>3 DEF Acts, RunActs
  <2>3. CASE Open("device", i)
    <3>1. NoRuns(i) /\ Unknown(i)
      BY <2>3 DEF RunInv, LinkInv, AnswerInv
    <3>2. fd'["device"][i].run = fd["device"][i].run /\ i < next["device"]
      BY <1>3, <2>3, RunKept
    <3>3. RunsOf("device", i)' = {}
      <4>1. CASE i # a
        BY <1>1, <1>3, <3>1, <4>1 DEF OnlyAt, NoRuns, RunsOf
      <4>2. CASE i = a
        <5>1. n => Got("device") \in Els(net[Other("device")])
          BY <1>1, <1>3, <1>q, MovedEls
        <5>2. ~Gets("device", i, n)
          BY <3>1, <5>1, Sides DEF Gets, Unknown
        <5>3. ~StartsRun("device", i, n)
          BY <1>q, <3>2 DEF StartsRun, Ids
        <5>4. KeepsRun("device", i, n)
          BY <1>3, <4>2, <5>3 DEF RunActs
        <5> QED BY <3>1, <5>2, <5>4 DEF KeepsRun, NoRuns
      <4> QED BY <4>1, <4>2
    <3> QED BY <2>1, <2>2, <3>1, <3>2, <3>3 DEF NoRuns
  <2>4. CASE ~Open("device", i)
    <3>1. i = a
      BY <1>1, <1>3, <2>4 DEF OnlyAt, Open
    <3>2. i = next["device"] /\ StartsRun("device", i, n)
      BY <1>3, <2>4, <3>1 DEF Acts, RunActs, KeepsRun, Open
    <3>3. \A m \in Late(net["device"]) : m.arg0 # i
      BY <1>q, <3>2, EarlyOrLate DEF DeviceIds
    <3> QED BY <2>1, <2>2, <3>1, <3>2, <3>3 DEF NoRuns, StartsRun
  <2> QED BY <2>3, <2>4
<1> QED BY <1>2, <1>3, Sides

\* RunInv, for what side p does.
LEMMA RunActsInv ==
    ASSUME IInv, IInv', StatusInv, LinkInv, RunInv, NEW p \in Side, NEW a \in {0} \cup Ids, NEW n \in BOOLEAN,
           NEW ms \in Seq(Packet), Acts(p, a, n, ms), RunActs(p, a, n, ms)
    PROVE  RunInv'
<1>q. TypeOK /\ ShapeInv /\ DeviceIds /\ HostIds /\ StreamInv
  BY DEF IInv, LinkInv
<1>1. (Calm' => Calm) /\ (Answering' => Answering)
  BY <1>q, QuietKept, Sides DEF Acts, Kept, Calm, Answering
<1>2. ASSUME Calm', NEW q \in Side, NEW i \in Ids, Open(q, i)' PROVE SameRuns(q, i)'
  <2>1. Calm /\ \A r \in Side, j \in Ids : Open(r, j) => SameRuns(r, j)
    BY <1>1, <1>2 DEF RunInv
  <2>2. CASE q = p /\ Open(q, i)
    <3>1. PICK c \in {0} \cup Ids : Stream(p, i, c)
      BY <1>q, <2>1, <2>2 DEF StreamInv
    <3>2. \A j \in Ids : Open(Other(p), j) => SameRuns(Other(p), j)
      BY <2>1, Sides
    <3>3. SameRuns(p, i)
      BY <2>1, <2>2
    <3> QED BY <1>2, <1>q, <2>1, <2>2, <3>1, <3>2, <3>3, SameOwn
  <2>3. CASE q = p /\ ~Open(q, i)
    BY <1>q, <1>2, <2>1, <2>3, Sides, SameNew
  <2>4. CASE q # p
    <3>1. q = Other(p) /\ Open(q, i)
      BY <1>2, <2>4, Sides DEF Acts, OnlyAt, Open
    <3> QED BY <1>q, <2>1, <3>1, SameOther
  <2> QED BY <2>2, <2>3, <2>4
<1>3. ASSUME Answering', NEW i \in Ids, Open("device", i)' PROVE NoRuns(i)'
  BY <1>1, <1>3, NoRunsActs
<1> QED BY <1>2, <1>3 DEF RunInv

\* RunInv, for what happens to the connection.
LEMMA RunMoves ==
    ASSUME IInv, IInv', ShapeInv', LinkInv, Moves, RunInv
    PROVE  RunInv'
<1>1. ASSUME up', Quiet("host")', NEW q \in Side, NEW j \in Ids, Open(q, j)'
      PROVE  /\ Answering' /\ q = "device" => NoRuns(j)'
             /\ Calm' => SameRuns(q, j)'
  <2>2. PICK p \in Side, ms \in Seq(Packet) : Restarts(p, ms)
    BY <1>1, QuietMoves
  <2>3. CASE p = "device"
    BY <1>1, <2>2, <2>3, AllClosed, QuietMoves DEF LinkInv, Calm
  <2>4. CASE p = "host"
    <3>1. Restarts("host", ms) /\ Answering
      BY <1>1, <2>2, <2>4, QuietMoves
    <3>2. q = "device" /\ \A i \in Ids : ~Open("host", i)'
      BY <1>1, <2>2, <2>4, AllClosed, Sides DEF LinkInv
    <3>3. Unknown(j)' /\ Open("device", j)
      BY <1>1, <3>1, <3>2, AnswerAgain DEF LinkInv
    <3>4. NoRuns(j)
      BY <3>1, <3>3 DEF RunInv
    <3>5. sock'["device"][j] = sock["device"][j] /\ fd'["device"][j] = fd["device"][j]
      BY <3>1, Sides DEF Restarts
    <3>6. Late(net'["device"]) \subseteq Late(net["device"])
      BY <3>1, RestartNet, Sides, LateTail DEF IInv
    <3>7. NoRuns(j)'
      BY <3>4, <3>5, <3>6 DEF NoRuns, RunsOf
    <3>8. ASSUME Calm' PROVE SameRuns("device", j)'
      <4>1. Late(net'["device"]) = Els(net'["device"])
        BY <3>8, EarlyOrLate DEF Calm, Quiet
      <4>2. RunsOf("device", j)' = {} /\ \A m \in Els(net'["device"]) : m.cmd = "OPEN" /\ m.arg0 = j => m.run = fd'["device"][j].run
        BY <3>7, <4>1 DEF NoRuns
      <4>3. \A m \in Els(net'["host"]) : m.arg1 # j
        BY <3>3 DEF Unknown
      <4> QED BY <3>2, <4>2, <4>3, Sides DEF SameRuns
    <3> QED BY <3>2, <3>7, <3>8
  <2> QED BY <2>3, <2>4, Sides
<1>2. ASSUME Calm', NEW q \in Side, NEW j \in Ids, Open(q, j)' PROVE SameRuns(q, j)'
  BY <1>1, <1>2 DEF Calm
<1>3. ASSUME Answering', NEW j \in Ids, Open("device", j)' PROVE NoRuns(j)'
  BY <1>1, <1>3, Sides DEF Answering
<1> QED BY <1>2, <1>3 DEF RunInv

\* And every step keeps it.
LEMMA RunStep ==
    ASSUME IInv, IInv', StatusInv, LinkInv, LinkInv', RunInv, [Next]_vars
    PROVE  RunInv'
<1>q. ShapeInv /\ ShapeInv'
  BY DEF LinkInv
<1>1. ASSUME NEW p \in Side, Works(p) PROVE RunInv'
  <2>1. PICK a \in {0} \cup Ids, n \in BOOLEAN, ms \in Seq(Packet) : Acts(p, a, n, ms) /\ RunActs(p, a, n, ms)
    BY <1>1, <1>q, ActsView DEF ShapeInv
  <2> QED BY <2>1, RunActsInv
<1>2. ASSUME Moves PROVE RunInv'
  BY <1>2, <1>q, RunMoves
<1>3. ASSUME UNCHANGED vars PROVE RunInv'
  <2>1. UNCHANGED <<sock, fd, next, net, online, up, runs, resends>>
    BY <1>3 DEF vars, link
  <2>2. UNCHANGED <<Calm, Answering>>
    BY <2>1 DEF Calm, Answering, Quiet
  <2>3. \A p \in Side, i \in Ids : UNCHANGED <<Open(p, i), SameRuns(p, i)>>
    BY <2>1 DEF SameRuns, Open, Peer, RunsOf
  <2>4. \A i \in Ids : UNCHANGED <<Open("device", i), NoRuns(i)>>
    BY <2>1 DEF NoRuns, Open, RunsOf
  <2> QED BY <2>2, <2>3, <2>4 DEF RunInv
<1> QED BY <1>1, <1>2, <1>3, Views

\* What RunInv and RunsInv say of the data that streams got.
LEMMA RunsHolds == IInv /\ LinkInv /\ RunInv /\ RunsInv => RunsApart
<1> SUFFICES ASSUME IInv, LinkInv, RunInv, RunsInv, NEW p \in Side, NEW i \in Ids,
                    runs + resends < 2 \/ (Settled /\ Open(p, i)), NEW k \in 1..Len(fd[p][i].out)
             PROVE  fd[p][i].out[k].run = fd[p][i].run
  BY DEF RunsApart
<1>1. RunsOf(p, i) \subseteq {fd[p][i].run}
  BY SettledCalm DEF RunsInv, OutOK, LinkInv, RunInv, SameRuns
<1>2. fd[p][i].out[k] \in Els(fd[p][i].out)
  BY DEF Els
<1>3. fd[p][i].out[k].run \in RunsOf(p, i)
  BY <1>2 DEF RunsOf
<1> QED BY <1>1, <1>3

-----------------------------------------------------------------------------
(* The theorems about both ends of a stream *)

\* It holds at the start, where nothing is connected.
LEMMA StreamsBase == Init => StreamsInv
<1> SUFFICES ASSUME Init PROVE StreamsInv
  OBVIOUS
<1>1. IInv /\ StatusInv /\ LinkInv /\ RunsInv
  BY InductiveBase, StatusBase, LinkBase, RunsBase
<1>2. CreditInv /\ RunInv
  BY DEF CreditInv, RunInv, Calm, Answering, Init
<1> QED BY <1>1, <1>2 DEF StreamsInv

\* Every step keeps it.
LEMMA StreamsStep == StreamsInv /\ [Next]_vars => StreamsInv'
<1> SUFFICES ASSUME StreamsInv, [Next]_vars PROVE StreamsInv'
  OBVIOUS
<1>1. IInv' /\ StatusInv'
  BY InductiveStep, StatusStep DEF StreamsInv
<1>2. LinkInv'
  BY <1>1, LinkStep DEF StreamsInv
<1>3. CreditInv' /\ RunInv' /\ RunsInv'
  BY <1>1, <1>2, CreditStep, RunStep, RunsStep DEF StreamsInv
<1> QED BY <1>1, <1>2, <1>3 DEF StreamsInv

\* A_CLSE, A_OKAY and their answers (handle_packet, local_socket_close): of two ends of a
\* stream none is left behind, whatever order they close in, whichever side opened the
\* stream, and however many connections and restarts came before.
THEOREM NothingHalfOpen == Spec => []NoHalfOpen
<1>1. StreamsInv => NoHalfOpen
  BY LinkHolds DEF StreamsInv
<1> QED BY <1>1, StreamsBase, StreamsStep, PTL DEF Spec

\* local_socket_enqueue, local_socket_event_func and remote_socket_ready: each direction of
\* a connected stream has exactly one token, so that a writer never has two packets on the
\* way and is never left waiting for an A_OKAY that nobody will send.
THEOREM TokenOnce == Spec => []OneCredit
<1>1. StreamsInv => OneCredit
  BY CreditHolds DEF StreamsInv
<1> QED BY <1>1, StreamsBase, StreamsStep, PTL DEF Spec

\* handle_new_connection and the ids that every server process begins with 1 again: an
\* application gets no data of a stream that another server process opened, in any stream
\* as long as A_CNXN was repeated once at most, and in the streams of a connection that
\* has settled however often it was.
THEOREM RunsStayApart == Spec => []RunsApart
<1>1. StreamsInv => RunsApart
  BY RunsHolds DEF StreamsInv
<1> QED BY <1>1, StreamsBase, StreamsStep, PTL DEF Spec

-----------------------------------------------------------------------------
(* The data of a channel *)

\* A set of naturals has a least element: strict inclusion of the intervals 1..x is well-founded.
LEMMA LeastNat == ASSUME NEW T \in SUBSET Nat, T # {} PROVE \E x \in T : \A y \in T : x <= y
<1> DEFINE U == {1..x : x \in T}
<1>1. U \subseteq FiniteSubsetsOf(Nat) /\ U # {}
  <2>1. \A x \in T : 1..x \in SUBSET Nat /\ IsFiniteSet(1..x)
    BY FS_Interval
  <2> QED BY <2>1 DEF FiniteSubsetsOf
<1>2. PICK m \in U : \A u \in U : ~(<<u, m>> \in StrictSubsetOrdering(Nat))
  <2> HIDE DEF U
  <2>1. IsWellFoundedOn(StrictSubsetOrdering(Nat), FiniteSubsetsOf(Nat))
    BY FS_StrictSubsetOrderingWellFounded
  <2> QED BY <1>1, <2>1, WFMin
<1>3. PICK x \in T : m = 1..x
  OBVIOUS
<1>4. ASSUME NEW y \in T, y < x PROVE FALSE
  <2>1. 1..y \in U /\ 1..y \subseteq 1..x /\ 1..y \in SUBSET Nat /\ 1..x \in SUBSET Nat
    BY <1>4
  <2>2. x \in 1..x /\ x \notin 1..y
    BY <1>4
  <2>3. <<1..y, 1..x>> \in StrictSubsetOrdering(Nat)
    BY <2>1, <2>2 DEF StrictSubsetOrdering
  <2> HIDE DEF U
  <2> QED BY <1>2, <1>3, <2>1, <2>3
<1> QED BY <1>4

\* Induction over the naturals, for a set in place of a predicate.
LEMMA Induction == ASSUME NEW T, 0 \in T, \A n \in Nat : n \in T => n + 1 \in T PROVE Nat \subseteq T
<1> SUFFICES ASSUME Nat \ T # {} PROVE FALSE
  OBVIOUS
<1>1. PICK x \in Nat \ T : \A y \in Nat \ T : x <= y
  BY LeastNat
<1>2. x # 0 /\ x - 1 \in Nat
  BY <1>1
<1>3. x - 1 \in T
  BY <1>1, <1>2
<1> QED BY <1>1, <1>2, <1>3

\* The number of the chunk in a packet.
NumberIn(m) == IF m.cmd = "WRTE" THEN <<m.n>> ELSE <<>>

\* Three sequences.
LEMMA ThreeParts == \A a, b, c \in Seq(Nat) : (a \o b) \o c = a \o (b \o c)
BY ConcatAssociative, SMTT(30)

\* The data of one more packet.
LEMMA AndData ==
    ASSUME NEW a \in Seq(Nat), NEW b \in Seq(Nat), NEW m \in Packet
    PROVE  /\ And(a, m) \in Seq(Nat) /\ NumberIn(m) \in Seq(Nat)
           /\ And(a, m) = a \o NumberIn(m)
           /\ And(a \o b, m) = a \o And(b, m)
<1>1. m.n \in Nat /\ a \o b \in Seq(Nat)
  BY ConcatProperties DEF Packet
<1>2. NumberIn(m) \in Seq(Nat)
  BY <1>1 DEF NumberIn
<1>3. ASSUME NEW c \in Seq(Nat) PROVE And(c, m) = c \o NumberIn(m) /\ And(c, m) \in Seq(Nat)
  BY <1>1, AppendIsConcat, AppendProperties, ConcatEmptySeq DEF And, NumberIn
<1>4. (a \o b) \o NumberIn(m) = a \o (b \o NumberIn(m))
  <2> DEFINE c == NumberIn(m)
  <2> HIDE DEF c
  <2>1. c \in Seq(Nat)
    BY <1>2 DEF c
  <2>2. (a \o b) \o c = a \o (b \o c)
    BY <2>1, ThreeParts, Zenon
  <2> QED BY <2>2 DEF c
<1> QED BY <1>1, <1>2, <1>3, <1>4

\* f[k] is the data of the first k packets of s, for every k up to n.
Prefixes(f, s, n) ==
    /\ f \in [0..n -> Seq(Nat)] /\ f[0] = <<>>
    /\ \A k \in 1..n : f[k] = And(f[k - 1], s[k])

\* There are such prefixes for every channel.
LEMMA PrefixesExist ==
    ASSUME NEW s \in Seq(Packet)
    PROVE  \E f : Prefixes(f, s, Len(s))
<1> DEFINE T == {n \in Nat : n <= Len(s) => \E f : Prefixes(f, s, n)}
<1>1. 0 \in T
  <2>1. Prefixes([k \in 0..0 |-> <<>>], s, 0)
    BY EmptySeq DEF Prefixes
  <2> QED BY <2>1
<1>2. ASSUME NEW n \in Nat, n \in T PROVE n + 1 \in T
  <2> SUFFICES ASSUME n + 1 <= Len(s) PROVE \E f : Prefixes(f, s, n + 1)
    OBVIOUS
  <2>1. PICK f : Prefixes(f, s, n)
    BY <1>2
  <2>2. s[n + 1] \in Packet
    BY ElementOfSeq
  <2> DEFINE v == And(f[n], s[n + 1])
             g == [k \in 0..n + 1 |-> IF k = n + 1 THEN v ELSE f[k]]
  <2>3. v \in Seq(Nat)
    <3>1. f[n] \in Seq(Nat)
      BY <2>1 DEF Prefixes
    <3> QED BY <2>2, <3>1, AndData
  <2>4. g \in [0..n + 1 -> Seq(Nat)] /\ g[0] = <<>>
    <3> HIDE DEF v
    <3> QED BY <2>1, <2>3 DEF Prefixes
  <2>5. ASSUME NEW k \in 1..n + 1 PROVE g[k] = And(g[k - 1], s[k])
    <3>1. CASE k = n + 1
      BY <3>1
    <3>2. CASE k # n + 1
      <4> HIDE DEF v
      <4>1. k \in 1..n /\ k \in 0..n + 1 /\ k - 1 \in 0..n + 1 /\ k - 1 # n + 1
        BY <3>2
      <4>2. f[k] = And(f[k - 1], s[k])
        BY <2>1, <4>1 DEF Prefixes
      <4>3. g[k] = f[k] /\ g[k - 1] = f[k - 1]
        BY <4>1, <3>2
      <4> QED BY <4>2, <4>3
    <3> QED BY <3>1, <3>2
  <2> HIDE DEF g
  <2>6. Prefixes(g, s, n + 1)
    BY <2>4, <2>5 DEF Prefixes
  <2> QED BY <2>6
<1> HIDE DEF T
<1>3. Len(s) \in T
  BY <1>1, <1>2, Induction
<1> QED BY <1>3 DEF T

\* What Written computes is the last of these prefixes, which are all the same.
LEMMA WrittenPrefix ==
    ASSUME NEW s \in Seq(Packet), NEW f, Prefixes(f, s, Len(s))
    PROVE  Written(s) = f[Len(s)] /\ Written(s) \in Seq(Nat)
<1> DEFINE n == Len(s)
           Def(h) == h = [k \in 0..n |-> IF k = 0 THEN <<>> ELSE And(h[k - 1], s[k])]
           u == CHOOSE h : Def(h)
           T == {k \in Nat : k <= n => u[k] = f[k]}
<1>1. Def(f)
  BY DEF Prefixes
<1>2. Def(u)
  BY <1>1
<1> HIDE DEF u
<1>3. u[0] = <<>> /\ \A k \in 0..n : k # 0 => u[k] = And(u[k - 1], s[k])
  BY <1>2
<1>4. 0 \in T
  BY <1>3 DEF Prefixes
<1>5. ASSUME NEW k \in Nat, k \in T PROVE k + 1 \in T
  <2> SUFFICES ASSUME k + 1 <= n PROVE u[k + 1] = f[k + 1]
    OBVIOUS
  <2>1. k + 1 \in 1..n /\ k + 1 \in 0..n /\ k + 1 # 0 /\ k + 1 - 1 = k /\ k <= n
    OBVIOUS
  <2>2. u[k] = f[k]
    BY <1>5, <2>1
  <2>3. f[k + 1] = And(f[k + 1 - 1], s[k + 1])
    BY <2>1 DEF Prefixes
  <2>4. u[k + 1] = And(u[k + 1 - 1], s[k + 1])
    BY <1>3, <2>1
  <2> QED BY <2>1, <2>2, <2>3, <2>4
<1> HIDE DEF T
<1>6. n \in T
  BY <1>4, <1>5, Induction
<1>7. u[n] = f[n]
  BY <1>6 DEF T
<1>8. Written(s) = u[n]
  BY DEF Written, u
<1> QED BY <1>7, <1>8 DEF Prefixes

\* The data of a channel is a sequence of numbers.
LEMMA WrittenType == ASSUME NEW s \in Seq(Packet) PROVE Written(s) \in Seq(Nat)
BY PrefixesExist, WrittenPrefix

\* An empty channel has none.
LEMMA WrittenEmpty == Written(<<>>) = <<>>
<1> DEFINE e == <<>>
<1>1. e \in Seq(Packet) /\ Len(e) = 0
  OBVIOUS
<1> HIDE DEF e
<1>2. PICK f : Prefixes(f, e, Len(e))
  BY <1>1, PrefixesExist
<1>3. Written(e) = f[0] /\ f[0] = <<>>
  BY <1>1, <1>2, WrittenPrefix DEF Prefixes
<1> QED BY <1>3 DEF e

\* More packets are sent.
LEMMA WrittenConcat ==
    ASSUME NEW s \in Seq(Packet), NEW t \in Seq(Packet)
    PROVE  Written(s \o t) = Written(s) \o Written(t)
<1> DEFINE c == s \o t
           n == Len(s)
<1>1. /\ c \in Seq(Packet) /\ n \in Nat /\ Len(t) \in Nat /\ Len(c) = n + Len(t)
      /\ \A k \in 1..n : c[k] = s[k]
      /\ \A k \in 1..Len(t) : c[n + k] = t[k] /\ t[k] \in Packet
  <2>1. /\ c \in Seq(Packet) /\ n \in Nat /\ Len(t) \in Nat /\ Len(c) = n + Len(t)
        /\ \A i \in 1..n + Len(t) : c[i] = IF i <= n THEN s[i] ELSE t[i - n]
    BY ConcatProperties, LenProperties
  <2>2. ASSUME NEW k \in 1..Len(t) PROVE c[n + k] = t[k] /\ t[k] \in Packet
    BY <2>1, ElementOfSeq
  <2>3. ASSUME NEW k \in 1..n PROVE c[k] = s[k]
    BY <2>1
  <2> QED BY <2>1, <2>2, <2>3
<1> HIDE DEF c
<1>2. PICK f : Prefixes(f, c, n + Len(t))
  BY <1>1, PrefixesExist
<1>3. PICK g : Prefixes(g, t, Len(t))
  BY PrefixesExist
<1> DEFINE h == [k \in 0..n |-> f[k]]
<1>4. Prefixes(h, s, n)
  <2>1. h \in [0..n -> Seq(Nat)] /\ h[0] = <<>>
    BY <1>1, <1>2 DEF Prefixes
  <2>2. ASSUME NEW k \in 1..n PROVE h[k] = And(h[k - 1], s[k])
    BY <1>1, <1>2 DEF Prefixes
  <2> HIDE DEF h
  <2> QED BY <2>1, <2>2 DEF Prefixes
<1>5. h[n] = f[n]
  BY <1>1
<1> HIDE DEF h
<1>6. Written(s) = f[n] /\ Written(t) = g[Len(t)] /\ Written(c) = f[n + Len(t)]
  BY <1>1, <1>2, <1>3, <1>4, <1>5, WrittenPrefix
<1> DEFINE Cat(k) == f[n] \o g[k]
           T == {k \in Nat : k <= Len(t) => f[n + k] = Cat(k)}
<1>7. f[n] \in Seq(Nat)
  BY <1>1, <1>2 DEF Prefixes
<1>8. 0 \in T
  <2>1. f[n] \o <<>> = f[n]
    BY <1>7, ConcatEmptySeq
  <2>2. f[n + 0] = Cat(0)
    BY <1>1, <1>3, <2>1 DEF Prefixes
  <2> HIDE DEF Cat
  <2> QED BY <2>2
<1>9. ASSUME NEW k \in Nat, k \in T PROVE k + 1 \in T
  <2> SUFFICES ASSUME k + 1 <= Len(t) PROVE f[n + (k + 1)] = Cat(k + 1)
    <3> HIDE DEF Cat
    <3> QED OBVIOUS
  <2> DEFINE m == t[k + 1]
  <2>1. /\ n + (k + 1) \in 1..n + Len(t) /\ k + 1 \in 1..Len(t) /\ k \in 0..Len(t) /\ k <= Len(t)
        /\ n + (k + 1) - 1 = n + k /\ k + 1 - 1 = k
    BY <1>1
  <2>2. c[n + (k + 1)] = m /\ m \in Packet
    BY <1>1, <2>1
  <2>3. f[n + (k + 1)] = And(f[n + k], m)
    BY <1>2, <2>1, <2>2 DEF Prefixes
  <2>4. g[k + 1] = And(g[k], m) /\ g[k] \in Seq(Nat)
    <3>1. g[k + 1] = And(g[k + 1 - 1], t[k + 1])
      BY <1>3, <2>1 DEF Prefixes
    <3>2. g[k] \in Seq(Nat)
      BY <1>3, <2>1 DEF Prefixes
    <3> QED BY <2>1, <3>1, <3>2
  <2>5. f[n + k] = Cat(k)
    <3> HIDE DEF Cat
    <3> QED BY <1>9, <2>1
  <2> HIDE DEF m
  <2>6. And(f[n] \o g[k], m) = f[n] \o And(g[k], m)
    BY <1>7, <2>2, <2>4, AndData
  <2> QED BY <2>3, <2>4, <2>5, <2>6
<1> HIDE DEF T
<1>10. Len(t) \in T
  BY <1>1, <1>8, <1>9, Induction
<1>11. f[n + Len(t)] = Cat(Len(t))
  <2> HIDE DEF Cat
  <2> QED BY <1>1, <1>10 DEF T
<1> QED BY <1>6, <1>11 DEF c

\* One packet is sent.
LEMMA WrittenOne == ASSUME NEW m \in Packet PROVE Written(<<m>>) = NumberIn(m)
<1> DEFINE s == <<m>>
<1>1. s \in Seq(Packet) /\ Len(s) = 1 /\ s[1] = m
  OBVIOUS
<1> HIDE DEF s
<1>2. PICK f : Prefixes(f, s, 1)
  BY <1>1, PrefixesExist
<1>3. f[1] = And(f[0], m) /\ f[0] = <<>> /\ f[0] \in Seq(Nat)
  BY <1>1, <1>2 DEF Prefixes
<1>4. And(f[0], m) = NumberIn(m)
  <2>1. And(f[0], m) = f[0] \o NumberIn(m) /\ NumberIn(m) \in Seq(Nat)
    BY <1>3, AndData
  <2> QED BY <1>3, <2>1, ConcatEmptySeq
<1> QED BY <1>1, <1>2, <1>3, <1>4, WrittenPrefix DEF s

\* A packet is handled.
LEMMA WrittenTail ==
    ASSUME NEW s \in Seq(Packet), s # <<>>
    PROVE  Written(s) = NumberIn(Head(s)) \o Written(Tail(s))
<1>1. Head(s) \in Packet /\ Tail(s) \in Seq(Packet) /\ <<Head(s)>> \in Seq(Packet)
  BY HeadTailProperties
<1>2. s = <<Head(s)>> \o Tail(s)
  OBVIOUS
<1> QED BY <1>1, <1>2, WrittenConcat, WrittenOne

\* A channel without A_WRTE has no data.
LEMMA WrittenNone ==
    ASSUME NEW s \in Seq(Packet), \A k \in 1..Len(s) : s[k].cmd # "WRTE"
    PROVE  Written(s) = <<>>
<1> DEFINE n == Len(s)
           f == [k \in 0..n |-> <<>>]
<1>1. n \in Nat
  OBVIOUS
<1>2. \A k \in 1..n : And(<<>>, s[k]) = <<>>
  BY DEF And
<1>3. Prefixes(f, s, n)
  <2>1. f \in [0..n -> Seq(Nat)] /\ f[0] = <<>>
    BY <1>1, EmptySeq
  <2>2. \A k \in 1..n : f[k] = And(f[k - 1], s[k])
    BY <1>1, <1>2
  <2> HIDE DEF f
  <2> QED BY <2>1, <2>2 DEF Prefixes
<1>4. f[n] = <<>>
  BY <1>1
<1> HIDE DEF f
<1> QED BY <1>3, <1>4, WrittenPrefix

-----------------------------------------------------------------------------
(* The variables of StreamPipe *)

\* The numbers of chunks, one by one.
LEMMA NumbersOf ==
    ASSUME NEW s \in Seq(Chunks)
    PROVE  /\ Numbers(s) \in Seq(Nat) /\ Len(Numbers(s)) = Len(s)
           /\ \A k \in 1..Len(s) : Numbers(s)[k] = s[k].n
<1>1. DOMAIN s = 1..Len(s) /\ Len(s) \in Nat /\ \A k \in 1..Len(s) : s[k] \in Chunks
  BY LenProperties, ElementOfSeq
<1>2. \A k \in 1..Len(s) : s[k].n \in Nat
  BY <1>1 DEF Chunks
<1>3. Numbers(s) = [k \in 1..Len(s) |-> s[k].n]
  BY <1>1 DEF Numbers
<1>4. [k \in 1..Len(s) |-> s[k].n] \in Seq(Nat)
  BY <1>1, <1>2, IsASeq
<1> QED BY <1>1, <1>3, <1>4

\* Those of two queues.
LEMMA NumbersConcat ==
    ASSUME NEW s \in Seq(Chunks), NEW t \in Seq(Chunks)
    PROVE  Numbers(s \o t) = Numbers(s) \o Numbers(t)
<1> DEFINE a == Numbers(s)
           b == Numbers(t)
           c == Numbers(s \o t)
<1>1. /\ s \o t \in Seq(Chunks) /\ Len(s \o t) = Len(s) + Len(t) /\ Len(s) \in Nat /\ Len(t) \in Nat
      /\ \A i \in 1..Len(s) + Len(t) : (s \o t)[i] = IF i <= Len(s) THEN s[i] ELSE t[i - Len(s)]
  BY ConcatProperties, LenProperties
<1>2. /\ a \in Seq(Nat) /\ Len(a) = Len(s) /\ \A k \in 1..Len(s) : a[k] = s[k].n
      /\ b \in Seq(Nat) /\ Len(b) = Len(t) /\ \A k \in 1..Len(t) : b[k] = t[k].n
      /\ c \in Seq(Nat) /\ Len(c) = Len(s) + Len(t)
      /\ \A k \in 1..Len(s) + Len(t) : c[k] = (s \o t)[k].n
  BY <1>1, NumbersOf
<1> HIDE DEF a, b, c
<1>3. /\ a \o b \in Seq(Nat) /\ Len(a \o b) = Len(s) + Len(t)
      /\ \A i \in 1..Len(s) + Len(t) : (a \o b)[i] = IF i <= Len(s) THEN a[i] ELSE b[i - Len(s)]
  <2>1. /\ a \o b \in Seq(Nat) /\ Len(a \o b) = Len(a) + Len(b)
        /\ \A i \in 1..Len(a) + Len(b) : (a \o b)[i] = IF i <= Len(a) THEN a[i] ELSE b[i - Len(a)]
    <3>1. a \in Seq(Nat) /\ b \in Seq(Nat)
      BY <1>2
    <3> QED BY <3>1, ConcatProperties
  <2>2. Len(a) = Len(s) /\ Len(b) = Len(t)
    BY <1>2
  <2> QED BY <2>1, <2>2
<1>4. ASSUME NEW i \in 1..Len(s) + Len(t) PROVE c[i] = (a \o b)[i]
  <2>1. CASE i <= Len(s)
    <3>1. i \in 1..Len(s)
      BY <1>1, <2>1
    <3> QED BY <1>1, <1>2, <1>3, <2>1, <3>1
  <2>2. CASE ~(i <= Len(s))
    <3>1. i - Len(s) \in 1..Len(t)
      BY <1>1, <2>2
    <3> QED BY <1>1, <1>2, <1>3, <2>2, <3>1
  <2> QED BY <2>1, <2>2
<1>5. c = a \o b
  BY <1>2, <1>3, <1>4, SeqEqual
<1> QED BY <1>5 DEF a, b, c

\* Those of no chunk, and of one.
LEMMA NumbersFew ==
    /\ Numbers(<<>>) = <<>>
    /\ \A c \in Chunks : Numbers(<<c>>) = <<c.n>>
<1>1. Numbers(<<>>) = <<>>
  BY EmptySeq, NumbersOf
<1>2. ASSUME NEW c \in Chunks PROVE Numbers(<<c>>) = <<c.n>>
  <2>1. <<c>> \in Seq(Chunks) /\ Len(<<c>>) = 1 /\ <<c>>[1] = c /\ c.n \in Nat
    BY DEF Chunks
  <2> DEFINE s == <<c>>
             a == Numbers(s)
  <2>s. s \in Seq(Chunks) /\ Len(s) = 1 /\ s[1] = c
    BY <2>1
  <2> HIDE DEF s
  <2>2. a \in Seq(Nat) /\ Len(a) = 1 /\ a[1] = c.n
    BY <2>s, NumbersOf
  <2> HIDE DEF a
  <2>3. <<c.n>> \in Seq(Nat) /\ Len(<<c.n>>) = 1 /\ <<c.n>>[1] = c.n
    BY <2>1
  <2>4. a = <<c.n>>
    BY <2>2, <2>3, SeqEqual
  <2> QED BY <2>4 DEF a, s
<1> QED BY <1>1, <1>2

\* A sequence in two parts.
LEMMA Parts ==
    ASSUME NEW a \in Seq(Nat), NEW b \in Seq(Nat)
    PROVE  /\ Len(a) \in 0..Len(a \o b) /\ (a # <<>> => Len(a) \in 1..Len(a \o b))
           /\ SubSeq(a \o b, 1, Len(a)) = a
           /\ SubSeq(a \o b, Len(a) + 1, Len(a \o b)) = b
<1>1. Len(a \o b) = Len(a) + Len(b) /\ Len(a) \in Nat /\ Len(b) \in Nat
  BY ConcatProperties, LenProperties
<1>2. (a = <<>> <=> Len(a) = 0) /\ (b = <<>> <=> Len(b) = 0)
  BY EmptySeq
<1>3. SubSeq(a \o b, 1, Len(a)) = a
  <2>1. CASE a = <<>>
    BY <1>1, <1>2, <2>1, SubSeqEmpty
  <2>2. CASE a # <<>>
    <3>1. 1 \in 1..Len(a) /\ Len(a) \in 1..Len(a)
      BY <1>1, <1>2, <2>2
    <3> QED BY <3>1, SubSeqOfConcat1, SubSeqFull
  <2> QED BY <2>1, <2>2
<1>4. SubSeq(a \o b, Len(a) + 1, Len(a) + Len(b)) = b
  <2>1. CASE b = <<>>
    BY <1>1, <1>2, <2>1, SubSeqEmpty
  <2>2. CASE b # <<>>
    <3>1. /\ Len(a) + 1 \in Len(a) + 1..Len(a) + Len(b) /\ Len(a) + Len(b) \in Len(a) + 1..Len(a) + Len(b)
          /\ Len(a) + 1 - Len(a) = 1 /\ Len(a) + Len(b) - Len(a) = Len(b)
      BY <1>1, <1>2, <2>2
    <3>2. SubSeq(a \o b, Len(a) + 1, Len(a) + Len(b)) = SubSeq(b, Len(a) + 1 - Len(a), Len(a) + Len(b) - Len(a))
      BY <3>1, SubSeqOfConcat2
    <3> QED BY <3>1, <3>2, SubSeqFull
  <2> QED BY <2>1, <2>2
<1> QED BY <1>1, <1>2, <1>3, <1>4

\* Which functions these are.
LEMMA PipeAt ==
    /\ PipeEnd = [q \in Side |-> PipeEnd[q]] /\ PipeHung = [q \in Side |-> PipeHung[q]]
    /\ PipeTook = [q \in Side |-> PipeTook[q]] /\ PipeTransit = [q \in Side |-> PipeTransit[q]]
    /\ PipeGiven = [q \in Side |-> PipeGiven[q]]
    /\ \A q \in Side : /\ PipeEnd[q] = EndOf(sock[q][1]) /\ PipeHung[q] = (fd[q][1].hup # "no")
                       /\ PipeTook[q] = fd[q][1].got /\ PipeTransit[q] = InTransit(q)
                       /\ PipeGiven[q] = Numbers(fd[q][1].out)
BY DEF PipeEnd, PipeHung, PipeTook, PipeTransit, PipeGiven

\* The same after a step.
LEMMA PipeAtNext ==
    /\ PipeEnd' = [q \in Side |-> PipeEnd'[q]] /\ PipeHung' = [q \in Side |-> PipeHung'[q]]
    /\ PipeTook' = [q \in Side |-> PipeTook'[q]] /\ PipeTransit' = [q \in Side |-> PipeTransit'[q]]
    /\ PipeGiven' = [q \in Side |-> PipeGiven'[q]]
    /\ \A q \in Side : /\ PipeEnd'[q] = EndOf(sock'[q][1]) /\ PipeHung'[q] = (fd'[q][1].hup # "no")
                       /\ PipeTook'[q] = fd'[q][1].got /\ PipeTransit'[q] = InTransit(q)'
                       /\ PipeGiven'[q] = Numbers(fd'[q][1].out)
BY DEF PipeEnd, PipeHung, PipeTook, PipeTransit, PipeGiven

\* What they are at one side, before and after.
LEMMA PipeHere ==
    ASSUME NEW p \in Side
    PROVE  /\ PipeEnd[p] = EndOf(sock[p][1]) /\ PipeEnd'[p] = EndOf(sock'[p][1])
           /\ PipeHung[p] = (fd[p][1].hup # "no") /\ PipeHung'[p] = (fd'[p][1].hup # "no")
           /\ PipeTook[p] = fd[p][1].got /\ PipeTook'[p] = fd'[p][1].got
           /\ PipeGiven[p] = Numbers(fd[p][1].out) /\ PipeGiven'[p] = Numbers(fd'[p][1].out)
BY PipeAt, PipeAtNext

\* A variable changes at one side, at the other, at both, or not at all.
Frame(F, G, p) ==
    /\ G[Other(p)] = F[Other(p)] => G = [F EXCEPT ![p] = G[p]]
    /\ G[p] = F[p] => G = [F EXCEPT ![Other(p)] = G[Other(p)]]
    /\ G = [F EXCEPT ![Other(p)] = G[Other(p)], ![p] = G[p]]
    /\ G[p] = F[p] /\ G[Other(p)] = F[Other(p)] => G = F

\* The variables of StreamPipe are functions of the two sides.
LEMMA PipeFuns ==
    ASSUME NEW F, F = [q \in Side |-> F[q]], NEW G, G = [q \in Side |-> G[q]], NEW p \in Side
    PROVE  Frame(F, G, p)
<1>1. Other(p) \in Side /\ Other(p) # p /\ \A q \in Side : q = p \/ q = Other(p)
  BY DEF Side, Other
<1> QED BY <1>1 DEF Frame

\* So it is with the variables of StreamPipe.
LEMMA PipeFrames ==
    ASSUME NEW p \in Side
    PROVE  /\ Frame(PipeEnd, PipeEnd', p) /\ Frame(PipeHung, PipeHung', p) /\ Frame(PipeTook, PipeTook', p)
           /\ Frame(PipeTransit, PipeTransit', p) /\ Frame(PipeGiven, PipeGiven', p)
BY PipeAt, PipeAtNext, PipeFuns

\* What the application at the far end of p sees, and whether that end is open, is as before.
FarKept(p) ==
    /\ PipeEnd'[Other(p)] = PipeEnd[Other(p)] /\ PipeHung'[Other(p)] = PipeHung[Other(p)]
    /\ PipeTook'[Other(p)] = PipeTook[Other(p)] /\ PipeGiven'[Other(p)] = PipeGiven[Other(p)]

\* A step of side p that StreamPipe does not see.
LEMMA StepNone ==
    ASSUME NEW p \in Side, FarKept(p),
           PipeEnd'[p] = PipeEnd[p], PipeHung'[p] = PipeHung[p], PipeTook'[p] = PipeTook[p],
           PipeGiven'[p] = PipeGiven[p], PipeTransit'[p] = PipeTransit[p],
           PipeTransit'[Other(p)] = PipeTransit[Other(p)]
    PROVE  UNCHANGED Pipe!pipe
BY PipeFrames DEF FarKept, Frame, Pipe!pipe

\* An end opens.
LEMMA StepOpen ==
    ASSUME NEW p \in Side, FarKept(p), PipeEnd[p] = "none", PipeEnd'[p] = "open",
           p = "host" \/ PipeEnd[Other(p)] # "none",
           PipeHung'[p] = PipeHung[p], PipeTook'[p] = PipeTook[p],
           PipeGiven'[p] = PipeGiven[p], PipeTransit'[p] = PipeTransit[p],
           PipeTransit'[Other(p)] = PipeTransit[Other(p)]
    PROVE  Pipe!Next
BY PipeFrames DEF FarKept, Frame, Pipe!Ends, Pipe!Far, Side, Other, Pipe!Open, Pipe!Next

\* An application hangs up.
LEMMA StepHangup ==
    ASSUME NEW p \in Side, FarKept(p), PipeEnd[p] \in {"open", "draining"}, PipeEnd'[p] = PipeEnd[p],
           PipeHung'[p] = TRUE, PipeTook'[p] = PipeTook[p],
           PipeGiven'[p] = PipeGiven[p], PipeTransit'[p] = PipeTransit[p],
           PipeTransit'[Other(p)] = PipeTransit[Other(p)]
    PROVE  Pipe!Next
BY PipeFrames DEF FarKept, Frame, Pipe!Ends, Side, Pipe!Hangup, Pipe!Next

\* A chunk is taken from the application and passed on, or lost.
LEMMA StepTake ==
    ASSUME NEW p \in Side, FarKept(p), PipeEnd[p] \in {"open", "draining"}, PipeEnd'[p] = PipeEnd[p],
           PipeHung'[p] = PipeHung[p], PipeTook'[p] = PipeTook[p] + 1, PipeGiven'[p] = PipeGiven[p],
           PipeTransit'[Other(p)] = PipeTransit[Other(p)],
           \/ PipeTransit'[p] = Append(PipeTransit[p], PipeTook'[p])
           \/ Pipe!MayLose(p) /\ PipeTransit'[p] = PipeTransit[p]
    PROVE  Pipe!Next
BY PipeFrames DEF FarKept, Frame, Pipe!Ends, Side, Pipe!Passed, Pipe!Take, Pipe!Next

\* The application hung up and its end closes, with a still on its way to it.
LEMMA StepQuit ==
    ASSUME NEW p \in Side, FarKept(p), PipeHung[p], PipeHung'[p] = PipeHung[p],
           NEW a \in Seq(Nat), NEW b \in Seq(Nat), PipeTransit[Other(p)] = a \o b,
           PipeTransit'[Other(p)] = a, PipeEnd'[p] = Pipe!After(a),
           PipeEnd[p] = "open" \/ (PipeEnd[p] = "draining" /\ a = <<>>),
           PipeGiven'[p] = PipeGiven[p],
           \/ PipeTook'[p] = PipeTook[p] /\ PipeTransit'[p] = PipeTransit[p]
           \/ /\ PipeTook'[p] = PipeTook[p] + 1
              /\ \/ PipeTransit'[p] = Append(PipeTransit[p], PipeTook'[p])
                 \/ Pipe!MayLose(p) /\ PipeTransit'[p] = PipeTransit[p]
    PROVE  Pipe!Next
<1> DEFINE o == Other(p)
           k == Len(a)
<1>1. /\ PipeEnd' = [PipeEnd EXCEPT ![p] = Pipe!After(a)] /\ PipeHung' = PipeHung
      /\ PipeTook' = [PipeTook EXCEPT ![p] = PipeTook'[p]] /\ PipeGiven' = PipeGiven
      /\ PipeTook'[p] = PipeTook[p] => PipeTook' = PipeTook
      /\ PipeTransit'[p] = PipeTransit[p] => PipeTransit' = [PipeTransit EXCEPT ![o] = a]
      /\ PipeTransit' = [PipeTransit EXCEPT ![o] = a, ![p] = PipeTransit'[p]]
  BY PipeFrames DEF FarKept, Frame
<1>2. p \in Pipe!Ends /\ Pipe!Far(p) = o /\ o # p /\ p \in Side /\ o \in Side
  BY DEF Pipe!Ends, Pipe!Far, Side, Other
<1>3. k \in 0..Len(PipeTransit[o]) /\ SubSeq(PipeTransit[o], 1, k) = a /\ (a = <<>> => k = 0)
  BY Parts, EmptySeq
<1>6. [PipeTransit EXCEPT ![o] = a, ![p] = Append(@, PipeTook'[p])]
          = [PipeTransit EXCEPT ![o] = a, ![p] = Append(PipeTransit[p], PipeTook'[p])]
  BY <1>2, PipeAt
<1>7. \/ PipeTook' = PipeTook /\ PipeTransit' = [PipeTransit EXCEPT ![o] = a]
      \/ /\ PipeTook' = [PipeTook EXCEPT ![p] = PipeTook[p] + 1]
         /\ \/ PipeTransit' = [PipeTransit EXCEPT ![o] = a, ![p] = Append(@, PipeTook'[p])]
            \/ Pipe!MayLose(p) /\ PipeTransit' = [PipeTransit EXCEPT ![o] = a]
  BY <1>1, <1>6
<1>4. Pipe!Quit(p, k)
  BY <1>1, <1>2, <1>3, <1>7 DEF Pipe!Quit
<1> QED BY <1>2, <1>3, <1>4 DEF Pipe!Next

\* The other end is gone and this one closes.
LEMMA StepFollow ==
    ASSUME NEW p \in Side, FarKept(p), PipeEnd[p] = "open", PipeEnd[Other(p)] # "open",
           PipeEnd'[p] = Pipe!After(PipeTransit[Other(p)]),
           PipeHung'[p] = PipeHung[p], PipeTook'[p] = PipeTook[p],
           PipeGiven'[p] = PipeGiven[p], PipeTransit'[p] = PipeTransit[p],
           PipeTransit'[Other(p)] = PipeTransit[Other(p)]
    PROVE  Pipe!Next
BY PipeFrames DEF FarKept, Frame, Pipe!Ends, Pipe!Far, Side, Other, Pipe!Follow, Pipe!Next

\* The application is given a.
LEMMA StepGive ==
    ASSUME NEW p \in Side, FarKept(p), PipeEnd[p] \in {"open", "draining"},
           NEW a \in Seq(Nat), NEW b \in Seq(Nat), a # <<>>, PipeTransit[Other(p)] = a \o b,
           PipeTransit'[Other(p)] = b, PipeGiven'[p] = PipeGiven[p] \o a,
           PipeEnd'[p] = (IF PipeEnd[p] = "draining" THEN Pipe!After(b) ELSE PipeEnd[p]),
           PipeHung'[p] = PipeHung[p], PipeTook'[p] = PipeTook[p], PipeTransit'[p] = PipeTransit[p]
    PROVE  Pipe!Next
<1> DEFINE o == Other(p)
           k == Len(a)
<1>1. /\ PipeEnd' = [PipeEnd EXCEPT ![p] = PipeEnd'[p]] /\ PipeHung' = PipeHung
      /\ PipeTook' = PipeTook /\ PipeGiven' = [PipeGiven EXCEPT ![p] = PipeGiven'[p]]
      /\ PipeTransit' = [PipeTransit EXCEPT ![o] = b]
  BY PipeFrames DEF FarKept, Frame
<1>2. p \in Pipe!Ends /\ Pipe!Far(p) = o /\ o # p /\ p \in Side /\ o \in Side
  BY DEF Pipe!Ends, Pipe!Far, Side, Other
<1>3. /\ k \in 1..Len(PipeTransit[o]) /\ SubSeq(PipeTransit[o], 1, k) = a
      /\ SubSeq(PipeTransit[o], k + 1, Len(PipeTransit[o])) = b
  BY Parts
<1>4. /\ [PipeGiven EXCEPT ![p] = @ \o a] = [PipeGiven EXCEPT ![p] = PipeGiven[p] \o a]
      /\ [PipeEnd EXCEPT ![p] = IF @ = "draining" THEN Pipe!After(b) ELSE @]
             = [PipeEnd EXCEPT ![p] = IF PipeEnd[p] = "draining" THEN Pipe!After(b) ELSE PipeEnd[p]]
  BY <1>2, PipeAt
<1>5. Pipe!Give(p, k)
  BY <1>1, <1>2, <1>3, <1>4 DEF Pipe!Give
<1> QED BY <1>2, <1>3, <1>5 DEF Pipe!Next

-----------------------------------------------------------------------------
(* One stream *)

\* One stream has one id, and only the host opens it.
LEMMA OneId == ASSUME OneStream PROVE Ids = {1} /\ Openers = {"host"}
BY DEF OneStream, Ids

\* A new end, of the host or for its A_OPEN.
Begins(p, n, ms) ==
    /\ next[p] = 1 /\ next'[p] = 2 /\ RunsOf(p, 1)' = {} /\ sock'[p][1].st = "open"
    /\ \E m \in Packet : ms = <<m>> /\
          \/ p = "host" /\ ~n /\ m.cmd = "OPEN" /\ sock'[p][1].peer = 0
          \/ n /\ Got(p).cmd = "OPEN" /\ m.cmd = "OKAY" /\ sock'[p][1].peer # 0

\* An end goes on or closes.
GoesOn(p, n, ms) ==
    /\ next'[p] = next[p]
    /\ sock'[p][1].st = "open" => Open(p, 1)
    /\ \A m \in Els(ms) :
          /\ m.cmd \in {"OKAY", "WRTE", "CLSE"}
          /\ m.cmd # "CLSE" \/ ~n => Open(p, 1) /\ Peer(p, 1) # 0
          /\ m.cmd = "CLSE" => sock'[p][1].st # "open"
    /\ ClseLast(ms)
    /\ sock'[p][1].st = "open" =>
          /\ sock'[p][1].peer = 0 => Peer(p, 1) = 0
          /\ n /\ sock'[p][1].peer = 0 => Got(p).cmd \in {"WRTE", "CLSE"} /\ ms = <<>>
    /\ RunsOf(p, 1)' \subseteq RunsOf(p, 1) \/ (n /\ Got(p).cmd = "WRTE")

\* What side p does with its one asocket.
Plays(p, n, ms) ==
    /\ OnlyAt(p, 1) /\ Kept /\ Moved(p, n, ms) /\ next'[Other(p)] = next[Other(p)]
    /\ n => Got(p).cmd # "CNXN"
    /\ Begins(p, n, ms) \/ GoesOn(p, n, ms)

\* A sequence of at most one packet.
LEMMA FewMsgs ==
    /\ <<>> \in Seq(Packet) /\ Els(<<>>) = {} /\ ClseLast(<<>>)
    /\ \A m \in Packet : <<m>> \in Seq(Packet) /\ Els(<<m>>) = {m} /\ ClseLast(<<m>>)
<1>1. <<>> \in Seq(Packet) /\ Els(<<>>) = {} /\ ClseLast(<<>>)
  BY ElsSmall DEF ClseLast
<1>2. ASSUME NEW m \in Packet PROVE <<m>> \in Seq(Packet) /\ Els(<<m>>) = {m} /\ ClseLast(<<m>>)
  BY ElsSmall DEF ClseLast
<1> QED BY <1>1, <1>2

\* Every step of Works is one of these.
LEMMA PlaysView ==
    ASSUME OneStream, IInv, StatusInv, ShapeInv, Begun, NEW p \in Side, Works(p)
    PROVE  \E n \in BOOLEAN, ms \in Seq(Packet) : Plays(p, n, ms)
<1>q. TypeOK /\ FreshInv /\ Ids = {1} /\ Openers = {"host"}
  BY OneId DEF IInv, StatusInv
<1>o. online[p] /\ Other(p) \in Side /\ Other(p) # p
  BY Sides DEF Begun
<1>n. next[p] \in Nat \ {0} /\ SockShape(sock[p][1]) /\ next \in [Side -> Nat \ {0}]
  BY <1>q DEF TypeOK, ShapeInv
<1>f. /\ next[p] = 1 => sock[p][1].st = "none"
      /\ Open(p, 1) => next[p] # 1
  BY <1>q, <1>n DEF FreshInv, Open
<1>g. ASSUME NEW n \in BOOLEAN, NEW ms, Moved(p, n, ms), n
      PROVE  Got(p) \in Els(net[Other(p)]) /\ Shape(Got(p)) /\ Got(p).cmd # "CNXN" /\ (Got(p).cmd = "OPEN" => p = "device")
  BY <1>g, <1>o, <1>q, MovedEls, Sides DEF ShapeInv, Begun, Quiet, OpenFirst
<1>k. next' = next => next'[p] = next[p] /\ next'[Other(p)] = next[Other(p)]
  OBVIOUS
<1>1. ASSUME Idles(p, 1) PROVE Plays(p, FALSE, <<>>)
  <2>1. Moved(p, FALSE, <<>>)
    BY <1>q, <1>1, ConcatEmptySeq, FewMsgs DEF TypeOK, Idles, Moved
  <2>2. GoesOn(p, FALSE, <<>>)
    BY <1>1, <1>k, FewMsgs DEF Idles, GoesOn, SameRun
  <2> QED BY <1>1, <1>k, <2>1, <2>2 DEF Idles, Plays
<1>2. ASSUME NEW m \in Packet, Says(p, 1, m) PROVE Plays(p, FALSE, <<m>>)
  <2>1. GoesOn(p, FALSE, <<m>>)
    BY <1>2, <1>k, FewMsgs DEF Says, GoesOn, SameRun
  <2> QED BY <1>2, <1>k, <2>1 DEF Says, Plays
<1>3. ASSUME NEW n \in BOOLEAN, NEW ms \in Seq(Packet), Leaves(p, 1, n, ms) PROVE Plays(p, n, ms)
  BY <1>g, <1>k, <1>3 DEF Leaves, GoesOn, SameRun, GoneAt, Plays
<1>4. ASSUME NEW m \in Packet, Dials(p, 1, m) PROVE Plays(p, FALSE, <<m>>)
  <2>1. next'[p] = 2 /\ next'[Other(p)] = next[Other(p)] /\ p = "host"
    BY <1>4, <1>q, <1>o, <1>n DEF Dials
  <2>2. Begins(p, FALSE, <<m>>)
    BY <1>4, <2>1 DEF Dials, Begins
  <2> QED BY <1>4, <2>1, <2>2 DEF Dials, Plays
<1>5. ASSUME NEW m \in Packet, Accepts(p, 1, m) PROVE Plays(p, TRUE, <<m>>)
  <2>1. next'[p] = 2 /\ next'[Other(p)] = next[Other(p)]
    BY <1>5, <1>q, <1>o, <1>n DEF Accepts
  <2>2. Begins(p, TRUE, <<m>>)
    BY <1>5, <2>1 DEF Accepts, Begins
  <2> QED BY <1>5, <1>g, <2>1, <2>2 DEF Accepts, Plays
<1>6. ASSUME NEW m \in Packet, Refuses(p, m) PROVE Plays(p, TRUE, <<m>>)
  <2>1. sock' = sock /\ fd' = fd /\ Moved(p, TRUE, <<m>>) /\ Kept /\ next' = next /\ m.cmd = "CLSE"
    BY <1>6 DEF Refuses
  <2>2. ~Open(p, 1)
    BY <1>f, <1>g, <1>q, <1>6, <2>1 DEF Begun, OpenFirst, Other, Refuses, Shape
  <2>3. GoesOn(p, TRUE, <<m>>)
    BY <1>k, <2>1, <2>2, FewMsgs DEF GoesOn, Open, RunsOf
  <2>4. OnlyAt(p, 1)
    BY <2>1 DEF OnlyAt
  <2> QED BY <1>g, <1>k, <2>1, <2>3, <2>4 DEF Plays
<1>7. ASSUME Resumes(p, 1) PROVE Plays(p, TRUE, <<>>)
  BY <1>g, <1>k, <1>7, FewMsgs DEF Resumes, GoesOn, SameRun, Plays
<1>8. ASSUME NEW ms \in Seq(Packet), Takes(p, 1, ms) PROVE Plays(p, TRUE, ms)
  <2>1. Moved(p, TRUE, ms) /\ Open(p, 1) /\ Peer(p, 1) # 0 /\ Got(p).cmd = "WRTE"
    BY <1>8 DEF Takes
  <2>2. ms = <<>> \/ \E m \in Packet : ms = <<m>> /\ m.cmd = "OKAY"
    BY <1>8 DEF Takes
  <2>3. ClseLast(ms) /\ \A m \in Els(ms) : m.cmd = "OKAY"
    BY <2>2, FewMsgs
  <2>4. GoesOn(p, TRUE, ms)
    BY <1>8, <1>k, <2>1, <2>3 DEF Takes, GoesOn, SameRun
  <2> QED BY <1>8, <1>g, <1>k, <2>4 DEF Takes, Plays
<1>9. ASSUME Drops(p) PROVE Plays(p, TRUE, <<>>)
  <2>1. sock' = sock /\ fd' = fd /\ Moved(p, TRUE, <<>>) /\ Kept /\ next' = next
    BY <1>9 DEF Drops
  <2>2. Open(p, 1) /\ Peer(p, 1) = 0 => Got(p).cmd \in {"WRTE", "CLSE"}
    BY <1>9, <1>o, <1>q DEF Drops
  <2>3. GoesOn(p, TRUE, <<>>)
    BY <1>k, <2>1, <2>2, FewMsgs DEF GoesOn, Open, RunsOf, Peer
  <2>4. OnlyAt(p, 1)
    BY <2>1 DEF OnlyAt
  <2> QED BY <1>g, <1>k, <2>1, <2>3, <2>4 DEF Plays
<1> QED
  <2>1. CASE \E i \in Ids : Idles(p, i)
    BY <1>1, <1>q, <2>1, FewMsgs
  <2>2. CASE \E i \in Ids, m \in Packet : Says(p, i, m)
    BY <1>2, <1>q, <2>2, FewMsgs
  <2>3. CASE \E i \in Ids, n \in BOOLEAN, ms \in Seq(Packet) : Leaves(p, i, n, ms)
    BY <1>3, <1>q, <2>3
  <2>4. CASE \E i \in Ids, m \in Packet : Dials(p, i, m) \/ Accepts(p, i, m)
    BY <1>4, <1>5, <1>q, <2>4, FewMsgs
  <2>5. CASE \E m \in Packet : Refuses(p, m)
    BY <1>6, <2>5, FewMsgs
  <2>6. CASE \E i \in Ids : Resumes(p, i)
    BY <1>7, <1>q, <2>6, FewMsgs
  <2>7. CASE \E i \in Ids, ms \in Seq(Packet) : Takes(p, i, ms)
    BY <1>8, <1>q, <2>7
  <2>8. CASE Drops(p)
    BY <1>9, <2>8, FewMsgs
  <2> QED BY <2>1, <2>2, <2>3, <2>4, <2>5, <2>6, <2>7, <2>8 DEF Works

\* Undialled, for what side p does.
LEMMA UndialledPlays ==
    ASSUME OneStream, IInv, StatusInv, Begun, NEW p \in Side, NEW n \in BOOLEAN, NEW ms \in Seq(Packet),
           Plays(p, n, ms)
    PROVE  Undialled'
<1> SUFFICES ASSUME next'["host"] = 1
             PROVE  net'["host"] = <<>> /\ net'["device"] = <<>> /\ next'["device"] = 1
  BY DEF Undialled
<1>q. Ids = {1} /\ FreshInv /\ TypeOK
  BY OneId DEF IInv, StatusInv
<1>1. Begins(p, n, ms) => p = "device"
  BY Sides DEF Begins
<1>2. next["host"] = 1 /\ (GoesOn(p, n, ms) => next'["device"] = next["device"])
  BY <1>1, Sides DEF Plays, GoesOn
<1>3. net["host"] = <<>> /\ net["device"] = <<>> /\ next["device"] = 1
  BY <1>2 DEF Begun, Undialled
<1>4. ~n /\ net'[Other(p)] = <<>>
  BY <1>3, Sides DEF Plays, Moved
<1>5. GoesOn(p, n, ms)
  BY <1>1, <1>4 DEF Plays, Begins
<1>6. ~Open(p, 1)
  BY <1>q, <1>2, <1>3, Sides DEF FreshInv, Open
<1>7. Els(ms) = {}
  BY <1>4, <1>5, <1>6 DEF GoesOn
<1>8. ms = <<>>
  BY <1>7, ElsSmall
<1>9. net'[p] = <<>>
  BY <1>3, <1>8, Sides DEF Plays, Moved
<1> QED BY <1>2, <1>3, <1>4, <1>5, <1>9, Sides

\* OpenFirst.
LEMMA OpenFirstPlays ==
    ASSUME OneStream, IInv, StatusInv, ShapeInv, DeviceIds, Begun, NEW p \in Side, NEW n \in BOOLEAN,
           NEW ms \in Seq(Packet), Plays(p, n, ms)
    PROVE  OpenFirst'
<1>q. Ids = {1} /\ FreshInv /\ TypeOK /\ up
  BY OneId DEF IInv, StatusInv, Begun
<1>m. Moved(p, n, ms)
  BY DEF Plays
<1>e. /\ Els(net'[p]) \subseteq Els(net[p]) \cup Els(ms)
      /\ Els(net'[Other(p)]) \subseteq Els(net[Other(p)])
  BY <1>q, <1>m, MovedEls
<1>1. ASSUME NEW m \in Els(ms), m.cmd = "OPEN" PROVE Begins(p, n, ms) /\ p = "host" /\ ~n /\ ms = <<m>> /\ next["host"] = 1
  <2>1. Begins(p, n, ms)
    BY <1>1 DEF Plays, GoesOn
  <2>2. PICK x \in Packet : ms = <<x>> /\
          \/ p = "host" /\ ~n /\ x.cmd = "OPEN" /\ sock'[p][1].peer = 0
          \/ n /\ Got(p).cmd = "OPEN" /\ x.cmd = "OKAY" /\ sock'[p][1].peer # 0
    BY <2>1 DEF Begins
  <2>3. m = x
    BY <2>2, FewMsgs
  <2> QED BY <1>1, <2>1, <2>2, <2>3 DEF Begins
<1>2. ASSUME NEW m \in Els(net'["device"]) PROVE m.cmd # "OPEN"
  BY <1>1, <1>2, <1>e, Sides DEF Begun, OpenFirst
<1>3. ASSUME NEW m \in Els(net'["host"]), m.cmd = "OPEN", m \in Els(ms), p = "host"
      PROVE  next'["device"] = 1 /\ net'["host"] = <<m>> /\ net'["device"] = <<>>
  BY <1>m, <1>q, <1>1, <1>3, Sides DEF Begun, Undialled, Plays, Moved
<1>4. ASSUME NEW m \in Els(net'["host"]), m.cmd = "OPEN", m \in Els(net["host"])
      PROVE  next'["device"] = 1 /\ net'["host"] = <<m>> /\ net'["device"] = <<>>
  <2>1. net["host"] = <<m>> /\ net["device"] = <<>> /\ next["device"] = 1
    BY <1>4 DEF Begun, OpenFirst
  <2>2. ~n
    <3>1. CASE p = "host"
      BY <1>m, <2>1, <3>1, Sides DEF Moved
    <3>2. CASE p = "device" /\ n
      <4>1. Tail(<<m>>) = <<>>
        OBVIOUS
      <4>2. net'["host"] = <<>>
        BY <1>m, <2>1, <3>2, <4>1, Sides DEF Moved
      <4> QED BY <1>4, <4>2, ElsSmall
    <3> QED BY <3>1, <3>2, Sides
  <2>3. ~(Open(p, 1) /\ Peer(p, 1) # 0)
    <3>1. CASE p = "host"
      BY <1>q, <2>1, <3>1, Sides DEF DeviceIds, Peer, TypeOK, Socket
    <3>2. CASE p = "device"
      BY <1>q, <2>1, <3>2, Sides DEF FreshInv, Open
    <3> QED BY <3>1, <3>2, Sides
  <2>4. CASE Begins(p, n, ms)
    BY <1>4, <2>2, <2>4, ElsSmall DEF Begins, Begun, Undialled
  <2>5. CASE GoesOn(p, n, ms)
    <3>1. Els(ms) = {}
      BY <2>2, <2>3, <2>5 DEF GoesOn
    <3>2. ms = <<>>
      BY <3>1, ElsSmall
    <3>3. net[p] \o <<>> = net[p]
      BY <1>q, ConcatEmptySeq DEF TypeOK
    <3>4. net'[p] = net[p] /\ net'[Other(p)] = net[Other(p)]
      BY <1>q, <1>m, <2>2, <3>2, <3>3 DEF Moved
    <3>5. next'["device"] = next["device"]
      BY <2>5, Sides DEF Plays, GoesOn
    <3> QED BY <2>1, <3>4, <3>5, Sides
  <2> QED BY <2>4, <2>5 DEF Plays
<1>5. ASSUME NEW m \in Els(net'["host"]), m.cmd = "OPEN"
      PROVE  next'["device"] = 1 /\ net'["host"] = <<m>> /\ net'["device"] = <<>>
  BY <1>1, <1>3, <1>4, <1>5, <1>e, Sides
<1> QED BY <1>2, <1>5 DEF OpenFirst

\* ClseFinal.
LEMMA ClseFinalPlays ==
    ASSUME OneStream, IInv, StatusInv, Begun, NEW p \in Side, NEW n \in BOOLEAN,
           NEW ms \in Seq(Packet), Plays(p, n, ms), NEW q \in Side
    PROVE  ClseFinal(q)'
<1>q. Ids = {1} /\ FreshInv /\ TypeOK /\ up /\ ClseFinal(q) /\ net[q] \in Seq(Packet) /\ Len(net[q]) \in Nat
  BY OneId, Sides, LenProperties DEF IInv, StatusInv, Begun, TypeOK
<1>m. Moved(p, n, ms)
  BY DEF Plays
<1> SUFFICES ASSUME NEW k \in 1..Len(net'[q]), net'[q][k].cmd = "CLSE"
             PROVE  /\ sock'[q][1].st # "open"
                    /\ \A l \in 1..Len(net'[q]) : k < l => net'[q][l].cmd # "WRTE"
  BY DEF ClseFinal, Open
<1>1. CASE q # p
  <2>0. q = Other(p) /\ sock'[q][1] = sock[q][1]
    BY <1>1, <1>q, Sides DEF Plays, OnlyAt
  <2>1. CASE net'[q] = net[q]
    BY <1>q, <2>0, <2>1 DEF ClseFinal, Open
  <2>2. CASE net'[q] = Tail(net[q]) /\ net[q] # <<>>
    <3>1. Len(net'[q]) = Len(net[q]) - 1 /\ \A l \in 1..Len(net[q]) - 1 : net'[q][l] = net[q][l + 1]
      BY <1>q, <2>2, HeadTailProperties
    <3>2. k + 1 \in 1..Len(net[q]) /\ net[q][k + 1].cmd = "CLSE"
      BY <1>q, <3>1
    <3>3. ASSUME NEW l \in 1..Len(net'[q]), k < l PROVE net'[q][l].cmd # "WRTE"
      <4>1. l + 1 \in 1..Len(net[q]) /\ k + 1 < l + 1 /\ net'[q][l] = net[q][l + 1]
        BY <1>q, <3>1, <3>3
      <4> QED BY <1>q, <3>2, <4>1 DEF ClseFinal
    <3>4. ~Open(q, 1)
      BY <1>q, <3>2 DEF ClseFinal
    <3> QED BY <2>0, <3>3, <3>4 DEF Open
  <2> QED BY <1>m, <2>0, <2>1, <2>2 DEF Moved
<1>2. CASE q = p
  <2>1. /\ net'[p] = net[p] \o ms /\ Len(ms) \in Nat /\ Len(net'[p]) = Len(net[p]) + Len(ms)
        /\ \A l \in 1..Len(net[p]) + Len(ms) : net'[p][l] = IF l <= Len(net[p]) THEN net[p][l] ELSE ms[l - Len(net[p])]
    BY <1>m, <1>q, <1>2, ConcatProperties, LenProperties DEF Moved
  <2>2. ASSUME NEW l \in 1..Len(net'[p]), ~(l <= Len(net[p]))
        PROVE  l - Len(net[p]) \in 1..Len(ms) /\ net'[p][l] = ms[l - Len(net[p])] /\ ms[l - Len(net[p])] \in Els(ms)
    <3>1. Len(net[p]) \in Nat /\ l \in 1..Len(net[p]) + Len(ms)
      BY <1>q, <2>1, <2>2
    <3>2. l - Len(net[p]) \in 1..Len(ms) /\ net'[p][l] = ms[l - Len(net[p])]
      BY <2>1, <2>2, <3>1
    <3> QED BY <3>2 DEF Els
  <2>3. CASE k <= Len(net[p])
    <3>1. k \in 1..Len(net[p]) /\ net[p][k].cmd = "CLSE" /\ net[p][k] \in Els(net[p]) /\ net[p] # <<>>
      BY <1>q, <1>2, <2>1, <2>3 DEF Els
    <3>2. ~Open(p, 1)
      BY <1>q, <1>2, <3>1 DEF ClseFinal
    <3>3. CASE Begins(p, n, ms)
      BY <1>m, <1>q, <3>1, <3>3, MovedEls, Sides DEF Begun, Undialled, OpenFirst, Begins
    <3>4. CASE GoesOn(p, n, ms)
      <4>1. sock'[p][1].st # "open" /\ \A m \in Els(ms) : m.cmd # "WRTE"
        BY <3>2, <3>4 DEF GoesOn
      <4>2. ASSUME NEW l \in 1..Len(net'[p]), k < l PROVE net'[p][l].cmd # "WRTE"
        BY <1>q, <1>2, <2>1, <2>2, <3>1, <4>1, <4>2 DEF ClseFinal
      <4> QED BY <1>2, <4>1, <4>2
    <3> QED BY <3>3, <3>4 DEF Plays
  <2>4. CASE ~(k <= Len(net[p]))
    <3> DEFINE x == k - Len(net[p])
    <3>1. x \in 1..Len(ms) /\ ms[x].cmd = "CLSE" /\ ms[x] \in Els(ms)
      BY <1>2, <2>2, <2>4
    <3>2. GoesOn(p, n, ms)
      <4>1. CASE Begins(p, n, ms)
        <5>1. PICK m \in Packet : ms = <<m>> /\ m.cmd \in {"OPEN", "OKAY"}
          BY <4>1 DEF Begins
        <5>2. ms[x] = m
          BY <3>1, <5>1, FewMsgs
        <5> QED BY <3>1, <5>1, <5>2
      <4> QED BY <4>1 DEF Plays
    <3>3. sock'[p][1].st # "open"
      BY <3>1, <3>2 DEF GoesOn
    <3>4. ASSUME NEW l \in 1..Len(net'[p]), k < l PROVE net'[p][l].cmd # "WRTE"
      <4>1. ~(l <= Len(net[p])) /\ x < l - Len(net[p]) /\ x \in Nat /\ Len(net[p]) \in Nat
        BY <1>q, <1>2, <2>4, <3>4, <3>1
      <4>2. l - Len(net[p]) \in 1..Len(ms)
        BY <2>2, <4>1
      <4> QED BY <3>1, <3>2, <4>1, <4>2 DEF GoesOn, ClseLast
    <3> QED BY <1>2, <3>3, <3>4
  <2> QED BY <2>3, <2>4
<1> QED BY <1>1, <1>2

\* What is at the head of a channel stays there when more is sent.
LEMMA HeadStays ==
    ASSUME NEW s \in Seq(Packet), NEW t \in Seq(Packet), s # <<>>
    PROVE  s \o t # <<>> /\ Head(s \o t) = Head(s)
BY EmptySeq, LenProperties, HeadTailProperties, ConcatProperties

\* Unmet, for what the host does.
LEMMA UnmetHost ==
    ASSUME OneStream, IInv, StatusInv, Begun, NEW n \in BOOLEAN, NEW ms \in Seq(Packet), Plays("host", n, ms)
    PROVE  Unmet'
<1> SUFFICES ASSUME sock'["host"][1].st = "open", sock'["host"][1].peer = 0
             PROVE  /\ \A m \in Els(net'["host"]) : m.cmd = "OPEN"
                    /\ RunsOf("device", 1)' = {}
                    /\ next'["device"] # 1 => net'["device"] # <<>> /\ Head(net'["device"]).cmd = "OKAY"
  BY DEF Unmet, Open, Peer
<1>q. Ids = {1} /\ FreshInv /\ TypeOK /\ up
  BY OneId DEF IInv, StatusInv, Begun
<1>m. Moved("host", n, ms) /\ next'["device"] = next["device"]
  BY Sides DEF Plays
<1>r. RunsOf("device", 1)' = RunsOf("device", 1)
  BY <1>q, Sides DEF Plays, OnlyAt, RunsOf
<1>1. CASE Begins("host", n, ms)
  <2>1. PICK m \in Packet : ms = <<m>> /\ ~n /\ m.cmd = "OPEN" /\ next["host"] = 1
    BY <1>1 DEF Begins
  <2>2. net["host"] = <<>> /\ net["device"] = <<>> /\ next["device"] = 1
    BY <2>1 DEF Begun, Undialled
  <2>3. Els(net'["host"]) = {m}
    <3>1. Els(net["host"]) = {} /\ Els(ms) = {m}
      BY <2>1, <2>2, FewMsgs
    <3>2. Els(net["host"] \o ms) = Els(net["host"]) \cup Els(ms)
      BY <1>q, Sides, ElsConcat DEF TypeOK
    <3> QED BY <1>q, <1>m, <3>1, <3>2 DEF Moved
  <2>4. RunsOf("device", 1) = {}
    <3>1. sock["device"][1].st = "none" /\ fd["device"][1] = NewFd
      BY <1>q, <2>2, Sides DEF FreshInv
    <3>2. fd["device"][1].out = <<>>
      BY <3>1 DEF NewFd
    <3>3. sock["device"][1].q = <<>>
      BY <1>q, <3>1, Sides DEF IInv, QueueInv, QueueOK, StatusInv, ReplyInv, StatusOK
    <3> QED BY <1>q, <3>2, <3>3, Sides, RunsOfEmpty
  <2> QED BY <1>m, <1>r, <2>1, <2>2, <2>3, <2>4
<1>2. CASE GoesOn("host", n, ms)
  <2>1. Open("host", 1) /\ Peer("host", 1) = 0
    BY <1>2 DEF GoesOn
  <2>2. /\ \A m \in Els(net["host"]) : m.cmd = "OPEN"
        /\ RunsOf("device", 1) = {}
        /\ next["device"] # 1 => net["device"] # <<>> /\ Head(net["device"]).cmd = "OKAY"
    BY <2>1 DEF Begun, Unmet
  <2>3. ms = <<>>
    BY <1>2, <2>1, ElsSmall DEF GoesOn
  <2>4. net'["host"] = net["host"]
    BY <1>q, <1>m, <2>3, Sides, ConcatEmptySeq DEF TypeOK, Moved
  <2>5. next["device"] # 1 => ~n
    BY <1>2, <2>2, Sides DEF GoesOn, Got
  <2>6. ~n => net'["device"] = net["device"]
    BY <1>m, Sides DEF Moved
  <2> QED BY <1>m, <1>r, <2>2, <2>4, <2>5, <2>6
<1> QED BY <1>1, <1>2 DEF Plays

\* ... and the device.
LEMMA UnmetDevice ==
    ASSUME OneStream, IInv, StatusInv, Begun, NEW n \in BOOLEAN, NEW ms \in Seq(Packet), Plays("device", n, ms)
    PROVE  Unmet'
<1> SUFFICES ASSUME sock'["host"][1].st = "open", sock'["host"][1].peer = 0
             PROVE  /\ \A m \in Els(net'["host"]) : m.cmd = "OPEN"
                    /\ RunsOf("device", 1)' = {}
                    /\ next'["device"] # 1 => net'["device"] # <<>> /\ Head(net'["device"]).cmd = "OKAY"
  BY DEF Unmet, Open, Peer
<1>q. Ids = {1} /\ FreshInv /\ TypeOK /\ up /\ net["device"] \in Seq(Packet) /\ next["device"] \in Nat
  BY OneId, Sides DEF IInv, StatusInv, Begun, TypeOK
<1>m. Moved("device", n, ms)
  BY DEF Plays
<1>1. Open("host", 1) /\ Peer("host", 1) = 0
  BY <1>q, Sides DEF Plays, OnlyAt, Open, Peer
<1>2. /\ \A m \in Els(net["host"]) : m.cmd = "OPEN"
      /\ RunsOf("device", 1) = {}
      /\ next["device"] # 1 => net["device"] # <<>> /\ Head(net["device"]).cmd = "OKAY"
  BY <1>1 DEF Begun, Unmet
<1>3. /\ Els(net'["host"]) \subseteq Els(net["host"])
      /\ n => Got("device") \in Els(net["host"])
      /\ net'["device"] = net["device"] \o ms
  BY <1>q, <1>m, Sides, MovedEls DEF Moved
<1>4. n => Got("device").cmd = "OPEN" /\ net["device"] = <<>> /\ next["device"] = 1
  BY <1>2, <1>3 DEF Begun, OpenFirst
<1>5. CASE Begins("device", n, ms)
  <2>1. PICK m \in Packet : ms = <<m>> /\ n /\ m.cmd = "OKAY" /\ RunsOf("device", 1)' = {}
    BY <1>5 DEF Begins
  <2>2. net'["device"] = <<m>>
    <3>1. <<>> \o <<m>> = <<m>>
      OBVIOUS
    <3> QED BY <1>3, <1>4, <2>1, <3>1
  <2>3. <<m>> # <<>> /\ Head(<<m>>) = m
    OBVIOUS
  <2> QED BY <1>2, <1>3, <2>1, <2>2, <2>3
<1>6. CASE GoesOn("device", n, ms)
  BY <1>q, <1>2, <1>3, <1>4, <1>6, HeadStays DEF GoesOn
<1> QED BY <1>5, <1>6 DEF Plays

\* The connection stays established.
LEMMA BegunPlays ==
    ASSUME OneStream, IInv, StatusInv, LinkInv, Begun, NEW p \in Side, Works(p)
    PROVE  Begun'
<1>q. ShapeInv /\ DeviceIds
  BY DEF LinkInv
<1>1. PICK n \in BOOLEAN, ms \in Seq(Packet) : Plays(p, n, ms)
  BY <1>q, PlaysView
<1>2. Undialled' /\ OpenFirst' /\ ClseFinal("host")' /\ ClseFinal("device")'
  BY <1>q, <1>1, UndialledPlays, OpenFirstPlays, ClseFinalPlays, Sides
<1>3. Unmet'
  BY <1>1, UnmetHost, UnmetDevice, Sides
<1>4. DeviceMet'
  <2>1. CASE p = "host"
    BY <1>1, <2>1, OneId, Sides DEF Plays, OnlyAt, Begun, DeviceMet, Open, Peer
  <2>2. ASSUME p = "device", sock'["device"][1].st = "open" PROVE sock'["device"][1].peer # 0
    BY <1>1, <2>2 DEF Begins, GoesOn, Begun, DeviceMet, Plays
  <2> QED BY <2>1, <2>2, Sides DEF DeviceMet, Open, Peer
<1>5. up' /\ online'["host"] /\ online'["device"]
  BY <1>1 DEF Plays, Kept, Begun
<1>6. Quiet("host")' /\ Quiet("device")'
  <2>1. PICK i \in {0} \cup Ids, k \in BOOLEAN, xs \in Seq(Packet) : Acts(p, i, k, xs)
    BY <1>q, ActsView DEF ShapeInv
  <2> QED BY <2>1, QuietKept, Sides DEF Begun, IInv
<1> QED BY <1>2, <1>3, <1>4, <1>5, <1>6 DEF Begun

\* Before the connection is established no asocket is there.
LEMMA NotYetNone ==
    ASSUME OneStream, IInv, StatusInv, NotYet, NEW p \in Side
    PROVE  /\ sock[p][1].st = "none" /\ ~sock[p][1].wr /\ sock[p][1].q = <<>>
           /\ Other(p) \in Side /\ net[Other(p)] # <<>> => Got(p).cmd = "CNXN"
<1>1. 1 \in Ids /\ next[p] = 1
  BY OneId, Sides DEF NotYet
<1>2. sock[p][1].st = "none"
  BY <1>1 DEF StatusInv, FreshInv
<1>3. ~sock[p][1].wr /\ sock[p][1].q = <<>>
  BY <1>1, <1>2 DEF StatusInv, ReplyInv, StatusOK, IInv, QueueInv, QueueOK
<1>4. Head(<<Pkt("CNXN", 0, 0)>>).cmd = "CNXN"
  BY DEF Pkt
<1>5. net[Other(p)] # <<>> => Got(p).cmd = "CNXN"
  BY <1>4, Sides DEF NotYet, Got
<1> QED BY <1>2, <1>3, <1>5

\* The host sends A_CNXN.
LEMMA NotYetConnect ==
    ASSUME IInv, NotYet, Connect
    PROVE  NotYet' /\ next' = next /\ sock' = sock /\ fd' = fd
BY Sides DEF Connect, IInv, TypeOK, NotYet

\* The first A_CNXN of either side is handled.
LEMMA NotYetCnxn ==
    ASSUME OneStream, IInv, StatusInv, NotYet, NEW p \in Side, HandlePacket(p)
    PROVE  (NotYet' \/ Begun') /\ next' = next /\ sock' = sock /\ fd' = fd
<1> DEFINE c == Pkt("CNXN", 0, 0)
           o == Other(p)
           ms == IF p = "device" THEN <<c>> ELSE <<>>
<1>q. TypeOK /\ o \in Side /\ o # p
  BY Sides DEF IInv
<1>0. net[o] # <<>>
  BY DEF HandlePacket
<1>1. net[o] # <<>> /\ Got(p).cmd = "CNXN"
  BY <1>q, <1>0, NotYetNone
<1>2. HandleCnxn(p, Got(p))
  BY <1>1 DEF HandlePacket, Got, HandleOpen, HandleOpenFails, HandleOkay, HandleOkayGone,
     HandleWrte, HandleWrteQueues, HandleWrteFails, HandleClse, IgnoreStale, IgnoreOffline
<1>3. net[p] = <<>> /\ net[o] = <<c>> /\ ~online[p] /\ up /\ (p = "host" => online["device"])
  BY <1>1, Sides DEF NotYet
<1>4. /\ sock' = sock /\ fd' = fd /\ next' = next /\ online' = [online EXCEPT ![p] = TRUE] /\ up' = up
      /\ Reply(p, <<>> \o ms)
  BY <1>2, <1>3 DEF HandleCnxn, link
<1>5. <<>> \o ms = ms /\ Tail(<<c>>) = <<>>
  OBVIOUS
<1>6. net'[p] = ms /\ net'[o] = <<>>
  BY <1>q, <1>3, <1>4, <1>5 DEF Reply, Sent, TypeOK
<1>7. next["host"] = 1 /\ next["device"] = 1
  BY DEF NotYet
<1>8. CASE p = "device"
  BY <1>q, <1>3, <1>4, <1>6, <1>7, <1>8, Sides DEF NotYet, TypeOK
<1>9. CASE p = "host"
  <2>1. net'["device"] = <<>> /\ net'["host"] = <<>>
    BY <1>6, <1>9, Sides
  <2>2. online'["device"] /\ online'["host"] /\ up'
    BY <1>q, <1>3, <1>4, <1>9, Sides DEF TypeOK
  <2>3. sock'["host"][1].st = "none" /\ sock'["device"][1].st = "none"
    BY <1>4, NotYetNone, Sides
  <2>4. Els(<<>>) = {} /\ Len(<<>>) = 0
    BY FewMsgs
  <2>5. Undialled' /\ Unmet' /\ DeviceMet'
    BY <1>4, <1>7, <2>1, <2>3 DEF Undialled, Unmet, DeviceMet, Open
  <2>6. OpenFirst' /\ Quiet("host")' /\ Quiet("device")' /\ ClseFinal("host")' /\ ClseFinal("device")'
    BY <2>1, <2>4 DEF OpenFirst, Quiet, ClseFinal
  <2>7. Begun'
    BY <2>2, <2>5, <2>6 DEF Begun
  <2> QED BY <1>4, <2>7
<1> QED BY <1>8, <1>9, Sides

\* Breaks, restarts and repetitions of A_CNXN are not in the instances.
LEMMA NoFaults ==
    ASSUME OneStream, IInv
    PROVE  ~ResendConnect /\ ~Break /\ ~HostRestart
BY DEF IInv, TypeOK, OneStream, ResendConnect, Break, HostRestart

\* Nothing but A_CNXN happens before the connection is established.
LEMMA NotYetStep ==
    ASSUME OneStream, IInv, StatusInv, NotYet, [Next]_vars
    PROVE  (NotYet' \/ Begun') /\ next' = next /\ sock' = sock /\ fd' = fd
<1>1. CASE UNCHANGED vars
  BY <1>1 DEF vars, link, NotYet
<1>2. CASE Connect
  BY <1>2, NotYetConnect
<1>3. ASSUME NEW p \in Side, HandlePacket(p) PROVE (NotYet' \/ Begun') /\ next' = next /\ sock' = sock /\ fd' = fd
  BY <1>3, NotYetCnxn
<1>4. ASSUME NEW p \in Side, NEW rigged \in Notify, ConnectToRemote(p, rigged) PROVE FALSE
  BY <1>4, OneId DEF ConnectToRemote, NotYet
<1>5. ASSUME NEW p \in Side, HandleOffline(p) PROVE FALSE
  BY <1>5, Sides DEF HandleOffline, NotYet
<1>6. ASSUME NEW p \in Side, NEW i \in Ids, Event(p, i) \/ App(p, i) PROVE FALSE
  <2>1. i = 1 /\ sock[p][i].st = "none" /\ ~sock[p][i].wr
    BY OneId, NotYetNone
  <2> QED BY <1>6, <2>1 DEF Event, App, WriteSome, WriteAll, WriteError, ReadEvent, Readable, AppWrite, AppHangup
<1> QED BY <1>1, <1>2, <1>3, <1>4, <1>5, <1>6, NoFaults DEF Next

\* Once it is, no A_CNXN is under way and nothing closes all streams.
LEMMA BegunWorks ==
    ASSUME OneStream, IInv, Begun
    PROVE  ~Moves
<1>q. up /\ online["host"] /\ online["device"] /\ TypeOK
  BY DEF Begun, IInv
<1>1. ASSUME NEW n \in BOOLEAN, NEW m \in Packet, Repeats(n, m) PROVE FALSE
  BY <1>q, <1>1 DEF Repeats
<1>2. ASSUME NEW p \in Side, NEW ms \in Seq(Packet), Restarts(p, ms) PROVE FALSE
  <2>1. Got(p).cmd = "CNXN" /\ Moved(p, TRUE, ms)
    BY <1>2 DEF Restarts
  <2>2. Got(p) \in Els(net[Other(p)])
    BY <1>q, <2>1, MovedEls
  <2> QED BY <2>1, <2>2, Sides DEF Begun, Quiet
<1>3. ASSUME NEW p \in Side, Ends(p) PROVE FALSE
  BY <1>q, <1>3 DEF Ends
<1> QED BY <1>q, <1>1, <1>2, <1>3, NoFaults DEF Moves, Connect

\* Once it is, it stays established.
LEMMA BegunStep ==
    ASSUME OneStream, IInv, StatusInv, LinkInv, Begun, [Next]_vars
    PROVE  Begun' /\ ~Connect /\ \A p \in Side : ~HandleOffline(p)
<1>q. up /\ online["host"] /\ online["device"] /\ TypeOK
  BY DEF Begun, IInv
<1>1. ~Moves
  BY BegunWorks
<1>2. ASSUME NEW p \in Side, Works(p) PROVE Begun'
  BY <1>2, BegunPlays
<1>3. ASSUME UNCHANGED vars PROVE Begun'
  <2>1. sock' = sock /\ fd' = fd /\ next' = next /\ net' = net /\ online' = online /\ up' = up
    BY <1>3 DEF vars, link
  <2>2. Undialled' /\ OpenFirst' /\ ClseFinal("host")' /\ ClseFinal("device")'
    BY <2>1 DEF Begun, Undialled, OpenFirst, ClseFinal, Open
  <2>3. Unmet' /\ DeviceMet'
    BY <2>1 DEF Begun, Unmet, DeviceMet, Open, Peer, RunsOf
  <2>4. Quiet("host")' /\ Quiet("device")'
    BY <2>1 DEF Begun, Quiet
  <2> QED BY <2>1, <2>2, <2>3, <2>4 DEF Begun
<1>4. Begun'
  BY <1>1, <1>2, <1>3, Views
<1> QED BY <1>q, <1>4 DEF Connect, HandleOffline

-----------------------------------------------------------------------------
(* Every step is one of the pipe *)

\* A step of the one stream over an established connection.
InStep == OneStream /\ IInv /\ IInv' /\ StatusInv /\ LinkInv /\ LinkInv' /\ Begun /\ Born

\* What is on its way to asocket s over the channel ch.
Arriving(s, ch) == Numbers(s.q) \o (IF s.st = "open" THEN Written(ch) ELSE <<>>)

\* The variables of either side.
LEMMA PipeSide ==
    ASSUME InStep, NEW p \in Side
    PROVE  /\ 1 \in Ids /\ Ids = {1} /\ Other(p) \in Side /\ Other(p) # p /\ Other(Other(p)) = p /\ up /\ online[p]
           /\ sock[p][1] \in Socket /\ fd[p][1] \in Descriptor /\ sock'[p][1] \in Socket /\ fd'[p][1] \in Descriptor
           /\ QueueOK(sock[p][1]) /\ StatusOK(sock[p][1], fd[p][1]) /\ SockShape(sock[p][1])
           /\ net[p] \in Seq(Packet) /\ net'[p] \in Seq(Packet) /\ next[p] \in Nat \ {0}
           /\ next[p] = 1 => sock[p][1].st = "none" /\ fd[p][1] = NewFd
<1>1. 1 \in Ids /\ Ids = {1} /\ Other(p) \in Side /\ Other(p) # p /\ Other(Other(p)) = p /\ up /\ online[p]
  BY OneId, Sides DEF InStep, Begun
<1>2. TypeOK /\ TypeOK' /\ QueueInv /\ ReplyInv /\ FreshInv /\ ShapeInv
  BY DEF InStep, IInv, StatusInv, LinkInv
<1>3. /\ sock[p][1] \in Socket /\ fd[p][1] \in Descriptor /\ sock'[p][1] \in Socket /\ fd'[p][1] \in Descriptor
      /\ net[p] \in Seq(Packet) /\ net'[p] \in Seq(Packet) /\ next[p] \in Nat \ {0}
  BY <1>1, <1>2 DEF TypeOK
<1>4. QueueOK(sock[p][1]) /\ StatusOK(sock[p][1], fd[p][1]) /\ SockShape(sock[p][1])
  BY <1>1, <1>2 DEF QueueInv, ReplyInv, ShapeInv
<1>5. next[p] = 1 => sock[p][1].st = "none" /\ fd[p][1] = NewFd
  BY <1>1, <1>2 DEF FreshInv
<1> QED BY <1>1, <1>3, <1>4, <1>5

\* What is on its way to side p.
LEMMA PipeArriving ==
    ASSUME InStep, NEW p \in Side
    PROVE  /\ PipeTransit[Other(p)] = Arriving(sock[p][1], net[Other(p)])
           /\ PipeTransit'[Other(p)] = Arriving(sock'[p][1], net'[Other(p)])
           /\ Numbers(sock[p][1].q) \in Seq(Nat) /\ Written(net[Other(p)]) \in Seq(Nat)
           /\ Numbers(sock'[p][1].q) \in Seq(Nat) /\ Written(net'[Other(p)]) \in Seq(Nat)
           /\ Numbers(fd[p][1].out) \in Seq(Nat)
<1>1. /\ Other(p) \in Side /\ Other(Other(p)) = p /\ Ids = {1}
      /\ sock[p][1].q \in Seq(Chunks) /\ sock'[p][1].q \in Seq(Chunks) /\ fd[p][1].out \in Seq(Chunks)
  BY PipeSide DEF Socket, Descriptor
<1>2. sock[p][1].peer \in {0, 1} /\ sock'[p][1].peer \in {0, 1}
  BY <1>1 DEF InStep, LinkInv, ShapeInv, SockShape
<1>3. InTransit(Other(p)) = Arriving(sock[p][1], net[Other(p)])
  BY <1>1, <1>2 DEF InTransit, OnTheWire, Arriving
<1>4. InTransit(Other(p))' = Arriving(sock'[p][1], net'[Other(p)])
  BY <1>1, <1>2 DEF InTransit, OnTheWire, Arriving
<1>5. net[Other(p)] \in Seq(Packet) /\ net'[Other(p)] \in Seq(Packet)
  BY <1>1, PipeSide
<1>6. /\ Written(net[Other(p)]) \in Seq(Nat) /\ Written(net'[Other(p)]) \in Seq(Nat)
      /\ Numbers(sock[p][1].q) \in Seq(Nat) /\ Numbers(sock'[p][1].q) \in Seq(Nat)
      /\ Numbers(fd[p][1].out) \in Seq(Nat)
  BY <1>1, <1>5, WrittenType, NumbersOf
<1> QED BY <1>1, <1>3, <1>4, <1>6, PipeAt, PipeAtNext

\* What side p does not change of the other side.
LEMMA FarView ==
    ASSUME InStep, NEW p \in Side, OnlyAt(p, 1)
    PROVE  /\ FarKept(p) /\ sock'[Other(p)][1] = sock[Other(p)][1]
           /\ PipeTransit[p] = Arriving(sock[Other(p)][1], net[p])
           /\ PipeTransit'[p] = Arriving(sock[Other(p)][1], net'[p])
<1>1. 1 \in Ids /\ Other(p) \in Side /\ Other(p) # p /\ Other(Other(p)) = p
  BY PipeSide
<1>2. sock'[Other(p)][1] = sock[Other(p)][1] /\ fd'[Other(p)][1] = fd[Other(p)][1]
  BY <1>1 DEF OnlyAt
<1>3. FarKept(p)
  BY <1>1, <1>2, PipeAt, PipeAtNext DEF FarKept
<1> QED BY <1>1, <1>2, <1>3, PipeArriving

\* Side p sends no data.
LEMMA NoDataSent ==
    ASSUME InStep, NEW p \in Side, OnlyAt(p, 1), NEW n \in BOOLEAN, NEW ms \in Seq(Packet), Moved(p, n, ms),
           \A m \in Els(ms) : m.cmd # "WRTE"
    PROVE  PipeTransit'[p] = PipeTransit[p]
<1>1. net'[p] = net[p] \o ms /\ net[p] \in Seq(Packet)
  BY PipeSide DEF Moved
<1>2. Written(ms) = <<>>
  BY WrittenNone DEF Els
<1>3. Written(net[p]) \o <<>> = Written(net[p])
  BY <1>1, WrittenType, ConcatEmptySeq
<1>4. Written(net'[p]) = Written(net[p])
  BY <1>1, <1>2, <1>3, WrittenConcat
<1> QED BY <1>4, FarView DEF Arriving

\* Side p sends the data m, and perhaps A_CLSE.
LEMMA DataSent ==
    ASSUME InStep, NEW p \in Side, OnlyAt(p, 1), NEW n \in BOOLEAN, NEW m \in Packet, m.cmd = "WRTE",
           NEW cl \in Seq(Packet), \A x \in Els(cl) : x.cmd # "WRTE", Moved(p, n, <<m>> \o cl)
    PROVE  /\ Open(Other(p), 1) => PipeTransit'[p] = Append(PipeTransit[p], m.n)
           /\ ~Open(Other(p), 1) => PipeTransit'[p] = PipeTransit[p]
<1> DEFINE o == Other(p)
           a == Numbers(sock[o][1].q)
           b == Written(net[p])
<1>1. net'[p] = net[p] \o (<<m>> \o cl) /\ net[p] \in Seq(Packet) /\ <<m>> \in Seq(Packet)
  <2> DEFINE ms == <<m>> \o cl
  <2>1. Moved(p, n, ms) /\ <<m>> \in Seq(Packet)
    OBVIOUS
  <2> HIDE DEF ms
  <2>2. net'[p] = net[p] \o ms /\ net[p] \in Seq(Packet)
    BY <2>1, PipeSide DEF Moved
  <2> QED BY <2>1, <2>2 DEF ms
<1>2. Written(cl) = <<>> /\ Written(<<m>>) = <<m.n>> /\ m.n \in Nat
  BY WrittenNone, WrittenOne DEF Els, NumberIn, Packet
<1>3. <<m.n>> \in Seq(Nat) /\ <<m.n>> \o <<>> = <<m.n>>
  BY <1>2
<1>4. Written(<<m>> \o cl) = <<m.n>> /\ <<m>> \o cl \in Seq(Packet)
  BY <1>1, <1>2, <1>3, WrittenConcat, ConcatProperties
<1>5. Written(net'[p]) = b \o <<m.n>>
  BY <1>1, <1>4, WrittenConcat
<1>6. a \in Seq(Nat) /\ b \in Seq(Nat)
  BY PipeSide, PipeArriving
<1>7. PipeTransit[p] = Arriving(sock[o][1], net[p]) /\ PipeTransit'[p] = Arriving(sock[o][1], net'[p])
  BY FarView
<1>8. ASSUME ~Open(o, 1) PROVE PipeTransit'[p] = PipeTransit[p]
  BY <1>7, <1>8 DEF Arriving, Open
<1>9. ASSUME Open(o, 1) PROVE PipeTransit'[p] = Append(PipeTransit[p], m.n)
  <2>1. PipeTransit[p] = a \o b /\ PipeTransit'[p] = a \o (b \o <<m.n>>)
    BY <1>5, <1>7, <1>9 DEF Arriving, Open
  <2> HIDE DEF a, b
  <2>2. (a \o b) \o <<m.n>> = a \o (b \o <<m.n>>) /\ a \o b \in Seq(Nat)
    <3> DEFINE w == <<m.n>>
    <3>1. a \in Seq(Nat) /\ b \in Seq(Nat) /\ w \in Seq(Nat)
      BY <1>3, <1>6
    <3> HIDE DEF w
    <3>2. (a \o b) \o w = a \o (b \o w)
      BY <3>1, ThreeParts, Zenon
    <3> QED BY <3>1, <3>2, ConcatProperties DEF w
  <2>3. Append(a \o b, m.n) = (a \o b) \o <<m.n>>
    BY <1>2, <2>2, AppendIsConcat
  <2> QED BY <2>1, <2>2, <2>3
<1> QED BY <1>8, <1>9

\* A step that the pipe does not see.
LEMMA PipeRests ==
    ASSUME InStep, NEW p \in Side, OnlyAt(p, 1), NEW n \in BOOLEAN, NEW ms \in Seq(Packet), Moved(p, n, ms),
           \A m \in Els(ms) : m.cmd # "WRTE",
           n => Got(p).cmd # "WRTE" \/ ~Open(p, 1),
           sock'[p][1].st = sock[p][1].st, sock'[p][1].q = sock[p][1].q,
           fd'[p][1].hup = fd[p][1].hup, fd'[p][1].got = fd[p][1].got, fd'[p][1].out = fd[p][1].out
    PROVE  UNCHANGED Pipe!pipe
<1> DEFINE o == Other(p)
<1>1. PipeTransit'[p] = PipeTransit[p] /\ FarKept(p)
  BY NoDataSent, FarView
<1>2. /\ PipeEnd'[p] = PipeEnd[p] /\ PipeHung'[p] = PipeHung[p] /\ PipeTook'[p] = PipeTook[p]
      /\ PipeGiven'[p] = PipeGiven[p]
  BY PipeAt, PipeAtNext DEF EndOf
<1>3. Open(p, 1) => Written(net'[o]) = Written(net[o])
  <2>1. CASE ~n
    BY <2>1 DEF Moved
  <2>2. CASE n /\ Open(p, 1)
    <3>1. net'[o] = Tail(net[o]) /\ net[o] # <<>> /\ net[o] \in Seq(Packet) /\ Got(p).cmd # "WRTE"
      BY <2>2, PipeSide DEF Moved
    <3>2. Written(net[o]) = NumberIn(Got(p)) \o Written(net'[o]) /\ NumberIn(Got(p)) = <<>>
      BY <3>1, WrittenTail DEF Got, NumberIn
    <3>3. Written(net'[o]) \in Seq(Nat)
      BY PipeArriving
    <3> QED BY <3>2, <3>3, ConcatEmptySeq
  <2> QED BY <2>1, <2>2
<1>4. PipeTransit'[o] = PipeTransit[o]
  BY <1>3, PipeArriving DEF Arriving, Open
<1> QED BY <1>1, <1>2, <1>4, StepNone

\* Nothing of another side or of another id changes.
LEMMA NothingChanges ==
    ASSUME sock' = sock, fd' = fd, NEW p \in Side
    PROVE  OnlyAt(p, 1) /\ sock'[p][1] = sock[p][1] /\ fd'[p][1] = fd[p][1]
BY DEF OnlyAt

\* The packet that side p handles.
LEMMA PipeGot ==
    ASSUME InStep, NEW p \in Side, net[Other(p)] # <<>>
    PROVE  /\ Got(p) \in Packet /\ Got(p) \in Els(net[Other(p)]) /\ Shape(Got(p)) /\ Got(p).cmd # "CNXN"
           /\ \A ms \in Seq(Packet) : Reply(p, ms) => Moved(p, TRUE, ms)
           /\ Written(net[Other(p)]) = NumberIn(Got(p)) \o Written(Tail(net[Other(p)]))
           /\ Written(Tail(net[Other(p)])) \in Seq(Nat)
<1>1. TypeOK /\ Other(p) \in Side /\ net[Other(p)] \in Seq(Packet)
  BY PipeSide DEF InStep, IInv
<1>2. Got(p) \in Packet
  BY <1>1, HeadType DEF Got
<1>3. Got(p) \in Els(net[Other(p)])
  BY <1>1, ElsTail DEF Got
<1>4. Shape(Got(p)) /\ Got(p).cmd # "CNXN"
  BY <1>1, <1>3, Sides DEF InStep, LinkInv, ShapeInv, Begun, Quiet
<1>5. \A ms \in Seq(Packet) : Reply(p, ms) => Moved(p, TRUE, ms)
  BY <1>1, ReplyMoves
<1>6. Tail(net[Other(p)]) \in Seq(Packet)
  BY <1>1, HeadTailProperties
<1> QED BY <1>1, <1>2, <1>3, <1>4, <1>5, <1>6, WrittenTail, WrittenType DEF Got

\* An end that is not there yet has nothing queued.
LEMMA PipeNone ==
    ASSUME InStep, NEW p \in Side, next[p] = 1
    PROVE  /\ sock[p][1].st = "none" /\ sock[p][1].q = <<>> /\ fd[p][1] = NewFd
           /\ PipeEnd[p] = "none" /\ PipeTransit[Other(p)] = <<>>
<1>1. sock[p][1].st = "none" /\ sock[p][1].q = <<>> /\ fd[p][1] = NewFd
  BY PipeSide DEF QueueOK, StatusOK
<1>2. PipeEnd[p] = "none"
  BY <1>1, PipeAt DEF EndOf
<1>3. Numbers(<<>>) \o <<>> = <<>>
  BY NumbersFew
<1>4. PipeTransit[Other(p)] = <<>>
  BY <1>1, <1>3, PipeArriving DEF Arriving
<1> QED BY <1>1, <1>2, <1>4

\* A new end: connect_to_remote, or the service of an A_OPEN.
LEMMA PipeBegins ==
    ASSUME InStep, NEW p \in Side, next[p] = 1, NEW n \in BOOLEAN, NEW m \in Packet, m.cmd # "WRTE",
           Moved(p, n, <<m>>), net'[Other(p)] = <<>>, p = "host" \/ PipeEnd["host"] # "none",
           NEW a, a.st = "open", a.q = <<>>, sock' = [sock EXCEPT ![p][1] = a],
           NEW b, b.hup = "no", b.got = 0, b.out = <<>>, fd' = [fd EXCEPT ![p][1] = b]
    PROVE  Pipe!Next
<1>1. 1 \in Ids /\ TypeOK
  BY PipeSide DEF InStep, IInv
<1>2. sock'[p][1] = a /\ fd'[p][1] = b /\ OnlyAt(p, 1)
  BY <1>1, OneChange
<1>3. PipeTransit'[p] = PipeTransit[p] /\ FarKept(p)
  <2>1. <<m>> \in Seq(Packet) /\ \A r \in Els(<<m>>) : r.cmd # "WRTE"
    BY FewMsgs
  <2> QED BY <1>2, <2>1, NoDataSent, FarView
<1>4. Numbers(<<>>) \o Written(<<>>) = <<>>
  BY NumbersFew, WrittenEmpty
<1>5. PipeTransit'[Other(p)] = <<>>
  BY <1>2, <1>4, PipeArriving DEF Arriving
<1>6. PipeEnd'[p] = "open"
  BY <1>2, PipeAtNext DEF EndOf
<1>7. fd[p][1].hup = "no" /\ fd[p][1].got = 0 /\ fd[p][1].out = <<>>
  BY PipeNone DEF NewFd
<1>8. PipeHung'[p] = PipeHung[p] /\ PipeTook'[p] = PipeTook[p] /\ PipeGiven'[p] = PipeGiven[p]
  BY <1>2, <1>7, PipeHere
<1>9. p = "host" \/ PipeEnd[Other(p)] # "none"
  BY Sides
<1> QED BY <1>3, <1>5, <1>6, <1>8, <1>9, PipeNone, StepOpen

\* ConnectToRemote.
LEMMA PipeDial ==
    ASSUME InStep, NEW p \in Side, NEW rigged \in Notify, ConnectToRemote(p, rigged)
    PROVE  Pipe!Next
<1>1. p = "host" /\ next[p] = 1 /\ TypeOK /\ runs \in Nat
  BY PipeSide, OneId, StreamAssumption DEF ConnectToRemote, InStep, IInv, TypeOK, OneStream
<1> DEFINE m == [Pkt("OPEN", 1, 0) EXCEPT !.run = runs]
           a == Asocket("open", 0, FALSE, rigged)
           b == [fd[p][1] EXCEPT !.run = runs, !.reply = IF rigged THEN "await" ELSE fd[p][1].reply]
<1>2. /\ sock' = [sock EXCEPT ![p][1] = a] /\ fd' = [fd EXCEPT ![p][1] = b] /\ Send(p, <<m>>)
  <2>1. 1 \in Ids
    BY PipeSide
  <2>2. sock' = [sock EXCEPT ![p][1] = a] /\ Send(p, <<m>>)
    BY <1>1 DEF ConnectToRemote
  <2>3. fd' = [fd EXCEPT ![p][1].run = runs, ![p][1].reply = IF rigged THEN "await" ELSE @]
    BY <1>1 DEF ConnectToRemote
  <2>4. fd' = [fd EXCEPT ![p][1] = b]
    BY <1>1, <2>1, <2>3 DEF TypeOK
  <2> QED BY <2>2, <2>4
<1>3. fd[p][1] = NewFd
  BY <1>1, PipeNone
<1>4. b.hup = "no" /\ b.got = 0 /\ b.out = <<>>
  BY <1>3 DEF NewFd
<1>5. a.st = "open" /\ a.q = <<>>
  BY DEF Asocket
<1>6. m \in Packet /\ m.cmd = "OPEN"
  BY <1>1 DEF Pkt, Packet
<1> HIDE DEF a, b, m
<1>7. Moved(p, FALSE, <<m>>)
  BY <1>1, <1>2, <1>6, FewMsgs, SendMoves
<1>8. net'[Other(p)] = <<>>
  BY <1>1, <1>7, Sides DEF Moved, InStep, Begun, Undialled
<1> QED BY <1>1, <1>2, <1>4, <1>5, <1>6, <1>7, <1>8, PipeBegins

\* A_OPEN, with the service.
LEMMA PipeOpen ==
    ASSUME InStep, NEW p \in Side, net[Other(p)] # <<>>, HandleOpen(p, Got(p))
    PROVE  Pipe!Next
<1> DEFINE g == Got(p)
           o == Other(p)
<1>1. g \in Packet /\ g \in Els(net[o]) /\ g.cmd = "OPEN" /\ g.run \in Nat /\ g.arg0 \in Nat /\ TypeOK
  BY PipeGot DEF HandleOpen, InStep, IInv, Packet
<1>2. o = "host" /\ p = "device" /\ next[p] = 1 /\ net[o] = <<g>>
  BY <1>1, Sides DEF InStep, Begun, OpenFirst
<1>3. PipeEnd["host"] # "none"
  BY <1>2, Sides DEF InStep, Begun, Undialled, Born
<1> DEFINE m == Pkt("OKAY", 1, g.arg0)
           a == Asocket("open", g.arg0, TRUE, FALSE)
           b == [fd[p][1] EXCEPT !.run = g.run]
<1>4. sock' = [sock EXCEPT ![p][1] = a] /\ fd' = [fd EXCEPT ![p][1] = b] /\ Reply(p, <<m>>)
  BY <1>1, <1>2, PipeSide DEF HandleOpen, TypeOK
<1>5. fd[p][1] = NewFd
  BY <1>2, PipeNone
<1>6. b.hup = "no" /\ b.got = 0 /\ b.out = <<>>
  BY <1>5 DEF NewFd
<1>7. a.st = "open" /\ a.q = <<>>
  BY DEF Asocket
<1>8. m \in Packet /\ m.cmd = "OKAY"
  BY <1>1, PktType DEF Pkt
<1> HIDE DEF a, b, m
<1>9. Moved(p, TRUE, <<m>>)
  BY <1>4, <1>8, FewMsgs, PipeGot
<1>10. Tail(<<g>>) = <<>>
  OBVIOUS
<1>11. net'[o] = <<>>
  BY <1>2, <1>9, <1>10 DEF Moved
<1> QED BY <1>2, <1>3, <1>4, <1>6, <1>7, <1>8, <1>9, <1>11, PipeBegins

\* A_OPEN without, and A_OKAY for an asocket that is gone.
LEMMA PipeRefuses ==
    ASSUME InStep, NEW p \in Side, net[Other(p)] # <<>>,
           HandleOpenFails(p, Got(p)) \/ HandleOkayGone(p, Got(p))
    PROVE  UNCHANGED Pipe!pipe
<1> DEFINE g == Got(p)
<1>1. g \in Packet /\ g.arg0 \in Nat /\ g.arg1 \in Nat /\ TypeOK
  BY PipeGot DEF InStep, IInv, Packet
<1>2. sock' = sock /\ fd' = fd /\ g.cmd # "WRTE"
  BY DEF HandleOpenFails, HandleOkayGone
<1>3. PICK m \in Packet : m.cmd = "CLSE" /\ Reply(p, <<m>>)
  BY <1>1, PktType DEF Pkt, HandleOpenFails, HandleOkayGone
<1>4. <<m>> \in Seq(Packet) /\ Moved(p, TRUE, <<m>>) /\ \A x \in Els(<<m>>) : x.cmd # "WRTE"
  <2>1. <<m>> \in Seq(Packet) /\ \A x \in Els(<<m>>) : x.cmd # "WRTE"
    BY <1>3, FewMsgs
  <2> QED BY <1>3, <2>1, PipeGot
<1> QED BY <1>2, <1>4, NothingChanges, PipeRests

\* A_OKAY.
LEMMA PipeOkay ==
    ASSUME InStep, NEW p \in Side, net[Other(p)] # <<>>, HandleOkay(p, Got(p))
    PROVE  UNCHANGED Pipe!pipe
<1> DEFINE g == Got(p)
           s == sock[p][1]
           f == fd[p][1]
<1>1. g.arg1 = 1 /\ g.cmd = "OKAY" /\ TypeOK /\ s \in Socket /\ f \in Descriptor /\ 1 \in Ids
  BY PipeSide DEF HandleOkay, Found, InStep, IInv
<1>2. Moved(p, TRUE, <<>>)
  BY FewMsgs, PipeGot DEF HandleOkay
<1>3. CASE s.peer \in {0, g.arg0}
  <2> DEFINE a == [s EXCEPT !.peer = g.arg0, !.rd = TRUE, !.rig = FALSE]
             b == [f EXCEPT !.reply = IF s.rig THEN "OKAY" ELSE f.reply]
  <2>1. sock' = [sock EXCEPT ![p][1] = a] /\ fd' = [fd EXCEPT ![p][1] = b]
    BY <1>1, <1>3 DEF HandleOkay, TypeOK
  <2>2. a.st = s.st /\ a.q = s.q /\ b.hup = f.hup /\ b.got = f.got /\ b.out = f.out
    BY <1>1 DEF Socket, Descriptor
  <2> HIDE DEF a, b
  <2>3. sock'[p][1] = a /\ fd'[p][1] = b /\ OnlyAt(p, 1)
    BY <1>1, <2>1, OneChange
  <2> QED BY <1>1, <1>2, <2>2, <2>3, FewMsgs, PipeRests
<1>4. CASE s.peer \notin {0, g.arg0}
  BY <1>1, <1>2, <1>4, FewMsgs, NothingChanges, PipeRests DEF HandleOkay
<1> QED BY <1>3, <1>4

\* A_WRTE and A_CLSE that name no open asocket: no data is lost by them.
LEMMA PipeStale ==
    ASSUME InStep, NEW p \in Side, net[Other(p)] # <<>>, IgnoreStale(p, Got(p))
    PROVE  UNCHANGED Pipe!pipe
<1> DEFINE g == Got(p)
<1>1. sock' = sock /\ fd' = fd /\ Moved(p, TRUE, <<>>) /\ ~Found(p, g.arg1, g.arg0)
  BY FewMsgs, PipeGot DEF IgnoreStale
<1>2. ASSUME g.cmd = "WRTE", Open(p, 1) PROVE FALSE
  <2>1. g.arg0 = 1 /\ g.arg1 = 1 /\ g \in Els(net[Other(p)]) /\ g = Head(net[Other(p)])
    BY <1>2, PipeSide, PipeGot DEF Shape, Got
  <2>2. sock[p][1].peer = 0
    BY <1>1, <1>2, <2>1, PipeSide DEF Found, Open, SockShape
  <2>3. p = "host"
    BY <1>2, <2>2, Sides DEF InStep, Begun, DeviceMet, Peer
  <2>4. next["device"] = 1
    BY <1>2, <2>1, <2>2, <2>3, Sides DEF InStep, Begun, Unmet, Peer
  <2>5. g.arg0 < next["device"]
    BY <2>1, <2>3, Sides DEF InStep, LinkInv, DeviceIds
  <2> QED BY <2>1, <2>4, <2>5
<1> QED BY <1>1, <1>2, FewMsgs, NothingChanges, PipeRests

\* The state of an end.
LEMMA EndAt ==
    ASSUME InStep, NEW p \in Side
    PROVE  /\ PipeEnd[p] = "open" <=> sock[p][1].st = "open"
           /\ PipeEnd[p] = "draining" <=> sock[p][1].st = "closing"
           /\ \A s \in Socket : /\ s.st = "open" => EndOf(s) = "open"
                                /\ s.st = "closing" => EndOf(s) = "draining"
                                /\ s.st = "dead" => EndOf(s) = "closed"
BY PipeSide, PipeAt DEF EndOf, Socket

\* A queue of chunks is empty when there are no numbers.
LEMMA NumbersNone == ASSUME NEW s \in Seq(Chunks) PROVE Numbers(s) = <<>> <=> s = <<>>
<1>1. Numbers(s) \in Seq(Nat) /\ Len(Numbers(s)) = Len(s)
  BY NumbersOf
<1> DEFINE a == Numbers(s)
<1> HIDE DEF a
<1>2. a = <<>> <=> Len(a) = 0
  BY <1>1, EmptySeq DEF a
<1>3. s = <<>> <=> Len(s) = 0
  BY EmptySeq
<1> QED BY <1>1, <1>2, <1>3 DEF a

\* A descriptor changes, or an asocket.
LEMMA FdChange ==
    ASSUME TypeOK, NEW p \in Side, NEW i \in Ids, NEW b, sock' = sock, fd' = [fd EXCEPT ![p][i] = b]
    PROVE  sock'[p][i] = sock[p][i] /\ fd'[p][i] = b /\ OnlyAt(p, i)
BY DEF TypeOK, OnlyAt

\* A step that changes one asocket and no descriptor.
LEMMA SockChange ==
    ASSUME TypeOK, NEW p \in Side, NEW i \in Ids, NEW a, sock' = [sock EXCEPT ![p][i] = a], fd' = fd
    PROVE  sock'[p][i] = a /\ fd'[p][i] = fd[p][i] /\ OnlyAt(p, i)
BY DEF TypeOK, OnlyAt

\* A_WRTE that names an open asocket.
LEMMA PipeData ==
    ASSUME InStep, NEW p \in Side, net[Other(p)] # <<>>, Got(p).cmd = "WRTE", Found(p, Got(p).arg1, Got(p).arg0)
    PROVE  /\ Got(p) \in Packet /\ Got(p).arg1 = 1 /\ Got(p).arg0 \in Nat /\ Got(p).n \in Nat /\ 1 \in Ids
           /\ TypeOK /\ sock[p][1] \in Socket /\ fd[p][1] \in Descriptor /\ sock[p][1].st = "open"
           /\ sock[p][1].q \in Seq(Chunks) /\ fd[p][1].out \in Seq(Chunks)
<1>1. Got(p) \in Packet /\ Got(p).arg0 \in Nat /\ Got(p).n \in Nat
  BY PipeGot DEF Packet
<1>2. 1 \in Ids /\ Ids = {1} /\ sock[p][1] \in Socket /\ fd[p][1] \in Descriptor
  BY PipeSide
<1>3. Got(p).arg1 = 1 /\ sock[p][1].st = "open"
  BY <1>2 DEF Found
<1>4. sock[p][1].q \in Seq(Chunks) /\ fd[p][1].out \in Seq(Chunks)
  BY <1>2 DEF Socket, Descriptor
<1> QED BY <1>1, <1>2, <1>3, <1>4 DEF InStep, IInv

\* A_WRTE that is written at once.
LEMMA PipeWrte ==
    ASSUME InStep, NEW p \in Side, net[Other(p)] # <<>>, HandleWrte(p, Got(p))
    PROVE  Pipe!Next
<1> DEFINE g == Got(p)
           o == Other(p)
           s == sock[p][1]
           f == fd[p][1]
           x == <<g.n>>
           y == Written(Tail(net[o]))
           m == Pkt("OKAY", g.arg1, g.arg0)
           b == [f EXCEPT !.out = Append(f.out, Chunk(g))]
<1>1. /\ g \in Packet /\ g.arg1 = 1 /\ g.cmd = "WRTE" /\ TypeOK /\ s \in Socket /\ f \in Descriptor /\ 1 \in Ids
      /\ s.st = "open" /\ s.q = <<>> /\ g.arg0 \in Nat /\ g.n \in Nat /\ f.out \in Seq(Chunks)
  BY PipeData DEF HandleWrte
<1>2. m \in Packet /\ m.cmd = "OKAY"
  BY <1>1, PktType DEF Pkt
<1>3. sock' = sock /\ fd' = [fd EXCEPT ![p][1] = b] /\ Reply(p, <<m>>)
  BY <1>1 DEF HandleWrte, TypeOK
<1>4. b.hup = f.hup /\ b.got = f.got /\ b.out = f.out \o <<Chunk(g)>>
  <2>1. Append(f.out, Chunk(g)) = f.out \o <<Chunk(g)>>
    BY <1>1, ChunkType, AppendIsConcat
  <2> QED BY <1>1, <2>1 DEF Descriptor
<1>5. Chunk(g) \in Chunks /\ Chunk(g).n = g.n /\ <<Chunk(g)>> \in Seq(Chunks)
  BY <1>1, ChunkType DEF Chunk
<1>6. Numbers(f.out \o <<Chunk(g)>>) = Numbers(f.out) \o x
  BY <1>1, <1>5, NumbersConcat, NumbersFew
<1> HIDE DEF b, m
<1>7. sock'[p][1] = s /\ fd'[p][1] = b /\ OnlyAt(p, 1)
  BY <1>1, <1>3, FdChange
<1>8. Moved(p, TRUE, <<m>>)
  BY <1>2, <1>3, FewMsgs, PipeGot
<1>9. PipeTransit'[p] = PipeTransit[p] /\ FarKept(p)
  BY <1>2, <1>7, <1>8, FewMsgs, NoDataSent, FarView
<1>10. Written(net[o]) = x \o y /\ y \in Seq(Nat) /\ x \in Seq(Nat) /\ x # <<>> /\ Written(net'[o]) = y
  <2>1. Written(net[o]) = NumberIn(g) \o y /\ y \in Seq(Nat)
    BY PipeGot
  <2>2. NumberIn(g) = x
    BY <1>1 DEF NumberIn
  <2>3. x \in Seq(Nat) /\ x # <<>>
    BY <1>1
  <2>4. Written(net'[o]) = y
    BY <1>8 DEF Moved
  <2> HIDE DEF x, y
  <2> QED BY <2>1, <2>2, <2>3, <2>4
<1> HIDE DEF x, y
<1>11. PipeTransit[o] = x \o y /\ PipeTransit'[o] = y
  <2>1. Numbers(<<>>) = <<>> /\ <<>> \o (x \o y) = x \o y /\ <<>> \o y = y
    BY <1>10, NumbersFew, ConcatEmptySeq, ConcatProperties
  <2>2. PipeTransit[o] = Numbers(<<>>) \o Written(net[o]) /\ PipeTransit'[o] = Numbers(<<>>) \o Written(net'[o])
    BY <1>1, <1>7, PipeArriving DEF Arriving
  <2> QED BY <1>10, <2>1, <2>2
<1>12. /\ PipeEnd[p] = "open" /\ PipeEnd'[p] = PipeEnd[p] /\ PipeHung'[p] = PipeHung[p] /\ PipeTook'[p] = PipeTook[p]
       /\ PipeGiven'[p] = PipeGiven[p] \o x
  <2>1. PipeEnd[p] = "open" /\ PipeEnd'[p] = PipeEnd[p]
    BY <1>1, <1>7, PipeHere, EndAt
  <2>2. PipeHung'[p] = PipeHung[p] /\ PipeTook'[p] = PipeTook[p]
    BY <1>4, <1>7, PipeHere
  <2>3. PipeGiven'[p] = PipeGiven[p] \o x
    BY <1>4, <1>6, <1>7, PipeHere
  <2> QED BY <2>1, <2>2, <2>3
<1> QED BY <1>9, <1>10, <1>11, <1>12, StepGive

\* A_WRTE that is queued.
LEMMA PipeQueues ==
    ASSUME InStep, NEW p \in Side, net[Other(p)] # <<>>, HandleWrteQueues(p, Got(p))
    PROVE  UNCHANGED Pipe!pipe
<1> DEFINE g == Got(p)
           o == Other(p)
           s == sock[p][1]
           x == <<g.n>>
           y == Written(Tail(net[o]))
           a == [s EXCEPT !.q = Append(s.q, Chunk(g)), !.wr = TRUE]
<1>1. /\ g \in Packet /\ g.arg1 = 1 /\ g.cmd = "WRTE" /\ TypeOK /\ s \in Socket /\ 1 \in Ids
      /\ s.st = "open" /\ g.n \in Nat /\ s.q \in Seq(Chunks)
  BY PipeData DEF HandleWrteQueues
<1>3. sock' = [sock EXCEPT ![p][1] = a] /\ fd' = fd /\ Reply(p, <<>>)
  <2>1. sock' = [sock EXCEPT ![p][1].q = Append(@, Chunk(g)), ![p][1].wr = TRUE] /\ fd' = fd /\ Reply(p, <<>>)
    BY <1>1 DEF HandleWrteQueues
  <2>2. sock \in [Side -> [Ids -> Socket]]
    BY <1>1 DEF TypeOK
  <2> QED BY <1>1, <2>1, <2>2
<1>4. a.st = s.st /\ a.q = s.q \o <<Chunk(g)>>
  <2>1. Append(s.q, Chunk(g)) = s.q \o <<Chunk(g)>>
    BY <1>1, ChunkType, AppendIsConcat
  <2> QED BY <1>1, <2>1 DEF Socket
<1>5. Chunk(g) \in Chunks /\ Chunk(g).n = g.n /\ <<Chunk(g)>> \in Seq(Chunks)
  BY <1>1, ChunkType DEF Chunk
<1>6. Numbers(s.q \o <<Chunk(g)>>) = Numbers(s.q) \o x
  BY <1>1, <1>5, NumbersConcat, NumbersFew
<1> HIDE DEF a
<1>7. sock'[p][1] = a /\ fd'[p][1] = fd[p][1] /\ OnlyAt(p, 1)
  BY <1>1, <1>3, SockChange
<1>8. Moved(p, TRUE, <<>>)
  BY <1>3, FewMsgs, PipeGot
<1>9. PipeTransit'[p] = PipeTransit[p] /\ FarKept(p)
  BY <1>7, <1>8, FewMsgs, NoDataSent, FarView
<1>10. /\ Written(net[o]) = x \o y /\ y \in Seq(Nat) /\ x \in Seq(Nat) /\ Written(net'[o]) = y
       /\ Numbers(s.q) \in Seq(Nat)
  <2>1. Written(net[o]) = NumberIn(g) \o y /\ y \in Seq(Nat)
    BY PipeGot
  <2>2. NumberIn(g) = x
    BY <1>1 DEF NumberIn
  <2>3. x \in Seq(Nat)
    BY <1>1
  <2>4. Written(net'[o]) = y
    BY <1>8 DEF Moved
  <2> HIDE DEF x, y
  <2> QED BY <2>1, <2>2, <2>3, <2>4, PipeArriving
<1> HIDE DEF x, y
<1>11. PipeTransit'[o] = PipeTransit[o]
  <2>1. PipeTransit[o] = Numbers(s.q) \o (x \o y) /\ PipeTransit'[o] = (Numbers(s.q) \o x) \o y
    BY <1>1, <1>4, <1>6, <1>7, <1>10, PipeArriving DEF Arriving
  <2> DEFINE z == Numbers(s.q)
  <2>2. z \in Seq(Nat)
    BY <1>10
  <2> HIDE DEF z
  <2>3. (z \o x) \o y = z \o (x \o y)
    BY <1>10, <2>2, ThreeParts, Zenon
  <2> QED BY <2>1, <2>3 DEF z
<1>12. /\ PipeEnd'[p] = PipeEnd[p] /\ PipeHung'[p] = PipeHung[p] /\ PipeTook'[p] = PipeTook[p]
       /\ PipeGiven'[p] = PipeGiven[p]
  BY <1>4, <1>7, PipeHere DEF EndOf
<1> QED BY <1>9, <1>11, <1>12, StepNone

\* An end whose application hung up closes, with or without what it has queued.
LEMMA PipeQuits ==
    ASSUME InStep, NEW p \in Side, OnlyAt(p, 1), fd[p][1].hup # "no",
           fd'[p][1].hup = fd[p][1].hup, fd'[p][1].out = fd[p][1].out,
           \/ /\ sock[p][1].st \in {"open", "closing"} /\ sock'[p][1].st = "dead" /\ sock'[p][1].q = <<>>
           \/ /\ sock[p][1].st = "open" /\ sock'[p][1].st = "closing"
              /\ sock'[p][1].q = sock[p][1].q /\ sock[p][1].q # <<>>,
           \/ PipeTook'[p] = PipeTook[p] /\ PipeTransit'[p] = PipeTransit[p]
           \/ /\ PipeTook'[p] = PipeTook[p] + 1
              /\ \/ PipeTransit'[p] = Append(PipeTransit[p], PipeTook'[p])
                 \/ Pipe!MayLose(p) /\ PipeTransit'[p] = PipeTransit[p]
    PROVE  Pipe!Next
<1> DEFINE o == Other(p)
           s == sock[p][1]
           t == sock'[p][1]
           a == Numbers(t.q)
           w == IF s.st = "open" THEN Written(net[o]) ELSE <<>>
           b == IF t.st = "dead" THEN PipeTransit[o] ELSE w
<1>1. /\ s \in Socket /\ t \in Socket /\ s.q \in Seq(Chunks) /\ t.q \in Seq(Chunks)
      /\ a \in Seq(Nat) /\ w \in Seq(Nat) /\ Numbers(s.q) \in Seq(Nat)
  BY PipeSide, PipeArriving DEF Socket
<1>2. PipeTransit[o] = Numbers(s.q) \o w /\ PipeTransit[o] \in Seq(Nat)
  <2>1. PipeTransit[o] = Numbers(s.q) \o w
    BY PipeArriving DEF Arriving
  <2> HIDE DEF w
  <2> QED BY <1>1, <2>1, ConcatProperties
<1>3. PipeTransit'[o] = a
  <2>1. PipeTransit'[o] = a \o <<>>
    BY PipeArriving DEF Arriving
  <2> HIDE DEF a
  <2> QED BY <1>1, <2>1, ConcatEmptySeq
<1>4. b \in Seq(Nat) /\ PipeTransit[o] = a \o b
  <2>1. CASE t.st = "dead"
    <3>1. a = <<>> /\ <<>> \o PipeTransit[o] = PipeTransit[o]
      BY <1>2, <2>1, NumbersFew, ConcatEmptySeq
    <3> QED BY <1>2, <2>1, <3>1
  <2>2. CASE t.st # "dead"
    BY <1>1, <1>2, <2>2
  <2> QED BY <2>1, <2>2
<1>5. a = <<>> <=> t.q = <<>>
  BY <1>1, NumbersNone
<1>6. /\ PipeEnd'[p] = Pipe!After(a)
      /\ PipeEnd[p] = "open" \/ (PipeEnd[p] = "draining" /\ a = <<>>)
  <2>1. PipeEnd'[p] = EndOf(t)
    BY PipeHere
  <2>2. PipeEnd'[p] = IF t.q = <<>> THEN "closed" ELSE "draining"
    BY <1>1, <2>1, EndAt
  <2>3. PipeEnd'[p] = Pipe!After(a)
    BY <1>5, <2>2 DEF Pipe!After
  <2> QED BY <1>5, <2>3, EndAt
<1>7. PipeHung[p] /\ PipeHung'[p] = PipeHung[p] /\ PipeGiven'[p] = PipeGiven[p]
  <2>1. PipeHung[p] = (fd[p][1].hup # "no") /\ PipeHung'[p] = (fd'[p][1].hup # "no")
    BY PipeHere
  <2>2. PipeGiven'[p] = PipeGiven[p]
    BY PipeHere
  <2> QED BY <2>1, <2>2
<1>8. FarKept(p)
  BY FarView
<1> HIDE DEF a, b
<1> QED BY <1>1, <1>3, <1>4, <1>6, <1>7, <1>8, StepQuit DEF a

\* What becomes of an asocket that closes.
LEMMA ClosedPipe ==
    ASSUME NEW s \in Socket, NEW f \in Descriptor
    PROVE  /\ Closed(s, TRUE).st = "dead" /\ Closed(s, TRUE).q = <<>>
           /\ s.st = "closing" \/ s.q = <<>> => Closed(s, FALSE).st = "dead" /\ Closed(s, FALSE).q = <<>>
           /\ s.st # "closing" /\ s.q # <<>> => Closed(s, FALSE).st = "closing" /\ Closed(s, FALSE).q = s.q
           /\ CloseFd(s, f).got = f.got /\ CloseFd(s, f).out = f.out /\ CloseFd(s, f).hup = f.hup
<1>1. Closed(s, TRUE).st = "dead" /\ Closed(s, TRUE).q = <<>>
  BY DEF Closed, Dead, Asocket
<1>2. ASSUME s.st = "closing" \/ s.q = <<>> PROVE Closed(s, FALSE).st = "dead" /\ Closed(s, FALSE).q = <<>>
  BY <1>2 DEF Closed, Dead, Asocket
<1>3. ASSUME s.st # "closing" /\ s.q # <<>> PROVE Closed(s, FALSE).st = "closing" /\ Closed(s, FALSE).q = s.q
  BY <1>3 DEF Closed, Socket
<1>4. CloseFd(s, f).got = f.got /\ CloseFd(s, f).out = f.out /\ CloseFd(s, f).hup = f.hup
  BY DEF CloseFd, Descriptor
<1> QED BY <1>1, <1>2, <1>3, <1>4

\* No data goes with A_CLSE.
LEMMA ClosePipe ==
    ASSUME InStep, NEW p \in Side
    PROVE  /\ CloseMsgs(sock[p][1], 1) \in Seq(Packet)
           /\ \A m \in Els(CloseMsgs(sock[p][1], 1)) : m.cmd # "WRTE"
BY PipeSide, CloseMsgsView

\* An end closes for a write error, in the handler of A_WRTE or of FDE_WRITE.
LEMMA PipeError ==
    ASSUME InStep, NEW p \in Side, sock[p][1].st \in {"open", "closing"}, WriteFails(p, 1),
           sock' = [sock EXCEPT ![p][1] = Closed(sock[p][1], TRUE)],
           fd' = [fd EXCEPT ![p][1] = CloseFd(sock[p][1], fd[p][1])],
           NEW n \in BOOLEAN, Moved(p, n, CloseMsgs(sock[p][1], 1))
    PROVE  Pipe!Next
<1> DEFINE s == sock[p][1]
           f == fd[p][1]
<1>1. TypeOK /\ 1 \in Ids /\ s \in Socket /\ f \in Descriptor
  BY PipeSide DEF InStep, IInv
<1>2. sock'[p][1] = Closed(s, TRUE) /\ fd'[p][1] = CloseFd(s, f) /\ OnlyAt(p, 1)
  BY <1>1, OneChange
<1>3. /\ sock'[p][1].st = "dead" /\ sock'[p][1].q = <<>>
      /\ fd'[p][1].got = f.got /\ fd'[p][1].out = f.out /\ fd'[p][1].hup = f.hup
  <2> DEFINE t == Closed(s, TRUE)
             h == CloseFd(s, f)
  <2>1. t.st = "dead" /\ t.q = <<>> /\ h.got = f.got /\ h.out = f.out /\ h.hup = f.hup
    BY <1>1, ClosedPipe
  <2>2. sock'[p][1] = t /\ fd'[p][1] = h
    BY <1>2
  <2> HIDE DEF t, h
  <2> QED BY <2>1, <2>2
<1>4. f.hup # "no"
  BY DEF WriteFails
<1>5. PipeTransit'[p] = PipeTransit[p]
  BY <1>2, ClosePipe, NoDataSent
<1>6. PipeTook'[p] = PipeTook[p]
  BY <1>3, PipeHere
<1> QED BY <1>2, <1>3, <1>4, <1>5, <1>6, PipeQuits

\* A_WRTE whose write fails.
LEMMA PipeWrteFails ==
    ASSUME InStep, NEW p \in Side, net[Other(p)] # <<>>, HandleWrteFails(p, Got(p))
    PROVE  Pipe!Next
BY PipeData, ClosePipe, PipeGot, PipeError DEF HandleWrteFails, TypeOK

\* A_CLSE: the other end is gone, and nothing it sent is behind the A_CLSE.
LEMMA PipeClse ==
    ASSUME InStep, NEW p \in Side, net[Other(p)] # <<>>, HandleClse(p, Got(p))
    PROVE  Pipe!Next
<1> DEFINE g == Got(p)
           o == Other(p)
           s == sock[p][1]
           f == fd[p][1]
           a == Numbers(s.q)
<1>1. /\ TypeOK /\ 1 \in Ids /\ s \in Socket /\ f \in Descriptor /\ o \in Side /\ net[o] \in Seq(Packet)
      /\ s.q \in Seq(Chunks) /\ a \in Seq(Nat)
  <2>1. TypeOK /\ 1 \in Ids /\ s \in Socket /\ f \in Descriptor
    BY PipeSide DEF InStep, IInv
  <2>2. o \in Side /\ net[o] \in Seq(Packet) /\ s.q \in Seq(Chunks)
    BY <2>1, PipeSide DEF Socket
  <2> QED BY <2>1, <2>2, PipeArriving
<1>2. g.arg1 = 1 /\ s.st = "open" /\ g.cmd = "CLSE"
  <2>1. g.cmd = "CLSE" /\ Found(p, g.arg1, g.arg0)
    BY DEF HandleClse
  <2>2. Ids = {1}
    BY PipeSide
  <2> QED BY <2>1, <2>2 DEF Found
<1>3. /\ sock' = [sock EXCEPT ![p][1] = Closed(s, FALSE)]
      /\ fd' = [fd EXCEPT ![p][1] = CloseFd(s, f)]
      /\ Reply(p, CloseMsgs(s, 1))
  BY <1>1, <1>2 DEF HandleClse, TypeOK
<1>4. Moved(p, TRUE, CloseMsgs(s, 1))
  BY <1>3, ClosePipe, PipeGot
<1>5. sock'[p][1] = Closed(s, FALSE) /\ fd'[p][1] = CloseFd(s, f) /\ OnlyAt(p, 1)
  <2> DEFINE t == Closed(s, FALSE)
             h == CloseFd(s, f)
  <2>1. sock' = [sock EXCEPT ![p][1] = t] /\ fd' = [fd EXCEPT ![p][1] = h]
    BY <1>3
  <2> HIDE DEF t, h
  <2>2. sock'[p][1] = t /\ fd'[p][1] = h /\ OnlyAt(p, 1)
    BY <1>1, <2>1, OneChange
  <2> QED BY <2>2 DEF t, h
<1>6. /\ IF s.q = <<>> THEN sock'[p][1].st = "dead" /\ sock'[p][1].q = <<>>
         ELSE sock'[p][1].st = "closing" /\ sock'[p][1].q = s.q
      /\ fd'[p][1].got = f.got /\ fd'[p][1].out = f.out /\ fd'[p][1].hup = f.hup
  <2> DEFINE t == Closed(s, FALSE)
             h == CloseFd(s, f)
  <2>1. /\ s.q = <<>> => t.st = "dead" /\ t.q = <<>>
        /\ s.q # <<>> => t.st = "closing" /\ t.q = s.q
        /\ h.got = f.got /\ h.out = f.out /\ h.hup = f.hup
    BY <1>1, <1>2, ClosedPipe
  <2> HIDE DEF t, h
  <2>2. sock'[p][1] = t /\ fd'[p][1] = h
    BY <1>5 DEF t, h
  <2> QED BY <2>1, <2>2
<1>7. PipeTransit'[p] = PipeTransit[p] /\ FarKept(p)
  BY <1>4, <1>5, ClosePipe, NoDataSent, FarView
<1>8. ~Open(o, 1) /\ Written(net[o]) = <<>>
  <2>1. Len(net[o]) \in Nat /\ Len(net[o]) # 0 /\ net[o][1] = g
    BY <1>1, EmptySeq, HeadTailProperties DEF Got
  <2>2. ClseFinal(o) /\ 1 \in 1..Len(net[o])
    BY <1>1, <2>1, Sides DEF InStep, Begun
  <2>3. ASSUME NEW k \in 1..Len(net[o]) PROVE net[o][k].cmd # "WRTE"
    BY <1>2, <2>1, <2>2 DEF ClseFinal
  <2> QED BY <1>1, <1>2, <2>1, <2>2, <2>3, WrittenNone DEF ClseFinal
<1>9. PipeTransit[o] = a /\ PipeTransit'[o] = a
  <2>1. a \o <<>> = a
    BY <1>1, ConcatEmptySeq
  <2>2. sock'[p][1].q = s.q /\ sock'[p][1].st # "open"
    BY <1>6
  <2>3. PipeTransit[o] = a \o <<>> /\ PipeTransit'[o] = a \o <<>>
    BY <1>2, <1>8, <2>2, PipeArriving DEF Arriving
  <2> QED BY <2>1, <2>3
<1>10. PipeEnd[p] = "open" /\ PipeEnd[o] # "open" /\ PipeEnd'[p] = Pipe!After(a)
  BY <1>1, <1>2, <1>6, <1>8, EndAt, PipeSide, PipeAtNext, NumbersNone DEF Open, Pipe!After
<1>11. PipeHung'[p] = PipeHung[p] /\ PipeTook'[p] = PipeTook[p] /\ PipeGiven'[p] = PipeGiven[p]
  BY <1>6, PipeHere
<1> QED BY <1>7, <1>9, <1>10, <1>11, StepFollow

\* The application is given c, and d stays queued.
LEMMA PipeGives ==
    ASSUME InStep, NEW p \in Side, OnlyAt(p, 1), PipeTransit'[p] = PipeTransit[p],
           NEW c \in Seq(Chunks), NEW d \in Seq(Chunks), c # <<>>, sock[p][1].q = c \o d, sock'[p][1].q = d,
           net'[Other(p)] = net[Other(p)],
           fd'[p][1].out = fd[p][1].out \o c, fd'[p][1].hup = fd[p][1].hup, fd'[p][1].got = fd[p][1].got,
           \/ sock[p][1].st = "open" /\ sock'[p][1].st = "open"
           \/ sock[p][1].st = "closing" /\ sock'[p][1].st = (IF d = <<>> THEN "dead" ELSE "closing")
    PROVE  Pipe!Next
<1> DEFINE o == Other(p)
           s == sock[p][1]
           t == sock'[p][1]
           a == Numbers(c)
           w == IF s.st = "open" THEN Written(net[o]) ELSE <<>>
           b == Numbers(d) \o w
<1>1. s \in Socket /\ t \in Socket /\ fd[p][1].out \in Seq(Chunks) /\ FarKept(p)
  BY PipeSide, FarView DEF Descriptor
<1>2. a \in Seq(Nat) /\ Numbers(d) \in Seq(Nat) /\ w \in Seq(Nat) /\ a # <<>>
  BY NumbersOf, PipeArriving, NumbersNone
<1>3. b \in Seq(Nat)
  <2> HIDE DEF w
  <2> QED BY <1>2, ConcatProperties
<1>4. PipeTransit[o] = a \o b
  <2>1. PipeTransit[o] = Numbers(c \o d) \o w
    BY PipeArriving DEF Arriving
  <2>2. Numbers(c \o d) = a \o Numbers(d)
    BY NumbersConcat
  <2> DEFINE e == Numbers(d)
  <2>3. a \in Seq(Nat) /\ e \in Seq(Nat) /\ w \in Seq(Nat)
    BY <1>2
  <2> HIDE DEF a, e, w
  <2>4. (a \o e) \o w = a \o (e \o w)
    BY <2>3, ThreeParts, Zenon
  <2> QED BY <2>1, <2>2, <2>4 DEF e
<1>5. PipeTransit'[o] = b
  BY PipeArriving DEF Arriving
<1>6. PipeGiven'[p] = PipeGiven[p] \o a
  <2>1. Numbers(fd[p][1].out \o c) = Numbers(fd[p][1].out) \o a
    BY <1>1, NumbersConcat
  <2>2. PipeGiven[p] = Numbers(fd[p][1].out) /\ PipeGiven'[p] = Numbers(fd'[p][1].out)
    BY PipeHere
  <2>3. Numbers(fd'[p][1].out) = Numbers(fd[p][1].out \o c)
    BY Zenon
  <2> QED BY <2>1, <2>2, <2>3, Zenon
<1>7. PipeHung'[p] = PipeHung[p] /\ PipeTook'[p] = PipeTook[p]
  <2>1. PipeHung[p] = (fd[p][1].hup # "no") /\ PipeHung'[p] = (fd'[p][1].hup # "no")
    BY PipeHere
  <2>2. PipeTook'[p] = PipeTook[p]
    BY PipeHere
  <2> QED BY <2>1, <2>2
<1>8. PipeEnd'[p] = EndOf(t)
  BY PipeHere
<1>9. CASE s.st = "open"
  <2>1. PipeEnd[p] = "open" /\ PipeEnd'[p] = "open"
    BY <1>1, <1>8, <1>9, EndAt
  <2>2. PipeEnd[p] \in {"open", "draining"} /\ PipeEnd'[p] = IF PipeEnd[p] = "draining" THEN Pipe!After(b) ELSE PipeEnd[p]
    BY <2>1
  <2> HIDE DEF a, b, s, t
  <2> QED BY <1>1, <1>2, <1>3, <1>4, <1>5, <1>6, <1>7, <2>2, StepGive
<1>10. CASE s.st = "closing"
  <2>1. PipeEnd[p] = "draining" /\ PipeEnd'[p] = IF d = <<>> THEN "closed" ELSE "draining"
    BY <1>1, <1>8, <1>10, EndAt
  <2>2. b = Numbers(d)
    BY <1>2, <1>10, ConcatEmptySeq
  <2>3. Numbers(d) = <<>> <=> d = <<>>
    BY NumbersNone
  <2> HIDE DEF a, b
  <2>4. PipeEnd'[p] = Pipe!After(b)
    BY <2>1, <2>2, <2>3 DEF Pipe!After
  <2> QED BY <1>1, <1>2, <1>3, <1>4, <1>5, <1>6, <1>7, <2>1, <2>4, StepGive
<1> QED BY <1>9, <1>10

\* Nothing goes over the connection.
LEMMA NetKept ==
    ASSUME InStep, NEW p \in Side, OnlyAt(p, 1), net' = net
    PROVE  PipeTransit'[p] = PipeTransit[p] /\ Moved(p, FALSE, <<>>)
BY FarView, PipeSide, ConcatEmptySeq, FewMsgs DEF Moved

\* A queue in two parts.
LEMMA QueueParts ==
    ASSUME NEW q \in Seq(Chunks), NEW k \in 1..Len(q) - 1
    PROVE  LET c == SubSeq(q, 1, k)
               d == SubSeq(q, k + 1, Len(q))
           IN  c \in Seq(Chunks) /\ d \in Seq(Chunks) /\ c # <<>> /\ d # <<>> /\ q = c \o d
<1> DEFINE c == SubSeq(q, 1, k)
           d == SubSeq(q, k + 1, Len(q))
<1>1. Len(q) \in Nat /\ k \in Int /\ 1 <= k /\ k < Len(q) /\ \A i \in 1..Len(q) : q[i] \in Chunks
  BY LenProperties, ElementOfSeq
<1>2. c \in Seq(Chunks) /\ Len(c) = k /\ d \in Seq(Chunks) /\ Len(d) = Len(q) - k
  BY <1>1, SubSeqProperties
<1>3. c \o d = SubSeq(q, 1, Len(q))
  <2>1. 1 \in 1..Len(q) + 1 /\ k \in 1 - 1..Len(q) /\ Len(q) \in k..Len(q)
    BY <1>1
  <2> QED BY <2>1, ConcatAdjacentSubSeq
<1> HIDE DEF c, d
<1>4. c # <<>> /\ d # <<>>
  BY <1>1, <1>2
<1>5. q = c \o d
  BY <1>3, SubSeqFull
<1> QED BY <1>2, <1>4, <1>5 DEF c, d

\* FDE_WRITE: some of the queue is written.
LEMMA PipeWriteSome ==
    ASSUME InStep, NEW p \in Side, NEW k, WriteSome(p, 1, k)
    PROVE  Pipe!Next
<1> DEFINE s == sock[p][1]
           f == fd[p][1]
           c == SubSeq(s.q, 1, k)
           d == SubSeq(s.q, k + 1, Len(s.q))
           a == [s EXCEPT !.q = d]
           b == [f EXCEPT !.out = f.out \o c]
<1>1. TypeOK /\ 1 \in Ids /\ s \in Socket /\ f \in Descriptor /\ QueueOK(s) /\ StatusOK(s, f)
  BY PipeSide DEF InStep, IInv
<1>2. s.wr /\ s.q \in Seq(Chunks) /\ k \in 1..Len(s.q) - 1 /\ net' = net
  BY <1>1 DEF WriteSome, Socket
<1>3. c \in Seq(Chunks) /\ d \in Seq(Chunks) /\ c # <<>> /\ d # <<>> /\ s.q = c \o d
  BY <1>2, QueueParts
<1>4. sock' = [sock EXCEPT ![p][1] = a] /\ fd' = [fd EXCEPT ![p][1] = b]
  BY <1>1 DEF WriteSome, TypeOK
<1> HIDE DEF c, d
<1>5. /\ a.st = s.st /\ a.q = d /\ s.st \in {"open", "closing"}
      /\ b.out = f.out \o c /\ b.hup = f.hup /\ b.got = f.got
  BY <1>1, <1>2 DEF Socket, Descriptor, StatusOK
<1> HIDE DEF a, b
<1>6. sock'[p][1] = a /\ fd'[p][1] = b /\ OnlyAt(p, 1)
  BY <1>1, <1>4, OneChange
<1>7. PipeTransit'[p] = PipeTransit[p] /\ net'[Other(p)] = net[Other(p)]
  BY <1>2, <1>6, NetKept
<1> QED BY <1>3, <1>5, <1>6, <1>7, PipeGives

\* FDE_WRITE: the queue is written.
LEMMA PipeWriteAll ==
    ASSUME InStep, NEW p \in Side, WriteAll(p, 1)
    PROVE  Pipe!Next
<1> DEFINE s == sock[p][1]
           f == fd[p][1]
           b == [f EXCEPT !.out = f.out \o s.q]
<1>1. TypeOK /\ 1 \in Ids /\ s \in Socket /\ f \in Descriptor /\ QueueOK(s) /\ StatusOK(s, f)
  BY PipeSide DEF InStep, IInv
<1>2. s.wr /\ s.q \in Seq(Chunks) /\ s.q # <<>> /\ s.st \in {"open", "closing"} /\ s.peer \in Nat
  BY <1>1 DEF WriteAll, Socket, QueueOK, StatusOK
<1>3. fd' = [fd EXCEPT ![p][1] = b]
  BY <1>1 DEF WriteAll, TypeOK
<1>4. b.out = f.out \o s.q /\ b.hup = f.hup /\ b.got = f.got
  BY <1>1 DEF Descriptor
<1> HIDE DEF b
<1>5. s.q \o <<>> = s.q /\ <<>> \in Seq(Chunks)
  BY <1>2, ConcatEmptySeq
<1>6. CASE s.st = "closing"
  <2> DEFINE a == Closed(s, FALSE)
  <2>1. sock' = [sock EXCEPT ![p][1] = a] /\ net' = net
    BY <1>6 DEF WriteAll
  <2>2. a.st = "dead" /\ a.q = <<>>
    BY <1>1, <1>6, ClosedPipe
  <2> HIDE DEF a
  <2>3. sock'[p][1] = a /\ fd'[p][1] = b /\ OnlyAt(p, 1)
    BY <1>1, <1>3, <2>1, OneChange
  <2>4. PipeTransit'[p] = PipeTransit[p] /\ net'[Other(p)] = net[Other(p)]
    BY <2>1, <2>3, NetKept
  <2> QED BY <1>2, <1>4, <1>5, <1>6, <2>2, <2>3, <2>4, PipeGives
<1>7. CASE s.st = "open"
  <2> DEFINE a == [s EXCEPT !.q = <<>>, !.wr = FALSE]
             m == Pkt("OKAY", 1, s.peer)
  <2>1. sock' = [sock EXCEPT ![p][1] = a] /\ Send(p, <<m>>)
    BY <1>7 DEF WriteAll
  <2>2. a.st = "open" /\ a.q = <<>>
    BY <1>1, <1>7 DEF Socket
  <2>3. m \in Packet /\ m.cmd = "OKAY"
    BY <1>2, PktType DEF Pkt
  <2> HIDE DEF a, m
  <2>4. sock'[p][1] = a /\ fd'[p][1] = b /\ OnlyAt(p, 1)
    BY <1>1, <1>3, <2>1, OneChange
  <2>5. Moved(p, FALSE, <<m>>)
    BY <1>1, <2>1, <2>3, FewMsgs, SendMoves
  <2>6. PipeTransit'[p] = PipeTransit[p] /\ net'[Other(p)] = net[Other(p)]
    BY <2>3, <2>4, <2>5, FewMsgs, NoDataSent DEF Moved
  <2> QED BY <1>2, <1>4, <1>5, <1>7, <2>2, <2>4, <2>6, PipeGives
<1> QED BY <1>2, <1>6, <1>7

\* FDE_WRITE: the write fails.
LEMMA PipeWriteError ==
    ASSUME InStep, NEW p \in Side, WriteError(p, 1)
    PROVE  Pipe!Next
<1> DEFINE s == sock[p][1]
           ms == CloseMsgs(s, 1)
<1>1. TypeOK /\ 1 \in Ids /\ s \in Socket /\ StatusOK(s, fd[p][1])
  BY PipeSide DEF InStep, IInv
<1>2. s.wr /\ WriteFails(p, 1) /\ Send(p, ms)
  BY DEF WriteError
<1>3. s.st \in {"open", "closing"}
  BY <1>1, <1>2 DEF Socket, StatusOK
<1>4. /\ sock' = [sock EXCEPT ![p][1] = Closed(sock[p][1], TRUE)]
      /\ fd' = [fd EXCEPT ![p][1] = CloseFd(sock[p][1], fd[p][1])]
  BY <1>1 DEF WriteError, TypeOK
<1>5. Moved(p, FALSE, ms)
  <2>1. ms \in Seq(Packet)
    BY ClosePipe
  <2> HIDE DEF ms
  <2> QED BY <1>1, <1>2, <2>1, SendMoves
<1> QED BY <1>2, <1>3, <1>4, <1>5, PipeError

\* The application writes.
LEMMA PipeAppWrite ==
    ASSUME InStep, NEW p \in Side, AppWrite(p, 1)
    PROVE  UNCHANGED Pipe!pipe
<1> DEFINE f == fd[p][1]
           b == [f EXCEPT !.avail = f.avail + 1]
<1>1. TypeOK /\ 1 \in Ids /\ f \in Descriptor
  BY PipeSide DEF InStep, IInv
<1>2. sock' = sock /\ net' = net /\ fd' = [fd EXCEPT ![p][1] = b]
  BY <1>1 DEF AppWrite, TypeOK
<1>3. b.hup = f.hup /\ b.got = f.got /\ b.out = f.out
  BY <1>1 DEF Descriptor
<1> HIDE DEF b
<1>4. sock'[p][1] = sock[p][1] /\ fd'[p][1] = b /\ OnlyAt(p, 1)
  BY <1>1, <1>2, FdChange
<1>5. Moved(p, FALSE, <<>>)
  BY <1>2, <1>4, NetKept
<1> QED BY <1>3, <1>4, <1>5, FewMsgs, PipeRests

\* The application hangs up.
LEMMA PipeAppHangup ==
    ASSUME InStep, NEW p \in Side, NEW how \in Hangups, AppHangup(p, 1, how)
    PROVE  Pipe!Next
<1> DEFINE f == fd[p][1]
           o == Other(p)
           b == [f EXCEPT !.hup = how]
<1>1. TypeOK /\ 1 \in Ids /\ f \in Descriptor /\ how # "no" /\ o \in Side
  BY PipeSide, StreamAssumption DEF InStep, IInv
<1>2. sock' = sock /\ net' = net /\ fd' = [fd EXCEPT ![p][1] = b] /\ sock[p][1].st \in {"open", "closing"}
  BY <1>1 DEF AppHangup, TypeOK
<1>3. b.hup # "no" /\ b.got = f.got /\ b.out = f.out
  BY <1>1 DEF Descriptor
<1> HIDE DEF b
<1>4. sock'[p][1] = sock[p][1] /\ fd'[p][1] = b /\ OnlyAt(p, 1)
  BY <1>1, <1>2, FdChange
<1>5. PipeTransit'[p] = PipeTransit[p] /\ PipeTransit'[o] = PipeTransit[o]
  BY <1>1, <1>2, <1>4, NetKept, PipeArriving
<1>6. PipeEnd[p] \in {"open", "draining"} /\ PipeEnd'[p] = PipeEnd[p]
  BY <1>2, <1>4, EndAt, PipeHere
<1>7. PipeHung'[p] = TRUE
  BY <1>3, <1>4, PipeAtNext
<1>8. PipeTook'[p] = PipeTook[p] /\ PipeGiven'[p] = PipeGiven[p]
  BY <1>3, <1>4, PipeHere
<1> QED BY <1>4, <1>5, <1>6, <1>7, <1>8, FarView, StepHangup

\* An end with no peer may lose what it reads: it is closing, or it is the host that has
\* not seen the first A_OKAY and whose application hung up.
LEMMA PipeLoses ==
    ASSUME InStep, NEW p \in Side, Readable(p, 1), sock[p][1].peer = 0
    PROVE  Pipe!MayLose(p)
<1> DEFINE o == Other(p)
           r == sock[o][1]
           h == fd[o][1]
<1>1. o \in Side /\ p \in Pipe!Ends /\ o \in Pipe!Ends /\ Pipe!Far(p) = o /\ 1 \in Ids
  BY PipeSide DEF Pipe!Ends, Pipe!Far, Side, Other
<1>2. PipeHung[p]
  BY PipeSide, PipeAt DEF SockShape, Readable
<1>3. CASE ~(Open(p, 1) /\ Open(o, 1))
  BY <1>1, <1>3, EndAt DEF Pipe!MayLose, Open
<1>4. CASE Open(p, 1) /\ Open(o, 1)
  <2>1. p = "host" /\ o = "device"
    BY <1>4, Sides DEF InStep, Begun, DeviceMet, Peer
  <2>2. (\A m \in Els(net["host"]) : m.cmd = "OPEN") /\ RunsOf("device", 1) = {}
    BY <1>4, <2>1 DEF InStep, Begun, Unmet, Peer
  <2>3. r.q \in Seq(Chunks) /\ h.out \in Seq(Chunks) /\ net[p] \in Seq(Packet)
    BY <1>1, PipeSide DEF Socket, Descriptor
  <2>4. Els(r.q) = {} /\ Els(h.out) = {}
    BY <2>1, <2>2 DEF RunsOf
  <2>5. r.q = <<>> /\ h.out = <<>>
    BY <2>3, <2>4, ElsSmall
  <2>6. Written(net[p]) = <<>>
    BY <2>1, <2>2, <2>3, WrittenNone DEF Els
  <2>7. PipeTransit[p] = Arriving(r, net[p]) /\ PipeGiven[o] = Numbers(h.out)
    <3>1. Other(o) = p
      BY PipeSide
    <3>2. PipeTransit[Other(o)] = Arriving(r, net[Other(o)])
      BY <1>1, PipeArriving
    <3> QED BY <1>1, <3>1, <3>2, PipeAt
  <2>8. Numbers(<<>>) = <<>> /\ <<>> \o <<>> = <<>>
    BY NumbersFew
  <2>9. PipeTransit[p] = <<>> /\ PipeGiven[o] = <<>>
    BY <2>5, <2>6, <2>7, <2>8 DEF Arriving
  <2> QED BY <1>1, <1>2, <2>1, <2>9 DEF Pipe!MayLose
<1> QED BY <1>3, <1>4

\* What becomes of the chunk that is read.
Goes(p) ==
    \/ PipeTransit'[p] = Append(PipeTransit[p], PipeTook'[p])
    \/ Pipe!MayLose(p) /\ PipeTransit'[p] = PipeTransit[p]

\* Nothing is read, a chunk is sent, or it is dropped; A_CLSE may follow.
LEMMA PipeReads ==
    ASSUME InStep, NEW p \in Side, Readable(p, 1), OnlyAt(p, 1), NEW n \in 0..1,
           fd'[p][1].got = fd[p][1].got + n, NEW data, NEW cl \in Seq(Packet), \A x \in Els(cl) : x.cmd # "WRTE",
           NEW m \in Packet, m.cmd = "WRTE", m.n = fd[p][1].got + n,
           data = IF n > 0 /\ sock[p][1].peer # 0 THEN <<m>> ELSE <<>>,
           Moved(p, FALSE, data \o cl)
    PROVE  /\ n = 0 => PipeTook'[p] = PipeTook[p] /\ PipeTransit'[p] = PipeTransit[p]
           /\ n = 1 => PipeTook'[p] = PipeTook[p] + 1 /\ Goes(p)
<1> DEFINE o == Other(p)
<1>1. PipeTook[p] = fd[p][1].got /\ PipeTook'[p] = PipeTook[p] + n /\ fd[p][1].got \in Nat
  BY PipeSide, PipeHere DEF Descriptor
<1>2. ASSUME data = <<>> PROVE PipeTransit'[p] = PipeTransit[p]
  BY <1>2, ConcatEmptySeq, NoDataSent
<1>3. CASE n = 0
  BY <1>1, <1>2, <1>3
<1>4. CASE n = 1 /\ sock[p][1].peer = 0
  BY <1>1, <1>2, <1>4, PipeLoses DEF Goes
<1>5. CASE n = 1 /\ sock[p][1].peer # 0
  <2>1. data = <<m>> /\ m.n = PipeTook'[p] /\ Moved(p, FALSE, <<m>> \o cl)
    <3>1. data = <<m>> /\ m.n = PipeTook'[p]
      BY <1>1, <1>5
    <3> QED BY <3>1
  <2>2. /\ Open(o, 1) => PipeTransit'[p] = Append(PipeTransit[p], m.n)
        /\ ~Open(o, 1) => PipeTransit'[p] = PipeTransit[p]
    BY <2>1, DataSent
  <2>3. ~Open(o, 1) => Pipe!MayLose(p)
    BY PipeSide, EndAt DEF Pipe!Ends, Side, Pipe!MayLose, Open
  <2> QED BY <1>1, <1>5, <2>1, <2>2, <2>3 DEF Goes
<1> QED BY <1>3, <1>4, <1>5

\* FDE_READ.
LEMMA PipeRead ==
    ASSUME InStep, NEW p \in Side, NEW n \in 0..1, NEW is_eof \in BOOLEAN, ReadEvent(p, 1, n, is_eof)
    PROVE  Pipe!Next
<1> DEFINE s == sock[p][1]
           f == fd[p][1]
           o == Other(p)
           g == [f EXCEPT !.avail = @ - n, !.got = @ + n]
           m == Wrte(1, s.peer, g.got, g.run)
           data == IF n > 0 /\ s.peer # 0 THEN <<m>> ELSE <<>>
           after == IF data # <<>> THEN [s EXCEPT !.rd = FALSE] ELSE s
           cl == IF is_eof THEN CloseMsgs(after, 1) ELSE <<>>
           t == IF is_eof THEN Closed(after, FALSE) ELSE after
           h == IF is_eof THEN CloseFd(after, g) ELSE g
<1>f. TypeOK /\ 1 \in Ids /\ s \in Socket /\ f \in Descriptor /\ o \in Side
  BY PipeSide DEF InStep, IInv
<1>1. /\ Readable(p, 1) /\ s.st \in {"open", "closing"} /\ (is_eof => f.hup # "no") /\ (n = 0 => is_eof)
      /\ n \in 0..f.avail
  BY DEF ReadEvent, Readable
<1>2. /\ is_eof => /\ sock' = [sock EXCEPT ![p][1] = Closed(after, FALSE)]
                   /\ fd' = [fd EXCEPT ![p][1] = CloseFd(after, g)]
                   /\ Send(p, data \o CloseMsgs(after, 1))
      /\ ~is_eof => /\ sock' = [sock EXCEPT ![p][1] = after] /\ fd' = [fd EXCEPT ![p][1] = g]
                    /\ Send(p, data)
  BY DEF ReadEvent, LastMsgs
<1>3. g \in Descriptor /\ g.hup = f.hup /\ g.out = f.out /\ g.got = f.got + n /\ g.run \in Nat /\ g.got \in Nat
  <2>1. f.avail - n \in Nat /\ f.got + n \in Nat
    BY <1>f, <1>1 DEF Descriptor
  <2> QED BY <1>f, <2>1 DEF Descriptor
<1> HIDE DEF g
<1>4. m \in Packet /\ m.cmd = "WRTE" /\ m.n = f.got + n
  BY <1>f, <1>3, WrteType DEF Socket, Wrte, Pkt
<1> HIDE DEF m
<1>5. data \in Seq(Packet) /\ data \o <<>> = data
  <2>1. <<m>> \in Seq(Packet) /\ <<>> \in Seq(Packet)
    BY <1>4
  <2>2. data \in Seq(Packet)
    BY <2>1
  <2> HIDE DEF data
  <2> QED BY <2>2, ConcatEmptySeq
<1>d. data = IF n > 0 /\ s.peer # 0 THEN <<m>> ELSE <<>>
  OBVIOUS
<1> HIDE DEF data
<1>6. after \in Socket /\ after.st = s.st /\ after.q = s.q
  BY <1>f DEF Socket
<1> HIDE DEF after
<1>7. cl \in Seq(Packet) /\ \A x \in Els(cl) : x.cmd # "WRTE"
  BY <1>f, <1>6, CloseMsgsView, FewMsgs
<1>8. sock' = [sock EXCEPT ![p][1] = t] /\ fd' = [fd EXCEPT ![p][1] = h] /\ Send(p, data \o cl)
  BY <1>2, <1>5
<1>9. h.got = f.got + n /\ h.out = f.out /\ h.hup = f.hup
  BY <1>3, <1>6, ClosedPipe
<1>10. /\ ~is_eof => t = after
       /\ is_eof /\ (s.st = "closing" \/ s.q = <<>>) => t.st = "dead" /\ t.q = <<>>
       /\ is_eof /\ s.st # "closing" /\ s.q # <<>> => t.st = "closing" /\ t.q = s.q
  BY <1>3, <1>6, ClosedPipe
<1> HIDE DEF cl, t, h
<1>11. sock'[p][1] = t /\ fd'[p][1] = h /\ OnlyAt(p, 1)
  BY <1>f, <1>8, OneChange
<1>12. Moved(p, FALSE, data \o cl)
  <2> DEFINE ms == data \o cl
  <2>1. ms \in Seq(Packet) /\ Send(p, ms)
    BY <1>5, <1>7, <1>8, ConcatProperties
  <2> HIDE DEF ms
  <2>2. Moved(p, FALSE, ms)
    BY <1>f, <2>1, SendMoves
  <2> QED BY <2>2 DEF ms
<1>13. /\ n = 0 => PipeTook'[p] = PipeTook[p] /\ PipeTransit'[p] = PipeTransit[p]
       /\ n = 1 => PipeTook'[p] = PipeTook[p] + 1 /\ Goes(p)
  BY <1>d, <1>1, <1>4, <1>7, <1>9, <1>11, <1>12, PipeReads
<1>14. CASE is_eof
  BY <1>1, <1>9, <1>10, <1>11, <1>13, <1>14, PipeQuits DEF Goes
<1>15. CASE ~is_eof
  <2>1. n = 1 /\ t = after
    BY <1>1, <1>10, <1>15
  <2>2. PipeTransit'[o] = PipeTransit[o]
    <3>1. net'[o] = net[o]
      BY <1>12 DEF Moved
    <3> QED BY <1>6, <1>11, <2>1, <3>1, PipeArriving DEF Arriving
  <2>3. PipeEnd[p] \in {"open", "draining"} /\ PipeEnd'[p] = PipeEnd[p]
    BY <1>1, <1>6, <1>11, <2>1, EndAt, PipeHere DEF EndOf
  <2>4. PipeHung'[p] = PipeHung[p] /\ PipeGiven'[p] = PipeGiven[p]
    BY <1>9, <1>11, PipeHere
  <2> QED BY <1>11, <1>13, <2>1, <2>2, <2>3, <2>4, FarView, StepTake DEF Goes
<1> QED BY <1>14, <1>15

\* A packet that is handled.
LEMMA PipePacket ==
    ASSUME InStep, NEW p \in Side, HandlePacket(p)
    PROVE  Pipe!Next \/ UNCHANGED Pipe!pipe
<1> DEFINE g == Got(p)
<1>1. net[Other(p)] # <<>>
  BY DEF HandlePacket
<1>2. g.cmd # "CNXN" /\ online[p]
  BY <1>1, PipeGot, PipeSide
<1>3. \/ HandleOpen(p, g) \/ HandleOpenFails(p, g) \/ HandleOkay(p, g) \/ HandleOkayGone(p, g)
      \/ HandleWrte(p, g) \/ HandleWrteQueues(p, g) \/ HandleWrteFails(p, g)
      \/ HandleClse(p, g) \/ IgnoreStale(p, g)
      \/ (\E resend \in BOOLEAN : IgnoreOffline(p, g, resend)) \/ HandleCnxn(p, g)
  BY DEF HandlePacket, Got
<1>4. ~HandleCnxn(p, g) /\ ~\E resend \in BOOLEAN : IgnoreOffline(p, g, resend)
  BY <1>2 DEF HandleCnxn, IgnoreOffline
<1> QED BY <1>1, <1>3, <1>4, PipeOpen, PipeRefuses, PipeOkay, PipeWrte, PipeQueues, PipeWrteFails, PipeClse, PipeStale

\* Every step over the established connection.
LEMMA PipeStep ==
    ASSUME InStep, [Next]_vars
    PROVE  Pipe!Next \/ UNCHANGED Pipe!pipe
<1>1. CASE UNCHANGED vars
  BY <1>1, NothingChanges, NetKept, FewMsgs, PipeRests DEF vars, Side
<1>2. ASSUME NEW p \in Side, NEW i \in Ids, Event(p, i) \/ App(p, i) PROVE Pipe!Next \/ UNCHANGED Pipe!pipe
  BY <1>2, PipeSide, PipeWriteSome, PipeWriteAll, PipeWriteError, PipeRead, PipeAppWrite, PipeAppHangup DEF Event, App
<1>3. ~Connect /\ ~ResendConnect /\ ~Break /\ ~HostRestart /\ \A p \in Side : ~HandleOffline(p)
  BY BegunStep, NoFaults DEF InStep
<1> QED BY <1>1, <1>2, <1>3, PipeDial, PipePacket DEF Next

\* Before it is established the pipe does not see anything.
LEMMA PipeWaits ==
    ASSUME OneStream, IInv, StatusInv, NotYet, [Next]_vars
    PROVE  UNCHANGED Pipe!pipe
<1>1. sock' = sock /\ fd' = fd
  BY NotYetStep
<1>2. ASSUME NEW p \in Side PROVE InTransit(p)' = InTransit(p)
  BY <1>1, NotYetNone, Sides DEF InTransit, OnTheWire
<1>3. PipeTransit' = PipeTransit
  BY <1>2 DEF PipeTransit
<1>4. PipeEnd' = PipeEnd /\ PipeHung' = PipeHung /\ PipeTook' = PipeTook /\ PipeGiven' = PipeGiven
  BY <1>1 DEF PipeEnd, PipeHung, PipeTook, PipeGiven
<1> QED BY <1>3, <1>4 DEF Pipe!pipe

\* Every step.
LEMMA PipeSteps == OneStream /\ StreamsInv /\ PipeInv /\ [Next]_vars => Pipe!Next \/ UNCHANGED Pipe!pipe
<1> SUFFICES ASSUME OneStream, StreamsInv, PipeInv, [Next]_vars PROVE Pipe!Next \/ UNCHANGED Pipe!pipe
  OBVIOUS
<1>1. CASE NotYet
  BY <1>1, PipeWaits DEF StreamsInv
<1>2. CASE Begun
  BY <1>2, StreamsStep, PipeStep DEF InStep, StreamsInv, PipeInv
<1> QED BY <1>1, <1>2 DEF PipeInv

\* An end of the pipe is there for good.
LEMMA EndsStay ==
    ASSUME Pipe!Next \/ UNCHANGED Pipe!pipe, NEW q \in Side, PipeEnd[q] # "none"
    PROVE  PipeEnd'[q] # "none"
<1>1. PipeEnd = [r \in Side |-> PipeEnd[r]] /\ \A s : Pipe!After(s) # "none"
  BY PipeAt DEF Pipe!After
<1>2. CASE UNCHANGED Pipe!pipe
  BY <1>2 DEF Pipe!pipe
<1>3. ASSUME NEW p \in Pipe!Ends, NEW e, PipeEnd' = [PipeEnd EXCEPT ![p] = e], e # "none" \/ (e = PipeEnd[p])
      PROVE  PipeEnd'[q] # "none"
  BY <1>1, <1>3
<1>4. ASSUME NEW p \in Pipe!Ends, Pipe!Open(p) PROVE PipeEnd'[q] # "none"
  BY <1>1, <1>4 DEF Pipe!Open
<1>5. ASSUME NEW p \in Pipe!Ends, Pipe!Hangup(p) \/ Pipe!Take(p) PROVE PipeEnd'[q] # "none"
  BY <1>5 DEF Pipe!Hangup, Pipe!Take
<1>6. ASSUME NEW p \in Pipe!Ends, NEW k, Pipe!Quit(p, k) PROVE PipeEnd'[q] # "none"
  BY <1>1, <1>6 DEF Pipe!Quit
<1>7. ASSUME NEW p \in Pipe!Ends, Pipe!Follow(p) PROVE PipeEnd'[q] # "none"
  BY <1>1, <1>7 DEF Pipe!Follow
<1>8. ASSUME NEW p \in Pipe!Ends, NEW k, Pipe!Give(p, k) PROVE PipeEnd'[q] # "none"
  BY <1>1, <1>8 DEF Pipe!Give
<1> QED BY <1>2, <1>4, <1>5, <1>6, <1>7, <1>8 DEF Pipe!Next

\* The invariant of the refinement is inductive.
LEMMA PipeInvStep == OneStream /\ StreamsInv /\ PipeInv /\ [Next]_vars => PipeInv'
<1> SUFFICES ASSUME OneStream, StreamsInv, PipeInv, [Next]_vars PROVE PipeInv'
  OBVIOUS
<1>0. IInv /\ StatusInv /\ LinkInv /\ ShapeInv
  BY DEF StreamsInv, LinkInv
<1>1. CASE NotYet
  BY <1>0, <1>1, NotYetStep DEF Born, NotYet, Side, PipeInv
<1>2. CASE Begun
  <2>1. Begun'
    BY <1>0, <1>2, BegunStep
  <2>2. ASSUME NEW q \in Side, next'[q] # 1 PROVE PipeEnd'[q] # "none"
    <3>1. next[q] # 1 => PipeEnd'[q] # "none"
      BY PipeSteps, EndsStay DEF PipeInv, Born
    <3>2. CASE UNCHANGED vars
      BY <2>2, <3>1, <3>2 DEF vars
    <3>3. ASSUME NEW p \in Side, Works(p) PROVE next[q] # 1 \/ PipeEnd'[q] # "none"
      <4>1. PICK n \in BOOLEAN, ms \in Seq(Packet) : Plays(p, n, ms)
        BY <1>0, <1>2, <3>3, PlaysView
      <4>2. CASE q # p \/ GoesOn(p, n, ms)
        BY <2>2, <4>1, <4>2, Sides DEF Plays, GoesOn
      <4>3. CASE q = p /\ Begins(p, n, ms)
        BY <4>3, PipeAtNext DEF Begins, EndOf
      <4> QED BY <4>1, <4>2, <4>3 DEF Plays
    <3>4. ~Moves
      BY <1>0, <1>2, BegunWorks
    <3> QED BY <1>0, <3>1, <3>2, <3>3, <3>4, Views
  <2> QED BY <2>1, <2>2 DEF PipeInv, Born
<1> QED BY <1>1, <1>2 DEF PipeInv

\* It holds at the start.
LEMMA PipeBase == OneStream /\ Init => PipeInv /\ Pipe!Init
<1> SUFFICES ASSUME OneStream, Init PROVE PipeInv /\ Pipe!Init
  OBVIOUS
<1>1. next = [p \in Side |-> 1] /\ net = [p \in Side |-> <<>>] /\ online = [p \in Side |-> FALSE] /\ ~up
  BY DEF Init
<1>2. NotYet /\ Born
  BY <1>1 DEF NotYet, Born, Side
<1>3. \A p \in Side : sock[p][1] = NoSock /\ fd[p][1] = NewFd
  BY OneId DEF Init
<1>4. NoSock.st = "none" /\ NoSock.q = <<>> /\ NewFd.hup = "no" /\ NewFd.got = 0 /\ NewFd.out = <<>>
  BY DEF NoSock, Asocket, NewFd
<1>5. Numbers(<<>>) = <<>> /\ <<>> \o <<>> = <<>>
  BY NumbersFew
<1>6. \A p \in Side : /\ PipeEnd[p] = "none" /\ PipeHung[p] = FALSE /\ PipeTook[p] = 0 /\ PipeGiven[p] = <<>>
                      /\ PipeTransit[p] = <<>>
  <2>1. \A p \in Side : PipeEnd[p] = "none" /\ PipeTook[p] = 0 /\ PipeGiven[p] = <<>>
    <3>1. EndOf(NoSock) = "none"
      BY <1>4 DEF EndOf
    <3> QED BY <1>3, <1>4, <1>5, <3>1, PipeAt
  <2>2. \A p \in Side : PipeHung[p] = FALSE
    <3>1. \A p \in Side : fd[p][1].hup = "no"
      BY <1>3, <1>4
    <3>2. \A p \in Side : PipeHung[p] = (fd[p][1].hup # "no")
      BY PipeAt
    <3> QED BY <3>1, <3>2
  <2>3. \A p \in Side : PipeTransit[p] = <<>>
    <3>1. ASSUME NEW p \in Side PROVE InTransit(p) = <<>>
      BY <1>3, <1>4, <1>5, Sides DEF InTransit, OnTheWire
    <3> QED BY <3>1, PipeAt
  <2> QED BY <2>1, <2>2, <2>3
<1>7. Pipe!Ends = Side
  BY DEF Pipe!Ends, Side
<1>8. /\ PipeEnd = [p \in Side |-> "none"] /\ PipeHung = [p \in Side |-> FALSE] /\ PipeTook = [p \in Side |-> 0]
      /\ PipeTransit = [p \in Side |-> <<>>] /\ PipeGiven = [p \in Side |-> <<>>]
  <2>1. PipeEnd = [p \in Side |-> "none"] /\ PipeHung = [p \in Side |-> FALSE]
    BY <1>6 DEF PipeEnd, PipeHung
  <2>2. PipeTook = [p \in Side |-> 0]
    BY <1>6 DEF PipeTook
  <2>3. PipeTransit = [p \in Side |-> <<>>] /\ PipeGiven = [p \in Side |-> <<>>]
    BY <1>6 DEF PipeTransit, PipeGiven
  <2> QED BY <2>1, <2>2, <2>3
<1> QED BY <1>2, <1>7, <1>8 DEF PipeInv, Pipe!Init

\* local_socket_event_func, handle_packet and the closing list (sockets.cpp, adb.cpp): for
\* the applications at its ends the stream is the pipe of StreamPipe, however many chunks
\* they write and in whatever order packets, writes and hangups come.
THEOREM StreamIsPipe == ASSUME OneStream PROVE Spec => PipeSpec
<1>1. Init => StreamsInv /\ PipeInv /\ Pipe!Init
  BY PipeBase, StreamsBase
<1>2. StreamsInv /\ PipeInv /\ [Next]_vars => (StreamsInv /\ PipeInv)'
  BY PipeInvStep, StreamsStep
<1>3. StreamsInv /\ PipeInv /\ [Next]_vars => [Pipe!Next]_(Pipe!pipe)
  BY PipeSteps
<1> QED BY <1>1, <1>2, <1>3, PTL DEF Spec, PipeSpec, Pipe!Spec
=============================================================================
