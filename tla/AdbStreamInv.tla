---------------------------- MODULE AdbStreamInv ----------------------------
(***************************************************************************)
(* The inductive invariants of AdbStream that AdbStreamProofs proves:      *)
(* IInv and StatusInv for the queues and the status line; StreamsInv for   *)
(* NoHalfOpen, OneCredit and RunsApart; PipeInv for the refinement of      *)
(* StreamPipe.                                                             *)
(*                                                                         *)
(* StreamsInv tells three phases of a connection apart: A_CNXN of the host *)
(* is under way; the device has answered and the host has not seen it      *)
(* (Answering); none is (Calm).                                            *)
(***************************************************************************)
EXTENDS AdbStreamPipe

\* The inductive invariant: the queues of well-typed asockets.
IInv == TypeOK /\ QueueInv

\* What a client was told, against the asocket it is told by.
StatusOK(s, f) ==
    /\ f.reply = "await" <=> s.rig
    /\ f.reply = "FAIL" => s.st = "dead"
    /\ f.reply \in {"await", "FAIL"} => f.out = <<>>
    /\ s.st \in {"none", "dead"} => ~s.wr

\* Every asocket and its descriptor agree on the status the client still waits for.
ReplyInv == \A p \in Side, i \in Ids : StatusOK(sock[p][i], fd[p][i])

\* An id that install_local_socket has not handed out has a descriptor nobody used.
FreshInv ==
    \A p \in Side, i \in Ids : i >= next[p] => sock[p][i].st = "none" /\ fd[p][i] = NewFd

\* What the proof of StatusFirst adds to IInv.
StatusInv == ReplyInv /\ FreshInv

\* The remote id an asocket is connected to, 0 for none.
Peer(p, i) == sock[p][i].peer

\* The packets of a channel.
Els(s) == {s[k] : k \in 1..Len(s)}

\* The server processes that the chunks of a stream come from.
RunsOf(p, i) == {c.run : c \in Els(sock[p][i].q) \cup Els(fd[p][i].out)}

\* A_CNXN is nowhere but at the end of s.
CnxnLast(s) == \A k \in 1..Len(s) : s[k].cmd = "CNXN" => k = Len(s)

\* No A_CNXN is among the packets of s at or after k.
IsLate(s, k) == \A l \in k..Len(s) : s[l].cmd # "CNXN"

\* The packets that the last A_CNXN of a channel is followed by, and the others.
Late(s) == {s[k] : k \in {l \in 1..Len(s) : IsLate(s, l)}}
Early(s) == {s[k] : k \in {l \in 1..Len(s) : ~IsLate(s, l)}}

\* No A_CNXN is under way from p.
Quiet(p) == \A m \in Els(net[p]) : m.cmd # "CNXN"

\* At most one A_OPEN of asocket i is under way.
OneOpen(s, i) ==
    \A k, l \in 1..Len(s) :
        s[k].cmd = "OPEN" /\ s[l].cmd = "OPEN" /\ s[k].arg0 = i /\ s[l].arg0 = i => k = l

\* No A_OKAY(c, i) follows an A_CLSE(c, i).
Last(s, c, i) ==
    \A k, l \in 1..Len(s) :
        k < l /\ s[k].cmd = "CLSE" /\ s[k].arg0 = c /\ s[k].arg1 = i
            => ~(s[l].cmd = "OKAY" /\ s[l].arg0 = c /\ s[l].arg1 = i)

\* There is such a packet.
Has(t, c, a0, a1) == \E m \in t : m.cmd = c /\ m.arg0 = a0 /\ m.arg1 = a1

\* The ids that a packet carries.
Shape(m) ==
    /\ m.arg0 \in {0} \cup Ids /\ m.arg1 \in {0} \cup Ids
    /\ m.cmd = "CNXN" => m.arg0 = 0 /\ m.arg1 = 0
    /\ m.cmd = "OPEN" => m.arg0 # 0 /\ m.arg1 = 0
    /\ m.cmd \in {"OKAY", "WRTE"} => m.arg0 # 0 /\ m.arg1 # 0
    /\ m.cmd = "CLSE" => m.arg1 # 0

\* Only an open asocket is connected, only a connected one reads its descriptor.
SockShape(s) ==
    /\ s.peer \in {0} \cup Ids
    /\ s.st # "open" => s.peer = 0
    /\ s.peer = 0 => ~s.rd

\* The shape of every packet under way and of every asocket.
ShapeInv ==
    /\ \A p \in Side : \A m \in Els(net[p]) : Shape(m)
    /\ \A p \in Side, i \in Ids : SockShape(sock[p][i])

\* Streams are open on a side that is online; a connection on which no A_CNXN
\* is under way is online at both ends.
OnlineInv ==
    /\ \A p \in Side, i \in Ids : Open(p, i) => online[p]
    /\ up /\ Quiet("host") => online["device"]
    /\ up /\ Quiet("host") /\ Quiet("device") => online["host"]

\* The ids of the device, which is never restarted.
DeviceIds ==
    /\ \A m \in Els(net["device"]) : m.arg0 < next["device"]
    /\ \A m \in Els(net["host"]) : m.arg1 < next["device"]
    /\ \A i \in Ids : Peer("host", i) < next["device"]

\* The ids of the host, as far as its server process gave them.
HostIds ==
    /\ up => \A m \in Late(net["host"]) : m.cmd # "CLSE" => m.arg0 < next["host"]
    /\ up /\ Quiet("host") =>
          /\ \A m \in Late(net["device"]) : m.arg1 < next["host"]
          /\ \A i \in Ids : Peer("device", i) < next["host"]

\* The packets of t that asocket i sent agree with the peer it has.
SaidOK(peer, t, i) ==
    \A m \in t : m.arg0 = i => /\ m.cmd = "OPEN" => peer = 0
                               /\ m.cmd \in {"OKAY", "WRTE"} => peer = m.arg1

\* The device has handled every A_CNXN and the host has not handled the answer to the last one.
Answering == up /\ Quiet("host") /\ ~Quiet("device")

\* The host knows nothing of asocket j of the device, which was created since.
Unknown(j) ==
    /\ \A m \in Els(net["host"]) : m.arg1 # j
    /\ \A i \in Ids : Peer("host", i) # j
    /\ \A m \in Early(net["device"]) : m.arg0 # j
    /\ Peer("device", j) # 0 => Has(Late(net["device"]), "OKAY", j, Peer("device", j))
    /\ SaidOK(Peer("device", j), Late(net["device"]), j)
    /\ OneOpen(net["device"], j)

\* All that the device opened since it answered is unknown to the host.
AnswerInv == Answering => \A j \in Ids : Open("device", j) => Unknown(j)

\* No A_CNXN is under way on a connection that is up.
Calm == up /\ Quiet("host") /\ Quiet("device")

\* What asocket i of p and asocket c of the other side, its partner, know of each other.
Met(p, i, c) ==
    /\ Has(Els(net[Other(p)]), "CLSE", c, i) => ~Open(Other(p), c) /\ c < next[Other(p)]
    /\ Last(net[Other(p)], c, i)
    /\ Peer(p, i) = c \/ Has(Els(net[Other(p)]), "OKAY", c, i)
         => \/ Peer(Other(p), c) = i
            \/ Has(Els(net[p]), "OKAY", i, c)
            \/ Has(Els(net[Other(p)]), "CLSE", c, i)

\* Asocket i of p has the partner c, or none yet (0): nothing else of the other
\* side names it.
Stream(p, i, c) ==
    /\ Peer(p, i) \in {0, c}
    /\ \A m \in Els(net[Other(p)]) : m.arg1 = i => m.arg0 \in {0, c}
    /\ \A j \in Ids : Peer(Other(p), j) = i => j = c
    /\ SaidOK(Peer(p, i), Els(net[p]), i)
    /\ OneOpen(net[p], i)
    /\ \A m \in Els(net[p]) : m.cmd = "OPEN" /\ m.arg0 = i => c = 0
    /\ c # 0 => Met(p, i, c)

\* Every open asocket of a connection that has settled has one partner, or none yet.
StreamInv == Calm => \A p \in Side, i \in Ids : Open(p, i) => \E c \in {0} \cup Ids : Stream(p, i, c)

\* What both ends of a stream and the packets between them agree on.
LinkInv == ShapeInv /\ OnlineInv /\ DeviceIds /\ HostIds /\ AnswerInv /\ StreamInv

\* The places of the packets (c, a0, a1) in a channel.
At(s, c, a0, a1) == {k \in 1..Len(s) : s[k].cmd = c /\ s[k].arg0 = a0 /\ s[k].arg1 = a1}

\* A packet (c, a0, a1), and how many of them are in a channel.
Is(m, c, a0, a1) == m.cmd = c /\ m.arg0 = a0 /\ m.arg1 = a1
Num(s, c, a0, a1) == Cardinality(At(s, c, a0, a1))

\* Every A_WRTE(i, j) of a channel has an A_OKAY(i, j) in front of it.
First(s, i, j) ==
    \A k \in 1..Len(s) : Is(s[k], "WRTE", i, j) => \E l \in 1..Len(s) : l < k /\ Is(s[l], "OKAY", i, j)

\* Asocket i of p and asocket j of the other side are the ends of a stream, one
\* of which may not know of the other yet.
Linked(p, i, j) ==
    /\ Open(p, i) /\ Open(Other(p), j)
    /\ Peer(p, i) \in {0, j} /\ Peer(Other(p), j) \in {0, i}
    /\ Peer(p, i) = j \/ Peer(Other(p), j) = i

\* The token of the direction from asocket i of p to asocket j is in one place,
\* and j learns of its peer before it gets data.
Credit(p, i, j) ==
    /\ Peer(Other(p), j) = 0 => First(net[p], i, j)
    /\ fd[p][i].hup = "no" =>
          Num(net[p], "WRTE", i, j) + Num(net[Other(p)], "OKAY", j, i)
            + (IF sock[p][i].rd THEN 1 ELSE 0) + (IF sock[Other(p)][j].q # <<>> THEN 1 ELSE 0) = 1

\* The tokens of every stream of a connection that has settled.
CreditInv == Calm => \A p \in Side, i, j \in Ids : Linked(p, i, j) => Credit(p, i, j)

\* A_CNXN is sent at most once in s.
CnxnOnce(s) == \A k, l \in 1..Len(s) : s[k].cmd = "CNXN" /\ s[l].cmd = "CNXN" => k = l

\* What names asocket i of p was sent by the same server process, and so was what it got.
SameRuns(p, i) ==
    /\ RunsOf(p, i) \subseteq {fd[p][i].run}
    /\ \A m \in Els(net[Other(p)]) : m.cmd = "WRTE" /\ m.arg1 = i => m.run = fd[p][i].run
    /\ \A m \in Els(net[p]) : m.cmd = "OPEN" /\ m.arg0 = i => m.run = fd[p][i].run
    /\ \A j \in Ids : Open(Other(p), j) /\ Peer(p, i) = j => fd[Other(p)][j].run = fd[p][i].run

\* Asocket i of the device, of which the host knows nothing, got nothing.
NoRuns(i) ==
    /\ RunsOf("device", i) = {}
    /\ \A m \in Late(net["device"]) : m.cmd = "OPEN" /\ m.arg0 = i => m.run = fd["device"][i].run

\* The streams that are open once the device has handled every A_CNXN.
RunInv ==
    /\ Calm => \A p \in Side, i \in Ids : Open(p, i) => SameRuns(p, i)
    /\ Answering => \A i \in Ids : Open("device", i) => NoRuns(i)

\* No stream ever got data of another server process than its own.
OutOK == \A p \in Side, i \in Ids : RunsOf(p, i) \subseteq {fd[p][i].run}

\* Packet m, which p sent, names asockets that were created, of one server process.
IdOK(p, m) ==
    /\ m.cmd \in {"OPEN", "OKAY", "WRTE"} => m.arg0 < next[p]
    /\ m.cmd \in {"OPEN", "WRTE"} => m.run = fd[p][m.arg0].run
    /\ m.cmd \in {"OKAY", "WRTE"} => m.arg1 < next[Other(p)] /\ fd[Other(p)][m.arg1].run = fd[p][m.arg0].run

\* Every id in use, in an asocket or in a packet, was given by the process that is running.
NoReuse ==
    /\ \A p \in Side, i \in Ids :
          Peer(p, i) # 0 => Peer(p, i) < next[Other(p)] /\ fd[Other(p)][Peer(p, i)].run = fd[p][i].run
    /\ \A p \in Side : \A m \in Els(net[p]) : IdOK(p, m)

\* After the one restart of the server, until the device has handled A_CNXN.
Restarted ==
    /\ ~online["host"] /\ Quiet("device") /\ CnxnLast(net["host"])
    /\ up => ~Quiet("host")
    /\ \A m \in Els(net["host"]) : m.cmd = "WRTE" => m.arg1 < next["device"] /\ m.run = fd["device"][m.arg1].run

\* After it, until the host has handled the answer.
Answered ==
    /\ ~online["host"] /\ net["host"] = <<>> /\ ~Quiet("device") /\ CnxnOnce(net["device"])
    /\ \A m \in Late(net["device"]) : m.cmd = "OPEN" /\ m.run = fd["device"][m.arg0].run
    /\ \A j \in Ids : Peer("device", j) = 0

\* The first A_CNXN of a connection is under way, or its answer is.
Fresh ==
    /\ ~online["host"] /\ \A j \in Ids : Peer("device", j) = 0
    /\ \A m \in Els(net["device"]) : m.cmd \in {"CNXN", "OPEN"}
    /\ \/ net["host"] = <<Pkt("CNXN", 0, 0)>> /\ Quiet("device")
       \/ net["host"] = <<>> /\ CnxnOnce(net["device"])

\* While A_CNXN was sent at most once more than connections were made.
RunsInv ==
    /\ runs + resends < 2 => OutOK /\ (NoReuse \/ (runs = 1 /\ (Restarted \/ Answered)))
    /\ runs + resends = 0 /\ up => Fresh \/ Calm

\* The inductive invariant of the connection: the types, the queues, what a client was
\* told, what the packets under way say of both ends of a stream, its flow-control
\* tokens, and the server processes that its data comes from.
StreamsInv == IInv /\ StatusInv /\ LinkInv /\ CreditInv /\ RunInv /\ RunsInv

\* Before the host has handled the A_CNXN of the device nothing else was sent.
NotYet ==
    /\ ~online["host"] /\ next["host"] = 1 /\ next["device"] = 1
    /\ \/ ~up /\ ~online["device"] /\ net["host"] = <<>> /\ net["device"] = <<>>
       \/ up /\ ~online["device"] /\ net["host"] = <<Pkt("CNXN", 0, 0)>> /\ net["device"] = <<>>
       \/ up /\ online["device"] /\ net["host"] = <<>> /\ net["device"] = <<Pkt("CNXN", 0, 0)>>

\* Nothing was sent before the A_OPEN of the host...
Undialled == next["host"] = 1 => net["host"] = <<>> /\ net["device"] = <<>> /\ next["device"] = 1

\* ... and nothing is but it until the device has answered it.
OpenFirst ==
    /\ \A m \in Els(net["device"]) : m.cmd # "OPEN"
    /\ \A m \in Els(net["host"]) : m.cmd = "OPEN" =>
          next["device"] = 1 /\ net["host"] = <<m>> /\ net["device"] = <<>>

\* A side that has sent A_CLSE is closed and sends no more data.
ClseFinal(p) ==
    \A k \in 1..Len(net[p]) : net[p][k].cmd = "CLSE" =>
        /\ ~Open(p, 1)
        /\ \A l \in 1..Len(net[p]) : k < l => net[p][l].cmd # "WRTE"

\* Until the host has seen the first A_OKAY it has sent nothing else, and the
\* A_OKAY is ahead of anything the device has sent.
Unmet ==
    Open("host", 1) /\ Peer("host", 1) = 0 =>
        /\ \A m \in Els(net["host"]) : m.cmd = "OPEN"
        /\ RunsOf("device", 1) = {}
        /\ next["device"] # 1 => net["device"] # <<>> /\ Head(net["device"]).cmd = "OKAY"

\* The device has connected its end from the beginning.
DeviceMet == Open("device", 1) => Peer("device", 1) # 0

\* The connection is established.
Begun ==
    /\ up /\ online["host"] /\ online["device"] /\ Quiet("host") /\ Quiet("device")
    /\ Undialled /\ OpenFirst /\ ClseFinal("host") /\ ClseFinal("device") /\ Unmet /\ DeviceMet

\* An id that was handed out is that of an end.
Born == \A p \in Side : next[p] # 1 => PipeEnd[p] # "none"

\* What the refinement rests on.
PipeInv == Born /\ (NotYet \/ Begun)

=============================================================================
