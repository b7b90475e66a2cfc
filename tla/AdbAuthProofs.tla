--------------------------- MODULE AdbAuthProofs ---------------------------
(***************************************************************************)
(* AdbAuth: the types, that adbd's usb_transport never outlives the        *)
(* transport it points to, that exchanges do not multiply and that every   *)
(* drop of streams has its cause, for every number of keys and every bound.*)
(***************************************************************************)
EXTENDS AdbAuth, SequenceTheorems, FiniteSetTheorems, TLAPS

\* The device is to ask the framework again.
Repeats == IF retry THEN 1 ELSE 0
\* A host that is online has streams to drop.
Online == IF host.state = "device" THEN 1 ELSE 0

\* What the device has to answer.
Answers == {"CNXN", "SIGNATURE", "PUBKEY"}

\* An exchange that is under way, a key the user has not confirmed, an A_CNXN on its way
\* to the host, a host that is online and a drop: each stands for an A_CNXN that the host
\* has sent, the one a connection starts with among them, or for a confirmation that came
\* over from an earlier connection.
DropInv ==
    Count(toDev, Answers) + Count(toHost, {"TOKEN"}) + Repeats + asked + Count(toHost, {"CNXN"})
        + Online + drops <= 1 + resends + restarts + late

\* The inductive invariant.
IInv == TypeOK /\ UsbTransportAlive /\ CnxnFirst /\ OneExchange /\ DropInv /\ NoSpuriousDrop

\* The packets that the two sides build: A_CNXN, A_AUTH with a token, a
\* signature or the public key.
LEMMA PacketTypes ==
    /\ Cnxn \in Packets
    /\ Packet("PUBKEY", 0, 0) \in Packets
    /\ \A n \in Nat : Packet("TOKEN", 0, n) \in Packets
    /\ \A k \in 1..NKeys, n \in Nat : Packet("SIGNATURE", k, n) \in Packets
BY AuthAssumption DEF Cnxn, Packet, Packets

\* What a queue of packets keeps when one is taken from its head, when one is
\* written to it and when its end is lost.
LEMMA Queues ==
    ASSUME NEW q \in Seq(Packets)
    PROVE  /\ q # <<>> => q[1] = Head(q) /\ Head(q) \in Packets /\ Tail(q) \in Seq(Packets)
           /\ \A m \in Packets :
                 /\ Append(q, m) \in Seq(Packets)
                 /\ q # <<>> => Append(q, m)[1] = q[1]
                 /\ q = <<>> => Append(q, m)[1] = m
           /\ \A k \in 0..Len(q) :
                 /\ SubSeq(q, 1, k) \in Seq(Packets)
                 /\ SubSeq(q, 1, k) # <<>> => q # <<>> /\ SubSeq(q, 1, k)[1] = q[1]
                 /\ SubSeq(q, k + 1, Len(q)) \in Seq(Packets)
                 /\ q = <<>> => SubSeq(q, k + 1, Len(q)) = <<>>
<1>1. q # <<>> => q[1] = Head(q) /\ Head(q) \in Packets /\ Tail(q) \in Seq(Packets)
  OBVIOUS
<1>2. ASSUME NEW m \in Packets
      PROVE  /\ Append(q, m) \in Seq(Packets)
             /\ q # <<>> => Append(q, m)[1] = q[1]
             /\ q = <<>> => Append(q, m)[1] = m
  OBVIOUS
<1>3. ASSUME NEW k \in 0..Len(q)
      PROVE  /\ SubSeq(q, 1, k) \in Seq(Packets)
             /\ SubSeq(q, 1, k) # <<>> => q # <<>> /\ SubSeq(q, 1, k)[1] = q[1]
             /\ SubSeq(q, k + 1, Len(q)) \in Seq(Packets)
             /\ q = <<>> => SubSeq(q, k + 1, Len(q)) = <<>>
  OBVIOUS
<1> QED BY <1>1, <1>2, <1>3

\* How many packets of some kind are in a queue when one is written to its end or
\* taken from its head, and when a part of it is lost.
LEMMA CountLaws ==
    ASSUME NEW q \in Seq(Packets), NEW C
    PROVE  /\ Count(q, C) \in Nat
           /\ Count(<<>>, C) = 0
           /\ \A m \in Packets : m.cmd \in C => Count(Append(q, m), C) = Count(q, C) + 1 /\ Count(<<m>>, C) = 1
           /\ \A m \in Packets : m.cmd \notin C => Count(Append(q, m), C) = Count(q, C)
           /\ q # <<>> /\ Head(q).cmd \in C => Count(q, C) = Count(Tail(q), C) + 1
           /\ q # <<>> /\ Head(q).cmd \notin C => Count(q, C) = Count(Tail(q), C)
           /\ q # <<>> => Count(Tail(q), C) \in Nat
           /\ \A k \in 0..Len(q) : Count(SubSeq(q, 1, k), C) <= Count(q, C)
           /\ \A k \in 0..Len(q) : Count(SubSeq(q, k + 1, Len(q)), C) <= Count(q, C)
<1> DEFINE At(s) == {k \in 1..Len(s) : s[k].cmd \in C}
<1>f. \A s \in Seq(Packets) : IsFiniteSet(At(s)) /\ Count(s, C) = Cardinality(At(s)) /\ Count(s, C) \in Nat
  <2> SUFFICES ASSUME NEW s \in Seq(Packets) PROVE IsFiniteSet(At(s))
    BY FS_CardinalityType DEF Count
  <2>1. IsFiniteSet(1..Len(s)) /\ At(s) \subseteq 1..Len(s)
    BY FS_Interval
  <2> QED BY <2>1, FS_Subset
<1>0. Count(<<>>, C) = 0
  <2>1. At(<<>>) = {}
    OBVIOUS
  <2> QED BY <2>1, FS_EmptySet DEF Count
<1>1. ASSUME NEW m \in Packets PROVE Count(Append(q, m), C) = Count(q, C) + (IF m.cmd \in C THEN 1 ELSE 0)
  <2>0. Append(q, m) \in Seq(Packets) /\ Len(q) + 1 \notin At(q)
    OBVIOUS
  <2>1. /\ Count(q, C) = Cardinality(At(q)) /\ Count(q, C) \in Nat /\ IsFiniteSet(At(q))
        /\ Count(Append(q, m), C) = Cardinality(At(Append(q, m)))
    BY <1>f, <2>0
  <2>2. CASE m.cmd \in C
    <3>1. At(Append(q, m)) = At(q) \cup {Len(q) + 1}
      BY <2>2
    <3> HIDE DEF At
    <3>2. Cardinality(At(q) \cup {Len(q) + 1}) = Cardinality(At(q)) + 1
      BY <2>0, <2>1, FS_AddElement
    <3> QED BY <2>1, <2>2, <3>1, <3>2
  <2>3. CASE m.cmd \notin C
    <3>1. At(Append(q, m)) = At(q)
      BY <2>3
    <3> HIDE DEF At
    <3> QED BY <2>1, <2>3, <3>1
  <2> QED BY <2>2, <2>3
<1>i. ASSUME NEW s \in Seq(Packets), NEW k \in Nat, k + Len(s) <= Len(q), \A i \in 1..Len(s) : s[i] = q[i + k]
      PROVE  /\ {i \in At(q) : i \in k + 1 .. k + Len(s)} \subseteq At(q)
             /\ Cardinality({i \in At(q) : i \in k + 1 .. k + Len(s)}) = Count(s, C)
  <2> DEFINE T == {i \in At(q) : i \in k + 1 .. k + Len(s)}
             f == [i \in At(s) |-> i + k]
  <2>0. Len(s) \in Nat /\ Len(q) \in Nat
    OBVIOUS
  <2>1. f \in Bijection(At(s), T)
    <3>1. \A i \in At(s) : i + k \in T
      BY <1>i, <2>0
    <3>2. \A j \in T : j - k \in At(s) /\ (j - k) + k = j
      BY <1>i, <2>0
    <3>3. At(s) \subseteq Nat
      BY <2>0
    <3>4. f \in [At(s) -> T] /\ \A i \in At(s) : f[i] = i + k
      BY <3>1
    <3> HIDE DEF At, T, f
    <3>5. f \in Injection(At(s), T)
      BY <3>3, <3>4, <1>i DEF Injection, IsInjective
    <3>6. f \in Surjection(At(s), T)
      BY <3>2, <3>4 DEF Surjection
    <3> QED BY <3>5, <3>6 DEF Bijection
  <2>2. ExistsBijection(At(s), T)
    BY <2>1 DEF ExistsBijection
  <2>3. IsFiniteSet(T)
    BY <1>f, FS_Subset
  <2> HIDE DEF At, T
  <2>4. Cardinality(At(s)) = Cardinality(T)
    BY <1>f, <2>2, <2>3, FS_Bijection
  <2> QED BY <1>f, <2>4 DEF T
<1>2. ASSUME q # <<>> PROVE Count(q, C) = Count(Tail(q), C) + (IF Head(q).cmd \in C THEN 1 ELSE 0)
  <2> DEFINE T == {i \in At(q) : i \in 1 + 1 .. 1 + Len(Tail(q))}
  <2>1. Tail(q) \in Seq(Packets) /\ Len(Tail(q)) = Len(q) - 1 /\ Len(q) \in Nat \ {0} /\ q[1] = Head(q)
        /\ \A i \in 1..Len(Tail(q)) : Tail(q)[i] = q[i + 1]
    BY <1>2
  <2>2. Cardinality(T) = Count(Tail(q), C)
    <3>1. 1 + Len(Tail(q)) <= Len(q)
      BY <2>1
    <3> HIDE DEF At
    <3> QED BY <1>i, <2>1, <3>1
  <2>3. IsFiniteSet(T) /\ 1 \notin T
    <3>1. T \subseteq At(q)
      OBVIOUS
    <3>2. IsFiniteSet(T)
      BY <1>f, <3>1, FS_Subset
    <3> QED BY <2>1, <3>2
  <2>4. CASE Head(q).cmd \in C
    <3>1. At(q) = T \cup {1}
      BY <2>1, <2>4
    <3> HIDE DEF At, T
    <3> QED BY <1>f, <2>2, <2>3, <2>4, <3>1, FS_AddElement
  <2>5. CASE Head(q).cmd \notin C
    <3>1. At(q) = T
      BY <2>1, <2>5
    <3> HIDE DEF At, T
    <3> QED BY <1>f, <2>1, <2>2, <2>5, <3>1
  <2> QED BY <2>4, <2>5
<1>3. ASSUME NEW s \in Seq(Packets), NEW k \in Nat, k + Len(s) <= Len(q), \A i \in 1..Len(s) : s[i] = q[i + k]
      PROVE  Count(s, C) <= Count(q, C)
  <2> DEFINE T == {i \in At(q) : i \in k + 1 .. k + Len(s)}
  <2> HIDE DEF At
  <2>1. T \subseteq At(q) /\ Cardinality(T) = Count(s, C)
    BY <1>i, <1>3
  <2> HIDE DEF T
  <2>2. IsFiniteSet(At(q)) /\ Count(q, C) = Cardinality(At(q))
    BY <1>f
  <2> QED BY <2>1, <2>2, FS_Subset
<1>4. ASSUME NEW k \in 0..Len(q) PROVE Count(SubSeq(q, 1, k), C) <= Count(q, C)
  <2>1. SubSeq(q, 1, k) \in Seq(Packets) /\ 0 + Len(SubSeq(q, 1, k)) <= Len(q)
        /\ \A i \in 1..Len(SubSeq(q, 1, k)) : SubSeq(q, 1, k)[i] = q[i + 0]
    OBVIOUS
  <2>2. 0 \in Nat
    OBVIOUS
  <2> HIDE DEF At
  <2> QED BY <1>3, <2>1, <2>2
<1>5. ASSUME NEW k \in 0..Len(q) PROVE Count(SubSeq(q, k + 1, Len(q)), C) <= Count(q, C)
  <2> DEFINE s == SubSeq(q, k + 1, Len(q))
  <2>1. s \in Seq(Packets) /\ k \in Nat /\ k + Len(s) <= Len(q) /\ \A i \in 1..Len(s) : s[i] = q[i + k]
    OBVIOUS
  <2> HIDE DEF At, s
  <2>2. Count(s, C) <= Count(q, C)
    BY <1>3, <2>1
  <2> QED BY <2>2 DEF s
<1>6. ASSUME NEW m \in Packets, m.cmd \in C PROVE Count(<<m>>, C) = 1
  <2>1. At(<<m>>) = {1}
    BY <1>6
  <2>2. Cardinality({1}) = 1
    BY FS_Singleton
  <2> QED BY <2>1, <2>2 DEF Count
<1>7. q # <<>> => Count(Tail(q), C) \in Nat
  <2>1. q # <<>> => Tail(q) \in Seq(Packets)
    OBVIOUS
  <2> QED BY <1>f, <2>1
<1> HIDE DEF At
<1> QED BY <1>f, <1>0, <1>1, <1>2, <1>4, <1>5, <1>6, <1>7

\* The invariant holds initially.
LEMMA InitIInv == Init => IInv
<1> SUFFICES ASSUME Init PROVE IInv
  OBVIOUS
<1> USE AuthAssumption DEF Init, NewHost, NewDev
<1>1. HostType /\ DevType
  BY DEF HostType, DevType
<1>2. WireType /\ CountType
  BY DEF WireType, CountType
<1>3. FlagType /\ UsbTransportAlive /\ CnxnFirst
  BY DEF FlagType, UsbTransportAlive, CnxnFirst
<1>4. OneExchange /\ DropInv /\ NoSpuriousDrop
  <2>1. \A C : Count(<<>>, C) = 0
    <3>1. <<>> \in Seq(Packets)
      OBVIOUS
    <3> QED BY <3>1, CountLaws
  <2>2. host.state # "device"
    OBVIOUS
  <2> QED BY <2>1, <2>2 DEF OneExchange, DropInv, NoSpuriousDrop, Repeats, Online
<1> QED BY <1>1, <1>2, <1>3, <1>4 DEF IInv, TypeOK

\* The host's transport; NextKey() stays within the list of keys.
LEMMA HostStep == IInv /\ [Next]_vars => HostType'
<1> SUFFICES ASSUME IInv, [Next]_vars PROVE HostType'
  OBVIOUS
<1> USE AuthAssumption DEF HostType
<1>q. HostType
  BY DEF IInv, TypeOK
<1>1. CASE HandleToken
  <2>1. NextKey(host.next) \in 1..NKeys + 1
    BY <1>q DEF NextKey
  <2> QED BY <1>q, <1>1, <2>1 DEF HandleToken
<1>f. CASE HandleTokenFails
  <2>1. NextKey(host.next) \in 1..NKeys + 1
    BY <1>q DEF NextKey
  <2> QED BY <1>q, <1>f, <2>1 DEF HandleTokenFails
<1>2. CASE HostHandleCnxn
  BY <1>q, <1>2 DEF HostHandleCnxn
<1>3. CASE ResendConnect
  BY <1>q, <1>3 DEF ResendConnect
<1>4. CASE Connect
  BY <1>q, <1>4 DEF Connect, NewHost
<1>5. CASE HostRestart
  BY <1>q, <1>5 DEF HostRestart, NewHost
<1>6. CASE UNCHANGED vars
  BY <1>q, <1>6 DEF vars, wire, link, user
<1>7. CASE DevHandleCnxn \/ HandleSignature \/ HandlePublicKey \/
           DevHandleOffline \/ FrameworkConnects \/ FrameworkDisconnects \/
           FrameworkConfirms \/ Break
  <2>1. UNCHANGED host
    BY <1>7
       DEF DevHandleCnxn, HandleSignature, HandlePublicKey, DevHandleOffline,
           FrameworkConnects, FrameworkDisconnects, FrameworkConfirms, Break
  <2> QED BY <1>q, <2>1
<1> QED
  BY <1>f, <1>1, <1>2, <1>3, <1>4, <1>5, <1>6, <1>7
     DEF Next, HostHandles, DevHandles, Framework

\* send_auth_request changes the token of an atransport, or nothing but the mark
\* that it failed.
LEMMA RequestSent ==
    ASSUME NEW d \in [state : {"offline", "host"}, online : BOOLEAN, token : Nat, failed : BOOLEAN],
           tokens \in Nat, SendAuthRequest(d)
    PROVE  /\ dev' \in [state : {"offline", "host"}, online : BOOLEAN, token : Nat, failed : BOOLEAN]
           /\ dev'.state = d.state
           /\ tokens' \in Nat
<1>1. CASE dev' = [d EXCEPT !.token = tokens + 1] /\ tokens' = tokens + 1
  BY <1>1
<1>2. CASE dev' = [d EXCEPT !.failed = TRUE] /\ UNCHANGED tokens
  BY <1>2
<1> QED BY <1>1, <1>2 DEF SendAuthRequest

\* A_CNXN on the device leaves it with an atransport that is not offline.
LEMMA CnxnHandled ==
    ASSUME DevType, tokens \in Nat, DevHandleCnxn
    PROVE  DevType' /\ dev'.state = "host" /\ tokens' \in Nat
<1> DEFINE d == [dev EXCEPT !.state = "host", !.online = FALSE, !.failed = FALSE]
<1>1. /\ d \in [state : {"offline", "host"}, online : BOOLEAN, token : Nat, failed : BOOLEAN]
      /\ d.state = "host"
  BY DEF DevType
<1>2. SendAuthRequest(d)
  BY DEF DevHandleCnxn
<1> HIDE DEF d
<1> QED BY <1>1, <1>2, RequestSent DEF DevType

\* The device's transport.
LEMMA DevStep == IInv /\ [Next]_vars => DevType'
<1> SUFFICES ASSUME IInv, [Next]_vars PROVE DevType'
  OBVIOUS
<1> USE DEF DevType, CountType
<1>q. DevType /\ CountType
  BY DEF IInv, TypeOK
<1>1. CASE DevHandleCnxn
  BY <1>q, <1>1, CnxnHandled
<1>2. CASE HandleSignature
  <2>1. CASE Verify(Head(toDev))
    BY <1>q, <1>2, <2>1 DEF HandleSignature, AuthVerified
  <2>2. CASE ~Verify(Head(toDev))
    <3>1. SendAuthRequest(dev)
      BY <1>2, <2>2 DEF HandleSignature
    <3> QED BY <1>q, <3>1, RequestSent
  <2> QED BY <2>1, <2>2
<1>3. CASE DevHandleOffline
  BY <1>q, <1>3 DEF DevHandleOffline
<1>4. CASE FrameworkConnects
  <2>1. SendAuthRequest(dev) \/ dev' = dev
    BY <1>4 DEF FrameworkConnects
  <2> QED BY <1>q, <2>1, RequestSent
<1>5. CASE FrameworkConfirms
  BY <1>q, <1>5 DEF FrameworkConfirms, AuthVerified
<1>6. CASE Connect
  BY <1>q, <1>6 DEF Connect, NewDev
<1>7. CASE UNCHANGED vars
  BY <1>q, <1>7 DEF vars, wire, link, user
<1>8. CASE HandleToken \/ HandleTokenFails \/ HostHandleCnxn \/ ResendConnect \/
           HandlePublicKey \/ FrameworkDisconnects \/ Break \/ HostRestart
  <2>1. UNCHANGED dev
    BY <1>8
       DEF HandleToken, HandleTokenFails, HostHandleCnxn, ResendConnect, HandlePublicKey,
           FrameworkDisconnects, Break, HostRestart
  <2> QED BY <1>q, <2>1
<1> QED
  BY <1>1, <1>2, <1>3, <1>4, <1>5, <1>6, <1>7, <1>8
     DEF Next, HostHandles, DevHandles, Framework

\* The counters and the pointer usb_transport.
LEMMA CountStep == IInv /\ [Next]_vars => CountType'
<1> SUFFICES ASSUME IInv, [Next]_vars PROVE CountType'
  OBVIOUS
<1> USE DEF CountType
<1>q. CountType
  BY DEF IInv, TypeOK
<1>1. CASE HandleToken
  BY <1>q, <1>1 DEF HandleToken, link, user
<1>f. CASE HandleTokenFails
  BY <1>q, <1>f DEF HandleTokenFails, link, user
<1>2. CASE HostHandleCnxn
  BY <1>q, <1>2 DEF HostHandleCnxn, link, user
<1>3. CASE ResendConnect
  BY <1>q, <1>3 DEF ResendConnect, link, user
<1>4. CASE DevHandleCnxn
  <2>1. tokens' \in Nat
    BY <1>q, <1>4, CnxnHandled DEF IInv, TypeOK
  <2> QED BY <1>q, <1>4, <2>1 DEF DevHandleCnxn, UsbDisconnected, link, user
<1>5. CASE HandleSignature
  <2>1. tokens' \in Nat
    BY <1>q, <1>5 DEF HandleSignature, AuthVerified, SendAuthRequest
  <2> QED BY <1>q, <1>5, <2>1 DEF HandleSignature, link, user
<1>6. CASE HandlePublicKey
  BY <1>q, <1>6 DEF HandlePublicKey, link
<1>7. CASE DevHandleOffline
  BY <1>q, <1>7 DEF DevHandleOffline, UsbDisconnected, link, user
<1>8. CASE FrameworkConnects
  <2>1. tokens' \in Nat
    BY <1>q, <1>8 DEF FrameworkConnects, SendAuthRequest
  <2> QED BY <1>q, <1>8, <2>1 DEF FrameworkConnects, link
<1>9. CASE FrameworkDisconnects
  BY <1>q, <1>9 DEF FrameworkDisconnects, link
<1>10. CASE FrameworkConfirms
  BY <1>q, <1>10 DEF FrameworkConfirms, AuthVerified, link
<1>11. CASE Connect
  BY <1>q, <1>11 DEF Connect, user
<1>12. CASE Break
  BY <1>q, <1>12 DEF Break, user
<1>13. CASE HostRestart
  BY <1>q, <1>13 DEF HostRestart, user
<1>14. CASE UNCHANGED vars
  BY <1>q, <1>14 DEF vars, wire, link, user
<1> QED
  BY <1>q, <1>f, <1>1, <1>2, <1>3, <1>4, <1>5, <1>6, <1>7, <1>8, <1>9, <1>10, <1>11, <1>12, <1>13, <1>14
     DEF Next, HostHandles, DevHandles, Framework

\* The flags.
LEMMA FlagStep == IInv /\ [Next]_vars => FlagType'
<1> SUFFICES ASSUME IInv, [Next]_vars PROVE FlagType'
  OBVIOUS
<1> USE DEF FlagType
<1>q. FlagType
  BY DEF IInv, TypeOK
<1>1. CASE DevHandleCnxn
  BY <1>q, <1>1 DEF DevHandleCnxn, UsbDisconnected, link, user
<1>2. CASE HandlePublicKey
  BY <1>q, <1>2 DEF HandlePublicKey, link
<1>3. CASE DevHandleOffline
  BY <1>q, <1>3 DEF DevHandleOffline, UsbDisconnected, link, user
<1>4. CASE FrameworkConnects
  BY <1>q, <1>4 DEF FrameworkConnects, link
<1>5. CASE FrameworkDisconnects
  BY <1>q, <1>5 DEF FrameworkDisconnects, link
<1>6. CASE Connect
  BY <1>q, <1>6 DEF Connect, user
<1>7. CASE Break
  BY <1>q, <1>7 DEF Break, user
<1>8. CASE UNCHANGED vars
  BY <1>q, <1>8 DEF vars, wire, link, user
<1>9. CASE HandleToken \/ HandleTokenFails \/ HostHandleCnxn \/ ResendConnect \/
           HandleSignature \/ FrameworkConfirms \/ HostRestart
  <2>1. UNCHANGED <<up, framework, retry, installed>>
    BY <1>9
       DEF HandleToken, HandleTokenFails, HostHandleCnxn, ResendConnect, HandleSignature,
           FrameworkConfirms, HostRestart, wire, link, user
  <2> QED BY <1>q, <2>1
<1> QED
  BY <1>1, <1>2, <1>3, <1>4, <1>5, <1>6, <1>7, <1>8, <1>9
     DEF Next, HostHandles, DevHandles, Framework

\* Only the packets of PacketTypes travel.
LEMMA WireStep == IInv /\ [Next]_vars => WireType'
<1> SUFFICES ASSUME IInv, [Next]_vars PROVE WireType'
  OBVIOUS
<1> USE PacketTypes DEF WireType
<1>q. WireType /\ tokens \in Nat
  BY DEF IInv, TypeOK, CountType
<1>t. tokens + 1 \in Nat
  BY <1>q
<1>d. /\ toDev # <<>> => Head(toDev) \in Packets /\ Tail(toDev) \in Seq(Packets)
      /\ toHost # <<>> => Head(toHost) \in Packets /\ Tail(toHost) \in Seq(Packets)
      /\ \A m \in Packets : Append(toDev, m) \in Seq(Packets) /\ Append(toHost, m) \in Seq(Packets)
      /\ \A k \in 0..Len(toDev) : SubSeq(toDev, 1, k) \in Seq(Packets)
      /\ \A k \in 0..Len(toHost) : SubSeq(toHost, k + 1, Len(toHost)) \in Seq(Packets)
  BY <1>q, Queues
<1>1. CASE HandleToken
  <2>1. host.next \in 1..NKeys + 1 /\ Head(toHost).token \in Nat
    BY <1>1, <1>d DEF HandleToken, IInv, TypeOK, HostType, Packets
  <2>2. host.next <= NKeys => Packet("SIGNATURE", host.next, Head(toHost).token) \in Packets
    BY AuthAssumption, <2>1
  <2>3. toHost' \in Seq(Packets)
    BY <1>1, <1>d DEF HandleToken
  <2>4. CASE ~up \/ host.next > NKeys
    BY <1>1, <1>d, <1>q, <2>3, <2>4 DEF HandleToken
  <2>5. CASE up /\ ~(host.next > NKeys)
    <3>1. host.next <= NKeys
      BY AuthAssumption, <2>1, <2>5
    <3> QED BY <1>1, <1>d, <2>2, <2>3, <2>5, <3>1 DEF HandleToken
  <2> QED BY <2>4, <2>5
<1>f. CASE HandleTokenFails
  BY <1>q, <1>d, <1>f DEF HandleTokenFails
<1>2. CASE HostHandleCnxn
  BY <1>q, <1>t, <1>d, <1>2 DEF HostHandleCnxn
<1>3. CASE ResendConnect
  BY <1>q, <1>t, <1>d, <1>3 DEF ResendConnect
<1>4. CASE DevHandleCnxn
  BY <1>q, <1>t, <1>d, <1>4 DEF DevHandleCnxn, SendAuthRequest
<1>5. CASE HandleSignature
  BY <1>q, <1>t, <1>d, <1>5 DEF HandleSignature, AuthVerified, SendAuthRequest
<1>6. CASE HandlePublicKey
  BY <1>q, <1>t, <1>d, <1>6 DEF HandlePublicKey
<1>7. CASE DevHandleOffline
  BY <1>q, <1>t, <1>d, <1>7 DEF DevHandleOffline, wire
<1>8. CASE FrameworkConnects
  BY <1>q, <1>t, <1>d, <1>8 DEF FrameworkConnects, SendAuthRequest
<1>9. CASE FrameworkDisconnects
  BY <1>q, <1>t, <1>d, <1>9 DEF FrameworkDisconnects, wire
<1>10. CASE FrameworkConfirms
  BY <1>q, <1>t, <1>d, <1>10 DEF FrameworkConfirms, AuthVerified
<1>11. CASE Connect
  BY <1>q, <1>t, <1>d, <1>11 DEF Connect
<1>12. CASE Break
  BY <1>q, <1>t, <1>d, <1>12 DEF Break
<1>13. CASE HostRestart
  BY <1>q, <1>t, <1>d, <1>13, Queues DEF HostRestart
<1>14. CASE UNCHANGED vars
  BY <1>q, <1>t, <1>d, <1>14 DEF vars, wire, link, user
<1> QED
  BY <1>q, <1>t, <1>d, <1>f, <1>1, <1>2, <1>3, <1>4, <1>5, <1>6, <1>7, <1>8, <1>9, <1>10, <1>11, <1>12, <1>13, <1>14
     DEF Next, HostHandles, DevHandles, Framework

\* A device that is offline waits for the A_CNXN of its transport.
LEMMA CnxnStep == IInv /\ [Next]_vars => CnxnFirst'
<1> SUFFICES ASSUME IInv, [Next]_vars PROVE CnxnFirst'
  OBVIOUS
<1> USE DEF CnxnFirst, IInv, UsbTransportAlive
<1>q. /\ toDev \in Seq(Packets) /\ toHost \in Seq(Packets)
      /\ dev \in [state : {"offline", "host"}, online : BOOLEAN, token : Nat, failed : BOOLEAN]
  BY DEF TypeOK, DevType, WireType, CountType, FlagType
<1>c. Cnxn \in Packets /\ Cnxn.cmd = "CNXN"
  BY PacketTypes DEF Cnxn, Packet
<1>h. toDev # <<>> => toDev[1] = Head(toDev)
  BY <1>q
<1>1. CASE HandleToken
  BY <1>1 DEF HandleToken, link
<1>f. CASE HandleTokenFails
  BY <1>f DEF HandleTokenFails, link
<1>2. CASE HostHandleCnxn
  BY <1>2 DEF HostHandleCnxn, link
<1>3. CASE ResendConnect
  BY <1>3, <1>q, <1>c, Queues DEF ResendConnect, link
<1>4. CASE DevHandleCnxn
  <2>1. dev'.state = "host"
    BY <1>4, CnxnHandled DEF TypeOK, CountType
  <2> QED BY <1>4, <2>1 DEF DevHandleCnxn, SendAuthRequest, link
<1>5. CASE HandleSignature
  <2>1. dev.state # "offline"
    BY <1>5, <1>h DEF HandleSignature
  <2>2. dev'.state = dev.state
    BY <1>5, <1>q DEF HandleSignature, AuthVerified, SendAuthRequest
  <2> QED BY <1>5, <2>1, <2>2 DEF HandleSignature, AuthVerified, SendAuthRequest, link
<1>6. CASE HandlePublicKey
  BY <1>6, <1>h DEF HandlePublicKey, link
<1>7. CASE DevHandleOffline
  BY <1>7 DEF DevHandleOffline, wire, link
<1>8. CASE FrameworkConnects
  <2>1. dev'.state = dev.state
    BY <1>8, <1>q DEF FrameworkConnects, SendAuthRequest
  <2> QED BY <1>8, <2>1 DEF FrameworkConnects, SendAuthRequest, link
<1>9. CASE FrameworkDisconnects
  BY <1>9 DEF FrameworkDisconnects, wire, link
<1>10. CASE FrameworkConfirms
  <2>1. dev'.state = dev.state
    BY <1>10, <1>q DEF FrameworkConfirms, AuthVerified
  <2> QED BY <1>10, <2>1 DEF FrameworkConfirms, AuthVerified, link
<1>11. CASE Connect
  <2>1. conn' # 0
    BY <1>11 DEF Connect, TypeOK, CountType
  <2> QED BY <1>11, <1>c, <2>1 DEF Connect
<1>12. CASE Break
  BY <1>12, <1>q, Queues DEF Break
<1>13. CASE HostRestart
  <2> PICK k \in 0..Len(toDev) : toDev' = Append(SubSeq(toDev, 1, k), Cnxn)
    BY <1>13 DEF HostRestart
  <2> DEFINE q == SubSeq(toDev, 1, k)
  <2>1. q \in Seq(Packets) /\ (q # <<>> => toDev # <<>> /\ q[1] = toDev[1])
    BY <1>q, Queues
  <2>2. toDev'[1] = IF q = <<>> THEN Cnxn ELSE toDev[1]
    BY <1>c, <2>1, Queues
  <2>3. dev.state = "offline" => toHost' = <<>>
    BY <1>13, <1>q, Queues DEF HostRestart
  <2> QED BY <1>13, <1>c, <2>1, <2>2, <2>3 DEF HostRestart
<1>14. CASE UNCHANGED vars
  BY <1>14 DEF vars, wire, link
<1> QED
  BY <1>f, <1>1, <1>2, <1>3, <1>4, <1>5, <1>6, <1>7, <1>8, <1>9, <1>10, <1>11, <1>12, <1>13, <1>14
     DEF Next, HostHandles, DevHandles, Framework

\* usb_transport and needs_retry.
LEMMA UsbStep == IInv /\ [Next]_vars => UsbTransportAlive'
<1> SUFFICES ASSUME IInv, [Next]_vars PROVE UsbTransportAlive'
  OBVIOUS
<1> USE DEF UsbTransportAlive, IInv
<1>q. /\ toDev \in Seq(Packets) /\ conn \in Nat /\ usb \in Nat /\ retry \in BOOLEAN
      /\ dev \in [state : {"offline", "host"}, online : BOOLEAN, token : Nat, failed : BOOLEAN]
  BY DEF TypeOK, DevType, WireType, CountType, FlagType
<1>1. CASE HandleToken \/ HandleTokenFails \/ HostHandleCnxn \/ ResendConnect \/ FrameworkDisconnects \/ Break \/ HostRestart
  BY <1>1 DEF HandleToken, HandleTokenFails, HostHandleCnxn, ResendConnect, FrameworkDisconnects, Break, HostRestart, link
<1>2. CASE DevHandleCnxn
  <2>1. dev'.state = "host"
    BY <1>2, CnxnHandled DEF TypeOK, CountType
  <2> QED BY <1>2, <1>q, <2>1 DEF DevHandleCnxn, UsbDisconnected, link
<1>3. CASE HandleSignature
  <2>1. dev'.state = dev.state
    BY <1>3, <1>q DEF HandleSignature, AuthVerified, SendAuthRequest
  <2> QED BY <1>3, <2>1 DEF HandleSignature, link
<1>4. CASE HandlePublicKey
  <2>1. dev.state # "offline" /\ conn # 0
    BY <1>4, <1>q DEF HandlePublicKey, CnxnFirst
  <2> QED BY <1>4, <1>q, <2>1 DEF HandlePublicKey, link
<1>5. CASE DevHandleOffline
  BY <1>5, <1>q DEF DevHandleOffline, UsbDisconnected, link
<1>6. CASE FrameworkConnects
  <2>1. dev'.state = dev.state
    BY <1>6, <1>q DEF FrameworkConnects, SendAuthRequest
  <2> QED BY <1>6, <2>1 DEF FrameworkConnects, link
<1>7. CASE FrameworkConfirms
  <2>1. dev'.state = dev.state
    BY <1>7, <1>q DEF FrameworkConfirms, AuthVerified
  <2> QED BY <1>7, <2>1 DEF FrameworkConfirms, link
<1>8. CASE Connect
  BY <1>8 DEF Connect
<1>9. CASE UNCHANGED vars
  BY <1>9 DEF vars, link
<1> QED
  BY <1>1, <1>2, <1>3, <1>4, <1>5, <1>6, <1>7, <1>8, <1>9
     DEF Next, HostHandles, DevHandles, Framework

\* Every A_CNXN the host has sent pays for one exchange, and every exchange for one
\* answer of the device that takes the host online.
LEMMA BudgetStep == IInv /\ [Next]_vars => (OneExchange /\ DropInv /\ NoSpuriousDrop)'
<1> SUFFICES ASSUME IInv, [Next]_vars PROVE (OneExchange /\ DropInv /\ NoSpuriousDrop)'
  OBVIOUS
<1>t. /\ toDev \in Seq(Packets) /\ toHost \in Seq(Packets) /\ tokens \in Nat
      /\ retry \in BOOLEAN /\ up \in BOOLEAN
      /\ host \in [state : {"offline", "unauthorized", "device"}, next : 1..NKeys + 1, resent : BOOLEAN,
                   failed : BOOLEAN]
  BY DEF IInv, TypeOK, WireType, FlagType, HostType, CountType
<1>n. /\ asked \in Nat /\ drops \in Nat /\ late \in Nat /\ resends \in Nat /\ restarts \in Nat
  BY DEF IInv, TypeOK, CountType
<1>0. PICK d0 \in Nat, t0 \in Nat, c0 \in Nat, r0 \in Nat, o0 \in Nat :
         /\ d0 = Count(toDev, Answers) /\ t0 = Count(toHost, {"TOKEN"}) /\ c0 = Count(toHost, {"CNXN"})
         /\ r0 = Repeats /\ o0 = Online
  BY <1>t, CountLaws DEF Repeats, Online
<1>m. PICK d1 \in Nat, t1 \in Nat, c1 \in Nat, r1 \in Nat, o1 \in Nat, a1 \in Nat :
         /\ d1 = Count(toDev', Answers) /\ t1 = Count(toHost', {"TOKEN"}) /\ c1 = Count(toHost', {"CNXN"})
         /\ r1 = Repeats' /\ o1 = Online' /\ a1 = asked'
  <2>1. toDev' \in Seq(Packets) /\ toHost' \in Seq(Packets) /\ asked' \in Nat
    BY WireStep, CountStep DEF WireType, CountType
  <2> QED BY <2>1, CountLaws DEF Repeats, Online
<1>i. /\ d0 + t0 + r0 <= 1 + resends + restarts
      /\ d0 + t0 + r0 + asked + c0 + o0 + drops <= 1 + resends + restarts + late
      /\ drops <= resends + restarts + late
  BY <1>0 DEF IInv, OneExchange, DropInv, Repeats, NoSpuriousDrop, Answers
<1>g. ASSUME /\ d1 + t1 + r1 <= 1 + resends' + restarts'
             /\ d1 + t1 + r1 + a1 + c1 + o1 + drops' <= 1 + resends' + restarts' + late'
             /\ drops' <= resends' + restarts' + late'
      PROVE (OneExchange /\ DropInv /\ NoSpuriousDrop)'
  BY <1>g, <1>m DEF OneExchange, DropInv, Repeats, NoSpuriousDrop, Answers
<1>p. /\ Cnxn.cmd = "CNXN" /\ Cnxn \in Packets
      /\ Packet("PUBKEY", 0, 0).cmd = "PUBKEY" /\ Packet("PUBKEY", 0, 0) \in Packets
      /\ Packet("TOKEN", 0, tokens + 1).cmd = "TOKEN" /\ Packet("TOKEN", 0, tokens + 1) \in Packets
      /\ \A k, x : Packet("SIGNATURE", k, x).cmd = "SIGNATURE"
  BY <1>t, PacketTypes DEF Cnxn, Packet
<1>a. /\ \A m \in Packets : m.cmd \in Answers => Count(Append(toDev, m), Answers) = d0 + 1
      /\ \A m \in Packets : m.cmd = "TOKEN" =>
            Count(Append(toHost, m), {"TOKEN"}) = t0 + 1 /\ Count(Append(toHost, m), {"CNXN"}) = c0
      /\ \A m \in Packets : m.cmd = "CNXN" =>
            Count(Append(toHost, m), {"TOKEN"}) = t0 /\ Count(Append(toHost, m), {"CNXN"}) = c0 + 1
  BY <1>0, <1>t, CountLaws
<1>h. /\ toDev # <<>> /\ Head(toDev).cmd \in Answers =>
            d0 = Count(Tail(toDev), Answers) + 1 /\ Count(Tail(toDev), Answers) \in Nat
      /\ toHost # <<>> /\ Head(toHost).cmd = "TOKEN" =>
            /\ t0 = Count(Tail(toHost), {"TOKEN"}) + 1 /\ Count(Tail(toHost), {"TOKEN"}) \in Nat
            /\ c0 = Count(Tail(toHost), {"CNXN"})
      /\ toHost # <<>> /\ Head(toHost).cmd = "CNXN" =>
            /\ t0 = Count(Tail(toHost), {"TOKEN"})
            /\ c0 = Count(Tail(toHost), {"CNXN"}) + 1 /\ Count(Tail(toHost), {"CNXN"}) \in Nat
  BY <1>0, <1>t, CountLaws
<1>e. \A C : Count(<<>>, C) = 0
  BY <1>0, <1>t, CountLaws
<1>r. ASSUME NEW d, SendAuthRequest(d) PROVE t1 \in {t0, t0 + 1} /\ c1 = c0
  <2>1. CASE UNCHANGED toHost
    BY <1>0, <1>m, <2>1
  <2>2. CASE toHost' = Append(toHost, Packet("TOKEN", 0, tokens + 1))
    BY <1>0, <1>m, <1>a, <1>p, <2>2
  <2> QED BY <1>r, <2>1, <2>2 DEF SendAuthRequest
<1>v. ASSUME AuthVerified PROVE t1 = t0 /\ c1 \in {c0, c0 + 1}
  <2>1. CASE UNCHANGED toHost
    BY <1>0, <1>m, <2>1
  <2>2. CASE toHost' = Append(toHost, Cnxn)
    BY <1>0, <1>m, <1>a, <1>p, <2>2
  <2> QED BY <1>v, <2>1, <2>2 DEF AuthVerified
<1>k. ASSUME d1 + t1 + r1 <= d0 + t0 + r0,
             d1 + t1 + r1 + a1 + c1 <= d0 + t0 + r0 + asked + c0,
             o1 = o0, UNCHANGED <<drops, resends, restarts, late>>
      PROVE (OneExchange /\ DropInv /\ NoSpuriousDrop)'
  <2>1. d1 + t1 + r1 <= 1 + resends + restarts
    BY <1>i, <1>k, <1>n
  <2>2. PICK x \in Nat, y \in Nat : x = d0 + t0 + r0 + asked + c0 /\ y = d1 + t1 + r1 + a1 + c1
    <3>1. d0 + t0 + r0 + asked + c0 \in Nat /\ d1 + t1 + r1 + a1 + c1 \in Nat
      BY <1>n
    <3> QED BY <3>1
  <2>3. x + o0 + drops <= 1 + resends + restarts + late
    BY <1>i, <2>2
  <2>4. y <= x
    BY <1>k, <2>2
  <2>5. y + o0 + drops <= 1 + resends + restarts + late
    BY <1>n, <2>3, <2>4
  <2> QED BY <1>g, <1>i, <1>k, <2>1, <2>2, <2>5
<1>o. /\ (host'.state = "device" <=> host.state = "device") => o1 = o0
      /\ retry' = retry => r1 = r0
      /\ (retry' => retry) => r1 <= r0
      /\ retry => r0 = 1
      /\ r1 <= 1
      /\ ~retry' => r1 = 0
      /\ host.state = "device" => o0 = 1
      /\ host.state # "device" => o0 = 0
      /\ host'.state = "device" => o1 = 1
      /\ host'.state # "device" => o1 = 0
  BY <1>0, <1>m DEF Online, Repeats
<1> USE DEF link, user, wire
<1>1. CASE HandleToken
  <2>1. t0 = t1 + 1 /\ c1 = c0
    BY <1>0, <1>m, <1>1, <1>h DEF HandleToken
  <2>2. d1 \in {d0, d0 + 1}
    <3>1. CASE UNCHANGED toDev
      BY <1>0, <1>m, <3>1
    <3>2. CASE toDev' = Append(toDev, Packet("PUBKEY", 0, 0))
      BY <1>0, <1>m, <1>a, <1>p, <3>2 DEF Answers
    <3>3. CASE ~(host.next > NKeys) /\ toDev' = Append(toDev, Packet("SIGNATURE", host.next, Head(toHost).token))
      <4>1. host.next \in 1..NKeys
        BY AuthAssumption, <1>t, <3>3
      <4>2. Head(toHost).token \in Nat
        BY <1>1, <1>t, Queues DEF HandleToken, Packets
      <4>3. Packet("SIGNATURE", host.next, Head(toHost).token) \in Packets
        BY <4>1, <4>2, PacketTypes
      <4>4. Packet("SIGNATURE", host.next, Head(toHost).token).cmd \in Answers
        BY <1>p DEF Answers
      <4>5. Count(toDev', Answers) = d0 + 1
        BY <1>a, <3>3, <4>3, <4>4
      <4> QED BY <1>m, <4>5
    <3> QED BY <1>1, <3>1, <3>2, <3>3 DEF HandleToken
  <2>3. host'.state = "device" <=> host.state = "device"
    BY <1>1, <1>t DEF HandleToken
  <2>4. UNCHANGED <<retry, drops, resends, restarts, late>> /\ a1 = asked
    BY <1>m, <1>1 DEF HandleToken
  <2> QED BY <1>k, <1>n, <1>o, <2>1, <2>2, <2>3, <2>4
<1>2. CASE HandleTokenFails
  <2>1. t0 = t1 + 1 /\ c1 = c0 /\ d1 = d0
    BY <1>0, <1>m, <1>2, <1>h DEF HandleTokenFails
  <2>2. host'.state = "device" <=> host.state = "device"
    BY <1>2, <1>t DEF HandleTokenFails
  <2>3. UNCHANGED <<retry, drops, resends, restarts, late>> /\ a1 = asked
    BY <1>m, <1>2 DEF HandleTokenFails
  <2> QED BY <1>k, <1>n, <1>o, <2>1, <2>2, <2>3
<1>3. CASE HostHandleCnxn
  <2>1. t1 = t0 /\ c0 = c1 + 1 /\ d1 = d0
    BY <1>0, <1>m, <1>3, <1>h DEF HostHandleCnxn
  <2>2. o1 = 1 /\ drops' = drops + o0
    <3>1. host'.state = "device" /\ drops' = IF host.state = "device" THEN drops + 1 ELSE drops
      BY <1>3, <1>t DEF HostHandleCnxn
    <3> QED BY <1>n, <1>o, <3>1
  <2>3. UNCHANGED <<retry, resends, restarts, late>> /\ a1 = asked /\ r1 = r0
    BY <1>m, <1>3, <1>o DEF HostHandleCnxn
  <2>4. /\ d1 + t1 + r1 + a1 + c1 + o1 + drops' <= 1 + resends + restarts + late
        /\ drops' <= resends + restarts + late
    BY <1>i, <1>n, <2>1, <2>2, <2>3
  <2> QED BY <1>g, <1>i, <2>1, <2>3, <2>4
<1>4. CASE ResendConnect
  <2>1. t1 = t0 /\ c1 = c0 /\ d1 = d0 + 1
    BY <1>0, <1>m, <1>4, <1>a, <1>p DEF ResendConnect, Answers
  <2>2. o1 = o0 /\ r1 = r0 /\ resends' = resends + 1
    BY <1>4, <1>o, <1>t DEF ResendConnect
  <2>3. UNCHANGED <<drops, restarts, late>> /\ a1 = asked
    BY <1>m, <1>4 DEF ResendConnect
  <2> QED BY <1>g, <1>i, <1>n, <2>1, <2>2, <2>3
<1>5. CASE DevHandleCnxn
  <2>1. d0 = d1 + 1
    BY <1>0, <1>m, <1>5, <1>h DEF DevHandleCnxn, Answers
  <2>2. t1 \in {t0, t0 + 1} /\ c1 = c0
    BY <1>5, <1>r DEF DevHandleCnxn
  <2>3. r1 <= r0
    BY <1>5, <1>o DEF DevHandleCnxn, UsbDisconnected
  <2>4. UNCHANGED <<host, drops, resends, restarts, late>> /\ a1 = asked
    BY <1>m, <1>5 DEF DevHandleCnxn
  <2> QED BY <1>k, <1>n, <1>o, <2>1, <2>2, <2>3, <2>4
<1>6. CASE HandleSignature
  <2>1. d0 = d1 + 1
    BY <1>0, <1>m, <1>6, <1>h DEF HandleSignature, Answers
  <2>2. (t1 = t0 /\ c1 \in {c0, c0 + 1}) \/ (t1 \in {t0, t0 + 1} /\ c1 = c0)
    BY <1>6, <1>r, <1>v DEF HandleSignature
  <2>3. UNCHANGED <<host, retry, drops, resends, restarts, late>> /\ a1 = asked
    BY <1>m, <1>6 DEF HandleSignature
  <2>4. r1 = r0 /\ o1 = o0
    BY <1>o, <2>3
  <2>5. d1 + t1 + r1 <= d0 + t0 + r0
    BY <2>1, <2>2, <2>4
  <2>6. d1 + t1 + r1 + a1 + c1 <= d0 + t0 + r0 + asked + c0
    BY <1>n, <2>1, <2>2, <2>3, <2>4
  <2> QED BY <1>k, <2>3, <2>4, <2>5, <2>6
<1>7. CASE HandlePublicKey
  <2>1. d0 = d1 + 1 /\ t1 = t0 /\ c1 = c0
    BY <1>0, <1>m, <1>7, <1>h DEF HandlePublicKey, Answers
  <2>2. (a1 \in {asked, asked + 1} /\ r1 = r0) \/ (a1 = asked /\ r1 <= 1)
    BY <1>m, <1>7, <1>o DEF HandlePublicKey
  <2>3. UNCHANGED <<host, drops, resends, restarts, late>> /\ o1 = o0
    BY <1>7, <1>o DEF HandlePublicKey
  <2>4. d1 + t1 + r1 <= d0 + t0 + r0
    BY <2>1, <2>2
  <2>5. d1 + t1 + r1 + a1 + c1 <= d0 + t0 + r0 + asked + c0
    BY <1>n, <2>1, <2>2
  <2> QED BY <1>k, <2>3, <2>4, <2>5
<1>8. CASE DevHandleOffline
  <2>1. d1 = d0 /\ t1 = t0 /\ c1 = c0
    BY <1>0, <1>8, <1>m DEF DevHandleOffline
  <2>2. r1 <= r0
    BY <1>8, <1>o DEF DevHandleOffline, UsbDisconnected
  <2>3. UNCHANGED <<host, drops, resends, restarts, late>> /\ a1 = asked
    BY <1>m, <1>8 DEF DevHandleOffline
  <2> QED BY <1>k, <1>n, <1>o, <2>1, <2>2, <2>3
<1>9. CASE FrameworkConnects
  <2>1. d1 = d0 /\ c1 = c0 /\ (t1 = t0 \/ (t1 = t0 + 1 /\ r0 = 1))
    BY <1>0, <1>9, <1>m, <1>o, <1>r DEF FrameworkConnects
  <2>2. r1 = 0 /\ a1 = 0 /\ UNCHANGED <<host, drops, resends, restarts, late>>
    BY <1>m, <1>9, <1>o DEF FrameworkConnects
  <2> QED BY <1>k, <1>n, <1>o, <2>1, <2>2
<1>10. CASE FrameworkDisconnects
  <2>1. d1 = d0 /\ t1 = t0 /\ c1 = c0
    BY <1>0, <1>10, <1>m DEF FrameworkDisconnects
  <2>2. a1 = 0 /\ UNCHANGED <<host, retry, drops, resends, restarts, late>>
    BY <1>m, <1>10 DEF FrameworkDisconnects
  <2> QED BY <1>k, <1>n, <1>o, <2>1, <2>2
<1>11. CASE FrameworkConfirms
  <2>1. d1 = d0 /\ t1 = t0 /\ c1 \in {c0, c0 + 1}
    BY <1>0, <1>11, <1>m, <1>v DEF FrameworkConfirms
  <2>2. a1 = asked - 1 /\ UNCHANGED <<host, retry, drops, resends, restarts, late>>
    BY <1>m, <1>11 DEF FrameworkConfirms
  <2> QED BY <1>k, <1>n, <1>o, <2>1, <2>2
<1>12. CASE Connect
  <2>1. Count(<<Cnxn>>, Answers) = 1
    BY <1>p, <1>t, CountLaws DEF Answers
  <2>2. d1 = 1 /\ t1 = 0 /\ c1 = 0
    BY <1>0, <1>m, <1>12, <1>e, <2>1 DEF Connect
  <2>3. r1 = 0 /\ UNCHANGED <<drops, resends, restarts>> /\ a1 = asked /\ late' = late + asked
    BY <1>m, <1>12, <1>o DEF Connect, IInv, UsbTransportAlive
  <2>4. o1 = 0
    BY <1>12, <1>o DEF Connect, NewHost
  <2> QED BY <1>g, <1>i, <1>n, <2>2, <2>3, <2>4
<1>13. CASE Break
  <2>1. d1 <= d0 /\ t1 = 0 /\ c1 = 0
    BY <1>0, <1>m, <1>13, <1>e, <1>t, CountLaws DEF Break
  <2>2. UNCHANGED <<host, retry, drops, resends, restarts, late>> /\ a1 = asked
    BY <1>m, <1>13 DEF Break
  <2> QED BY <1>k, <1>n, <1>o, <2>1, <2>2
<1>14. CASE HostRestart
  <2>1. d1 <= d0 + 1
    <3>1. PICK k \in 0..Len(toDev) : toDev' = Append(SubSeq(toDev, 1, k), Cnxn)
      BY <1>14 DEF HostRestart
    <3> DEFINE q == SubSeq(toDev, 1, k)
    <3>2. q \in Seq(Packets)
      BY <1>t, Queues
    <3>3. Count(q, Answers) <= d0
      BY <1>0, <1>t, CountLaws
    <3>4. toDev' = Append(q, Cnxn)
      BY <1>0, <1>m, <3>1
    <3> HIDE DEF q
    <3>5. Count(q, Answers) \in Nat /\ d1 = Count(q, Answers) + 1
      BY <1>m, <1>p, <3>2, <3>4, CountLaws DEF Answers
    <3> QED BY <1>n, <3>3, <3>5
  <2>2. t1 <= t0 /\ c1 <= c0
    BY <1>0, <1>14, <1>m, <1>t, CountLaws DEF HostRestart
  <2>3. UNCHANGED <<retry, drops, resends, late>> /\ a1 = asked /\ restarts' = restarts + 1
    BY <1>m, <1>14 DEF HostRestart
  <2>4. o1 = 0
    BY <1>14, <1>o DEF HostRestart, NewHost
  <2>5. r1 = r0
    BY <1>o, <2>3
  <2> QED BY <1>g, <1>i, <1>n, <2>1, <2>2, <2>3, <2>4, <2>5
<1>15. CASE UNCHANGED vars
  BY <1>0, <1>15, <1>i, <1>g, <1>m DEF vars, Repeats, Online
<1> QED
  BY <1>1, <1>2, <1>3, <1>4, <1>5, <1>6, <1>7, <1>8, <1>9, <1>10, <1>11, <1>12, <1>13, <1>14, <1>15
     DEF Next, HostHandles, DevHandles, Framework

\* The invariant of the proof holds in every state.
LEMMA Inductive == Spec => []IInv
<1>1. IInv /\ [Next]_vars => IInv'
  BY HostStep, DevStep, WireStep, CountStep, FlagStep, CnxnStep, UsbStep, BudgetStep DEF IInv, TypeOK
<1> QED BY InitIInv, <1>1, PTL DEF Spec

\* Every variable of the authentication exchange keeps its type; in particular
\* NextKey() never reads past the nullptr that ends the list of keys.
THEOREM AuthTypes == Spec => []TypeOK
<1>1. IInv => TypeOK
  BY DEF IInv
<1> QED BY Inductive, <1>1, PTL

\* adbd_auth_listener and adbd_auth_event never use a transport that is gone:
\* usb_transport is the device's transport while that is not offline, and
\* needs_retry is set only while there is one.
THEOREM UsbAlive == Spec => []UsbTransportAlive
<1>1. IInv => UsbTransportAlive
  BY DEF IInv
<1> QED BY Inductive, <1>1, PTL

\* Requests and answers under way never multiply: they are at most as many as the A_CNXN
\* that the host has sent on the connection, for any number of keys and any bounds.
THEOREM ExchangesBounded == Spec => []OneExchange
<1>1. IInv => OneExchange
  BY DEF IInv
<1> QED BY Inductive, <1>1, PTL

\* A host that is online loses its streams only to an A_CNXN that was sent again or to a
\* confirmation that an earlier connection asked for.
THEOREM DropsExplained == Spec => []NoSpuriousDrop
<1>1. IInv => NoSpuriousDrop
  BY DEF IInv
<1> QED BY Inductive, <1>1, PTL
=============================================================================
