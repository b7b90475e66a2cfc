------------------------------ MODULE AdbAuth ------------------------------
(***************************************************************************)
(* How a connection comes online: A_CNXN and A_AUTH between the adb server *)
(* (adb_auth_host.cpp) and an adbd that requires authentication            *)
(* (adbd_auth.cpp), with the process on the device, the framework, that    *)
(* asks the user whether to trust a key.                                   *)
(*                                                                         *)
(* One connection at a time; packets are handled in the order in which     *)
(* they are sent.  A handler is one step of one main thread.               *)
(***************************************************************************)
EXTENDS Naturals, Sequences, FiniteSets

CONSTANTS
    NKeys,          \* private keys of the host, tried in the order of g_keys
    MaxBreak,       \* bound: times the connection breaks
    MaxRestart,     \* bound: times the adb server is restarted
    MaxResend,      \* bound: times A_CNXN is sent again
    MaxFramework    \* bound: times the framework connects

ASSUME AuthAssumption ==
    /\ NKeys \in Nat
    /\ MaxBreak \in Nat /\ MaxRestart \in Nat /\ MaxResend \in Nat /\ MaxFramework \in Nat

VARIABLES
    host,       \* the host's atransport: connection_state_, the key NextKey() returns next, resent,
                \* and whether a token was not answered
    dev,        \* the device's atransport: connection_state_, online, token, and whether
                \* a token could not be generated
    toDev,      \* packets on their way to the device
    toHost,     \* packets on their way to the host
    installed,  \* keys of the host whose public key is in an adb_keys file of the device
    up,         \* the connection carries packets
    conn,       \* number of the device's atransport
    tokens,     \* tokens generated so far: the next one differs from all of them
    framework,  \* framework_fd >= 0
    asked,      \* keys the framework was sent and the user has not confirmed
    usb,        \* usb_transport: the atransport it points to, 0 for none
    retry,      \* needs_retry
    drops,      \* ghost: times the host closed the streams of a transport that was online
    late,       \* ghost: confirmations that were still due when their connection had ended
    breaks, restarts, resends, frameworks   \* how often the environment did what

wire == <<toDev, toHost>>
link == <<up, conn, late, breaks, restarts, installed>>
user == <<framework, asked, frameworks>>
vars == <<host, dev, wire, link, tokens, user, usb, retry, drops, resends>>

Packet(c, key, token) == [cmd |-> c, key |-> key, token |-> token]
Cnxn == Packet("CNXN", 0, 0)

NewHost == [state |-> "offline", next |-> 1, resent |-> FALSE, failed |-> FALSE]
NewDev == [state |-> "offline", online |-> FALSE, token |-> 0, failed |-> FALSE]

-----------------------------------------------------------------------------
(* The host *)

\* NextKey(): the keys in turn, then the nullptr at the end (NKeys + 1), then all again.
NextKey(k) == IF k > NKeys THEN 1 ELSE k + 1

\* A_AUTH(TOKEN): send_auth_response signs with the next key, or offers the
\* public key when there is none left.
HandleToken ==
    /\ toHost # <<>> /\ Head(toHost).cmd = "TOKEN"
    /\ toHost' = Tail(toHost)
    /\ host' = [host EXCEPT !.state = IF @ = "offline" THEN "unauthorized" ELSE @,
                            !.next = NextKey(@)]
    /\ toDev' = IF ~up THEN toDev
                ELSE IF host.next > NKeys THEN Append(toDev, Packet("PUBKEY", 0, 0))
                ELSE Append(toDev, Packet("SIGNATURE", host.next, Head(toHost).token))
    /\ UNCHANGED <<dev, link, tokens, user, usb, retry, drops, resends>>

\* adb_auth_sign fails, or there is no public key to read: nothing is sent.
HandleTokenFails ==
    /\ toHost # <<>> /\ Head(toHost).cmd = "TOKEN"
    /\ toHost' = Tail(toHost)
    /\ host' = [host EXCEPT !.state = IF @ = "offline" THEN "unauthorized" ELSE @,
                            !.next = NextKey(@), !.failed = TRUE]
    /\ UNCHANGED <<dev, toDev, link, tokens, user, usb, retry, drops, resends>>

\* A_CNXN on the host, handle_new_connection: a transport that was online has
\* its streams closed first.
HostHandleCnxn ==
    /\ toHost # <<>> /\ Head(toHost).cmd = "CNXN"
    /\ toHost' = Tail(toHost)
    /\ host' = [host EXCEPT !.state = "device"]
    /\ drops' = IF host.state = "device" THEN drops + 1 ELSE drops
    /\ UNCHANGED <<dev, toDev, link, tokens, user, usb, retry, resends>>

\* remote_read of a USB transport read garbage while offline: A_CNXN once more.
ResendConnect ==
    /\ up /\ host.state = "offline" /\ ~host.resent
    /\ resends < MaxResend
    /\ resends' = resends + 1
    /\ host' = [host EXCEPT !.resent = TRUE]
    /\ toDev' = Append(toDev, Cnxn)
    /\ UNCHANGED <<dev, toHost, link, tokens, user, usb, retry, drops>>

-----------------------------------------------------------------------------
(* The device *)

\* send_auth_request to d: a new token each time, or no request when
\* adbd_auth_generate_token fails.
SendAuthRequest(d) ==
    \/ /\ tokens' = tokens + 1
       /\ dev' = [d EXCEPT !.token = tokens + 1]
       /\ toHost' = IF up THEN Append(toHost, Packet("TOKEN", 0, tokens + 1)) ELSE toHost
    \/ /\ dev' = [d EXCEPT !.failed = TRUE]
       /\ UNCHANGED <<tokens, toHost>>

\* Mutant: usb_disconnected leaves needs_retry.
UsbDisconnectedRetries ==
    /\ usb' = IF usb = conn THEN 0 ELSE usb
    /\ UNCHANGED retry

\* RunDisconnects of the transport: usb_disconnected, if it is the one.
UsbDisconnected ==
    /\ usb' = IF usb = conn THEN 0 ELSE usb
    /\ retry' = (retry /\ usb # conn)

\* A_CNXN on the device, handle_new_connection: what there was is taken
\* offline, then the host has to authenticate.
DevHandleCnxn ==
    /\ toDev # <<>> /\ Head(toDev).cmd = "CNXN"
    /\ toDev' = Tail(toDev)
    /\ IF dev.state # "offline" THEN UsbDisconnected ELSE UNCHANGED <<usb, retry>>
    /\ SendAuthRequest([dev EXCEPT !.state = "host", !.online = FALSE, !.failed = FALSE])
    /\ UNCHANGED <<host, link, user, drops, resends>>

\* adbd_auth_verified
AuthVerified ==
    /\ dev' = [dev EXCEPT !.online = TRUE]
    /\ toHost' = IF up THEN Append(toHost, Cnxn) ELSE toHost
    /\ UNCHANGED tokens

Verify(m) == m.key \in installed /\ m.token = dev.token

\* Mutant: a signature that does not fit is not answered with a new token.
HandleSignatureSilent ==
    /\ toDev # <<>> /\ Head(toDev).cmd = "SIGNATURE"
    /\ toDev' = Tail(toDev)
    /\ IF Verify(Head(toDev)) THEN AuthVerified ELSE UNCHANGED <<dev, toHost, tokens>>
    /\ UNCHANGED <<host, link, user, usb, retry, drops, resends>>

\* Mutant: a signature that fits is answered with a new token as well, for want of an else.
HandleSignatureAnyway ==
    /\ toDev # <<>> /\ Head(toDev).cmd = "SIGNATURE"
    /\ toDev' = Tail(toDev)
    /\ IF Verify(Head(toDev))
       THEN /\ tokens' = tokens + 1
            /\ dev' = [dev EXCEPT !.online = TRUE, !.token = tokens + 1]
            /\ toHost' = IF up THEN toHost \o <<Cnxn, Packet("TOKEN", 0, tokens + 1)>> ELSE toHost
       ELSE SendAuthRequest(dev)
    /\ UNCHANGED <<host, link, user, usb, retry, drops, resends>>

\* A_AUTH(SIGNATURE): adbd_auth_verify against the token of the last request.
HandleSignature ==
    /\ toDev # <<>> /\ Head(toDev).cmd = "SIGNATURE"
    /\ toDev' = Tail(toDev)
    /\ IF Verify(Head(toDev)) THEN AuthVerified ELSE SendAuthRequest(dev)
    /\ UNCHANGED <<host, link, user, usb, retry, drops, resends>>

\* A_AUTH(RSAPUBLICKEY), adbd_auth_confirm_key: the first transport to ask is
\* remembered; without a framework the request is repeated when there is one.
\* The write to the framework may fail.
HandlePublicKey ==
    /\ toDev # <<>> /\ Head(toDev).cmd = "PUBKEY"
    /\ toDev' = Tail(toDev)
    /\ usb' = IF usb = 0 THEN conn ELSE usb
    /\ IF framework
       THEN asked' \in {asked, asked + 1} /\ UNCHANGED retry
       ELSE retry' = TRUE /\ UNCHANGED asked
    /\ UNCHANGED <<host, dev, toHost, link, tokens, framework, frameworks, drops, resends>>

\* SYNC(0, 0) reaches the device's main thread: handle_offline.
DevHandleOffline ==
    /\ ~up /\ toDev = <<>> /\ dev.state # "offline"
    /\ dev' = [dev EXCEPT !.state = "offline", !.online = FALSE]
    /\ UsbDisconnected
    /\ UNCHANGED <<host, wire, link, tokens, user, drops, resends>>

-----------------------------------------------------------------------------
(* The framework and the user *)

\* Mutant: needs_retry stays set after the retry.
FrameworkConnectsAgain ==
    /\ frameworks < MaxFramework
    /\ frameworks' = frameworks + 1
    /\ framework' = TRUE
    /\ asked' = 0
    /\ IF retry THEN SendAuthRequest(dev) ELSE UNCHANGED <<dev, toHost, tokens>>
    /\ UNCHANGED <<host, toDev, link, usb, retry, drops, resends>>

\* adbd_auth_listener: a framework connects, in place of an earlier one; a
\* transport that was waiting for it is asked for another signature.
FrameworkConnects ==
    /\ frameworks < MaxFramework
    /\ frameworks' = frameworks + 1
    /\ framework' = TRUE
    /\ asked' = 0
    /\ retry' = FALSE
    /\ IF retry THEN SendAuthRequest(dev) ELSE UNCHANGED <<dev, toHost, tokens>>
    /\ UNCHANGED <<host, toDev, link, usb, drops, resends>>

\* adbd_auth_event: the framework hangs up.
FrameworkDisconnects ==
    /\ framework
    /\ framework' = FALSE
    /\ asked' = 0
    /\ UNCHANGED <<host, dev, wire, link, tokens, frameworks, usb, retry, drops, resends>>

\* adbd_auth_event: the user has confirmed a key.
FrameworkConfirms ==
    /\ framework /\ asked > 0
    /\ asked' = asked - 1
    /\ IF usb # 0 THEN AuthVerified ELSE UNCHANGED <<dev, toHost, tokens>>
    /\ UNCHANGED <<host, toDev, link, framework, frameworks, usb, retry, drops, resends>>

-----------------------------------------------------------------------------
(* The connection *)

\* A new transport on both sides; the host sends A_CNXN.
Connect ==
    /\ ~up /\ toDev = <<>> /\ toHost = <<>> /\ dev.state = "offline"
    /\ up' = TRUE
    /\ conn' = conn + 1
    /\ late' = late + asked
    /\ host' = NewHost
    /\ dev' = NewDev
    /\ toDev' = <<Cnxn>>
    /\ UNCHANGED <<toHost, tokens, user, usb, retry, drops, breaks, restarts, resends, installed>>

\* The connection breaks; what the reader threads had read is still handled.
Break ==
    /\ up /\ breaks < MaxBreak
    /\ breaks' = breaks + 1
    /\ up' = FALSE
    /\ \E k \in 0..Len(toDev) : toDev' = SubSeq(toDev, 1, k)
    /\ toHost' = <<>>
    /\ UNCHANGED <<host, dev, tokens, conn, late, user, usb, retry, drops, restarts, resends, installed>>

\* A new adb server takes over a USB connection that the device sees no break
\* of: packets written before still arrive.
HostRestart ==
    /\ up /\ restarts < MaxRestart
    /\ restarts' = restarts + 1
    /\ host' = NewHost
    /\ \E k \in 0..Len(toDev) : toDev' = Append(SubSeq(toDev, 1, k), Cnxn)
    /\ \E k \in 0..Len(toHost) : toHost' = SubSeq(toHost, k + 1, Len(toHost))
    /\ UNCHANGED <<dev, tokens, up, conn, late, breaks, user, usb, retry, drops, resends, installed>>

-----------------------------------------------------------------------------
Init ==
    /\ host = NewHost /\ dev = NewDev
    /\ toDev = <<>> /\ toHost = <<>>
    /\ up = FALSE /\ conn = 0 /\ tokens = 0
    /\ framework = FALSE /\ asked = 0
    /\ usb = 0 /\ retry = FALSE
    /\ installed \in SUBSET (1..NKeys)
    /\ drops = 0 /\ late = 0 /\ breaks = 0 /\ restarts = 0 /\ resends = 0 /\ frameworks = 0

HostHandles == HandleToken \/ HandleTokenFails \/ HostHandleCnxn
DevHandles == DevHandleCnxn \/ HandleSignature \/ HandlePublicKey \/ DevHandleOffline
Framework == FrameworkConnects \/ FrameworkDisconnects \/ FrameworkConfirms

Next ==
    \/ HostHandles \/ DevHandles \/ Framework
    \/ ResendConnect \/ Connect \/ Break \/ HostRestart

Spec == Init /\ [][Next]_vars

\* The main threads handle their packets.  Nothing is assumed of the user, the
\* framework or the connection.
Fairness == WF_vars(HostHandles) /\ WF_vars(DevHandles)

FairSpec == Spec /\ Fairness

-----------------------------------------------------------------------------
(* Properties *)

Packets == [cmd : {"CNXN", "TOKEN", "SIGNATURE", "PUBKEY"}, key : 0..NKeys, token : Nat]

HostType ==
    host \in [state : {"offline", "unauthorized", "device"}, next : 1..NKeys + 1, resent : BOOLEAN,
             failed : BOOLEAN]
DevType == dev \in [state : {"offline", "host"}, online : BOOLEAN, token : Nat, failed : BOOLEAN]
WireType == toDev \in Seq(Packets) /\ toHost \in Seq(Packets)
CountType ==
    /\ conn \in Nat /\ tokens \in Nat /\ asked \in Nat /\ usb \in Nat /\ drops \in Nat
    /\ late \in Nat /\ breaks \in Nat /\ restarts \in Nat /\ resends \in Nat /\ frameworks \in Nat
FlagType == up \in BOOLEAN /\ framework \in BOOLEAN /\ retry \in BOOLEAN /\ installed \subseteq 1..NKeys

\* Types of the variables.
TypeOK == HostType /\ DevType /\ WireType /\ CountType /\ FlagType

\* usb_transport points to the transport there is, while that is not offline,
\* and needs_retry is set only while it points to one: adbd_auth_listener and
\* adbd_auth_event never use a transport that is gone.
UsbTransportAlive ==
    /\ usb # 0 => usb = conn /\ dev.state # "offline"
    /\ retry => usb # 0

\* The inductive strengthening of UsbTransportAlive.  A device that has not
\* handled the A_CNXN of its transport has sent nothing on it and meets that
\* A_CNXN before any key; a broken connection brings nothing more to the host.
CnxnFirst ==
    /\ up \/ toDev # <<>> => conn # 0
    /\ ~up => toHost = <<>>
    /\ dev.state = "offline" =>
          /\ toHost = <<>>
          /\ toDev # <<>> => toDev[1].cmd = "CNXN"

Count(q, cmds) == Cardinality({k \in 1..Len(q) : q[k].cmd \in cmds})

\* One A_CNXN of the host starts one exchange: requests and answers under way
\* never multiply, however often signatures fail or the framework comes back.
OneExchange ==
    Count(toDev, {"CNXN", "SIGNATURE", "PUBKEY"}) + Count(toHost, {"TOKEN"})
        + (IF retry THEN 1 ELSE 0) <= 1 + resends + restarts

\* Streams of a connection that is online are closed only because A_CNXN was sent again,
\* or because adbd_auth_event takes a confirmation that an earlier connection asked for
\* as one for the connection there is: nothing else makes the device repeat its A_CNXN.
NoSpuriousDrop == drops <= resends + restarts + late

\* A host that has a key the device knows comes online, and both sides agree on
\* it in the end, whatever signatures were stale, unless a token could not be
\* generated or not be answered.
BothOnline ==
    installed # {} =>
        <>[](up /\ ~host.failed /\ ~dev.failed => host.state = "device" /\ dev.online)
=============================================================================
