# A TLA+ verification of adb

The repository is the Android Debug Bridge, ported to an ARM/automake build.
Its own code is in `src/src`; `boringssl`, `mdnsresponder`, `lib` and `include`
are vendored.  `Makefile.am` builds the host program `adb` (`ADB_HOST`), whose
one binary is both the command-line client and the long-running server; the
same files compiled without `ADB_HOST`, with `daemon/`, make the device
program `adbd`.  The modules here model the code of both programs, because
almost every property is about what the two do to one another.

## 1. The system

### How it runs

Server and `adbd` are the same machine seen twice: one main thread runs
`fdevent_loop` (`fdevent.cpp`), and every callback runs on it to its end.  Each
connection to the other side is an `atransport` with two more threads, a reader
and a writer, which exchange packet pointers with the main thread through a
socket pair.  Services run in threads or processes of their own, behind a
socket pair.  Everything the user sees is a *stream*: a pair of `asocket`
chains, one per side, that carries bytes between two descriptors.

    client --fd-- asocket ==(A_OPEN A_OKAY A_WRTE A_CLSE)== asocket --fd-- service
                     \__ atransport: reader, writer __/ USB or TCP

### Inventory

| part | source | state | operations | hard because |
|---|---|---|---|---|
| streams | `sockets.cpp`, `adb.cpp` (`handle_packet`) | two lists of asockets, each with an id, a peer, a packet queue, fdevent flags | open, ready, write, close, from a packet or from a descriptor | both sides act at once; packets about a stream that is gone; a close with data queued; hang-ups |
| transports | `transport.cpp` | `transport_list`, `pending_list`, reference count, kicked flag, two queues, `online` | register, start, kick, read, write, unref, remove | three threads, two locks, a deletion that must come last |
| connection | `adb.cpp`, `transport_usb.cpp` | connection state, protocol version, payload size, `has_send_connect_on_error_` | A_CNXN, A_SYNC, resending A_CNXN, banner | old packets of an earlier connection; server restart |
| authentication | `adb_auth_host.cpp`, `adbd_auth.cpp` | keys left to try, token, failed attempts, one connection to the key framework | token, signature, public key, confirm | retries; a user's answer that comes after the transport went |
| emulator and TCP transports | `transport_local.cpp` | 16 slots `local_transports[]`, retry list | connect, disconnect, retry every second for a minute | slots freed by another thread; duplicate serials |
| event loop | `fdevent.cpp` | poll set, pending list, run queue, subprocess descriptor | install, remove, add, del, process, call, run on main thread | callbacks that destroy descriptors with events pending |
| smart sockets and host services | `sockets.cpp`, `adb.cpp`, `services.cpp` | partial request, chosen transport | parse a request, choose a transport, run a host service, hand over | asockets freed by the call they make |
| listeners | `adb_listeners.cpp` | `listener_list`, disconnects registered on transports | install, rebind, remove, accept | the transport goes while a listener points to it |
| jdwp | `jdwp_service.cpp` | processes, waiting descriptors, trackers | connect, pass a descriptor, track | four asocket variants, lists changed while walked |
| shell service | `shell_service.cpp`, `shell_service_protocol.cpp` | subprocess, pty or pipes, protocol buffer | pass input and output, wait for exit | half-closed pipes; exit code after the last output |
| file sync | `file_sync_client.cpp`, `file_sync_service.cpp` | request under way, deferred acknowledgements | send, recv, list, stat | one error among pipelined requests |
| client and server start | `adb_client.cpp`, `client/main.cpp`, `adb.cpp` | server version, ack descriptor | connect, version check, kill, launch | two clients starting a server at once |
| USB on the host | `client/usb_linux.cpp` | handles, reaping threads, device poll thread | scan, read, write, kick, close | URBs reaped by another thread |
| USB on the device | `daemon/usb.cpp` | functionfs endpoints, open thread | open, read, write, kick, close | kick against an open |

What makes each correct: **streams** deliver what was written, once, in order
and to the stream it was written to, never leave one end behind, always answer
an open; **transports** are deleted after the last use and always in the end;
**connection**: nothing of an earlier connection reaches a later one;
**authentication**: online only after a verified key or a confirmation; **slots**
are never lost nor shared; **event loop**: no callback of a removed fdevent;
**listeners** and **smart sockets** never use a freed transport; **jdwp** hands a
descriptor to one process and closes it once; **shell** reports the exit code
after all output; **sync** reports each failed file; **server start** ends with
one server of the right version.

## 2. Modules

| module | models | checked by |
|---|---|---|
| `AdbStream` | `sockets.cpp` (local, remote and rigged asockets), `handle_packet`, `handle_new_connection`, `handle_offline`, the part of `fdevent_process` that makes events, `remote_read` as far as it resends A_CNXN | `MCAdbStream`, `AdbStreamInv`, `AdbStreamProofs` |
| `StreamPipe`, `AdbStreamPipe` | what a stream promises, and the refinement mapping from `AdbStream` to it | `MCAdbStream`, `AdbStreamProofs` |
| `AdbTransport` | registration, `read_transport_thread`, `write_transport_thread`, `kick_transport`, `Kick`, `transport_unref`, removal, A_SYNC and the two queues | `MCAdbTransport`, `AdbTransportProofs` |
| `AdbAuth` | A_CNXN and A_AUTH on both sides, `adb_auth_host.cpp`, `adbd_auth.cpp`, the framework that asks the user | `MCAdbAuth`, `AdbAuthProofs` |
| `LocalTransports` | `transport_local.cpp` on the host, `register_socket_transport`, `connect_emulator` and `connect_device` | `MCLocalTransports`, `LocalTransportsProofs` |
| `ShellService` | `shell_service.cpp`: a `Subprocess`, its thread and `ShellProtocol` | `MCShellService`, `ShellServiceProofs` |
| `FdEvent` | `fdevent.cpp`: the fdevents, the pending list, one round of `poll()` and one call | with `HostSockets` and its proofs |
| `HostSockets` | the server between its clients and its transports: smart sockets, host requests and services, pairs of local asockets, device trackers, `adb_listeners.cpp`; built on `FdEvent` | `MCHostSockets`, `HostSocketsProofs` |
| `ServerStart` | `adb_client.cpp`, `launch_server`, `adb_server_main` and `host:kill`: clients that find, replace and start the server | `MCServerStart`, `ServerStartProofs` |
| `UsbHost` | `client/usb_linux.cpp` under the threads of `transport.cpp`: the poll thread, handles, URBs, kicks, devices without permission, exit of the server | `MCUsbHost`, `UsbHostProofs` |

`HostSockets` composes the event loop with the components whose callbacks run on
it.  The other modules stand for themselves: each models the whole of its component and
abstracts the others to what they can do to it.  `AdbStream` sees of the
transport the order of packets and the moment it goes offline; `AdbTransport`
sees of streams that something points to it; `AdbAuth` and `LocalTransports` see
of a transport the phases of its life that `AdbTransport` shows in detail;
`ShellService` sees of the local socket that the main thread reads it, writes it
or closes it; `HostSockets` sees of a stream the packets that come for it, and of a
transport its connection state; `UsbHost` sees of streams that packets are written;
`ServerStart` sees of a server that it listens, runs its loop, exits.

### AdbStream

Two sides, `"host"` and `"device"`, each with its `asocket`s by id.  A remote
asocket holds nothing but its id and the transport, so it is the field `peer`
of the local one it is paired with.  `net[p]` holds the packets `p` sent and the
other side has not handled, through the socket pairs, threads and the wire,
which keep their order.  `fd[p][i]` is the application's end of the
descriptor: how much it wrote and adb read, what adb wrote to it, how it hung
up, and the status a smart-socket client was told.  Data is a count of chunks;
a chunk is at most one packet, and is written whole or not at all (a partial
write leaves the rest at the head of the queue, which changes nothing but where
one chunk ends).

An action is one callback of one main thread.  The `Handle...` actions are the
cases of `handle_packet`, with the asocket functions they call folded in;
`WriteSome`, `WriteAll`, `WriteError` and `ReadEvent` are the cases of
`local_socket_event_func`.  `Readable` is `fdevent_process`: a hang-up is
reported whether FDE_READ is on or not, because POLLRDHUP is always asked for.
`Break` cuts the connection and keeps what a reader thread had already passed on;
`HostRestart` replaces the server on a USB connection whose other end sees
nothing.  Ghost fields (`run`, chunk numbers) let properties tell streams apart
and are read by no action.

Left out: authentication (the device runs with `auth_required` false), forced
end of file, `exit_on_close`, and the empty packet SendConnectOnHost sends
before A_CNXN, which both sides drop.  `ResendConnect` looks at the state of the transport and sends
A_CNXN in one step; the reader thread does so in two.

### StreamPipe and AdbStreamPipe

`StreamPipe` says what the two applications see while the connection lasts, with
no packets, credits or ids: chunks are taken from one end, are on their way, and
are given to the other, once and in order; an end opens, closes when its
application hung up or the far end is gone, and then first gives what is on its
way.  A chunk may be lost only if an end is not open, or if the opener hung up
before anything was passed on (`MayLose`; the last is the early data of section
5).  `AdbStreamPipe` maps one stream to it: what is on its way is what the asocket of
the receiver has queued followed by the A_WRTE packets it will take; an asocket on
the closing list is draining.  `PipeSpec` is a property of `stream_flow`.

### AdbTransport

One `atransport` from `register_usb_transport` or `register_socket_transport`
to `delete`.  `type` is `"usb"` or `"local"` (TCP), which decides how long a write may
last.  `pc` holds where its two threads are; `mpc` where the main thread
is, which between callbacks is `"loop"`.  `lock` is `transport_lock` when it is
held over more than one step: `Kick()` waits for `write_msg_lock_` with it held.
`write_msg_lock_` is held exactly while the writer is in `t->Write`
(`pc["writer"] = "write"`).  `toMain` and `toWriter` are the two directions of
the socket pair, `regq` the registration socket pair; the main thread takes from
either in any order, as `poll()` does.  `bound` says that some asocket or
listener points to the transport.  A kick comes from either thread on its way
out, from the main thread (`MainKicks`, the `disconnect` and `reconnect`
requests) or from a service thread (`ServiceKicks`, `reconnect_service`).  A TCP transport has no
`SendConnectOnError`, so only a USB one takes `ReaderResends`.

Left out: transports without permission (`kCsNoPerm`), which have no threads and
are part of `UsbHost`; the failure of a write to the socket pair, which the code treats as fatal.

### AdbAuth

The server, an `adbd` that requires authentication, and the framework process
on the device.  `host` and `dev` are the two atransports, `conn` counts those of
the device, `toDev` and `toHost` are the packets between the main threads.  A
token is a number that no other token has, a signature is the pair of a key and
the token it signs, so `Verify` (`adbd_auth_verify`) is: the key is installed and
the token is that of the last request.  `NextKey` walks `t->keys` to the nullptr
at its end, where the public key is offered, and starts again.

| action | code |
|---|---|
| `HandleToken`, `HandleTokenFails`, `HostHandleCnxn` | `handle_packet` on the host, `send_auth_response`, `handle_new_connection` |
| `DevHandleCnxn`, `HandleSignature`, `HandlePublicKey`, `DevHandleOffline` | `handle_packet` on the device, `adbd_auth_confirm_key`, `handle_offline` with `usb_disconnected` |
| `FrameworkConnects`, `FrameworkDisconnects`, `FrameworkConfirms` | `adbd_auth_listener`, `adbd_auth_event` |
| `ResendConnect` | `remote_read` with `SendConnectOnError` |
| `Connect`, `Break`, `HostRestart` | the connection |

Left out: several transports of one `adbd` at once (`usb_transport` remembers
the first to ask), key files (how many keys the host has is a constant; which of them the device has
installed is `installed`, any set of them; that the framework adds a key the user confirmed is left
out, and such a key only signs at a later connection), the one-second delay after 256 failed signatures.  What may fail
fails nondeterministically: signing, reading the public key, generating a token,
writing to the framework.  The code then sends nothing and tries nothing again;
`host.failed` and `dev.failed` record it for `BothOnline`.  An answer of the framework
names no transport, so `FrameworkConfirms` may come for the one asked about or for a
later one; `late` counts the latter.

### LocalTransports

`Transports` are addresses of atransports, and an address is used again after
the atransport was deleted.  `tr[t].phase` is where an atransport is: allocated
(`"new"`), through `init_socket_transport` (`"inited"`), in `pending_list`, in
`transport_list` (`"listed"`, then `"kicked"` and `"closed"`), deleted.  `slots`
is `local_transports`, `retry`, `ports` and `nextPorts` are `retry_ports` and the two
local vectors of `client_socket_thread`.  `thread[th].pc` is the next thing a
connecting thread does; a step is what is done under one lock, so that every check
may be out of date when the next step runs.  Reading an atransport that was
deleted is undefined: `FoundByPort` may then answer either way.

| action | code |
|---|---|
| `Request`, `CheckKnown`, `CheckSlot` | `connect_service`, `connect_emulator` |
| `CheckPort`, `CheckSerial`, `Dial`, `DialFails` | `local_connect_arbitrary_ports` |
| `InitSocket`, `InitSocketFails` | `init_socket_transport` |
| `RegisterSocket` | `register_socket_transport` |
| `ClientTakes`, `ClientCopiesBack`, `ClientCollects`, `Finish` | `client_socket_thread` |
| `Kick`, `Close` | `remote_kick`, `remote_close` |
| `MainRegisters`, `MainRemoves` | `transport_registration_func` |

Left out: time (a second between two retries), `adbd`'s own use of
`transport_local.cpp` (`server_socket_thread`, the QEMU pipe), name resolution.  `Kick` takes a
listed transport: one that is not listed yet is kicked by nobody but its own threads, whose
`kick_transport` does not find it.

### ShellService

One shell of `adbd`.  `pc` is where its thread is: in `select()`, in `PassOutput`
for one of the two streams (`"stdinout"`, `"stderr"`, then `"write"` while the packet is
written), in `PassInput` (`"input"`, `"shutdown"`, `"feed"`) or in `WaitForExit`.
`open` says which of `protocol_sfd_`, `stdinout_sfd_` and `stderr_sfd_` is not -1,
`rset` and `wset` are the two master sets, `ready` what the last `select()`
returned.  Data is counted in units, so that buffers (`Capacity`), the pipe to the
subprocess (`Pipe`) and the socket (`Room`) can be full or hold a part.  `ends` are
the descriptors that *some* process holds: `alive` is only the one that is waited for.
`written`, `passed`, `given` and `cut` are ghosts.

| action | code |
|---|---|
| `Start`, `StartFails` | `StartSubprocess`, `ForkAndExec`, `ReportError` |
| `SelectReturns`, `SelectFails`, `NextOf` | `SelectLoop` |
| `ReadOutput`, `EndOfOutput`, `WriteOutput`, `WriteFails` | `PassOutput` |
| `ReadInput`, `EndOfInput`, `ShutdownInput`, `ShutdownFails`, `Feed`, `FeedFails` | `PassInput`, `ShellProtocol::Read` |
| `Loops`, `Dies` | `PassDataStreams` |
| `WaitForExit` | `WaitForExit`, from the destructor |

Between two of these the client and the processes do what they like.  Without the
protocol the thread only waits: the data is a matter of `AdbStream`.  Left out: the
environment and the terminal of the child, the value of the exit code, window
sizes (such a packet is read and has no effect here), a packet that is in the
socket in part, failures of `read` other than the end of a stream, and a
`ReportError` that cannot make its pipe.

### FdEvent and HostSockets

`FdEvent` holds `fde[x]` (`FDE_ACTIVE`, what is listened for, `FDE_PENDING`, the
events reported) and `pending`, the list of `fdevent_loop`.  `Process` is a round of
`poll()`, `CallFdfunc` the call of one pending fdevent, `LoopChange` what a callback
does by `fdevent_install`, `_set`, `_add`, `_del` and `_remove`.

`HostSockets` adds the callbacks.  Each client makes one connection: its asocket is
`<<"client", c>>`, the asocket of a service thread for it `<<"service", c>>`; `smart`,
`tracker` and `thread` are its smart socket, device tracker and thread.  A callback
is one step, except `local_socket_event_func`, whose position is `cur`: it goes
through writing, reading, the `enqueue` of the peer, and what it does with the result,
because its peer may free the asocket it works on and because clients and threads do
not wait.  A request is a model value of the kind that decides what happens to
the sockets: part of one (`"half"`), something that is refused or answered at once
(`"data"`), the choice of a transport, a service of the device (`"open"`), a
host service with a thread, `track-devices`, and the forward requests.

| action | code |
|---|---|
| `AcceptClient`, `Accept` | `ss_listener_event_func`, `listener_event_func` |
| `Poll`, `Dispatch` | `fdevent_process`, `fdevent_loop` |
| `EventWriteSome`, `EventWriteFails`, `EventWriteCloses`, `EventWriteAll`, `EventRead`, `AfterRead`, `AfterFree` | `local_socket_event_func` |
| `EnqueueWrites`, `EnqueueQueues`, `EnqueueFails`, `EnqueueRemote`, `EnqueueTracker` | the `enqueue` of the peer |
| `SmartWaits`, `SmartAnswers`, `SmartTransport`, `SmartOpen`, `SmartOpenFails`, `SmartThread`, `SmartTrack`, `SmartTrackFails` | `smart_socket_enqueue`, `handle_host_request`, `device_tracker_ready` |
| `SmartForward`, `SmartForwardFails`, `SmartKillForward` | `handle_forward_request`, `install_listener`, `remove_listener`, `remove_all_listeners` |
| `Register`, `HandleToken`, `HandleCnxn`, `HandleSyncOffline`, `RemoveTransport` | `transport_registration_func`, `handle_packet`, `update_transports`, `RunDisconnects` |
| `StreamOkay`, `StreamWrte`, `StreamClse` | packets for the client's stream |
| `ThreadAnswers`, `ThreadSeesHup` | `wait_for_state` and its like |

Left out: the text of requests and answers, the choice among several devices, the
run queue (in this build it only carries the exit on SIGINT), and closing by
`exit_on_close`.  A smart socket's overflow is one of the refusals of `"data"`.

### UsbHost

The poll thread (`poll`), the main thread (`main`), and a reader and a writer thread
per device (`th`).  `hd[d]` is the `usb_handle`; `urb[x]` what the kernel has of the
URB of thread `x`; `tr[d]` the atransport, `old` the ones that are closed and whose
removal is posted.  `usb_close` and the post hold no lock together, so when the same name is found again in
between, the removal comes before the new transport is registered or after it (`PollRegisters`).  A mutex is a variable
where it is held while its owner waits: `transport_lock` and `g_usb_handles_mutex`
during kicks, the mutex of a handle when `usb_kick` calls
`unregister_usb_transport`, `write_msg_lock_` during a packet.  Only the reader reaps URBs,
the writer's too.  A packet is two transfers, a header and a payload.

| action | code |
|---|---|
| `PollLooks`, `PollOpens`, `PollRegisters` | `find_usb_device`, `is_known_device`, `register_device`, `register_usb_transport` |
| `PollKicks`, `PollSpares`, `PollKicksOne`, `PollKicksReadOnly`, `PollUnregisters`, `PollSleeps` | `kick_disconnected_devices`, `usb_kick`, `unregister_usb_transport` |
| `ReadSubmits`, `ReadBlocks`, `ReadReaps`, `ReadReturns` | `usb_bulk_read`, `usb_read` |
| `WriteBegins`, `WriteSubmits`, `WriteTimesOut`, `WriteWakes`, `WriteQuits` | `atransport::Write`, `remote_write`, `usb_bulk_write`, `write_transport_thread` |
| `LeaveKicks`, `LeaveKicked`, `LeaveUnrefs`, `LeaveCloses` | `kick_transport`, `Kick`, `transport_unref`, `usb_close` |
| `MainStarts`, `MainLists`, `MainSyncs`, `MainRemoves` | `transport_registration_func`, `handle_packet` (A_SYNC) |
| `MainKicks`, `MainKicked` | the `reconnect` request |
| `MainExits`, `ExitSkips`, `ExitKicks`, `ExitKicksReadOnly`, `ExitEnds` | `adb_server_cleanup`, `kick_all_transports` |
| `Plug`, `Unplug`, `Transfer` | the device and the kernel |

Left out: the parsing of descriptors, zero-length markers (one more transfer),
what the packets are, and devices whose write permission changes while they are open.

### ServerStart

Clients, each with a version and a command (a service, `start-server` or
`kill-server`), and the servers: one that may have been there before, of any version,
and one per client that launches its own.  `cl[c].pc` is where `adb_connect` or
`adb_kill_server` is, `at` the process its connection leads to, `seen` the server whose
version it checked or whose acknowledgement it read; `srv[s].st` is where
`adb_server_main` is; `port` is who listens.  Connecting is a step, being answered another:
the connection waits in the backlog of a server that does not run its loop yet, or no
longer does.

| action | code |
|---|---|
| `ConnectFirst`, `ConnectKill`, `ConnectService`, `ConnectionLost` | `adb_connect`, `_adb_connect`, `adb_status`, `adb_kill_server` |
| `Launch`, `ReadAck`, `Interrupt` | `launch_server`, Ctrl-C while it waits |
| `Bind`, `GiveUp`, `Run` | `adb_server_main` up to `fdevent_loop` |
| `Ack`, `AckFails` | the thread that acknowledges once the devices are there |
| `AnswerVersion`, `AnswerService`, `AnswerKill`, `Exit` | `handle_host_request`, `adb_server_cleanup` |

`disturbed` is a ghost that records what may rightly leave a client without a server.
A child whose `execl` fails (`adb.cpp:934`) goes on as a client; for its parent that is what a failing
`fork` is, and so it is modelled.
Left out: a server on another machine, which clients never start; a server too old to know
`host:version`, which is one of another version; what a service then does (`HostSockets`).

## 3. Runs

| run | question | bounds |
|---|---|---|
| `stream_flow` | order, flow control, queues and graceful close of a stream that both applications write to and hang up on; that it is a pipe | 1 stream, 2 chunks per direction: the second chunk meets the first one queued |
| `stream_break` | either side opens, both write and hang up, the connection breaks once and A_CNXN is sent twice: no end is left behind, and opens, closes and hang-ups come to their end | 1 asocket per side, 1 chunk, 1 break, 1 resend |
| `stream_restart` | the server restarts and its ids start again at 1 | 2 asockets per side, 2 restarts, 1 resend: an A_CNXN that answered one server meets the next |
| `transport_host` | lifetime and locks of a transport of the server, safety and liveness | 3 packets in, 2 out, USB and TCP |
| `auth` | keys tried in turn, stale signatures, a framework that comes and goes, breaks and restarts; liveness | 2 keys of which any may be installed, 1 break, 1 restart, 1 resend, 2 framework connections |
| `local_transports` | two threads that connect to the same emulators and TCP device while transports are kicked and retried | 3 addresses, 2 slots, 1 polled port, 1 service thread, 3 requests, 2 kicks, 2 retries |
| `shell` | output, input, exit packet and end of the thread of a shell, with every kind of subprocess; safety and liveness | buffer, pipe and socket of 1 unit or packet, packets of up to 2 units, 2 packets in, 2 units out |
| `sockets` | smart sockets, service threads, trackers and streams of one client while its device comes and goes; safety and liveness | 1 client, 1 transport, 3 requests or pieces, 2 registrations or A_CNXN |
| `forwards` | forwards that are made, taken over, dialled and removed, by requests and by devices that go | 2 clients with one request each, 1 that dials, 2 transports, 1 name, 4 registrations or A_CNXN |
| `usb` | a USB device under four threads; safety and liveness | 1 device plugged in twice, 1 packet (2 transfers) each time, 1 reconnect |
| `server_start` | clients that check, kill, launch and use servers in every interleaving, with Ctrl-C and failing forks; safety and liveness | 2 clients, 2 versions, with or without a server before them |
| `usb_exit` | a comment the code does not keep (section 5) | 1 device plugged in once |

Two chunks and two asockets are the smallest numbers for which something can be
out of order or go to the wrong stream; ids are never used twice within one
server process, so more asockets repeat the same cases.  `NoHalfOpen` was also checked
with two asockets per side, both sides opening and no break (977 937 states): it is kept in
`stream_break`, where an end can be lost in more ways.  Streams may all be
closed and the connection quiet, so the stream runs do not check deadlock; the
transport runs do, with `Finished` as the only end.  An authenticated
connection may stay as it is for ever and a server with its emulators connected
may have nothing to do, so `auth` and the local runs do not check deadlock either.

In `auth` the host has two keys and the device none, one or both of them: after a token
that has gone stale, the host goes past the key that fits to one that does not and to the
public key, and must come round again.  In `local_transports` the requests include the emulator that is
polled for, the same port under another console port, the same console port
under another adb port, and a TCP device; three addresses and two slots let both
run out, two retries let a port be tried twice and given up.

In `shell` a packet of 2 units is larger than the buffer and than the pipe, so
that it is read in two parts and each write may have to wait; 2 units of
output fill the buffer twice or use both streams, and a socket with room for one
packet makes the thread wait for a slow client.  A shell may run for ever without
doing anything, so deadlock is not checked there.

In `sockets` three requests let a client choose a transport, open a service on it and
send data, or send a request in two parts; with two updates the device is there and comes
online, and it may go at any time (`forwards` has four).  A
second client would share nothing with the first but the transport and the list
of trackers; `forwards` has three, which share the listener.  In `usb` a device that is
plugged in twice is found again while its old transport is still to be removed, and
may be with permission the first time and without the second; other devices meet it
only in `transport_lock` and `g_usb_handles_mutex`, which the poll and the main
thread take already.  (`HandleAlive` and `UrbFree` were also checked with two devices,
each plugged in once and not written to, and a reconnect: 1.7 million states.)  In `server_start` the two clients may be of the same version or not,
and of that of the old server or not; every way to kill, be killed and lose the port needs
no more than two clients and a server.  (The safety properties were also checked with
three clients, 1.1 million states.)  A server may have nothing to do, or have exited, and
clients end, so none of these runs checks deadlock.

The device's transport, whose `Kick()` does not wait for the write under way, is
covered by the proofs of section 4, which hold for both values of `Host`.

The types of every component are proved (section 4) and are not listed with the runs.

Properties, each with the code it is about:

* `QueueInv`: FDE_WRITE is on exactly while packets are queued, a closing socket has
  some and no peer (the CHECK at the end of `local_socket_close`), an open one
  with packets has the peer whose `ready` is called when they drain.
* `OneCredit`: until a hang-up, the right to send is in one place: FDE_READ of
  the writer, an A_WRTE, the reader's queue or an A_OKAY.
* `PipeSpec`: a stream implements `StreamPipe`: nothing is lost, doubled or out of order,
  and what was read is delivered before an end closes.
* `NoHalfOpen`: an end whose other end is gone has an A_CLSE, or the A_OKAY that
  provokes one, on the way.
* `StatusFirst`: a smart-socket client hears OKAY or FAIL before data and before
  its socket goes.
* `RunsApart`, `OldStreamsClosed`: a stream of a dead server never feeds one of the
  new server once the A_CNXN between the two have been handled, nor before if the server
  was replaced only once; and it is closed on the device.
* `OpenAnswered`, `CloseReaches`: an open is answered; an end whose application hung
  up, or whose other end is gone, is closed.
* `ThreadsPinTransport`, `ClosedLast`: no thread outlives the transport; the handle
  is closed after the last kick and write.
* `OfflineBeforeDelete`: sockets are closed before the transport is deleted,
  unless the writer left on its own error (section 5).
* `EndsDeleted`, `MainGoesOn`: a kicked or failed transport is freed; the main thread comes back to its
  loop and empties its queue.  Each names the one way in which it does not (section 5): a write to a TCP
  socket that never returns and is not ended by a kick, and for the main thread one that a kick waits for
  with `transport_lock`.
* `UsbTransportAlive`: `usb_transport` and `needs_retry` of `adbd_auth.cpp` never
  outlive the transport they are about.
* `OneExchange`: tokens and answers do not multiply, whatever fails or reconnects.
* `NoSpuriousDrop`: the streams of a transport that is online are dropped only for
  an A_CNXN that was sent again, for one of an earlier server, or for a confirmation that
  an earlier connection asked for.
* `BothOnline`: with an installed key, both sides end up online, and stay so, unless
  a token could not be generated or answered.
* `UniqueSerial`, `OnePerPort`: no serial is registered twice, no emulator is
  connected twice, although every check is made under a lock that is given up.
* `NoLostPort`: an emulator that was connected is connected, queued for a retry,
  or was given up after its retries.
* `OutputBeforeExit`: the exit packet comes after all output of all processes, unless
  a call failed or stdin could not be written (section 5).
* `InputConserved`: input is neither lost nor doubled, however it is split.
* `ExitReported`: when no process is left the thread ends, whatever
  the client does, and a client that has not hung up gets an exit packet.
* `PendingInv`: the fdevents on the pending list are active, have `FDE_PENDING` and an event,
  whatever the callbacks before them removed.
* `FdeOwned`: an fdevent is active exactly while the asocket or listener it is part of
  lives.
* `PeersAgree`: peers point to each other and to nothing that was freed, through every way a
  smart socket hands its client on or closes it and every tracker that is told.
* `LocalCredit`: between two local asockets one is read exactly while the other has
  nothing queued: neither is overrun, neither waits for ever.
* `TransportsOnline`: what asockets, smart sockets and listeners call their transport is
  online, and a listener is on the disconnect list of that one alone.
* `TrackersTold`: a tracker's client knows which devices there are, and all that are online.
* `HangupCloses`, `RequestsAnswered` of the server: a client that hangs up
  is closed, its service thread ends, and a complete request is answered or its
  connection closed.  A server that crashed (`AfterFree`, section 5) satisfies them.
* `HandleAlive`: no thread uses a `usb_handle` after `usb_close`.
* `UrbFree`, `WriteHonest`: an URB the kernel still has, after a timeout too, is not used
  again, and a write is reported done only if the device took it.
* `WholePackets`: a kick, also at exit, does not cut a packet.
* `ListFollowsDevice`: handles of devices that are unplugged are freed, and what is plugged
  in gets a transport, again after a kick, whatever its threads wait for.

* `RightVersion`: a client uses a server of another version, or kills one of its own, only
  if the one it had checked is gone by the time it connects again.
* `AloneSucceeds`: a client fails only because of another that launches a server, or because
  of `kill-server`, Ctrl-C, a failing `fork` or a predecessor that exits too slowly.
* `Settles`: every client comes to an end, and a server is left for those who needed one,
  however they killed each other's.

`RunsApart` has to leave a gap.  When the server is replaced twice, or replaced while an
A_CNXN was sent again, an A_CNXN by which the device answered the earlier server brings the
new one online, and its stream 1 can be connected to what the earlier server's A_OPEN
for its stream 1 started, until the device handles the A_CNXN of the new server.  The
protocol has nothing that tells the two apart.  `Settled` says that both ends are online and no A_CNXN is on its way.

### Fairness

The main thread is assumed to go round its loop: a packet passed on by the
reader thread is handled, and a descriptor whose application hung up is
reported by every `poll()` until it is closed, so weak fairness suffices.
Threads run, and a read or a write returns once `kick_func_` ran (it shuts the descriptor down).  A
write of the server to a USB device returns in any case, since `usb_bulk_write` waits five seconds at most;
nothing is assumed of a write to a TCP socket (`WriteFdExactly`, no timeout) or of a device's.  Nothing is assumed of applications, of clients, of
descriptors that may never become writable, of the connection, or of a read
that was not kicked.  `AdbAuth` assumes that both main threads handle the packets
they have, and nothing of the user, the framework or the connection.
`LocalTransports` states no liveness: it is untimed, and whether an emulator is
there when it is retried is not up to adb.  `ShellService` assumes that its
thread runs (a write to a closed socket fails, so it never waits for a client that is
gone) and that the main thread takes what is in the socket; `AdbStream` shows when it
may not.  Nothing is assumed of the subprocess, nor that `select` or `shutdown` fail.

`HostSockets` assumes that the main thread polls and runs its callbacks (weak fairness
of a `poll()` that reports nothing as writable), that `wait_for_state` polls its
descriptor every second, and two things with strong fairness: that a packet from the
device is handled though other callbacks run in between (`poll()` reports its
descriptor every round, and a device answers A_OPEN, as `AdbStream` shows), and that a queue
that is written to in parts again and again is written.  That a client reads is not assumed.
`UsbHost` assumes that its threads run and that a mutex that is free again and again
is obtained (strong fairness of the main thread and of a thread that leaves), and
that a device that stays plugged in can be opened in the end.  Transfers may never be
done: a write that is not times out.
`ServerStart` assumes that processes run, that the exit of a server ends (`usb_exit` shows when it
does not) and that a server in its loop answers.  Nobody has to call adb, and nothing is
assumed of Ctrl-C or of the time a server needs to exit.

## 4. Proofs

Every component has a module of proofs, which hold for all values of the constants: any
number of devices, clients, threads, packets, restarts.  Each rests on an inductive
invariant `IInv`, which TLC checked on the instances of the runs before it was proved, and has
a lemma for each piece that several actions share and a step or a lemma per action.

`AdbStreamProofs` proves `TypeCorrect` (`TypeOK`), `QueuesCorrect` (`QueueInv`),
`StatusComesFirst` (`StatusFirst`), `NothingHalfOpen` (`NoHalfOpen`), `TokenOnce`
(`OneCredit`), `RunsStayApart` (`RunsApart`) and `StreamIsPipe` (`PipeSpec`); the invariants it
rests on are stated in `AdbStreamInv`.

The inductive invariant of the queues is
`TypeOK /\ QueueInv`: the part about the peer of a socket with queued packets is what makes
`WriteAll`'s A_OKAY name a peer at all, and needs the part about rigged sockets
to survive `HandleOkay`.  `StatusFirst` needs `StatusInv` with it: a client waits for
its status exactly while its asocket is rigged with `local_socket_ready_notify`, one that heard
FAIL has no asocket, and an id not handed out yet has a descriptor nobody used (`FreshInv`).

`NoHalfOpen`, `OneCredit` and `RunsApart` are about two ends that know of each other only
through packets, so their invariant `StreamsInv` says what the two channels may hold for a
stream.  It tells three phases of a connection apart.  While an A_CNXN of the host is on its way
nothing is known of streams, because the device will close them all.  While the answer
is on its way (`Answering`), what the host has sent and is connected to names no open asocket
of the device, and what the device has opened since is unknown to the host (`AnswerInv`).
When none is (`Calm`), everything that names an open asocket names one and the same partner,
and nothing does while its A_OPEN is on its way; a partner that is closed has its A_CLSE in the
channel, or the A_OKAY is that will be answered with one, and no A_OKAY follows an
A_CLSE (`StreamInv`).  `ShapeInv`, `OnlineInv`, `DeviceIds` and `HostIds` bound the ids that
packets and asockets hold by those that were handed out, which is what makes a new id unknown to
everybody.  On this stand `CreditInv`, which counts the token of each direction over
FDE_READ, the two channels and the reader's queue, also while one of the ends does not know the
other yet; and `RunInv` and `RunsInv`, which say of every packet and asocket by which server
process its ids were handed out: all of them by the one that runs (`NoReuse`), or the
server was replaced once and the device has not handled its A_CNXN (`Restarted`) or the
host not the answer (`Answered`).  The actions are read once, as the cases of `Works` and `Moves`
(lemma `Views`): what a side does to one asocket, what it takes from a channel and what it
sends.  The parts of the invariant are proved from those.  TLC checked `StreamsInv` first, with one
asocket per side, a break and a resend and with two asockets and restarts (2.35 million and
342 thousand states).

`StreamIsPipe` states `ASSUME OneStream PROVE Spec => PipeSpec`.  `OneStream` names the instances that
the refinement mapping is for, those of `stream_flow`: one stream, opened by the host on a
connection that does not break and with one A_CNXN; the number of chunks each application
writes is not bounded.  The proof needs `PipeInv` besides `StreamsInv` (TLC: 58 782
states): nothing is sent before A_CNXN is answered, nothing but A_OPEN before it is
answered, the A_OKAY of the device is ahead of its data, and a side that has sent A_CLSE is closed
and has sent its last data.  The last is why an end that closes at A_CLSE loses nothing.  Each case of an action is
then one step of `StreamPipe` or none (`StepOpen`, `StepTake`, `StepGive`, `StepQuit`,
`StepFollow`, `StepNone`).  That the data in a channel that is extended is the data in it and
then the new one is an induction over the length of the channel: `Written` is a recursive
function, and the least length at which two such functions differ (`LeastNat`) is none.

`AdbTransportProofs` proves `TransportTypes` (`TypeOK`), `ThreadsPin`
(`ThreadsPinTransport`), `CloseComesLast` (`ClosedLast`) and `OfflineFirst`
(`OfflineBeforeDelete`) on the host and the
device and for any number of packets.  `IInv` adds to the types: before the threads start
nothing but the message refers to the transport (`NotStarted`); from then on
the reference count is the number of threads that have not left, and only the
last one closes and posts the removal (`Started`); `transport_lock` is with
whoever kicks (`LockInv`); and the writer thread does nothing while the transport
is still on `pending_list`, so that its kick on the way out finds it listed
(`WriterInv`).  The last is why the handle is always kicked before it is
closed, though `kick_transport` ignores an unlisted transport: the reader thread
may leave that early, the writer may not.  `OfflineInv` follows SYNC(0, 0): a writer
that did not fail leaves only after the main thread passed SYNC(0, 0) on to it, and the main thread
has closed the sockets by then.

`AdbAuthProofs` proves `AuthTypes` (`TypeOK`), `UsbAlive`
(`UsbTransportAlive`), `ExchangesBounded` (`OneExchange`) and `DropsExplained`
(`NoSpuriousDrop`) for any number of keys, breaks, restarts and framework
connections.  `UsbTransportAlive` alone is not inductive: a public key that
reached a device whose transport has not handled its A_CNXN would set
`usb_transport` to an offline transport, and nothing would reset it.  `CnxnFirst`
excludes it: on a transport the first packet is A_CNXN.  `NoSpuriousDrop` needs `DropInv`,
which counts what could still make a drop (exchanges and confirmations under way, A_CNXN on
its way to the host, a host that is online) against the A_CNXN that were sent.  It was stated without `late` before, and false: the attempt at the
step of `FrameworkConfirms` led to the confirmation of an earlier connection (section 5).

`LocalTransportsProofs` proves `LocalTypes` (`TypeOK`), `SerialsUnique`
(`UniqueSerial`), `PortsUnique` (`OnePerPort`) and `PortsKept` (`NoLostPort`) for any number of threads,
slots, ports and requests.  `SerialsUnique` rests on the last check, under
`transport_lock`, and on `ThreadInv`: the atransport a thread registers is its
own and has the serial it asked for.  `PortsUnique` needs `SlotHeld`: an emulator's atransport that
is not kicked is in a slot, so the search under `local_transports_lock` finds it.
It holds in spite of the slots that keep a deleted atransport (section 5):
those can hide nothing that is alive.  `PortsKept` has a second invariant, `PortInv`: each
port is held by a transport that `remote_close` has not left yet, or listed for a retry, since
the removal by the main thread (`MainRemoves`) lists nothing; and the thread
that retries works on the head of its list (`TakenInv`).

`ShellServiceProofs` proves `ShellTypes` (`TypeOK`), `ExitComesLast`
(`OutputBeforeExit`) and `InputKept` (`InputConserved`) for all sizes of buffers, pipes and packets.  `OutputBeforeExit`
says nothing before the exit packet, so the invariant follows the output: while
the protocol is open, a unit that was written is in its pipe, in `PassOutput`'s buffer
or passed on (`OutputConserved`); a stream that was closed without an error was at its
end (`ClosedAtEnd`).  The latter needs that a stream `select()` found readable is
still so when its turn comes, though `PassOutput` may wait in between
(`StillReadable`): otherwise a read of nothing would pass for the end.  `InputConserved`
needs `LeftInv`: no packet is read while something is left of the one before.  The
data in the packets still to be read is a sum over a sequence, `Data`; what `Append`
and `Tail` do to it is proved by induction over its length, in the form of a set of numbers
that has no least counterexample (`LeastNat`, from the library's theorem that strict
inclusion of finite sets is well-founded).

`HostSocketsProofs` proves `HostTypes` (`TypeOK`), `PendingCalled` (`PendingInv`),
`PeersPaired` (`PeersAgree`), `FdesOwned` (`FdeOwned`), `CreditKept` (`LocalCredit`),
`UsedOnline` (`TransportsOnline`) and `TrackersInformed` (`TrackersTold`), all from
`HostInvariant`, for any number of clients, transports, requests and names.  `CoreInv` is
proved as one, because its parts hold each other up: an asocket is closed together with the peer
that points to it only if peers agree, and its fdevent is removed with it only if it is
owned.  `CreditInv` is `LocalCredit` for the time a callback is under way: the one that has queued a
packet for its peer and not yet stopped reading.  `ListenInv` and `UseInv` tie listeners, asockets and
smart sockets to transports that are online, which is what lets `HandleSyncOffline` and
`RemoveTransport` find every one of them.  The lemmas `EffectsCore`, `EffectsUse`,
`EffectsCredit` and `EffectsTrack` say once what closing a set of asockets and queueing for
others does; the actions differ in what they add.

`UsbHostProofs` proves `UsbTypes` (`TypeOK`), `HandlesAlive` (`HandleAlive`), `UrbsFree`
(`UrbFree`), `WritesHonest` (`WriteHonest`) and `PacketsWhole` (`WholePackets`), all from
`UsbInvariant`, for any number of devices, packets and kicks.  `LockInv`: `g_usb_handles_mutex` is held
while the poll thread kicks, so that `usb_close` deletes no handle under it.  `LifeInv`: the
writer leaves only when its transport is listed, so that one of the two threads
kicks before the last one closes, and who kicks from the main thread does so while a thread still has its
reference.  `UrbInv` and `HonestInv` follow a transfer of the writer from the kernel to the
reader that reaps it and to `ok`: in each place the URB is in no other, and the device took
one transfer more than was reported.  `WholePackets` needs three things more
(`PacketInv`, `MarkInv`): the poll thread, which takes no `write_msg_lock_`, kicks only
devices that are gone, because what is plugged in was marked in the same round; who has set
`kicked` kicks; and `kick_all_transports` has left no transport out that was started
(`Spared`).

`ServerStartProofs` proves `StartTypes` (`TypeOK`), `VersionsRight` (`RightVersion`) and
`AloneNeverFails` (`AloneSucceeds`)
for any number of clients and versions.  `RightVersion` says nothing of the time between the check
and the second connection, so `ClientInv` carries over it what was checked: the
server seen has been bound and has the version the client's way implies.  `PortInv`, that
the one who listens has the port, then gives the step that matters: who is not met at
the second connection is gone.  `LaunchInv` (a client launches one server, and reads its
acknowledgement after it was bound) makes the same true of a server that was launched.
`AloneInv` says of a client that is alone and undisturbed that what it is connected to or has
checked still runs; `OldInv`, that the server before it was launched by none of them.

Assumptions: only the named ones on the constants (`StreamAssumption`,
`TransportAssumption`, `AuthAssumption`, `LocalAssumption`, `ShellAssumption`,
`HostAssumption`, `UsbAssumption`, `StartAssumption`).

Every invariant and every safety property that a run checks is a theorem, the refinement
included.  Model-checked only: liveness and everything under fairness, which the prover does not
reach.

## 5. What the code does otherwise than its docs and comments say

* `usb_exit`: `client/main.cpp:75` says in which order the server cleans up on exit.  It
  never comes to step 3 if a device without permissions is listed:
  `kick_all_transports` holds `transport_lock` (a `std::mutex`) and calls `Kick`, and
  `usb_kick` of a handle that is read-only calls `unregister_usb_transport`, which locks it
  again (`usb_linux.cpp:488`).  TLC shows a second way: the poll thread kicks the
  handle of such a device, has its mutex and waits for `transport_lock`, which the main
  thread holds while it waits for that mutex.

What follows was met in the models or while reading the code and is not kept as a run.

* Early data: the comment in `local_socket_ready` says a socket pays
  attention to readable events when its far side is ready.  A client that shuts
  down its write side before A_OKAY arrives is read earlier, with no peer: that packet is dropped
  and what follows is delivered (`MayLose` of `StreamPipe`).
* Dangling transport: `transport.cpp:175` and `:1016` describe an end through
  SYNC(0, 0).  If the writer fails first and the reader leaves last, the removal
  may be handled before SYNC(0, 0): the sockets are not closed and point to a
  deleted transport.
* Writes that hang: the comment at `transport.cpp:1016` says of a TCP device that is kicked that its
  transport is closed and freed in the end.  A write to its socket has no timeout
  (`transport_local.cpp:93`), and `Kick()` waits for it at `write_msg_lock_` (`transport.cpp:746`) before it
  would shut the socket down, with `transport_lock` held by its caller.  If the device stops
  reading, the kick waits as long as the write does, and the main thread with it, at the latest when it needs
  `transport_lock`: the server stops for all devices.  `MainGoesOn` shows that nothing else
  stops it.  TLC shows a second case: `kick_transport` ignores a transport that is not
  listed yet, so a reader that fails that early leaves a writer that nobody kicks, and if its write hangs
  the transport stays (`EndsDeleted`).
* Slots: the comment at `services.cpp:392-397` calls the race between two
  connections to one emulator harmless, "the data doesn't get corrupted".
  `init_socket_transport` fills the slot before `register_socket_transport` looks for
  the serial; when that is taken the atransport is deleted (`transport.cpp:974`)
  and stays in `local_transports`, where the next search reads it.
* Shell output: the comment at `shell_service.cpp:610` says that after a failed write
  to stdin only further input is dumped.  The descriptor that is closed is stdout
  as well (`shell_service.cpp:613`): output in the pipe is lost, and the exit
  packet follows as if it had not been.
* Freed asockets: the comment at `sockets.cpp:347` says that an error return of the peer's
  `enqueue` means "they closed us".  `local_socket_enqueue` closes both asockets of a local
  pair on a write error and returns 1, and a smart socket whose tracker cannot be told
  returns 0: `local_socket_event_func` goes on with a freed asocket (`AfterFree`).
* Trackers: `SERVICES.TXT:27` says a list is sent each time the state of a device changes.
  It is not when a device becomes unauthorized (`adb.cpp:391`) or its reader ends
  (`adb.cpp:376`); `TrackersTold` is what does hold.
* Devices without permission: one that is unplugged while its transport is on
  `pending_list` is not found by `unregister_usb_transport` (`transport.cpp:1050`) and stays
  listed; its handle is never freed in any case.
* An asocket on the closing list keeps its transport after `handle_offline`, and a hang-up
  makes it ask a deleted one for its payload size (`sockets.cpp:310`), though the comment
  at `adb.cpp:147` has all of them closed.
* `close_smartsockets` compares `local_name` where `connect_to` is meant
  (`adb_listeners.cpp:173`): nothing matches, and it erases the end of the list.
* `SendFail` returns true, so that a request like `get-state` that fails is answered twice.
* A service asocket whose thread reads nothing stays on the closing list with what was
  queued for it, and the thread of a `wait-for` request then never ends.
* Two clients that find no server both launch one.  The server that comes second does not get
  the port and ends, and its client fails with "cannot connect to daemon" though a server
  of its own version runs (`adb_client.cpp:203`); `AloneSucceeds` allows for it.
* `adb_kill_server` returns when it reads OKAY, because `ReadOrderlyShutdown` takes data for
  an answer, so the old server may still have the port when the new one starts; the new one
  tries for half a second (`client/main.cpp:133`).
* An answer of the framework names no transport: a confirmation that an earlier connection
  asked for is taken for the present one (`adbd_auth.cpp:119`), which goes online again
  and drops its streams if it was; `NoSpuriousDrop` allows for it.
* Smaller ones: `protocol.txt:158` forbids a second WRITE before a READY, while a
  half-closed descriptor is read all the same and sends one (order is kept,
  because the receiver queues; the flow-control limit is not); the comment at
  `shell_service.cpp:201` says the local socket is always monitored, while it is out of
  the read set as long as a write to stdin is blocked, so that a hang-up is not
  noticed (`shell_service.cpp:534`); the one at `shell_service.cpp:683` says the main
  thread owns the descriptor it is passed, which is always -1, since `StartSubprocess`
  has released it; `local_connect` takes the console port to be the adb port
  less one, so an emulator that was connected with another pair
  (`connect:emu:<console>,<adb>`) is retried under another serial; `protocol.txt:177` says a CLOSE is never answered, while
  `local_socket_close` of a connected socket sends A_CLSE back; `protocol.txt:137`
  says a READY for a stream that is not open is ignored, while `handle_packet`
  answers with A_CLSE, which `NoHalfOpen` needs.

## 6. Plan

1. Done: `AdbStream`, `AdbTransport`, `AdbAuth`, `LocalTransports`, `ShellService`,
   `FdEvent`, `HostSockets`, `UsbHost` and `ServerStart`; the refinement of `StreamPipe`; proofs of
   the types of all of them, of every invariant that a run checks and of the refinement.
2. Left: jdwp and the USB gadget of the device, which have state of their own (section 7), and
   a mapping to several pipes at once, for streams that share a connection.

## 7. Not modelled

Vendored libraries; Windows, macOS and libusb variants (`sysdeps_win32.cpp`,
`client/usb_windows.cpp`, `client/usb_osx.cpp`, `client/usb_libusb.cpp`), which
the build leaves out; mDNS (`DONT_USE_MDNS`); `commandline.cpp`, `bugreport.cpp`,
`line_printer.cpp`, `console.cpp` and tracing, which parse and print; the
one-shot services (framebuffer, remount, verity, reboot), which run a system call and end;
file sync, whose two ends are sequential programs on one stream.

Left out though they have state of their own: jdwp (`jdwp_service.cpp`), the USB gadget of the device
(`daemon/usb.cpp`), `adbd`'s `server_socket_thread` and the QEMU pipe, and several
shells at once (`waitpid(-1)` after a failed fork, `shell_service.cpp:649`).
