# WebRTCApps in TLA+

This directory specifies what WebRTCApps does between processes and threads: the
WebSocket signalling server (`signal_server_26_11_3`), the client engine that talks to
it and the local socket server through which front ends use the engine
(`webrtc_client-26-11-4`); the older engine with its HTTP signalling server
(`webrtc_engine`, `peerconnection/server`); the two ways in which video gets from a
daemon to the windows (`client_x64_linux`, `client_arm64_linux`, `ui`); and what the
windows do with their daemon, their detectors and the robot (`ui`). TLC checks the
specifications on small instances and TLAPS proves, for instances of every size,
invariants of all of them, and three refinements.

Paths below are relative to the repository.

## The system

| Component | Files | State | Operations | Works with |
|---|---|---|---|---|
| Client registry | `signal_server_26_11_3/registry.*` | `members_` (name, Idle or Busy, peer), `names_`, `next_id_` | Register, Call, IsPaired, GetPeer, Hangup, Remove, Roster, Has | called by the server |
| Signalling server | `signaling_server.*`, `messages.*`, `main.cc` | `id_to_hdl_`, `hdl_to_id_`, `last_pong_`, heartbeat timer | OnOpen, OnClose, OnFail, OnMessage, OnPong, OnHeartbeat | websocketpp endpoint, one thread |
| WebSocket signalling client | `webrtc_client-26-11-4/src/signaling/*` | `connected_`, `hdl_`, `my_id_`, `close_done_`, `running_`, observer and executor | Connect, Disconnect, Close, Call, Answer, Candidate, Leave, OnOpen, OnClose, OnFail, OnMessage | io thread; posts to the engine's signalling thread |
| WebRTC engine | `webrtc_engine.*` | `signed_in_`, `my_id_`, `peer_id_`, `is_offerer_`, `is_connected_`, PeerConnection, factory, data channel | StartCall, Leave, OnSignal*, PeerConnection and description callbacks, Start, Stop | signalling thread; libwebrtc |
| Engine controller | `engine_controller.*` | `client_id_`, `peers_` | HandleCommand, an event for every engine callback | IPC server in, engine out, and back |
| IPC socket server | `ipc/unix_socket_server.*` | `clients_`, `id_to_fd_`, line buffers with a discard mode, `running_` | Start, Stop, RequestShutdown, Wait, SendToClient, Broadcast, IoLoop | io thread, signalling thread and main |
| Client process | `main.cc`, `rtc_log_sink.*` | | starts and stops the parts | |
| HTTP signalling server | `peerconnection/server/*` | members with a hanging get, a queue, a partner and `hangup_received_` | sign in, wait, message, hang up and its confirmation, sign out, timeout | `select` loop, one thread |
| Older engine | `webrtc_engine/*` | `state_`, `my_id_`, `peers_`, control socket, hanging get, `peer_id_`, `pending_messages_` | Connect, SendToPeer, SendHangUp, SignOut, Close, OnRead, OnHangingGetRead, OnClose; calls and reconnection | signalling thread; HTTP server |
| x64 video ring | `client_x64_linux/shm_*`, `ui/qt_ui_x64/shm_*` | segment with mutex, `w_idx`, `r_idx`, `frame_count`, ring; `pending_`, `stopped_` | OnFrame, IoLoop, WriteFrame, ReadFrame, Start, Stop | two processes |
| arm64 video ring | `client_arm64_linux/rga_*`, `video_frame_shm_ctrl.*`, `ui/qt_ui_arm64/dma_*` | control block with cursors and sequence numbers, DMA buffers | Decoded, ReadFrame, Init, readLoop | two processes |
| Media pipelines | `client_*/media_pipeline.*`, codecs, pools | | set-up of capture and codecs | libwebrtc, V4L2, MPP, RGA |
| Windows: daemon | `ui/*/webrtc_process_manager.*`, `control_channel.*`, `mainwindow.*` | `state_`, `retry_count_`, QProcess, timers; `first_connect_`, `is_call_active_` | start, retryStart, stop, connectToServer, the events | Qt's event loop; the daemon as a process |
| Windows: driving | `mainwindow.*` of both, `serial_worker.*` | pressed keys, key timers, `held_key_`, follower's target and timer, `tx_queue_` | key events, updateMoveCommand, handleRemoteKey, onTrackingTimer | data channel, serial thread, microcontroller |
| Windows: detectors | `mainwindow.*` of both, `ai_receiver.*` | `ai_active_type_`, `ai_type_`, `ai_proc_`, `track_timer_` | toggleAi, startAi, stopAi, onAiDetections | data channel, receiver thread, detector process |
| Windows: the rest | `ui/*` | lists, chat, voice chat, statistics | | |
| Copies and vendored code | `peerconnection/*` but for the server, `third_party/*` | | | |

The first two projects are the ones the repository's README builds; they carry the
program's own distributed logic and come first here.
The older engine and the video rings are what the desktop and robot clients run.

### What is hard in it

- **Several writers of one call.** A call is two entries of `members_`, written by
  Call, Hangup and Remove, next to three more containers that a drop must keep in step.
- **Silent clients.** A client that vanishes is known by its missing pongs only.
- **Asynchronous descriptions.** `CreateOffer` answers later; by then a call from the
  other side, a leave or a lost connection may have changed the role and the peer.
- **Messages without a call id.** `answer`, `candidate` and `leave` mean "the current
  call" of whoever handles them, which need not be the sender's.
- **Reconnection.** Messages and events of the old connection are still queued.
- **Threads at the edges.** io threads, the signalling thread and main share
  `running_`, `client_id_`, `close_done_` and the executor.
- **A hanging get for a mailbox.** It is open, being reopened, or closed by the client
  when a message comes; whoever closes it, no message may be lost or overtaken.
- **A call that ends with a new sign-in.** The older engine closes everything after a
  call and comes back as another member while the server still has the first.
- **Memory shared by processes.** The segment outlives them, is initialised again by
  each renderer, and keeps the mutex of a process that was killed.
- **Reading without a lock.** The arm64 producer never waits for its readers.
- **Processes that are run.** QProcess learns of a start or an end after the fact, and
  timers of earlier starts and stops are still to fire.
- **Several drivers of one robot.** The operator's keys, the robot's own and the person
  follower share a serial line; a stop may be lost on the way.

### What makes each component correct

- registry and server: calls are one to one and both ends agree; maps, names and
  members stay in step; ids are never given out twice; everyone is told of every
  change, and of the end of its own call once; silent connections are closed in
  bounded time and healthy ones are not.
- engine, controller and signalling client: no use of a PeerConnection that is not
  there; engine and server agree about ids and partners once all is handled; every
  call has an outcome; an answer answers the offer it is applied to.
- HTTP server and older engine: messages arrive in order and once; clients know the
  members; a call opens with its offer; a hang-up ends it on both sides; nobody is left
  signed out, and no member stays without a client.
- video rings: a frame is whole and newer than the one before; indices and count
  agree; the threads on both sides stop when told to.
- windows: a robot nobody drives stops; a key takes the chassis from the follower, and
  the follower goes after persons of the person detector only; both windows show the
  detector that is on; a daemon that died comes back, with its channel; no call is
  shown that is over.
- IPC server: every complete line is delivered once and in order, however the stream
  is cut; what is sent to a client reaches that client in whole lines although
  descriptors are reused; a client that goes away harms nobody; shutdown ends.

## Modules

| Module | Models |
|---|---|
| `Registry` | `ClientRegistry` as operators on `members_`, shared by the server, its proofs and its mutants |
| `SignalingServer` | the server: one action per handler, the heartbeat with its clock, connections that open, close and fall silent |
| `CallPairing` | what the server promises about calls: online clients, ids used once, calls as pairs |
| `SignalingServerProofs` | the inductive invariant of `SignalingServer`, that it implements `CallPairing`, what it tells its clients; and the inductive invariant of `CallSession` |
| `CallSession` | the server composed with the engine of every client: commands, messages, PeerConnection operations and their callbacks, lost connections |
| `LineFraming` | how the IPC server cuts one client's bytes into lines, with a definition of lines on the whole stream as the reference |
| `IpcServer` | the IPC server, the controller's side of it and the three threads that meet there, with front ends that come and go |
| `IpcServerProofs` | the inductive invariants of `IpcServer` and of `LineFraming`, and the theorems |
| `WsClient` | the client's WebSocket under Connect, Disconnect and quit: handlers on the io thread, tasks of the engine, Close of main |
| `WsClientProofs` | the invariant of `WsClient` and the theorems |
| `PeerChannel` | the HTTP signalling server: one action per request |
| `HttpSession` | `PeerChannel` composed with the clients of the older engine: their two connections, the engine's calls and its reconnection |
| `PeerChannelProofs` | the invariants of `PeerChannel` and of `HttpSession`, and that the second implements the first |
| `VideoShm` | the x64 ring: renderer, io thread, window, reading threads, the segment they share |
| `FrameQueue` | what that ring promises: a bounded queue of frames |
| `VideoShmProofs` | the invariant of `VideoShm` and the refinement of `FrameQueue` |
| `DmaRing` | the arm64 ring: a producer and readers without locks |
| `DmaRingProofs` | the invariant of `DmaRing` and the theorems |
| `RobotDrive` | commands to the chassis, from both windows' keys and the follower to the microcontroller |
| `AiSwitch` | switching detectors: both windows, the detector's process, the receiver's thread |
| `DaemonControl` | a window's process manager, its timers and control channel, and the daemon behind them |
| `WindowProofs` | the invariants of `AiSwitch` and `DaemonControl` |
| `RobotDriveProofs` | the invariants of `RobotDrive` |
| `MCSignalingServer`, `MCCallSession`, `MCHttpSession`, `MCRobotDrive` | instances for TLC |

Each module that models code also holds a few *mutants*: variations of one operator
with a plausible mistake in it, named as such in their comments. No specification
uses them; they document that every property can be broken by a change of the code.

### SignalingServer and the code

One `io_service` thread runs all handlers, so a handler is one action. `sent` is what
the latest handler gave to the endpoint, per connection and in order, so that an
action property can speak about a handler's output. `endpoint_.send` on a connection
that is not open is an error the code ignores: `Send` drops the message. After
`endpoint_.close` the connection is "closing": it delivers no data and no pong any
more, and ends with the close handshake or its timeout, always in OnClose.

OnMessage reads one message. Its effective cases are the actions RegisterRefused,
RegisterAccepted, CallAccepted, CallRefused, Relayed, Message, CallLeft and GetRoster;
every early return without an effect is Ignored. Message texts are left out, session
descriptions and candidates are elements of `Bodies`.

Time passes in `Tick`, in seconds as in `std::time`. `last_pong` keeps ages instead of
times, which makes the state finite: an age stops at AgeCap, beyond which no test of
the heartbeat changes. The timer's handler runs as soon as it is due, and a client
that is there has its ping answered within `PongDelay` seconds. `TimingAssumption`
(`PongDelay < PingInterval <= PingTimeout`) is what the default settings 10 and 30
satisfy; `main.cc` does not enforce it.

### CallSession and the code

A client is one engine: its controller's guards, the signalling handlers and the
queue of operations inside its PeerConnection. All of it runs as tasks of the
signalling thread, so a task is an action:

- `CmdCall` and `CmdLeave` are the commands of `HandleCommand`, with its guards;
- `Receive` handles the next message or event in `down[c]`, the first-in, first-out
  stream that stands for the socket, the io thread and the thread's task queue;
- `RunJob` completes the PeerConnection's oldest operation and runs its callback:
  OnSuccess or OnFailure of CreateOffer and CreateAnswer, the observers of the two
  SetDescription calls. The PeerConnection is external: its signalling states and what
  each of them allows are those of JSEP, as the engine relies on them;
- `OnIceCandidate` and `OnConnectionChange` are the PeerConnection's other callbacks;
- `ConnectToServer`, `SendRegister` and `Disconnect` are the life of the connection.

A message to the server is handled in the step that sends it. This loses nothing:
what a client does between sending and the handling could as well happen after it,
since others learn of it only through later messages of the same stream. A message
lost with the connection is one sent after the server's side has closed.

An offer is a number, an answer carries the number of the offer it answers, so that a
mismatch can be seen. A call into a PeerConnection that does not exist sets `crashed`.
`asked` is history: a call command whose outcome no event has told yet.

A caller calls no other caller: `CmdCall` takes an id that belongs to a callee or to
nobody yet, and `RolesKept`, a conjunct of `SessionNext`, keeps such an id from coming to
another caller later. Where two clients call each other the code goes wrong (glare,
below), and the properties would only repeat it. `CallRelated` leaves the roster, which
is the last a handler sends and touches no call, out of the stream.

### LineFraming and the code

The state is a `Client` of `unix_socket_server.h`: `line_buf` and `discarding`. One
read of `IoLoop` with all the code does before the next is one action, for a chunk of
every content and every size below `kReadBufSize`. Bytes are the newline, the carriage
return and others. The loop over `find('\n')` takes one line per newline of the buffer:
`Ends` are the newlines, `Line` is what ends in front of one, `Unfinished` what follows
the last, and `LinesAt` puts the lines of some newlines in the order of the stream.
Applied to everything read so far (`stream`) they are also the reference for `delivered`.

### IpcServer and the code

Three threads run here: the io thread (`IoLoop` and the observers' callbacks), the
engine's signalling thread (commands and engine events) and main. A step is what a
thread does up to the next point where another can tell the difference, and `thread`
holds where the io and the signalling thread are and what they work on. So

- `Accept` assigns the id, `Insert` enters both tables under the mutex and runs
  OnClientConnected, which sends the greeting;
- `ReadLine` is one line with OnLineReceived, which posts the command to `tasks`;
- `CloseClient` closes the descriptor, as the code does before it takes the mutex, and
  `EraseClient` takes it out of the tables and runs OnClientDisconnected;
- sending is `RouteFound` or `RouteUnknown` and then `WritePart` twice: a line has two
  parts, since `write` may take less than all, and the mutex is held over both;
- `CheckClient` and `ReadClient` are the two reads of `client_id_` in
  `EngineController::Send`. On the io thread nobody else writes it, so there both
  are part of the callback;
- `HandleQuit` and `Notify` are the two statements of RequestShutdown, `FallAsleep`
  and `Sleep` the test and the sleep of Wait, `JoinIo` and `StopEngine` the two Stops.

`open_fds` is the kernel's view, which connection a descriptor stands for. The lowest
free descriptor or any other may be given to the next connection. `write` to a
descriptor that is closed fails (`WriteFails`), to one whose client has closed raises
SIGPIPE (`WriteKills`), and waits while the client's socket is full. `alive` is whether
the process still runs; all its steps need it.

### WsClient and the code

The command thread, the io thread, the engine's signalling thread and main each have a
variable for their place; `cmd` is between Connect's two critical sections, `io` holds
the handler that runs and what the rest of it needs. A connection's states are those of
websocketpp as the client sees them: connecting, open, closing, gone. Connections are
numbered, and the number stands for the id in the server's welcome. `overlapped` is
history: Connect was called while an earlier attempt was pending, which Connect cannot
see (`connected_` is false until OnOpen). `crashed` is set when the executor posts to a
thread that Stop has let go between its two reads. A call's messages are in
`CallSession`; here only the welcome matters.

### PeerChannel, HttpSession and the code

The server's loop handles one request at a time, so a request is one action with all its
calls: `Posted` is QueueResponse, `Notices` the broadcast, `sent` what went down which
connection in the step. `HttpSession` gives it clients. A client is a record of
PeerConnectionClient's and WebRTCEngine's members; all callbacks run on the signalling
thread, so a callback is an operator from record to record and an action applies one.
ReadIntoBuffer closes the connection and calls OnClose before the message is looked at,
so OnHangingGetRead opens the next hanging get first and OnRead sends the next pending
message first. A request of a connection the client has closed may still reach the
server (`stray`) or not (`DropClosed`), and the server sees the end of a hanging get
(`dead`) when it does, but before the same member's next one: the loop goes through its
sockets in the order of their connections. What a client makes of the notices on their
way is said without recursion: `PeersThen` is whom it knows when it has read the first n
of them, by the last notice about each member (`Left`, `There`). `Limits` is a set of
budgets for the users and the network: a behaviour keeps to one of them, which explores
combinations without the product of all.

### VideoShm and the code

A step runs up to where the mutex is taken or released. `io` and `reader[s]` are places
in IoLoop with WriteFrame and in readLoop with ReadFrame: "lock" wants the mutex, "full"
and "wait" sleep on a condition, "copy" holds the mutex. A frame is its number, and
`Oversize` those WriteFrame refuses. `Up` and `Down` are the arithmetic of the
`uint32_t` count. `InitShmSync` is what every renderer does to the segment, whoever uses
it; `cut` records that someone did. `stop` is told by stopVideoSources to the sources
the window points to, and `current` is lost when startVideoSources runs again.
`KillDaemon` and `KillWindow` leave the mutex with a thread that is gone.

### DmaRing and the code

`seq` is incremented in `Begin`, decremented in `Revert` and incremented in `Publish`;
between them the DMA buffer (`pix`) and the header (`head`) hold no frame. A reader
waits and takes with the mutex, then loads, copies and checks without it: three steps,
with the producer free between any two. `target` is history: the frame in the slot when
the reader chose it. The `continue` of the retry loop goes to the loop's condition, with
`seq1` of the round before: `LoadSeq` says so.

### RobotDrive and the code

A command is its name with the speed and turn it asks of the chassis, as signs. A timer
that runs out is `due` and its slot is a step of its own: `StopTimer` takes back a
timeout that is due, as QTimer::stop does, since timeouts are not queued. `link` is the
data channel, which is dropped with the call; `tx_queue_` is the serial thread's queue,
and a command that finds the port without room is lost, since nobody looks at what
`write` returned (`PortFull`); `lost` says that this was a stop and that the watchdog has
not run out since. A window is told of the end of a call by `callDisconnected`
(`OperatorTold`, `StopFollowing`) or otherwise (`ToldOtherwise`), with timers, keys and
target left as they are. `RestartTicks` is the restart of the daemons after
`callDisconnected`; without a restart the next call takes a sign-in, a call and its
connection first, which are assumed to take longer than the watchdog's 300 ms, too. One
tick is the 80 ms of the key timers. The microcontroller is not in the repository; `HandleFrame` is what
`MCU_SERIAL_PROTOCOL.md` says of it, which contradicts itself about `move_ptz`: its
reference C code looks for `"move"` with the quotes and ignores such a command, its
pseudo-code obeys it. `KnowsMovePtz` is that choice. Keys that cancel each other out
send nothing, although the comment at `qt_ui_x64/mainwindow.cpp:244` takes that to be
impossible; the motion of before then goes on until the watchdog ends it.

### AiSwitch and the code

`state` is what QProcess says and `model` what really runs, `"none"` when the process is
gone; `Started`, `FailedToStart` and `Finished` are where the first learns of the second.
stopAi waits in the slot until the process is gone, so stopAi followed by startAi is one
operator, `StopThenStart`. `rx` is the receiver's connection and `dets` the queued
signals of its thread. A report is whether it has a person.

A call ends for each window in one of three ways (`ending`), after what its daemon had
received of the other's messages: `callDisconnected`, when the partner left or its
connection failed; `serverDisconnected`, when its own engine lost or left the server and
the call with it (`webrtc_engine.cc:433`); the end of the control channel, when the
daemon died. The robot's window stops its detector and disables the buttons on the first
only (`RobotCallEnds`), the operator's clears its type and disables the buttons on the
first two (`OperatorCallEnds`), and the others leave all that as it is (`RobotCallLost`,
`OperatorLosesDaemon`); which buttons work is `enabled`. `unheard` is history: the
windows with a detector the other has not heard of, since it was switched while the
channel was closed, kept over the end of a call, or ended by itself.

### DaemonControl and the code

A timer is what its lambda does, the ticks of 500 ms left and the flag it captured
(`was_first`). The event loop and the daemon handle what there is before time goes on
(`Quiet`). A daemon that is terminated dies of the signal, since it installs no handler:
for QProcess that is a crash, so `Stop` runs `Died` as well: a retry is scheduled, and
`finished` makes the state Stopped after an error made it Error. `Retry` sets the state
to Starting over a daemon that runs by then, which nothing puts right until the next
stop. `start` resets `retry_count_`, a successful start does not. The daemon is the
older engine, as far as a window sees it: its own sign-in two seconds after a call never
comes, because the window stops it after half a second.

## Runs

| Run | Instance | Question |
|---|---|---|
| `server` | 3 connections, 3 names, 3 ids, interval 2, timeout 2, pong delay 1, symmetric | Do registry, maps, names, notices and rosters stay consistent in every order of messages, drops and ticks, are silent connections closed in time, and only those, and does the server implement `CallPairing`? |
| `session_roles` | 2 callers, 1 callee, 2 calls | With clients that either call or are called: no crash and an outcome for every call |
| `session_lifecycle` | 1 caller, 1 callee, 2 calls, 2 lost connections, 4 ids, failing PeerConnections | Do engines and server agree across losses, reconnections and failures, and is only the partner heard? |
| `line_framing` | 3 bytes (newline, CR, other), streams of up to 9, reads of up to 3, lines of up to 4 | However the stream is cut, are its lines delivered whole, in order and once? |
| `ipc_server` | 3 connections over 2 descriptors, 1 command, 1 event, sockets of 2 parts | Do routes and lines stay right in every interleaving of the threads, does the io thread get back to its loop, does quit end the process? |
| `ws_client` | 3 connections | Is there one live connection, does the engine know of it, in the right order and of its end, and does Close return? |
| `http_session` | 2 clients signed in, 3 ids, five budgets | Is no message lost or overtaken, does everyone know the members, does a call open with its offer, does every client come back, and does nothing of a call or a client stay that has ended? |
| `video_shm` | ring of 2, 2 sources, 4 frames (the first oversize), 2 renderers, 1 kill | Is the ring a queue, and do renderer and sources stop? |
| `dma_ring` | ring of 3, 1 reader, 2 retries, 8 frames begun | Are recent frames whole and in order, and does the source stop? |
| `robot_drive` | the operator with 4 keys (two that agree, one against them, one of the camera); one key in each window and a follower | When the keys are let go, is the chassis still once every command arrived? Does a key take the chassis from the follower, and does a robot nobody drives stop? |
| `ai_switch` | 2 detectors, 2 messages each way, 2 reports | Do the windows agree, is only the person detector followed, is a detector heard? |
| `daemon_control` | 2 retries, 2 faults, 2 calls | Do daemon and channel come back, and is a call shown only while there is one? |

`MaxId` bounds registrations, `MaxCalls` call commands, `MaxDrops` connections that
end; all are guards of the actions they bound. Three connections are the least with a
client outside a call, three ids let one client come back or three be there at once.
In `server` the timeout equals the interval, the least that `TimingAssumption`
allows: there a healthy client's age reaches the timeout and the comparison decides.
Two calls are the least in which something of one can reach the other.

Nine bytes are two lines of the longest length, so that one can be skipped, or end in
the same read as the next begins; a read is shorter than a line and may hold three.
Three connections over two descriptors make a descriptor come back for another client
while an old id is in a sender's hand, and leave a client beside the two. One command
and one event are enough for the signalling thread to send at any point of the io
thread's work; a command may be the quit. `MaxBytes`, `MaxConnects`, `MaxCommands` and
`MaxEvents` are guards of Read, Accept, ClientCommand and EngineEvent.

Three connections of `ws_client` are one that ends, one that replaces it and one that
is attempted meanwhile. In `http_session` each budget in `SessionLimits` is a story that
the others do not tell: a call with its hang-up and the two reconnections after it (the
third id is the one that comes back first, the other finds none left), a call under a sign-out with a new sign-in,
sign-outs with a lost connection, two calls with candidates, a call with a lost
connection. A ring of
two is the least with a slot between full and empty; four frames fill it and block its writer, two
sources are the one the window lost and its successor. A ring of three (the real ones have eight slots) is the
least in which a slot is neither being written nor the newest; eight frames lap a reader
twice. Readers of `DmaRing` share nothing that one of them writes (the copy of the
cursor in the control block is read by nobody), so one is enough, and the proofs hold
for any number. `MaxConns`, `MaxFrames`, `MaxStarts`, `MaxKills` and `MaxBegins` are
guards of the actions they bound.

In `robot_drive` `MaxLink` and `MaxTx` bound commands under way: two on the data channel
are a command of a key or the timer and the stop. `WATCHDOG` is the microcontroller's
300 ms in ticks, rounded down; the pause after a key is two ticks longer than it and the
time between two calls one (1 s and 1.5 s in the code): a longer pause only adds ticks
in which nothing changes. `Drivers` holds two scenarios, of which a behaviour keeps to
one. `StopReaches` is claimed where only the operator drives, since the others may go on
after the operator's stop, and `FollowerYields` where no camera key is used. In
`ai_switch` two messages are the off and the on of one click. Two faults and two retries
in `daemon_control` let a daemon die again before the first retry, or a start fail after
a crash; the second call is the one after a restart, with `was_first` false.

In `server` a state with the bound on ids reached can still drop connections, so
deadlock is checked there. The session runs stop when the users
have given their commands, the framing run at the bound on the stream, the IPC and
WebSocket runs when the process has ended, the video runs when frames and threads are
used up, and a window rests when its daemon is given up: they say CHECK_DEADLOCK FALSE.
The VIEW of `server` and of `http_session` leaves out `sent`: no guard and no property
reads it but in the step that wrote it, and TLC evaluates an action property on every
step, also on one to a state it has seen. The sessions' VIEW leaves out `sent`
(already appended to `down`) and the clock (these runs take no step of it).

### Fairness

The server's promises are bounds on time and need no fairness: `SilenceBounded` says
within how many seconds the heartbeat has begun to close a silent connection, with
`Tick` not running past a timer that is due. `NoneStranded` and `NothingLeftBehind` of
`http_session` speak of states in which nothing is left to do, instead of what eventually
happens. `Settled` spells out what is enabled in the code then: no reply or message to
read, no description to make, no reconnection due, and no request for the server but a
sign-in beyond `MaxId`; in `Quiet` no member is about to time out (`Expiring`), either.

In `ipc_server` the three threads run (the scheduler's part), and a client reads what
it is sent while it is connected: `write` waits for it, so without this the io thread
may be held for ever by one client that stops reading, a hazard of the code that
PROJECT.json lists. Nothing is assumed of commands, events, connections or closes, and
a wake-up of main without a notification is possible but not relied on.
`QuitEnds` speaks of a quit that finds main asleep in Wait. One that falls between
Wait's test and its sleep is lost, because RequestShutdown does not take the mutex;
the model has that behaviour (`FallAsleep`, `Sleep`), the property does not claim it.

In `ws_client` the threads run; what the server, the network and the user do need not
happen, and `Close` must return all the same: it waits at most a second, so `WaitOver`
is true.

In `video_shm` and `dma_ring` threads run, timed waits end, and a thread that asks for a
mutex that is released again and again gets it (strong fairness of the lock steps), as
with the kernel's futex queues in practice. Cameras and decoders need not deliver, the
DMA producer may stop anywhere: `SourceStops` of `DmaRing` excuses a mutex it stopped
with.

In `robot_drive` the timers, the data channel, the serial thread and the
microcontroller go on, and the windows handle the end of a call; users, targets and
calls are free. In `ai_switch` the robot's window handles its signals and the receiver's
thread runs; processes may die, report or hang as they like. In `daemon_control` the
window's event loop and the daemon run. Time (`Tick`) is strongly fair, because every
message interrupts it: a window whose user keeps clicking still gets its timeouts.

### Disagreements met while modelling

These are behaviours of the models, left out of the properties by a condition that the
property's comment names, or with no property at all:

- Glare: A and B call each other and A wins at the server, while B's engine still acts
  on its own call. B leaves and calls again, and A, which has closed its PeerConnection
  on the leave, gets a message of the next call it never heard of as callee:
  `peer_connection_` is null (`webrtc_engine.cc:326,340`; `TEST.md:115` expects one call
  to be refused). The model leaves this case out by `RolesKept`; without that conjunct,
  `MCRoles.cfg` with `Callers` and `Callees` both `{h1, h2}`, the only `Handles`, and
  `NoCrash` alone (`CallOutcome` fails sooner) shows such a behaviour in ten steps.
- The robot's window is told of the end of a call by `serverDisconnected`, or its daemon
  dies: its detector goes on, while the operator's window has cleared its type. In the
  next call the operator sees no detector on and the robot runs one, until either window
  switches (`ui/qt_ui_arm64/mainwindow.cpp:227,542`, `ui/qt_ui_x64/mainwindow.cpp:391,423`).
  The other way round, the operator's window keeps its type when its own daemon dies, and
  the robot, told by `callDisconnected`, stops. `ScreensAgree` leaves both out by
  `unheard`; without it in `RobotCallLost`, TLC shows the first in nine steps.
- The person detector's process dies while a target is valid. If Qt handles `finished`
  before the receiver's empty detection, the type is None by then and the detection is
  ignored: the timer goes on steering after a box of the past
  (`ui/qt_ui_arm64/mainwindow.cpp:59,951,957,1003`).
- A detector is asked for while QProcess is still starting the last one. stopAi does not
  end it, the start is ignored, and the old model runs under the new name, against
  `AI_VISION_MODELS.md:13`; the follower stays off if that name is not the person
  detector's (`mainwindow.cpp:978,982`; `FollowsYoloOnly` holds).
- The end of a call sets `first_connect_` so that the next daemon signs in; the timer
  that starts it puts the flag back before the channel is there
  (`mainwindow.cpp:271,279`). The user has no way out: Connect is disabled, and
  Disconnect has nothing to disconnect.
- `StartCallImpl` sets `peer_id_` before the call exists. If the server refuses it,
  nothing resets it: every later call is refused with `already_in_call`, and `leave`
  does not help because the server ignores it.
- An incoming call clears `is_offerer_` while the own offer is being created; OnSuccess
  then reports and sends the offer as an answer.
- A callee whose PeerConnection cannot be created tells nobody (`webrtc_engine.cc:436`):
  the server holds the pair, and the caller waits without an event until one of them leaves.
- A hangs up and calls B again before B has handled the leave. The server relays B's
  answer to the first offer, since A and B are paired again.
- A front end that closes before its greeting is written ends the engine: write raises
  SIGPIPE, which nothing in the client ignores. Likewise `send` in `dma_buf_server.cc`.
- Connect while an attempt is pending leaves two live connections, against the comment
  at `ws_signaling_client.cc:80`; the welcome of the older may come last.
- `close_done_` is set by the first close ever and not reset: after a reconnect, Close
  does not wait for the close frame to be out.
- The executor reads `signaling_thread_` twice, on the io thread, while Stop resets it.
- HTTP: a hang-up that reaches the server before it knows of the call is answered and
  ignored, and the call stays; a member that times out leaves its partner busy; a
  sign-out frees its partner even if that is in a call with a third; a message to a
  member that is gone closes the sender, which stays closed; a busy reply is never
  looked at, as it comes on the control socket.
- HTTP: Disconnect with a hang-up or an offer's request under way and a message still
  queued. OnRead of that request's reply calls OnMessageSent first, which cannot send any
  more and signs out itself; then OnRead finds the state SIGNING_OUT and takes the reply
  it has for the sign-out's (`peer_connection_client.cc:429`, `webrtc_engine.cc:606`).
  The client is CONNECTED again under an id the server is about to remove, with its call
  kept: `NothingLeftBehind` leaves out clients that have signed out.
- x64: without a source that reads, the renderer's destructor waits in a full ring for
  ever, and the signalling thread with it, which the comment at
  `shm_video_renderer.h:17` rules out. A renderer that starts while a source is inside
  the ring resets mutex and count under it; the source's `frame_count--` then wraps, and
  the writer finds a full ring for ever.
- The window's retries are used up by its own stops: after two calls and a crash in the
  third, the daemon may stay down, against `ui/qt_ui_arm64/DESIGN_REPORT.md:371`. (A
  start by `start` gives new ones; `DaemonComesBack` claims it with retries left.)
- The operator's commands do not pause the follower; a "ptz" command restarts the
  watchdog, so with a camera key held a chassis whose stop is lost goes on.
- arm64: `continue` in ReadFrame's retry loop goes to the loop's condition, so that the
  reader may leave it with a slot that is being written, against `dma_buf_reader.h:28`.
  The pixels are read in place after the check, so a reader that falls N-1 frames behind
  shows torn ones; one that falls exactly N behind sees an empty ring.

`CallOutcome` holds in the runs listed; with two clients that call each other it fails
like `NoCrash` (an incoming call reuses the PeerConnection of a refused one, whose state
does not take the offer), and nothing is claimed of `SidesAgree` and `FromPeer` there.

## Proofs

`SignalingServerProofs` proves for all finite or infinite sets of handles and names
and all values of the constants within `IdAssumption` and `TimingAssumption`:
`TypeCorrect`, `RegistryCorrect`, `SilenceIsBounded` and `HealthyClientsKept`.

None of the properties is inductive. `IInv` is the conjunction of

- `RegistryInv`: TypeOK's part for the registry and the maps, `PairingConsistent`,
  `MapsConsistent`, `NamesConsistent`, and that every assigned id is below `next_id`,
  so that a new one cannot overwrite a member. Pairing needs the maps (a drop finds
  its member) and the maps need the names' and ids' bounds;
- `HeartbeatInv`: types of the clock, the bound on each age in terms of the time that
  has passed since the last heartbeat, and for each reachable client either an
  unanswered ping not older than `PongDelay` or an age that dates from this interval;
- that `sent` is well typed.

`Registry`'s operators have lemmas of their own (RegisterLemma, CallLemma,
HangupLemma, RemoveLemma), so that a step's proof only says which operator applies.
`HealthyClientsKept` follows from `HeartbeatInv`: a heartbeat comes `PingInterval`
after the last one, which is longer than `PongDelay`. So a reachable client has no ping
open any more, and its age is at most `PingInterval <= PingTimeout`.

`RefinesPairing` is proved from the same invariant. Its lemmas say what
each operator of `Registry` does to the set of calls (`RegisterCalls`, `PairCalls`,
`IdleCalls`); a registration is then `Join`, an accepted call `Call`, a leave `End`, the
drop of a registered client `Depart`, and every other step a stutter. That ids are fresh
is the invariant's `i < next_id`.

`RosterIsBroadcast` and `EndIsToldOnce` are about the output of one step. `ChangesMembers` names the four handlers that touch the registry. `OutputAt`
and `NoticesOfParts` say what one connection gets of an output put together of parts, so
that a handler's proof is about which of them hold its handle; that a leave or a drop
reaches the other end and no third client needs the maps to be inverse to each other.

The second half of `SignalingServerProofs` is about `CallSession`, for any number of
clients, callers, calls and lost connections: `EnginesAgree`, `MessagesOfTheCall` and, for
PeerConnections that do not fail, `PcsThere`. Their properties compare an engine with a
server that is ahead of it by what is in `down`, so none is inductive. `SessionInv` is the
server's `RegistryInv`, the types (`SessionTypes`), `RolesKept`, and for every client
`ClientOK`, which says what its stream will make of its engine:

- `PeerAt(s, peer, k, p)`: with the first k messages of s handled, the engine is in a call
  with p. `StreamOK` says by it that every answer, candidate and end of a call in the
  stream finds the engine in the call it is about, and `PartnerOK` that after all of them
  the engine is in the call in which the server has the client;
- `SignOK`: the engine has the id the server gave it, or the welcome with it is the first
  message of the stream; a client the server does not know is signed out, or the news of
  the lost connection is the last of the stream. `LinkOK` is the connection's part;
- `CallerOK` and `CalleeOK`, the roles: a caller in a call is its offerer, so its offer
  never goes out as an answer; and while the offer is still to be made the server has it
  in no call, and no end of an earlier one is under way to it.

With the stream empty, `SignOK` and `PartnerOK` are `SidesAgree`; with k = 1, `StreamOK` is
`FromPeer`. The proof goes in two layers. Lemmas about one client say that handling the
head of the stream (`ReceiveClient`), an operation (`JobDone`, `QueueClient`), a command
(`StartClient`) and what a server's step appends to the stream keep `ClientOK`; lemmas
about the server (`CallServed`, `LeaveServed`, `RelayServed`, `RegisterServed`,
`CloseServed`) say that each handler gives every client only what keeps its stream in
order: an answer or a candidate is relayed only between the two ends of a call, an end is
told to those whose call ended. `PcsKept` adds that an engine in a call has a
PeerConnection; with `FromPeer` that is why no message misses one.

`OutcomeTold` proves `CallOutcome` from these, again for PeerConnections that do not fail.
The condition is needed: a callee that cannot create its own returns from OnSignalCall
(`webrtc_engine.cc:436`), the pair stays at the server and the caller waits; `MCRoles.cfg`
with `Faults` TRUE shows it in five states. `OutcomeInv` follows both ends of a call and
all that is under way between them:

- `AskedOK`: to a caller that still waits (`asked`), the outcome is `Decided` (its stream
  has the answer, an end of the call, an error or the loss of the connection; or its
  engine still makes the offer, or takes the answer, or is negotiated and on its way to
  "connected"), or it is `Awaited`: the partner has the call to read in its stream, or is
  making the answer to it;
- `Ready`: a caller makes its offer first and applies it before any answer, which the
  stream cannot have while the offer is not made; a callee is sent a call only when the
  stream before it leaves it in none, and waits for nothing itself. So no operation that
  is due is refused for the state it finds the PeerConnection in;
- `PairRoles`: the server pairs a caller with a callee only.

When nothing is left to happen, no stream and no operation remains, and so nothing to
decide or await. Each step takes a waiting caller from one of these cases to the next or
tells it: the offer made becomes a call in the callee's stream, the call read becomes
operations of the callee, the answer made is relayed into the caller's stream; and what
ends the callee's side first (a leave, a drop, another call) puts the end of the call into
the caller's stream, or an error if it was still to be paired.

`WsClientProofs` proves `OneIsLive` and `EngineIsRight`. `Single` makes `OneLive`
inductive: the open connection is the one in `hdl_`, and between the two halves of
Connect there is none. `EngineKnows` speaks of moments with no event under way, so
`Informed` says the same of the id the engine comes to (`Settles`) when it has handled
the event in the handler's hands and the tasks posted before it.

`IpcServerProofs` proves, for all sets of descriptors and all values within
`IpcAssumption`, `TypeCorrect`, `TablesCorrect`, `OwnLinesOnly`, `LinesStayWhole` and
`ListenerIsKnown`. Its `IInv` adds to these invariants

- `TransitOK`: what is true of the client between `Accept` and `Insert` and between
  `CloseClient` and `EraseClient`, when table and kernel disagree about it, and that
  assigned ids are below `next_client_id_`;
- `SendersOK`: a thread holds the mutex exactly while it writes, and the tables still
  name the descriptor it looked up. With `TablesAgree` this gives `WriteFacts`: the
  kernel has the writer's descriptor for the writer's client, or that client is gone,
  from which `OnlyOwnLines` follows;
- `TailsOK`: where a line is half written, its first half is the last thing in the
  client's socket. `LinesWhole` alone is not inductive: the second half must find its
  first half in front of it;
- `ListenerOK`: `ListenerKnown` at the io thread's other places.

Each part has a lemma for Next (`TypeNext`, `TablesNext`, `SendersNext`,
`ListenerNext`, `OutboxNext`); `SendQuiet` and `OthersQuiet` say once which steps leave
the tables alone.

The second half of `IpcServerProofs` proves `LinesDelivered` from `FramingAssumption`: for
bytes, limits, reads and streams of every size, `DeliveredAreLines`. It is inductive with
`BufferInv`: in normal mode the buffer is the unfinished line of the stream, in discard
mode that line is too long already. `FrameKeeps` has the argument for both ways a read is
framed: the buffer is what follows a newline of the stream (or its beginning), so its lines
are the stream's from there on (`LineAfter`, `From`), a longer stream has the lines it had
(`StreamGrows`), and the lines at two sets of positions, one before the other, are
together those at their union (`LinesJoin`). A read in normal mode cuts after the last
newline, a read that ends a skipped line after its first; the line between is
at least as long as the unfinished one was, so nobody was promised it. The order of the
positions rests on how many of a set lie at or below a member (`RankFacts`, `RankJoin`,
`RankShift`), the beginning of a line on the least position of a set (`Least`: the order
of the naturals is well-founded), so no step is an induction over the data.

`PeerChannelProofs` proves `ChannelOrder` for the server under any requests. `Orderly`
is its invariant: `WaitMeansEmpty`, `OneWaiter` (a connection is the hanging get of one
member), and that the members are functions of the right shape. It is a property of the
members alone and needs no types of the requests, so `SessionOrder` carries it over to
`HttpSession`, each of whose steps is a step of the server or leaves it alone
(`OrderlyNext`).

Its larger part is about the session, for any number of clients and ids and any
`Limits`: `SessionIsChannel` (what clients send is what `PeerChannel` expects, so a
session implements it), `SessionKnows`, `SessionStrandsNone`, `SessionLeavesNothing` and
`SessionOpensByOffer`. Each of the properties relates clients to a server that is behind or ahead of them by
what is under way, so none is inductive. `SessInv` is

- `ServerOK`: the server's types, `Orderly`, that no member is its own partner, and that
  a notice in a queue says whom it is about;
- `ClientsOK`: what holds of one client by itself (`Alone`): its types; a client without
  an id has no call and no hanging get (`Unsigned`); what its control socket may carry in
  each state (`Controls`, `Asks`); one that signs out has no hanging get (`States`). As
  long as the network cuts nothing it has a request under way in every state that waits
  for a reply (`Uncut`): this is what leaves nobody stranded;
- `IdsOK`: a client's id, those of its requests and hanging gets still under way, and the
  one a reply brings it (`Holds`) are no other client's, and the one that comes is new to
  what is left of the client's own past (`Fresh`). So what the server still sees of an
  old connection never speaks for a new member;
- `WaitersOK` and `GetsOK`: every hanging get the server holds is one that its client
  holds or has closed, and every one a client holds the server holds, too;
- `MailsOK`: with all that is on its way to it read, from the message read next through
  the queue at the server, a client knows the members and no others; each message in
  between is from a member that it knows by then; and its partner in a call is someone
  it knows. The news of members that left thus comes to whoever is in a call with one.

The proof has three parts. What the server does in a step is reduced to a few facts:
which members there are afterwards, that a notice goes to every other one, and who gets
it by the hanging get and who into the queue (`Outcome`, `Fits`, `Handled`: a lemma per
handler); from these follows what each client gets (`Serves`, `ServedInv`). What a client
does is a chain of operators from record to record, each of which keeps `Alone` and
`Uncut` and asks for nothing in another's name (`Fine`), keeps what it knows and whom it
calls, or ends the call (`Keeps`, `Reads`). What a mailbox makes of its reader has lemmas
of its own: one response more at its end (`ThenLast`), one less at its beginning
(`ThenFirst`), neither by induction: `PeersThen` speaks of positions. That the first
line of a notice is a definite member needs the least of a set of ids (`LeastId`, by the
well-foundedness of `<`).

The condition `used["drop"] = 0` of the properties is a part of `ClientsOK`, `GetsOK` and
`MailsOK` only. `SessionIsChannel`, the ids and that every member has its client need
nothing of the network.

`SessionOpensByOffer` needs a second invariant, as `SessInv` keeps the members' news in
order and not the bodies of messages. Nothing that is dropped and nobody who hangs up
(`NoCut`, the conditions of `OfferOpensCall`), a client is in one call at most for as
long as it has its id: all its messages go to one peer, the offer first. `CallInv` says
this of what is still on its way, by two sets of ids: `Touched`, whose client has been
called or sent an offer, and `Spoke`, whose client is in a call. Only members that spoke
have messages under way, and any but an offer goes to a member already touched
(`Rightly`); what waits at the server comes from such members (`Boxes`); a client that is
not in a call yet finds an offer before any other message in its queue (`Opening`); and
the offer of a client with more to say has been handled, is handled next, or never will
be (`Open`). Both sets only grow, so what a step leaves alone keeps what it says; each
step of a client has a lemma for itself and one for what the sets gain by it.

`VideoShmProofs` proves `RingConsistent` and `Refinement`. `RingAgrees` is inductive
with the types. The refinement needs `Order` besides: the frames in the ring are in the
order of their production, newer than `shown` and older than `frame` and `pending_`.
With it `IoWrite` is `Put` (`WriteIsPut`), `ReadCopy` is `Get` (`ReadIsGet`),
`StartRenderer` is `Reset` or `Break`, and the other steps stutter (`SameQueue`).

`DmaRingProofs` proves `Marks`, `RecentWhole` and `InTurn`. Its `IInv` adds to the types

- `Counts`: how `producer`, the mutex and the two counters go together;
- `SeqMarksWriting`: where the odd sequence number is;
- `Contents`: a slot's header and pixels are those of the frame its age gives, where
  the age is how many slots it lies behind the producer's cursor;
- `Cursors`: what a reader chose, and what it chooses next, in terms of that age;
- `Reads`: where the slot of a read lies, and that the header copied is that of
  `target` while the producer is less than a ring minus one ahead.

Ages are what the proof turns on: a reader compares two indices, which say nothing of
how often the producer went round. `RecentIsWhole` then follows from `Contents` and
`Reads` without a look at the sequence numbers.

`WindowProofs` proves three invariants of the windows. `FollowsYoloOnly` is inductive as
it stands. `ScreensAgree` needs `InStep`, which says what a message under way means: the
last word the robot's window said is its detector's type, or it has still a message to
hear that it will answer; and `Apart`, that between two calls a window that was told of
the end has its detector off, or one that is in `unheard`, and has nothing left to hear. `CallShown` needs `LastWord`: with the queued events
handled (`Shown`), the window shows a call only if the daemon has one; and `ChannelOK`,
that a channel that is on has a process.

`RobotDriveProofs` proves `KeysLetGoStop` and `KeysComeFirst` for all timers, keys and
targets within `DriveAssumption`. `AloneInv` follows the operator's last command through
the two queues (`AtRest`: it is a stop, or the chassis is still with nothing behind it,
or the stop was lost)
and over the end of a call: what the last call left in the serial queue or on the chassis
is over before the next begins, since the watchdog has less time left than is left until
then (`Settles`). `YieldInv` says the same of the follower's last command and the pause
that a key of the robot starts.

Types (`TypeCorrect`, `ChannelTypes`, `Types`), `TablesAgree` of the IPC server and
`RingAgrees` of the x64 ring are proved and are in no run.

## Only model-checked

Liveness, as the prover has neither fairness nor ENABLED.

## Not modelled

- the Stop functions, the command line, wall-clock jumps, overflow of `next_id_`;
- statistics, data channel messages and text messages beyond their relaying;
- in `CallSession`, registering again over a live connection: there the user does so
  after the disconnect event; `WsClient` has the connections themselves;
- in the older engine: loopback calls, a refused connection with DoConnect's retry,
  GetLocalSdp, the data channel, statistics, the JSON of the control protocol;
  browsers' requests, `/quit` and the limit on connections of its server; a failing
  `InitializePeerConnection` (the caller then has no call, the one called signs out) or
  CreateOffer (the caller keeps a PeerConnection and sends nothing): `Described` fails
  for an answer only; that `pending_messages_` is emptied in a task
  that `DeletePeerConnection` posts (`webrtc_engine.cc:470-479`; `NoCall` does it at once);
- in `WsClient`, what the application is told: for an address that is no URI `ConnectNew`
  returns as the code does, without the `OnSignalError` that goes with it;
- in the video rings: failing system calls, colour conversion, the handshake that hands
  the DMA buffers out (`dma_buf_server.cc`: its races at Stop are in PROJECT.json), and
  a second producer of one ring, which the pipelines never make;
- media pipelines, codecs, RGA and MPP drivers: sequences of library calls over data,
  with no state of their own that another thread or process sees;
- in the IPC server: Broadcast, which nothing calls; a listening socket that cannot be
  set up (the io thread then ends and main waits for ever); a connection over the
  limit, which is closed at once and changes nothing; a descriptor that another part of
  the process opens while a sender still holds its number; `peers_` of the controller;
- in the windows: voice chat, chat and lists, closing the window, serial framing and
  reconnection of the port, a sign-in that fails, a daemon that listens later than half
  a second after its start, a window that loses the focus while a key is held;
- logging, JSON text and copies: `peerconnection/` holds three or four earlier versions of the engine,
  clients and windows, which make up most of the repository's lines. They repeat the
  components above, so most of the implementation stays uncovered on purpose.

## Plan

1. done: `Registry`, `SignalingServer`, `CallPairing`, `SignalingServerProofs`,
   `CallSession`.
2. done: `LineFraming`, `IpcServer`, `IpcServerProofs`.
3. done: `WsClient`; `PeerChannel`, `HttpSession`; `VideoShm` with `FrameQueue`;
   `DmaRing`; the proofs of the servers' and the rings' invariants.
4. done: the proofs of `EndOfCallNotified`, `RosterBroadcast`, the refinement of
   `CallPairing` and the invariants of `WsClient`; the invariants of `CallSession` for
   clients with fixed roles, and `CallOutcome` of both ends of a call; the framing of
   lines of any length; the invariants of `HttpSession`.
5. done: `RobotDrive`, `AiSwitch`, `DaemonControl` and their invariants.
6. `dma_buf_server.cc`: registration, Stop and the pools' life beside the capture
   thread; the serial framing of `serial_worker.cpp`.
7. The retry of a refused connection, and a server that restarts, in `HttpSession`.
