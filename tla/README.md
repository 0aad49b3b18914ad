# PS2 Servers: a TLA+ verification project

PS2 Servers serves games, saves and disk images to networked PlayStation 2
consoles over several protocols: UDPFS (a file and block protocol on the UDPRDMA
transport), UDPBD (a block protocol), SMB and HTTP, with a desktop launcher and a
second implementation, Edge, for routers. This directory holds TLA+ models of the
servers, of the launcher's parts that keep state across threads and processes, and
of Edge's writers; the TLC configurations that check them on small instances; and
TLAPS proofs for every value of the constants. `PROJECT.json` lists the
components, runs, hazards, findings and theorems, and maps each definition to the
source lines it stands for.

    tlc -workers 2 -config Transport_restart.cfg MCUdpfsTransport
    tlc -workers 2 -config Shares.cfg MCShares
    tlapm UdpfsTransportProofs.tla

## 1. Inventory

| component (source) | state | operations | interacts with | what is hard | what makes it correct |
|---|---|---|---|---|---|
| **UDPRDMA transport** of a UDPFS session (`udpfs_server/udpfs_server.py`: `_handle_data`, `_send_*`, `_wait_for_*`, `Session`) | `tx_seq_nr`, `tx_seq_nr_acked`, `tx_buffer`, `rx_seq_nr_expected`, the pushback list, retry counters | take a request, acknowledge and execute it; answer with one packet or a windowed stream; wait for window and final ACK; retransmit | the console; the session queue the demultiplexer fills | loss, repetition and reordering; 12-bit wrap; waits that take and hand back queue items; the console starting over in the middle | a request is executed once and acknowledged only if executed; the console gets exactly its reply; what it lacks can be resent; every wait ends |
| **Session table and demultiplexer** (same file) | `sessions`, and per session: queue, `last_activity`, `_closing`, its thread, its handles | look up or create, evict the oldest, sweep the idle, shut down, join, clean up | sockets, workers, the shared block device | a lookup under a lock used after it; a sentinel that a wait may swallow; evicted workers that live on; shutdown against running I/O | a console in the table is served; a session out of it ends and closes its files; the device is not closed under a worker that is waited for |
| **Profile negotiation** (`udpfs_server/ps2servers_core.py`) | per session: `protocol_profile`, `discovery_sequence`, `handshake_generation`, `fallback_sent`, remembered DISCOVERY | DISCOVERY, delayed compatibility INFORM, classification of the first DATA, hand-over to a new loader | the main thread, the worker and one timer thread per handshake, all on one session | a decision made under `compat_lock` and used after it; timers of old handshakes; resent requests that look like a new loader's | replies are numbered as the console expects; nothing is executed twice; files stay open across a hand-over; each loader is served |
| **File and block operations** (`udpfs_server.py`: handlers from `_handle_open` to `_handle_bwrite_req`) | the handle table, `next_handle`, the write being assembled; shared: the folder, the block device, `bd_lock` | OPEN, CLOSE, READ, LSEEK, WRITE, BREAD, BWRITE, REMOVE | the transport, the host's file system, other sessions | a write spread over many chunks whose request was refused or whose loader is gone; the shared object behind handle 0; error paths | a write lands whole where it was asked for or not at all, and is answered once; read-only changes nothing |
| **UDPBD server** (`udpbd_server/udpbd_server.py`, `launcher/raw_storage.py`) | `_write_left`, `_write_owner`, one file position, the image or raw device | INFO, READ, WRITE, WRITE_RDMA | all consoles, on one socket, in one thread | one position and one write in progress for all consoles; partial failures | a write never leaves its region; success means stored |
| **UDPFS folders and names** (`udpfs_server.py`: `_handle_dopen`, `_handle_dread`, `_handle_getstat`, `_handle_remove`, `_handle_rmdir`, `_handle_mkdir`, `_resolve_entry`, the compressed names) | directory handles with the entries they were opened with | DOPEN, DREAD, CLOSE, GETSTAT, the lookup of OPEN, REMOVE, RMDIR, MKDIR | the folder, which the user and other sessions change | a listing that lasts many requests; names that stand for other files; links | what is listed can be opened and is that file; nothing behind a link is deleted |
| **SMB2 server** (`smb2_server/smb2_server.py`) | per connection: dialect, session, signing key, credits, trees, handles, listings | the SMB2 commands, compounds, SMB1 negotiate | one thread per connection over one folder | credit book-keeping; signatures across logoff; look-then-act on files under other threads | a client never hangs for credits; replies are signed as promised; listings are complete |
| **SMBv1 for OPL** (`smbv1_server/smbserver_opl.py`) | per connection: trees, open files, searches | OPEN_ANDX, NT_CREATE_ANDX, READ, WRITE, the search calls, directories | one thread per console over one folder | creation races; resumable searches | no create destroys; searches are complete |
| **Pause of Windows file sharing** (`take_445`, `_take_445`) | which services were stopped, in which order | stop, wait, restore | Windows services, Ctrl-C | an interrupt between stopping and noting it | sharing is as it was found |
| **HTTP server** (`http_server/http_server.py`) | the game index and its token; a handler's cached file | games.csv, range GET, HEAD | request threads, the console's disc driver, the folder | rescans that overlap copies; a failed sendfile in the middle of a body | the index catches up; the stream stays in step |
| **Launcher: processes and configuration** (`launcher/gui.py`, `process.py`, `single_instance.py`, `config.py`, `elevate.py`, `windows_setup.py`) | server processes, launcher.json, the mutex, a pending elevation | start, stop, quit, elevate, reset, autostart | Tk, worker threads, Windows | results that arrive handlers later; an instance that replaces another | every server can be stopped; a reset stays reset |
| **Direct link** (`gui.py`, `launcher/directlink.py`) | the port's address, the saved settings, the helper process, its DHCP state | enable, disable, re-home, clean up, restore; probe, answer, exit | PowerShell or root helper, the cable | one of several steps failing; the launcher going away in between; the cable moved | no port is left static and unknown; no LAN is answered |
| **Status poller** (`launcher/status_client.py`, `router_status.py`) | targets and last answers per server | set, clear, sweep, answer | poller thread, window, servers | an answer under way while its server is stopped | an answer shown is of this run |
| **RetroAchievements** (`launcher/ra_*.py`) | receiver, watch list, account session, frames, evaluator, unlock history | the UDP loop, account tasks, resolver, reset, logout, panel polls | console, service, window, threads | late results of an earlier account, image or run; lost and mixed parts | what is evaluated and shown belongs to this account, image and run |
| **Library** (`launcher/library_catalog.py`, `library_panel.py`, `library_gui.py`, `game_library.py`, `disc_identity.py`, `art_fetch.py`) | the catalogue, the games and ART folders, the window's worker and queue | scan, inspect, import, covers, refresh, cancel, install, check | other programs, the disk, the web | files that change between stat, open and read; one cancel flag for all work | the catalogue says what the image is; nothing is overwritten; the last refresh is shown |
| **Edge** (`native/ps2servers-edge/`, Go) | sessions, workers, handles, the writer reservations, a memory budget | the same protocols | consoles | reservations across expiry, hand-over and removal | one writer per file, in the file that is in the folder |
| Session statistics (`launcher/session_stats.py`) | counters per client | record, snapshot | all servers | | counts add up |
| Compressed image readers (`udpfs_server/compressed_iso/`) | index, block cache | read at offset | READ and BREAD | block arithmetic at the ends | equals the uncompressed image |

The console's side is not in this repository; its actions are taken from the
project's own clients (`udpfs_server/multiclient_selftest.py`,
`conformance/integration/udpfs_parity.py`) and, where those do not say, from how
the servers' code uses it (entries marked `external`).

## 2. Modules

`UdpfsTransport` is below, `UdpfsSessions` beside, and `UdpfsNegotiation` and
`UdpfsFiles` above the same `Session` object. Each module keeps the part of the
session it is about and abstracts the others to what they may do to it; the
section of each says how. The other modules model components that share no state
with these or with each other. `*Proofs` modules hold the theorems (`SharesProofs`
those of the modules of `shares`, `DesktopProofs` those of the launcher's), `Sorting`
the order in which the file servers list a folder, `MC*` modules
what TLC needs beyond the specification; `MCShares` and `MCDesktop` each put
independent modules into one run: `part` is chosen at the start and only that part
moves, so the states explored are the sum, not the product, of the parts'.

A section at the end of some modules holds what the code, a comment or a doc leads
one to expect and the code does not do. No run checks it; section 5 says with which
constants TLC finds it violated.

Definitions that a comment introduces with "Mutant:" are deliberate errors
that no specification uses: substituted for the definition that follows them, each
makes TLC report the property listed with it in `PROJECT.json`, which shows
that the property depends on that piece of code.

### UdpfsTransport

One session and its console. `tx` is `tx_seq_nr`, `tx_seq_nr_acked` and
`tx_buffer`; `pc` is where the worker is: in `Session._run` ("idle"), in the loop
of `_send_raw_data_with_header` ("sending"), in `_wait_for_window_ack` ("window")
or `_wait_for_final_ack` ("final"). There is one action per case of `_handle_data`
(`HandleAck`, `HandleNack`, `HandleDuplicate`, `HandlePeerReset`,
`HandleOutOfSequence`, `HandleRequest`) and per way out of a wait
(`WindowAck`, `WindowNack`, `WindowNewRequest`, `WindowTimeout`, `WaitResent`, and
the same for the final wait). A reply is `_send_data`'s single packet or a stream;
its bytes are `<<request, index>>`. The queue is part of the network, since the
demultiplexer only moves datagrams; timeouts may fire at any moment; the rate
limit of `_retransmit_from` is covered by losing what was resent. The DISCOVERY
branches of the waits cannot be reached (the main thread handles DISCOVERY).

### RequestReply

What a session promises its console, with no network and no sequence numbers: one
request outstanding, executed at most once and never unasked, counted as arrived
only once executed, its reply handed over piece after piece until it is whole; a
console may boot again and forget what it waited for. `UdpfsTransport` instantiates
it (`Promised`): all but the count of executions is the console's own state, and
`PromiseKept == Promised!Spec` is a property of two runs and, for a console that does
not start over, a theorem (section 4). Every datagram handled, lost or repeated that
is not one of the abstract steps is a stutter.

### UdpbdServer

One action per handler and outcome; `Serve` takes the first datagram of some
console. The rigid variable `bd` says which kind of device the server was started
with: an image, one on a disk that stores less than it was given, a read-only
one, a raw device (which refuses requests past its end), a read-only raw device.
A block is tagged with the console, the command and its index, so that a property
can tell where each came from. The channel of one console is FIFO and does not
repeat, as on a switched LAN: the server never looks at the packet number, so
nothing could be said about repeated pieces.

### UdpfsSessions

The main thread (`demux`: in the loop, between lookup and `queue.put`, joining,
done) and the workers. Sessions are numbered by creation, as an evicted one lives
on beside its console's next. A handler is what it does to the session: use a
file or the device ("io"), open or close a handle, wait and take items off the
queue. `abandoned` records the sessions nobody waits for any more: those that
left the table and those whose join timed out. Thread creation does not fail.

### UdpfsNegotiation

One address and the loaders that follow each other at it. Actions of the main
thread (`Discovery...`), of the timer threads (`Fallback`) and of the worker, whose
handling of a request is cut where the code lets go of `compat_lock`: `HandleData`
decides, `Accept` or `Refuse` acts, `Reply` numbers the answer. The mode of the
server is part of the state and never changes. A new loader appears when the
session is quiet (booting takes seconds: queued requests are handled, timers have
run out, so has the time in which a DISCOVERY counts as repeated) and does not by
chance start at the number where the old stream would go on, which the code
documents as undecidable. "Picky" consoles understand only the delayed INFORM.

### UdpfsFiles

The folder (one directory, paths that name files or not), files with contents,
the handles of each session, the write being assembled, and the block device with
the one file position behind handle 0. The transport is taken to deliver a
session's requests in order and once (which `UdpfsTransport` checks), so sending
and handling are one step; sessions interleave between requests, inside OPEN
(`OpenChecks` looks, `OpenFile` or `OpenFails` opens) and, on hosts without pread,
between seek and transfer (`Seek`, `Transfer`). `setup` says what is served, by
which host and to which consoles. A chunk, a sector and a READ are one unit. An
open file that is removed lives on (POSIX). The buffers of Python's file objects
are not modelled.

### UdpfsDirectory and UdpfsPaths

`UdpfsDirectory` is one session, one folder of files with extensions, and its
directory handles: DOPEN reads the folder, DREAD shows one entry (a compressed image
under its ISO name, a CD CHD as CUE and BIN), while the user adds and removes files.
`OpenSource` and `StatSource` are the lookups of OPEN and GETSTAT. `UdpfsPaths` is
REMOVE, RMDIR and MKDIR on paths that may lead through a link.

### Smb2Session, Smb2Files

`Smb2Session` is one connection and a correct client: `ServeMessage` is
`_dispatch_all` on a message of one request or of three chained ones; a handler is an
operator that gives its possible outcomes. The NTLM exchange is reduced to which
challenge it answers and which key it yields. `Smb2Files` is what the file handlers
of several connections do to one folder; CREATE and rename are cut between the look
and the act (`CreateLook`, `CreateAct`, `RenameLook`, `RenameAct`), as only the file
system stands between the threads.

### Smb1Server

Consoles with a connection and a thread each over one folder. NT_CREATE_ANDX is cut
between the look and the call (`CreateCall`), searches keep their list, reads go
through a buffered object and writes open the path anew, as in the code.

### Port445

`take_445` (version 2) and `_take_445` (version 1) with the mains that call them, one
step per service command and per poll. Windows is the environment. An interrupt may
come before every step until the restore has begun.

### HttpIndex, HttpHandler

`HttpIndex` is `GameIndex`: request threads take the change token (`ScanRoot`,
`ScanSub`) and rebuild under the lock (`RebuildRoot`, `RebuildSub`) while files come
and go; lookups are operators for both profiles. `HttpHandler` is one keep-alive
connection with the console's disc driver, which reads as many bytes as it asked
for; `Sendfile` may fail half way and `Copy` goes on from there.

### EdgeWriters

Edge's session table, one worker goroutine per session, the hand-over between
loaders at one address, and the map of reserved names with its three operations,
each under its own lock. OPEN, WRITE, CLOSE and REMOVE are cut where the locks are
released.

### Launcher, DirectLink, DhcpResponder

Tk runs one handler at a time: a handler is an operator from the state to the states
it may end in (the user's answer, a refused prompt, a failing Popen). Worker threads
come back as actions any number of handlers later. `Launcher` is the processes, the
firewall check, elevation, the successor instance and what is in launcher.json (the
loop of the autostart is cut between servers, `AutostartOne`: Tk runs nothing else
meanwhile, but a server may die);
`DirectLink` the port, its settings and the workers that change it; `DhcpResponder`
the helper process itself with the cable and what it leads to.

### StatusPoller

The poller thread (a sweep over a copy of the targets, one query at a time), the
window that sets and clears targets and asks before a stop, and the servers, whose
runs are numbered.

### RaOwned, RaFrames, RaSession

`RaOwned` is the service's loop in three steps (cut where it lets go of
`_frame_lock`), the resolver, the account tasks and the callers. `RaFrames` is the
console's snapshots in datagrams that are lost, late and repeated, their assembly and
the evaluation frame by frame; sequence numbers wrap inside the run. `RaSession` is
the panel's thread, which polls the engine, and the window's timer.

### LibraryCatalog, LibraryWindow

`LibraryCatalog` is the LIBRARY tab's one background operation over catalogue,
games folder and ART folder, cut between stat, open, read and save, with other
programs in between and a kill at any point. `LibraryWindow` is the achievement
library's window, its one worker, the queue between them and the refresh that is
remembered while another kind of work runs.

## 3. Runs

| run | checks | shows |
|---|---|---|
| `transport_reorder` | PromiseKept, AckNeverRewinds | both rings wrap inside the run; datagrams are repeated and those of the previous request still arrive; the session implements RequestReply |
| `transport_restart` | PromiseKept, LostPacketsRecoverable, ConfirmedDelivered | three requests over a repeating and reordering network, the console booting again at any point |
| `transport_live` | WorkerReturns, RequestAnswered | a network that loses: every transfer ends and every request is answered or given up |
| `udpbd_devices` | WritesConfined, AnsweredTruly | two consoles, five kinds of device, failures and losses everywhere |
| `udpbd_short` | FullDiskReported | violated: finding 1 |
| `sessions_table` | NothingLeaks, NoShutdownRace, ClosedInTheEnd | more consoles than entries, sweep and shutdown at any point |
| `negotiate_loaders` | NumberedAsExpected, HandedOver, Served | three loaders in a row, each mode, each kind |
| `files_console` | AssemblyIsCurrent, FilesKept | the loaders of one console, six setups |
| `files_share` | AnsweredOnce, DeviceWhereAsked, WritesAreWhole | two consoles on one file or one device |
| `files_wronly` | ReadsAnswered | violated: finding 2 |
| `shares` | ClientInStep, ListingComplete (SMB2); SearchComplete, CreateDestroysNothing (SMBv1); SharingRestored (port 445); IndexServes, StreamInStep (HTTP); FolderShown, LinksNotFollowed (UDPFS names); SingleWriter, BusyIsReal (Edge) | nine independent modules, each with its clients, threads and faults interleaved |
| `desktop` | NothingLingers (processes); PortAccounted, LinkLeftClean (direct link); AnswerOfThisRun (status); AccountBound, EvaluatedAsPlayed, ToldOnce (achievements); CatalogFaithful, WindowFaithful (library) | nine independent modules of the launcher, with threads, helpers, timers and the user interleaved |

Several properties are conjunctions of named parts that speak about one promise of
one component; the parts stand above them in the module, each with the code it is
about.

Bounds, and why they are enough:

- Transport: a ring of 16 with windows of 1 and 2 keeps the code's ratio (the
  window is far below half the ring, which is what `TransportAssumption` asks) and
  streams are longer than the window, so that the window wait, its retries and the
  final wait all happen. Two requests show a copy of one inside the other, the
  third request of `transport_restart` follows the restart. The restarted
  session's numbers are away from 0: a restarted console that waits for packet 0
  cannot tell the old stream's packet 0, and no code could.
- UDPBD: a write of three blocks in packets of two has a middle and a padded last
  piece; the starts 0 and 1 on a device of three make one region reach past the
  end, which a raw device refuses. Two commands per console give every pair of
  interleaved commands. The server handles a console's datagrams in order and
  keeps nothing of them, so one on the way stands for many. `CmdIds` is not
  exhausted: the reuse of a 3-bit id is not explored.
- Sessions: a table with one entry and two consoles evicts at every change; three
  sessions suffice for a session, its successor and the first console's next. One
  tick lets a session become idle.
- Negotiation: a ring of 16, DISCOVERY numbers 0, one in the middle and the last
  (whose successor wraps to 0); three loaders, so that what one leaves behind
  meets the next but one; two handshakes per loader, so that an old timer meets a
  newer handshake.
- Files: two writes of up to four chunks with a limit of two (the third chunk
  meets the transfer limit), one or two handles (the table of handles is full
  with the device's), two sectors.
- SMB2: a limit of four credits is reached and used up by a compound of three and
  one more; both ceilings of the dialect are tried; two connections (one
  that only browses) with a handle each and two names make every look-then-act race.
- SMBv1: two consoles, two names, one block of contents, one search each, with and
  without --read-only.
- Port 445: no bound; the services and drivers are those of the code, each found
  running or not, any command refused, any wait outlasted.
- HTTP: files in the root and in a subfolder whose names differ in nothing but case;
  two threads; two copies. A file of at most three bytes, so that a transfer has a
  beginning, a middle and an end.
- UDPFS names: four names, of which three stand for one title in different
  containers.
- Edge: two consoles, one file, two inodes (a removed file and its successor), two
  sessions in all and three requests: enough for an expired session that still holds
  the file its console's next one asks for.
- Launcher: two servers of which one needs an administrator, two instances. Direct
  link: two addresses, two re-homings, three instances, elevated from the start or not;
  the other risks of `LinkRisks` and those of `HelperRisks` are off, see section 5. Poller: two servers, two runs of each.
- Achievements: one image and one account, two runs of the service, two calls of its
  owner and two of the console; sequence numbers modulo 10, frames of two parts, four
  frames and up to three late datagrams; two games and two unlocks.
- Library: one image of three versions, changed at most once during an inspection;
  two entries and three refreshes.

The consoles in the two block and file modules and their names are
interchangeable, so `udpbd_devices` and `files_share`, which check safety only,
use symmetry. Deadlock is not checked: a console may always stop asking, and the
bounds end every run.

Fairness, and what justifies it:

- `UdpfsTransport`: weak fairness of the send loop, of both timeouts and of taking
  an item handed back (a running thread and timers); of the console's two timers.
  Strong fairness of handling a request, a copy, a NACK, of the console's taking
  the acknowledgement and the expected packet: a datagram that is sent again and
  again gets through in the end. Without it nothing is answered on a lossy network.
  ACKs get none: a stream whose ACKs are all lost is given up, which
  RequestAnswered allows.
- `UdpfsSessions`: weak fairness of each worker's own steps. Its waits have
  timeouts and a bounded number of retries (`WorkerReturns` above), its I/O returns.
- `UdpfsNegotiation`: weak fairness of the worker, of each timer, and of the
  console's DISCOVERY until it is heard and its request until it is answered.
- The modules of `shares` and `desktop` state safety only; no fairness is assumed.

## 4. Proofs

In parentheses, the property of a run that the theorem states.

| module | theorems | from |
|---|---|---|
| `UdpfsTransportProofs` | Invariance, TypeCorrect, BufferBounded, NothingHandedBack, AckMonotone (AckNeverRewinds) | `TransportAssumption`: an even ring, SEND_WINDOW + 2 below half of it |
| | Tracking, PromiseKeeping (PromiseKept), LossesRecoverable (LostPacketsRecoverable), ConfirmedReached (ConfirmedDelivered) | also `Late(L)`, see below |
| `UdpbdServerProofs` | Invariance, TypeCorrect, AlwaysAligned, AlwaysConfined (WritesConfined) | `UdpbdAssumption` |
| | ToldTheTruth (AnsweredTruly) | also MaxCmds < CmdIds |
| `UdpfsSessionsProofs` | Invariance, TypeCorrect, AlwaysServed, AlwaysPutServed, NeverLeaks (NothingLeaks), AlwaysNoShutdownRace (NoShutdownRace) | `SessionsAssumption` |
| `UdpfsNegotiationProofs` | NegotiationInvariant, RepliesNumbered (NumberedAsExpected), FilesHandedOver (HandedOver) | ~Background |
| `UdpfsFilesProofs` | FilesInvariant, AssembledIsCurrent (AssemblyIsCurrent), OneAnswer (AnsweredOnce), MetWhereAsked (DeviceWhereAsked) | `FilesAssumption` |
| | WholeWrites (WritesAreWhole) | no setup is both sequential and without pwrite |
| | NothingLost (FilesKept) | one console, OPENs with O_CREAT ask to write |
| `EdgeWritersProofs` | WritersInvariant, OneWriterPerFile (SingleWriter), TakenOverNotRefused (BusyIsReal) | `EdgeAssumption` |
| `SharesProofs` | FolderAsShown (FolderShown), SearchesComplete (SearchComplete), NothingDestroyed (CreateDestroysNothing), ListingsComplete (ListingComplete), IndexCatchesUp, IndexServesWhatItLists (IndexServes), ClientStaysInStep (ClientInStep) | the modules' assumptions |
| | SharingIsRestored (SharingRestored), LinksStayLinks (LinksNotFollowed) | nothing: these modules have no constants |
| | ConnectionInStep (StreamInStep) | "vanish" not among the disk faults |
| `DesktopProofs` | AnswersOfThisRun (AnswerOfThisRun) | ~QuickRestart |
| | WindowAnswers (WindowFaithful), ToldJustOnce (ToldOnce), BoundToTheAccount (AccountBound) | the modules' assumptions |
| | JudgedAsPlayed (EvaluatedAsPlayed) | ~RaRestarts |
| | CatalogTrue (CatalogFaithful) | LooksDisturbed <= 1 |
| | LeftAsFound (LinkLeftClean) | "early" not among the helper's risks |
| | EverythingReached (NothingLingers) | ~EarlyClicks |
| | BoxTrue (two parts of PortAccounted) | "cleanup" not among the link's risks |
| | PortNeverLost (PortAccounted) | no risk of the link but "admin" |

Where a theorem has a hypothesis on the constants, the paragraph on its module says what
goes wrong without it; the run that checks the property has constants that satisfy it,
but for the restarts of `transport_restart`.

- Transport. `WindowBounded` alone is not inductive: the next packet may only be
  kept if the loop's test, which looks at `_in_flight()`, says something about the
  packets already kept. The invariant `IInv` adds that each of them is at most one
  further back than the packets in flight (the one is packet 0 of a new session),
  that fewer than SEND_WINDOW are in flight while the loop may send, that a wait
  has attempts left, and that at most one item is handed back, and only between
  transfers.
  Lemmas about `NextSeq`, `PrevSeq` and `Diff` do the ring arithmetic, written
  without a modulus so that the provers can follow it. `AckMonotone` follows from
  the acceptance test.
- Transport and console. The refinement needs to know that no datagram on the way can
  be taken for another. `Tracked` says of the last request whether the session has taken
  it; if not, that all of the earlier replies has arrived (`Before`); if so, that the
  packets out and kept are pieces of this reply, among them every one the console lacks
  (`During`, `ServerOK`); and of each datagram (`NetOK`) and of what is handed back
  (`PushOK`) that it belongs to this exchange, or how far its number lies behind, by
  its age: replies are at most L packets long, so a datagram that is `age` requests old
  has a number at most age * L + SEND_WINDOW + 1 before this reply's first.
  `Late(L)` is what makes that distance tell: (MaxAge + 2) * L + SEND_WINDOW + 2 is less
  than the ring, so that no number comes round while a datagram that bears it is on the
  way. With the code's ring of 4096 and window of 8 that holds for replies of 1000
  packets (about 1.4 MB) and datagrams up to two requests old. The other parts: the
  console does not boot again (TLC checks PromiseKept with restarts); and if datagrams
  outlive their request at all (MaxAge > 0), no request but the last may be numbered 0,
  as a late copy of that one is taken for a restart (section 5). For MaxAge = 0 the
  theorems hold with every start. `PromiseKeeping` shows that every step of the session, of the
  console and of the network is a step of RequestReply or a stutter.
- UDPBD. The invariant is the type and `WriteAligned`; `WritesConfined` follows
  from it for each step, as only the accepted write stores, at the position.
  `AnsweredTruly` needs what is still in the channels (`Queued`: the pieces of a
  console's commands in order, the later of each pair with the higher id), that the
  blocks the write in progress has counted are on the device (`InProgress`), and that
  what was answered belongs to earlier commands (`AnsweredEarlier`). The id has three
  bits: once it comes round and a CMD_WRITE is lost, the pieces of a command complete
  the abandoned write that had its id, hence MaxCmds < CmdIds.
- Sessions. `RegisteredIsServed` needs that a worker which leaves was told to: a
  sentinel in a queue implies the flag (`Sentinels`), sessions not created yet are
  blank (`Unborn`), and what the main thread holds between two steps is sound
  (`MainThread`: the target is registered, nothing is shut down before the
  interrupt). `NoShutdownRace` needs in addition `Waited`: after the interrupt
  every live worker is being waited for or was abandoned, and after the joins
  only the latter.
- Negotiation. `Progress` follows a console through its handshake: before it was
  heard the session is fresh, or left over from an earlier console and able to tell
  that from the DISCOVERY it remembers or from the number 0; then ready for the first
  request, decided between `HandleData` and `Accept`, established after; what waits in
  the queue is in order, with copies. `ExecutedOK` counts what was carried out, and
  timers exist in automatic mode only (`TimersOK`). A DISCOVERY of a console that runs,
  handled between decision and acceptance, undoes the decision (section 5), hence
  ~Background.
- Files. A write is in three places: what the console has sent of it, what the
  session has assembled, and, on a host without pwrite, what the worker holds between
  seek and transfer. `WriteOK` relates the three, through refusals and writes that are
  too long or that another loader left; `SeekOK` says that such a worker has `bd_lock`
  and the position. Consoles that use handle 0 with LSEEK, READ and WRITE share its
  position, which is why DeviceWhereAsked is proved for those that do not, and
  WritesAreWhole for those or with pwrite. FilesKept is proved for one console, as two
  that create one file race, and for OPENs that create only to write, as another one
  makes the missing folder on a read-only share too (section 5).
- Edge. The reservations are exactly what the sessions hold (`Held`: open write
  handles and the OPEN under way), each held by one session (`Apart`); within a session
  a file is held once, a handle the running loader did not open is marked, and a
  handle's file is the one in the folder (`Sound`); no two names are one file
  (`OneName`). From this both theorems follow without a further invariant.
- Folders and searches (UDPFS, SMBv1, SMB2). For each open listing there is a set of
  names the folder had when it was read: the list is that set in order, what was told
  came from before the index, none twice, and every name before the index that stayed
  was told. That a list read in order has each name once is a lemma about `Sorted`.
  CreateDestroysNothing needs no more than the types: the step that empties a file is
  the call of an OVERWRITE_IF that found it.
- HTTP. `InStep` says for each place of the handler how many bytes the driver
  still waits for and how many are in the stream; a connection where the two cannot be
  made equal is marked to be closed. A file deleted between the header and the opening puts an
  error text where the body should be, hence the hypothesis. `IndexInv` says of every
  token, the index's and those the threads hold, that it is not newer than the folder,
  and of what was listed under it that it is still true if the folder has not changed
  since. That the rows lead home is a fact about any set of files (`IndexFiles` says that
  the index holds one): paths of one or two names are ordered as their ranks are
  (`PathRank`, a number), so among the files that share a name there is a first one, which
  is what makes `FlatOwner` one of them; a retained path matches itself before any suffix.
- The SMB2 connection. `SessionInv` holds between two messages: client and server agree on
  key, challenge and signing (`KeysAgree`), and the client's credits are the server's or
  one behind (`BooksAgree`: a client that came with an SMB1 frame paid for a NEGOTIATE
  the server does not charge); a connection that is down has no handle. Within a message the books move with each request, so what is shown for one
  request (`ServeOne` and what the client learns of its reply) is composed along the
  message. Messages are single requests or chains of three, the only ones the client
  sends, hence the recursive functions are unfolded one and three times and no induction is
  needed.
- Port 445. `Sharing` says of the SMB2 server what it remembers and has done: a driver is
  as it was found or is noted, what is noted ran, LanmanServer and Browser are touched
  only if LanmanServer ran, and whatever runs ran before, as services only run on services
  that run (`Upright`). A start brings back what is beneath a service as well, which is
  why the last part is needed.
- Links. The entry and the walk over a path agree: a path whose walk is clean is its own
  entry (`EntriesOf`), so the deletion is of what the path names.
- Desktop. StatusPoller: a child that runs is the run its target names, and an answer
  under way is of the target or of one that was cleared; a server started again within
  one query would give the old answer to the new target, hence ~QuickRestart.
  LibraryWindow: what is queued and what the worker does is the answer to the last
  click, or a refresh is pending. RaFrames: there is a number b from which all numbers
  count, so that within half the sequence space a number names one frame; datagrams, parts
  kept and frames judged agree with it. A console that counts from the beginning again has no
  such b, hence ~RaRestarts. LibraryCatalog: an undisturbed inspection has stamped,
  opened and read the image that is there; one that was disturbed once finds another
  stamp at the end. Disturbed twice, the image may be back. RaSession: an unlock that was
  told, or is about to be, is in the engine's ring while its run lasts, in what was
  fetched from it, and among those the tracker has seen. DhcpResponder: the device that was
  answered has been counted, no other server was heard since the last probe, and the
  flag `configured` tells whether the address may be on the port; a signal between the
  command that adds the address and `configured = True` leaves it there, hence the
  hypothesis. That a move does not lead on is a lemma about `PlanRehome`. RaOwned: an
  identification starts with no watch list left, so a set that is installed is of the
  image asked about, and account changes drop it (`RxOK`); the owner who logged out is
  out, or a logout waits in the queue with nothing behind it that signs anybody in
  (`WillBeOut`); a frame of before a reset is in the loop's hand at most, with the flag
  set that stops it (`FramesOK`). Launcher: NothingLingers compares a count of processes
  with the cards, so the invariant covers all that may still start one: until an
  instance is killed a live card has one process and no other has any (`ChildOK`); a
  server has one check or setup under way at most, and then neither a process nor a place
  in the autostart (`FlowOK`); nothing runs before the first timer, and what that one
  continues the second does not start again (`StageOK`). A click before them breaks
  this, hence ~EarlyClicks. DirectLink: there is at most one worker, and
  while it is under way the box is busy and no helper is expected (`LinkOK`); a port
  with an address has the one on record, or the one worker is about to give it that one
  (`PortSafe`); settings are dropped only after a restore that found or made the port
  free of them. A killed launcher, a refused script or a declined prompt breaks
  `PortSafe` (section 5) but not `LinkOK`, from which BoxTrue follows.

TypeOK, WindowBounded and PushbackDrained of the transport, TypeOK and WriteAligned
of UDPBD, TypeOK, RegisteredIsServed and PutReachesServed of the session table are
proved and therefore in no run; every property in parentheses in the table is both
checked and proved.

Only model-checked:

- Liveness (WorkerReturns, RequestAnswered, ClosedInTheEnd, Served): the provers handle
  neither fairness nor ENABLED.
- The transport's promises when the console boots again: they hold only while the
  session's numbers are away from 0 (section 5), so that the theorem would need a second
  invariant for the session that has not noticed yet, and bounds on every number it uses.

Every other property of a run that passes is a theorem.

## 5. Findings

Each is shown by a run that reports a violation.

1. `udpbd_short`: the image is opened unbuffered, so `write` may store less than
   it was given; `BlockDevice.write` does not look at the count and the console is
   told that its write succeeded (`udpbd_server.py:130`).
2. `files_wronly`: a READ on a handle opened with mode `wb` or `ab` raises an
   `OSError` without errno, the error path fails on `-e.errno`, and no answer is
   sent (`udpfs_server.py:2003`).

### Observations

Made with the same modules and other constants, or while reading. Names in
parentheses are the definition that TLC finds violated and the constants that
differ from the runs'.

UDPFS transport and negotiation:

- A console that restarts after exactly one request has its new DATA 0 taken for a
  copy of the old one: it is acknowledged, answered with the old reply, and never
  executed (`udpfs_server.py:1671`). (RestartedRequestExecuted; Fresh = TRUE,
  Starts <- NoStarts, MaxRequests = 2, MaxRestarts = 1.)
- A copy of the request numbered 0 that arrives after the next request was executed is
  taken for a console that starts over, and the request is executed a second time
  (`udpfs_server.py:1679`). (PromiseKept; Starts = {<<5, 0>>}, MaxAge = 1,
  MaxRequests = 2, StreamLens = {2}, SEND_WINDOW = 1.)
- After a background DISCOVERY 0, a console that resends request 0 or 1 because its
  acknowledgement is late is taken for a new loader, and the request is executed
  again (`ps2servers_core.py:432`; `docs/PROTOCOL-COMPATIBILITY.md:25` says a
  background discovery does not reset an active transfer). (AtMostOnce of
  UdpfsNegotiation; Background = TRUE, Discs = {0}, Kinds = {"standard"},
  MaxConsoles = 1.)
- A new session counts the unsent packet 0 as acknowledged, so its first stream
  keeps SEND_WINDOW + 1 packets, one more than the comment at `udpfs_server.py:272`
  says; `WindowBounded` states the bound that holds. (Fresh = TRUE.)
- A worker of an evicted or swept session, or one that is slower than the
  two-second join, may be inside a read or write when `_cleanup` closes the block
  device, against the comment at `udpfs_server.py:1036`. `NoShutdownRace` states
  what does hold.
- With Background = TRUE in automatic mode: a DISCOVERY handled between
  `HandleData` and `Accept` still sees `rx_streaming` false, resets the session and
  starts a timer, so that a Standard console's replies may be numbered from 1; and
  the reset of a remembered DISCOVERY clears `rx_streaming`, so that the next one
  takes the path of a fresh handshake and closes the files of a console that is
  being served (`ps2servers_core.py:475` and `:347`).
- A Modulo loader that understands only the compatibility INFORM and replaces a
  running stream gets the canonical one only: no timer runs in that branch
  (`ps2servers_core.py:336`).
- `Thread.start` failing in `_get_or_create_session` leaves a session in the table
  that nobody serves (`udpfs_server.py:926`). Thread creation does not fail in the model.

UDPFS files, folders and UDPBD:

- Two consoles that both use LSEEK and READ on handle 0 move each other's position
  (`udpfs_server.py:1991`); the comment at `:786` says that position is never used.
  (Two clients and "sequential" in `Setups`.)
- An OPEN with O_RDONLY and O_CREAT in a missing folder makes the folder on a
  read-only server before it fails (`udpfs_server.py:1886`). (Add {"RD", "CREAT"}
  to `Flags`.)
- With the table of handles full, OPEN has already emptied the file when it is
  answered with EMFILE (`udpfs_server.py:1928`).
- `bd_write` ignores the count of `pwrite` as `BlockDevice.write` does
  (`udpfs_server.py:868`). A UDPBD write of zero sectors is never answered, and one
  superseded by another console's command is answered to nobody.
- DOPEN allocates its handle before the stat that may fail, and the console never
  learns the number: the handle is lost until the session ends
  (`udpfs_server.py:1823`). (HandlesTold; FolderVanishes = TRUE.)
- When `flush` fails for want of space, the data stays in the file object's buffer and
  may be written later although the console was told of an error
  (`udpfs_server.py:2140`). Buffers are not modelled.
- UDPBD never looks at `cmdpkt` (`udpbd_server.py:264`), so a piece that the network
  repeats or reorders inside one write is stored where the next was to go. The model's
  channel does neither.
- Two consoles that open one new file with O_CREAT at the same time both get it, as
  the checks of OPEN and the opening are not one step.

SMB and port 445:

- The comment in `_dispatch_all` says that a related request fails only when its file
  was never opened (`smb2_server.py:441`); when the middle request of CREATE,
  QUERY_INFO, CLOSE fails, the CLOSE after it fails as well and the handle stays open.
  (CompoundLeavesNoHandle.)
- A rename that is not to replace looks for the target and then renames; a file another
  connection creates in between is replaced on POSIX hosts (`smb2_server.py:1352`).
  (RenameKeepsOthers; Browsers = {}.)
- SMBv1 reads through a buffered object and writes past it, so that a console may read
  an old block after its own write. (ReadsBack.)
- `_take_445` of the SMBv1 server takes a LanmanServer that is still stopping after ten
  seconds for one that was not stopped and restores nothing; when the stop completes
  later, file sharing stays off (`smbserver_opl.py:1368`). (InterruptRestores.)
  `take_445` of the SMB2 server restores in that case.

HTTP:

- `_lookup_path` drops leading segments until a path matches, the file's own folder
  included: a request for a file of a folder that is not in the list is answered with
  the file of that name in the root (`http_server.py:786`, whose docstring says that
  there is no basename fallback). (PathIsAuthoritative.) The flat profile
  lists a name shared by two files and then answers it with 404.
- A file that vanishes or shrinks after the header of a range was written gets a second
  header inside the body; a driver that reads as many bytes as it asked for takes it
  for data. (DataIsTheDiscs; HttpDiskFaults = {"grow", "shrink", "vanish"}.)

Launcher and direct link:

- On the way out `stop_all` saves once for each server it stops: the last save has no
  server left to start (AutostartRemembers; `main.py:10` promises the last saved
  servers) and no request for the elevated instance that was to continue it
  (ElevatedContinues; `gui.py:2424`).
- A firewall check that ends after a cleanup began puts a fingerprint into the cache
  whose rules are then removed. (CacheTrue; `gui.py:3357`.)
- A click on Start in the first moments of an elevated instance, before it continues the
  start it was asked for, starts the server twice, and one process is out of the Stop
  button's reach. (NoLostChild; EarlyClicks = TRUE.)
- A port may be left with an address launcher.json does not know when the launcher is
  killed, when a script is refused or runs without rights, when the prompt is declined,
  or when the cleanup is pressed while a worker runs. (NothingStranded; LinkRisks one of
  "crash", "refused", "norights", "uac", "cleanup".)
- An enabling that fails leaves its settings behind with the box unticked and the port
  on DHCP, and the reset of all settings goes on asking for the link to be turned off.
  (ResetAllowed; `gui.py:3483`.)
- On Unix a signal between setting the address and the try clause leaves it on the
  port. (UnixPortRestored; HelperRisks = {"early"}.)
- A server stopped and started again within one query has the old run's answer kept for
  the new one, as the poller compares targets only. (AnswerOfThisRun; QuickRestart = TRUE;
  `status_client.py:186`.)

Achievements:

- After a silence the assembler accepts a console that counts from the beginning again,
  the evaluator still compares with the last number before it: the frames are not
  evaluated until they pass it. (RestartEvaluated; RaRestarts = TRUE;
  `ra_protocol.py:195`.)
- An HTTP read that is under way while the engine is restarted may publish the old
  run's unlocks. (UnlocksOfThisRun; ThreadSees = FALSE; `ra_session.py:166`.)
- A command that arrives after the loop's last drain survives into the next run of the
  service, numbers of requests start again with each run, and a store that cannot be
  cleared ends the loop.

Library:

- An image's stamp is compared before and after reading, so an image that is
  swapped and swapped back in between is catalogued with the other's serial.
  (SerialIsTheImages; LooksDisturbed = 2.)
- `check` stats an image, refreshes, then hashes: an image swapped in between has its
  hash kept for the old stamp (`game_library.py:476`). (HashIsTheImages; ImageSwaps = 2.)
- The number of a title that is removed is given to the next one, which then has the
  removed title's cover.
  (CoverIsTheTitles; MaxTitles = 2.)
- A crash during `import_image` leaves a partial image under the final name.

## 6. Not modelled

Payload formats, packet sizing (`_set_block_shift_for_sectors`), logging,
statistics, the choice of the socket a reply leaves by, command lines, NTLM and the
layout of SMB replies, SMB information levels. Session statistics are counters that
are printed and never read back. The compressed readers are arithmetic over a
container's index, sequential within a handle, around library code; the virtual exFAT
disk is layout computation without state. Of the launcher, widgets, themes, art
formats and translations are presentation; the commands of the operating system are
one step with their possible outcomes. The profile mode's account binding of the
achievement service is left out. Of Edge, the transport, reads, folders, block device,
compression, SMB and web interface are left out: they are second implementations of
what is modelled from the Desktop servers. `vendor/` is third-party code; build,
packaging and tests are not part of the running system.

## 7. Plan

Done, in this order: UdpfsTransport, UdpbdServer and UdpfsSessions with their first
proofs, UdpfsNegotiation, UdpfsFiles, RequestReply and its refinement, the SMB, port
445 and HTTP modules, UdpfsDirectory and UdpfsPaths, the launcher, direct link and
helper, the achievement modules, the library, the status poller, EdgeWriters; then the
proofs of section 4: the refinement of RequestReply as a theorem, then the SMB2
connection, the rows of the HTTP index, port 445 and links.

Next, in order of importance:

1. The restart of the console in the refinement theorem, with the numbers away from 0
   as in `transport_restart`; an abstract block device (a write happens whole, in part
   with an error, or not at all) that `UdpbdServer` implements.
2. Edge's transport and memory budget; `SessionStats`; the block arithmetic of the
   compressed readers as pure operators against a reference definition.
