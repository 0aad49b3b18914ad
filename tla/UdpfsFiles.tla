----------------------------- MODULE UdpfsFiles -----------------------------
(***************************************************************************)
(* The file and block operations of the UDPFS server (udpfs_server.py): the *)
(* handle table of each session, the assembly of a WRITE or BWRITE from its  *)
(* chunks, and what the sessions share: the folder they serve and the block  *)
(* device behind handle 0.                                                   *)
(*                                                                          *)
(* The transport delivers a session's requests in order and once            *)
(* (UdpfsTransport), so a console's sending and the worker's handling are one *)
(* step; the sessions interleave, also inside an OPEN and, where the host has *)
(* no pread, between the seek and the transfer of a block operation. A chunk, *)
(* a sector and a READ are one unit of data each.                            *)
(***************************************************************************)
EXTENDS Integers, Sequences, FiniteSets

CONSTANTS
  Clients, Paths,
  Flags,         \* the flags of the OPENs that come: subsets of the bits below
  Setups,        \* what may be served, by which host and to which consoles: sets of Options
  MAX_HANDLES, max_transfer, Sectors,
  MaxOpens, MaxWrites, MaxChunks, MaxInodes

Bits == {"RD", "WR", "APPEND", "CREAT", "TRUNC"}
Inodes == 1 .. MaxInodes
NoClient == "none"

\* A folder and a block device (as handle 0) are served; --read-only; the host
\* has no pread and pwrite; storing may fail; the consoles send other chunks
\* than they announced; they use LSEEK, READ and WRITE on handle 0, too.
Options == {"folder", "device", "readonly", "nopread", "failing", "odd", "sequential"}

ASSUME FilesAssumption ==
  /\ NoClient \notin Clients
  /\ \A f \in Flags : f \subseteq Bits
  /\ \A s \in Setups : s \subseteq Options
  /\ {MAX_HANDLES, max_transfer, Sectors, MaxOpens, MaxWrites, MaxChunks, MaxInodes} \subseteq Nat

VARIABLES
  setup,        \* the one of Setups that holds
  folder,       \* whether the folder of the paths exists
  dir,          \* per path: the file it names, 0 for none
  files,        \* per file: its contents
  handles,      \* per client and number: the open file
  next_handle,
  write,        \* per client: the write being assembled
  device,       \* the sectors of the block device
  position,     \* the file position of the one object behind handle 0
  bd_lock,
  worker,       \* per client: "idle", "opening", or "seeked" with a transfer to do
  console,      \* per client: the write it streams, and where it takes handle 0 to be
  seen          \* per client: the sector its last device transfer asked for and met

nameVars == <<folder, dir, files>>
tableVars == <<handles, next_handle>>
deviceVars == <<device, position, bd_lock, seen>>
vars == <<setup, nameVars, tableVars, write, deviceVars, worker, console>>

read_only == "readonly" \in setup
HasDevice == "device" \in setup
HAS_PREAD == "nopread" \notin setup
DiskErrors == "failing" \in setup
Honest == "odd" \notin setup
Sequential == "sequential" \in setup

\* Data that no console wrote: what was there before, and a hole.
Old == <<NoClient, 0, 0>>
Zero == <<NoClient, 0, 1>>

NoHandle == [ino |-> 0, pos |-> 0, mode |-> "closed"]
NoWrite == [handle |-> -1, is_block |-> FALSE, sector |-> 0, count |-> 0, data |-> <<>>, received |-> 0]
Idle == [at |-> "idle"]

IsOpen(c, h) == IF h = 0 THEN HasDevice ELSE handles[c][h] # NoHandle
OpenCount(c) == Cardinality({h \in 0 .. MaxOpens : IsOpen(c, h)})

-----------------------------------------------------------------------------
(* OPEN, CLOSE and REMOVE.                                                  *)

\* (Mutant: O_CREAT alone makes a new file.)
ModeAlwaysNew(f, file_exists) ==
  IF "WR" \notin f THEN "rb"
  ELSE IF "RD" \notin f
  THEN IF "APPEND" \in f THEN "ab"
       ELSE IF "TRUNC" \in f \/ "CREAT" \in f THEN "wb" ELSE "r+b"
  ELSE IF "CREAT" \notin f THEN "r+b"
  ELSE IF "APPEND" \in f THEN "a+b" ELSE "w+b"

flags_to_mode(f, file_exists) ==
  IF "WR" \notin f THEN "rb"
  ELSE IF "RD" \notin f
  THEN IF "APPEND" \in f THEN "ab"
       ELSE IF "TRUNC" \in f \/ ("CREAT" \in f /\ ~file_exists) THEN "wb" ELSE "r+b"
  ELSE IF "CREAT" \notin f THEN "r+b"
  ELSE IF "TRUNC" \in f THEN "w+b"
  ELSE IF "APPEND" \in f THEN "a+b"
  ELSE IF file_exists THEN "r+b" ELSE "w+b"

\* _handle_open up to the mode; a refused OPEN changes nothing.
OpenChecks(c, p, f) ==
  /\ worker[c] = Idle
  /\ ~(read_only /\ "WR" \in f)
  /\ "folder" \in setup /\ (dir[p] # 0 \/ "CREAT" \in f)
  /\ worker' = [worker EXCEPT ![c] =
       [at |-> "opening", path |-> p, flags |-> f, mode |-> flags_to_mode(f, dir[p] # 0)]]
  /\ UNCHANGED <<nameVars, tableVars, write, deviceVars, console>>

Unused == {i \in Inodes : /\ \A p \in Paths : dir[p] # i
                          /\ \A c \in Clients, h \in 1 .. MaxOpens : handles[c][h].ino # i}

\* The missing folder is made, and the open fails: the file is not there.
OpenFails(c) ==
  LET w == worker[c]
  IN  /\ w.at = "opening"
      /\ dir[w.path] = 0 /\ w.mode \in {"rb", "r+b"}
      /\ folder' = (folder \/ "CREAT" \in w.flags)
      /\ worker' = [worker EXCEPT ![c] = Idle]
      /\ UNCHANGED <<dir, files, tableVars, write, deviceVars, console>>

\* The file is opened, made or truncated as the mode says; with the table
\* full it is closed again.
OpenFile(c) ==
  LET w == worker[c]
      new == dir[w.path] = 0
  IN  /\ w.at = "opening"
      /\ new => w.mode \notin {"rb", "r+b"}
      /\ folder' = (folder \/ "CREAT" \in w.flags)
      /\ folder'
      /\ \E i \in Inodes :
           /\ IF new THEN i \in Unused ELSE i = dir[w.path]
           /\ dir' = [dir EXCEPT ![w.path] = i]
           /\ files' = IF new \/ w.mode \in {"wb", "w+b"} THEN [files EXCEPT ![i] = <<>>] ELSE files
           /\ IF OpenCount(c) < MAX_HANDLES
              THEN /\ next_handle[c] <= MaxOpens
                   /\ next_handle' = [next_handle EXCEPT ![c] = @ + 1]
                   /\ handles' = [handles EXCEPT ![c][next_handle[c]] =
                                    [ino |-> i, pos |-> 0, mode |-> w.mode]]
              ELSE UNCHANGED tableVars
      /\ worker' = [worker EXCEPT ![c] = Idle]
      /\ UNCHANGED <<write, deviceVars, console>>

\* _handle_close
Close(c, h) ==
  /\ worker[c] = Idle /\ IsOpen(c, h)
  /\ handles' = [handles EXCEPT ![c][h] = NoHandle]
  /\ UNCHANGED <<nameVars, next_handle, write, deviceVars, worker, console>>

\* _handle_remove: an open file lives on without a name.
Remove(c, p) ==
  /\ worker[c] = Idle /\ "folder" \in setup /\ ~read_only /\ dir[p] # 0
  /\ dir' = [dir EXCEPT ![p] = 0]
  /\ UNCHANGED <<folder, files, tableVars, write, deviceVars, worker, console>>

-----------------------------------------------------------------------------
(* READ, LSEEK and BREAD.                                                   *)

CanRead(mode) == mode \notin {"wb", "ab"}

After(pos, size) == IF pos < size THEN pos + 1 ELSE pos

\* On a file of the client's own. A file that was opened to be written only
\* raises UnsupportedOperation, whose errno is None: no answer is sent.
Read(c, h) ==
  /\ worker[c] = Idle /\ IsOpen(c, h)
  /\ IF CanRead(handles[c][h].mode)
     THEN /\ handles' = [handles EXCEPT ![c][h].pos = After(@, Len(files[handles[c][h].ino]))]
          /\ UNCHANGED console
     ELSE /\ console' = [console EXCEPT ![c].unanswered = TRUE]
          /\ UNCHANGED handles
  /\ UNCHANGED <<nameVars, next_handle, write, deviceVars, worker>>

Lseek(c, h, offset) ==
  /\ worker[c] = Idle /\ IsOpen(c, h)
  /\ handles' = [handles EXCEPT ![c][h].pos = offset]
  /\ UNCHANGED <<nameVars, next_handle, write, deviceVars, worker, console>>

Bread(c, h, sector) ==
  LET file == handles[c][h]
  IN  /\ worker[c] = Idle /\ IsOpen(c, h)
      /\ handles' = [handles EXCEPT ![c][h].pos =
           IF CanRead(file.mode) THEN After(sector, Len(files[file.ino])) ELSE sector]
      /\ console' = [console EXCEPT ![c].unanswered = @ \/ ~CanRead(file.mode)]
      /\ UNCHANGED <<nameVars, next_handle, write, deviceVars, worker>>

\* On handle 0 READ and LSEEK use the object that all sessions share.
ReadDevice(c) ==
  /\ HasDevice /\ Sequential /\ worker[c] = Idle
  /\ seen' = [seen EXCEPT ![c] = [asked |-> console[c].own, met |-> position]]
  /\ position' = After(position, Sectors)
  /\ console' = [console EXCEPT ![c].own = After(@, Sectors)]
  /\ UNCHANGED <<nameVars, tableVars, write, device, bd_lock, worker>>

LseekDevice(c, offset) ==
  /\ HasDevice /\ Sequential /\ worker[c] = Idle
  /\ position' = offset
  /\ console' = [console EXCEPT ![c].own = offset]
  /\ UNCHANGED <<nameVars, tableVars, write, device, bd_lock, seen, worker>>

\* bd_read with pread
BreadDevice(c, sector) ==
  /\ HasDevice /\ HAS_PREAD /\ worker[c] = Idle
  /\ seen' = [seen EXCEPT ![c] = [asked |-> sector, met |-> sector]]
  /\ UNCHANGED <<nameVars, tableVars, write, device, position, bd_lock, worker, console>>

\* (Mutant: the lock is not taken.)
SeekUnlocked(c, sector, data) ==
  /\ position' = sector
  /\ worker' = [worker EXCEPT ![c] = [at |-> "seeked", sector |-> sector, data |-> data]]
  /\ UNCHANGED <<device, bd_lock, seen>>

\* bd_read and bd_write without: the lock and the seek, ...
Seek(c, sector, data) ==
  /\ bd_lock = NoClient /\ bd_lock' = c
  /\ position' = sector
  /\ worker' = [worker EXCEPT ![c] = [at |-> "seeked", sector |-> sector, data |-> data]]
  /\ UNCHANGED <<device, seen>>

BreadSeek(c, sector) ==
  /\ HasDevice /\ ~HAS_PREAD /\ worker[c] = Idle
  /\ Seek(c, sector, <<>>)
  /\ UNCHANGED <<nameVars, tableVars, write, console>>

-----------------------------------------------------------------------------
(* Writing.                                                                 *)

\* A sequence with d stored from position p on.
StoreAt(s, p, d) ==
  LET end == IF p + Len(d) > Len(s) THEN p + Len(d) ELSE Len(s)
  IN  [i \in 1 .. end |-> IF i > p /\ i <= p + Len(d) THEN d[i - p]
                          ELSE IF i <= Len(s) THEN s[i] ELSE Zero]

StoreOnDevice(p, d) ==
  [s \in 0 .. Sectors - 1 |-> IF s >= p /\ s < p + Len(d) THEN d[s - p + 1] ELSE device[s]]

\* ... and the transfer at the object's position; a write is answered then.
Transfer(c) ==
  LET w == worker[c]
      n == IF w.data = <<>> THEN 1 ELSE Len(w.data)
  IN  /\ w.at = "seeked"
      /\ device' = StoreOnDevice(position, w.data)
      /\ position' = position + n
      /\ seen' = [seen EXCEPT ![c] = [asked |-> w.sector, met |-> position]]
      /\ bd_lock' = NoClient
      /\ console' = IF w.data = <<>> THEN console ELSE [console EXCEPT ![c].answers = @ + 1]
      /\ worker' = [worker EXCEPT ![c] = Idle]
      /\ UNCHANGED <<nameVars, tableVars, write>>

Answered(con) == [con EXCEPT !.answers = @ + 1]

Prefix(s, n) == SubSeq(s, 1, IF n < Len(s) THEN n ELSE Len(s))

\* _complete_write and _complete_bwrite of the write w.
StoreInFile(c, w, con) ==
  LET file == handles[c][w.handle]
      data == IF w.is_block THEN Prefix(w.data, w.count) ELSE w.data
      at == IF file.mode \in {"ab", "a+b"} THEN Len(files[file.ino])
            ELSE IF w.is_block THEN w.sector ELSE file.pos
  IN  /\ w.handle # 0 /\ IsOpen(c, w.handle)
      /\ files' = [files EXCEPT ![file.ino] = StoreAt(@, at, data)]
      /\ handles' = [handles EXCEPT ![c][w.handle].pos = at + Len(data)]
      /\ console' = [console EXCEPT ![c] = Answered(con)]
      /\ UNCHANGED <<folder, dir, next_handle, deviceVars, worker>>

StoreOnBlockDevice(c, w, con) ==
  LET data == Prefix(w.data, w.count)
  IN  /\ w.handle = 0 /\ w.is_block
      /\ IF HAS_PREAD
         THEN /\ device' = StoreOnDevice(w.sector, data)
              /\ console' = [console EXCEPT ![c] = Answered(con)]
              /\ UNCHANGED <<position, bd_lock, seen, worker>>
         ELSE /\ Seek(c, w.sector, data)
              /\ console' = [console EXCEPT ![c] = con]
      /\ UNCHANGED <<nameVars, tableVars>>

StoreAtPosition(c, w, con) ==
  /\ w.handle = 0 /\ ~w.is_block
  /\ device' = StoreOnDevice(position, w.data)
  /\ seen' = [seen EXCEPT ![c] = [asked |-> con.own, met |-> position]]
  /\ position' = position + Len(w.data)
  /\ console' = [console EXCEPT ![c] = [Answered(con) EXCEPT !.own = @ + Len(w.data)]]
  /\ UNCHANGED <<nameVars, tableVars, bd_lock, worker>>

\* (Mutant: no answer for a write whose handle is gone.)
StoreFailsSilently(c, w, con) ==
  /\ DiskErrors \/ ~IsOpen(c, w.handle)
  /\ console' = [console EXCEPT ![c] = con]
  /\ UNCHANGED <<nameVars, tableVars, deviceVars, worker>>

\* The handle was closed under the write, or the host reports an error.
StoreFails(c, w, con) ==
  /\ DiskErrors \/ ~IsOpen(c, w.handle)
  /\ console' = [console EXCEPT ![c] = Answered(con)]
  /\ UNCHANGED <<nameVars, tableVars, deviceVars, worker>>

Chunk(c, job, nr) == <<c, job, nr>>

\* The chunk does not belong to the write w: it is acknowledged and dropped.
DropChunk(c, w, con, nr) ==
  /\ w.handle < 0 \/ nr # w.received
  /\ write' = [write EXCEPT ![c] = w]
  /\ console' = [console EXCEPT ![c] = con]
  /\ UNCHANGED <<nameVars, tableVars, deviceVars, worker>>

\* It would make the write too long.
ChunkTooLong(c, w, con, nr) ==
  /\ w.handle >= 0 /\ nr = w.received /\ Len(w.data) + 1 > max_transfer
  /\ write' = [write EXCEPT ![c] = NoWrite]
  /\ console' = [console EXCEPT ![c] = Answered(con)]
  /\ UNCHANGED <<nameVars, tableVars, deviceVars, worker>>

\* (Mutant: a write that is complete stays armed.)
TakeChunkKeeps(c, w, con, nr) ==
  LET next == [w EXCEPT !.data = Append(@, Chunk(c, con.job, nr)), !.received = @ + 1]
  IN  /\ w.handle >= 0 /\ nr = w.received /\ Len(w.data) + 1 <= max_transfer
      /\ IF next.received < con.total
         THEN /\ write' = [write EXCEPT ![c] = next]
              /\ console' = [console EXCEPT ![c] = con]
              /\ UNCHANGED <<nameVars, tableVars, deviceVars, worker>>
         ELSE /\ write' = [write EXCEPT ![c] = next]
              /\ \/ StoreInFile(c, next, con) \/ StoreOnBlockDevice(c, next, con)
                 \/ StoreAtPosition(c, next, con) \/ StoreFails(c, next, con)

\* (Mutant: the last chunk is not waited for.)
TakeChunkEarly(c, w, con, nr) ==
  LET next == [w EXCEPT !.data = Append(@, Chunk(c, con.job, nr)), !.received = @ + 1]
  IN  /\ w.handle >= 0 /\ nr = w.received /\ Len(w.data) + 1 <= max_transfer
      /\ IF next.received < con.total - 1
         THEN /\ write' = [write EXCEPT ![c] = next]
              /\ console' = [console EXCEPT ![c] = con]
              /\ UNCHANGED <<nameVars, tableVars, deviceVars, worker>>
         ELSE /\ write' = [write EXCEPT ![c] = NoWrite]
              /\ \/ StoreInFile(c, next, con) \/ StoreOnBlockDevice(c, next, con)
                 \/ StoreAtPosition(c, next, con) \/ StoreFails(c, next, con)

\* It is the next one; the last one completes the write.
TakeChunk(c, w, con, nr) ==
  LET next == [w EXCEPT !.data = Append(@, Chunk(c, con.job, nr)), !.received = @ + 1]
  IN  /\ w.handle >= 0 /\ nr = w.received /\ Len(w.data) + 1 <= max_transfer
      /\ IF next.received < con.total
         THEN /\ write' = [write EXCEPT ![c] = next]
              /\ console' = [console EXCEPT ![c] = con]
              /\ UNCHANGED <<nameVars, tableVars, deviceVars, worker>>
         ELSE /\ write' = [write EXCEPT ![c] = NoWrite]
              /\ \/ StoreInFile(c, next, con) \/ StoreOnBlockDevice(c, next, con)
                 \/ StoreAtPosition(c, next, con) \/ StoreFails(c, next, con)

\* _handle_write_data
HandleWriteData(c, w, con, nr) ==
  DropChunk(c, w, con, nr) \/ ChunkTooLong(c, w, con, nr) \/ TakeChunk(c, w, con, nr)

Refuses(c, h, size) ==
  \/ read_only \/ size > max_transfer
  \/ ~IsOpen(c, h) \/ (h # 0 /\ handles[c][h].mode = "rb")

\* The console's last write is over, or was left behind by its last loader.
MayStart(con) == con.over \/ (con.sent = con.total /\ con.answers >= 1)

Starts(c, kind, h, sector, total, inline) ==
  [console[c] EXCEPT !.job = @ + 1, !.kind = kind, !.handle = h, !.sector = sector,
                     !.total = total, !.sent = IF inline THEN 1 ELSE 0, !.answers = 0, !.over = FALSE]

\* A request that is refused is answered at once.
Refuse(c, con) ==
  /\ write' = [write EXCEPT ![c] = NoWrite]
  /\ console' = [console EXCEPT ![c] = Answered(con)]
  /\ UNCHANGED <<nameVars, tableVars, deviceVars, worker>>

\* _handle_write_req and _handle_bwrite_req, with the first chunk inline or not.
Arm(c, con, size, inline) ==
  LET w == [NoWrite EXCEPT !.handle = con.handle, !.is_block = con.kind = "bwrite",
                           !.sector = con.sector, !.count = size]
  IN  IF inline THEN HandleWriteData(c, w, con, 0)
      ELSE /\ write' = [write EXCEPT ![c] = w]
           /\ console' = [console EXCEPT ![c] = con]
           /\ UNCHANGED <<nameVars, tableVars, deviceVars, worker>>

WriteReq(c) ==
  /\ worker[c] = Idle /\ MayStart(console[c]) /\ console[c].job < MaxWrites
  /\ \E kind \in {"write", "bwrite"}, h \in 0 .. next_handle[c] - 1,
        sector \in 0 .. Sectors - 1, total \in 1 .. MaxChunks, inline \in BOOLEAN :
       /\ kind = "write" => sector = 0 /\ (h # 0 \/ Sequential)
       /\ h = 0 => sector + total <= Sectors
       /\ \E size \in IF Honest THEN {total} ELSE 1 .. MaxChunks :
            LET con == Starts(c, kind, h, sector, total, inline)
            IN  IF Refuses(c, h, size) THEN Refuse(c, con) ELSE Arm(c, con, size, inline)

\* The console sends every chunk before it looks for the answer.
SendChunk(c) ==
  /\ worker[c] = Idle /\ ~console[c].over /\ console[c].sent < console[c].total
  /\ \E nr \in IF Honest THEN {console[c].sent} ELSE 0 .. console[c].total - 1 :
       HandleWriteData(c, write[c], [console[c] EXCEPT !.sent = @ + 1], nr)

\* Another loader takes the session over in the middle of a write: the handles
\* stay; _reset_transport_state forgets the write, DATA 0 without DISCOVERY does not.
Restart(c) ==
  /\ worker[c] = Idle /\ ~console[c].over
  /\ console' = [console EXCEPT ![c].over = TRUE]
  /\ \/ write' = [write EXCEPT ![c] = NoWrite]
     \/ UNCHANGED write
  /\ UNCHANGED <<nameVars, tableVars, deviceVars, worker>>

-----------------------------------------------------------------------------
\* UdpfsServer.__init__ and Session.__init__; the paths name no file or an old one.
Init ==
  /\ setup \in Setups
  /\ folder \in BOOLEAN
  /\ dir \in [Paths -> {0, 1}]
  /\ \A p, q \in Paths : dir[p] # 0 => folder /\ (dir[q] = 0 \/ p = q)
  /\ files = [i \in Inodes |-> IF i = 1 THEN <<Old, Old>> ELSE <<>>]
  /\ handles = [c \in Clients |-> [h \in 1 .. MaxOpens |-> NoHandle]]
  /\ next_handle = [c \in Clients |-> 1]
  /\ write = [c \in Clients |-> NoWrite]
  /\ device = [s \in 0 .. Sectors - 1 |-> Old]
  /\ position = 0 /\ bd_lock = NoClient
  /\ worker = [c \in Clients |-> Idle]
  /\ console = [c \in Clients |->
       [job |-> 0, kind |-> "write", handle |-> 0, sector |-> 0, total |-> 0, sent |-> 0,
        answers |-> 0, over |-> TRUE, own |-> 0, unanswered |-> FALSE]]
  /\ seen = [c \in Clients |-> [asked |-> 0, met |-> 0]]

FileStep(c) ==
  \/ \E p \in Paths : Remove(c, p) \/ \E f \in Flags : OpenChecks(c, p, f)
  \/ OpenFails(c) \/ OpenFile(c)
  \/ \E h \in 1 .. MaxOpens :
       \/ Close(c, h) \/ Read(c, h)
       \/ \E o \in 0 .. Sectors - 1 : Lseek(c, h, o) \/ Bread(c, h, o)

DeviceStep(c) ==
  \/ ReadDevice(c) \/ Transfer(c)
  \/ \E o \in 0 .. Sectors - 1 : LseekDevice(c, o) \/ BreadDevice(c, o) \/ BreadSeek(c, o)

Next ==
  /\ \E c \in Clients : FileStep(c) \/ DeviceStep(c) \/ WriteReq(c) \/ SendChunk(c) \/ Restart(c)
  /\ UNCHANGED setup

Spec == Init /\ [][Next]_vars

-----------------------------------------------------------------------------
(* Properties.                                                              *)

\* The write being assembled is the console's current one, not yet answered,
\* for the handle it named, with its first chunks in order and nothing else
\* ("chunk 1 of a refused two-chunk write ... was added to that write's
\* buffer", udpfs_server.py:2011); only a loader that was replaced leaves an older one.
AssemblyIsCurrent ==
  \A c \in Clients :
    LET w == write[c] con == console[c]
    IN  (w.handle >= 0 /\ ~con.over) =>
          /\ con.answers = 0 /\ w.handle = con.handle
          /\ w.received <= con.sent /\ w.received < con.total
          /\ w.data = [i \in 1 .. w.received |-> Chunk(c, con.job, i - 1)]

\* A write is answered once: never twice, and always once all of it was sent
\* ("a second WRITE_DONE went out", udpfs_server.py:2013; "the console was
\* sent no WRITE_DONE and waited for one", udpfs_server.py:567).
AnsweredOnce ==
  \A c \in Clients :
    ~console[c].over =>
      /\ console[c].answers <= 1
      /\ (Honest /\ worker[c] = Idle /\ console[c].sent = console[c].total) => console[c].answers = 1

\* All of the write con of client c.
Whole(c, con) == [i \in 1 .. con.total |-> Chunk(c, con.job, i - 1)]

\* Files and the device only change by a whole write of a loader that is still
\* there, all of it, where it asked for, in a step that brings it to its one
\* answer; or by the OPEN that empties a file. "the old loader's unfinished
\* write never lands" (tests/test_udpfs_handoff_retried_write.py:15).
WritesAreWhole ==
  [][Honest =>
     LET Lands(c) == /\ console'[c] # console[c] /\ ~console'[c].over
                     /\ console'[c].answers = 1 /\ console'[c].sent = console'[c].total
     IN  /\ \A i \in Inodes :
              \/ files'[i] = files[i] \/ files'[i] = <<>>
              \/ \E c \in Clients : LET con == console'[c] IN
                   /\ Lands(c) /\ con.handle # 0 /\ handles[c][con.handle].ino = i
                   /\ \E p \in 0 .. Len(files'[i]) : files'[i] = StoreAt(files[i], p, Whole(c, con))
         /\ \/ device' = device
            \/ \E c \in Clients : LET con == console'[c] IN
                 /\ Lands(c) /\ con.handle = 0
                 /\ \E p \in 0 .. Sectors - 1 :
                      /\ con.kind = "bwrite" => p = con.sector
                      /\ device' = StoreOnDevice(p, Whole(c, con))]_vars

\* A transfer on the block device meets the sector it asked for: "Concurrent
\* access uses positional I/O (bd_read/bd_write), never the object's own file
\* position" (udpfs_server.py:786).
DeviceWhereAsked == \A c \in Clients : seen[c].asked = seen[c].met

\* What a file holds is only thrown away by an OPEN that asks for it, and on a read-only
\* share nothing changes at all: "use `--read-only` if you want a strictly read-only
\* share" (README.md:460). The mode an OPEN gets is decided several calls before the file
\* is opened, and the folder it needs is made in between.
FilesKept ==
  [][/\ read_only => UNCHANGED <<folder, dir, files, device>>
     /\ \A i \in Inodes :
          (files'[i] = <<>> /\ files[i] # <<>> /\ \E p \in Paths : dir[p] = i)
            => \E c \in Clients : worker[c].at = "opening" /\ "TRUNC" \in worker[c].flags]_vars

\* "A read that Python's file calls refuse is answered"
\* (tests/test_udpfs_write_needs_writable_handle.py:417).
ReadsAnswered == \A c \in Clients : ~console[c].unanswered

=============================================================================
