----------------------------- MODULE UdpbdServer -----------------------------
(***************************************************************************)
(* The UDPBD block server (udpbd_server.py) and the consoles that use it.   *)
(*                                                                          *)
(* One thread serves every console from one socket with one file position   *)
(* and one write in progress. A write is a CMD_WRITE that seeks and says how *)
(* much follows, then WRITE_RDMA datagrams that are written at the file      *)
(* position in the order they arrive, then one WRITE_DONE. A console may     *)
(* give up on a command and send another at any time, a datagram may be      *)
(* lost, and the commands of different consoles interleave freely.           *)
(*                                                                          *)
(* The unit of data is one block; a datagram carries PacketUnits of them,    *)
(* the last one of a command padded. Data are tagged with the console, the   *)
(* command and the index of the block in it.                                 *)
(***************************************************************************)
EXTENDS Integers, Sequences

CONSTANTS
  Clients,      \* consoles
  CmdIds,       \* size of the command id ring (8: three bits)
  Units,        \* size of the device
  MaxAddress,   \* bound on the addresses a command names
  Starts,       \* where the commands of the consoles begin
  Counts,       \* lengths of the commands a console issues
  PacketUnits,  \* blocks a WRITE_RDMA carries
  Devices,      \* the kinds of device that may be served
  MaxCmds,      \* bound on the commands of one console
  MaxChan       \* bound on the datagrams on the way from one console

Addresses == 0 .. MaxAddress

ASSUME UdpbdAssumption ==
  /\ CmdIds \in Nat \ {0} /\ Units \in Nat \ {0} /\ PacketUnits \in Nat \ {0}
  /\ MaxAddress \in Nat /\ Counts \subseteq Nat /\ Starts \subseteq 0 .. Units - 1
  /\ \A k \in Counts : Units + k <= MaxAddress + 1
  /\ Devices \subseteq {"image", "filling", "readonly", "raw", "rawreadonly"}
  /\ MaxCmds \in Nat /\ MaxChan \in Nat

VARIABLES
  bd,           \* the device the server was started with
  write_left,   \* _write_left
  write_owner,  \* _write_owner
  pos,          \* the file position of the device
  disk,         \* what each address holds
  client,       \* per console: its current command and how much of it is sent
  chan,         \* per console: datagrams on the way, in order
  accepted,     \* the CMD_WRITE last accepted (for the properties)
  answers       \* the WRITE_DONE replies sent (for the properties)

device == <<pos, disk>>
vars == <<bd, write_left, write_owner, pos, disk, client, chan, accepted, answers>>

\* The device refuses writes; it is a raw one, which refuses requests past its
\* end; it is an image on a disk that stores less than it was given.
ReadOnly == bd \in {"readonly", "rawreadonly"}
Raw == bd \in {"raw", "rawreadonly"}
ShortWrites == bd = "filling"

Least(a, b) == IF a < b THEN a ELSE b

\* RawDevice.seek: the whole request must lie on the device.
Refused(m) == Raw /\ m.start + m.count > Units

Blank == [addr |-> "none", cmd |-> 0, idx |-> 0]
Block(m, i) == [addr |-> m.addr, cmd |-> m.cmd, idx |-> m.first + i]
Owner(m) == [addr |-> m.addr, cmdid |-> m.cmdid]
Answer(m, result) == answers' = answers \cup {[addr |-> m.addr, cmd |-> m.cmd, result |-> result]}

-----------------------------------------------------------------------------
(* The handlers, for the datagram m taken from the socket.                  *)

\* _handle_info: a console that looks for the server has no write in flight.
HandleInfo(m) ==
  /\ m.kind = "info"
  /\ write_left' = 0
  /\ UNCHANGED <<write_owner, device, accepted, answers>>

\* _handle_read: seeks and sends the data, moving the one file position. An
\* I/O or send error may end it early, after the write state was reset.
HandleRead(m) ==
  /\ m.kind = "read" /\ ~Refused(m)
  /\ write_left' = 0
  /\ \E n \in 0 .. m.count : pos' = m.start + n
  /\ UNCHANGED <<write_owner, disk, accepted, answers>>

\* A read past the end of a raw device raises before it touches anything.
HandleReadRefused(m) ==
  /\ m.kind = "read" /\ Refused(m)
  /\ UNCHANGED <<write_left, write_owner, device, accepted, answers>>

\* _handle_write: a new write replaces the one in progress, whoever owns it.
HandleWrite(m) ==
  /\ m.kind = "write" /\ ~Refused(m)
  /\ write_owner' = Owner(m)
  /\ pos' = m.start
  /\ write_left' = m.count
  /\ accepted' = [addr |-> m.addr, cmd |-> m.cmd, start |-> m.start, count |-> m.count]
  /\ UNCHANGED <<disk, answers>>

\* The seek of a write fails, with the position already moved: answered at once.
HandleWriteRefused(m) ==
  /\ m.kind = "write" /\ Refused(m)
  /\ write_owner' = Owner(m)
  /\ write_left' = 0
  /\ pos' = m.start
  /\ Answer(m, -1)
  /\ UNCHANGED <<disk, accepted>>

\* (Mutant: the owner is not compared.)
WantedFromAnyone(m) == m.kind = "rdma" /\ write_left > 0 /\ ~m.truncated

\* The tests of _handle_write_rdma: a write is in progress, this console and
\* command own it, and the payload is as long as its block header says.
Wanted(m) == m.kind = "rdma" /\ write_left > 0 /\ write_owner = Owner(m) /\ ~m.truncated

DropWriteRdma(m) ==
  /\ m.kind = "rdma" /\ ~Wanted(m)
  /\ UNCHANGED <<write_left, write_owner, device, accepted, answers>>

\* (Mutant: the padding of the last datagram is written too.)
WholePacket(m) == m.units

\* min(size, self._write_left)
WriteSize(m) == Least(m.units, write_left)

\* BlockDevice.write of the first n blocks of m at the file position.
Store(m, n) ==
  /\ disk' = [a \in Addresses |-> IF pos <= a /\ a < pos + n THEN Block(m, a - pos) ELSE disk[a]]
  /\ pos' = pos + n

\* What is left, and the answer when nothing is.
Advance(m) ==
  /\ write_left' = write_left - WriteSize(m)
  /\ IF write_left' <= 0
     THEN Answer(m, IF ReadOnly THEN -1 ELSE 0)
     ELSE UNCHANGED answers

\* _handle_write_rdma: the next piece of the write, stored whole.
HandleWriteRdma(m) ==
  /\ Wanted(m) /\ ~ReadOnly
  /\ Store(m, WriteSize(m))
  /\ Advance(m)
  /\ UNCHANGED <<write_owner, accepted>>

\* The unbuffered file's write() returned a short count (a disk that is filling
\* up does so before it raises); BlockDevice.write does not look at it.
HandleWriteRdmaShort(m) ==
  /\ Wanted(m) /\ ShortWrites
  /\ \E n \in 1 .. WriteSize(m) - 1 : Store(m, n)
  /\ Advance(m)
  /\ UNCHANGED <<write_owner, accepted>>

\* A read-only image takes the pieces and stores none; the answer says so.
HandleWriteRdmaReadOnly(m) ==
  /\ Wanted(m) /\ ReadOnly /\ ~Raw
  /\ Advance(m)
  /\ UNCHANGED <<write_owner, device, accepted>>

\* bd.write or bd.flush raises (a read-only raw device always does): part of the
\* piece may have landed, the write is over and its console is told.
HandleWriteRdmaFails(m) ==
  /\ Wanted(m) /\ (ReadOnly => Raw)
  /\ \E n \in 0 .. (IF ReadOnly THEN 0 ELSE WriteSize(m)) : Store(m, n)
  /\ write_left' = 0
  /\ Answer(m, -1)
  /\ UNCHANGED <<write_owner, accepted>>

Handle(m) ==
  \/ HandleInfo(m) \/ HandleRead(m) \/ HandleReadRefused(m)
  \/ HandleWrite(m) \/ HandleWriteRefused(m)
  \/ DropWriteRdma(m) \/ HandleWriteRdma(m) \/ HandleWriteRdmaShort(m)
  \/ HandleWriteRdmaReadOnly(m) \/ HandleWriteRdmaFails(m)

\* run: take a datagram of some console and dispatch it.
Serve(c) ==
  /\ chan[c] # <<>>
  /\ Handle(Head(chan[c]))
  /\ chan' = [chan EXCEPT ![c] = Tail(@)]
  /\ UNCHANGED <<bd, client>>

-----------------------------------------------------------------------------
(* The consoles and the network.                                            *)

Send(c, m) == Len(chan[c]) < MaxChan /\ chan' = [chan EXCEPT ![c] = Append(@, m)]

server == <<bd, write_left, write_owner, pos, disk, accepted, answers>>

\* The next command; the one before may be unfinished.
NewCommand(c) ==
  /\ client[c].cmd < MaxCmds
  /\ \E kind \in {"info", "read", "write"}, start \in Starts, count \in Counts :
       LET n == client[c].cmd + 1
       IN  /\ Send(c, [kind |-> kind, addr |-> c, cmd |-> n, cmdid |-> n % CmdIds,
                       start |-> start, count |-> count])
           /\ client' = [client EXCEPT ![c] =
                [cmd |-> n, count |-> IF kind = "write" THEN count ELSE 0, sent |-> 0]]
  /\ UNCHANGED server

\* The next piece of the console's write; it may arrive cut short.
SendRdma(c) ==
  /\ client[c].sent < client[c].count
  /\ \E truncated \in BOOLEAN :
       Send(c, [kind |-> "rdma", addr |-> c, cmd |-> client[c].cmd,
                cmdid |-> client[c].cmd % CmdIds, first |-> client[c].sent,
                units |-> PacketUnits, truncated |-> truncated])
  /\ client' = [client EXCEPT ![c].sent = @ + PacketUnits]
  /\ UNCHANGED server

Lose(c) ==
  /\ chan[c] # <<>>
  /\ chan' = [chan EXCEPT ![c] = Tail(@)]
  /\ UNCHANGED <<server, client>>

Init ==
  /\ bd \in Devices
  /\ write_left = 0 /\ write_owner = [addr |-> "none", cmdid |-> 0]
  /\ pos = 0 /\ disk = [a \in Addresses |-> Blank]
  /\ client = [c \in Clients |-> [cmd |-> 0, count |-> 0, sent |-> 0]]
  /\ chan = [c \in Clients |-> <<>>]
  /\ accepted = [addr |-> "none", cmd |-> 0, start |-> 0, count |-> 0]
  /\ answers = {}

Next == \E c \in Clients : Serve(c) \/ NewCommand(c) \/ SendRdma(c) \/ Lose(c)

Spec == Init /\ [][Next]_vars

-----------------------------------------------------------------------------
(* Properties.                                                              *)

Peers == Clients \cup {"none"}
Commands == [kind : {"info", "read", "write"}, addr : Clients, cmd : Nat, cmdid : Nat,
             start : Nat, count : Nat]
Pieces == [kind : {"rdma"}, addr : Clients, cmd : Nat, cmdid : Nat, first : Nat,
           units : Nat, truncated : BOOLEAN]

\* The type of the state; in particular the amount left never goes negative
\* and the file position stays a position, whatever the datagrams say.
TypeOK ==
  /\ bd \in Devices
  /\ write_left \in Nat /\ pos \in Nat
  /\ write_owner \in [addr : Peers, cmdid : Nat]
  /\ accepted \in [addr : Peers, cmd : Nat, start : Nat, count : Nat]
  /\ disk \in [Addresses -> [addr : Peers, cmd : Nat, idx : Nat]]
  /\ client \in [Clients -> [cmd : Nat, count : Nat, sent : Nat]]
  /\ chan \in [Clients -> Seq(Commands \cup Pieces)]
  /\ answers \subseteq [addr : Clients, cmd : Nat, result : {0, -1}]

\* What is left of a write fits between the file position and the end of the
\* region its command named, so the reads, refusals and writes of other
\* consoles that move the one file position never redirect it.
WriteAligned ==
  write_left > 0 => /\ accepted.start <= pos
                    /\ pos + write_left <= accepted.start + accepted.count

\* Only blocks of the region the accepted CMD_WRITE named are ever changed.
WritesConfined ==
  [][\A a \in Addresses : disk'[a] # disk[a] =>
        accepted.start <= a /\ a < accepted.start + accepted.count]_vars

\* The accepted command is r's, and each block of it is on the device after
\* the step, none of another command or console among them.
StoredWhole(r) ==
  /\ accepted.addr = r.addr /\ accepted.cmd = r.cmd
  /\ \A i \in 0 .. accepted.count - 1 :
       disk'[accepted.start + i] = [addr |-> r.addr, cmd |-> r.cmd, idx |-> i]

\* A command is not told two different things.
AnswersAgree ==
  \A r, q \in answers : r.addr = q.addr /\ r.cmd = q.cmd => r.result = q.result

\* "so the PS2 client doesn't believe a save committed when nothing was
\* written" (udpbd_server.py:300): a console told that its write succeeded finds
\* all of it on the device, unless the disk stored less than it was given.
DoneMeansStored ==
  \A r \in answers' \ answers : r.result = 0 /\ ~ShortWrites => StoredWhole(r)

\* A console is told one thing of a command, and it is true.
AnsweredTruly == [][AnswersAgree' /\ DoneMeansStored]_vars

\* "disk full / I/O error / permission: abort the write and tell the client it
\* failed" (udpbd_server.py:288): the same on a disk that is filling up. Not so:
\* see the README.
FullDiskReported ==
  [][\A r \in answers' \ answers : r.result = 0 => StoredWhole(r)]_vars

=============================================================================
