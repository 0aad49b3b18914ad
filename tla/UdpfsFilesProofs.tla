-------------------------- MODULE UdpfsFilesProofs --------------------------
(***************************************************************************)
(* Proofs about UdpfsFiles for any consoles, files, device, flags and bounds: *)
(* what is being assembled is the console's current write (AssemblyIsCurrent), *)
(* a write is answered once (AnsweredOnce), it lands whole where it was asked  *)
(* for (WritesAreWhole), and a block transfer meets its sector                *)
(* (DeviceWhereAsked).                                                       *)
(*                                                                         *)
(* The inductive invariant relates the three places a write is in: what the    *)
(* console has sent of it, what the session has assembled, and, between the    *)
(* seek and the transfer of a host without pwrite, what the worker holds.      *)
(***************************************************************************)
EXTENDS UdpfsFiles, SequenceTheorems, TLAPS

Modes == {"rb", "r+b", "wb", "w+b", "ab", "a+b"}

\* One unit of data: the console that wrote it, its write, the chunk; or data nobody wrote.
Data == (Clients \cup {NoClient}) \X Nat \X Nat

ConsoleStates ==
  [job : Nat, kind : {"write", "bwrite"}, handle : Nat, sector : Nat, total : Nat, sent : Nat,
   answers : Nat, over : BOOLEAN, own : Nat, unanswered : BOOLEAN]

Writes == [handle : Int, is_block : BOOLEAN, sector : Nat, count : Nat, data : Seq(Data), received : Nat]

OpenFiles == [ino : Inodes, pos : Nat, mode : Modes]

Workers ==
  {Idle} \cup [at : {"opening"}, path : Paths, flags : Flags, mode : Modes]
         \cup [at : {"seeked"}, sector : Nat, data : Seq(Data)]

TypeOK ==
  /\ setup \in Setups
  /\ folder \in BOOLEAN
  /\ dir \in [Paths -> Nat]
  /\ files \in [Inodes -> Seq(Data)]
  /\ handles \in [Clients -> [1 .. MaxOpens -> OpenFiles \cup {NoHandle}]]
  /\ next_handle \in [Clients -> 1 .. MaxOpens + 1]
  /\ write \in [Clients -> Writes]
  /\ device \in [0 .. Sectors - 1 -> Data]
  /\ position \in Nat
  /\ worker \in [Clients -> Workers]
  /\ console \in [Clients -> ConsoleStates]

\* The first n chunks of a client's write.
Chunks(c, job, n) == [i \in 1 .. n |-> Chunk(c, job, i - 1)]

\* The write w is the one the console con of client c has under way: all of the chunks it
\* has sent if it sends what it announced.
Current(c, w, con) ==
  /\ con.answers = 0 /\ w.handle = con.handle /\ w.sector = con.sector
  /\ w.is_block <=> con.kind = "bwrite"
  /\ w.received <= con.sent /\ w.count >= 1
  /\ w.data = Chunks(c, con.job, w.received)
  /\ Honest => w.received = con.sent /\ w.count = con.total

\* What a console asks of handle 0, and which handles it names.
Asked(con) ==
  /\ con.handle \in 0 .. MaxOpens
  /\ con.handle = 0 => con.sector \in 0 .. Sectors - 1 /\ (con.kind = "write" => Sequential)

\* The transfer the worker wk is about to do is the console's write, which is not answered yet.
Landing(c, wk, con) ==
  /\ con.answers = 0 /\ ~con.over /\ con.handle = 0 /\ con.kind = "bwrite" /\ wk.sector = con.sector
  /\ Honest => con.sent = con.total /\ wk.data = Chunks(c, con.job, con.total)

\* The write of a client, as its session and its console see it.
WriteOK(c, w, con, wk) ==
  /\ w.handle >= 0 => /\ Current(c, w, con) /\ Asked(con) /\ w.received < con.total
                      /\ ~read_only /\ (wk.at = "seeked" => wk.data = <<>>)
  /\ con.answers <= 1
  /\ wk.at = "seeked" /\ wk.data # <<>> => Landing(c, wk, con) /\ ~read_only
  /\ Honest /\ ~con.over /\ con.answers = 0 => w.handle >= 0 \/ (wk.at = "seeked" /\ wk.data # <<>>)

\* Between its seek and its transfer a worker has the lock and the position.
SeekOK(c) ==
  worker[c].at = "seeked" => ~HAS_PREAD /\ bd_lock = c /\ (~Sequential => position = worker[c].sector)

\* The inductive invariant.
IInv ==
  /\ TypeOK
  /\ \A c \in Clients : WriteOK(c, write[c], console[c], worker[c]) /\ SeekOK(c)

-----------------------------------------------------------------------------
(* The data of a write.                                                     *)

LEMMA ChunksProperties ==
  ASSUME NEW c \in Clients, NEW job \in Nat, NEW n \in Nat
  PROVE  /\ Chunks(c, job, n) \in Seq(Data) /\ Len(Chunks(c, job, n)) = n
         /\ \A i \in 1 .. n : Chunks(c, job, n)[i] = Chunk(c, job, i - 1)
<1>1. \A i \in 1 .. n : Chunk(c, job, i - 1) \in Data
  BY DEF Chunk, Data
<1>2. Chunks(c, job, n) \in [1 .. n -> Data]
  BY <1>1 DEF Chunks
<1>3. Chunks(c, job, n) \in Seq(Data)
  BY <1>2, SeqDef
<1>4. Len(Chunks(c, job, n)) = n
  BY <1>3, LenProperties DEF Chunks
<1> QED BY <1>3, <1>4 DEF Chunks

\* The chunk that comes next makes the first n chunks the first n + 1.
LEMMA NextChunk ==
  ASSUME NEW c \in Clients, NEW job \in Nat, NEW n \in Nat
  PROVE  Append(Chunks(c, job, n), Chunk(c, job, n)) = Chunks(c, job, n + 1)
<1>1. Chunk(c, job, n) \in Data
  BY DEF Chunk, Data
<1>2. /\ Append(Chunks(c, job, n), Chunk(c, job, n)) \in Seq(Data)
      /\ Len(Append(Chunks(c, job, n), Chunk(c, job, n))) = n + 1
      /\ \A i \in 1 .. n : Append(Chunks(c, job, n), Chunk(c, job, n))[i] = Chunk(c, job, i - 1)
      /\ Append(Chunks(c, job, n), Chunk(c, job, n))[n + 1] = Chunk(c, job, n)
  BY <1>1, ChunksProperties, AppendProperties
<1>3. /\ Chunks(c, job, n + 1) \in Seq(Data) /\ Len(Chunks(c, job, n + 1)) = n + 1
      /\ \A i \in 1 .. n + 1 : Chunks(c, job, n + 1)[i] = Chunk(c, job, i - 1)
  BY ChunksProperties
<1> QED BY <1>2, <1>3, SeqEqual

LEMMA NoChunks == ASSUME NEW c, NEW job PROVE Chunks(c, job, 0) = <<>>
BY DEF Chunks

\* A prefix is a sequence again; a write of the announced size is stored whole.
LEMMA PrefixProperties ==
  ASSUME NEW s \in Seq(Data), NEW n \in Nat
  PROVE  /\ Prefix(s, n) \in Seq(Data)
         /\ n = Len(s) => Prefix(s, n) = s
         /\ n # 0 /\ s # <<>> => Prefix(s, n) # <<>>
<1> DEFINE k == IF n < Len(s) THEN n ELSE Len(s)
<1>1. Len(s) \in Nat /\ k \in 0 .. Len(s)
  BY LenProperties
<1>2. \A i \in 1 .. k : s[i] \in Data
  BY <1>1, ElementOfSeq
<1> HIDE DEF k
<1>3. SubSeq(s, 1, k) \in Seq(Data) /\ Len(SubSeq(s, 1, k)) = IF 1 <= k THEN k - 1 + 1 ELSE 0
  BY <1>1, <1>2, SubSeqProperties
<1>4. Prefix(s, n) = SubSeq(s, 1, k)
  BY DEF Prefix, k
<1>5. n = Len(s) => k = Len(s)
  BY <1>1 DEF k
<1>6. n # 0 /\ s # <<>> => k >= 1
  BY <1>1, EmptySeq DEF k
<1>7. n = Len(s) => Prefix(s, n) = s
  BY <1>4, <1>5, SubSeqFull
<1>8. n # 0 /\ s # <<>> => Prefix(s, n) # <<>>
  <2> SUFFICES ASSUME n # 0, s # <<>> PROVE Prefix(s, n) # <<>>
    OBVIOUS
  <2>1. Len(Prefix(s, n)) >= 1
    BY <1>1, <1>3, <1>4, <1>6
  <2> QED BY <2>1, EmptySeq
<1> QED BY <1>3, <1>4, <1>7, <1>8

\* What is stored in a file is a sequence that holds the data from its position on.
LEMMA StoreAtProperties ==
  ASSUME NEW s \in Seq(Data), NEW p \in Nat, NEW d \in Seq(Data)
  PROVE  StoreAt(s, p, d) \in Seq(Data) /\ p \in 0 .. Len(StoreAt(s, p, d)) /\ Len(StoreAt(s, p, d)) >= Len(s)
<1> DEFINE end == IF p + Len(d) > Len(s) THEN p + Len(d) ELSE Len(s)
           e(i) == IF i > p /\ i <= p + Len(d) THEN d[i - p] ELSE IF i <= Len(s) THEN s[i] ELSE Zero
<1>1. Len(s) \in Nat /\ Len(d) \in Nat /\ end \in Nat /\ p <= end /\ Len(s) <= end
  BY LenProperties
<1>2. \A i \in 1 .. end : e(i) \in Data
  <2> SUFFICES ASSUME NEW i \in 1 .. end PROVE e(i) \in Data
    OBVIOUS
  <2>1. CASE i > p /\ i <= p + Len(d)
    <3>1. i - p \in 1 .. Len(d)
      BY <1>1, <2>1
    <3> QED BY <2>1, <3>1, ElementOfSeq
  <2>2. CASE ~(i > p /\ i <= p + Len(d)) /\ i <= Len(s)
    <3>1. i \in 1 .. Len(s)
      BY <1>1, <2>2
    <3> QED BY <2>2, <3>1, ElementOfSeq
  <2>3. CASE ~(i > p /\ i <= p + Len(d)) /\ ~(i <= Len(s))
    <3>1. Zero \in Data
      BY DEF Zero, Data
    <3> QED BY <2>3, <3>1
  <2> QED BY <2>1, <2>2, <2>3
<1>3. StoreAt(s, p, d) = [i \in 1 .. end |-> e(i)]
  BY DEF StoreAt
<1> HIDE DEF end, e
<1>4. StoreAt(s, p, d) \in [1 .. end -> Data]
  BY <1>2, <1>3
<1>5. StoreAt(s, p, d) \in Seq(Data)
  BY <1>1, <1>4, SeqDef
<1>6. Len(StoreAt(s, p, d)) = end
  BY <1>1, <1>4, <1>5, LenProperties
<1> QED BY <1>1, <1>5, <1>6

\* The device stays one, and nothing written past its end or of no length changes it.
LEMMA StoreOnDeviceProperties ==
  ASSUME device \in [0 .. Sectors - 1 -> Data], NEW p \in Nat, NEW d \in Seq(Data)
  PROVE  /\ StoreOnDevice(p, d) \in [0 .. Sectors - 1 -> Data]
         /\ d = <<>> \/ p >= Sectors => StoreOnDevice(p, d) = device
<1>1. Len(d) \in Nat /\ Sectors \in Nat
  BY LenProperties, FilesAssumption
<1>2. ASSUME NEW s \in 0 .. Sectors - 1, s >= p, s < p + Len(d) PROVE d[s - p + 1] \in Data
  <2>1. s - p + 1 \in 1 .. Len(d)
    BY <1>1, <1>2
  <2> QED BY <2>1, ElementOfSeq
<1>3. StoreOnDevice(p, d) \in [0 .. Sectors - 1 -> Data]
  BY <1>1, <1>2 DEF StoreOnDevice
<1>4. d = <<>> => Len(d) = 0
  BY EmptySeq
<1>5. ASSUME d = <<>> \/ p >= Sectors PROVE \A s \in 0 .. Sectors - 1 : ~(s >= p /\ s < p + Len(d))
  BY <1>1, <1>4, <1>5
<1>6. d = <<>> \/ p >= Sectors => StoreOnDevice(p, d) = device
  BY <1>5 DEF StoreOnDevice
<1> QED BY <1>3, <1>6

-----------------------------------------------------------------------------
(* The records of a console and of a write.                                 *)

LEMMA AnsweredConsole ==
  ASSUME NEW con \in ConsoleStates
  PROVE  /\ Answered(con) \in ConsoleStates /\ Answered(con).answers = con.answers + 1
         /\ \A f \in {"job", "kind", "handle", "sector", "total", "sent", "over", "own"} : Answered(con)[f] = con[f]
BY DEF Answered, ConsoleStates

LEMMA SentConsole ==
  ASSUME NEW con \in ConsoleStates, NEW nt, nt = [con EXCEPT !.sent = @ + 1]
  PROVE  /\ nt \in ConsoleStates /\ nt.sent = con.sent + 1
         /\ \A f \in {"job", "kind", "handle", "sector", "total", "answers", "over", "own"} : nt[f] = con[f]
BY DEF ConsoleStates

\* The console that has sent a write request.
Started(c, con, kind, h, sector, total, inline) ==
  /\ con \in ConsoleStates /\ con.job = console[c].job + 1 /\ con.kind = kind /\ con.handle = h /\ con.sector = sector /\ con.total = total
  /\ con.sent = (IF inline THEN 1 ELSE 0) /\ con.answers = 0 /\ con.over = FALSE

LEMMA StartsConsole ==
  ASSUME NEW c \in Clients, console[c] \in ConsoleStates, NEW kind \in {"write", "bwrite"}, NEW h \in Nat, NEW sector \in Nat,
         NEW total \in Nat, NEW inline
  PROVE  Started(c, Starts(c, kind, h, sector, total, inline), kind, h, sector, total, inline)
<1> DEFINE n == IF inline THEN 1 ELSE 0
           x == [console[c] EXCEPT !.job = @ + 1, !.kind = kind]
           y == [x EXCEPT !.handle = h, !.sector = sector]
           z == [y EXCEPT !.total = total, !.sent = n]
           con == [z EXCEPT !.answers = 0, !.over = FALSE]
<1>1. Starts(c, kind, h, sector, total, inline) = con
  BY DEF Starts
<1>2. x \in ConsoleStates /\ x.job = console[c].job + 1 /\ x.kind = kind
  <2>1. \A k \in ConsoleStates : k.job + 1 \in Nat
    BY DEF ConsoleStates
  <2>2. \A k \in ConsoleStates, j \in Nat : LET r == [k EXCEPT !.job = j, !.kind = kind] IN r \in ConsoleStates /\ r.job = j /\ r.kind = kind
    BY DEF ConsoleStates
  <2> QED BY <2>1, <2>2
<1> HIDE DEF x
<1>j. PICK j : j = console[c].job + 1
  OBVIOUS
<1>3. y \in ConsoleStates /\ y.job = j /\ y.kind = kind /\ y.handle = h /\ y.sector = sector
  BY <1>2, <1>j DEF ConsoleStates
<1> HIDE DEF y
<1>n. n \in Nat
  OBVIOUS
<1> HIDE DEF n
<1>4. z \in ConsoleStates /\ z.job = j /\ z.kind = kind /\ z.handle = h /\ z.sector = sector /\ z.total = total /\ z.sent = n
  BY <1>3, <1>n DEF ConsoleStates
<1> HIDE DEF z
<1>5. /\ con \in ConsoleStates /\ con.job = j /\ con.kind = kind /\ con.handle = h /\ con.sector = sector /\ con.total = total
      /\ con.sent = n /\ con.answers = 0 /\ con.over = FALSE
  <2>1. FALSE \in BOOLEAN /\ 0 \in Nat
    OBVIOUS
  <2> QED BY <1>4, <2>1 DEF ConsoleStates
<1> HIDE DEF con
<1> QED BY <1>1, <1>5, <1>j DEF n, Started

LEMMA NoWriteProperties == NoWrite \in Writes /\ NoWrite.handle = -1
<1>1. <<>> \in Seq(Data)
  BY EmptySeq
<1> QED BY <1>1 DEF NoWrite, Writes

\* The write that a request arms.
Armed(con, size) ==
  [NoWrite EXCEPT !.handle = con.handle, !.is_block = con.kind = "bwrite", !.sector = con.sector, !.count = size]

LEMMA ArmedWrite ==
  ASSUME NEW con \in ConsoleStates, NEW size \in Nat
  PROVE  LET w == Armed(con, size) IN
         /\ w \in Writes /\ w.handle = con.handle /\ (w.is_block <=> con.kind = "bwrite") /\ w.sector = con.sector
         /\ w.count = size /\ w.data = <<>> /\ w.received = 0
<1>0. PICK w : w = Armed(con, size)
  OBVIOUS
<1>1. NoWrite = [handle |-> -1, is_block |-> FALSE, sector |-> 0, count |-> 0, data |-> <<>>, received |-> 0]
  BY DEF NoWrite
<1>2. con.handle \in Nat /\ con.sector \in Nat
  BY DEF ConsoleStates
<1>3. <<>> \in Seq(Data)
  BY EmptySeq
<1>4. PICK b \in BOOLEAN : b = (con.kind = "bwrite")
  OBVIOUS
<1>5. w = [NoWrite EXCEPT !.handle = con.handle, !.is_block = b, !.sector = con.sector, !.count = size]
  BY <1>0, <1>4, Zenon DEF Armed
<1>6. b <=> con.kind = "bwrite"
  BY <1>4, Zenon
<1> HIDE <1>4
<1>7. w = [handle |-> con.handle, is_block |-> b, sector |-> con.sector, count |-> size, data |-> <<>>, received |-> 0]
  BY ONLY <1>1, <1>5
<1>8. /\ w \in Writes /\ w.handle = con.handle /\ (w.is_block <=> con.kind = "bwrite") /\ w.sector = con.sector
      /\ w.count = size /\ w.data = <<>> /\ w.received = 0
  BY ONLY <1>2, <1>3, <1>6, <1>7, b \in BOOLEAN, size \in Nat DEF Writes
<1> QED BY <1>0, <1>8

\* The write with one chunk more.
Longer(w, d) == [w EXCEPT !.data = Append(@, d), !.received = @ + 1]

LEMMA LongerWrite ==
  ASSUME NEW w \in Writes, NEW d \in Data
  PROVE  LET next == Longer(w, d) IN
         /\ next \in Writes /\ next.data = Append(w.data, d) /\ next.received = w.received + 1
         /\ next.handle = w.handle /\ next.is_block = w.is_block /\ next.sector = w.sector /\ next.count = w.count
<1>1. w.data \in Seq(Data) /\ w.received + 1 \in Nat
  BY DEF Writes
<1>2. Append(w.data, d) \in Seq(Data)
  BY <1>1, AppendProperties
<1> QED BY <1>1, <1>2 DEF Writes, Longer

-----------------------------------------------------------------------------
(* A step of one client.                                                    *)

\* The step is client c's: the other sessions and consoles are as they were.
OthersKeep(c) ==
  \A d \in Clients \ {c} : write'[d] = write[d] /\ console'[d] = console[d] /\ worker'[d] = worker[d]

\* The shared position is not moved under another client's transfer.
NotMoved(c) ==
  \A d \in Clients \ {c} : worker[d].at = "seeked" => bd_lock' = bd_lock /\ (~Sequential => position' = position)

\* A step of one client keeps the invariant if it keeps the client's own part of it and
\* moves no position under another's transfer.
LEMMA ClientStep ==
  ASSUME IInv, NEW c \in Clients, UNCHANGED setup, TypeOK', OthersKeep(c), NotMoved(c),
         WriteOK(c, write'[c], console'[c], worker'[c]), SeekOK(c)'
  PROVE  IInv'
<1>1. \A d \in Clients : WriteOK(d, write'[d], console'[d], worker'[d])
  BY DEF IInv, OthersKeep
<1>2. \A d \in Clients : WriteOK(d, write[d], console[d], worker[d])'
  BY <1>1 DEF WriteOK, Current, Asked, Landing, Honest, read_only, Sequential
<1>3. \A d \in Clients \ {c} : SeekOK(d)'
  BY DEF IInv, OthersKeep, NotMoved, SeekOK, HAS_PREAD, Sequential
<1> QED BY <1>2, <1>3 DEF IInv

\* While a client has the lock no other is between its seek and its transfer.
LEMMA OneSeeks ==
  ASSUME IInv, NEW c \in Clients, bd_lock \in {NoClient, c}
  PROVE  \A d \in Clients \ {c} : worker[d].at # "seeked"
BY FilesAssumption DEF IInv, SeekOK

\* The types, when what changes is given for one client.
LEMMA TypeStep ==
  ASSUME TypeOK, NEW c \in Clients, UNCHANGED setup,
         NEW w \in Writes, write' = [write EXCEPT ![c] = w],
         NEW con \in ConsoleStates, console' = [console EXCEPT ![c] = con],
         NEW wk \in Workers, worker' = [worker EXCEPT ![c] = wk],
         folder' \in BOOLEAN, dir' \in [Paths -> Nat], files' \in [Inodes -> Seq(Data)],
         handles' \in [Clients -> [1 .. MaxOpens -> OpenFiles \cup {NoHandle}]],
         next_handle' \in [Clients -> 1 .. MaxOpens + 1],
         device' \in [0 .. Sectors - 1 -> Data], position' \in Nat
  PROVE  TypeOK' /\ OthersKeep(c) /\ write'[c] = w /\ console'[c] = con /\ worker'[c] = wk
BY DEF TypeOK, OthersKeep

\* The common case: only the client's own write, console and worker change.
LEMMA QuietStep ==
  ASSUME IInv, NEW c \in Clients, UNCHANGED <<setup, nameVars, tableVars, device, position, bd_lock>>,
         NEW w \in Writes, write' = [write EXCEPT ![c] = w],
         NEW con \in ConsoleStates, console' = [console EXCEPT ![c] = con],
         NEW wk \in Workers, worker' = [worker EXCEPT ![c] = wk],
         WriteOK(c, w, con, wk), wk.at # "seeked"
  PROVE  IInv'
<1>1. TypeOK' /\ OthersKeep(c) /\ write'[c] = w /\ console'[c] = con /\ worker'[c] = wk
  <2>1. TypeOK
    BY DEF IInv
  <2> QED BY <2>1, TypeStep DEF TypeOK, nameVars, tableVars
<1>2. NotMoved(c) /\ SeekOK(c)'
  BY <1>1 DEF NotMoved, SeekOK
<1> QED BY <1>1, <1>2, ClientStep

\* What is known of an idle client.
LEMMA IdleClient ==
  ASSUME IInv, NEW c \in Clients
  PROVE  /\ write[c] \in Writes /\ console[c] \in ConsoleStates /\ worker[c] \in Workers
         /\ WriteOK(c, write[c], console[c], worker[c])
         /\ Idle \in Workers /\ Idle.at = "idle"
         /\ write = [write EXCEPT ![c] = write[c]] /\ console = [console EXCEPT ![c] = console[c]]
         /\ worker = [worker EXCEPT ![c] = worker[c]]
BY DEF IInv, TypeOK, Workers, Idle

-----------------------------------------------------------------------------
(* The steps of a write.                                                    *)

\* Chunk nr of the console con comes to the write w.
Incoming(c, w, con, nr) ==
  /\ worker[c] = Idle /\ w \in Writes /\ con \in ConsoleStates /\ ~con.over /\ con.answers <= 1 /\ nr \in Nat
  /\ w.handle >= 0 =>
       /\ con.answers = 0 /\ w.handle = con.handle /\ w.sector = con.sector /\ (w.is_block <=> con.kind = "bwrite")
       /\ w.received < con.sent /\ w.received < con.total /\ w.count >= 1
       /\ w.data = Chunks(c, con.job, w.received)
       /\ Honest => w.received = con.sent - 1 /\ w.count = con.total /\ nr = w.received
       /\ Asked(con) /\ ~read_only
  /\ Honest /\ con.answers = 0 => w.handle >= 0

LEMMA DropChunkInv ==
  ASSUME IInv, NEW c \in Clients, NEW w, NEW con, NEW nr, Incoming(c, w, con, nr), DropChunk(c, w, con, nr), UNCHANGED setup
  PROVE  IInv'
<1>1. w \in Writes /\ con \in ConsoleStates /\ worker[c] = Idle /\ Idle \in Workers /\ Idle.at = "idle"
  BY IdleClient DEF Incoming
<1>2. WriteOK(c, w, con, Idle)
  BY <1>1 DEF Incoming, DropChunk, WriteOK, Current, ConsoleStates, Writes
<1>3. worker' = [worker EXCEPT ![c] = Idle]
  BY <1>1, IdleClient DEF DropChunk
<1> QED BY <1>1, <1>2, <1>3, QuietStep DEF DropChunk, deviceVars

LEMMA ChunkTooLongInv ==
  ASSUME IInv, NEW c \in Clients, NEW w, NEW con, NEW nr, Incoming(c, w, con, nr), ChunkTooLong(c, w, con, nr), UNCHANGED setup
  PROVE  IInv'
<1>1. con \in ConsoleStates /\ con.answers = 0 /\ worker[c] = Idle /\ Idle \in Workers /\ Idle.at = "idle"
  BY IdleClient DEF Incoming, ChunkTooLong
<1>2. Answered(con) \in ConsoleStates /\ Answered(con).answers = 1
  BY <1>1, AnsweredConsole
<1>3. WriteOK(c, NoWrite, Answered(con), Idle)
  BY <1>1, <1>2, NoWriteProperties DEF WriteOK
<1>4. worker' = [worker EXCEPT ![c] = Idle]
  BY <1>1, IdleClient DEF ChunkTooLong
<1> QED BY <1>1, <1>2, <1>3, <1>4, NoWriteProperties, QuietStep DEF ChunkTooLong, deviceVars

\* What the chunk adds to is the console's write up to it.
LEMMA NextWrite ==
  ASSUME NEW c \in Clients, NEW w, NEW con, NEW nr, Incoming(c, w, con, nr), w.handle >= 0, nr = w.received,
         NEW next, next = Longer(w, Chunk(c, con.job, nr))
  PROVE  /\ next \in Writes /\ Current(c, next, con) /\ next.received = w.received + 1
         /\ next.handle = w.handle /\ next.data # <<>>
<1>1. w \in Writes /\ con \in ConsoleStates /\ con.job \in Nat /\ nr \in Nat
  BY DEF Incoming, ConsoleStates
<1>2. Chunk(c, con.job, nr) \in Data
  BY <1>1 DEF Chunk, Data
<1>3. /\ next \in Writes /\ next.data = Append(w.data, Chunk(c, con.job, nr)) /\ next.received = w.received + 1
      /\ next.handle = w.handle /\ next.is_block = w.is_block /\ next.sector = w.sector /\ next.count = w.count
  BY <1>1, <1>2, LongerWrite
<1>4. next.data = Chunks(c, con.job, next.received)
  BY <1>1, <1>3, NextChunk DEF Incoming
<1>5. next.data # <<>>
  BY <1>1, <1>2, <1>3, AppendProperties DEF Writes
<1>6. Current(c, next, con)
  BY <1>1, <1>3, <1>4 DEF Incoming, Current, ConsoleStates, Writes
<1> QED BY <1>3, <1>5, <1>6

\* A write that is not complete yet.
LEMMA MoreToComeInv ==
  ASSUME IInv, NEW c \in Clients, NEW w, NEW con, NEW nr, Incoming(c, w, con, nr), w.handle >= 0, nr = w.received,
         NEW next, next = Longer(w, Chunk(c, con.job, nr)), next.received < con.total,
         write' = [write EXCEPT ![c] = next], console' = [console EXCEPT ![c] = con],
         UNCHANGED <<setup, nameVars, tableVars, deviceVars, worker>>
  PROVE  IInv'
<1>1. con \in ConsoleStates /\ worker[c] = Idle /\ Idle \in Workers /\ Idle.at = "idle" /\ con.answers = 0 /\ Asked(con) /\ ~read_only
  BY IdleClient DEF Incoming
<1>2. next \in Writes /\ Current(c, next, con)
  BY NextWrite
<1>3. next.handle = w.handle
  BY NextWrite
<1>4. WriteOK(c, next, con, Idle)
  BY <1>1, <1>2, <1>3 DEF WriteOK
<1>5. worker' = [worker EXCEPT ![c] = Idle]
  BY <1>1, IdleClient
<1> QED BY <1>1, <1>2, <1>4, <1>5, QuietStep DEF deviceVars

\* What is stored, and where: the file's handle, and the data cut to the size of a block write.
LEMMA FileOfWrite ==
  ASSUME TypeOK, NEW c \in Clients, NEW next \in Writes, next.handle \in 1 .. MaxOpens, IsOpen(c, next.handle)
  PROVE  LET file == handles[c][next.handle]
             data == IF next.is_block THEN Prefix(next.data, next.count) ELSE next.data
             at == IF file.mode \in {"ab", "a+b"} THEN Len(files[file.ino])
                   ELSE IF next.is_block THEN next.sector ELSE file.pos
         IN  file \in OpenFiles /\ data \in Seq(Data) /\ at \in Nat /\ Len(data) \in Nat /\ files[file.ino] \in Seq(Data)
<1> DEFINE file == handles[c][next.handle]
           data == IF next.is_block THEN Prefix(next.data, next.count) ELSE next.data
           at == IF file.mode \in {"ab", "a+b"} THEN Len(files[file.ino])
                   ELSE IF next.is_block THEN next.sector ELSE file.pos
<1>1. file \in OpenFiles
  <2>1. next.handle # 0 /\ file # NoHandle
    BY FilesAssumption DEF IsOpen
  <2>2. handles \in [Clients -> [1 .. MaxOpens -> OpenFiles \cup {NoHandle}]]
    BY DEF TypeOK
  <2>3. handles[c] \in [1 .. MaxOpens -> OpenFiles \cup {NoHandle}]
    BY <2>2
  <2>4. file \in OpenFiles \cup {NoHandle}
    BY <2>3
  <2> QED BY <2>1, <2>4
<1>2. file.ino \in Inodes /\ file.pos \in Nat
  BY <1>1 DEF OpenFiles
<1>3. next.data \in Seq(Data) /\ next.count \in Nat /\ next.sector \in Nat
  BY DEF Writes
<1>4. files[file.ino] \in Seq(Data)
  BY <1>2 DEF TypeOK
<1> HIDE DEF file
<1>5. data \in Seq(Data)
  BY <1>3, PrefixProperties
<1>6. Len(data) \in Nat /\ Len(files[file.ino]) \in Nat
  BY <1>4, <1>5, LenProperties
<1>7. at \in Nat
  BY <1>2, <1>3, <1>6
<1> QED BY <1>1, <1>4, <1>5, <1>6, <1>7 DEF file

LEMMA StoreInFileInv ==
  ASSUME IInv, NEW c \in Clients, NEW w, NEW con, NEW nr, Incoming(c, w, con, nr), w.handle >= 0, nr = w.received,
         NEW next, next = Longer(w, Chunk(c, con.job, nr)), StoreInFile(c, next, con),
         write' = [write EXCEPT ![c] = NoWrite], UNCHANGED setup
  PROVE  IInv'
<1> DEFINE file == handles[c][next.handle]
           data == IF next.is_block THEN Prefix(next.data, next.count) ELSE next.data
           at == IF file.mode \in {"ab", "a+b"} THEN Len(files[file.ino])
                   ELSE IF next.is_block THEN next.sector ELSE file.pos
<1>1. con \in ConsoleStates /\ con.answers = 0 /\ worker[c] = Idle /\ Idle \in Workers /\ Idle.at = "idle" /\ TypeOK
  BY IdleClient DEF Incoming, IInv
<1>2. next \in Writes /\ next.handle \in 1 .. MaxOpens /\ IsOpen(c, next.handle)
  <2>1. next \in Writes /\ next.handle = w.handle
    BY NextWrite
  <2>2. next.handle # 0 /\ IsOpen(c, next.handle)
    BY DEF StoreInFile
  <2>3. w.handle \in 0 .. MaxOpens
    BY DEF Incoming, Asked
  <2> QED BY <2>1, <2>2, <2>3, FilesAssumption
<1>3. file \in OpenFiles /\ data \in Seq(Data) /\ at \in Nat /\ Len(data) \in Nat /\ files[file.ino] \in Seq(Data)
  BY <1>1, <1>2, FileOfWrite
<1>4. /\ files' = [files EXCEPT ![file.ino] = StoreAt(files[file.ino], at, data)]
      /\ handles' = [handles EXCEPT ![c][next.handle].pos = at + Len(data)]
      /\ console' = [console EXCEPT ![c] = Answered(con)]
      /\ UNCHANGED <<folder, dir, next_handle, deviceVars, worker>>
  BY DEF StoreInFile
<1> HIDE DEF at, data
<1>5. StoreAt(files[file.ino], at, data) \in Seq(Data)
  BY <1>3, StoreAtProperties
<1>6. files' \in [Inodes -> Seq(Data)]
  BY <1>1, <1>4, <1>5 DEF TypeOK
<1>7. [file EXCEPT !.pos = at + Len(data)] \in OpenFiles
  <2>1. at + Len(data) \in Nat
    BY <1>3
  <2> QED BY <1>3, <2>1 DEF OpenFiles
<1>8. handles' \in [Clients -> [1 .. MaxOpens -> OpenFiles \cup {NoHandle}]]
  <2>1. handles' = [handles EXCEPT ![c] = [handles[c] EXCEPT ![next.handle] = [file EXCEPT !.pos = at + Len(data)]]]
    BY <1>4
  <2> HIDE DEF file
  <2> QED BY <1>1, <1>7, <2>1 DEF TypeOK
<1>9. Answered(con) \in ConsoleStates /\ Answered(con).answers = 1
  BY <1>1, AnsweredConsole
<1>10. WriteOK(c, NoWrite, Answered(con), Idle)
  BY <1>1, <1>9, NoWriteProperties DEF WriteOK
<1>11. worker' = [worker EXCEPT ![c] = Idle]
  BY <1>1, <1>4, IdleClient
<1>12. TypeOK' /\ OthersKeep(c) /\ write'[c] = NoWrite /\ console'[c] = Answered(con) /\ worker'[c] = Idle
  BY <1>1, <1>4, <1>6, <1>8, <1>9, <1>11, NoWriteProperties, TypeStep DEF TypeOK, deviceVars
<1>13. NotMoved(c) /\ SeekOK(c)'
  BY <1>1, <1>4, <1>12 DEF NotMoved, SeekOK, deviceVars
<1> QED BY <1>10, <1>12, <1>13, ClientStep

LEMMA StoreFailsInv ==
  ASSUME IInv, NEW c \in Clients, NEW w, NEW con, NEW nr, Incoming(c, w, con, nr), w.handle >= 0,
         NEW next, StoreFails(c, next, con),
         write' = [write EXCEPT ![c] = NoWrite], UNCHANGED setup
  PROVE  IInv'
<1>1. con \in ConsoleStates /\ con.answers = 0 /\ worker[c] = Idle /\ Idle \in Workers /\ Idle.at = "idle"
  BY IdleClient DEF Incoming
<1>2. Answered(con) \in ConsoleStates /\ Answered(con).answers = 1
  BY <1>1, AnsweredConsole
<1>3. WriteOK(c, NoWrite, Answered(con), Idle)
  BY <1>1, <1>2, NoWriteProperties DEF WriteOK
<1>4. worker' = [worker EXCEPT ![c] = Idle]
  BY <1>1, IdleClient DEF StoreFails
<1> QED BY <1>1, <1>2, <1>3, <1>4, NoWriteProperties, QuietStep DEF StoreFails, deviceVars

\* The complete write of a console that sends what it announced.
LEMMA CompleteWrite ==
  ASSUME NEW c \in Clients, NEW w, NEW con, NEW nr, Incoming(c, w, con, nr), w.handle >= 0, nr = w.received,
         NEW next, next = Longer(w, Chunk(c, con.job, nr)), ~(next.received < con.total)
  PROVE  /\ Prefix(next.data, next.count) \in Seq(Data) /\ Prefix(next.data, next.count) # <<>>
         /\ Honest => /\ con.sent = con.total /\ next.data = Chunks(c, con.job, con.total)
                      /\ Prefix(next.data, next.count) = next.data
<1>1. /\ next \in Writes /\ Current(c, next, con) /\ next.received = w.received + 1
      /\ next.handle = w.handle /\ next.data # <<>>
  BY NextWrite
<1>2. next.data \in Seq(Data) /\ next.count \in Nat /\ next.received \in Nat
  BY <1>1 DEF Writes
<1>3. /\ Prefix(next.data, next.count) \in Seq(Data) /\ Prefix(next.data, next.count) # <<>>
      /\ next.count = Len(next.data) => Prefix(next.data, next.count) = next.data
  <2>1. next.count # 0
    BY <1>1, <1>2 DEF Current
  <2> HIDE DEF Prefix
  <2> QED BY ONLY <1>1, <1>2, <2>1, PrefixProperties
<1>4. w.received < con.total /\ w.received \in Nat /\ con.total \in Nat /\ con.job \in Nat
  BY DEF Incoming, Writes, ConsoleStates
<1>5. next.received = con.total
  BY <1>1, <1>4
<1>6. next.data = Chunks(c, con.job, con.total) /\ Len(next.data) = con.total
  BY <1>1, <1>4, <1>5, ChunksProperties DEF Current
<1>7. Honest => con.sent = con.total /\ next.count = con.total
  BY <1>1, <1>5 DEF Current
<1> QED BY <1>3, <1>6, <1>7

LEMMA StoreOnBlockDeviceInv ==
  ASSUME IInv, NEW c \in Clients, NEW w, NEW con, NEW nr, Incoming(c, w, con, nr), w.handle >= 0, nr = w.received,
         NEW next, next = Longer(w, Chunk(c, con.job, nr)), ~(next.received < con.total), StoreOnBlockDevice(c, next, con),
         write' = [write EXCEPT ![c] = NoWrite], UNCHANGED setup
  PROVE  IInv'
<1> DEFINE data == Prefix(next.data, next.count)
<1>1. con \in ConsoleStates /\ con.answers = 0 /\ ~con.over /\ worker[c] = Idle /\ Idle \in Workers /\ Idle.at = "idle" /\ TypeOK /\ ~read_only
  BY IdleClient DEF Incoming, IInv
<1>2. /\ data \in Seq(Data) /\ data # <<>>
      /\ Honest => con.sent = con.total /\ data = Chunks(c, con.job, con.total)
  BY CompleteWrite
<1>3. next \in Writes /\ Current(c, next, con)
  BY NextWrite
<1>4. next.sector \in Nat /\ next.sector = con.sector /\ con.handle = 0 /\ con.kind = "bwrite"
  BY <1>3 DEF Writes, Current, StoreOnBlockDevice
<1> HIDE DEF data
<1>5. CASE HAS_PREAD
  <2>1. /\ device' = StoreOnDevice(next.sector, data) /\ console' = [console EXCEPT ![c] = Answered(con)]
        /\ UNCHANGED <<position, bd_lock, seen, worker, nameVars, tableVars>>
    BY <1>5 DEF StoreOnBlockDevice, data
  <2>2. device' \in [0 .. Sectors - 1 -> Data]
    BY <1>1, <1>2, <1>4, <2>1, StoreOnDeviceProperties DEF TypeOK
  <2>3. Answered(con) \in ConsoleStates /\ Answered(con).answers = 1
    BY <1>1, AnsweredConsole
  <2>4. WriteOK(c, NoWrite, Answered(con), Idle)
    BY <1>1, <2>3, NoWriteProperties DEF WriteOK
  <2>5. worker' = [worker EXCEPT ![c] = Idle]
    BY <1>1, <2>1, IdleClient
  <2>6. TypeOK' /\ OthersKeep(c) /\ write'[c] = NoWrite /\ console'[c] = Answered(con) /\ worker'[c] = Idle
    BY <1>1, <2>1, <2>2, <2>3, <2>5, NoWriteProperties, TypeStep DEF TypeOK, nameVars, tableVars
  <2>7. NotMoved(c) /\ SeekOK(c)'
    BY <1>1, <2>1, <2>6 DEF NotMoved, SeekOK
  <2> QED BY <2>4, <2>6, <2>7, ClientStep
<1>6. CASE ~HAS_PREAD
  <2> DEFINE wk == [at |-> "seeked", sector |-> next.sector, data |-> data]
  <2>1. /\ bd_lock = NoClient /\ bd_lock' = c /\ position' = next.sector /\ worker' = [worker EXCEPT ![c] = wk]
        /\ console' = [console EXCEPT ![c] = con] /\ UNCHANGED <<device, seen, nameVars, tableVars>>
    BY <1>6 DEF StoreOnBlockDevice, Seek, data
  <2>2. wk \in Workers /\ wk.at = "seeked" /\ wk.data = data /\ wk.sector = next.sector
    BY <1>2, <1>4 DEF Workers
  <2> HIDE DEF wk
  <2>3. WriteOK(c, NoWrite, con, wk)
    BY <1>1, <1>2, <1>4, <2>2, NoWriteProperties DEF WriteOK, Landing
  <2>4. TypeOK' /\ OthersKeep(c) /\ write'[c] = NoWrite /\ console'[c] = con /\ worker'[c] = wk
    BY <1>1, <1>4, <2>1, <2>2, NoWriteProperties, TypeStep DEF TypeOK, nameVars, tableVars
  <2>5. NotMoved(c)
    BY <2>1, OneSeeks DEF NotMoved
  <2>6. SeekOK(c)'
    BY <1>6, <2>1, <2>2, <2>4 DEF SeekOK, HAS_PREAD
  <2> QED BY <2>3, <2>4, <2>5, <2>6, ClientStep
<1> QED BY <1>5, <1>6

LEMMA StoreAtPositionInv ==
  ASSUME IInv, NEW c \in Clients, NEW w, NEW con, NEW nr, Incoming(c, w, con, nr), w.handle >= 0, nr = w.received,
         NEW next, next = Longer(w, Chunk(c, con.job, nr)), StoreAtPosition(c, next, con),
         write' = [write EXCEPT ![c] = NoWrite], UNCHANGED setup
  PROVE  IInv'
<1>1. con \in ConsoleStates /\ con.answers = 0 /\ worker[c] = Idle /\ Idle \in Workers /\ Idle.at = "idle" /\ TypeOK
  BY IdleClient DEF Incoming, IInv
<1>2. next \in Writes /\ Current(c, next, con) /\ next.handle = w.handle
  BY NextWrite
<1>3. next.data \in Seq(Data) /\ Len(next.data) \in Nat
  BY <1>2, LenProperties DEF Writes
<1>4. Sequential
  <2>1. next.handle = 0 /\ ~next.is_block
    BY DEF StoreAtPosition
  <2>2. con.handle = 0 /\ con.kind = "write"
    BY <1>1, <1>2, <2>1 DEF Current, ConsoleStates
  <2> QED BY <2>2 DEF Incoming, Asked
<1> DEFINE ct == [Answered(con) EXCEPT !.own = @ + Len(next.data)]
<1>5. /\ device' = StoreOnDevice(position, next.data) /\ position' = position + Len(next.data)
      /\ console' = [console EXCEPT ![c] = ct] /\ UNCHANGED <<nameVars, tableVars, bd_lock, worker>>
  BY DEF StoreAtPosition
<1>6. ct \in ConsoleStates /\ ct.answers = 1
  <2>1. Answered(con) \in ConsoleStates /\ Answered(con).answers = 1
    BY <1>1, AnsweredConsole
  <2> QED BY <1>3, <2>1 DEF ConsoleStates
<1> HIDE DEF ct
<1>7. device' \in [0 .. Sectors - 1 -> Data] /\ position' \in Nat
  BY <1>1, <1>3, <1>5, StoreOnDeviceProperties DEF TypeOK
<1>8. WriteOK(c, NoWrite, ct, Idle)
  BY <1>1, <1>6, NoWriteProperties DEF WriteOK
<1>9. worker' = [worker EXCEPT ![c] = Idle]
  BY <1>1, <1>5, IdleClient
<1>10. TypeOK' /\ OthersKeep(c) /\ write'[c] = NoWrite /\ console'[c] = ct /\ worker'[c] = Idle
  BY <1>1, <1>5, <1>6, <1>7, <1>9, NoWriteProperties, TypeStep DEF TypeOK, nameVars, tableVars
<1>11. NotMoved(c) /\ SeekOK(c)'
  BY <1>1, <1>4, <1>5, <1>10 DEF NotMoved, SeekOK
<1> QED BY <1>8, <1>10, <1>11, ClientStep

LEMMA HandleWriteDataInv ==
  ASSUME IInv, NEW c \in Clients, NEW w, NEW con, NEW nr, Incoming(c, w, con, nr), HandleWriteData(c, w, con, nr), UNCHANGED setup
  PROVE  IInv'
<1>1. CASE DropChunk(c, w, con, nr)
  BY <1>1, DropChunkInv
<1>2. CASE ChunkTooLong(c, w, con, nr)
  BY <1>2, ChunkTooLongInv
<1>3. CASE TakeChunk(c, w, con, nr)
  <2>1. PICK next : next = Longer(w, Chunk(c, con.job, nr))
    OBVIOUS
  <2>2. /\ w.handle >= 0 /\ nr = w.received
        /\ \/ /\ next.received < con.total /\ write' = [write EXCEPT ![c] = next] /\ console' = [console EXCEPT ![c] = con]
              /\ UNCHANGED <<nameVars, tableVars, deviceVars, worker>>
           \/ /\ ~(next.received < con.total) /\ write' = [write EXCEPT ![c] = NoWrite]
              /\ \/ StoreInFile(c, next, con) \/ StoreOnBlockDevice(c, next, con)
                 \/ StoreAtPosition(c, next, con) \/ StoreFails(c, next, con)
    BY <1>3, <2>1 DEF TakeChunk, Longer
  <2> QED BY <2>1, <2>2, MoreToComeInv, StoreInFileInv, StoreOnBlockDeviceInv, StoreAtPositionInv, StoreFailsInv
<1> QED BY <1>1, <1>2, <1>3 DEF HandleWriteData

\* The console of this step has sent something that the one of the state has not.
Later(c, con) == con.job # console[c].job \/ con.sent # console[c].sent

\* A chunk of the console's write comes to the session.
LEMMA SendChunkIncoming ==
  ASSUME IInv, NEW c \in Clients, SendChunk(c)
  PROVE  \E w, con, nr : Incoming(c, w, con, nr) /\ Later(c, con) /\ HandleWriteData(c, w, con, nr)
<1>1. worker[c] = Idle /\ ~console[c].over /\ console[c].sent < console[c].total
  BY DEF SendChunk
<1>2. write[c] \in Writes /\ console[c] \in ConsoleStates /\ WriteOK(c, write[c], console[c], Idle) /\ Idle.at = "idle"
  BY <1>1, IdleClient
<1>3. PICK con : con = [console[c] EXCEPT !.sent = @ + 1]
  OBVIOUS
<1>4. PICK nr \in IF Honest THEN {console[c].sent} ELSE 0 .. console[c].total - 1 : HandleWriteData(c, write[c], con, nr)
  BY <1>3 DEF SendChunk
<1>5. console[c].sent \in Nat /\ console[c].total \in Nat /\ nr \in Nat
  BY <1>2, <1>4 DEF ConsoleStates
<1>6. /\ con \in ConsoleStates /\ con.sent = console[c].sent + 1
      /\ \A f \in {"job", "kind", "handle", "sector", "total", "answers", "over", "own"} : con[f] = console[c][f]
  BY <1>2, <1>3, SentConsole
<1>7. /\ con.job = console[c].job /\ con.kind = console[c].kind /\ con.handle = console[c].handle /\ con.sector = console[c].sector
      /\ con.total = console[c].total /\ con.answers = console[c].answers /\ con.over = console[c].over
  BY <1>6
<1>8. Incoming(c, write[c], con, nr)
  <2>1. write[c].received \in Nat
    BY <1>2 DEF Writes
  <2>2. Asked(console[c]) => Asked(con)
    BY <1>7 DEF Asked
  <2>3. CASE write[c].handle >= 0
    <3>1. Current(c, write[c], console[c]) /\ Asked(console[c]) /\ write[c].received < console[c].total /\ ~read_only
      BY <1>2, <2>3 DEF WriteOK
    <3>2. write[c].received < con.sent /\ (Honest => write[c].received = con.sent - 1 /\ nr = write[c].received)
      BY <1>4, <1>5, <1>6, <2>1, <3>1 DEF Current
    <3> QED BY <1>1, <1>2, <1>5, <1>6, <1>7, <2>2, <2>3, <3>1, <3>2 DEF Incoming, Current
  <2>4. CASE ~(write[c].handle >= 0)
    BY <1>1, <1>2, <1>5, <1>6, <1>7, <2>4 DEF Incoming, WriteOK
  <2> QED BY <2>3, <2>4
<1>9. Later(c, con)
  BY <1>5, <1>6 DEF Later
<1> QED BY <1>4, <1>8, <1>9

LEMMA SendChunkInv ==
  ASSUME IInv, NEW c \in Clients, SendChunk(c), UNCHANGED setup PROVE IInv'
BY SendChunkIncoming, HandleWriteDataInv

\* A write request is refused, or armed to wait for its chunks, or its first chunk came with it.
LEMMA WriteReqCases ==
  ASSUME IInv, NEW c \in Clients, WriteReq(c)
  PROVE  \/ \E con \in ConsoleStates : con.answers = 0 /\ Refuse(c, con)
         \/ \E w \in Writes, con \in ConsoleStates :
              /\ WriteOK(c, w, con, Idle)
              /\ write' = [write EXCEPT ![c] = w] /\ console' = [console EXCEPT ![c] = con]
              /\ UNCHANGED <<nameVars, tableVars, deviceVars, worker>>
         \/ \E w, con, nr : Incoming(c, w, con, nr) /\ Later(c, con) /\ HandleWriteData(c, w, con, nr)
<1>1. worker[c] = Idle /\ Idle \in Workers /\ Idle.at = "idle" /\ console[c] \in ConsoleStates
  BY IdleClient DEF WriteReq
<1>2. PICK kind \in {"write", "bwrite"}, h \in 0 .. next_handle[c] - 1,
           sector \in 0 .. Sectors - 1, total \in 1 .. MaxChunks, inline \in BOOLEAN :
       /\ kind = "write" => sector = 0 /\ (h # 0 \/ Sequential)
       /\ \E size \in IF Honest THEN {total} ELSE 1 .. MaxChunks :
            LET con == Starts(c, kind, h, sector, total, inline)
            IN  IF Refuses(c, h, size) THEN Refuse(c, con) ELSE Arm(c, con, size, inline)
  BY DEF WriteReq
<1>3. PICK size \in IF Honest THEN {total} ELSE 1 .. MaxChunks :
            LET con == Starts(c, kind, h, sector, total, inline)
            IN  IF Refuses(c, h, size) THEN Refuse(c, con) ELSE Arm(c, con, size, inline)
  BY <1>2
<1>4. h \in 0 .. MaxOpens /\ sector \in Nat /\ total \in Nat /\ total >= 1 /\ size \in Nat /\ size >= 1 /\ (Honest => size = total)
  <2>1. next_handle[c] \in 1 .. MaxOpens + 1
    BY DEF IInv, TypeOK
  <2> QED BY <2>1, FilesAssumption
<1>5. PICK con : con = Starts(c, kind, h, sector, total, inline)
  OBVIOUS
<1>6. /\ con \in ConsoleStates /\ con.job = console[c].job + 1 /\ con.kind = kind /\ con.handle = h /\ con.sector = sector /\ con.total = total
      /\ con.sent = (IF inline THEN 1 ELSE 0) /\ con.answers = 0 /\ con.over = FALSE
  <2>1. kind \in {"write", "bwrite"} /\ h \in Nat /\ inline \in BOOLEAN
    BY <1>4, FilesAssumption
  <2>2. Started(c, con, kind, h, sector, total, inline)
    BY <1>1, <1>4, <1>5, <2>1, StartsConsole, Zenon
  <2> QED BY ONLY <2>2 DEF Started
<1>7. CASE Refuses(c, h, size)
  BY <1>3, <1>5, <1>6, <1>7
<1>8. CASE ~Refuses(c, h, size)
  <2>1. Arm(c, con, size, inline)
    BY <1>3, <1>5, <1>8
  <2>2. PICK w : w = Armed(con, size)
    OBVIOUS
  <2>3. /\ w \in Writes /\ w.handle = con.handle /\ (w.is_block <=> con.kind = "bwrite") /\ w.sector = con.sector
        /\ w.count = size /\ w.data = <<>> /\ w.received = 0
    BY <1>4, <1>6, <2>2, ArmedWrite
  <2>4. IF inline THEN HandleWriteData(c, w, con, 0)
        ELSE /\ write' = [write EXCEPT ![c] = w] /\ console' = [console EXCEPT ![c] = con]
             /\ UNCHANGED <<nameVars, tableVars, deviceVars, worker>>
    BY <2>1, <2>2 DEF Arm, Armed
  <2>5. Asked(con) /\ ~read_only
    BY <1>2, <1>4, <1>6, <1>8 DEF Asked, Refuses
  <2>6. w.data = Chunks(c, con.job, 0)
    BY <2>3, NoChunks
  <2>7. CASE inline
    <3>1. Incoming(c, w, con, 0)
      BY <1>1, <1>4, <1>6, <2>3, <2>5, <2>6, <2>7 DEF Incoming
    <3>2. Later(c, con)
      BY <1>1, <1>6 DEF Later, ConsoleStates
    <3> QED BY <2>4, <2>7, <3>1, <3>2
  <2>8. CASE ~inline
    <3>1. WriteOK(c, w, con, Idle)
      BY <1>1, <1>4, <1>6, <2>3, <2>5, <2>6, <2>8 DEF WriteOK, Current
    <3> QED BY <1>6, <2>3, <2>4, <2>8, <3>1
  <2> QED BY <2>7, <2>8
<1> QED BY <1>7, <1>8

LEMMA WriteReqInv ==
  ASSUME IInv, NEW c \in Clients, WriteReq(c), UNCHANGED setup PROVE IInv'
<1>1. worker[c] = Idle /\ Idle \in Workers /\ Idle.at = "idle" /\ worker = [worker EXCEPT ![c] = Idle]
  BY IdleClient DEF WriteReq
<1>2. ASSUME NEW con \in ConsoleStates, con.answers = 0, Refuse(c, con) PROVE IInv'
  <2>1. Answered(con) \in ConsoleStates /\ Answered(con).answers = 1
    BY <1>2, AnsweredConsole
  <2>2. WriteOK(c, NoWrite, Answered(con), Idle)
    BY <1>1, <2>1, NoWriteProperties DEF WriteOK
  <2>3. worker' = [worker EXCEPT ![c] = Idle]
    BY <1>1, <1>2 DEF Refuse
  <2> QED BY <1>1, <1>2, <2>1, <2>2, <2>3, NoWriteProperties, QuietStep DEF Refuse, deviceVars
<1>3. ASSUME NEW w \in Writes, NEW con \in ConsoleStates, WriteOK(c, w, con, Idle),
             write' = [write EXCEPT ![c] = w], console' = [console EXCEPT ![c] = con],
             UNCHANGED <<nameVars, tableVars, deviceVars, worker>>
      PROVE  IInv'
  <2>1. worker' = [worker EXCEPT ![c] = Idle]
    BY <1>1, <1>3
  <2> QED BY <1>1, <1>3, <2>1, QuietStep DEF deviceVars
<1> QED BY <1>2, <1>3, WriteReqCases, HandleWriteDataInv

LEMMA RestartInv ==
  ASSUME IInv, NEW c \in Clients, Restart(c), UNCHANGED setup PROVE IInv'
<1>1. /\ worker[c] = Idle /\ Idle \in Workers /\ Idle.at = "idle" /\ console[c] \in ConsoleStates /\ write[c] \in Writes
      /\ WriteOK(c, write[c], console[c], Idle)
  BY IdleClient DEF Restart
<1>2. PICK con : con = [console[c] EXCEPT !.over = TRUE]
  OBVIOUS
<1>3. /\ con \in ConsoleStates /\ con.job = console[c].job /\ con.kind = console[c].kind /\ con.handle = console[c].handle
      /\ con.sector = console[c].sector /\ con.total = console[c].total /\ con.sent = console[c].sent
      /\ con.answers = console[c].answers /\ con.over = TRUE
  BY <1>1, <1>2 DEF ConsoleStates
<1>4. console' = [console EXCEPT ![c] = con] /\ worker' = [worker EXCEPT ![c] = Idle]
  BY <1>1, <1>2, IdleClient DEF Restart
<1>5. PICK w \in {write[c], NoWrite} : write' = [write EXCEPT ![c] = w]
  BY IdleClient DEF Restart
<1>6. WriteOK(c, w, con, Idle)
  BY <1>1, <1>3, <1>5, NoWriteProperties DEF WriteOK, Current, Asked
<1> QED BY <1>1, <1>3, <1>4, <1>5, <1>6, NoWriteProperties, QuietStep DEF Restart, deviceVars
-----------------------------------------------------------------------------
(* The other operations.                                                    *)

\* The console con has the write of k under way.
SameWrite(con, k) ==
  /\ con.job = k.job /\ con.kind = k.kind /\ con.handle = k.handle /\ con.sector = k.sector
  /\ con.total = k.total /\ con.sent = k.sent /\ con.answers = k.answers /\ con.over = k.over

LEMMA OwnConsole ==
  ASSUME NEW k \in ConsoleStates, NEW own \in Nat, NEW con, con = [k EXCEPT !.own = own]
  PROVE  con \in ConsoleStates /\ SameWrite(con, k)
BY DEF ConsoleStates, SameWrite

LEMMA UnansweredConsole ==
  ASSUME NEW k \in ConsoleStates, NEW b \in BOOLEAN, NEW con, con = [k EXCEPT !.unanswered = b]
  PROVE  con \in ConsoleStates /\ SameWrite(con, k)
BY DEF ConsoleStates, SameWrite

\* The operations on the folder and on the handles let the client's write alone.
LEMMA TableStep ==
  ASSUME IInv, NEW c \in Clients, UNCHANGED <<setup, write, deviceVars>>, worker[c].at # "seeked",
         NEW con \in ConsoleStates, SameWrite(con, console[c]), console' = [console EXCEPT ![c] = con],
         NEW wk \in Workers, wk.at # "seeked", worker' = [worker EXCEPT ![c] = wk],
         folder' \in BOOLEAN, dir' \in [Paths -> Nat], files' \in [Inodes -> Seq(Data)],
         handles' \in [Clients -> [1 .. MaxOpens -> OpenFiles \cup {NoHandle}]],
         next_handle' \in [Clients -> 1 .. MaxOpens + 1]
  PROVE  IInv'
<1>1. TypeOK /\ write[c] \in Writes /\ write' = [write EXCEPT ![c] = write[c]] /\ WriteOK(c, write[c], console[c], worker[c])
  BY IdleClient DEF IInv
<1>2. TypeOK' /\ OthersKeep(c) /\ write'[c] = write[c] /\ console'[c] = con /\ worker'[c] = wk
  <2>1. device' \in [0 .. Sectors - 1 -> Data] /\ position' \in Nat
    BY <1>1 DEF TypeOK, deviceVars
  <2> QED BY <1>1, <2>1, TypeStep
<1>3. WriteOK(c, write[c], con, wk)
  BY <1>1 DEF WriteOK, Current, Asked, SameWrite
<1>4. NotMoved(c) /\ SeekOK(c)'
  BY <1>2 DEF NotMoved, SeekOK, deviceVars
<1> QED BY <1>2, <1>3, <1>4, ClientStep

\* The same, when the console and the worker stay as they were.
LEMMA IdleStep ==
  ASSUME IInv, NEW c \in Clients, UNCHANGED <<setup, write, deviceVars, worker, console>>, worker[c] = Idle,
         folder' \in BOOLEAN, dir' \in [Paths -> Nat], files' \in [Inodes -> Seq(Data)],
         handles' \in [Clients -> [1 .. MaxOpens -> OpenFiles \cup {NoHandle}]],
         next_handle' \in [Clients -> 1 .. MaxOpens + 1]
  PROVE  IInv'
<1>1. SameWrite(console[c], console[c])
  BY DEF SameWrite
<1> QED BY <1>1, IdleClient, TableStep

LEMMA OpenChecksInv ==
  ASSUME IInv, NEW c \in Clients, NEW p \in Paths, NEW f \in Flags, OpenChecks(c, p, f), UNCHANGED setup PROVE IInv'
<1>1. PICK wk : wk = [at |-> "opening", path |-> p, flags |-> f, mode |-> flags_to_mode(f, dir[p] # 0)]
  OBVIOUS
<1>2. flags_to_mode(f, dir[p] # 0) \in Modes
  BY DEF flags_to_mode, Modes
<1>3. wk \in Workers /\ wk.at # "seeked"
  BY <1>1, <1>2 DEF Workers
<1>4. SameWrite(console[c], console[c]) /\ worker[c].at # "seeked"
  BY IdleClient DEF SameWrite, OpenChecks
<1>5. worker' = [worker EXCEPT ![c] = wk]
  BY <1>1 DEF OpenChecks
<1> QED BY <1>3, <1>4, <1>5, IdleClient, TableStep DEF OpenChecks, nameVars, tableVars, IInv, TypeOK

\* What a worker that is opening holds.
LEMMA OpeningWorker ==
  ASSUME IInv, NEW c \in Clients, worker[c].at = "opening"
  PROVE  worker[c].path \in Paths /\ worker[c].mode \in Modes /\ worker[c].flags \in Flags
BY IdleClient DEF Workers, Idle

LEMMA OpenFailsInv ==
  ASSUME IInv, NEW c \in Clients, OpenFails(c), UNCHANGED setup PROVE IInv'
<1>1. SameWrite(console[c], console[c]) /\ worker[c].at # "seeked"
  BY DEF SameWrite, OpenFails
<1>2. folder' \in BOOLEAN
  BY DEF OpenFails
<1> QED BY <1>1, <1>2, IdleClient, TableStep DEF OpenFails, tableVars, IInv, TypeOK

\* Giving one handle another file or position keeps the table well formed.
LEMMA TableUpdate ==
  ASSUME TypeOK, NEW c \in Clients, NEW h \in 1 .. MaxOpens, NEW r \in OpenFiles \cup {NoHandle},
         handles' = [handles EXCEPT ![c][h] = r]
  PROVE  handles' \in [Clients -> [1 .. MaxOpens -> OpenFiles \cup {NoHandle}]]
BY DEF TypeOK

LEMMA OpenFileInv ==
  ASSUME IInv, NEW c \in Clients, OpenFile(c), UNCHANGED setup PROVE IInv'
<1>1. SameWrite(console[c], console[c]) /\ worker[c].at = "opening"
  BY DEF SameWrite, OpenFile
<1>2. worker[c].path \in Paths /\ worker[c].mode \in Modes
  BY <1>1, OpeningWorker
<1>3. PICK i \in Inodes :
        /\ dir' = [dir EXCEPT ![worker[c].path] = i]
        /\ \/ files' = [files EXCEPT ![i] = <<>>] \/ files' = files
        /\ \/ /\ next_handle[c] <= MaxOpens
              /\ next_handle' = [next_handle EXCEPT ![c] = @ + 1]
              /\ handles' = [handles EXCEPT ![c][next_handle[c]] = [ino |-> i, pos |-> 0, mode |-> worker[c].mode]]
           \/ UNCHANGED tableVars
  BY DEF OpenFile
<1>4. TypeOK
  BY DEF IInv
<1>5. folder' \in BOOLEAN /\ dir' \in [Paths -> Nat]
  BY <1>2, <1>3, <1>4 DEF OpenFile, TypeOK, Inodes
<1>6. files' \in [Inodes -> Seq(Data)]
  <2>1. <<>> \in Seq(Data)
    BY EmptySeq
  <2> QED BY <1>3, <1>4, <2>1 DEF TypeOK
<1>7. /\ handles' \in [Clients -> [1 .. MaxOpens -> OpenFiles \cup {NoHandle}]]
      /\ next_handle' \in [Clients -> 1 .. MaxOpens + 1]
  <2>1. CASE UNCHANGED tableVars
    BY <1>4, <2>1 DEF TypeOK, tableVars
  <2>2. CASE ~(UNCHANGED tableVars)
    <3>1. [ino |-> i, pos |-> 0, mode |-> worker[c].mode] \in OpenFiles
      BY <1>2 DEF OpenFiles
    <3>2. next_handle[c] \in 1 .. MaxOpens /\ MaxOpens \in Nat
      BY <1>3, <1>4, <2>2, FilesAssumption DEF TypeOK
    <3>3. /\ next_handle' = [next_handle EXCEPT ![c] = next_handle[c] + 1]
          /\ handles' = [handles EXCEPT ![c][next_handle[c]] = [ino |-> i, pos |-> 0, mode |-> worker[c].mode]]
      BY <1>3, <2>2
    <3>4. next_handle[c] + 1 \in 1 .. MaxOpens + 1 /\ next_handle \in [Clients -> 1 .. MaxOpens + 1]
      BY <1>4, <3>2 DEF TypeOK
    <3>5. next_handle' \in [Clients -> 1 .. MaxOpens + 1]
      BY ONLY <3>3, <3>4
    <3>6. handles' \in [Clients -> [1 .. MaxOpens -> OpenFiles \cup {NoHandle}]]
      BY <1>4, <3>1, <3>2, <3>3, TableUpdate
    <3> QED BY <3>5, <3>6
  <2> QED BY <2>1, <2>2
<1> QED BY <1>1, <1>5, <1>6, <1>7, IdleClient, TableStep DEF OpenFile

\* An open file at another position.
LEMMA Moved ==
  ASSUME TypeOK, NEW c \in Clients, NEW h \in 1 .. MaxOpens, handles[c][h] # NoHandle, NEW n \in Nat
  PROVE  [handles[c][h] EXCEPT !.pos = n] \in OpenFiles
<1>1. handles[c] \in [1 .. MaxOpens -> OpenFiles \cup {NoHandle}]
  BY DEF TypeOK
<1>2. handles[c][h] \in OpenFiles
  BY ONLY <1>1, h \in 1 .. MaxOpens, handles[c][h] # NoHandle
<1> QED BY <1>2 DEF OpenFiles

LEMMA CloseInv ==
  ASSUME IInv, NEW c \in Clients, NEW h \in 1 .. MaxOpens, Close(c, h), UNCHANGED setup PROVE IInv'
<1>1. handles' \in [Clients -> [1 .. MaxOpens -> OpenFiles \cup {NoHandle}]]
  BY TableUpdate DEF Close, IInv
<1> QED BY <1>1, IdleStep DEF Close, nameVars, IInv, TypeOK

LEMMA RemoveInv ==
  ASSUME IInv, NEW c \in Clients, NEW p \in Paths, Remove(c, p), UNCHANGED setup PROVE IInv'
<1>1. dir' \in [Paths -> Nat]
  BY DEF Remove, IInv, TypeOK
<1> QED BY <1>1, IdleStep DEF Remove, tableVars, IInv, TypeOK

LEMMA LseekInv ==
  ASSUME IInv, NEW c \in Clients, NEW h \in 1 .. MaxOpens, NEW o \in Nat, Lseek(c, h, o), UNCHANGED setup PROVE IInv'
<1>1. handles[c][h] # NoHandle
  BY FilesAssumption DEF Lseek, IsOpen
<1>2. [handles[c][h] EXCEPT !.pos = o] \in OpenFiles
  BY <1>1, Moved DEF IInv
<1>3. handles' = [handles EXCEPT ![c][h] = [handles[c][h] EXCEPT !.pos = o]]
  BY DEF Lseek
<1>4. handles' \in [Clients -> [1 .. MaxOpens -> OpenFiles \cup {NoHandle}]]
  BY <1>2, <1>3, TableUpdate DEF IInv
<1> QED BY <1>4, IdleStep DEF Lseek, nameVars, IInv, TypeOK

LEMMA AfterNat ==
  ASSUME NEW pos \in Nat, NEW size PROVE After(pos, size) \in Nat
BY DEF After

LEMMA ReadInv ==
  ASSUME IInv, NEW c \in Clients, NEW h \in 1 .. MaxOpens, Read(c, h), UNCHANGED setup PROVE IInv'
<1>1. TypeOK /\ console[c] \in ConsoleStates /\ worker[c].at # "seeked" /\ handles[c][h] # NoHandle
  BY IdleClient, FilesAssumption DEF IInv, Read, IsOpen
<1>2. CASE CanRead(handles[c][h].mode)
  <2>1. PICK n : n = After(handles[c][h].pos, Len(files[handles[c][h].ino]))
    OBVIOUS
  <2>2. handles[c][h].pos \in Nat
    <3>1. handles[c] \in [1 .. MaxOpens -> OpenFiles \cup {NoHandle}]
      BY <1>1 DEF TypeOK
    <3>2. handles[c][h] \in OpenFiles
      BY ONLY <1>1, <3>1, h \in 1 .. MaxOpens
    <3> QED BY <3>2 DEF OpenFiles
  <2>3. n \in Nat
    BY <2>1, <2>2, AfterNat
  <2>4. [handles[c][h] EXCEPT !.pos = n] \in OpenFiles
    BY <1>1, <2>3, Moved
  <2>5. handles' = [handles EXCEPT ![c][h] = [handles[c][h] EXCEPT !.pos = n]]
    BY <1>2, <2>1 DEF Read
  <2>6. handles' \in [Clients -> [1 .. MaxOpens -> OpenFiles \cup {NoHandle}]]
    BY <1>1, <2>4, <2>5, TableUpdate
  <2> QED BY <1>1, <1>2, <2>6, IdleStep DEF Read, nameVars, TypeOK
<1>3. CASE ~CanRead(handles[c][h].mode)
  <2>1. PICK con : con = [console[c] EXCEPT !.unanswered = TRUE]
    OBVIOUS
  <2>2. con \in ConsoleStates /\ SameWrite(con, console[c])
    BY <1>1, <2>1, UnansweredConsole
  <2>3. console' = [console EXCEPT ![c] = con]
    BY <1>3, <2>1 DEF Read
  <2>4. worker' = [worker EXCEPT ![c] = worker[c]] /\ worker[c] \in Workers
    BY IdleClient DEF Read
  <2> QED BY <1>1, <1>3, <2>2, <2>3, <2>4, TableStep DEF Read, nameVars, TypeOK
<1> QED BY <1>2, <1>3

LEMMA BreadInv ==
  ASSUME IInv, NEW c \in Clients, NEW h \in 1 .. MaxOpens, NEW sector \in Nat, Bread(c, h, sector), UNCHANGED setup PROVE IInv'
<1>1. TypeOK /\ console[c] \in ConsoleStates /\ worker[c].at # "seeked" /\ handles[c][h] # NoHandle
  BY IdleClient, FilesAssumption DEF IInv, Bread, IsOpen
<1>2. PICK n : n = IF CanRead(handles[c][h].mode) THEN After(sector, Len(files[handles[c][h].ino])) ELSE sector
  OBVIOUS
<1>3. n \in Nat
  BY <1>2, AfterNat
<1>4. [handles[c][h] EXCEPT !.pos = n] \in OpenFiles
  BY <1>1, <1>3, Moved
<1>5. handles' = [handles EXCEPT ![c][h] = [handles[c][h] EXCEPT !.pos = n]]
  BY <1>2 DEF Bread
<1>6. handles' \in [Clients -> [1 .. MaxOpens -> OpenFiles \cup {NoHandle}]]
  BY <1>1, <1>4, <1>5, TableUpdate
<1>7. PICK b \in BOOLEAN : b = (console[c].unanswered \/ ~CanRead(handles[c][h].mode))
  BY Zenon
<1>8. PICK con : con = [console[c] EXCEPT !.unanswered = b]
  OBVIOUS
<1>9. con \in ConsoleStates /\ SameWrite(con, console[c])
  BY <1>1, <1>8, UnansweredConsole
<1>10. console' = [console EXCEPT ![c].unanswered = console[c].unanswered \/ ~CanRead(handles[c][h].mode)]
  BY DEF Bread
<1>11. console' = [console EXCEPT ![c] = con]
  BY <1>7, <1>8, <1>10, Zenon
<1>12. worker' = [worker EXCEPT ![c] = worker[c]] /\ worker[c] \in Workers
  BY IdleClient DEF Bread
<1> QED BY <1>1, <1>6, <1>9, <1>11, <1>12, TableStep DEF Bread, nameVars, TypeOK

\* A step on the device that is not a transfer under way: the lock stays free or as it was.
LEMMA DeviceStepInv ==
  ASSUME IInv, NEW c \in Clients, UNCHANGED <<setup, nameVars, tableVars, write, device, bd_lock, worker>>, worker[c] = Idle,
         NEW con \in ConsoleStates, SameWrite(con, console[c]), console' = [console EXCEPT ![c] = con],
         position' \in Nat, ~Sequential => position' = position
  PROVE  IInv'
<1>1. /\ TypeOK /\ write[c] \in Writes /\ write' = [write EXCEPT ![c] = write[c]] /\ WriteOK(c, write[c], console[c], Idle)
      /\ Idle \in Workers /\ Idle.at = "idle" /\ worker' = [worker EXCEPT ![c] = Idle]
  BY IdleClient DEF IInv
<1>2. TypeOK' /\ OthersKeep(c) /\ write'[c] = write[c] /\ console'[c] = con /\ worker'[c] = Idle
  <2>1. /\ folder' \in BOOLEAN /\ dir' \in [Paths -> Nat] /\ files' \in [Inodes -> Seq(Data)]
        /\ handles' \in [Clients -> [1 .. MaxOpens -> OpenFiles \cup {NoHandle}]]
        /\ next_handle' \in [Clients -> 1 .. MaxOpens + 1] /\ device' \in [0 .. Sectors - 1 -> Data]
    BY <1>1 DEF TypeOK, nameVars, tableVars
  <2>2. setup' = setup
    OBVIOUS
  <2>3. position' \in Nat /\ console' = [console EXCEPT ![c] = con] /\ con \in ConsoleStates
    OBVIOUS
  <2> QED BY ONLY <1>1, <2>1, <2>2, <2>3, c \in Clients, TypeStep
<1>3. WriteOK(c, write[c], con, Idle)
  BY <1>1 DEF WriteOK, Current, Asked, SameWrite
<1>4. NotMoved(c) /\ SeekOK(c)'
  BY <1>1, <1>2 DEF NotMoved, SeekOK
<1> QED BY <1>2, <1>3, <1>4, ClientStep

LEMMA ReadDeviceInv ==
  ASSUME IInv, NEW c \in Clients, ReadDevice(c), UNCHANGED setup PROVE IInv'
<1>1. console[c] \in ConsoleStates /\ console[c].own \in Nat /\ position \in Nat
  BY DEF IInv, TypeOK, ConsoleStates
<1>2. PICK con : con = [console[c] EXCEPT !.own = After(console[c].own, Sectors)]
  OBVIOUS
<1>3. con \in ConsoleStates /\ SameWrite(con, console[c]) /\ position' \in Nat
  BY <1>1, <1>2, AfterNat, OwnConsole DEF ReadDevice
<1>4. console' = [console EXCEPT ![c] = con]
  BY <1>2 DEF ReadDevice
<1> QED BY <1>3, <1>4, DeviceStepInv DEF ReadDevice, nameVars, tableVars

LEMMA LseekDeviceInv ==
  ASSUME IInv, NEW c \in Clients, NEW o \in Nat, LseekDevice(c, o), UNCHANGED setup PROVE IInv'
<1>1. console[c] \in ConsoleStates
  BY DEF IInv, TypeOK
<1>2. PICK con : con = [console[c] EXCEPT !.own = o]
  OBVIOUS
<1>3. con \in ConsoleStates /\ SameWrite(con, console[c])
  BY <1>1, <1>2, OwnConsole
<1>4. console' = [console EXCEPT ![c] = con]
  BY <1>2 DEF LseekDevice
<1> QED BY <1>3, <1>4, DeviceStepInv DEF LseekDevice, nameVars, tableVars

LEMMA BreadDeviceInv ==
  ASSUME IInv, NEW c \in Clients, NEW o \in Nat, BreadDevice(c, o), UNCHANGED setup PROVE IInv'
<1>1. console[c] \in ConsoleStates /\ SameWrite(console[c], console[c]) /\ console = [console EXCEPT ![c] = console[c]]
  BY IdleClient DEF SameWrite
<1>2. position' \in Nat /\ position' = position
  BY DEF IInv, TypeOK, BreadDevice
<1> QED BY <1>1, <1>2, DeviceStepInv DEF BreadDevice, nameVars, tableVars

LEMMA BreadSeekInv ==
  ASSUME IInv, NEW c \in Clients, NEW o \in Nat, BreadSeek(c, o), UNCHANGED setup PROVE IInv'
<1>1. /\ TypeOK /\ write[c] \in Writes /\ write' = [write EXCEPT ![c] = write[c]] /\ WriteOK(c, write[c], console[c], Idle)
      /\ console[c] \in ConsoleStates /\ console' = [console EXCEPT ![c] = console[c]] /\ Idle.at = "idle"
  BY IdleClient DEF IInv, BreadSeek
<1>2. PICK wk : wk = [at |-> "seeked", sector |-> o, data |-> <<>>]
  OBVIOUS
<1>3. <<>> \in Seq(Data)
  BY EmptySeq
<1>4. wk \in Workers /\ wk.at = "seeked" /\ wk.sector = o /\ wk.data = <<>>
  BY <1>2, <1>3 DEF Workers
<1>5. worker' = [worker EXCEPT ![c] = wk]
  BY <1>2 DEF BreadSeek, Seek
<1>6. TypeOK' /\ OthersKeep(c) /\ write'[c] = write[c] /\ console'[c] = console[c] /\ worker'[c] = wk
  <2>1. /\ folder' \in BOOLEAN /\ dir' \in [Paths -> Nat] /\ files' \in [Inodes -> Seq(Data)]
        /\ handles' \in [Clients -> [1 .. MaxOpens -> OpenFiles \cup {NoHandle}]]
        /\ next_handle' \in [Clients -> 1 .. MaxOpens + 1] /\ device' \in [0 .. Sectors - 1 -> Data]
        /\ position' \in Nat
    BY <1>1 DEF TypeOK, nameVars, tableVars, BreadSeek, Seek
  <2> QED BY <1>1, <1>4, <1>5, <2>1, TypeStep
<1>7. WriteOK(c, write[c], console[c], wk)
  BY <1>1, <1>4 DEF WriteOK
<1>8. NotMoved(c)
  <2>1. \A d \in Clients \ {c} : worker[d].at # "seeked"
    BY OneSeeks DEF BreadSeek, Seek
  <2> QED BY <2>1 DEF NotMoved
<1>9. SeekOK(c)'
  BY <1>4, <1>6 DEF SeekOK, BreadSeek, Seek, HAS_PREAD
<1> QED BY <1>6, <1>7, <1>8, <1>9, ClientStep

\* What a worker between its seek and its transfer holds.
LEMMA SeekedWorker ==
  ASSUME IInv, NEW c \in Clients, worker[c].at = "seeked"
  PROVE  worker[c].sector \in Nat /\ worker[c].data \in Seq(Data) /\ bd_lock = c
BY IdleClient DEF Workers, Idle, IInv, SeekOK

LEMMA TransferInv ==
  ASSUME IInv, NEW c \in Clients, Transfer(c), UNCHANGED setup PROVE IInv'
<1>1. /\ TypeOK /\ write[c] \in Writes /\ write' = [write EXCEPT ![c] = write[c]]
      /\ WriteOK(c, write[c], console[c], worker[c]) /\ console[c] \in ConsoleStates /\ worker[c].at = "seeked"
      /\ Idle \in Workers /\ Idle.at = "idle" /\ worker' = [worker EXCEPT ![c] = Idle]
  BY IdleClient DEF IInv, Transfer
<1>2. worker[c].sector \in Nat /\ worker[c].data \in Seq(Data) /\ bd_lock = c
  BY <1>1, SeekedWorker
<1>3. device' \in [0 .. Sectors - 1 -> Data] /\ position' \in Nat
  <2>1. position \in Nat /\ Len(worker[c].data) \in Nat
    BY <1>1, <1>2, LenProperties DEF TypeOK
  <2>2. device' = StoreOnDevice(position, worker[c].data)
        /\ position' = position + IF worker[c].data = <<>> THEN 1 ELSE Len(worker[c].data)
    BY DEF Transfer
  <2>3. device \in [0 .. Sectors - 1 -> Data]
    BY <1>1 DEF TypeOK
  <2> QED BY <1>2, <2>1, <2>2, <2>3, StoreOnDeviceProperties
<1>4. PICK con : con = IF worker[c].data = <<>> THEN console[c] ELSE Answered(console[c])
  OBVIOUS
<1>5. console' = [console EXCEPT ![c] = con]
  BY <1>4, IdleClient DEF Transfer, Answered
<1>6. con \in ConsoleStates
  BY <1>1, <1>4, AnsweredConsole
<1>7. TypeOK' /\ OthersKeep(c) /\ write'[c] = write[c] /\ console'[c] = con /\ worker'[c] = Idle
  <2>1. /\ folder' \in BOOLEAN /\ dir' \in [Paths -> Nat] /\ files' \in [Inodes -> Seq(Data)]
        /\ handles' \in [Clients -> [1 .. MaxOpens -> OpenFiles \cup {NoHandle}]]
        /\ next_handle' \in [Clients -> 1 .. MaxOpens + 1]
    BY <1>1 DEF TypeOK, nameVars, tableVars, Transfer
  <2> QED BY <1>1, <1>3, <1>5, <1>6, <2>1, TypeStep
<1>8. WriteOK(c, write[c], con, Idle)
  <2>1. CASE worker[c].data = <<>>
    BY <1>1, <1>4, <2>1 DEF WriteOK
  <2>2. CASE worker[c].data # <<>>
    <3>1. con.answers = 1 /\ ~(write[c].handle >= 0)
      BY <1>1, <1>4, <2>2, AnsweredConsole DEF WriteOK, Landing
    <3> QED BY <1>1, <3>1 DEF WriteOK
  <2> QED BY <2>1, <2>2
<1>9. NotMoved(c)
  <2>1. \A d \in Clients \ {c} : worker[d].at # "seeked"
    BY <1>2, OneSeeks
  <2> QED BY <2>1 DEF NotMoved
<1>10. SeekOK(c)'
  BY <1>1, <1>7 DEF SeekOK
<1> QED BY <1>7, <1>8, <1>9, <1>10, ClientStep

-----------------------------------------------------------------------------
(* The theorems.                                                            *)

LEMMA InitInv == Init => IInv
<1> SUFFICES ASSUME Init PROVE IInv
  OBVIOUS
<1>1. Old \in Data /\ <<>> \in Seq(Data) /\ <<Old, Old>> \in Seq(Data)
  BY EmptySeq DEF Old, Data
<1>2. files \in [Inodes -> Seq(Data)] /\ device \in [0 .. Sectors - 1 -> Data]
  BY <1>1 DEF Init
<1>3. PICK k : k = [job |-> 0, kind |-> "write", handle |-> 0, sector |-> 0, total |-> 0, sent |-> 0,
                    answers |-> 0, over |-> TRUE, own |-> 0, unanswered |-> FALSE]
  OBVIOUS
<1>4. k \in ConsoleStates /\ k.answers = 0 /\ k.over = TRUE
  BY <1>3 DEF ConsoleStates
<1>5. \A c \in Clients : console[c] = k /\ write[c] = NoWrite /\ worker[c] = Idle
  BY <1>3 DEF Init
<1>6. console \in [Clients -> ConsoleStates] /\ write \in [Clients -> Writes] /\ worker \in [Clients -> Workers]
  <2>1. console \in [Clients -> {k}] /\ write \in [Clients -> {NoWrite}] /\ worker \in [Clients -> {Idle}]
    BY <1>3 DEF Init
  <2> QED BY <1>4, <2>1, NoWriteProperties DEF Workers
<1>7. TypeOK
  <2>1. next_handle \in [Clients -> 1 .. MaxOpens + 1]
    BY FilesAssumption DEF Init
  <2>2. dir \in [Paths -> Nat] /\ handles \in [Clients -> [1 .. MaxOpens -> OpenFiles \cup {NoHandle}]]
    BY DEF Init
  <2> QED BY <1>2, <1>6, <2>1, <2>2 DEF Init, TypeOK
<1>8. ASSUME NEW c \in Clients PROVE WriteOK(c, write[c], console[c], worker[c]) /\ SeekOK(c)
  BY <1>4, <1>5, NoWriteProperties DEF WriteOK, SeekOK, Idle
<1> QED BY <1>7, <1>8 DEF IInv

LEMMA NextInv == IInv /\ [Next]_vars => IInv'
<1> SUFFICES ASSUME IInv, [Next]_vars PROVE IInv'
  OBVIOUS
<1>1. CASE UNCHANGED vars
  BY <1>1 DEF vars, nameVars, tableVars, deviceVars, IInv, TypeOK, WriteOK, SeekOK, Current, Asked, Landing,
              Honest, Sequential, HAS_PREAD, read_only
<1>2. CASE Next
  <2>1. PICK c \in Clients : FileStep(c) \/ DeviceStep(c) \/ WriteReq(c) \/ SendChunk(c) \/ Restart(c)
    BY <1>2 DEF Next
  <2>2. UNCHANGED setup
    BY <1>2 DEF Next
  <2>3. \A o \in 0 .. Sectors - 1 : o \in Nat
    BY FilesAssumption
  <2>4. CASE FileStep(c)
    BY <2>2, <2>3, <2>4, RemoveInv, OpenChecksInv, OpenFailsInv, OpenFileInv, CloseInv, ReadInv, LseekInv, BreadInv DEF FileStep
  <2>5. CASE DeviceStep(c)
    BY <2>2, <2>3, <2>5, ReadDeviceInv, TransferInv, LseekDeviceInv, BreadDeviceInv, BreadSeekInv DEF DeviceStep
  <2> QED BY <2>1, <2>2, <2>4, <2>5, WriteReqInv, SendChunkInv, RestartInv
<1> QED BY <1>1, <1>2

\* The invariant holds in every behaviour of the file and block operations.
THEOREM FilesInvariant == Spec => []IInv
<1> QED BY InitInv, NextInv, PTL DEF Spec

\* What a session assembles is the write its console has under way, its first chunks in order
\* and nothing else (_handle_write_data), for any number of consoles, handles and chunks.
THEOREM AssembledIsCurrent == Spec => []AssemblyIsCurrent
<1>1. IInv => AssemblyIsCurrent
  BY DEF IInv, AssemblyIsCurrent, WriteOK, Current, Chunks
<1> QED BY <1>1, FilesInvariant, PTL

\* A write is answered once, also when it is refused, too long, fails, or its handle was closed
\* under it (_complete_write, _complete_bwrite).
THEOREM OneAnswer == Spec => []AnsweredOnce
<1>1. IInv => AnsweredOnce
  <2> SUFFICES ASSUME IInv, NEW c \in Clients, ~console[c].over
               PROVE  /\ console[c].answers <= 1
                      /\ (Honest /\ worker[c] = Idle /\ console[c].sent = console[c].total) => console[c].answers = 1
    BY DEF AnsweredOnce
  <2>1. WriteOK(c, write[c], console[c], worker[c]) /\ console[c] \in ConsoleStates /\ write[c] \in Writes /\ Idle.at = "idle"
    BY IdleClient
  <2>2. console[c].answers \in Nat /\ console[c].sent \in Nat /\ console[c].total \in Nat /\ write[c].received \in Nat
    BY <2>1 DEF ConsoleStates, Writes
  <2>3. console[c].answers <= 1
    BY <2>1 DEF WriteOK
  <2>4. ASSUME Honest, worker[c] = Idle, console[c].sent = console[c].total, console[c].answers = 0 PROVE FALSE
    <3>1. write[c].handle >= 0
      BY <2>1, <2>4 DEF WriteOK
    <3> QED BY <2>1, <2>2, <2>4, <3>1 DEF WriteOK, Current
  <2> QED BY <2>2, <2>3, <2>4
<1> QED BY <1>1, FilesInvariant, PTL

-----------------------------------------------------------------------------
(* Where the block device is read and written.                              *)

SeenInv == DOMAIN seen = Clients /\ (~Sequential => DeviceWhereAsked)

\* Without WRITE on handle 0 a chunk lands where the write asked for.
LEMMA SeenKept ==
  ASSUME NEW c \in Clients, NEW w, NEW con, NEW nr, Incoming(c, w, con, nr), HandleWriteData(c, w, con, nr)
  PROVE  DOMAIN seen' = DOMAIN seen /\ (~Sequential => seen' = seen)
<1>1. CASE UNCHANGED seen
  BY <1>1
<1>2. CASE ~(UNCHANGED seen)
  <2>1. w.handle >= 0 /\ nr = w.received
    BY <1>2 DEF HandleWriteData, DropChunk, ChunkTooLong, TakeChunk, deviceVars
  <2>2. PICK next : next = Longer(w, Chunk(c, con.job, nr))
    OBVIOUS
  <2>3. StoreAtPosition(c, next, con)
    BY <1>2, <2>1, <2>2 DEF HandleWriteData, DropChunk, ChunkTooLong, TakeChunk, StoreInFile, StoreOnBlockDevice, StoreFails,
                            Seek, deviceVars, Longer
  <2>4. DOMAIN seen' = DOMAIN seen /\ next.handle = 0 /\ ~next.is_block
    BY <2>3 DEF StoreAtPosition
  <2>5. Current(c, next, con) /\ next.handle = w.handle
    BY <2>1, <2>2, NextWrite
  <2>6. con.handle = 0 /\ con.kind = "write"
    BY <2>4, <2>5 DEF Incoming, Current, ConsoleStates
  <2>7. Sequential
    BY <2>1, <2>6 DEF Incoming, Asked
  <2> QED BY <2>4, <2>7
<1> QED BY <1>1, <1>2

\* A step gives no transfer a sector it did not ask for.
LEMMA SeenStep == IInv /\ SeenInv /\ [Next]_vars => SeenInv'
<1> SUFFICES ASSUME IInv, SeenInv, [Next]_vars PROVE SeenInv'
  OBVIOUS
<1>0. DOMAIN seen = Clients /\ (~Sequential => DeviceWhereAsked)
  BY DEF SeenInv
<1>1. CASE UNCHANGED vars
  BY <1>0, <1>1 DEF vars, deviceVars, SeenInv, DeviceWhereAsked, Sequential
<1>2. CASE Next
  <2>1. PICK c \in Clients : FileStep(c) \/ DeviceStep(c) \/ WriteReq(c) \/ SendChunk(c) \/ Restart(c)
    BY <1>2 DEF Next
  <2>2. UNCHANGED setup
    BY <1>2 DEF Next
  <2>3. CASE DOMAIN seen' = DOMAIN seen /\ (~Sequential => seen' = seen)
    BY <1>0, <2>2, <2>3 DEF SeenInv, DeviceWhereAsked, Sequential
  <2>4. CASE FileStep(c) \/ Restart(c)
    <3>1. UNCHANGED seen
      BY <2>4 DEF FileStep, Restart, Remove, OpenChecks, OpenFails, OpenFile, Close, Read, Lseek, Bread, deviceVars
    <3> QED BY <2>3, <3>1
  <2>5. CASE WriteReq(c)
    <3>1. \/ UNCHANGED seen
          \/ \E w, con, nr : Incoming(c, w, con, nr) /\ HandleWriteData(c, w, con, nr)
      BY <2>5, WriteReqCases DEF Refuse, deviceVars
    <3> QED BY <2>3, <3>1, SeenKept
  <2>6. CASE SendChunk(c)
    BY <2>3, <2>6, SendChunkIncoming, SeenKept
  <2>7. CASE DeviceStep(c)
    <3>1. CASE ReadDevice(c) \/ \E o \in 0 .. Sectors - 1 : LseekDevice(c, o) \/ BreadSeek(c, o)
      <4>1. DOMAIN seen' = DOMAIN seen /\ (~Sequential => seen' = seen)
        BY <3>1 DEF ReadDevice, LseekDevice, BreadSeek, Seek
      <4> QED BY <2>3, <4>1
    <3>2. CASE Transfer(c) \/ \E o \in 0 .. Sectors - 1 : BreadDevice(c, o)
      <4>1. PICK a, m : /\ seen' = [seen EXCEPT ![c] = [asked |-> a, met |-> m]]
                        /\ ~Sequential => a = m
        <5>1. CASE Transfer(c)
          <6>1. SeekOK(c) /\ worker[c].at = "seeked"
            BY <5>1 DEF IInv, Transfer
          <6>2. ~Sequential => worker[c].sector = position
            BY <6>1 DEF SeekOK
          <6> QED BY <5>1, <6>2 DEF Transfer
        <5>2. CASE \E o \in 0 .. Sectors - 1 : BreadDevice(c, o)
          BY <5>2 DEF BreadDevice
        <5> QED BY <3>2, <5>1, <5>2
      <4> QED BY <1>0, <2>2, <4>1 DEF SeenInv, DeviceWhereAsked, Sequential
    <3> QED BY <2>7, <3>1, <3>2 DEF DeviceStep
  <2> QED BY <2>1, <2>4, <2>5, <2>6, <2>7
<1> QED BY <1>1, <1>2

\* As long as the consoles use handle 0 by BREAD and BWRITE only, each transfer meets the sector
\* it asked for, whatever the interleaving and whether or not the host has pread and pwrite
\* (bd_read, bd_write and the lock between the seek and the transfer). With LSEEK, READ and
\* WRITE on handle 0 two consoles share one position, and it does not hold.
THEOREM MetWhereAsked == Spec => [](~Sequential => DeviceWhereAsked)
<1>1. Init => SeenInv
  BY DEF Init, SeenInv, DeviceWhereAsked
<1>2. SeenInv => (~Sequential => DeviceWhereAsked)
  BY DEF SeenInv
<1> QED BY <1>1, <1>2, SeenStep, FilesInvariant, PTL DEF Spec

-----------------------------------------------------------------------------
(* A write lands whole.                                                     *)

Landed(c) ==
  /\ console'[c] # console[c] /\ ~console'[c].over
  /\ console'[c].answers = 1 /\ console'[c].sent = console'[c].total

FileWhole(i) ==
  \/ files'[i] = files[i] \/ files'[i] = <<>>
  \/ \E c \in Clients : LET con == console'[c] IN
       /\ Landed(c) /\ con.handle # 0 /\ handles[c][con.handle].ino = i
       /\ \E p \in 0 .. Len(files'[i]) : files'[i] = StoreAt(files[i], p, Whole(c, con))

DeviceWhole ==
  \/ device' = device
  \/ \E c \in Clients : LET con == console'[c] IN
       /\ Landed(c) /\ con.handle = 0
       /\ \E p \in 0 .. Sectors - 1 :
            /\ con.kind = "bwrite" => p = con.sector
            /\ device' = StoreOnDevice(p, Whole(c, con))

LEMMA LandedWrite ==
  ASSUME TypeOK, NEW c \in Clients, NEW con \in ConsoleStates, NEW ct \in ConsoleStates,
         console' = [console EXCEPT ![c] = ct], Later(c, con), ~con.over, con.sent = con.total,
         ct.job = con.job, ct.sent = con.sent, ct.total = con.total, ct.over = con.over, ct.answers = 1
  PROVE  Landed(c) /\ console'[c] = ct /\ Whole(c, ct) = Chunks(c, con.job, con.total)
<1>1. console'[c] = ct
  BY DEF TypeOK
<1>2. ct # console[c]
  BY DEF Later
<1> QED BY <1>1, <1>2 DEF Landed, Whole, Chunks

LEMMA FileLands ==
  ASSUME IInv, NEW c \in Clients, NEW w, NEW con, NEW nr, Incoming(c, w, con, nr), Later(c, con), w.handle >= 0, nr = w.received,
         NEW next, next = Longer(w, Chunk(c, con.job, nr)), ~(next.received < con.total), Honest, StoreInFile(c, next, con)
  PROVE  (\A i \in Inodes : FileWhole(i)) /\ DeviceWhole
<1> DEFINE file == handles[c][next.handle]
           data == IF next.is_block THEN Prefix(next.data, next.count) ELSE next.data
           at == IF file.mode \in {"ab", "a+b"} THEN Len(files[file.ino])
                   ELSE IF next.is_block THEN next.sector ELSE file.pos
<1>1. con \in ConsoleStates /\ con.answers = 0 /\ ~con.over /\ TypeOK
  BY DEF Incoming, IInv
<1>2. next \in Writes /\ next.handle = con.handle /\ next.handle # 0 /\ next.handle \in 1 .. MaxOpens /\ IsOpen(c, next.handle)
  <2>1. next \in Writes /\ next.handle = w.handle
    BY NextWrite
  <2>2. next.handle # 0 /\ IsOpen(c, next.handle)
    BY DEF StoreInFile
  <2>3. w.handle \in 0 .. MaxOpens /\ w.handle = con.handle
    BY DEF Incoming, Asked
  <2> QED BY <2>1, <2>2, <2>3, FilesAssumption
<1>3. file \in OpenFiles /\ data \in Seq(Data) /\ at \in Nat /\ files[file.ino] \in Seq(Data)
  BY <1>1, <1>2, FileOfWrite
<1>4. data = Chunks(c, con.job, con.total) /\ con.sent = con.total
  BY CompleteWrite
<1>5. /\ files' = [files EXCEPT ![file.ino] = StoreAt(files[file.ino], at, data)]
      /\ console' = [console EXCEPT ![c] = Answered(con)] /\ device' = device
  BY DEF StoreInFile, deviceVars
<1> HIDE DEF at, data, file
<1>6. at \in 0 .. Len(StoreAt(files[file.ino], at, data))
  BY <1>3, StoreAtProperties
<1>7. /\ Answered(con) \in ConsoleStates /\ Answered(con).answers = 1 /\ Answered(con).job = con.job
      /\ Answered(con).sent = con.sent /\ Answered(con).total = con.total /\ Answered(con).over = con.over
      /\ Answered(con).handle = con.handle
  BY <1>1, AnsweredConsole
<1>8. Landed(c) /\ console'[c] = Answered(con) /\ Whole(c, console'[c]) = data
  BY <1>1, <1>4, <1>5, <1>7, LandedWrite
<1>9. ASSUME NEW i \in Inodes PROVE FileWhole(i)
  <2>1. CASE i # file.ino
    BY <1>1, <1>5, <2>1 DEF FileWhole, TypeOK
  <2>2. CASE i = file.ino
    <3>1. files'[i] = StoreAt(files[i], at, data)
      BY <1>1, <1>5, <2>2 DEF TypeOK
    <3>2. at \in 0 .. Len(files'[i])
      BY <1>6, <2>2, <3>1
    <3>3. console'[c].handle # 0 /\ handles[c][console'[c].handle].ino = i
      BY <1>2, <1>7, <1>8, <2>2 DEF file
    <3>4. \E p \in 0 .. Len(files'[i]) : files'[i] = StoreAt(files[i], p, Whole(c, console'[c]))
      BY <1>8, <3>1, <3>2
    <3> QED BY <1>8, <3>3, <3>4 DEF FileWhole
  <2> QED BY <2>1, <2>2
<1> QED BY <1>5, <1>9 DEF DeviceWhole

\* The write goes to the device: at once, at the object's position or, for want of pwrite, later.
LEMMA DeviceLands ==
  ASSUME IInv, NEW c \in Clients, NEW w, NEW con, NEW nr, Incoming(c, w, con, nr), Later(c, con), w.handle >= 0, nr = w.received,
         NEW next, next = Longer(w, Chunk(c, con.job, nr)), ~(next.received < con.total), Honest,
         StoreOnBlockDevice(c, next, con) \/ StoreAtPosition(c, next, con)
  PROVE  (\A i \in Inodes : FileWhole(i)) /\ DeviceWhole
<1>1. con \in ConsoleStates /\ con.answers = 0 /\ ~con.over /\ TypeOK
  BY DEF Incoming, IInv
<1>2. next.handle = con.handle /\ next.sector = con.sector /\ (next.is_block <=> con.kind = "bwrite")
  BY NextWrite DEF Incoming, Current
<1>3. con.handle = 0 /\ con.sector \in 0 .. Sectors - 1
  BY <1>2 DEF StoreOnBlockDevice, StoreAtPosition, Incoming, Asked
<1>4. /\ next.data = Chunks(c, con.job, con.total) /\ con.sent = con.total
      /\ Prefix(next.data, next.count) = next.data
  BY CompleteWrite
<1>5. UNCHANGED files
  BY DEF StoreOnBlockDevice, StoreAtPosition, nameVars
<1>6. /\ Answered(con) \in ConsoleStates /\ Answered(con).answers = 1 /\ Answered(con).job = con.job
      /\ Answered(con).sent = con.sent /\ Answered(con).total = con.total /\ Answered(con).over = con.over
      /\ Answered(con).handle = con.handle /\ Answered(con).kind = con.kind /\ Answered(con).sector = con.sector
  BY <1>1, AnsweredConsole
<1>7. DeviceWhole
  <2>1. CASE StoreOnBlockDevice(c, next, con) /\ HAS_PREAD
    <3>1. device' = StoreOnDevice(con.sector, next.data) /\ console' = [console EXCEPT ![c] = Answered(con)]
      BY <1>2, <1>4, <2>1 DEF StoreOnBlockDevice
    <3>2. Landed(c) /\ console'[c] = Answered(con) /\ Whole(c, console'[c]) = next.data
      BY <1>1, <1>4, <1>6, <3>1, LandedWrite
    <3> QED BY <1>3, <1>6, <3>1, <3>2 DEF DeviceWhole
  <2>2. CASE StoreOnBlockDevice(c, next, con) /\ ~HAS_PREAD
    BY <2>2 DEF StoreOnBlockDevice, Seek, DeviceWhole
  <2>3. CASE StoreAtPosition(c, next, con)
    <3>1. next.data \in Seq(Data) /\ Len(next.data) \in Nat /\ position \in Nat /\ device \in [0 .. Sectors - 1 -> Data]
      BY <1>1, NextWrite, LenProperties DEF Writes, TypeOK
    <3>2. PICK ct : ct = [Answered(con) EXCEPT !.own = @ + Len(next.data)]
      OBVIOUS
    <3>3. Answered(con).own + Len(next.data) \in Nat
      BY <1>6, <3>1 DEF ConsoleStates
    <3>4. ct \in ConsoleStates /\ SameWrite(ct, Answered(con))
      BY <1>6, <3>2, <3>3, OwnConsole
    <3>5. device' = StoreOnDevice(position, next.data) /\ console' = [console EXCEPT ![c] = ct] /\ ~next.is_block
      BY <2>3, <3>2 DEF StoreAtPosition
    <3>6. Landed(c) /\ console'[c] = ct /\ Whole(c, console'[c]) = next.data
      <4>1. ct.job = con.job /\ ct.sent = con.sent /\ ct.total = con.total /\ ct.over = con.over /\ ct.answers = 1
        BY ONLY <1>6, <3>4 DEF SameWrite
      <4>2. Landed(c) /\ console'[c] = ct /\ Whole(c, ct) = Chunks(c, con.job, con.total)
        BY <1>1, <1>4, <3>4, <3>5, <4>1, LandedWrite
      <4> QED BY ONLY <1>4, <4>2
    <3>7. CASE position < Sectors
      <4>1. position \in 0 .. Sectors - 1
        BY <3>1, <3>7, FilesAssumption
      <4> QED BY <1>2, <1>3, <1>6, <3>4, <3>5, <3>6, <4>1 DEF DeviceWhole, SameWrite
    <3>8. CASE ~(position < Sectors)
      <4>1. position >= Sectors
        BY <3>1, <3>8, FilesAssumption
      <4> QED BY <3>1, <3>5, <4>1, StoreOnDeviceProperties DEF DeviceWhole
    <3> QED BY <3>7, <3>8
  <2> QED BY <2>1, <2>2, <2>3
<1> QED BY <1>5, <1>7 DEF FileWhole

LEMMA ChunkLands ==
  ASSUME IInv, NEW c \in Clients, NEW w, NEW con, NEW nr, Incoming(c, w, con, nr), Later(c, con),
         HandleWriteData(c, w, con, nr), Honest
  PROVE  (\A i \in Inodes : FileWhole(i)) /\ DeviceWhole
<1>1. CASE UNCHANGED <<nameVars, deviceVars>>
  BY <1>1 DEF nameVars, deviceVars, FileWhole, DeviceWhole
<1>2. CASE ~(UNCHANGED <<nameVars, deviceVars>>)
  <2>1. PICK next : next = Longer(w, Chunk(c, con.job, nr))
    OBVIOUS
  <2>2. /\ w.handle >= 0 /\ nr = w.received /\ ~(next.received < con.total)
        /\ StoreInFile(c, next, con) \/ StoreOnBlockDevice(c, next, con) \/ StoreAtPosition(c, next, con)
    BY <1>2, <2>1 DEF HandleWriteData, DropChunk, ChunkTooLong, TakeChunk, StoreFails, Longer
  <2> QED BY <2>1, <2>2, FileLands, DeviceLands
<1> QED BY <1>1, <1>2

LEMMA TransferLands ==
  ASSUME IInv, NEW c \in Clients, Transfer(c), Honest, ~Sequential \/ HAS_PREAD
  PROVE  (\A i \in Inodes : FileWhole(i)) /\ DeviceWhole
<1>1. TypeOK /\ WriteOK(c, write[c], console[c], worker[c]) /\ console[c] \in ConsoleStates /\ worker[c].at = "seeked"
  BY IdleClient DEF IInv, Transfer
<1>2. worker[c].data \in Seq(Data) /\ position \in Nat /\ device \in [0 .. Sectors - 1 -> Data]
  BY <1>1, SeekedWorker DEF TypeOK
<1>3. device' = StoreOnDevice(position, worker[c].data) /\ UNCHANGED files
  BY DEF Transfer, nameVars
<1>4. DeviceWhole
  <2>1. CASE worker[c].data = <<>>
    BY <1>2, <1>3, <2>1, StoreOnDeviceProperties DEF DeviceWhole
  <2>2. CASE worker[c].data # <<>>
    <3>1. Landing(c, worker[c], console[c])
      BY <1>1, <2>2 DEF WriteOK
    <3>2. position = console[c].sector
      <4>1. ~HAS_PREAD /\ (~Sequential => position = worker[c].sector)
        BY <1>1 DEF IInv, SeekOK
      <4> QED BY <3>1, <4>1 DEF Landing
    <3>3. console' = [console EXCEPT ![c] = Answered(console[c])]
      BY <2>2 DEF Transfer, Answered
    <3>4. console'[c] = Answered(console[c])
      BY <1>1, <3>3 DEF TypeOK
    <3>5. /\ Answered(console[c]).answers = 1 /\ Answered(console[c]).job = console[c].job
          /\ Answered(console[c]).sent = console[c].sent /\ Answered(console[c]).total = console[c].total
          /\ Answered(console[c]).over = console[c].over /\ Answered(console[c]).handle = console[c].handle
          /\ Answered(console[c]).kind = console[c].kind /\ Answered(console[c]).sector = console[c].sector
      BY <1>1, <3>1, AnsweredConsole DEF Landing
    <3>6. Landed(c)
      BY <3>1, <3>4, <3>5 DEF Landed, Landing
    <3>7. Whole(c, console'[c]) = worker[c].data
      BY <3>1, <3>4, <3>5 DEF Whole, Chunks, Landing
    <3>8. CASE position < Sectors
      <4>1. position \in 0 .. Sectors - 1
        BY <1>2, <3>8, FilesAssumption
      <4>2. console'[c].handle = 0 /\ console'[c].sector = position
        BY <3>1, <3>2, <3>4, <3>5 DEF Landing
      <4> QED BY <1>3, <3>6, <3>7, <4>1, <4>2 DEF DeviceWhole
    <3>9. CASE ~(position < Sectors)
      <4>1. position >= Sectors
        BY <1>2, <3>9, FilesAssumption
      <4> QED BY <1>2, <1>3, <4>1, StoreOnDeviceProperties DEF DeviceWhole
    <3> QED BY <3>8, <3>9
  <2> QED BY <2>1, <2>2
<1> QED BY <1>3, <1>4 DEF FileWhole

\* Opening a file empties it or leaves it as it is.
LEMMA OpenLands ==
  ASSUME IInv, NEW c \in Clients, OpenFile(c)
  PROVE  (\A i \in Inodes : FileWhole(i)) /\ DeviceWhole
<1>1. device' = device
  BY DEF OpenFile, deviceVars
<1>2. files \in [Inodes -> Seq(Data)]
  BY DEF IInv, TypeOK
<1>3. \A i \in Inodes : files'[i] = files[i] \/ files'[i] = <<>>
  BY <1>2 DEF OpenFile
<1> QED BY <1>1, <1>3 DEF FileWhole, DeviceWhole

LEMMA WholeStep ==
  ASSUME IInv, [Next]_vars, Honest, ~Sequential \/ HAS_PREAD
  PROVE  (\A i \in Inodes : FileWhole(i)) /\ DeviceWhole
<1>1. CASE UNCHANGED <<files, device>>
  BY <1>1 DEF FileWhole, DeviceWhole
<1>2. CASE UNCHANGED vars
  BY <1>1, <1>2 DEF vars, nameVars, deviceVars
<1>3. CASE Next
  <2>1. PICK c \in Clients : FileStep(c) \/ DeviceStep(c) \/ WriteReq(c) \/ SendChunk(c) \/ Restart(c)
    BY <1>3 DEF Next
  <2>2. CASE FileStep(c)
    <3>1. OpenFile(c) \/ UNCHANGED <<files, device>>
      BY <2>2 DEF FileStep, Remove, OpenChecks, OpenFails, Close, Read, Lseek, Bread, nameVars, deviceVars
    <3> QED BY <1>1, <3>1, OpenLands
  <2>3. CASE DeviceStep(c)
    <3>1. Transfer(c) \/ UNCHANGED <<files, device>>
      BY <2>3 DEF DeviceStep, ReadDevice, LseekDevice, BreadDevice, BreadSeek, Seek, nameVars
    <3> QED BY <1>1, <3>1, TransferLands
  <2>4. CASE WriteReq(c)
    <3>1. \/ UNCHANGED <<files, device>>
          \/ \E w, con, nr : Incoming(c, w, con, nr) /\ Later(c, con) /\ HandleWriteData(c, w, con, nr)
      BY <2>4, WriteReqCases DEF Refuse, nameVars, deviceVars
    <3> QED BY <1>1, <3>1, ChunkLands
  <2>5. CASE SendChunk(c)
    BY <2>5, SendChunkIncoming, ChunkLands
  <2>6. CASE Restart(c)
    BY <1>1, <2>6 DEF Restart, nameVars, deviceVars
  <2> QED BY <2>1, <2>2, <2>3, <2>4, <2>5, <2>6
<1> QED BY <1>2, <1>3

\* Whatever the interleaving of the sessions, files and device only change by a whole write, where
\* it was asked for, as it is answered. The hypothesis is needed: without pwrite another
\* console's LSEEK or READ on handle 0 moves the position between the seek and the transfer.
THEOREM WholeWrites ==
  ASSUME \A s \in Setups : ~({"sequential", "nopread"} \subseteq s)
  PROVE  Spec => WritesAreWhole
<1>1. IInv /\ [Next]_vars =>
        (Honest =>
           LET Lands(c) == /\ console'[c] # console[c] /\ ~console'[c].over
                           /\ console'[c].answers = 1 /\ console'[c].sent = console'[c].total
           IN  /\ \A i \in Inodes :
                    \/ files'[i] = files[i] \/ files'[i] = <<>>
                    \/ \E c \in Clients : LET con == console'[c] IN
                         /\ Lands(c) /\ con.handle # 0 /\ handles[c][con.handle].ino = i
                         /\ \E p \in 0 .. Len(files'[i]) : files'[i] = StoreAt(files[i], p, Whole(c, con))
               /\ \/ device' = device
                  \/ \E c \in Clients : LET con == console'[c] IN
                       /\ Lands(c) /\ con.handle = 0
                       /\ \E p \in 0 .. Sectors - 1 :
                            /\ con.kind = "bwrite" => p = con.sector
                            /\ device' = StoreOnDevice(p, Whole(c, con)))
  <2>1. IInv => ~Sequential \/ HAS_PREAD
    BY DEF IInv, TypeOK, Sequential, HAS_PREAD
  <2> SUFFICES ASSUME IInv, [Next]_vars, Honest PROVE (\A i \in Inodes : FileWhole(i)) /\ DeviceWhole
    BY DEF FileWhole, DeviceWhole, Landed
  <2> QED BY <2>1, WholeStep
<1> QED BY <1>1, FilesInvariant, PTL DEF Spec, WritesAreWhole

-----------------------------------------------------------------------------
(* What a share keeps.                                                      *)

\* An OPEN that was allowed, and whose mode still fits the file it will open.
OpenOK(c) ==
  worker[c].at = "opening" =>
    /\ ~(read_only /\ "WR" \in worker[c].flags)
    /\ worker[c].mode # "rb" => "WR" \in worker[c].flags
    /\ worker[c].mode \in {"wb", "w+b"} /\ "TRUNC" \notin worker[c].flags => dir[worker[c].path] = 0

KeepInv == \A c \in Clients : OpenOK(c)

\* With one console nothing happens between the checks of its OPEN and the opening.
LEMMA KeepStep ==
  ASSUME \A c, d \in Clients : c = d
  PROVE  IInv /\ KeepInv /\ [Next]_vars => KeepInv'
<1> SUFFICES ASSUME IInv, KeepInv, [Next]_vars, NEW c \in Clients PROVE OpenOK(c)'
  BY DEF KeepInv
<1>1. CASE UNCHANGED vars
  BY <1>1 DEF KeepInv, OpenOK, vars, nameVars, read_only
<1>2. CASE Next
  <2>1. FileStep(c) \/ DeviceStep(c) \/ WriteReq(c) \/ SendChunk(c) \/ Restart(c)
    BY <1>2 DEF Next
  <2>2. UNCHANGED setup /\ worker \in [Clients -> Workers] /\ Idle.at = "idle"
    BY <1>2 DEF Next, IInv, TypeOK, Idle
  <2>3. CASE worker'[c].at # "opening"
    BY <2>3 DEF OpenOK
  <2>4. CASE \E p \in Paths, f \in Flags : OpenChecks(c, p, f)
    <3>1. PICK p \in Paths, f \in Flags : OpenChecks(c, p, f)
      BY <2>4
    <3>2. worker'[c] = [at |-> "opening", path |-> p, flags |-> f, mode |-> flags_to_mode(f, dir[p] # 0)]
      BY <2>2, <3>1 DEF OpenChecks
    <3>3. ~(read_only /\ "WR" \in f) /\ dir' = dir
      BY <3>1 DEF OpenChecks, nameVars
    <3>4. /\ flags_to_mode(f, dir[p] # 0) # "rb" => "WR" \in f
          /\ flags_to_mode(f, dir[p] # 0) \in {"wb", "w+b"} /\ "TRUNC" \notin f => dir[p] = 0
      BY DEF flags_to_mode
    <3> QED BY <2>2, <3>2, <3>3, <3>4 DEF OpenOK, read_only
  <2>5. CASE worker'[c] = worker[c] \/ worker'[c].at # "opening"
    <3>1. CASE worker[c].at = "opening"
      <4>1. OpenFails(c) \/ OpenFile(c)
        BY <2>1, <2>2, <3>1 DEF FileStep, DeviceStep, Remove, OpenChecks, Close, Read, Lseek, Bread, ReadDevice, Transfer, LseekDevice,
             BreadDevice, BreadSeek, WriteReq, SendChunk, Restart
      <4>2. worker'[c] = Idle
        BY <2>2, <4>1 DEF OpenFails, OpenFile
      <4> QED BY <2>2, <2>3, <4>2
    <3> QED BY <2>3, <2>5, <3>1
  <2>6. CASE FileStep(c)
    <3>1. \/ \E p \in Paths, f \in Flags : OpenChecks(c, p, f)
          \/ worker' = worker \/ worker' = [worker EXCEPT ![c] = Idle]
      BY <2>6 DEF FileStep, Remove, OpenFails, OpenFile, Close, Read, Lseek, Bread
    <3> QED BY <2>2, <2>4, <2>5, <3>1
  <2>7. CASE DeviceStep(c)
    <3>1. \/ worker' = worker \/ worker' = [worker EXCEPT ![c] = Idle]
          \/ \E o \in 0 .. Sectors - 1 : worker' = [worker EXCEPT ![c] = [at |-> "seeked", sector |-> o, data |-> <<>>]]
      BY <2>7 DEF DeviceStep, ReadDevice, Transfer, LseekDevice, BreadDevice, BreadSeek, Seek
    <3> QED BY <2>2, <2>5, <3>1
  <2>8. ASSUME NEW w, NEW con, NEW nr, HandleWriteData(c, w, con, nr) PROVE worker'[c] = worker[c] \/ worker'[c].at # "opening"
    <3>1. \/ worker' = worker
          \/ \E o, d : worker' = [worker EXCEPT ![c] = [at |-> "seeked", sector |-> o, data |-> d]]
      BY <2>8 DEF HandleWriteData, DropChunk, ChunkTooLong, TakeChunk, StoreInFile, StoreOnBlockDevice, StoreAtPosition, StoreFails, Seek
    <3> QED BY <2>2, <3>1
  <2>9. CASE WriteReq(c)
    <3>1. worker' = worker \/ \E w, con, nr : HandleWriteData(c, w, con, nr)
      BY <2>9, WriteReqCases DEF Refuse
    <3> QED BY <2>5, <2>8, <3>1
  <2>10. CASE SendChunk(c)
    <3>1. \E w, con, nr : HandleWriteData(c, w, con, nr)
      BY <2>10, SendChunkIncoming
    <3> QED BY <2>5, <2>8, <3>1
  <2>11. CASE Restart(c)
    BY <2>5, <2>11 DEF Restart
  <2> QED BY <2>1, <2>6, <2>7, <2>9, <2>10, <2>11
<1> QED BY <1>1, <1>2

\* The step throws away no contents that were not asked to be, and changes nothing that is read-only.
Kept ==
  /\ read_only => UNCHANGED <<folder, dir, files, device>>
  /\ \A i \in Inodes :
       (files'[i] = <<>> /\ files[i] # <<>> /\ \E p \in Paths : dir[p] = i)
         => \E c \in Clients : worker[c].at = "opening" /\ "TRUNC" \in worker[c].flags

LEMMA ChunkKeeps ==
  ASSUME IInv, NEW c \in Clients, NEW w, NEW con, NEW nr, Incoming(c, w, con, nr), HandleWriteData(c, w, con, nr)
  PROVE  Kept
<1>1. CASE UNCHANGED <<nameVars, device>>
  BY <1>1 DEF nameVars, Kept
<1>2. CASE ~(UNCHANGED <<nameVars, device>>)
  <2>1. PICK next : next = Longer(w, Chunk(c, con.job, nr))
    OBVIOUS
  <2>2. /\ w.handle >= 0 /\ nr = w.received
        /\ StoreInFile(c, next, con) \/ StoreOnBlockDevice(c, next, con) \/ StoreAtPosition(c, next, con)
    BY <1>2, <2>1 DEF HandleWriteData, DropChunk, ChunkTooLong, TakeChunk, StoreFails, Longer, deviceVars
  <2>3. ~read_only
    BY <2>2 DEF Incoming
  <2>4. CASE UNCHANGED files
    BY <2>3, <2>4 DEF Kept
  <2>5. CASE StoreInFile(c, next, con)
    <3> DEFINE file == handles[c][next.handle]
               data == IF next.is_block THEN Prefix(next.data, next.count) ELSE next.data
               at == IF file.mode \in {"ab", "a+b"} THEN Len(files[file.ino])
                       ELSE IF next.is_block THEN next.sector ELSE file.pos
    <3>1. next \in Writes /\ next.handle \in 1 .. MaxOpens /\ IsOpen(c, next.handle) /\ TypeOK
      <4>1. next \in Writes /\ next.handle = w.handle
        BY <2>1, <2>2, NextWrite
      <4>2. next.handle # 0 /\ IsOpen(c, next.handle)
        BY <2>5 DEF StoreInFile
      <4>3. w.handle \in 0 .. MaxOpens
        BY <2>2 DEF Incoming, Asked
      <4> QED BY <4>1, <4>2, <4>3, FilesAssumption DEF IInv
    <3>2. file \in OpenFiles /\ data \in Seq(Data) /\ at \in Nat /\ files[file.ino] \in Seq(Data)
      BY <3>1, FileOfWrite
    <3>3. files' = [files EXCEPT ![file.ino] = StoreAt(files[file.ino], at, data)]
      BY <2>5 DEF StoreInFile
    <3> HIDE DEF at, data, file
    <3>4. /\ StoreAt(files[file.ino], at, data) \in Seq(Data)
          /\ Len(StoreAt(files[file.ino], at, data)) >= Len(files[file.ino])
      BY <3>2, StoreAtProperties
    <3>5. files[file.ino] # <<>> => StoreAt(files[file.ino], at, data) # <<>>
      <4>1. files[file.ino] # <<>> => Len(files[file.ino]) >= 1
        BY <3>2, EmptySeq, LenProperties
      <4>2. StoreAt(files[file.ino], at, data) = <<>> => Len(StoreAt(files[file.ino], at, data)) = 0
        BY EmptySeq
      <4> QED BY <3>2, <3>4, <4>1, <4>2, LenProperties
    <3>6. \A i \in Inodes : files[i] # <<>> => files'[i] # <<>>
      BY <3>1, <3>3, <3>5 DEF TypeOK
    <3> QED BY <2>3, <3>6 DEF Kept
  <2> QED BY <2>2, <2>4, <2>5 DEF StoreOnBlockDevice, StoreAtPosition, nameVars
<1> QED BY <1>1, <1>2

LEMMA OpenKeeps ==
  ASSUME \A f \in Flags : "CREAT" \in f => "WR" \in f,
         IInv, KeepInv, NEW c \in Clients, OpenFile(c) \/ OpenFails(c)
  PROVE  Kept
<1>1. TypeOK /\ OpenOK(c) /\ worker[c].at = "opening" /\ device' = device
  BY DEF IInv, KeepInv, OpenFile, OpenFails, deviceVars
<1>2. worker[c].path \in Paths /\ worker[c].mode \in Modes /\ worker[c].flags \in Flags
  BY <1>1, OpeningWorker
<1>3. folder' = (folder \/ "CREAT" \in worker[c].flags)
  BY DEF OpenFile, OpenFails
<1>4. read_only => "WR" \notin worker[c].flags /\ worker[c].mode = "rb"
  BY <1>1 DEF OpenOK
<1>5. read_only => folder' = folder
  BY <1>1, <1>2, <1>3, <1>4 DEF TypeOK
<1>6. CASE OpenFails(c)
  <2>1. UNCHANGED <<dir, files>>
    BY <1>6 DEF OpenFails
  <2> QED BY <1>1, <1>5, <2>1 DEF Kept
<1>7. CASE OpenFile(c)
  <2>1. PICK i \in Inodes :
          /\ IF dir[worker[c].path] = 0 THEN i \in Unused ELSE i = dir[worker[c].path]
          /\ dir' = [dir EXCEPT ![worker[c].path] = i]
          /\ files' = IF dir[worker[c].path] = 0 \/ worker[c].mode \in {"wb", "w+b"} THEN [files EXCEPT ![i] = <<>>] ELSE files
    BY <1>7 DEF OpenFile
  <2>2. dir[worker[c].path] = 0 => worker[c].mode \notin {"rb", "r+b"}
    BY <1>7 DEF OpenFile
  <2>3. read_only => UNCHANGED <<dir, files>>
    <3> SUFFICES ASSUME read_only PROVE UNCHANGED <<dir, files>>
      OBVIOUS
    <3>1. dir[worker[c].path] # 0 /\ worker[c].mode = "rb"
      BY <1>4, <2>2
    <3>2. dir' = dir
      BY <1>1, <1>2, <2>1, <3>1 DEF TypeOK
    <3>3. files' = files
      BY <2>1, <3>1
    <3> QED BY <3>2, <3>3
  <2>4. ASSUME NEW j \in Inodes, files'[j] = <<>>, files[j] # <<>>, NEW p \in Paths, dir[p] = j
        PROVE  worker[c].at = "opening" /\ "TRUNC" \in worker[c].flags
    <3>1. files' # files /\ j = i
      BY <1>1, <2>1, <2>4 DEF TypeOK
    <3>2. dir[worker[c].path] # 0
      BY <2>1, <2>4, <3>1 DEF Unused
    <3>3. worker[c].mode \in {"wb", "w+b"}
      BY <2>1, <3>1, <3>2
    <3> QED BY <1>1, <3>2, <3>3 DEF OpenOK
  <2> QED BY <1>1, <1>5, <2>3, <2>4 DEF Kept
<1> QED BY <1>6, <1>7

\* What a served file holds is thrown away only by an OPEN with O_TRUNC, and a read-only share
\* does not change at all (_handle_open, _flags_to_mode, _handle_write_req). For one console: two
\* OPENs of a missing file race, and the later one empties what the earlier one wrote. And for
\* OPENs that ask to create only what they will write: another one makes the missing folder
\* before it fails, on a read-only share too.
THEOREM NothingLost ==
  ASSUME \A c, d \in Clients : c = d, \A f \in Flags : "CREAT" \in f => "WR" \in f
  PROVE  Spec => FilesKept
<1>1. Init => KeepInv
  BY DEF Init, KeepInv, OpenOK, Idle
<1>2. IInv /\ KeepInv /\ [Next]_vars =>
        /\ read_only => UNCHANGED <<folder, dir, files, device>>
        /\ \A i \in Inodes :
             (files'[i] = <<>> /\ files[i] # <<>> /\ \E p \in Paths : dir[p] = i)
               => \E c \in Clients : worker[c].at = "opening" /\ "TRUNC" \in worker[c].flags
  <2> SUFFICES ASSUME IInv, KeepInv, [Next]_vars PROVE Kept
    BY DEF Kept
  <2>1. CASE UNCHANGED <<nameVars, device>>
    BY <2>1 DEF nameVars, Kept
  <2>2. CASE UNCHANGED vars
    BY <2>1, <2>2 DEF vars, deviceVars
  <2>3. CASE Next
    <3>1. PICK c \in Clients : FileStep(c) \/ DeviceStep(c) \/ WriteReq(c) \/ SendChunk(c) \/ Restart(c)
      BY <2>3 DEF Next
    <3>2. CASE FileStep(c)
      <4>1. CASE OpenFile(c) \/ OpenFails(c)
        BY <4>1, OpenKeeps
      <4>2. CASE \E p \in Paths : Remove(c, p)
        BY <4>2 DEF Remove, Kept, deviceVars
      <4>3. CASE UNCHANGED <<nameVars, deviceVars>>
        BY <2>1, <4>3 DEF deviceVars
      <4> QED BY <3>2, <4>1, <4>2, <4>3 DEF FileStep, OpenChecks, Close, Read, Lseek, Bread
    <3>3. CASE DeviceStep(c)
      <4>1. CASE Transfer(c)
        <5>1. WriteOK(c, write[c], console[c], worker[c]) /\ worker[c].at = "seeked" /\ TypeOK /\ UNCHANGED nameVars
          BY <4>1 DEF IInv, Transfer
        <5>2. worker[c].data \in Seq(Data) /\ position \in Nat /\ device \in [0 .. Sectors - 1 -> Data]
          BY <5>1, SeekedWorker DEF TypeOK
        <5>3. device' = StoreOnDevice(position, worker[c].data)
          BY <4>1 DEF Transfer
        <5>4. worker[c].data = <<>> => device' = device
          BY <5>2, <5>3, StoreOnDeviceProperties
        <5>5. worker[c].data # <<>> => ~read_only
          BY <5>1 DEF WriteOK
        <5> QED BY <5>1, <5>4, <5>5 DEF Kept, nameVars
      <4> QED BY <2>1, <3>3, <4>1 DEF DeviceStep, ReadDevice, LseekDevice, BreadDevice, BreadSeek, Seek
    <3>4. CASE WriteReq(c)
      <4>1. \/ UNCHANGED <<nameVars, device>>
            \/ \E w, con, nr : Incoming(c, w, con, nr) /\ HandleWriteData(c, w, con, nr)
        BY <3>4, WriteReqCases DEF Refuse, deviceVars
      <4> QED BY <2>1, <4>1, ChunkKeeps
    <3>5. CASE SendChunk(c)
      BY <3>5, SendChunkIncoming, ChunkKeeps
    <3>6. CASE Restart(c)
      BY <2>1, <3>6 DEF Restart, deviceVars
    <3> QED BY <3>1, <3>2, <3>3, <3>4, <3>5, <3>6
  <2> QED BY <2>2, <2>3
<1> QED BY <1>1, <1>2, KeepStep, FilesInvariant, PTL DEF Spec, FilesKept

=============================================================================
