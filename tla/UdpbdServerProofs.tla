-------------------------- MODULE UdpbdServerProofs --------------------------
(***************************************************************************)
(* Proofs about UdpbdServer, for every number of consoles, device size,     *)
(* command length and datagram size.                                        *)
(***************************************************************************)
EXTENDS UdpbdServer, SequenceTheorems, TLAPS

Messages == Commands \cup Pieces

\* The inductive invariant: the types, and the alignment of the write in progress.
IInv == TypeOK /\ WriteAligned

\* The server's part of TypeOK.
ServerOK ==
  /\ write_left \in Nat /\ pos \in Nat
  /\ write_owner \in [addr : Peers, cmdid : Nat]
  /\ accepted \in [addr : Peers, cmd : Nat, start : Nat, count : Nat]
  /\ disk \in [Addresses -> [addr : Peers, cmd : Nat, idx : Nat]]
  /\ answers \subseteq [addr : Clients, cmd : Nat, result : {0, -1}]

\* Where a step may change the device.
Confined ==
  \A a \in Addresses : disk'[a] # disk[a] =>
     accepted.start <= a /\ a < accepted.start + accepted.count

-----------------------------------------------------------------------------
LEMMA InitIInv == Init => IInv
<1> SUFFICES ASSUME Init PROVE IInv
  OBVIOUS
<1>1. disk \in [Addresses -> [addr : Peers, cmd : Nat, idx : Nat]]
  BY DEF Init, Blank, Peers
<1>2. chan \in [Clients -> Seq(Commands \cup Pieces)]
  BY DEF Init
<1>3. client \in [Clients -> [cmd : Nat, count : Nat, sent : Nat]]
  BY DEF Init
<1>4. /\ write_owner \in [addr : Peers, cmdid : Nat]
      /\ accepted \in [addr : Peers, cmd : Nat, start : Nat, count : Nat]
  BY DEF Init, Peers
<1> QED BY <1>1, <1>2, <1>3, <1>4 DEF Init, IInv, TypeOK, WriteAligned

\* Storing n blocks, no more than are left, touches the region only.
LEMMA StoreOK ==
  ASSUME ServerOK, WriteAligned, NEW m \in Pieces, NEW n \in Nat, n <= write_left,
         write_left > 0, Store(m, n)
  PROVE  /\ Confined /\ pos' = pos + n
         /\ disk' \in [Addresses -> [addr : Peers, cmd : Nat, idx : Nat]]
<1>1. pos \in Nat /\ write_left \in Nat /\ accepted.start \in Nat /\ accepted.count \in Nat
  BY DEF ServerOK
<1>2. accepted.start <= pos /\ pos + write_left <= accepted.start + accepted.count
  BY DEF WriteAligned
<1>3. pos' = pos + n
  BY DEF Store
<1>4. Addresses \subseteq Nat
  BY UdpbdAssumption DEF UdpbdAssumption, Addresses
<1>5. ASSUME NEW a \in Addresses, pos <= a, a < pos + n
      PROVE  Block(m, a - pos) \in [addr : Peers, cmd : Nat, idx : Nat]
  <2>1. m.addr \in Peers /\ m.cmd \in Nat /\ m.first \in Nat
    BY DEF Pieces, Peers
  <2>2. m.first + (a - pos) \in Nat
    BY <1>1, <1>4, <1>5, <2>1
  <2> QED BY <2>1, <2>2 DEF Block
<1>6. disk' \in [Addresses -> [addr : Peers, cmd : Nat, idx : Nat]]
  BY <1>5 DEF Store, ServerOK
<1>7. ASSUME NEW a \in Addresses, disk'[a] # disk[a]
      PROVE  accepted.start <= a /\ a < accepted.start + accepted.count
  <2>1. pos <= a /\ a < pos + n
    BY <1>7 DEF Store
  <2> QED BY <1>1, <1>2, <1>4, <2>1
<1> QED BY <1>3, <1>6, <1>7 DEF Confined

\* A handler keeps the server's part of the invariant and changes only blocks
\* of the write in progress.
LEMMA HandleOK ==
  ASSUME ServerOK, WriteAligned, NEW m \in Messages, Handle(m)
  PROVE  ServerOK' /\ WriteAligned' /\ Confined
<1>0. /\ m.kind \in {"info", "read", "write"} => m \in Commands
      /\ m.kind = "rdma" => m \in Pieces
      /\ m.addr \in Clients /\ m.cmd \in Nat /\ m.cmdid \in Nat
  BY DEF Messages, Commands, Pieces
<1>1. Owner(m) \in [addr : Peers, cmdid : Nat]
  BY <1>0 DEF Owner, Peers
<1>2. ASSUME NEW r \in {0, -1}, Answer(m, r)
      PROVE  answers' \subseteq [addr : Clients, cmd : Nat, result : {0, -1}]
  BY <1>0, <1>2 DEF Answer, ServerOK
<1>3. CASE HandleInfo(m)
  BY <1>3 DEF HandleInfo, ServerOK, WriteAligned, Confined, device
<1>4. CASE HandleRead(m)
  <2>1. m.start \in Nat /\ m.count \in Nat
    BY <1>0, <1>4 DEF HandleRead, Commands
  <2>2. pos' \in Nat
    BY <1>4, <2>1 DEF HandleRead
  <2> QED BY <1>4, <2>2 DEF HandleRead, ServerOK, WriteAligned, Confined
<1>5. CASE HandleReadRefused(m)
  BY <1>5 DEF HandleReadRefused, ServerOK, WriteAligned, Confined, device
<1>6. CASE HandleWrite(m)
  <2>1. m.start \in Nat /\ m.count \in Nat
    BY <1>0, <1>6 DEF HandleWrite, Commands
  <2>2. accepted' \in [addr : Peers, cmd : Nat, start : Nat, count : Nat]
    BY <1>0, <1>6, <2>1 DEF HandleWrite, Peers
  <2>3. ServerOK'
    BY <1>1, <1>6, <2>1, <2>2 DEF HandleWrite, ServerOK
  <2>4. WriteAligned' /\ Confined
    BY <1>6, <2>1 DEF HandleWrite, WriteAligned, Confined
  <2> QED BY <2>3, <2>4
<1>7. CASE HandleWriteRefused(m)
  <2>1. m.start \in Nat
    BY <1>0, <1>7 DEF HandleWriteRefused, Commands
  <2>2. answers' \subseteq [addr : Clients, cmd : Nat, result : {0, -1}]
    BY <1>2, <1>7 DEF HandleWriteRefused
  <2> QED BY <1>1, <1>7, <2>1, <2>2 DEF HandleWriteRefused, ServerOK, WriteAligned, Confined
<1>8. CASE DropWriteRdma(m)
  BY <1>8 DEF DropWriteRdma, ServerOK, WriteAligned, Confined, device
<1>9. ASSUME Wanted(m)
      PROVE  /\ m \in Pieces /\ write_left > 0 /\ write_left \in Nat
             /\ WriteSize(m) \in Nat /\ WriteSize(m) <= write_left
  <2>1. m \in Pieces /\ write_left > 0 /\ write_left \in Nat
    BY <1>0, <1>9 DEF Wanted, ServerOK
  <2> QED BY <2>1 DEF WriteSize, Least, Pieces
<1>10. ASSUME Wanted(m), Advance(m)
       PROVE  /\ write_left' = write_left - WriteSize(m) /\ write_left' \in Nat
              /\ answers' \subseteq [addr : Clients, cmd : Nat, result : {0, -1}]
  <2>1. write_left' = write_left - WriteSize(m)
    BY <1>10 DEF Advance
  <2>2. answers' = answers \/ Answer(m, 0) \/ Answer(m, -1)
    BY <1>10 DEF Advance
  <2>3. answers \subseteq [addr : Clients, cmd : Nat, result : {0, -1}]
    BY DEF ServerOK
  <2> QED BY <1>2, <1>9, <1>10, <2>1, <2>2, <2>3
\* A piece of which n blocks are stored, no more than the write counts off.
<1>11. ASSUME Wanted(m), NEW n \in Nat, n <= WriteSize(m), Store(m, n), Advance(m),
              UNCHANGED <<write_owner, accepted>>
       PROVE  ServerOK' /\ WriteAligned' /\ Confined
  <2>1. n <= write_left
    BY <1>9, <1>11
  <2>2. /\ Confined /\ pos' = pos + n
        /\ disk' \in [Addresses -> [addr : Peers, cmd : Nat, idx : Nat]]
    BY <1>9, <1>11, <2>1, StoreOK
  <2>3. pos \in Nat /\ accepted.start \in Nat /\ accepted.count \in Nat
    BY DEF ServerOK
  <2>4. ServerOK'
    BY <1>10, <1>11, <2>2, <2>3 DEF ServerOK
  <2>5. WriteAligned'
    BY <1>9, <1>10, <1>11, <2>2, <2>3 DEF WriteAligned
  <2> QED BY <2>2, <2>4, <2>5
<1>12. CASE HandleWriteRdma(m)
  <2>1. Wanted(m) /\ Store(m, WriteSize(m)) /\ Advance(m) /\ UNCHANGED <<write_owner, accepted>>
    BY <1>12 DEF HandleWriteRdma
  <2> QED BY <1>9, <1>11, <2>1
<1>13. CASE HandleWriteRdmaShort(m)
  <2>1. Wanted(m) /\ Advance(m) /\ UNCHANGED <<write_owner, accepted>>
    BY <1>13 DEF HandleWriteRdmaShort
  <2>2. PICK n \in 1 .. WriteSize(m) - 1 : Store(m, n)
    BY <1>13 DEF HandleWriteRdmaShort
  <2>3. n \in Nat /\ n <= WriteSize(m)
    BY <1>9, <2>1
  <2> QED BY <1>11, <2>1, <2>2, <2>3
<1>14. CASE HandleWriteRdmaReadOnly(m)
  <2>1. Wanted(m) /\ Advance(m) /\ UNCHANGED <<write_owner, pos, disk, accepted>>
    BY <1>14 DEF HandleWriteRdmaReadOnly, device
  <2>2. ServerOK'
    BY <1>10, <2>1 DEF ServerOK
  <2>3. pos \in Nat /\ accepted.start \in Nat /\ accepted.count \in Nat
    BY DEF ServerOK
  <2>4. WriteAligned'
    BY <1>9, <1>10, <2>1, <2>3 DEF WriteAligned
  <2> QED BY <2>1, <2>2, <2>4 DEF Confined
<1>15. CASE HandleWriteRdmaFails(m)
  <2>1. Wanted(m) /\ write_left' = 0 /\ Answer(m, -1) /\ UNCHANGED <<write_owner, accepted>>
    BY <1>15 DEF HandleWriteRdmaFails
  <2>2. PICK n \in 0 .. (IF ReadOnly THEN 0 ELSE WriteSize(m)) : Store(m, n)
    BY <1>15 DEF HandleWriteRdmaFails
  <2>3. n \in Nat /\ n <= write_left
    BY <1>9, <2>1, UdpbdAssumption DEF UdpbdAssumption
  <2>4. /\ Confined /\ pos' = pos + n
        /\ disk' \in [Addresses -> [addr : Peers, cmd : Nat, idx : Nat]]
    BY <1>9, <2>1, <2>2, <2>3, StoreOK
  <2>5. answers' \subseteq [addr : Clients, cmd : Nat, result : {0, -1}]
    BY <1>2, <2>1
  <2>6. ServerOK'
    BY <2>1, <2>3, <2>4, <2>5 DEF ServerOK
  <2> QED BY <2>1, <2>4, <2>6 DEF WriteAligned
<1> QED BY <1>3, <1>4, <1>5, <1>6, <1>7, <1>8, <1>12, <1>13, <1>14, <1>15 DEF Handle

\* Every step keeps the invariant and stays inside the region.
LEMMA StepIInv ==
  ASSUME IInv, [Next]_vars
  PROVE  IInv' /\ Confined
<1>0. /\ ServerOK /\ WriteAligned
      /\ client \in [Clients -> [cmd : Nat, count : Nat, sent : Nat]]
      /\ chan \in [Clients -> Seq(Messages)] /\ bd \in Devices
  BY DEF IInv, TypeOK, ServerOK, Messages
<1>1. ASSUME NEW c \in Clients, Serve(c) PROVE IInv' /\ Confined
  <2>1. Head(chan[c]) \in Messages /\ Tail(chan[c]) \in Seq(Messages)
    BY <1>0, <1>1 DEF Serve
  <2>2. ServerOK' /\ WriteAligned' /\ Confined
    BY <1>0, <1>1, <2>1, HandleOK DEF Serve
  <2>3. chan' \in [Clients -> Seq(Messages)]
    BY <1>0, <1>1, <2>1 DEF Serve
  <2> QED BY <1>0, <1>1, <2>2, <2>3 DEF Serve, IInv, TypeOK, ServerOK, Messages
<1>2. ASSUME UNCHANGED server, chan' \in [Clients -> Seq(Messages)],
             client' \in [Clients -> [cmd : Nat, count : Nat, sent : Nat]]
      PROVE  IInv' /\ Confined
  BY <1>0, <1>2 DEF server, IInv, TypeOK, ServerOK, WriteAligned, Confined, Messages
<1>3. ASSUME NEW c \in Clients, NEW m \in Messages, Send(c, m)
      PROVE  chan' \in [Clients -> Seq(Messages)]
  BY <1>0, <1>3 DEF Send
<1>4. ASSUME NEW k \in Nat PROVE k % CmdIds \in Nat
  BY <1>4, UdpbdAssumption DEF UdpbdAssumption
<1>5. ASSUME NEW c \in Clients, NewCommand(c) PROVE IInv' /\ Confined
  <2> DEFINE n == client[c].cmd + 1
  <2>1. PICK kind \in {"info", "read", "write"}, start \in Starts, count \in Counts :
          /\ Send(c, [kind |-> kind, addr |-> c, cmd |-> n, cmdid |-> n % CmdIds,
                      start |-> start, count |-> count])
          /\ client' = [client EXCEPT ![c] =
               [cmd |-> n, count |-> IF kind = "write" THEN count ELSE 0, sent |-> 0]]
    BY <1>5 DEF NewCommand
  <2>2. n \in Nat /\ n % CmdIds \in Nat /\ start \in Nat /\ count \in Nat
    <3>1. n \in Nat
      BY <1>0
    <3>2. n % CmdIds \in Nat
      BY <1>4, <3>1
    <3>3. start \in Nat /\ count \in Nat
      BY <2>1, UdpbdAssumption DEF UdpbdAssumption
    <3> QED BY <3>1, <3>2, <3>3
  <2> HIDE DEF n
  <2>3. [kind |-> kind, addr |-> c, cmd |-> n, cmdid |-> n % CmdIds,
         start |-> start, count |-> count] \in Messages
    BY <2>2 DEF Messages, Commands
  <2>4. chan' \in [Clients -> Seq(Messages)]
    BY <1>3, <2>1, <2>3
  <2>5. client' \in [Clients -> [cmd : Nat, count : Nat, sent : Nat]]
    BY <1>0, <2>1, <2>2
  <2> QED BY <1>2, <1>5, <2>4, <2>5 DEF NewCommand
<1>6. ASSUME NEW c \in Clients, SendRdma(c) PROVE IInv' /\ Confined
  <2>1. PICK truncated \in BOOLEAN :
          Send(c, [kind |-> "rdma", addr |-> c, cmd |-> client[c].cmd,
                   cmdid |-> client[c].cmd % CmdIds, first |-> client[c].sent,
                   units |-> PacketUnits, truncated |-> truncated])
    BY <1>6 DEF SendRdma
  <2>2. client[c].cmd \in Nat /\ client[c].sent \in Nat /\ PacketUnits \in Nat
    BY <1>0, UdpbdAssumption DEF UdpbdAssumption
  <2>3. client[c].cmd % CmdIds \in Nat
    BY <1>4, <2>2
  <2>4. [kind |-> "rdma", addr |-> c, cmd |-> client[c].cmd,
         cmdid |-> client[c].cmd % CmdIds, first |-> client[c].sent,
         units |-> PacketUnits, truncated |-> truncated] \in Messages
    BY <2>2, <2>3 DEF Messages, Pieces
  <2>5. chan' \in [Clients -> Seq(Messages)]
    BY <1>3, <2>1, <2>4
  <2>6. client' \in [Clients -> [cmd : Nat, count : Nat, sent : Nat]]
    BY <1>0, <1>6, <2>2 DEF SendRdma
  <2> QED BY <1>2, <1>6, <2>5, <2>6 DEF SendRdma
<1>7. ASSUME NEW c \in Clients, Lose(c) PROVE IInv' /\ Confined
  <2>1. Tail(chan[c]) \in Seq(Messages)
    BY <1>0, <1>7 DEF Lose
  <2>2. chan' \in [Clients -> Seq(Messages)]
    BY <1>0, <1>7, <2>1 DEF Lose
  <2> QED BY <1>0, <1>2, <1>7, <2>2 DEF Lose
<1>8. ASSUME UNCHANGED vars PROVE IInv' /\ Confined
  BY <1>0, <1>2, <1>8 DEF vars, server
<1> QED BY <1>1, <1>5, <1>6, <1>7, <1>8 DEF Next

\* Types and alignment hold in every reachable state.
THEOREM Invariance == Spec => []IInv
<1>1. IInv /\ [Next]_vars => IInv'
  BY StepIInv
<1> QED BY InitIInv, <1>1, PTL DEF Spec

\* The amount left never goes negative and every datagram keeps the types.
THEOREM TypeCorrect == Spec => []TypeOK
<1>1. IInv => TypeOK
  BY DEF IInv
<1> QED BY Invariance, <1>1, PTL

\* The reads, refusals and writes of other consoles never redirect a write.
THEOREM AlwaysAligned == Spec => []WriteAligned
<1>1. IInv => WriteAligned
  BY DEF IInv
<1> QED BY Invariance, <1>1, PTL

\* Only blocks of the region the accepted CMD_WRITE named are ever changed.
THEOREM AlwaysConfined == Spec => WritesConfined
<1>1. IInv /\ [Next]_vars =>
        [\A a \in Addresses : disk'[a] # disk[a] =>
            accepted.start <= a /\ a < accepted.start + accepted.count]_vars
  BY StepIInv DEF Confined
<1> QED BY Invariance, <1>1, PTL DEF Spec, WritesConfined
-----------------------------------------------------------------------------
(* What the consoles are told.                                              *)

\* The datagrams in a channel.
Waiting(ch) == {ch[j] : j \in 1 .. Len(ch)}

\* How far a console may have come: a whole number of datagrams.
Multiples == {PacketUnits * x : x \in Nat}

IsPiece(m) == m.kind = "rdma"

\* What the console c, at cl, has sent is of its own commands, up to the current one.
SentBy(c, cl, m) ==
  /\ m.addr = c /\ m.cmd >= 1 /\ m.cmd <= cl.cmd /\ m.cmdid = m.cmd % CmdIds
  /\ ~IsPiece(m) => /\ m.start + m.count <= MaxAddress + 1
                    /\ m.cmd = cl.cmd /\ m.kind = "write" => m.count = cl.count
  /\ IsPiece(m) => /\ m.units = PacketUnits /\ m.first \in Multiples
                   /\ m.cmd = cl.cmd => m.first + PacketUnits <= cl.sent /\ m.first < cl.count

\* m comes before n: commands in the order of their numbers, each before its pieces, and
\* the pieces of a command one after the other.
Before(m, n) ==
  /\ m.cmd <= n.cmd /\ (~IsPiece(n) => m.cmd < n.cmd)
  /\ IsPiece(m) /\ IsPiece(n) /\ m.cmd = n.cmd => m.first + PacketUnits <= n.first
  /\ m.kind = "write" /\ IsPiece(n) /\ m.cmd = n.cmd => n.first < m.count

\* The console c, at cl, and what it has on the way.
Queued(c, cl, ch) ==
  /\ cl.cmd <= MaxCmds /\ cl.sent \in Multiples /\ (cl.cmd = 0 => cl.count = 0)
  /\ \A m \in Waiting(ch) : SentBy(c, cl, m)
  /\ \A j, k \in 1 .. Len(ch) : j < k => Before(ch[j], ch[k])

\* How much of the write in progress the server has counted off.
Done == accepted.count - write_left

\* What is still to come of the write acc of the console at cl begins at n or later.
ToCome(acc, cl, ch, n) ==
  /\ \A m \in Waiting(ch) : IsPiece(m) /\ m.cmd = acc.cmd => m.first >= n /\ m.first < acc.count
  /\ cl.cmd = acc.cmd => cl.sent >= n /\ cl.count = acc.count

\* Everything counted off is on the device, and the position is behind it.
StoredSoFar ==
  /\ pos = accepted.start + Done
  /\ \A i \in 0 .. Done - 1 : disk[accepted.start + i] = [addr |-> accepted.addr, cmd |-> accepted.cmd, idx |-> i]

\* The console sends nothing older than cmd, and no such command again.
NothingOlder(cmd, ch) == \A m \in Waiting(ch) : cmd <= m.cmd /\ (~IsPiece(m) => cmd < m.cmd)

\* The write in progress: its owner sends nothing older, what comes is in order, and
\* either all of it is stored up to here or a piece was lost and it can not be completed.
InProgress ==
  write_left > 0 =>
    /\ accepted.addr \in Clients /\ accepted.cmd >= 1 /\ accepted.cmd <= client[accepted.addr].cmd
    /\ write_owner = [addr |-> accepted.addr, cmdid |-> accepted.cmd % CmdIds]
    /\ accepted.start + accepted.count <= MaxAddress + 1 /\ write_left <= accepted.count
    /\ Done \in Multiples
    /\ NothingOlder(accepted.cmd, chan[accepted.addr])
    /\ ToCome(accepted, client[accepted.addr], chan[accepted.addr], Done)
    /\ \/ ReadOnly \/ ShortWrites \/ StoredSoFar
       \/ ToCome(accepted, client[accepted.addr], chan[accepted.addr], Done + PacketUnits)

\* What was answered: commands before those on the way and the one in progress.
AnsweredEarlier ==
  \A r \in answers :
    /\ r.cmd <= client[r.addr].cmd
    /\ NothingOlder(r.cmd, chan[r.addr])
    /\ write_left > 0 /\ accepted.addr = r.addr => r.cmd < accepted.cmd

\* The invariant behind AnsweredTruly.
ToldInv ==
  /\ \A c \in Clients : Queued(c, client[c], chan[c])
  /\ InProgress /\ AnsweredEarlier /\ AnswersAgree

LEMMA MultiplesStep ==
  /\ 0 \in Multiples
  /\ \A a \in Multiples : a \in Nat /\ a + PacketUnits \in Multiples
  /\ \A a, b \in Multiples : a < b => a + PacketUnits <= b
<1>1. PacketUnits \in Nat /\ PacketUnits >= 1
  BY UdpbdAssumption
<1>2. 0 \in Multiples
  <2>1. PacketUnits * 0 = 0
    BY <1>1
  <2> QED BY <2>1 DEF Multiples
<1>3. ASSUME NEW a \in Multiples PROVE a \in Nat /\ a + PacketUnits \in Multiples
  <2>1. PICK x \in Nat : a = PacketUnits * x
    BY DEF Multiples
  <2>2. a + PacketUnits = PacketUnits * (x + 1) /\ a \in Nat
    BY <1>1, <2>1
  <2> QED BY <2>2 DEF Multiples
<1>4. ASSUME NEW a \in Multiples, NEW b \in Multiples, a < b PROVE a + PacketUnits <= b
  <2>1. PICK x \in Nat : a = PacketUnits * x
    BY DEF Multiples
  <2>2. PICK y \in Nat : b = PacketUnits * y
    BY DEF Multiples
  <2>3. x < y
    <3> SUFFICES ASSUME x >= y PROVE FALSE
      OBVIOUS
    <3>1. PICK e \in Nat : x = y + e
      <4>1. x - y \in Nat /\ x = y + (x - y)
        OBVIOUS
      <4> QED BY <4>1
    <3>2. a = b + PacketUnits * e /\ PacketUnits * e >= 0 /\ b \in Nat /\ PacketUnits * e \in Nat
      BY <1>1, <2>1, <2>2, <3>1
    <3> QED BY <1>4, <3>2
  <2>4. PICK e \in Nat : y = (x + 1) + e
    <3>1. y - (x + 1) \in Nat /\ y = (x + 1) + (y - (x + 1))
      BY <2>3
    <3> QED BY <3>1
  <2>5. b = a + PacketUnits + PacketUnits * e /\ PacketUnits * e \in Nat
    BY <1>1, <2>1, <2>2, <2>4
  <2> QED BY <1>1, <1>3, <2>5
<1> QED BY <1>2, <1>3, <1>4

\* The command ids of one console differ, as long as they have not come round.
LEMMA SameId ==
  ASSUME MaxCmds < CmdIds, NEW a \in Nat, NEW b \in Nat, a <= MaxCmds, b <= MaxCmds, a % CmdIds = b % CmdIds
  PROVE  a = b
<1>1. CmdIds \in Nat \ {0} /\ MaxCmds \in Nat
  BY UdpbdAssumption
<1>2. \A x \in Nat : x < CmdIds => x % CmdIds = x
  BY <1>1
<1> QED BY <1>1, <1>2

LEMMA WaitingTail ==
  ASSUME NEW ch \in Seq(Messages), ch # <<>>
  PROVE  /\ Head(ch) \in Waiting(ch) /\ Waiting(Tail(ch)) \subseteq Waiting(ch)
         /\ Len(Tail(ch)) = Len(ch) - 1 /\ Len(ch) \in Nat /\ Len(ch) >= 1
         /\ \A j \in 1 .. Len(Tail(ch)) : Tail(ch)[j] = ch[j + 1]
         /\ Head(ch) = ch[1]
<1>1. Len(ch) \in Nat /\ Len(ch) >= 1
  BY EmptySeq, LenProperties
<1>2. /\ Len(Tail(ch)) = Len(ch) - 1 /\ Head(ch) = ch[1]
      /\ \A j \in 1 .. Len(Tail(ch)) : Tail(ch)[j] = ch[j + 1]
  BY <1>1, HeadTailProperties
<1> QED BY <1>1, <1>2 DEF Waiting

LEMMA WaitingAppend ==
  ASSUME NEW ch \in Seq(Messages), NEW m \in Messages
  PROVE  Waiting(Append(ch, m)) = Waiting(ch) \cup {m}
<1>1. Len(ch) \in Nat
  BY LenProperties
<1>2. /\ Len(Append(ch, m)) = Len(ch) + 1 /\ Append(ch, m)[Len(ch) + 1] = m
      /\ \A j \in 1 .. Len(ch) : Append(ch, m)[j] = ch[j]
  BY AppendProperties
<1>3. 1 .. Len(ch) + 1 = (1 .. Len(ch)) \cup {Len(ch) + 1}
  BY <1>1
<1> QED BY <1>1, <1>2, <1>3 DEF Waiting

LEMMA WaitingMessages ==
  ASSUME NEW ch \in Seq(Messages) PROVE Waiting(ch) \subseteq Messages
BY ElementOfSeq DEF Waiting

\* Taking the first datagram off.
LEMMA QueuedTail ==
  ASSUME NEW c, NEW cl, NEW ch \in Seq(Messages), ch # <<>>, Queued(c, cl, ch)
  PROVE  Queued(c, cl, Tail(ch)) /\ SentBy(c, cl, Head(ch)) /\ \A n \in Waiting(Tail(ch)) : Before(Head(ch), n)
<1>1. /\ Head(ch) \in Waiting(ch) /\ Waiting(Tail(ch)) \subseteq Waiting(ch)
      /\ Len(Tail(ch)) = Len(ch) - 1 /\ Len(ch) \in Nat /\ Len(ch) >= 1
      /\ \A j \in 1 .. Len(Tail(ch)) : Tail(ch)[j] = ch[j + 1]
      /\ Head(ch) = ch[1]
  BY WaitingTail
<1>2. \A j, k \in 1 .. Len(ch) : j < k => Before(ch[j], ch[k])
  BY DEF Queued
<1>3. \A j, k \in 1 .. Len(Tail(ch)) : j < k => Before(Tail(ch)[j], Tail(ch)[k])
  BY <1>1, <1>2
<1>4. \A n \in Waiting(Tail(ch)) : Before(Head(ch), n)
  BY <1>1, <1>2 DEF Waiting
<1> QED BY <1>1, <1>3, <1>4 DEF Queued

\* Adding one, after which the console is at cl.
LEMMA QueuedAppend ==
  ASSUME NEW c, NEW cl, NEW ch \in Seq(Messages), NEW m \in Messages,
         cl.cmd <= MaxCmds, cl.sent \in Multiples, cl.cmd = 0 => cl.count = 0,
         \A n \in Waiting(ch) : SentBy(c, cl, n) /\ Before(n, m), SentBy(c, cl, m),
         \A j, k \in 1 .. Len(ch) : j < k => Before(ch[j], ch[k])
  PROVE  Queued(c, cl, Append(ch, m))
<1>1. Len(ch) \in Nat
  BY LenProperties
<1>2. /\ Len(Append(ch, m)) = Len(ch) + 1 /\ Append(ch, m)[Len(ch) + 1] = m
      /\ \A j \in 1 .. Len(ch) : Append(ch, m)[j] = ch[j]
  BY AppendProperties
<1>3. ASSUME NEW j \in 1 .. Len(Append(ch, m)), NEW k \in 1 .. Len(Append(ch, m)), j < k
      PROVE  Before(Append(ch, m)[j], Append(ch, m)[k])
  <2>1. j \in 1 .. Len(ch) /\ Append(ch, m)[j] = ch[j] /\ ch[j] \in Waiting(ch)
    BY <1>1, <1>2, <1>3 DEF Waiting
  <2>2. CASE k = Len(ch) + 1
    BY <1>2, <2>1, <2>2
  <2>3. CASE k # Len(ch) + 1
    <3>1. k \in 1 .. Len(ch) /\ Append(ch, m)[k] = ch[k]
      BY <1>1, <1>2, <2>3
    <3> QED BY <1>3, <2>1, <3>1
  <2> QED BY <2>2, <2>3
<1> QED BY <1>3, WaitingAppend DEF Queued

\* The parts of the type invariant that the steps below use.
LEMMA ServerTypes ==
  ASSUME IInv
  PROVE  /\ write_left \in Nat /\ pos \in Nat
         /\ accepted.cmd \in Nat /\ accepted.start \in Nat /\ accepted.count \in Nat
         /\ disk \in [Addresses -> [addr : Peers, cmd : Nat, idx : Nat]]
         /\ answers \subseteq [addr : Clients, cmd : Nat, result : {0, -1}]
         /\ client \in [Clients -> [cmd : Nat, count : Nat, sent : Nat]]
         /\ chan \in [Clients -> Seq(Messages)]
BY DEF IInv, TypeOK, Messages

LEMMA MessageTypes ==
  /\ \A m \in Messages : m.addr \in Clients /\ m.cmd \in Nat /\ m.kind \in {"info", "read", "write", "rdma"}
  /\ \A m \in Messages : IsPiece(m) => m \in Pieces /\ m.first \in Nat
  /\ \A m \in Messages : ~IsPiece(m) => m \in Commands /\ m.start \in Nat /\ m.count \in Nat
BY DEF Messages, Commands, Pieces, IsPiece

\* A step that only takes datagrams away keeps what is known of the write in progress and
\* of the answers.
LEMMA Shrinks ==
  ASSUME ToldInv, UNCHANGED <<bd, write_left, write_owner, pos, disk, accepted, answers, client>>,
         \A d \in Clients : Waiting(chan'[d]) \subseteq Waiting(chan[d]),
         answers \subseteq [addr : Clients, cmd : Nat, result : {0, -1}]
  PROVE  InProgress' /\ AnsweredEarlier' /\ AnswersAgree'
<1>1. Done' = Done
  BY DEF Done
<1>2. ReadOnly' = ReadOnly /\ ShortWrites' = ShortWrites /\ StoredSoFar' = StoredSoFar
  BY <1>1 DEF ReadOnly, ShortWrites, StoredSoFar
<1>3. \A d \in Clients : \A k : NothingOlder(k, chan[d]) => NothingOlder(k, chan'[d])
  BY DEF NothingOlder
<1>4. \A d \in Clients : \A a, cl, n : ToCome(a, cl, chan[d], n) => ToCome(a, cl, chan'[d], n)
  BY DEF ToCome
<1>5. InProgress'
  BY <1>1, <1>2, <1>3, <1>4 DEF InProgress, ToldInv
<1>6. \A r \in answers : r.addr \in Clients
  OBVIOUS
<1>7. AnsweredEarlier'
  BY <1>3, <1>6 DEF AnsweredEarlier, ToldInv
<1> QED BY <1>5, <1>7 DEF AnswersAgree, ToldInv

\* The pieces of the write in progress are the ones that are taken.
LEMMA WantedPiece ==
  ASSUME MaxCmds < CmdIds, IInv, ToldInv, NEW c \in Clients, chan[c] # <<>>, NEW m, m = Head(chan[c]), Wanted(m)
  PROVE  /\ m \in Pieces /\ m \in Waiting(chan[c]) /\ SentBy(c, client[c], m) /\ IsPiece(m)
         /\ write_left > 0 /\ accepted.addr = c /\ accepted.cmd = m.cmd /\ m.units = PacketUnits
         /\ m.first \in Multiples /\ m.first >= Done /\ m.first < accepted.count
<1>1. chan[c] \in Seq(Messages) /\ client[c].cmd \in Nat /\ accepted.cmd \in Nat
  BY ServerTypes
<1>2. m \in Waiting(chan[c]) /\ m \in Messages /\ SentBy(c, client[c], m)
  BY <1>1, WaitingTail, WaitingMessages, QueuedTail DEF ToldInv
<1>3. IsPiece(m) /\ m \in Pieces /\ m.cmd \in Nat /\ write_left > 0 /\ write_owner = [addr |-> m.addr, cmdid |-> m.cmdid]
  BY <1>2, MessageTypes DEF Wanted, IsPiece, Owner
<1>4. accepted.addr = c /\ accepted.cmd % CmdIds = m.cmd % CmdIds
  BY <1>2, <1>3 DEF ToldInv, InProgress, SentBy
<1>5. m.cmd <= MaxCmds /\ accepted.cmd <= MaxCmds
  <2>1. client[c].cmd <= MaxCmds /\ m.cmd <= client[c].cmd /\ accepted.cmd <= client[c].cmd
    BY <1>2, <1>3, <1>4 DEF ToldInv, InProgress, SentBy, Queued
  <2> QED BY <1>1, <1>3, <2>1, UdpbdAssumption
<1>6. accepted.cmd = m.cmd
  BY <1>1, <1>3, <1>4, <1>5, SameId
<1>7. m.first >= Done /\ m.first < accepted.count
  BY <1>2, <1>3, <1>4, <1>6 DEF ToldInv, InProgress, ToCome
<1> QED BY <1>2, <1>3, <1>4, <1>6, <1>7 DEF SentBy

\* The channels and the consoles after a datagram of c was taken.
Taken(c) ==
  /\ chan' \in [Clients -> Seq(Messages)] /\ UNCHANGED <<bd, client>>
  /\ chan'[c] = Tail(chan[c]) /\ \A d \in Clients \ {c} : chan'[d] = chan[d]
  /\ \A d \in Clients : Queued(d, client[d], chan'[d]) /\ Waiting(chan'[d]) \subseteq Waiting(chan[d])

LEMMA TakenOff ==
  ASSUME IInv, ToldInv, NEW c \in Clients, chan[c] # <<>>, chan' = [chan EXCEPT ![c] = Tail(@)], UNCHANGED <<bd, client>>
  PROVE  /\ Taken(c) /\ Head(chan[c]) \in Waiting(chan[c]) /\ Head(chan[c]) \in Messages /\ SentBy(c, client[c], Head(chan[c]))
         /\ \A n \in Waiting(chan'[c]) : Before(Head(chan[c]), n) /\ n \in Messages
<1>1. chan \in [Clients -> Seq(Messages)] /\ Queued(c, client[c], chan[c])
  BY ServerTypes DEF ToldInv
<1>2. Tail(chan[c]) \in Seq(Messages) /\ chan[c] \in Seq(Messages)
  BY <1>1
<1>3. chan'[c] = Tail(chan[c]) /\ (\A d \in Clients \ {c} : chan'[d] = chan[d]) /\ chan' \in [Clients -> Seq(Messages)]
  BY <1>1, <1>2
<1>4. /\ Queued(c, client[c], Tail(chan[c])) /\ SentBy(c, client[c], Head(chan[c]))
      /\ \A n \in Waiting(Tail(chan[c])) : Before(Head(chan[c]), n)
  BY <1>1, <1>2, QueuedTail
<1>5. Head(chan[c]) \in Waiting(chan[c]) /\ Waiting(Tail(chan[c])) \subseteq Waiting(chan[c]) /\ Waiting(chan[c]) \subseteq Messages
  BY <1>2, WaitingTail, WaitingMessages
<1>6. \A d \in Clients : Queued(d, client[d], chan'[d]) /\ Waiting(chan'[d]) \subseteq Waiting(chan[d])
  BY <1>3, <1>4, <1>5 DEF ToldInv
<1> QED BY <1>3, <1>4, <1>5, <1>6 DEF Taken

\* An answer that ends the write in progress, or refuses a command: nothing was answered of it yet.
LEMMA NewAnswer ==
  ASSUME IInv, ToldInv, NEW c \in Clients, chan[c] # <<>>, NEW m, m = Head(chan[c]), Taken(c), m \in Messages,
         m.addr = c, m.cmd <= client[c].cmd, \A n \in Waiting(chan'[c]) : Before(m, n) /\ n \in Messages,
         \A q \in answers : q.addr = c => q.cmd < m.cmd,
         NEW result \in {0, -1}, Answer(m, result), ~(write_left' > 0)
  PROVE  AnsweredEarlier' /\ AnswersAgree'
<1>1. answers' = answers \cup {[addr |-> c, cmd |-> m.cmd, result |-> result]}
  BY DEF Answer
<1>2. m.cmd \in Nat /\ answers \subseteq [addr : Clients, cmd : Nat, result : {0, -1}]
  BY ServerTypes, MessageTypes
<1>3. NothingOlder(m.cmd, chan'[c])
  BY DEF NothingOlder, Before
<1>4. AnsweredEarlier'
  <2> SUFFICES ASSUME NEW r \in answers' PROVE r.cmd <= client[r.addr].cmd /\ NothingOlder(r.cmd, chan'[r.addr])
    BY DEF AnsweredEarlier, Taken, NothingOlder
  <2>1. CASE r \in answers
    <3>1. r.cmd <= client[r.addr].cmd /\ NothingOlder(r.cmd, chan[r.addr]) /\ r.addr \in Clients
      BY <1>2, <2>1 DEF ToldInv, AnsweredEarlier
    <3> QED BY <3>1 DEF NothingOlder, Taken
  <2>2. CASE r = [addr |-> c, cmd |-> m.cmd, result |-> result]
    BY <1>3, <2>2
  <2> QED BY <1>1, <2>1, <2>2
<1>5. AnswersAgree'
  <2> SUFFICES ASSUME NEW r \in answers', NEW q \in answers', r.addr = q.addr, r.cmd = q.cmd PROVE r.result = q.result
    BY DEF AnswersAgree
  <2>1. CASE r \in answers /\ q \in answers
    BY <2>1 DEF ToldInv, AnswersAgree
  <2>2. \A p \in answers : p.addr = c => p.cmd # m.cmd
    BY <1>2
  <2> QED BY <1>1, <2>1, <2>2
<1> QED BY <1>4, <1>5

\* A write that is not over: what is left of it comes later than the piece that was taken.
LEMMA PieceTaken ==
  ASSUME MaxCmds < CmdIds, IInv, ToldInv, NEW c \in Clients, chan[c] # <<>>, NEW m, m = Head(chan[c]), Wanted(m), Taken(c),
         \A n \in Waiting(chan'[c]) : Before(m, n) /\ n \in Messages
  PROVE  \A k \in Nat : m.first >= k => ToCome(accepted, client[c], chan'[c], k + PacketUnits)
<1>1. /\ m \in Pieces /\ SentBy(c, client[c], m) /\ IsPiece(m) /\ accepted.addr = c /\ accepted.cmd = m.cmd
      /\ m \in Waiting(chan[c]) /\ write_left > 0
  BY WantedPiece
<1>2. m.first \in Nat /\ PacketUnits \in Nat /\ client[c].sent \in Nat
  BY <1>1, ServerTypes, UdpbdAssumption DEF Pieces
<1>3. ToCome(accepted, client[c], chan[c], Done)
  BY <1>1 DEF ToldInv, InProgress
<1> SUFFICES ASSUME NEW k \in Nat, m.first >= k PROVE ToCome(accepted, client[c], chan'[c], k + PacketUnits)
  OBVIOUS
<1>4. ASSUME NEW n \in Waiting(chan'[c]), IsPiece(n), n.cmd = accepted.cmd
      PROVE  n.first >= k + PacketUnits /\ n.first < accepted.count
  <2>1. m.first + PacketUnits <= n.first /\ n.first \in Nat
    BY <1>1, <1>4, MessageTypes DEF Before
  <2>2. n \in Waiting(chan[c])
    BY <1>4 DEF Taken
  <2> QED BY <1>2, <1>3, <1>4, <2>1, <2>2 DEF ToCome
<1>5. client[c].cmd = accepted.cmd => client[c].sent >= k + PacketUnits /\ client[c].count = accepted.count
  BY <1>1, <1>2, <1>3 DEF ToCome, SentBy
<1> QED BY <1>4, <1>5 DEF ToCome

\* A datagram that leaves a write in progress, in the three ways a piece is taken.
LEMMA PieceKeeps ==
  ASSUME MaxCmds < CmdIds, IInv, ToldInv, NEW c \in Clients, chan[c] # <<>>, NEW m, m = Head(chan[c]), Wanted(m), Taken(c),
         \A n \in Waiting(chan'[c]) : Before(m, n) /\ n \in Messages,
         Advance(m), UNCHANGED <<write_owner, accepted>>,
         ReadOnly \/ ShortWrites \/ Store(m, WriteSize(m))
  PROVE  InProgress' /\ AnsweredEarlier' /\ AnswersAgree' /\ DoneMeansStored
<1>1. /\ m \in Pieces /\ m \in Waiting(chan[c]) /\ SentBy(c, client[c], m) /\ IsPiece(m)
      /\ write_left > 0 /\ accepted.addr = c /\ accepted.cmd = m.cmd /\ m.units = PacketUnits
      /\ m.first \in Multiples /\ m.first >= Done /\ m.first < accepted.count
  BY WantedPiece
<1>2. /\ accepted.start + accepted.count <= MaxAddress + 1 /\ write_left <= accepted.count /\ Done \in Multiples
      /\ NothingOlder(accepted.cmd, chan[c])
      /\ \/ ReadOnly \/ ShortWrites \/ StoredSoFar \/ ToCome(accepted, client[c], chan[c], Done + PacketUnits)
      /\ write_owner = [addr |-> c, cmdid |-> accepted.cmd % CmdIds] /\ accepted.cmd >= 1 /\ accepted.cmd <= client[c].cmd
  BY <1>1 DEF ToldInv, InProgress
<1>3. /\ write_left \in Nat /\ pos \in Nat /\ accepted.start \in Nat /\ accepted.count \in Nat /\ PacketUnits \in Nat
      /\ PacketUnits >= 1 /\ MaxAddress \in Nat /\ m.first \in Nat /\ Done \in Nat /\ Done = accepted.count - write_left
  <2>1. write_left \in Nat /\ pos \in Nat /\ accepted.start \in Nat /\ accepted.count \in Nat
    BY ServerTypes
  <2>2. PacketUnits \in Nat /\ PacketUnits >= 1 /\ MaxAddress \in Nat
    BY UdpbdAssumption
  <2>3. m.first \in Nat /\ Done \in Nat
    BY <1>1, <1>2, MultiplesStep
  <2> QED BY <2>1, <2>2, <2>3 DEF Done
<1>4. WriteSize(m) = (IF PacketUnits < write_left THEN PacketUnits ELSE write_left) /\ write_left' = write_left - WriteSize(m)
  BY <1>1 DEF WriteSize, Least, Advance
<1>5. ReadOnly' = ReadOnly /\ ShortWrites' = ShortWrites
  BY DEF ReadOnly, ShortWrites, Taken
\* Either the piece is the one that is next, or it will not be the last.
<1>6. \/ m.first = Done
      \/ m.first >= Done + PacketUnits
  <2>1. Done < m.first => Done + PacketUnits <= m.first
    BY <1>1, <1>2, MultiplesStep
  <2> QED BY ONLY <1>1, <1>3, <2>1
<1>7. ToCome(accepted, client[c], chan[c], Done + PacketUnits) => m.first >= Done + PacketUnits
  BY <1>1 DEF ToCome
<1>8. ASSUME ~ReadOnly, ~ShortWrites, ~(m.first >= Done + PacketUnits) PROVE StoredSoFar /\ m.first = Done /\ Store(m, WriteSize(m))
  BY <1>2, <1>6, <1>7, <1>8
\* The blocks that the piece adds.
<1>9. ASSUME StoredSoFar, m.first = Done, Store(m, WriteSize(m))
      PROVE  /\ pos' = accepted.start + Done + WriteSize(m)
             /\ \A i \in 0 .. Done + WriteSize(m) - 1 :
                  disk'[accepted.start + i] = [addr |-> c, cmd |-> m.cmd, idx |-> i]
  <2>1. pos = accepted.start + Done /\ pos' = pos + WriteSize(m) /\ WriteSize(m) \in Nat /\ WriteSize(m) <= write_left
    BY <1>3, <1>4, <1>9 DEF StoredSoFar, Store
  <2>2. ASSUME NEW i \in 0 .. Done + WriteSize(m) - 1
        PROVE  disk'[accepted.start + i] = [addr |-> c, cmd |-> m.cmd, idx |-> i]
    <3> DEFINE a == accepted.start + i
    <3>1. a \in Addresses /\ i \in Nat
      <4>1. i \in Nat /\ i < accepted.count
        BY ONLY <1>2, <1>3, <2>1, i \in 0 .. Done + WriteSize(m) - 1
      <4> QED BY ONLY <1>2, <1>3, <4>1 DEF Addresses
    <3>2. disk'[a] = IF pos <= a /\ a < pos + WriteSize(m) THEN Block(m, a - pos) ELSE disk[a]
      BY <1>9, <3>1 DEF Store
    <3>3. CASE i < Done
      <4>1. ~(pos <= a) /\ i \in 0 .. Done - 1
        BY ONLY <1>3, <2>1, <3>1, <3>3
      <4>2. disk[accepted.start + i] = [addr |-> accepted.addr, cmd |-> accepted.cmd, idx |-> i]
        BY <1>9, <4>1 DEF StoredSoFar
      <4> QED BY <1>1, <3>2, <4>1, <4>2
    <3>4. CASE ~(i < Done)
      <4>1. pos <= a /\ a < pos + WriteSize(m) /\ m.first + (a - pos) = i
        BY ONLY <1>3, <1>9, <2>1, <3>1, <3>4, i \in 0 .. Done + WriteSize(m) - 1
      <4>2. Block(m, a - pos) = [addr |-> m.addr, cmd |-> m.cmd, idx |-> i] /\ m.addr = c
        BY <1>1, <4>1 DEF Block, SentBy
      <4> QED BY <3>2, <4>1, <4>2
    <3> QED BY <3>3, <3>4
  <2> QED BY <1>3, <2>1, <2>2
<1>10. InProgress'
  <2> SUFFICES ASSUME write_left' > 0 PROVE InProgress'
    BY DEF InProgress
  <2>1. WriteSize(m) = PacketUnits /\ write_left' = write_left - PacketUnits /\ Done' = Done + PacketUnits /\ write_left' <= accepted.count
    BY <1>3, <1>4 DEF Done
  <2>2. Done' \in Multiples
    BY <1>2, <2>1, MultiplesStep
  <2>3. NothingOlder(accepted.cmd, chan'[c])
    BY <1>2 DEF NothingOlder, Taken
  <2>4. ToCome(accepted, client[c], chan'[c], Done')
    BY <1>1, <1>3, <2>1, PieceTaken
  <2>5. ReadOnly \/ ShortWrites \/ StoredSoFar' \/ ToCome(accepted, client[c], chan'[c], Done' + PacketUnits)
    <3>1. CASE m.first >= Done + PacketUnits
      <4>1. Done + PacketUnits \in Nat
        BY <1>3
      <4> QED BY <2>1, <3>1, <4>1, PieceTaken
    <3>2. CASE ~(m.first >= Done + PacketUnits) /\ ~ReadOnly /\ ~ShortWrites
      <4>1. StoredSoFar /\ m.first = Done /\ Store(m, WriteSize(m))
        BY <1>8, <3>2
      <4>a. /\ pos' = accepted.start + Done + WriteSize(m)
            /\ \A i \in 0 .. Done + WriteSize(m) - 1 : disk'[accepted.start + i] = [addr |-> c, cmd |-> m.cmd, idx |-> i]
        BY <1>9, <4>1
      <4>2. /\ pos' = accepted.start + Done'
            /\ \A i \in 0 .. Done' - 1 : disk'[accepted.start + i] = [addr |-> c, cmd |-> m.cmd, idx |-> i]
        BY ONLY <1>3, <2>1, <4>a
      <4> QED BY <1>1, <4>2 DEF StoredSoFar
    <3> QED BY <3>1, <3>2
  <2>6. accepted' = accepted /\ write_owner' = write_owner /\ client' = client /\ c \in Clients
    BY DEF Taken
  <2> QED BY <1>1, <1>2, <1>5, <2>1, <2>2, <2>3, <2>4, <2>5, <2>6 DEF InProgress
<1>11. CASE write_left' > 0
  <2>1. answers' = answers
    BY <1>3, <1>4, <1>11 DEF Advance
  <2>2. AnsweredEarlier'
    <3> SUFFICES ASSUME NEW r \in answers
                 PROVE  r.cmd <= client[r.addr].cmd /\ NothingOlder(r.cmd, chan'[r.addr]) /\ (accepted.addr = r.addr => r.cmd < accepted.cmd)
      BY <2>1 DEF AnsweredEarlier, Taken, NothingOlder
    <3>1. r.cmd <= client[r.addr].cmd /\ NothingOlder(r.cmd, chan[r.addr]) /\ (accepted.addr = r.addr => r.cmd < accepted.cmd)
      BY <1>1 DEF ToldInv, AnsweredEarlier
    <3>2. r.addr \in Clients
      BY ServerTypes
    <3> QED BY <3>1, <3>2 DEF NothingOlder, Taken
  <2>3. AnswersAgree' /\ DoneMeansStored
    BY <2>1 DEF AnswersAgree, ToldInv, DoneMeansStored
  <2> QED BY <1>10, <2>2, <2>3
<1>12. CASE ~(write_left' > 0)
  <2>1. write_left' <= 0
    BY <1>3, <1>4, <1>12
  <2>2. PICK result \in {0, -1} : Answer(m, result) /\ (result = 0 => ~ReadOnly)
    BY <2>1 DEF Advance
  <2>3. \A q \in answers : q.addr = c => q.cmd < m.cmd
    BY <1>1 DEF ToldInv, AnsweredEarlier
  <2>4. m.addr = c /\ m.cmd <= client[c].cmd /\ m \in Messages
    BY <1>1 DEF SentBy, Messages
  <2>5. AnsweredEarlier' /\ AnswersAgree'
    BY <1>12, <2>2, <2>3, <2>4, NewAnswer
  <2>6. DoneMeansStored
    <3> SUFFICES ASSUME NEW r \in answers' \ answers, r.result = 0, ~ShortWrites PROVE StoredWhole(r)
      BY DEF DoneMeansStored
    <3>1. r.addr = c /\ r.cmd = m.cmd /\ result = 0
      BY <2>2, <2>4 DEF Answer
    <3>2. WriteSize(m) = write_left /\ ~(m.first >= Done + PacketUnits)
      BY <1>1, <1>3, <1>4, <1>12
    <3>3. \A i \in 0 .. accepted.count - 1 : disk'[accepted.start + i] = [addr |-> c, cmd |-> m.cmd, idx |-> i]
      <4>1. StoredSoFar /\ m.first = Done /\ Store(m, WriteSize(m))
        BY <1>8, <2>2, <3>1, <3>2
      <4>2. \A i \in 0 .. Done + WriteSize(m) - 1 : disk'[accepted.start + i] = [addr |-> c, cmd |-> m.cmd, idx |-> i]
        BY <1>9, <4>1
      <4>3. Done + WriteSize(m) - 1 = accepted.count - 1
        BY ONLY <1>3, <3>2
      <4> QED BY ONLY <4>2, <4>3
    <3> QED BY <1>1, <3>1, <3>3 DEF StoredWhole
  <2> QED BY <1>10, <2>5, <2>6
<1> QED BY <1>11, <1>12

LEMMA ServeTold ==
  ASSUME MaxCmds < CmdIds, IInv, ToldInv, NEW c \in Clients, Serve(c)
  PROVE  ToldInv' /\ DoneMeansStored
<1>1. PICK m : m = Head(chan[c])
  OBVIOUS
<1>2. chan[c] # <<>> /\ Handle(m) /\ chan' = [chan EXCEPT ![c] = Tail(@)] /\ UNCHANGED <<bd, client>>
  BY <1>1 DEF Serve
<1>3. /\ Taken(c) /\ m \in Waiting(chan[c]) /\ m \in Messages /\ SentBy(c, client[c], m)
      /\ \A n \in Waiting(chan'[c]) : Before(m, n) /\ n \in Messages
  BY <1>1, <1>2, TakenOff
<1>4. m.addr = c /\ m.cmd \in Nat /\ m.cmd >= 1 /\ m.cmd <= client[c].cmd
  BY <1>3, MessageTypes DEF SentBy
<1>5. \A d \in Clients : Queued(d, client[d], chan[d])'
  BY <1>3 DEF Taken, Queued, SentBy
<1>6. answers \subseteq [addr : Clients, cmd : Nat, result : {0, -1}]
  BY ServerTypes
\* Nothing is answered, and no write is in progress after the step or none but the one before.
<1>7. ASSUME UNCHANGED answers, write_left' > 0 => UNCHANGED <<write_left, accepted>>
      PROVE  AnsweredEarlier' /\ AnswersAgree' /\ DoneMeansStored
  <2>1. AnsweredEarlier'
    <3> SUFFICES ASSUME NEW r \in answers
                 PROVE  r.cmd <= client[r.addr].cmd /\ NothingOlder(r.cmd, chan'[r.addr])
                        /\ (write_left' > 0 /\ accepted'.addr = r.addr => r.cmd < accepted'.cmd)
      BY <1>2, <1>7 DEF AnsweredEarlier, NothingOlder
    <3>1. /\ r.cmd <= client[r.addr].cmd /\ NothingOlder(r.cmd, chan[r.addr])
          /\ write_left > 0 /\ accepted.addr = r.addr => r.cmd < accepted.cmd
      BY DEF ToldInv, AnsweredEarlier
    <3>2. NothingOlder(r.cmd, chan'[r.addr])
      BY <1>3, <1>6, <3>1 DEF NothingOlder, Taken
    <3> QED BY <1>7, <3>1, <3>2
  <2> QED BY <1>7, <2>1 DEF AnswersAgree, ToldInv, DoneMeansStored
<1>8. CASE HandleInfo(m) \/ HandleRead(m)
  <2>1. write_left' = 0 /\ UNCHANGED answers
    BY <1>8 DEF HandleInfo, HandleRead
  <2> QED BY <1>5, <1>7, <2>1 DEF ToldInv, InProgress
<1>9. CASE HandleReadRefused(m) \/ DropWriteRdma(m)
  <2>1. UNCHANGED <<bd, write_left, write_owner, pos, disk, accepted, answers, client>>
    BY <1>2, <1>9 DEF HandleReadRefused, DropWriteRdma, device
  <2>2. InProgress' /\ AnsweredEarlier' /\ AnswersAgree'
    BY <1>3, <1>6, <2>1, Shrinks DEF Taken
  <2> QED BY <1>5, <2>1, <2>2 DEF ToldInv, DoneMeansStored
<1>10. CASE HandleWrite(m)
  <2>1. /\ write_owner' = [addr |-> c, cmdid |-> m.cmd % CmdIds] /\ pos' = m.start /\ write_left' = m.count /\ UNCHANGED answers
        /\ accepted' = [addr |-> c, cmd |-> m.cmd, start |-> m.start, count |-> m.count]
        /\ m.kind = "write" /\ ~IsPiece(m)
    BY <1>3, <1>4, <1>10 DEF HandleWrite, Owner, SentBy, IsPiece
  <2>2. m.start \in Nat /\ m.count \in Nat /\ m.start + m.count <= MaxAddress + 1
    BY <1>3, <2>1, MessageTypes DEF SentBy
  <2>3. Done' = 0 /\ 0 \in Multiples
    BY <2>1, <2>2, MultiplesStep DEF Done
  <2>4. NothingOlder(m.cmd, chan'[c])
    BY <1>3 DEF NothingOlder, Before
  <2>5. ToCome(accepted', client[c], chan'[c], 0)
    <3>1. ASSUME NEW n \in Waiting(chan'[c]), IsPiece(n), n.cmd = m.cmd PROVE n.first >= 0 /\ n.first < m.count
      BY <1>3, <2>1, <3>1, MessageTypes DEF Before
    <3>2. client[c].cmd = m.cmd => client[c].sent >= 0 /\ client[c].count = m.count
      BY <1>3, <2>1, ServerTypes DEF SentBy
    <3> QED BY <2>1, <3>1, <3>2 DEF ToCome
  <2>6. StoredSoFar'
    BY <2>1, <2>2, <2>3 DEF StoredSoFar
  <2>7. InProgress'
    BY <1>2, <1>4, <2>1, <2>2, <2>3, <2>4, <2>5, <2>6 DEF InProgress
  <2>8. AnsweredEarlier'
    <3> SUFFICES ASSUME NEW r \in answers
                 PROVE  r.cmd <= client[r.addr].cmd /\ NothingOlder(r.cmd, chan'[r.addr]) /\ (c = r.addr => r.cmd < m.cmd)
      BY <1>2, <2>1 DEF AnsweredEarlier, NothingOlder
    <3>1. r.cmd <= client[r.addr].cmd /\ NothingOlder(r.cmd, chan[r.addr]) /\ r.addr \in Clients
      BY <1>6 DEF ToldInv, AnsweredEarlier
    <3> QED BY <1>3, <2>1, <3>1 DEF NothingOlder, Taken
  <2> QED BY <1>5, <2>1, <2>7, <2>8 DEF ToldInv, AnswersAgree, DoneMeansStored
<1>11. CASE HandleWriteRefused(m)
  <2>1. write_left' = 0 /\ Answer(m, -1) /\ ~IsPiece(m)
    BY <1>11 DEF HandleWriteRefused, IsPiece
  <2>2. \A q \in answers : q.addr = c => q.cmd < m.cmd
    BY <1>3, <2>1 DEF ToldInv, AnsweredEarlier, NothingOlder
  <2>3. AnsweredEarlier' /\ AnswersAgree'
    BY <1>1, <1>2, <1>3, <1>4, <2>1, <2>2, NewAnswer
  <2>4. DoneMeansStored
    BY <2>1 DEF DoneMeansStored, Answer
  <2> QED BY <1>5, <2>1, <2>3, <2>4 DEF ToldInv, InProgress
<1>12. CASE HandleWriteRdma(m) \/ HandleWriteRdmaShort(m) \/ HandleWriteRdmaReadOnly(m)
  <2>1. Wanted(m) /\ Advance(m) /\ UNCHANGED <<write_owner, accepted>> /\ (ReadOnly \/ ShortWrites \/ Store(m, WriteSize(m)))
    BY <1>12 DEF HandleWriteRdma, HandleWriteRdmaShort, HandleWriteRdmaReadOnly
  <2>2. InProgress' /\ AnsweredEarlier' /\ AnswersAgree' /\ DoneMeansStored
    BY <1>1, <1>2, <1>3, <2>1, PieceKeeps
  <2> QED BY <1>5, <2>2 DEF ToldInv
<1>13. CASE HandleWriteRdmaFails(m)
  <2>1. write_left' = 0 /\ Answer(m, -1) /\ Wanted(m)
    BY <1>13 DEF HandleWriteRdmaFails
  <2>2. accepted.addr = c /\ accepted.cmd = m.cmd /\ write_left > 0
    BY <1>1, <1>2, <2>1, WantedPiece
  <2>3. \A q \in answers : q.addr = c => q.cmd < m.cmd
    BY <2>2 DEF ToldInv, AnsweredEarlier
  <2>4. AnsweredEarlier' /\ AnswersAgree'
    BY <1>1, <1>2, <1>3, <1>4, <2>1, <2>3, NewAnswer
  <2>5. DoneMeansStored
    BY <2>1 DEF DoneMeansStored, Answer
  <2> QED BY <1>5, <2>1, <2>4, <2>5 DEF ToldInv, InProgress
<1> QED BY <1>2, <1>8, <1>9, <1>10, <1>11, <1>12, <1>13 DEF Handle

\* A datagram m that the console c sends, after which it is at cl.
LEMMA SendTold ==
  ASSUME IInv, ToldInv, NEW c \in Clients, NEW m \in Messages, Send(c, m), UNCHANGED server,
         NEW cl \in [cmd : Nat, count : Nat, sent : Nat], client' = [client EXCEPT ![c] = cl],
         Queued(c, cl, Append(chan[c], m)), client[c].cmd <= m.cmd, ~IsPiece(m) => client[c].cmd < m.cmd,
         m.cmd <= cl.cmd, client[c].cmd <= cl.cmd,
         IsPiece(m) => /\ m.cmd = client[c].cmd /\ cl.cmd = client[c].cmd /\ cl.count = client[c].count
                       /\ m.first = client[c].sent /\ m.first < client[c].count /\ cl.sent >= client[c].sent,
         ~IsPiece(m) => client[c].cmd < cl.cmd
  PROVE  ToldInv' /\ DoneMeansStored
<1>1. /\ chan \in [Clients -> Seq(Messages)] /\ client \in [Clients -> [cmd : Nat, count : Nat, sent : Nat]]
      /\ accepted.cmd \in Nat /\ accepted.count \in Nat /\ write_left \in Nat
      /\ answers \subseteq [addr : Clients, cmd : Nat, result : {0, -1}]
  BY ServerTypes
<1>2. /\ chan'[c] = Append(chan[c], m) /\ client'[c] = cl
      /\ \A d \in Clients \ {c} : chan'[d] = chan[d] /\ client'[d] = client[d]
  BY <1>1 DEF Send
<1>3. Waiting(chan'[c]) = Waiting(chan[c]) \cup {m}
  BY <1>1, <1>2, WaitingAppend
<1>4. UNCHANGED <<bd, write_left, write_owner, pos, disk, accepted, answers>>
  BY DEF server
<1>5. \A d \in Clients : Queued(d, client[d], chan[d])'
  <2>1. \A d \in Clients : Queued(d, client'[d], chan'[d])
    BY <1>2 DEF ToldInv
  <2> QED BY <2>1 DEF Queued, SentBy
<1>6. m.cmd \in Nat /\ client[c].cmd \in Nat /\ cl.cmd \in Nat /\ (IsPiece(m) => m.first \in Nat)
  BY <1>1, MessageTypes
<1>7. \A d \in Clients, k \in Nat : k <= client[d].cmd /\ NothingOlder(k, chan[d]) => k <= client'[d].cmd /\ NothingOlder(k, chan'[d])
  <2> SUFFICES ASSUME NEW k \in Nat, k <= client[c].cmd, NothingOlder(k, chan[c]) PROVE k <= cl.cmd /\ NothingOlder(k, chan'[c])
    BY <1>2
  <2> QED BY <1>3, <1>6 DEF NothingOlder
<1>8. AnsweredEarlier' /\ AnswersAgree'
  <2>1. AnsweredEarlier'
    <3> SUFFICES ASSUME NEW r \in answers
                 PROVE  r.cmd <= client'[r.addr].cmd /\ NothingOlder(r.cmd, chan'[r.addr])
                        /\ (write_left > 0 /\ accepted.addr = r.addr => r.cmd < accepted.cmd)
      BY <1>4 DEF AnsweredEarlier, NothingOlder
    <3>1. /\ r.cmd <= client[r.addr].cmd /\ NothingOlder(r.cmd, chan[r.addr])
          /\ write_left > 0 /\ accepted.addr = r.addr => r.cmd < accepted.cmd
      BY DEF ToldInv, AnsweredEarlier
    <3>2. r.addr \in Clients /\ r.cmd \in Nat
      BY <1>1
    <3> QED BY <1>7, <3>1, <3>2
  <2> QED BY <1>4, <2>1 DEF AnswersAgree, ToldInv
<1>9. InProgress'
  <2> SUFFICES ASSUME write_left > 0 PROVE InProgress'
    BY <1>4 DEF InProgress
  <2> DEFINE a == accepted.addr
  <2>1. /\ a \in Clients /\ accepted.cmd >= 1 /\ accepted.cmd <= client[a].cmd
        /\ write_owner = [addr |-> a, cmdid |-> accepted.cmd % CmdIds]
        /\ accepted.start + accepted.count <= MaxAddress + 1 /\ write_left <= accepted.count
        /\ Done \in Multiples /\ NothingOlder(accepted.cmd, chan[a]) /\ ToCome(accepted, client[a], chan[a], Done)
        /\ ReadOnly \/ ShortWrites \/ StoredSoFar \/ ToCome(accepted, client[a], chan[a], Done + PacketUnits)
    BY DEF ToldInv, InProgress
  <2>2. accepted.cmd <= client'[a].cmd /\ NothingOlder(accepted.cmd, chan'[a])
    BY <1>1, <1>7, <2>1
  <2>3. ASSUME NEW n \in Nat, ToCome(accepted, client[a], chan[a], n) PROVE ToCome(accepted, client'[a], chan'[a], n)
    <3>1. CASE a # c
      BY <1>2, <2>1, <2>3, <3>1
    <3>2. CASE a = c /\ IsPiece(m)
      <4>1. m.cmd = accepted.cmd => m.first >= n /\ m.first < accepted.count
        BY <2>3, <3>2 DEF ToCome
      <4>2. cl.cmd = accepted.cmd => cl.sent >= n /\ cl.count = accepted.count
        BY <1>1, <2>3, <3>2 DEF ToCome
      <4> QED BY <1>2, <1>3, <2>3, <3>2, <4>1, <4>2 DEF ToCome
    <3>3. CASE a = c /\ ~IsPiece(m)
      <4>1. cl.cmd # accepted.cmd
        BY <1>1, <1>6, <2>1, <3>3
      <4> QED BY <1>2, <1>3, <2>3, <3>3, <4>1 DEF ToCome
    <3> QED BY <3>1, <3>2, <3>3
  <2>4. Done' = Done /\ Done \in Nat /\ Done + PacketUnits \in Nat
    BY <1>4, <2>1, MultiplesStep, UdpbdAssumption DEF Done
  <2>5. ReadOnly' = ReadOnly /\ ShortWrites' = ShortWrites /\ StoredSoFar' = StoredSoFar
    BY <1>4, <2>4 DEF ReadOnly, ShortWrites, StoredSoFar
  <2>6. /\ ToCome(accepted, client'[a], chan'[a], Done)
        /\ ReadOnly \/ ShortWrites \/ StoredSoFar \/ ToCome(accepted, client'[a], chan'[a], Done + PacketUnits)
    BY <2>1, <2>3, <2>4
  <2>7. accepted' = accepted /\ write_left' = write_left /\ write_owner' = write_owner
    BY <1>4
  <2> QED BY <2>1, <2>2, <2>4, <2>5, <2>6, <2>7 DEF InProgress
<1> QED BY <1>4, <1>5, <1>8, <1>9 DEF ToldInv, DoneMeansStored

LEMMA NewCommandTold ==
  ASSUME IInv, ToldInv, NEW c \in Clients, NewCommand(c) PROVE ToldInv' /\ DoneMeansStored
<1> DEFINE n == client[c].cmd + 1
<1>1. PICK kind \in {"info", "read", "write"}, start \in Starts, count \in Counts :
        /\ Send(c, [kind |-> kind, addr |-> c, cmd |-> n, cmdid |-> n % CmdIds, start |-> start, count |-> count])
        /\ client' = [client EXCEPT ![c] = [cmd |-> n, count |-> IF kind = "write" THEN count ELSE 0, sent |-> 0]]
  BY DEF NewCommand
<1>2. /\ client[c].cmd \in Nat /\ client[c].cmd < MaxCmds /\ MaxCmds \in Nat /\ CmdIds \in Nat \ {0} /\ chan[c] \in Seq(Messages)
      /\ UNCHANGED server /\ n \in Nat
  BY ServerTypes, UdpbdAssumption DEF NewCommand
<1>3. start \in Nat /\ count \in Nat /\ start + count <= MaxAddress + 1
  BY UdpbdAssumption
<1>4. PICK m : m = [kind |-> kind, addr |-> c, cmd |-> n, cmdid |-> n % CmdIds, start |-> start, count |-> count]
  OBVIOUS
<1>5. PICK cl : cl = [cmd |-> n, count |-> IF kind = "write" THEN count ELSE 0, sent |-> 0]
  OBVIOUS
<1>6. /\ cl \in [cmd : Nat, count : Nat, sent : Nat] /\ cl.cmd = n /\ cl.sent = 0 /\ (kind = "write" => cl.count = count)
  BY <1>2, <1>3, <1>5
<1>7. n % CmdIds \in Nat
  BY <1>2
<1>8. /\ m \in Messages /\ m.kind = kind /\ m.addr = c /\ m.cmd = n /\ m.cmdid = n % CmdIds /\ m.start = start /\ m.count = count
      /\ ~IsPiece(m)
  BY <1>2, <1>3, <1>4, <1>7 DEF Messages, Commands, IsPiece
<1> HIDE DEF n
<1>9. n = client[c].cmd + 1 /\ n >= 1 /\ n <= MaxCmds
  BY <1>2 DEF n
<1>10. Queued(c, client[c], chan[c]) /\ Waiting(chan[c]) \subseteq Messages
  BY <1>2, WaitingMessages DEF ToldInv
<1>11. \A k \in Waiting(chan[c]) : SentBy(c, cl, k) /\ Before(k, m)
  <2> SUFFICES ASSUME NEW k \in Waiting(chan[c]) PROVE SentBy(c, cl, k) /\ Before(k, m)
    OBVIOUS
  <2>1. SentBy(c, client[c], k) /\ k.cmd \in Nat
    BY <1>10, MessageTypes DEF Queued
  <2>2. k.cmd < n
    BY <1>2, <1>9, <2>1 DEF SentBy
  <2> QED BY <1>2, <1>6, <1>8, <1>9, <2>1, <2>2 DEF SentBy, Before
<1>12. SentBy(c, cl, m)
  BY <1>3, <1>6, <1>8, <1>9 DEF SentBy, IsPiece
<1>13. Queued(c, cl, Append(chan[c], m))
  <2>1. cl.cmd <= MaxCmds /\ cl.sent \in Multiples /\ (cl.cmd = 0 => cl.count = 0)
    BY <1>2, <1>6, <1>9, MultiplesStep
  <2> QED BY <1>2, <1>8, <1>10, <1>11, <1>12, <2>1, QueuedAppend DEF Queued
<1>14. Send(c, m) /\ client' = [client EXCEPT ![c] = cl]
  BY <1>1, <1>4, <1>5
<1>15. client[c].cmd < m.cmd /\ client[c].cmd < cl.cmd /\ m.cmd <= cl.cmd /\ client[c].cmd <= cl.cmd /\ client[c].cmd <= m.cmd
  BY <1>2, <1>6, <1>8, <1>9
<1> QED BY <1>2, <1>6, <1>8, <1>13, <1>14, <1>15, SendTold

LEMMA SendRdmaTold ==
  ASSUME IInv, ToldInv, NEW c \in Clients, SendRdma(c) PROVE ToldInv' /\ DoneMeansStored
<1>1. /\ client[c] \in [cmd : Nat, count : Nat, sent : Nat] /\ client[c].sent < client[c].count /\ chan[c] \in Seq(Messages)
      /\ UNCHANGED server /\ CmdIds \in Nat \ {0} /\ PacketUnits \in Nat
  BY ServerTypes, UdpbdAssumption DEF SendRdma
<1>2. PICK truncated \in BOOLEAN :
        Send(c, [kind |-> "rdma", addr |-> c, cmd |-> client[c].cmd, cmdid |-> client[c].cmd % CmdIds,
                 first |-> client[c].sent, units |-> PacketUnits, truncated |-> truncated])
  BY DEF SendRdma
<1>3. PICK m : m = [kind |-> "rdma", addr |-> c, cmd |-> client[c].cmd, cmdid |-> client[c].cmd % CmdIds,
                    first |-> client[c].sent, units |-> PacketUnits, truncated |-> truncated]
  OBVIOUS
<1>4. PICK cl : cl = [client[c] EXCEPT !.sent = @ + PacketUnits]
  OBVIOUS
<1>5. client[c].cmd % CmdIds \in Nat
  BY <1>1
<1>6. /\ m \in Messages /\ IsPiece(m) /\ m.kind = "rdma" /\ m.addr = c /\ m.cmd = client[c].cmd /\ m.cmdid = client[c].cmd % CmdIds
      /\ m.first = client[c].sent /\ m.units = PacketUnits
  BY <1>1, <1>3, <1>5 DEF Messages, Pieces, IsPiece
<1>7. /\ cl \in [cmd : Nat, count : Nat, sent : Nat] /\ cl.cmd = client[c].cmd /\ cl.count = client[c].count
      /\ cl.sent = client[c].sent + PacketUnits
  BY <1>1, <1>4
<1>8. Queued(c, client[c], chan[c]) /\ Waiting(chan[c]) \subseteq Messages
  BY <1>1, WaitingMessages DEF ToldInv
<1>9. client[c].cmd >= 1 /\ client[c].cmd <= MaxCmds /\ client[c].sent \in Multiples /\ cl.sent \in Multiples
  <2>1. client[c].cmd # 0
    BY <1>1, <1>8 DEF Queued
  <2> QED BY <1>1, <1>7, <1>8, <2>1, MultiplesStep DEF Queued
<1>10. \A k \in Waiting(chan[c]) : SentBy(c, cl, k) /\ Before(k, m)
  <2> SUFFICES ASSUME NEW k \in Waiting(chan[c]) PROVE SentBy(c, cl, k) /\ Before(k, m)
    OBVIOUS
  <2>1. SentBy(c, client[c], k) /\ k \in Messages
    BY <1>8 DEF Queued
  <2>2. k.cmd \in Nat /\ (IsPiece(k) => k.first \in Nat)
    BY <2>1, MessageTypes
  <2>3. SentBy(c, cl, k)
    BY <1>1, <1>7, <2>1, <2>2 DEF SentBy
  <2>4. Before(k, m)
    <3>1. k.cmd <= m.cmd /\ (IsPiece(k) /\ k.cmd = m.cmd => k.first + PacketUnits <= m.first)
      BY <1>6, <2>1 DEF SentBy
    <3>2. k.kind = "write" /\ k.cmd = m.cmd => m.first < k.count
      <4>1. k.kind = "write" => ~IsPiece(k)
        BY DEF IsPiece
      <4> QED BY <1>1, <1>6, <2>1, <4>1 DEF SentBy
    <3> QED BY <1>6, <3>1, <3>2 DEF Before
  <2> QED BY <2>3, <2>4
<1>11. SentBy(c, cl, m)
  BY <1>1, <1>6, <1>7, <1>9 DEF SentBy
<1>12. Queued(c, cl, Append(chan[c], m))
  <2>1. cl.cmd <= MaxCmds /\ cl.sent \in Multiples /\ (cl.cmd = 0 => cl.count = 0)
    BY <1>7, <1>8, <1>9 DEF Queued
  <2> QED BY <1>1, <1>6, <1>8, <1>10, <1>11, <2>1, QueuedAppend DEF Queued
<1>13. Send(c, m) /\ client' = [client EXCEPT ![c] = cl]
  BY <1>2, <1>3, <1>4 DEF SendRdma
<1>14. /\ client[c].cmd <= m.cmd /\ m.cmd <= cl.cmd /\ client[c].cmd <= cl.cmd /\ cl.sent >= client[c].sent
       /\ m.first < client[c].count
  BY <1>1, <1>6, <1>7
<1> QED BY <1>1, <1>6, <1>7, <1>12, <1>13, <1>14, SendTold

LEMMA LoseTold ==
  ASSUME IInv, ToldInv, NEW c \in Clients, Lose(c) PROVE ToldInv' /\ DoneMeansStored
<1>1. /\ chan[c] # <<>> /\ chan' = [chan EXCEPT ![c] = Tail(@)]
      /\ UNCHANGED <<bd, write_left, write_owner, pos, disk, accepted, answers, client>>
  BY DEF Lose, server
<1>2. Taken(c)
  BY <1>1, TakenOff
<1>3. answers \subseteq [addr : Clients, cmd : Nat, result : {0, -1}]
  BY ServerTypes
<1>4. InProgress' /\ AnsweredEarlier' /\ AnswersAgree'
  BY <1>1, <1>2, <1>3, Shrinks DEF Taken
<1>5. \A d \in Clients : Queued(d, client[d], chan[d])'
  BY <1>2 DEF Taken, Queued, SentBy
<1> QED BY <1>1, <1>4, <1>5 DEF ToldInv, DoneMeansStored

LEMMA InitTold == Init => ToldInv
<1> SUFFICES ASSUME Init PROVE ToldInv
  OBVIOUS
<1>1. \A c \in Clients : chan[c] = <<>> /\ client[c].cmd = 0 /\ client[c].count = 0 /\ client[c].sent = 0
  BY DEF Init
<1>2. Len(<<>>) = 0 /\ Waiting(<<>>) = {}
  BY EmptySeq DEF Waiting
<1>3. 0 <= MaxCmds /\ 0 \in Multiples
  BY MultiplesStep, UdpbdAssumption
<1>4. ASSUME NEW c \in Clients PROVE Queued(c, client[c], chan[c])
  <2>1. client[c].cmd <= MaxCmds /\ client[c].sent \in Multiples /\ client[c].count = 0
    BY <1>1, <1>3
  <2>2. Waiting(chan[c]) = {} /\ Len(chan[c]) = 0
    BY <1>1, <1>2
  <2>3. \A j, k \in 1..Len(chan[c]) : FALSE
    BY <2>2
  <2> QED BY <2>1, <2>2, <2>3 DEF Queued
<1> QED BY <1>4 DEF Init, ToldInv, InProgress, AnsweredEarlier, AnswersAgree

LEMMA StepTold ==
  ASSUME MaxCmds < CmdIds, IInv, ToldInv, [Next]_vars
  PROVE  ToldInv' /\ DoneMeansStored
<1>1. CASE UNCHANGED vars
  <2>1. ToldInv'
    BY <1>1 DEF vars, ToldInv, Queued, SentBy, InProgress, AnsweredEarlier, AnswersAgree, Done, StoredSoFar, ToCome, NothingOlder,
                ReadOnly, ShortWrites
  <2> QED BY <1>1, <2>1 DEF vars, DoneMeansStored
<1> QED BY <1>1, ServeTold, NewCommandTold, SendRdmaTold, LoseTold DEF Next

\* A console is told one thing of a command, and when it is told that its write succeeded every
\* block of the write is on the device (_handle_write_rdma), whatever was lost, cut short or
\* sent by others in between, unless the disk stored less than it was given. The hypothesis: the
\* three-bit command id has not come round. When it has, and the CMD_WRITE is lost, the pieces
\* of a command complete the abandoned write of the one with the same id.
THEOREM ToldTheTruth ==
  ASSUME MaxCmds < CmdIds
  PROVE  Spec => AnsweredTruly
<1>1. IInv /\ ToldInv /\ [Next]_vars => ToldInv'
  BY StepTold
<1>2. IInv /\ ToldInv /\ [Next]_vars => AnswersAgree' /\ DoneMeansStored
  BY StepTold DEF ToldInv
<1> QED BY <1>1, <1>2, InitTold, Invariance, PTL DEF Spec, AnsweredTruly

=============================================================================
