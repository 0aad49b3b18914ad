------------------------ MODULE UdpfsTransportProofs ------------------------
(***************************************************************************)
(* Proofs about UdpfsTransport, for every ring size, window, retry limit    *)
(* and stream length the assumption of that module admits, and for a        *)
(* console and a network that may do anything the module lets them do.      *)
(***************************************************************************)
EXTENDS UdpfsTransport, SequenceTheorems, TLAPS

Txs == [seq_nr : Seqs, acked : Seqs, buffer : SUBSET Packets]
Msgs == RequestMsgs \cup ControlMsgs \cup DataMsgs \cup RequestAckMsgs

\* The kept packets lie behind tx_seq_nr, at most one more than are in flight:
\* the one more is packet 0 of a new session, which tx_seq_nr_acked = 0 claims.
TxOK(t) ==
  /\ t \in Txs
  /\ \A p \in t.buffer : /\ Diff(t.seq_nr, p.seq) \in 1 .. SEND_WINDOW + 1
                         /\ Diff(t.seq_nr, p.seq) <= InFlight(t) + 1

\* A wait that is on still has attempts left.
RetriesOK == /\ pc = "window" => retries < MAX_WINDOW_RETRIES
             /\ pc = "final" => retries <= MAX_WINDOW_RETRIES

PushbackOK == pushback = <<>> \/ (pc = "idle" /\ Len(pushback) = 1)

\* The inductive invariant.
IInv ==
  /\ TypeOK
  /\ TxOK(tx)
  /\ pc = "sending" => InFlight(tx) < SEND_WINDOW
  /\ RetriesOK
  /\ PushbackOK

-----------------------------------------------------------------------------
\* The constants, in the form the arithmetic below needs them.
LEMMA Ring ==
  /\ Half \in Nat /\ SeqMod \in Nat /\ SeqMod = 2 * Half /\ SEND_WINDOW + 2 < Half
  /\ SEND_WINDOW \in Nat \ {0} /\ MAX_WINDOW_RETRIES \in Nat \ {0}
  /\ MaxRequests \in Nat /\ Requests \subseteq Nat /\ 0 \in Requests
  /\ StreamLens \subseteq Nat /\ Starts \subseteq Seqs \X Seqs
  /\ 0 \in Seqs /\ Seqs \subseteq Nat
BY TransportAssumption DEF TransportAssumption, Half, Seqs, Requests

\* Sequence arithmetic stays on the ring.
LEMMA SeqTypes ==
  ASSUME NEW a \in Seqs, NEW b \in Seqs
  PROVE  NextSeq(a) \in Seqs /\ PrevSeq(a) \in Seqs /\ Diff(a, b) \in Seqs
BY Ring DEF Seqs, NextSeq, PrevSeq, Diff

\* _acknowledge_tx keeps the buffer behind the send position.
LEMMA AcknowledgeTxOK ==
  ASSUME NEW t, TxOK(t), NEW a \in Seqs
  PROVE  /\ TxOK(AcknowledgeTx(t, a))
         /\ AcknowledgeTx(t, a).seq_nr = t.seq_nr
         /\ AcknowledgeTx(t, a).acked # t.acked => Diff(a, t.acked) <= InFlight(t)
         /\ AcknowledgeTx(t, a).acked \in {a, t.acked}
<1>1. CASE ~AckAccepted(t, a)
  BY <1>1 DEF AcknowledgeTx
<1>2. CASE AckAccepted(t, a)
  <2> DEFINE u == [t EXCEPT !.acked = a, !.buffer = {p \in @ : Diff(p.seq, NextSeq(a)) < Half}]
  <2>1. AcknowledgeTx(t, a) = u
    BY <1>2 DEF AcknowledgeTx
  <2>2. u \in Txs /\ u.seq_nr = t.seq_nr /\ u.acked = a /\ u.buffer \subseteq t.buffer
    BY DEF TxOK, Txs
  <2>3. Diff(a, t.acked) <= InFlight(t)
    BY <1>2 DEF AckAccepted, InFlight
  <2>4. ASSUME NEW p \in u.buffer
        PROVE  Diff(u.seq_nr, p.seq) \in 1 .. SEND_WINDOW + 1
               /\ Diff(u.seq_nr, p.seq) <= InFlight(u) + 1
    <3>1. p \in t.buffer /\ Diff(p.seq, NextSeq(a)) < Half
      BY DEF TxOK, Txs
    <3>2. p.seq \in Seqs /\ t.seq_nr \in Seqs /\ t.acked \in Seqs
      BY <3>1 DEF TxOK, Txs, Packets
    <3>3. Diff(t.seq_nr, p.seq) \in 1 .. SEND_WINDOW + 1
      BY <3>1 DEF TxOK
    <3>4. Diff(t.seq_nr, p.seq) <= Diff(t.seq_nr, NextSeq(a)) + 1
      <4>1. Diff(a, t.acked) < Half /\ Diff(t.seq_nr, NextSeq(t.acked)) < Half
            /\ Diff(a, t.acked) <= Diff(t.seq_nr, NextSeq(t.acked))
        BY <1>2 DEF AckAccepted
      <4> HIDE DEF u
      <4> QED BY <3>1, <3>2, <3>3, <4>1, Ring DEF Diff, NextSeq, Seqs
    <3> QED BY <2>2, <3>3, <3>4 DEF InFlight
  <2> QED BY <2>1, <2>2, <2>3, <2>4 DEF TxOK
<1> QED BY <1>1, <1>2

\* The only packet of a reply, or the first of a stream, whatever came before.
LEMMA FirstPacketOK ==
  ASSUME NEW t \in Txs, NEW j \in Jobs
  PROVE  TxOK(SendData(t, j)) /\ TxOK(SendDataPacket([t EXCEPT !.buffer = {}], j, 1))
<1> DEFINE p == ReplyPacket(t, j, 1)
           b == [t EXCEPT !.buffer = {}]
<1>1. t.seq_nr \in Seqs /\ t.acked \in Seqs /\ NextSeq(t.seq_nr) \in Seqs
  BY SeqTypes DEF Txs
<1>2. p \in Packets /\ p.seq = t.seq_nr
  BY Ring, <1>1 DEF ReplyPacket, Packets, Jobs
<1>3. ASSUME NEW u \in Txs, u.seq_nr = NextSeq(t.seq_nr), u.buffer = {p}
      PROVE  TxOK(u)
  <2>1. Diff(NextSeq(t.seq_nr), t.seq_nr) = 1
    BY <1>1, Ring DEF Diff, NextSeq, Seqs
  <2>2. InFlight(u) \in Nat
    BY SeqTypes, Ring DEF InFlight, Txs
  <2> HIDE DEF p
  <2> QED BY <1>2, <1>3, <2>1, <2>2, Ring DEF TxOK
<1>4. /\ SendData(t, j) \in Txs
      /\ SendData(t, j).seq_nr = NextSeq(t.seq_nr) /\ SendData(t, j).buffer = {p}
  <2> HIDE DEF p
  <2>1. SendData(t, j) = [t EXCEPT !.seq_nr = NextSeq(t.seq_nr), !.buffer = {p}]
    BY DEF SendData, p
  <2> QED BY <1>1, <1>2, <2>1 DEF Txs
<1>5. b \in Txs /\ b.seq_nr = t.seq_nr /\ b.acked = t.acked /\ b.buffer = {}
  BY DEF Txs
<1>6. ReplyPacket(b, j, 1) = p
  BY <1>5 DEF ReplyPacket
<1>7. /\ SendDataPacket(b, j, 1) \in Txs
      /\ SendDataPacket(b, j, 1).seq_nr = NextSeq(t.seq_nr)
      /\ SendDataPacket(b, j, 1).buffer = {p}
  <2> HIDE DEF p, b
  <2>1. SendDataPacket(b, j, 1) = [b EXCEPT !.seq_nr = NextSeq(t.seq_nr), !.buffer = {} \cup {p}]
    BY <1>5, <1>6 DEF SendDataPacket
  <2> QED BY <1>1, <1>2, <1>5, <2>1 DEF Txs
<1> QED BY <1>3, <1>4, <1>7

\* A further packet of a stream, when the window is not full.
LEMMA NextPacketOK ==
  ASSUME NEW t, TxOK(t), InFlight(t) < SEND_WINDOW, NEW j \in Jobs, NEW i \in Nat
  PROVE  TxOK(SendDataPacket(t, j, i)) /\ SendDataPacket(t, j, i).acked = t.acked
<1> DEFINE p == ReplyPacket(t, j, i)
           u == SendDataPacket(t, j, i)
<1>0. t \in Txs /\ t.seq_nr \in Seqs /\ t.acked \in Seqs /\ NextSeq(t.seq_nr) \in Seqs
  BY SeqTypes DEF TxOK, Txs
<1>1. p \in Packets /\ p.seq = t.seq_nr
  BY <1>0 DEF ReplyPacket, Packets, Jobs
<1>2. /\ u \in Txs /\ u.acked = t.acked
      /\ u.seq_nr = NextSeq(t.seq_nr) /\ u.buffer = t.buffer \cup {p}
  <2> HIDE DEF p
  <2>1. u = [t EXCEPT !.seq_nr = NextSeq(t.seq_nr), !.buffer = t.buffer \cup {p}]
    BY <1>0 DEF SendDataPacket, p
  <2> HIDE DEF u
  <2> QED BY <1>0, <1>1, <2>1 DEF Txs
<1> HIDE DEF u, p
<1>4. InFlight(u) = InFlight(t) + 1
  BY <1>0, <1>2, Ring DEF InFlight, Diff, NextSeq, Seqs
<1>5. ASSUME NEW q \in u.buffer
      PROVE  Diff(u.seq_nr, q.seq) \in 1 .. SEND_WINDOW + 1
             /\ Diff(u.seq_nr, q.seq) <= InFlight(u) + 1
  <2>1. InFlight(t) \in Nat
    BY <1>0, SeqTypes, Ring DEF InFlight
  <2>2. CASE q = p
    <3>1. Diff(NextSeq(t.seq_nr), t.seq_nr) = 1
      BY <1>0, Ring DEF Diff, NextSeq, Seqs
    <3> QED BY <1>1, <1>2, <1>4, <2>1, <2>2, <3>1, Ring
  <2>3. CASE q \in t.buffer
    <3>1. q.seq \in Seqs
      BY <1>0, <2>3 DEF Txs, Packets
    <3>2. Diff(t.seq_nr, q.seq) \in 1 .. SEND_WINDOW + 1 /\ Diff(t.seq_nr, q.seq) <= InFlight(t) + 1
      BY <2>3 DEF TxOK
    <3>3. Diff(NextSeq(t.seq_nr), q.seq) = Diff(t.seq_nr, q.seq) + 1
      BY <1>0, <3>1, <3>2, Ring DEF Diff, NextSeq, Seqs
    <3> QED BY <1>2, <1>4, <2>1, <3>2, <3>3, Ring
  <2> QED BY <1>2, <2>2, <2>3
<1> QED BY <1>2, <1>5 DEF TxOK, u

-----------------------------------------------------------------------------
(* Datagrams and the queue.                                                 *)

\* What the two sides send is a datagram.
LEMMA MessageTypes ==
  ASSUME console \in Consoles
  PROVE  /\ console.req \in Nat /\ console.rx \in Seqs /\ console.seq \in Seqs
         /\ \A P \in SUBSET Packets : Data(P) \subseteq Msgs
         /\ \A s \in Seqs : /\ RequestAck(s) \in Msgs /\ RequestNack(s) \in Msgs
                            /\ Control("ack", s) \in Msgs /\ Control("nack", s) \in Msgs
<1>1. console.req \in Nat /\ console.rx \in Seqs /\ console.seq \in Seqs
  BY Ring DEF Consoles
<1>2. ASSUME NEW P \in SUBSET Packets PROVE Data(P) \subseteq DataMsgs
  BY <1>1 DEF Data, DataMsgs
<1>3. ASSUME NEW s \in Seqs
      PROVE  /\ RequestAck(s) \in RequestAckMsgs /\ RequestNack(s) \in RequestAckMsgs
             /\ Control("ack", s) \in ControlMsgs /\ Control("nack", s) \in ControlMsgs
  BY <1>1, SeqTypes DEF RequestAck, RequestNack, Control, RequestAckMsgs, ControlMsgs
<1> QED BY <1>1, <1>2, <1>3 DEF Msgs

\* An item of the queue is a request, an ACK or a NACK.
LEMMA ItemTypes ==
  ASSUME TypeOK, NEW m \in Items
  PROVE  /\ m.ack \in Seqs
         /\ m.kind = "req" => m \in RequestMsgs
<1>1. m \in ToServer
  <2>1. CASE pushback # <<>>
    <3>1. Head(pushback) \in RequestMsgs
      BY <2>1 DEF TypeOK
    <3> QED BY <2>1, <3>1 DEF Items, ToServer
  <2>2. CASE pushback = <<>>
    BY <2>2 DEF Items
  <2> QED BY <2>1, <2>2
<1> QED BY <1>1 DEF ToServer, RequestMsgs, ControlMsgs

\* Taking an item leaves nothing handed back.
LEMMA ConsumeOK ==
  ASSUME TypeOK, PushbackOK, NEW m, NEW out \in SUBSET Msgs, Consume(m, out)
  PROVE  net' \subseteq Msgs /\ pushback' = <<>>
<1>1. net' \subseteq Msgs
  BY DEF TypeOK, Consume, NetWithout, Msgs
<1>2. pushback' = <<>>
  <2>1. CASE pushback = <<>>
    BY <2>1 DEF Consume, PushbackRest
  <2>2. CASE pushback # <<>>
    <3>1. pushback \in Seq(RequestMsgs) /\ Len(pushback) = 1
      BY <2>2 DEF TypeOK, PushbackOK
    <3>2. Tail(pushback) \in Seq(RequestMsgs) /\ Len(Tail(pushback)) = 0
      BY <3>1, <2>2
    <3> QED BY <2>2, <3>2 DEF Consume, PushbackRest
  <2> QED BY <2>1, <2>2
<1> QED BY <1>1, <1>2

\* A wait hands back the one request that ends it.
LEMMA HandBackOK ==
  ASSUME TypeOK, pushback = <<>>, NEW m \in RequestMsgs, ConsumeAndPushBack(m)
  PROVE  net' \subseteq Msgs /\ pushback' \in Seq(RequestMsgs) /\ Len(pushback') = 1
<1>1. net' \subseteq Msgs
  BY DEF TypeOK, ConsumeAndPushBack, NetWithout, Msgs
<1>2. pushback' = Append(<<>>, m)
  BY DEF ConsumeAndPushBack, PushbackRest
<1> QED BY <1>1, <1>2

\* A retransmission sends packets that are kept.
LEMMA RetransmittedType ==
  ASSUME NEW t \in Txs, NEW s
  PROVE  Retransmitted(t, s) \in SUBSET Packets
BY DEF Retransmitted, Txs

-----------------------------------------------------------------------------
(* The invariant is inductive: one lemma per group of actions.              *)

LEMMA InitIInv == Init => IInv
<1> SUFFICES ASSUME Init PROVE IInv
  OBVIOUS
<1>1. NoJob \in Jobs
  BY Ring DEF NoJob, Jobs
<1>2. ASSUME NEW t \in Txs, t.buffer = {}, NEW rx \in Seqs, NEW crx \in Seqs, SessionAt(t, rx, crx)
      PROVE  TxOK(tx) /\ rx_seq_nr_expected \in Seqs /\ console \in Consoles
  <2>1. TxOK(tx) /\ rx_seq_nr_expected \in Seqs
    BY <1>2 DEF SessionAt, TxOK
  <2>2. <<>> \in Seq(Requests \X Nat)
    OBVIOUS
  <2>3. console \in Consoles
    BY <1>1, <1>2, <2>2, Ring DEF SessionAt, Consoles
  <2> QED BY <2>1, <2>3
<1>3. TxOK(tx) /\ rx_seq_nr_expected \in Seqs /\ console \in Consoles
  <2>1. CASE SessionAt(ResetTx, 0, 0)
    <3>1. ResetTx \in Txs /\ ResetTx.buffer = {}
      BY Ring DEF ResetTx, Txs
    <3> QED BY <1>2, <2>1, <3>1, Ring
  <2>2. ASSUME NEW s \in Starts,
               SessionAt([seq_nr |-> s[1], acked |-> PrevSeq(s[1]), buffer |-> {}], s[2], s[1])
        PROVE  TxOK(tx) /\ rx_seq_nr_expected \in Seqs /\ console \in Consoles
    <3>1. s[1] \in Seqs /\ s[2] \in Seqs
      BY Ring
    <3>2. PrevSeq(s[1]) \in Seqs
      BY <3>1, SeqTypes
    <3>3. [seq_nr |-> s[1], acked |-> PrevSeq(s[1]), buffer |-> {}] \in Txs
      BY <3>1, <3>2 DEF Txs
    <3> QED BY <1>2, <2>2, <3>1, <3>3
  <2> QED BY <2>1, <2>2 DEF Init
<1>4. tx \in Txs /\ old_acked \in Seqs
  BY <1>3 DEF Init, TxOK, Txs
<1>5. executed \in [Requests -> Nat] /\ retries \in 0 .. MAX_WINDOW_RETRIES + 1 /\ sent \in Nat
  BY Ring DEF Init
<1>6. pushback \in Seq(RequestMsgs)
  BY DEF Init
<1>7. TypeOK
  BY <1>1, <1>3, <1>4, <1>5, <1>6 DEF Init, TypeOK, Txs
<1> QED BY <1>3, <1>7 DEF Init, IInv, RetriesOK, PushbackOK

\* Between requests, ACKs, NACKs, copies and strays move the acknowledged position only.
LEMMA ControlStep ==
  ASSUME IInv, NEW m \in Items,
         HandleAck(m) \/ HandleNack(m) \/ HandleDuplicate(m) \/ HandleOutOfSequence(m)
  PROVE  IInv' /\ (tx'.acked # tx.acked => Diff(tx'.acked, tx.acked) <= InFlight(tx))
<1>1. m.ack \in Seqs /\ PrevSeq(m.ack) \in Seqs
  BY ItemTypes, SeqTypes DEF IInv
<1>2. /\ TxOK(tx')
      /\ tx'.acked # tx.acked => Diff(tx'.acked, tx.acked) <= InFlight(tx)
  <2>1. \E a \in Seqs : tx' = AcknowledgeTx(tx, a)
    BY <1>1 DEF HandleAck, HandleNack, HandleDuplicate, HandleOutOfSequence
  <2> QED BY <2>1, AcknowledgeTxOK DEF IInv
<1>3. tx' \in Txs
  BY <1>2 DEF TxOK
<1>4. net' \subseteq Msgs /\ pushback' = <<>>
  <2>1. \E out \in SUBSET Msgs : Consume(m, out)
    <3>1. console \in Consoles /\ rx_seq_nr_expected \in Seqs
      BY DEF IInv, TypeOK
    <3>2. \A q : Data(Retransmitted(tx', q)) \subseteq Msgs
      BY <1>3, <3>1, MessageTypes, RetransmittedType
    <3>3. RequestAck(rx_seq_nr_expected) \in Msgs /\ RequestNack(rx_seq_nr_expected) \in Msgs
      BY <3>1, MessageTypes
    <3>4. CASE HandleAck(m)
      BY <3>4 DEF HandleAck
    <3>5. CASE HandleNack(m)
      BY <3>5, <3>2 DEF HandleNack
    <3>6. CASE HandleDuplicate(m)
      BY <3>6, <3>2, <3>3 DEF HandleDuplicate
    <3>7. CASE HandleOutOfSequence(m)
      BY <3>7, <3>3 DEF HandleOutOfSequence
    <3> QED BY <3>4, <3>5, <3>6, <3>7
  <2> QED BY <2>1, ConsumeOK DEF IInv
<1>5. /\ pc = "idle"
      /\ UNCHANGED <<rx_seq_nr_expected, pc, job, sent, old_acked, retries, console, history>>
  BY DEF HandleAck, HandleNack, HandleDuplicate, HandleOutOfSequence
<1>6. pushback' \in Seq(RequestMsgs)
  BY <1>4
<1> HIDE DEF TxOK
<1> QED BY <1>2, <1>3, <1>4, <1>5, <1>6
        DEF IInv, TypeOK, RetriesOK, PushbackOK, history, Msgs, Txs

\* A request taken from a position t of the transmit side, at number rx.
LEMMA ExecuteStep ==
  ASSUME IInv, NEW m \in Items, m.kind = "req", pc = "idle",
         NEW t \in Txs, NEW rx \in Seqs, Execute(m, t, rx)
  PROVE  IInv' /\ tx'.acked = t.acked
<1> DEFINE j == m.job
           t1 == IF j.rpc THEN SendData(t, j) ELSE SendDataPacket([t EXCEPT !.buffer = {}], j, 1)
<1>1. m \in RequestMsgs
  BY ItemTypes DEF IInv
<1>2. j \in Jobs
  BY <1>1 DEF RequestMsgs
<1>3. TxOK(t1)
  BY <1>2, FirstPacketOK
<1>4. t1.acked = t.acked
  BY DEF SendData, SendDataPacket, Txs
<1> HIDE DEF t1
<1>5. tx' = t1 /\ rx_seq_nr_expected' = NextSeq(rx) /\ job' = j
  BY DEF Execute, t1
<1>6. NextSeq(rx) \in Seqs /\ t1 \in Txs /\ t1.acked \in Seqs
  BY <1>3, SeqTypes DEF TxOK, Txs
<1>7. net' \subseteq Msgs /\ pushback' = <<>>
  <2>1. console \in Consoles
    BY DEF IInv, TypeOK
  <2>2. ReplyPacket(t, j, 1) \in Packets
    BY <1>2 DEF ReplyPacket, Packets, Jobs, Txs
  <2>3. {RequestAck(NextSeq(rx))} \cup Data({ReplyPacket(t, j, 1)}) \subseteq Msgs
    BY <1>6, <2>1, <2>2, MessageTypes
  <2>4. Consume(m, {RequestAck(NextSeq(rx))} \cup Data({ReplyPacket(t, j, 1)}))
    BY DEF Execute
  <2> QED BY <2>3, <2>4, ConsumeOK DEF IInv
<1>8. executed' \in [Requests -> Nat]
  BY <1>2 DEF Execute, Jobs, IInv, TypeOK
<1>9. /\ pc' \in {"idle", "sending", "window", "final"}
      /\ sent' \in Nat /\ old_acked' \in Seqs /\ retries' \in 0 .. MAX_WINDOW_RETRIES + 1
      /\ pc' = "sending" => InFlight(t1) < SEND_WINDOW
      /\ pc' = "window" => retries' = 0
      /\ pc' = "final" => retries' = 0
  <2>1. CASE j.rpc
    <3>1. pc' = "idle" /\ UNCHANGED <<sent, old_acked, retries>>
      BY <2>1 DEF Execute
    <3> QED BY <3>1 DEF IInv, TypeOK
  <2>2. CASE ~j.rpc
    <3>1. sent' = 1 /\ pc' = LoopPc(t1, j, 1) /\ old_acked' = t1.acked /\ retries' = 0
      BY <2>2 DEF Execute, t1
    <3>2. InFlight(t1) \in Nat
      BY <1>6, SeqTypes, Ring DEF InFlight, Txs
    <3> QED BY <3>1, <3>2, <1>6, Ring DEF LoopPc
  <2> QED BY <2>1, <2>2
<1>10. UNCHANGED <<console, confirmed, aborted>>
  BY DEF Execute
<1>11. pushback' \in Seq(RequestMsgs)
  BY <1>7
<1> HIDE DEF j
<1>12. TypeOK'
  BY <1>2, <1>5, <1>6, <1>7, <1>8, <1>9, <1>10, <1>11 DEF IInv, TypeOK, Msgs, Txs
<1> QED BY <1>3, <1>4, <1>5, <1>7, <1>9, <1>12, Ring DEF IInv, RetriesOK, PushbackOK

\* The send loop puts one more packet out.
LEMMA SendNextStep ==
  ASSUME IInv, SendNext
  PROVE  IInv' /\ tx'.acked = tx.acked
<1>1. job \in Jobs /\ sent + 1 \in Nat /\ console \in Consoles /\ tx \in Txs /\ pc = "sending"
  BY DEF IInv, TypeOK, SendNext, TxOK
<1>2. TxOK(tx') /\ tx'.acked = tx.acked
  BY <1>1, NextPacketOK DEF IInv, SendNext
<1>3. tx' \in Txs /\ old_acked' \in Seqs
  BY <1>1, <1>2 DEF TxOK, SendNext, Txs
<1>4. net' \subseteq Msgs
  <2>1. ReplyPacket(tx, job, sent + 1) \in Packets
    BY <1>1 DEF ReplyPacket, Packets, Jobs, Txs
  <2> QED BY <1>1, <2>1, MessageTypes DEF SendNext, IInv, TypeOK, Msgs
<1>5. /\ pc' \in {"sending", "window", "final"} /\ retries' = 0 /\ sent' \in Nat
      /\ pc' = "sending" => InFlight(tx') < SEND_WINDOW
  <2>1. InFlight(tx') \in Nat
    BY <1>3, SeqTypes, Ring DEF InFlight, Txs
  <2> QED BY <1>1, <2>1, Ring DEF SendNext, LoopPc
<1>6. UNCHANGED <<rx_seq_nr_expected, pushback, job, console, executed, confirmed, aborted>>
  BY DEF SendNext, history
<1> HIDE DEF TxOK
<1> QED BY <1>1, <1>2, <1>3, <1>4, <1>5, <1>6, Ring
        DEF IInv, TypeOK, RetriesOK, PushbackOK, Msgs, Txs

\* Leaving the window wait for the loop's test, with the attempts counted.
LEMMA WindowReturnedOK ==
  ASSUME IInv, pc = "window", NEW t \in Txs, WindowReturned(t)
  PROVE  /\ pc' \in {"idle", "sending", "window", "final"}
         /\ pc' = "sending" => InFlight(t) < SEND_WINDOW
         /\ retries' \in 0 .. MAX_WINDOW_RETRIES + 1 /\ old_acked' \in Seqs
         /\ RetriesOK' /\ aborted' \subseteq Requests
<1>1. InFlight(t) \in Nat /\ t.acked \in Seqs
  BY SeqTypes, Ring DEF InFlight, Txs
<1>2. /\ retries \in Nat /\ retries < MAX_WINDOW_RETRIES /\ old_acked \in Seqs
      /\ job \in Jobs /\ job.req \in Requests /\ aborted \subseteq Requests
  BY DEF IInv, TypeOK, RetriesOK, Jobs
<1>3. /\ LoopPc(t, job, sent) \in {"sending", "window", "final"}
      /\ LoopPc(t, job, sent) = "sending" => InFlight(t) < SEND_WINDOW
  BY <1>1, Ring DEF LoopPc
<1>4. CASE t.acked # old_acked
  <2>1. pc' = LoopPc(t, job, sent) /\ retries' = 0 /\ old_acked' = t.acked /\ UNCHANGED aborted
    BY <1>4 DEF WindowReturned
  <2> QED BY <1>1, <1>2, <1>3, <2>1, Ring DEF RetriesOK
<1>5. CASE t.acked = old_acked /\ retries + 1 >= MAX_WINDOW_RETRIES
  <2>1. /\ pc' = "idle" /\ retries' = retries + 1 /\ UNCHANGED old_acked
        /\ aborted' = aborted \cup {job.req}
    BY <1>5 DEF WindowReturned
  <2>2. retries' \in 0 .. MAX_WINDOW_RETRIES + 1
    BY <1>2, <2>1, Ring
  <2>3. pc' = "idle" /\ RetriesOK'
    BY <2>1 DEF RetriesOK
  <2> QED BY <1>2, <2>1, <2>2, <2>3
<1>6. CASE t.acked = old_acked /\ ~(retries + 1 >= MAX_WINDOW_RETRIES)
  <2>1. pc' = LoopPc(t, job, sent) /\ retries' = retries + 1 /\ UNCHANGED <<old_acked, aborted>>
    BY <1>6 DEF WindowReturned
  <2> QED BY <1>2, <1>3, <1>6, <2>1, Ring DEF RetriesOK
<1> QED BY <1>4, <1>5, <1>6

\* The items a wait takes without handing them back, and its timeout.
LEMMA WaitStep ==
  ASSUME IInv,
         \/ \E m \in Items : WaitResent(m) \/ WindowAck(m) \/ WindowNack(m)
                             \/ FinalAck(m) \/ FinalNack(m)
         \/ WindowTimeout \/ FinalTimeout
  PROVE  IInv' /\ (tx'.acked # tx.acked => Diff(tx'.acked, tx.acked) <= InFlight(tx))
<1> DEFINE Progress == tx'.acked # tx.acked => Diff(tx'.acked, tx.acked) <= InFlight(tx)
<1>0. /\ tx \in Txs /\ TxOK(tx) /\ console \in Consoles /\ rx_seq_nr_expected \in Seqs
      /\ net \subseteq Msgs /\ pushback \in Seq(RequestMsgs)
  BY DEF IInv, TypeOK, Txs, Msgs
<1>a. <<>> \in Seq(RequestMsgs)
  OBVIOUS
<1>b. \A t \in Txs : \A q : Data(Retransmitted(t, q)) \subseteq Msgs
  BY <1>0, MessageTypes, RetransmittedType
<1>1. ASSUME NEW m \in Items, WaitResent(m) PROVE IInv' /\ Progress
  <2>1. RequestAck(rx_seq_nr_expected) \in Msgs
    BY <1>0, MessageTypes
  <2>2. net' \subseteq Msgs /\ pushback' = <<>>
    BY <1>1, <2>1, ConsumeOK DEF WaitResent, IInv
  <2>3. UNCHANGED <<tx, rx_seq_nr_expected, pc, job, sent, old_acked, retries, console, history>>
    BY <1>1 DEF WaitResent
  <2> QED BY <1>a, <2>2, <2>3 DEF IInv, TypeOK, RetriesOK, PushbackOK, history, Msgs, TxOK, InFlight
<1>2. ASSUME NEW m \in Items, WindowAck(m) PROVE IInv' /\ Progress
  <2>1. m.ack \in Seqs
    BY ItemTypes DEF IInv
  <2>2. TxOK(tx') /\ Progress /\ tx' \in Txs
    BY <1>2, <2>1, AcknowledgeTxOK DEF WindowAck, IInv, TxOK
  <2>3. net' \subseteq Msgs /\ pushback' = <<>>
    BY <1>2, ConsumeOK DEF WindowAck, IInv
  <2>4. pc = "window" /\ UNCHANGED <<rx_seq_nr_expected, job, sent, console, executed, confirmed>>
    BY <1>2 DEF WindowAck
  <2>5. CASE WindowReturned(tx')
    <3> HIDE DEF TxOK, Progress
    <3> QED BY <1>a, <2>2, <2>3, <2>4, <2>5, WindowReturnedOK DEF IInv, TypeOK, PushbackOK, Msgs, Txs
  <2>6. CASE UNCHANGED <<pc, retries, old_acked, aborted>>
    <3> HIDE DEF TxOK, Progress
    <3> QED BY <1>a, <2>2, <2>3, <2>4, <2>6 DEF IInv, TypeOK, PushbackOK, RetriesOK, Msgs, Txs
  <2> QED BY <1>2, <2>5, <2>6 DEF WindowAck
<1>3. ASSUME NEW m \in Items, WindowNack(m) PROVE IInv' /\ Progress
  <2>1. PrevSeq(m.ack) \in Seqs
    BY ItemTypes, SeqTypes DEF IInv
  <2>2. TxOK(tx') /\ Progress /\ tx' \in Txs
    BY <1>3, <2>1, AcknowledgeTxOK DEF WindowNack, IInv, TxOK
  <2>3. net' \subseteq Msgs /\ pushback' = <<>>
    BY <1>3, <1>b, <2>2, ConsumeOK DEF WindowNack, IInv
  <2>4. pc = "window" /\ UNCHANGED <<rx_seq_nr_expected, job, sent, console, executed, confirmed>>
    BY <1>3 DEF WindowNack
  <2>5. CASE WindowReturned(tx')
    <3> HIDE DEF TxOK, Progress
    <3> QED BY <1>a, <2>2, <2>3, <2>4, <2>5, WindowReturnedOK DEF IInv, TypeOK, PushbackOK, Msgs, Txs
  <2>6. CASE UNCHANGED <<pc, retries, old_acked, aborted>>
    <3> HIDE DEF TxOK, Progress
    <3> QED BY <1>a, <2>2, <2>3, <2>4, <2>6 DEF IInv, TypeOK, PushbackOK, RetriesOK, Msgs, Txs
  <2> QED BY <1>3, <2>5, <2>6 DEF WindowNack
<1>4. ASSUME NEW m \in Items, FinalAck(m) PROVE IInv' /\ Progress
  <2>1. m.ack \in Seqs
    BY ItemTypes DEF IInv
  <2> DEFINE t == AcknowledgeTx(tx, m.ack)
  <2>2. TxOK(t) /\ (t.acked # tx.acked => Diff(t.acked, tx.acked) <= InFlight(tx))
    BY <2>1, AcknowledgeTxOK DEF IInv
  <2>3. tx' = t \/ tx' = [t EXCEPT !.buffer = {}]
    BY <1>4 DEF FinalAck
  <2> HIDE DEF t
  <2>4. TxOK(tx') /\ Progress /\ tx' \in Txs
    BY <2>2, <2>3 DEF TxOK, Txs
  <2>5. net' \subseteq Msgs /\ pushback' = <<>>
    BY <1>4, ConsumeOK DEF FinalAck, IInv
  <2>6. /\ pc = "final" /\ pc' \in {"idle", "final"}
        /\ confirmed' \in {confirmed, confirmed \cup {job.req}}
        /\ UNCHANGED <<rx_seq_nr_expected, job, sent, old_acked, retries, console, executed, aborted>>
    BY <1>4 DEF FinalAck
  <2> HIDE DEF TxOK, Progress
  <2> QED BY <1>a, <2>4, <2>5, <2>6 DEF IInv, TypeOK, PushbackOK, RetriesOK, Msgs, Txs, Jobs
<1>5. ASSUME NEW m \in Items, FinalNack(m) PROVE IInv' /\ Progress
  <2>1. PrevSeq(m.ack) \in Seqs
    BY ItemTypes, SeqTypes DEF IInv
  <2>2. TxOK(tx') /\ Progress /\ tx' \in Txs
    BY <1>5, <2>1, AcknowledgeTxOK DEF FinalNack, IInv, TxOK
  <2>3. net' \subseteq Msgs /\ pushback' = <<>>
    BY <1>5, <1>b, <2>2, ConsumeOK DEF FinalNack, IInv
  <2>4. pc = "final"
        /\ UNCHANGED <<rx_seq_nr_expected, pc, job, sent, old_acked, retries, console, history>>
    BY <1>5 DEF FinalNack
  <2> HIDE DEF TxOK, Progress
  <2> QED BY <1>a, <2>2, <2>3, <2>4 DEF IInv, TypeOK, PushbackOK, RetriesOK, history, Msgs, Txs
<1>6. ASSUME WindowTimeout PROVE IInv' /\ Progress
  <2>1. net' \subseteq Msgs
    BY <1>0, <1>6, <1>b DEF WindowTimeout
  <2>2. /\ pc = "window" /\ WindowReturned(tx)
        /\ UNCHANGED <<tx, rx_seq_nr_expected, pushback, job, sent, console, executed, confirmed>>
    BY <1>6 DEF WindowTimeout
  <2> HIDE DEF TxOK
  <2> QED BY <1>0, <2>1, <2>2, WindowReturnedOK DEF IInv, TypeOK, PushbackOK, Msgs, Txs
<1>7. ASSUME FinalTimeout PROVE IInv' /\ Progress
  <2>1. net' \subseteq Msgs
    BY <1>0, <1>7, <1>b DEF FinalTimeout
  <2>2. /\ pc = "final" /\ pc' \in {"idle", "final"}
        /\ UNCHANGED <<tx, rx_seq_nr_expected, pushback, job, sent, old_acked, console, history>>
    BY <1>7 DEF FinalTimeout
  <2>3. retries' \in 0 .. MAX_WINDOW_RETRIES + 1 /\ RetriesOK'
    BY <1>7, <2>2, Ring DEF FinalTimeout, IInv, TypeOK, RetriesOK
  <2> HIDE DEF TxOK
  <2> QED BY <1>0, <2>1, <2>2, <2>3 DEF IInv, TypeOK, PushbackOK, history, Msgs, Txs
<1> QED BY <1>1, <1>2, <1>3, <1>4, <1>5, <1>6, <1>7

\* A new request ends a wait and is handed back to the worker.
LEMMA HandBackStep ==
  ASSUME IInv, NEW m \in Items, WindowNewRequest(m) \/ FinalNewRequest(m)
  PROVE  IInv' /\ (tx'.acked # tx.acked => Diff(tx'.acked, tx.acked) <= InFlight(tx))
<1> DEFINE t == AcknowledgeTx(tx, m.ack)
<1>1. m \in RequestMsgs /\ m.ack \in Seqs /\ pushback = <<>> /\ ConsumeAndPushBack(m)
  BY ItemTypes DEF WindowNewRequest, FinalNewRequest, IInv, PushbackOK
<1>2. net' \subseteq Msgs /\ pushback' \in Seq(RequestMsgs) /\ Len(pushback') = 1
  BY <1>1, HandBackOK DEF IInv
<1>3. TxOK(t) /\ (t.acked # tx.acked => Diff(t.acked, tx.acked) <= InFlight(tx))
  BY <1>1, AcknowledgeTxOK DEF IInv
<1>4. tx' = t \/ tx' = [t EXCEPT !.buffer = {}]
  BY DEF WindowNewRequest, FinalNewRequest
<1> HIDE DEF t
<1>5. TxOK(tx') /\ tx' \in Txs /\ tx'.acked = t.acked
  BY <1>3, <1>4 DEF TxOK, Txs
<1>6. /\ pc' = "idle"
      /\ confirmed' \in {confirmed, confirmed \cup {job.req}}
      /\ aborted' \in {aborted, aborted \cup {job.req}}
      /\ UNCHANGED <<rx_seq_nr_expected, job, sent, old_acked, retries, console, executed>>
  BY DEF WindowNewRequest, FinalNewRequest
<1> HIDE DEF TxOK
<1> QED BY <1>2, <1>3, <1>5, <1>6 DEF IInv, TypeOK, PushbackOK, RetriesOK, Msgs, Txs, Jobs

\* The console and the network touch nothing of the session.
LEMMA ConsoleStepOK ==
  ASSUME IInv, ConsoleStep \/ Lose
  PROVE  IInv' /\ UNCHANGED tx
<1>0. console \in Consoles /\ net \subseteq Msgs
  BY DEF IInv, TypeOK, Msgs
<1>1. UNCHANGED <<server, history>>
  BY DEF ConsoleStep, Lose, ConsoleSend, ConsoleResend, ConsoleNack, ConsoleRestart,
         ConsoleRequestAcked, ConsoleAccept, ConsoleReAck
<1>2. ASSUME NEW c \in Consoles PROVE RequestMsg(c) \in Msgs
  <2>1. c.seq \in Seqs /\ c.rx \in Seqs /\ c.job \in Jobs /\ c.req \in Nat
    BY Ring DEF Consoles
  <2> QED BY <2>1, SeqTypes DEF RequestMsg, Msgs, RequestMsgs
<1>3. console' \in Consoles /\ net' \subseteq Msgs
  <2>1. ASSUME ConsoleSend PROVE console' \in Consoles /\ net' \subseteq Msgs
    <3>1. console.req + 1 \in Requests
      BY <1>0, <2>1, Ring DEF ConsoleSend, Consoles, Requests
    <3>2. PICK j \in NewJobs(console.req + 1) :
            /\ console' = [console EXCEPT !.req = @ + 1, !.waiting = TRUE, !.acked = FALSE,
                                          !.got = <<>>, !.job = j]
            /\ net' = Surviving(j.req) \cup {RequestMsg(console')}
      BY <2>1 DEF ConsoleSend
    <3>3. j \in Jobs
      <4>1. CASE j = [req |-> console.req + 1, rpc |-> TRUE, n |-> 1]
        BY <3>1, <4>1 DEF Jobs
      <4>2. ASSUME NEW k \in StreamLens, j = [req |-> console.req + 1, rpc |-> FALSE, n |-> k]
            PROVE  j \in Jobs
        BY <3>1, <4>2, Ring DEF Jobs
      <4> QED BY <4>1, <4>2 DEF NewJobs
    <3>4. <<>> \in Seq(Requests \X Nat)
      OBVIOUS
    <3>5. console' \in Consoles
      BY <1>0, <3>1, <3>2, <3>3, <3>4 DEF Consoles
    <3> QED BY <1>0, <1>2, <3>2, <3>5 DEF Surviving
  <2>2. ASSUME ConsoleResend PROVE console' \in Consoles /\ net' \subseteq Msgs
    BY <1>0, <1>2, <2>2 DEF ConsoleResend
  <2>3. ASSUME ConsoleNack PROVE console' \in Consoles /\ net' \subseteq Msgs
    BY <1>0, <2>3, MessageTypes DEF ConsoleNack
  <2>4. ASSUME ConsoleRestart PROVE console' \in Consoles /\ net' \subseteq Msgs
    <3>1. <<>> \in Seq(Requests \X Nat)
      OBVIOUS
    <3> DEFINE n == console.restarts + 1
    <3>2. n \in Nat /\ 0 \in Seqs
      BY <1>0, Ring DEF Consoles
    <3>3. console' = [console EXCEPT !.seq = 0, !.rx = 0, !.waiting = FALSE, !.acked = FALSE,
                                     !.got = <<>>, !.restarts = n] /\ net' = {}
      BY <2>4 DEF ConsoleRestart
    <3> HIDE DEF n
    <3>4. console' \in Consoles
      BY <1>0, <3>1, <3>2, <3>3 DEF Consoles
    <3> QED BY <3>3, <3>4
  <2>5. ASSUME NEW m \in net, ConsoleRequestAcked(m)
        PROVE  console' \in Consoles /\ net' \subseteq Msgs
    BY <1>0, <2>5 DEF ConsoleRequestAcked, Consoles
  <2>6. ASSUME NEW m \in net, ConsoleReAck(m)
        PROVE  console' \in Consoles /\ net' \subseteq Msgs
    <3>1. Control("ack", PrevSeq(console.rx)) \in Msgs
      BY <1>0, MessageTypes, SeqTypes
    <3> QED BY <1>0, <2>6, <3>1 DEF ConsoleReAck
  <2>7. ASSUME NEW m \in net, ConsoleAccept(m)
        PROVE  console' \in Consoles /\ net' \subseteq Msgs
    <3> DEFINE rx == NextSeq(console.rx)
               last == m.pkt.fin \/ console.job.rpc
    <3>1. rx \in Seqs /\ PrevSeq(rx) \in Seqs /\ NextSeq(console.seq) \in Seqs
      BY <1>0, MessageTypes, SeqTypes
    <3>2. Control("ack", PrevSeq(rx)) \in Msgs
      BY <1>0, <3>1, MessageTypes
    <3>3. m \in DataMsgs
      BY <1>0, <2>7 DEF ConsoleAccept, Msgs, RequestMsgs, ControlMsgs, RequestAckMsgs
    <3>4. <<m.pkt.req, m.pkt.idx>> \in Requests \X Nat
      BY <3>3 DEF DataMsgs, Packets
    <3>5. Append(console.got, <<m.pkt.req, m.pkt.idx>>) \in Seq(Requests \X Nat)
      BY <1>0, <3>4 DEF Consoles
    <3>6. last \in BOOLEAN
      OBVIOUS
    <3> HIDE DEF rx, last
    <3>7. console' = [console EXCEPT !.rx = rx,
                          !.got = Append(@, <<m.pkt.req, m.pkt.idx>>),
                          !.waiting = ~last,
                          !.seq = IF last THEN NextSeq(@) ELSE @,
                          !.done = IF last THEN @ \cup {console.req} ELSE @]
      BY <2>7 DEF ConsoleAccept, rx, last
    <3>8. console' \in Consoles
      BY <1>0, <3>1, <3>5, <3>6, <3>7 DEF Consoles
    <3>9. net' \subseteq Msgs
      BY <1>0, <2>7, <3>2 DEF ConsoleAccept, rx
    <3> QED BY <3>8, <3>9
  <2>8. ASSUME Lose PROVE console' \in Consoles /\ net' \subseteq Msgs
    BY <1>0, <2>8 DEF Lose
  <2> QED BY <2>1, <2>2, <2>3, <2>4, <2>5, <2>6, <2>7, <2>8 DEF ConsoleStep
<1> QED BY <1>1, <1>3
        DEF IInv, TypeOK, RetriesOK, PushbackOK, server, history, Msgs, TxOK, InFlight

-----------------------------------------------------------------------------
\* A step keeps the invariant, and moves the acknowledged position forward
\* within what was sent unless the peer started over.
LEMMA StepIInv ==
  ASSUME IInv, [Next]_vars
  PROVE  /\ IInv'
         /\ tx'.acked # tx.acked =>
              \/ Diff(tx'.acked, tx.acked) <= InFlight(tx)
              \/ tx'.acked = 0 /\ rx_seq_nr_expected' = 1
<1> DEFINE Goal == /\ IInv'
                   /\ tx'.acked # tx.acked =>
                        \/ Diff(tx'.acked, tx.acked) <= InFlight(tx)
                        \/ tx'.acked = 0 /\ rx_seq_nr_expected' = 1
<1>1. ASSUME NEW m \in Items, HandleRequest(m) PROVE Goal
  <2>1. m.ack \in Seqs /\ rx_seq_nr_expected \in Seqs
    BY ItemTypes DEF IInv, TypeOK
  <2>2. /\ TxOK(AcknowledgeTx(tx, m.ack))
        /\ AcknowledgeTx(tx, m.ack).acked # tx.acked => Diff(m.ack, tx.acked) <= InFlight(tx)
        /\ AcknowledgeTx(tx, m.ack).acked \in {m.ack, tx.acked}
    BY <2>1, AcknowledgeTxOK DEF IInv
  <2>3. AcknowledgeTx(tx, m.ack) \in Txs
    BY <2>2 DEF TxOK
  <2>4. IInv' /\ tx'.acked = AcknowledgeTx(tx, m.ack).acked
    BY <1>1, <2>1, <2>3, ExecuteStep DEF HandleRequest
  <2> QED BY <2>2, <2>4
<1>2. ASSUME NEW m \in Items, HandlePeerReset(m) PROVE Goal
  <2>1. ResetTx \in Txs /\ ResetTx.acked = 0 /\ 0 \in Seqs
    BY Ring DEF ResetTx, Txs
  <2>2. IInv' /\ tx'.acked = 0
    BY <1>2, <2>1, ExecuteStep DEF HandlePeerReset
  <2>3. rx_seq_nr_expected' = 1
    BY <1>2, Ring DEF HandlePeerReset, Execute, NextSeq
  <2> QED BY <2>2, <2>3
<1>3. ASSUME NEW m \in Items, HandleAck(m) \/ HandleNack(m) \/ HandleDuplicate(m) \/ HandleOutOfSequence(m)
      PROVE  Goal
  BY <1>3, ControlStep
<1>4. ASSUME NEW m \in Items, WindowNewRequest(m) \/ FinalNewRequest(m) PROVE Goal
  BY <1>4, HandBackStep
<1>5. ASSUME NEW m \in Items, WaitResent(m) \/ WindowAck(m) \/ WindowNack(m) \/ FinalAck(m) \/ FinalNack(m)
      PROVE  Goal
  BY <1>5, WaitStep
<1>6. ASSUME WindowTimeout \/ FinalTimeout PROVE Goal
  BY <1>6, WaitStep
<1>7. ASSUME SendNext PROVE Goal
  BY <1>7, SendNextStep
<1>8. ASSUME ConsoleStep \/ Lose PROVE Goal
  BY <1>8, ConsoleStepOK
<1>9. ASSUME UNCHANGED vars PROVE Goal
  BY <1>9 DEF vars, IInv, TypeOK, RetriesOK, PushbackOK, TxOK, InFlight
<1> HIDE DEF Goal
<1>10. Goal
  BY <1>1, <1>2, <1>3, <1>4, <1>5, <1>6, <1>7, <1>8, <1>9 DEF Next, ServerStep, Receive
<1> QED BY <1>10 DEF Goal

\* The inductive invariant holds in every reachable state.
THEOREM Invariance == Spec => []IInv
<1>1. Init => IInv
  BY InitIInv
<1>2. IInv /\ [Next]_vars => IInv'
  BY StepIInv
<1> QED BY <1>1, <1>2, PTL DEF Spec

\* Type correctness of the transport: numbers stay on the ring, retry counters
\* within their limit, and only requests are handed back.
THEOREM TypeCorrect == Spec => []TypeOK
<1>1. IInv => TypeOK
  BY DEF IInv
<1> QED BY Invariance, <1>1, PTL

\* The kept packets are the last SEND_WINDOW + 1 at most, whatever arrives, so
\* the half-ring tests of _acknowledge_tx and _retransmit_from never wrap.
THEOREM BufferBounded == Spec => []WindowBounded
<1>1. IInv => WindowBounded
  BY DEF IInv, TxOK, WindowBounded
<1> QED BY Invariance, <1>1, PTL

\* A transfer never starts with, or keeps, an item handed back.
THEOREM NothingHandedBack == Spec => []PushbackDrained
<1>1. IInv => PushbackDrained
  BY DEF IInv, PushbackOK, PushbackDrained
<1> QED BY Invariance, <1>1, PTL

\* No datagram, stale, repeated or unexpected, rewinds the acknowledged
\* position or moves it past what was sent; only a peer reset changes it so.
THEOREM AckMonotone == Spec => AckNeverRewinds
<1> DEFINE Ack == tx'.acked # tx.acked =>
                    \/ Diff(tx'.acked, tx.acked) <= Diff(tx.seq_nr, NextSeq(tx.acked))
                    \/ tx'.acked = 0 /\ rx_seq_nr_expected' = 1
<1>1. IInv /\ [Next]_vars => [Ack]_vars
  BY StepIInv DEF InFlight
<1> QED BY Invariance, <1>1, PTL DEF Spec, AckNeverRewinds

-----------------------------------------------------------------------------
(* What the console's side and the session's have to do with each other.    *)

\* The bounds under which no number comes round while a datagram that bears it is on the way:
\* the replies to as many requests as a datagram outlives, and two more, fit on the ring; and no
\* request that may arrive late has number 0, which the session takes for a console that starts
\* over. The console does not start over.
Late(L) ==
  /\ L \in Nat \ {0} /\ (\A k \in StreamLens : k <= L)
  /\ (MaxAge + 2) * L + SEND_WINDOW + 2 < SeqMod
  /\ MaxRestarts = 0
  /\ \/ MaxAge = 0
     \/ ~Fresh /\ \A s \in Starts : MaxRequests > 1 => 0 < s[2] /\ s[2] + MaxRequests <= SeqMod + 1

\* The number d places before a.
Back(a, d) == IF a >= d THEN a - d ELSE a - d + SeqMod

Got == Len(console.got)
Base == Back(console.rx, Got)       \* the number of the first packet of the reply to the last request
ReqSeq == IF console.waiting THEN console.seq ELSE PrevSeq(console.seq)   \* that request's number
Runs == executed[console.req]
Count == IF job.rpc THEN 1 ELSE sent  \* packets of the reply that are out

\* A request that is not the last one has a number other than 0.
NumberOK ==
  IF console.req > 0 THEN 0 < ReqSeq /\ ReqSeq + (MaxRequests - console.req) <= SeqMod
                     ELSE MaxRequests > 1 => 0 < console.seq /\ console.seq + MaxRequests <= SeqMod + 1

ConsoleOK(L) ==
  /\ console.job.req = console.req /\ console.job.n \in 1 .. L /\ (console.job.rpc => console.job.n = 1)
  /\ console.req = 0 => ~console.waiting /\ console.got = <<>> /\ net = {} /\ pushback = <<>>
  /\ console.waiting => Got < console.job.n
  /\ ~console.waiting /\ console.req > 0 => Got = console.job.n /\ Runs = 1 /\ console.req \in console.done
  /\ \A r \in Requests : r > 0 /\ r < console.req => r \in console.done
  /\ \A r \in Requests : executed[r] \in {0, 1} /\ (r = 0 \/ r > console.req => executed[r] = 0)
  /\ confirmed \subseteq console.done
  /\ MaxAge = 0 \/ (console.req < MaxRequests => NumberOK)

\* A session that has not taken the last request: all it sent has arrived. A new one counts packet
\* 0 as acknowledged before it is sent.
Before(t, rx) ==
  /\ t.seq_nr = rx
  /\ InFlight(t) <= SEND_WINDOW \/ (t.seq_nr = 0 /\ t.acked = 0 /\ t.buffer = {})

\* Packet p of the reply of n packets to request r that starts at b, of which k are out.
Piece(p, b, k, r, n) ==
  Diff(p.seq, b) < k /\ p.req = r /\ p.idx = Diff(p.seq, b) + 1 /\ p.fin = (p.idx = n)

\* A session that has k packets of that reply out, of which the console has g.
During(t, b, g, k, r, n) ==
  /\ Diff(t.seq_nr, b) = k /\ InFlight(t) <= SEND_WINDOW /\ InFlight(t) <= k
  /\ \A p \in t.buffer : Piece(p, b, k, r, n)
  /\ \A d \in g .. k - 1 : \E p \in t.buffer : Diff(p.seq, b) = d

TxNow(t) ==
  /\ Runs = 0 => Before(t, console.rx)
  /\ Runs = 1 => During(t, Base, Got, Count, console.req, console.job.n)
AtOK(at) ==
  /\ Runs = 0 => /\ at \in {"idle", "final"}
                 /\ at = "final" => job.req \in Requests /\ 0 < job.req /\ job.req < console.req
  /\ Runs = 1 => /\ at \in {"sending", "window"} => ~job.rpc /\ sent < job.n
                 /\ at = "final" => ~job.rpc /\ sent = job.n
ServerOK ==
  /\ TxNow(tx) /\ AtOK(pc)
  /\ Runs = 0 => console.got = <<>> /\ rx_seq_nr_expected = console.seq
  /\ Runs = 1 => /\ rx_seq_nr_expected = NextSeq(ReqSeq) /\ job = console.job
                 /\ Count \in 1 .. console.job.n /\ Got <= Count

\* What a datagram to the session says the console expects next.
Expects(m) == IF m.kind = "nack" THEN m.ack ELSE NextSeq(m.ack)
\* It is a number of this reply, up to what the console has, or one at most r before.
Heard(e, b, g, r) == Diff(e, b) <= g \/ Diff(b, e) <= r

\* A datagram on the way, when the last request was c, with number s for job j, taken x times, its
\* reply beginning at b, g packets of it with the console and k out.
MsgOK(L, m, c, s, j, x, b, g, k) ==
  LET age == c - m.born IN
  /\ m.born <= c /\ age <= MaxAge
  /\ m.kind = "req" =>
       \/ age = 0 /\ m.seq = s /\ m.job = j /\ Diff(Expects(m), b) <= g
       \/ 0 < age /\ m.seq # 0 /\ Diff(s, m.seq) = age /\ Diff(b, Expects(m)) <= age * L
  /\ m.kind \in {"ack", "nack"} => Heard(Expects(m), b, g, age * L)
  /\ m.kind = "data" =>
       (x = 1 /\ Piece(m.pkt, b, k, c, j.n)) \/ Diff(b, m.pkt.seq) \in 1 .. age * L + SEND_WINDOW + 1
  /\ m.kind = "reqack" => Diff(s, m.ack) <= age + 1 /\ (m.ack = s => x = 1)
NetOK(L) == \A m \in net : MsgOK(L, m, console.req, ReqSeq, console.job, Runs, Base, Got, Count)

\* What is handed back is the request to take next, or one from long ago.
HandedOK(L, m) ==
  \/ Runs = 0 /\ m.seq = ReqSeq /\ m.job = console.job /\ Expects(m) = Base
  \/ /\ m.seq \notin {rx_seq_nr_expected, PrevSeq(rx_seq_nr_expected), 0}
     /\ Diff(Base, Expects(m)) <= MaxAge * L + (IF Runs = 1 THEN 0 ELSE L)
PushOK(L) == pushback # <<>> => HandedOK(L, Head(pushback))

Tracked(L) == ConsoleOK(L) /\ ServerOK /\ NetOK(L) /\ PushOK(L)

-----------------------------------------------------------------------------
\* Distances on the ring, (a - b) & 0xFFF: they add up, and the other way round is the rest of the ring.
LEMMA DiffFacts ==
  ASSUME NEW a \in Seqs, NEW b \in Seqs, NEW c \in Seqs
  PROVE  /\ Diff(a, b) \in Nat /\ Diff(a, b) < SeqMod
         /\ (Diff(a, b) = 0) <=> (a = b)
         /\ Diff(a, c) = (IF Diff(a, b) + Diff(b, c) < SeqMod
                           THEN Diff(a, b) + Diff(b, c) ELSE Diff(a, b) + Diff(b, c) - SeqMod)
         /\ a # b => Diff(b, a) = SeqMod - Diff(a, b)
BY Ring DEF Seqs, Diff

\* The next and the previous number.
LEMMA NextFacts ==
  ASSUME NEW a \in Seqs, NEW b \in Seqs
  PROVE  /\ NextSeq(a) \in Seqs /\ PrevSeq(a) \in Seqs
         /\ NextSeq(PrevSeq(a)) = a /\ PrevSeq(NextSeq(a)) = a
         /\ NextSeq(a) # a /\ PrevSeq(a) # a
         /\ Diff(NextSeq(a), a) = 1
         /\ Diff(NextSeq(a), b) = (IF Diff(a, b) + 1 < SeqMod THEN Diff(a, b) + 1 ELSE 0)
         /\ Diff(a, NextSeq(b)) = (IF a = b THEN SeqMod - 1 ELSE Diff(a, b) - 1)
         /\ Diff(PrevSeq(a), b) = Diff(a, NextSeq(b))
BY Ring DEF Seqs, Diff, NextSeq, PrevSeq

\* Going back d places.
LEMMA BackFacts ==
  ASSUME NEW a \in Seqs, NEW d \in Nat, d < SeqMod
  PROVE  /\ Back(a, d) \in Seqs /\ Diff(a, Back(a, d)) = d
         /\ Back(a, 0) = a
         /\ d + 1 < SeqMod => Back(NextSeq(a), d + 1) = Back(a, d)
BY Ring DEF Seqs, Diff, Back, NextSeq

\* The reach of a datagram that is k requests old.
LEMMA Reach ==
  ASSUME NEW L, Late(L), NEW k \in Nat, k <= MaxAge
  PROVE  /\ k * L \in Nat /\ (k + 1) * L = k * L + L /\ L \in Nat \ {0}
         /\ k * L <= MaxAge * L /\ MaxAge * L \in Nat
         /\ MaxAge * L + L + L + SEND_WINDOW + 2 < SeqMod
         /\ MaxAge + 2 < SeqMod /\ MaxAge \in Nat
<1>1. /\ MaxAge \in Nat /\ L \in Nat \ {0} /\ (MaxAge + 2) * L + SEND_WINDOW + 2 < SeqMod
      /\ SEND_WINDOW \in Nat /\ SeqMod \in Nat
  BY TransportAssumption, Ring DEF Late
<1>2. PICK p \in Nat : p = MaxAge - k
  BY <1>1
<1>3. MaxAge = k + p
  BY <1>1, <1>2
<1>4. k * L \in Nat /\ p * L \in Nat /\ MaxAge * L \in Nat
  BY <1>1
<1>5. MaxAge * L = k * L + p * L
  BY <1>1, <1>3
<1>6. (MaxAge + 2) * L = MaxAge * L + L + L
  BY <1>1
<1>7. (k + 1) * L = k * L + L
  BY <1>1
<1>8. MaxAge <= MaxAge * L
  <2>1. PICK q \in Nat : L = q + 1
    <3>1. L - 1 \in Nat /\ L = (L - 1) + 1
      BY <1>1
    <3> QED BY <3>1
  <2>2. MaxAge * L = MaxAge * q + MaxAge /\ MaxAge * q \in Nat
    BY <1>1, <2>1
  <2> QED BY <1>1, <2>2
<1> QED BY <1>1, <1>4, <1>5, <1>6, <1>7, <1>8

\* _acknowledge_tx, told what the console expects next: nothing changes, or the position moves
\* forward within what was sent.
LEMMA AckCases ==
  ASSUME NEW t \in Txs, NEW e \in Seqs, NEW u, u = AcknowledgeTx(t, PrevSeq(e))
  PROVE  /\ ~AckAccepted(t, PrevSeq(e)) => u = t
         /\ AckAccepted(t, PrevSeq(e)) =>
              /\ u \in Txs /\ u.seq_nr = t.seq_nr /\ NextSeq(u.acked) = e
              /\ Diff(e, NextSeq(t.acked)) <= InFlight(t) /\ InFlight(t) < Half
              /\ u.buffer = {p \in t.buffer : Diff(p.seq, e) < Half}
<1>1. t.seq_nr \in Seqs /\ t.acked \in Seqs /\ t.buffer \in SUBSET Packets
  BY DEF Txs
<1>2. PrevSeq(e) \in Seqs /\ NextSeq(PrevSeq(e)) = e /\ Diff(PrevSeq(e), t.acked) = Diff(e, NextSeq(t.acked))
  BY <1>1, NextFacts
<1>3. CASE ~AckAccepted(t, PrevSeq(e))
  BY <1>3 DEF AcknowledgeTx
<1>4. CASE AckAccepted(t, PrevSeq(e))
  <2>1. PICK B : B = {p \in t.buffer : Diff(p.seq, e) < Half}
    OBVIOUS
  <2>2. u = [t EXCEPT !.acked = PrevSeq(e), !.buffer = B]
    BY <1>2, <1>4, <2>1 DEF AcknowledgeTx
  <2>3. u \in Txs /\ u.seq_nr = t.seq_nr /\ u.acked = PrevSeq(e) /\ u.buffer = B
    BY <1>1, <1>2, <2>1, <2>2 DEF Txs
  <2>4. Diff(e, NextSeq(t.acked)) <= InFlight(t) /\ InFlight(t) < Half
    BY <1>2, <1>4 DEF AckAccepted, InFlight
  <2> QED BY <1>2, <1>4, <2>1, <2>3, <2>4
<1> QED BY <1>3, <1>4

\* An acknowledgement leaves a session that has not taken the request with nothing new in flight.
LEMMA AckBefore ==
  ASSUME NEW t \in Txs, NEW rx \in Seqs, Before(t, rx), NEW e \in Seqs, NEW u, u = AcknowledgeTx(t, PrevSeq(e))
  PROVE  Before(u, rx)
<1>1. CASE ~AckAccepted(t, PrevSeq(e))
  <2>1. u = t
    BY <1>1, AckCases
  <2> QED BY <1>1, <2>1
<1>2. CASE AckAccepted(t, PrevSeq(e))
  <2>1. /\ u.seq_nr = t.seq_nr /\ NextSeq(u.acked) = e
        /\ Diff(e, NextSeq(t.acked)) <= InFlight(t) /\ InFlight(t) < Half
    BY <1>2, AckCases
  <2>2. PICK a \in Seqs : a = NextSeq(t.acked)
    BY NextFacts DEF Txs
  <2>3. t.seq_nr \in Seqs
    BY DEF Txs
  <2>4. InFlight(t) = Diff(t.seq_nr, a) /\ InFlight(u) = Diff(t.seq_nr, e)
    BY <2>1, <2>2 DEF InFlight
  <2>5. Diff(t.seq_nr, e) <= Diff(t.seq_nr, a)
    <3>1. Diff(e, a) <= Diff(t.seq_nr, a)
      BY <2>1, <2>2, <2>4
    <3> QED BY <2>3, <3>1, Ring DEF Diff, Seqs
  <2>6. Diff(t.seq_nr, a) \in Nat /\ Diff(t.seq_nr, e) \in Nat
    BY <2>3, DiffFacts
  <2>7. InFlight(t) <= SEND_WINDOW
    <3>1. ASSUME t.seq_nr = 0, t.acked = 0 PROVE FALSE
      <4>1. InFlight(t) = SeqMod - 1
        BY <3>1, Ring DEF InFlight, Diff, NextSeq, Seqs
      <4> QED BY <2>1, <4>1, Ring
    <3> QED BY <3>1 DEF Before
  <2>8. InFlight(u) <= SEND_WINDOW
    BY <2>4, <2>5, <2>6, <2>7, Ring
  <2> QED BY <2>1, <2>8 DEF Before
<1> QED BY <1>1, <1>2

\* What the console said it has is dropped, what it may lack is kept.
LEMMA AckDuring ==
  ASSUME NEW t \in Txs, NEW b \in Seqs, NEW g \in Nat, NEW k \in Nat, g <= k, NEW r, NEW n, During(t, b, g, k, r, n),
         NEW e \in Seqs, NEW far \in Nat, Heard(e, b, g, far), far + k < SeqMod, NEW u, u = AcknowledgeTx(t, PrevSeq(e))
  PROVE  During(u, b, g, k, r, n) /\ (AckAccepted(t, PrevSeq(e)) => Diff(e, b) <= g)
<1>1. CASE ~AckAccepted(t, PrevSeq(e))
  <2>1. u = t
    BY <1>1, AckCases
  <2> QED BY <1>1, <2>1
<1>2. CASE AckAccepted(t, PrevSeq(e))
  <2>1. /\ u \in Txs /\ u.seq_nr = t.seq_nr /\ NextSeq(u.acked) = e
        /\ Diff(e, NextSeq(t.acked)) <= InFlight(t) /\ InFlight(t) < Half
        /\ u.buffer = {p \in t.buffer : Diff(p.seq, e) < Half}
    BY <1>2, AckCases
  <2>2. PICK a \in Seqs : a = NextSeq(t.acked)
    BY NextFacts DEF Txs
  <2>3. PICK s \in Seqs : s = t.seq_nr
    BY DEF Txs
  <2>4. InFlight(t) = Diff(s, a) /\ InFlight(u) = Diff(s, e) /\ Diff(s, b) = k
    BY <2>1, <2>2, <2>3 DEF InFlight, During
  <2>5. Diff(s, a) <= SEND_WINDOW /\ Diff(s, a) <= k /\ Diff(e, a) <= Diff(s, a)
    BY <2>1, <2>2, <2>4 DEF During
  <2>6. Diff(s, e) <= Diff(s, a)
    BY <2>5, Ring DEF Diff, Seqs
  <2>7. Diff(e, b) <= k
    BY <2>4, <2>5, Ring DEF Diff, Seqs
  <2>8. Diff(e, b) <= g
    <3>1. CASE Diff(e, b) <= g
      BY <3>1
    <3>2. CASE Diff(b, e) <= far
      <4>1. e = b \/ Diff(b, e) = SeqMod - Diff(e, b)
        BY DiffFacts
      <4>2. Diff(e, b) \in Nat /\ Diff(b, e) \in Nat /\ (e = b => Diff(e, b) = 0)
        BY DiffFacts
      <4>3. e = b
        BY ONLY <2>7, <3>2, <4>1, <4>2, far + k < SeqMod, far \in Nat, k \in Nat, Ring
      <4> QED BY <4>2, <4>3
    <3> QED BY <3>1, <3>2 DEF Heard
  <2>9. Diff(s, e) = k - Diff(e, b)
    BY <2>4, <2>7, Ring DEF Diff, Seqs
  <2>10. \A d \in g .. k - 1 : \E p \in u.buffer : Diff(p.seq, b) = d
    <3> TAKE d \in g .. k - 1
    <3>1. PICK p \in t.buffer : Diff(p.seq, b) = d
      BY DEF During
    <3>2. p.seq \in Seqs
      BY DEF Txs, Packets
    <3>3. Diff(p.seq, e) = d - Diff(e, b)
      <4>1. Diff(e, b) <= d
        BY <2>8, DiffFacts
      <4> QED BY <3>1, <3>2, <4>1, Ring DEF Diff, Seqs
    <3>4. PICK q \in Nat : q = Diff(e, b)
      BY DiffFacts
    <3>5. k - q <= SEND_WINDOW
      <4>1. Diff(s, e) \in Nat /\ Diff(s, a) \in Nat
        BY DiffFacts
      <4> QED BY <2>5, <2>6, <2>9, <3>4, <4>1, Ring
    <3>6. Diff(p.seq, e) < Half
      BY <3>3, <3>4, <3>5, Ring
    <3> QED BY <2>1, <3>1, <3>6
  <2>11. InFlight(u) <= SEND_WINDOW /\ InFlight(u) <= k
    <3>1. Diff(s, e) \in Nat /\ Diff(s, a) \in Nat
      BY DiffFacts
    <3> QED BY <2>4, <2>5, <2>6, <3>1, Ring
  <2>12. \A p \in u.buffer : Piece(p, b, k, r, n)
    BY <2>1 DEF During
  <2> QED BY <2>1, <2>3, <2>4, <2>8, <2>10, <2>11, <2>12 DEF During
<1> QED BY <1>1, <1>2

-----------------------------------------------------------------------------
\* The numbers the invariant speaks about.
LEMMA Numbers ==
  ASSUME NEW L, Late(L), IInv, Tracked(L)
  PROVE  /\ console.req \in Nat /\ console.req \in Requests /\ console.rx \in Seqs /\ console.seq \in Seqs
         /\ rx_seq_nr_expected \in Seqs /\ console.job \in Jobs
         /\ Got \in Nat /\ console.job.n \in Nat /\ Got <= console.job.n /\ console.job.n <= L /\ L < SeqMod
         /\ Base \in Seqs /\ ReqSeq \in Seqs /\ Diff(console.rx, Base) = Got /\ (Got = 0 => Base = console.rx)
         /\ Runs \in {0, 1} /\ (console.req = 0 => Runs = 0)
         /\ Runs = 0 => Got = 0
         /\ Runs = 0 /\ console.req > 0 => console.waiting /\ rx_seq_nr_expected = ReqSeq
         /\ Runs = 1 => /\ rx_seq_nr_expected = NextSeq(ReqSeq) /\ PrevSeq(rx_seq_nr_expected) = ReqSeq
                        /\ Count \in Nat /\ Got <= Count /\ Count <= console.job.n
<1>1. /\ console.req \in Nat /\ console.req \in Requests /\ console.rx \in Seqs /\ console.seq \in Seqs
      /\ rx_seq_nr_expected \in Seqs /\ console.got \in Seq(Requests \X Nat) /\ console.job \in Jobs
  BY Ring DEF IInv, TypeOK, Consoles
<1>2. Got \in Nat
  BY <1>1 DEF Got
<1>3. console.job.n \in Nat /\ console.job.n <= L /\ 1 <= console.job.n /\ L \in Nat
  BY DEF Tracked, ConsoleOK, Late
<1>4. console.got = <<>> => Got = 0
  BY DEF Got
<1>5. Got <= console.job.n
  BY <1>1, <1>2, <1>3, <1>4 DEF Tracked, ConsoleOK
<1>6. L < SeqMod
  <2>1. 0 \in Nat /\ 0 <= MaxAge
    BY TransportAssumption
  <2>2. MaxAge * L \in Nat /\ MaxAge * L + L + L + SEND_WINDOW + 2 < SeqMod
    BY <2>1, Reach
  <2> QED BY <1>3, <2>2, Ring
<1>7. Got < SeqMod
  BY <1>2, <1>3, <1>5, <1>6, Ring
<1>8. Base \in Seqs /\ Diff(console.rx, Base) = Got /\ (Got = 0 => Base = console.rx)
  BY <1>1, <1>2, <1>7, BackFacts DEF Base
<1>9. ReqSeq \in Seqs
  BY <1>1, NextFacts DEF ReqSeq
<1>10. Runs \in {0, 1} /\ (console.req = 0 => Runs = 0)
  BY <1>1 DEF Runs, Tracked, ConsoleOK
<1>11. Runs = 0 => Got = 0
  BY <1>4 DEF Tracked, ServerOK
<1>12. Runs = 0 /\ console.req > 0 => console.waiting /\ rx_seq_nr_expected = ReqSeq
  <2> SUFFICES ASSUME Runs = 0, console.req > 0 PROVE console.waiting /\ rx_seq_nr_expected = ReqSeq
    OBVIOUS
  <2>1. console.waiting
    BY DEF Tracked, ConsoleOK
  <2> QED BY <2>1 DEF Tracked, ServerOK, ReqSeq
<1>13. Runs = 1 => /\ rx_seq_nr_expected = NextSeq(ReqSeq) /\ PrevSeq(rx_seq_nr_expected) = ReqSeq
                   /\ Count \in Nat /\ Got <= Count /\ Count <= console.job.n
  BY <1>3, <1>9, NextFacts DEF Tracked, ServerOK
<1> QED BY <1>1, <1>2, <1>3, <1>5, <1>6, <1>8, <1>9, <1>10, <1>11, <1>12, <1>13

\* What an item of the queue may be.
LEMMA ItemFacts ==
  ASSUME NEW L, Late(L), IInv, Tracked(L), NEW m \in Items
  PROVE  /\ console.req > 0 /\ Expects(m) \in Seqs /\ Heard(Expects(m), Base, Got, MaxAge * L + L)
         /\ m.kind = "req" /\ m.seq = rx_seq_nr_expected =>
              Runs = 0 /\ m.job = console.job /\ Expects(m) = console.rx
         /\ m.kind = "req" /\ m.seq = 0 => m.seq \in {rx_seq_nr_expected, PrevSeq(rx_seq_nr_expected)}
         /\ m.kind = "req" /\ m.seq # PrevSeq(rx_seq_nr_expected) => HandedOK(L, m)
<1>1. m.ack \in Seqs /\ (m.kind = "req" => m \in RequestMsgs) /\ m \in ToServer
  <2>1. m \in ToServer
    <3>1. CASE pushback # <<>>
      <4>1. Head(pushback) \in RequestMsgs
        BY <3>1 DEF IInv, TypeOK
      <4> QED BY <3>1, <4>1 DEF Items, ToServer
    <3>2. CASE pushback = <<>>
      BY <3>2 DEF Items
    <3> QED BY <3>1, <3>2
  <2> QED BY <2>1, ItemTypes DEF IInv
<1>2. Expects(m) \in Seqs /\ (m.kind = "req" => m.seq \in Seqs)
  BY <1>1, NextFacts DEF Expects, RequestMsgs
<1>3. console.req > 0
  <2>1. console.req # 0
    BY DEF Tracked, ConsoleOK, Items
  <2> QED BY <2>1, Numbers
<1>4. PICK R \in Nat : R = MaxAge * L /\ L \in Nat /\ MaxAge + 2 < SeqMod /\ MaxAge \in Nat
  <2>1. 0 \in Nat /\ 0 <= MaxAge
    BY TransportAssumption
  <2> QED BY <2>1, Reach
<1>5. CASE pushback # <<>>
  <2>1. m = Head(pushback) /\ m \in RequestMsgs
    BY <1>5 DEF Items, IInv, TypeOK
  <2>2. HandedOK(L, m)
    BY <1>5, <2>1 DEF Tracked, PushOK
  <2>3. m.kind = "req"
    BY <2>1 DEF RequestMsgs
  <2>4. CASE Runs = 0 /\ m.seq = ReqSeq /\ m.job = console.job /\ Expects(m) = Base
    <3>1. Heard(Expects(m), Base, Got, MaxAge * L + L)
      BY <2>4, Numbers, DiffFacts DEF Heard
    <3> QED BY <1>2, <1>3, <2>2, <2>4, <3>1, Numbers
  <2>5. CASE /\ m.seq \notin {rx_seq_nr_expected, PrevSeq(rx_seq_nr_expected), 0}
             /\ Diff(Base, Expects(m)) <= MaxAge * L + (IF Runs = 1 THEN 0 ELSE L)
    <3>1. Diff(Base, Expects(m)) \in Nat
      BY <1>2, Numbers, DiffFacts
    <3>2. Diff(Base, Expects(m)) <= MaxAge * L + L
      BY <1>4, <2>5, <3>1
    <3> QED BY <1>2, <1>3, <2>2, <2>5, <3>2 DEF Heard
  <2> QED BY <2>2, <2>4, <2>5 DEF HandedOK
<1>6. CASE pushback = <<>>
  <2>1. m \in net
    BY <1>6 DEF Items
  <2>2. MsgOK(L, m, console.req, ReqSeq, console.job, Runs, Base, Got, Count)
    BY <2>1 DEF Tracked, NetOK
  <2>3. PICK age \in Nat : age = console.req - m.born /\ age <= MaxAge
    <3>1. m.born \in Nat
      BY <1>1 DEF ToServer, RequestMsgs, ControlMsgs
    <3> QED BY <2>2, <3>1, Numbers DEF MsgOK
  <2>4. PICK far \in Nat : far = age * L /\ far <= R
    BY <1>4, <2>3, Reach
  <2>5. /\ Diff(Base, Expects(m)) \in Nat /\ Diff(Expects(m), Base) \in Nat
        /\ Diff(Expects(m), Base) = 0 => Expects(m) = Base
    BY <1>2, Numbers, DiffFacts
  <2>6. Heard(Expects(m), Base, Got, MaxAge * L + L)
    <3>1. Heard(Expects(m), Base, Got, far)
      BY <1>1, <2>2, <2>3, <2>4 DEF MsgOK, Heard, ToServer, RequestMsgs, ControlMsgs
    <3> QED BY <1>4, <2>4, <2>5, <3>1 DEF Heard
  <2>7. ASSUME m.kind = "req", age = 0, m.seq = ReqSeq, m.job = console.job, Diff(Expects(m), Base) <= Got
        PROVE  /\ m.seq = rx_seq_nr_expected => Runs = 0 /\ m.job = console.job /\ Expects(m) = console.rx
               /\ m.seq = 0 => m.seq \in {rx_seq_nr_expected, PrevSeq(rx_seq_nr_expected)}
               /\ m.seq # PrevSeq(rx_seq_nr_expected) => HandedOK(L, m)
    <3>1. CASE Runs = 0
      <4>1. m.seq = rx_seq_nr_expected /\ Got = 0 /\ Base = console.rx
        BY <1>3, <2>7, <3>1, Numbers
      <4>2. Expects(m) = Base
        BY <2>5, <2>7, <4>1
      <4> QED BY <2>7, <3>1, <4>1, <4>2 DEF HandedOK
    <3>2. CASE Runs = 1
      <4>1. m.seq = PrevSeq(rx_seq_nr_expected) /\ m.seq # rx_seq_nr_expected
        BY <2>7, <3>2, Numbers, NextFacts
      <4> QED BY <4>1
    <3> QED BY <3>1, <3>2, Numbers
  <2>8. ASSUME m.kind = "req", 0 < age, m.seq # 0, Diff(ReqSeq, m.seq) = age, Diff(Base, Expects(m)) <= far
        PROVE  m.seq # rx_seq_nr_expected /\ (m.seq # PrevSeq(rx_seq_nr_expected) => HandedOK(L, m))
    <3>1. m.seq # rx_seq_nr_expected
      <4>1. CASE Runs = 0
        <5>1. rx_seq_nr_expected = ReqSeq
          BY <1>3, <4>1, Numbers
        <5>2. Diff(ReqSeq, ReqSeq) = 0
          BY Numbers, DiffFacts
        <5> QED BY <2>8, <5>1, <5>2
      <4>2. CASE Runs = 1
        <5>1. rx_seq_nr_expected = NextSeq(ReqSeq)
          BY <4>2, Numbers
        <5>2. Diff(ReqSeq, NextSeq(ReqSeq)) = SeqMod - 1
          BY Numbers, NextFacts
        <5> QED BY <1>4, <2>3, <2>8, <5>1, <5>2, Ring
      <4> QED BY <4>1, <4>2, Numbers
    <3>2. Diff(Base, Expects(m)) <= MaxAge * L + (IF Runs = 1 THEN 0 ELSE L)
      BY <1>4, <2>4, <2>5, <2>8
    <3> QED BY <2>8, <3>1, <3>2 DEF HandedOK
  <2>9. m.kind = "req" =>
          \/ age = 0 /\ m.seq = ReqSeq /\ m.job = console.job /\ Diff(Expects(m), Base) <= Got
          \/ 0 < age /\ m.seq # 0 /\ Diff(ReqSeq, m.seq) = age /\ Diff(Base, Expects(m)) <= far
    BY <2>2, <2>3, <2>4 DEF MsgOK
  <2> QED BY <1>2, <1>3, <2>6, <2>7, <2>8, <2>9
<1> QED BY <1>5, <1>6

\* The packets a session keeps, sent again, and its answers to a request.
LEMMA SentOK ==
  ASSUME NEW L, Late(L), IInv, Tracked(L), console.req > 0, NEW t, TxOK(t), TxNow(t),
         NEW m \in Data(t.buffer) \cup {RequestAck(rx_seq_nr_expected), RequestNack(rx_seq_nr_expected)}
  PROVE  MsgOK(L, m, console.req, ReqSeq, console.job, Runs, Base, Got, Count)
<1>1. 0 \in Nat /\ 0 <= MaxAge /\ 0 * L = 0 /\ console.req - console.req = 0
  BY TransportAssumption, Numbers DEF Late
<1>2. CASE m \in Data(t.buffer)
  <2>1. PICK p \in t.buffer : m = [kind |-> "data", pkt |-> p, born |-> console.req]
    BY <1>2 DEF Data
  <2>2. m.kind = "data" /\ m.pkt = p /\ m.born = console.req
    BY <2>1
  <2>3. CASE Runs = 1
    <3>1. Piece(m.pkt, Base, Count, console.req, console.job.n)
      BY <2>2, <2>3 DEF TxNow, During
    <3> QED BY <1>1, <2>2, <2>3, <3>1, Numbers DEF MsgOK
  <2>4. CASE Runs = 0
    <3>1. Diff(t.seq_nr, p.seq) \in 1 .. SEND_WINDOW + 1 /\ t.seq_nr = console.rx /\ Base = console.rx
      BY <2>4, Numbers DEF TxNow, Before, TxOK
    <3>2. Diff(Base, m.pkt.seq) \in 1 .. 0 * L + SEND_WINDOW + 1
      BY <1>1, <2>2, <3>1, Ring
    <3> QED BY <1>1, <2>2, <3>2, Numbers DEF MsgOK
  <2> QED BY <2>3, <2>4, Numbers
<1>3. CASE m = RequestAck(rx_seq_nr_expected)
  <2>1. m.kind = "reqack" /\ m.ack = PrevSeq(rx_seq_nr_expected) /\ m.born = console.req
    BY <1>3 DEF RequestAck
  <2>2. CASE Runs = 1
    <3>1. m.ack = ReqSeq /\ Diff(ReqSeq, m.ack) = 0
      BY <2>1, <2>2, Numbers, DiffFacts
    <3> QED BY <1>1, <2>1, <2>2, <3>1, Numbers DEF MsgOK
  <2>3. CASE Runs = 0
    <3>1. m.ack = PrevSeq(ReqSeq)
      BY <2>1, <2>3, Numbers
    <3>2. Diff(ReqSeq, PrevSeq(ReqSeq)) = 1 /\ PrevSeq(ReqSeq) # ReqSeq
      <4>1. PrevSeq(ReqSeq) \in Seqs /\ NextSeq(PrevSeq(ReqSeq)) = ReqSeq /\ PrevSeq(ReqSeq) # ReqSeq
        BY Numbers, NextFacts
      <4>2. Diff(NextSeq(PrevSeq(ReqSeq)), PrevSeq(ReqSeq)) = 1
        BY <4>1, NextFacts
      <4> QED BY <4>1, <4>2
    <3> QED BY <1>1, <2>1, <3>1, <3>2, Numbers DEF MsgOK
  <2> QED BY <2>2, <2>3, Numbers
<1>4. CASE m = RequestNack(rx_seq_nr_expected)
  <2>1. m.kind = "reqnack" /\ m.born = console.req
    BY <1>4 DEF RequestNack
  <2> QED BY <1>1, <2>1, Numbers DEF MsgOK
<1> QED BY <1>2, <1>3, <1>4

\* A step of the session that starts no reply and adds no packet to one.
LEMMA Quiet ==
  ASSUME NEW L, Late(L), IInv, Tracked(L), console.req > 0,
         console' = console, executed' = executed, job' = job, sent' = sent, rx_seq_nr_expected' = rx_seq_nr_expected,
         TxOK(tx'), TxNow(tx'), AtOK(pc'), pushback' # <<>> => HandedOK(L, Head(pushback')),
         net' \subseteq net \cup Data(tx'.buffer) \cup {RequestAck(rx_seq_nr_expected), RequestNack(rx_seq_nr_expected)},
         confirmed' \subseteq console.done
  PROVE  Tracked(L)'
<1>1. Got' = Got /\ Base' = Base /\ ReqSeq' = ReqSeq /\ Runs' = Runs /\ Count' = Count
  BY DEF Got, Base, ReqSeq, Runs, Count
<1>2. ConsoleOK(L)'
  BY <1>1 DEF Tracked, ConsoleOK, NumberOK
<1>3. ServerOK'
  <2>1. TxNow(tx)'
    BY <1>1 DEF TxNow
  <2>2. AtOK(pc)'
    BY <1>1 DEF AtOK
  <2> QED BY <1>1, <2>1, <2>2 DEF Tracked, ServerOK
<1>4. NetOK(L)'
  <2>1. ASSUME NEW m \in net' PROVE MsgOK(L, m, console.req, ReqSeq, console.job, Runs, Base, Got, Count)
    <3>1. CASE m \in net
      BY <3>1 DEF Tracked, NetOK
    <3>2. CASE m \notin net
      <4>1. PICK t : t = tx'
        OBVIOUS
      <4>2. m \in Data(t.buffer) \cup {RequestAck(rx_seq_nr_expected), RequestNack(rx_seq_nr_expected)}
        BY <3>2, <4>1
      <4>3. TxOK(t) /\ TxNow(t)
        BY <4>1
      <4> QED BY <4>2, <4>3, SentOK
    <3> QED BY <3>1, <3>2
  <2> QED BY <1>1, <2>1 DEF NetOK
<1>5. PushOK(L)'
  BY <1>1 DEF PushOK, HandedOK
<1> QED BY <1>2, <1>3, <1>4, <1>5 DEF Tracked

\* What a datagram of the console does to the transmit side.
LEMMA AckNow ==
  ASSUME NEW L, Late(L), IInv, Tracked(L), NEW m \in Items, NEW u,
         u = AcknowledgeTx(tx, IF m.kind = "nack" THEN PrevSeq(m.ack) ELSE m.ack)
  PROVE  /\ TxOK(u) /\ TxNow(u)
         /\ (IF m.kind = "nack" THEN PrevSeq(m.ack) ELSE m.ack) = PrevSeq(Expects(m)) /\ Expects(m) \in Seqs
         /\ Runs = 1 /\ AckAccepted(tx, PrevSeq(Expects(m))) => Diff(Expects(m), Base) <= Got
<1>1. m.ack \in Seqs
  <2>1. CASE pushback # <<>>
    <3>1. Head(pushback) \in RequestMsgs
      BY <2>1 DEF IInv, TypeOK
    <3> QED BY <2>1, <3>1 DEF Items, RequestMsgs
  <2>2. CASE pushback = <<>>
    BY <2>2 DEF Items, ToServer, RequestMsgs, ControlMsgs
  <2> QED BY <2>1, <2>2
<1>2. (IF m.kind = "nack" THEN PrevSeq(m.ack) ELSE m.ack) = PrevSeq(Expects(m)) /\ PrevSeq(Expects(m)) \in Seqs
  BY <1>1, NextFacts DEF Expects
<1>3. u = AcknowledgeTx(tx, PrevSeq(Expects(m)))
  BY <1>2
<1>4. tx \in Txs /\ TxOK(tx) /\ TxNow(tx)
  BY DEF IInv, TxOK, Tracked, ServerOK
<1>5. TxOK(u)
  BY <1>2, <1>3, <1>4, AcknowledgeTxOK
<1>6. Expects(m) \in Seqs /\ Heard(Expects(m), Base, Got, MaxAge * L + L)
  BY ItemFacts
<1>7. PICK far \in Nat : far = MaxAge * L + L /\ far + L < SeqMod /\ L \in Nat
  <2>1. 0 \in Nat /\ 0 <= MaxAge
    BY TransportAssumption
  <2>2. MaxAge * L \in Nat /\ L \in Nat /\ MaxAge * L + L + L + SEND_WINDOW + 2 < SeqMod
    BY <2>1, Reach
  <2> QED BY <2>2, Ring
<1>8. CASE Runs = 0
  <2>1. Before(u, console.rx)
    BY <1>3, <1>4, <1>6, <1>8, AckBefore, Numbers DEF TxNow
  <2> QED BY <1>2, <1>5, <1>6, <1>8, <2>1 DEF TxNow
<1>9. CASE Runs = 1
  <2>1. During(tx, Base, Got, Count, console.req, console.job.n)
    BY <1>4, <1>9 DEF TxNow
  <2>2. Base \in Seqs /\ Got \in Nat /\ Count \in Nat /\ Got <= Count /\ Count <= L
    BY <1>7, <1>9, Numbers
  <2>3. far + Count < SeqMod
    BY <1>7, <2>2, Ring
  <2>4. Heard(Expects(m), Base, Got, far)
    BY <1>6, <1>7
  <2>5. /\ During(u, Base, Got, Count, console.req, console.job.n)
        /\ AckAccepted(tx, PrevSeq(Expects(m))) => Diff(Expects(m), Base) <= Got
    BY <1>3, <1>4, <1>6, <2>1, <2>2, <2>3, <2>4, AckDuring
  <2> QED BY <1>2, <1>5, <1>6, <1>9, <2>5 DEF TxNow
<1> QED BY <1>8, <1>9, Numbers

\* A session whose last packet has arrived has nothing left to keep.
LEMMA Cleared ==
  ASSUME NEW L, Late(L), IInv, Tracked(L), NEW t, TxOK(t), TxNow(t), Runs = 1 => Got = Count,
         NEW u, u = [t EXCEPT !.buffer = {}]
  PROVE  TxOK(u) /\ TxNow(u)
<1>1. u \in Txs /\ u.seq_nr = t.seq_nr /\ u.acked = t.acked /\ u.buffer = {}
  BY DEF TxOK, Txs
<1>2. InFlight(u) = InFlight(t)
  BY <1>1 DEF InFlight
<1>3. TxOK(u)
  BY <1>1 DEF TxOK
<1>4. CASE Runs = 0
  BY <1>1, <1>2, <1>3, <1>4 DEF TxNow, Before
<1>5. CASE Runs = 1
  <2>1. Got .. Count - 1 = {}
    BY <1>5, Numbers
  <2> QED BY <1>1, <1>2, <1>3, <1>5, <2>1 DEF TxNow, During
<1> QED BY <1>4, <1>5, Numbers

\* Only packets that did arrive leave the buffer.
LEMMA NothingKept ==
  ASSUME NEW L, Late(L), IInv, Tracked(L), NEW t, TxNow(t), t.buffer = {}, Runs = 1
  PROVE  Got = Count
<1>1. \A d \in Got .. Count - 1 : FALSE
  BY DEF TxNow, During
<1>2. Got \in Nat /\ Count \in Nat /\ Got <= Count
  BY Numbers
<1>3. ~(Got <= Count - 1)
  BY <1>1, <1>2
<1> QED BY <1>2, <1>3

\* A stream that is out and has arrived is one the console is done with.
LEMMA StreamDone ==
  ASSUME NEW L, Late(L), IInv, Tracked(L), pc = "final", Runs = 1 => Got = Count
  PROVE  job.req \in console.done
<1>1. AtOK(pc) /\ ConsoleOK(L)
  BY DEF Tracked, ServerOK
<1>2. CASE Runs = 0
  BY <1>1, <1>2 DEF AtOK, ConsoleOK
<1>3. CASE Runs = 1
  <2>1. job = console.job /\ ~job.rpc /\ sent = job.n
    BY <1>1, <1>3 DEF AtOK, Tracked, ServerOK
  <2>2. Got = console.job.n
    BY <1>3, <2>1 DEF Count
  <2>3. ~console.waiting /\ console.req > 0 /\ job.req = console.req
    BY <1>1, <1>3, <2>1, <2>2, Numbers DEF ConsoleOK
  <2> QED BY <1>1, <2>3 DEF ConsoleOK
<1> QED BY <1>2, <1>3, Numbers

\* A worker inside a transfer serves a console that has made a request.
LEMMA AtFacts ==
  ASSUME NEW L, Late(L), IInv, Tracked(L)
  PROVE  /\ pc # "idle" => console.req > 0
         /\ AtOK(pc) /\ AtOK("idle")
         /\ pc = "window" => Runs = 1 /\ \A t : AtOK(LoopPc(t, job, sent))
         /\ TxOK(tx) /\ TxNow(tx) /\ confirmed \subseteq console.done
         /\ PushbackRest = <<>> /\ (pc # "idle" => pushback = <<>>)
<1>1. AtOK(pc) /\ TxNow(tx) /\ confirmed \subseteq console.done
  BY DEF Tracked, ServerOK, ConsoleOK
<1>2. AtOK("idle")
  BY DEF AtOK
<1>3. pc \in {"idle", "sending", "window", "final"} /\ TxOK(tx) /\ sent \in Nat /\ job.n \in Nat
  BY DEF IInv, TypeOK, Jobs
<1>4. pc # "idle" => console.req > 0
  <2>1. CASE Runs = 0
    BY <1>1, <1>3, <2>1, Numbers, Ring DEF AtOK, Requests
  <2>2. CASE Runs = 1
    BY <2>2, Numbers
  <2> QED BY <2>1, <2>2, Numbers
<1>5. pc = "window" => Runs = 1 /\ \A t : AtOK(LoopPc(t, job, sent))
  <2> SUFFICES ASSUME pc = "window" PROVE Runs = 1 /\ \A t : AtOK(LoopPc(t, job, sent))
    OBVIOUS
  <2>1. Runs = 1
    BY <1>1, Numbers DEF AtOK
  <2>2. ~job.rpc /\ sent < job.n
    BY <1>1, <2>1 DEF AtOK
  <2>3. \A t : LoopPc(t, job, sent) \in {"sending", "window"}
    BY <1>3, <2>2 DEF LoopPc
  <2> QED BY <2>1, <2>2, <2>3 DEF AtOK
<1>6. PushbackRest = <<>> /\ (pc # "idle" => pushback = <<>>)
  <2>1. pushback \in Seq(RequestMsgs) /\ PushbackOK
    BY DEF IInv, TypeOK
  <2>2. CASE pushback # <<>>
    <3>1. Len(pushback) = 1 /\ pc = "idle"
      BY <2>1, <2>2 DEF PushbackOK
    <3>2. Tail(pushback) \in Seq(RequestMsgs) /\ Len(Tail(pushback)) = 0
      BY <2>1, <2>2, <3>1
    <3>3. Tail(pushback) = <<>>
      BY <3>2, EmptySeq, Zenon
    <3> QED BY <2>2, <3>1, <3>3 DEF PushbackRest
  <2>3. CASE pushback = <<>>
    BY <2>3 DEF PushbackRest
  <2> QED BY <2>2, <2>3
<1> QED BY <1>1, <1>2, <1>3, <1>4, <1>5, <1>6

\* What _retransmit_from sends is kept.
LEMMA Resent ==
  ASSUME NEW t, NEW s
  PROVE  Data(Retransmitted(t, s)) \subseteq Data(t.buffer)
BY DEF Data, Retransmitted

\* The session takes what neither starts a reply nor adds to one.
QuietReceive(m) ==
  \/ HandleAck(m) \/ HandleNack(m) \/ HandleDuplicate(m) \/ HandleOutOfSequence(m)
  \/ WaitResent(m) \/ WindowAck(m) \/ WindowNack(m) \/ WindowNewRequest(m)
  \/ FinalAck(m) \/ FinalNack(m) \/ FinalNewRequest(m)

\* ... and keeps the invariant, handler by handler of _handle_data and of the two waits.
LEMMA QuietReceiveTracked ==
  ASSUME NEW L, Late(L), IInv, Tracked(L), IInv', NEW m \in Items, QuietReceive(m)
  PROVE  Tracked(L)'
<1>1. /\ console' = console /\ executed' = executed /\ job' = job /\ sent' = sent
      /\ rx_seq_nr_expected' = rx_seq_nr_expected
  BY DEF QuietReceive, HandleAck, HandleNack, HandleDuplicate, HandleOutOfSequence, WaitResent, WindowAck, WindowNack,
         WindowNewRequest, FinalAck, FinalNack, FinalNewRequest, history
<1>2. PICK u : u = AcknowledgeTx(tx, IF m.kind = "nack" THEN PrevSeq(m.ack) ELSE m.ack)
  OBVIOUS
<1>3. /\ TxOK(u) /\ TxNow(u)
      /\ (IF m.kind = "nack" THEN PrevSeq(m.ack) ELSE m.ack) = PrevSeq(Expects(m)) /\ Expects(m) \in Seqs
      /\ Runs = 1 /\ AckAccepted(tx, PrevSeq(Expects(m))) => Diff(Expects(m), Base) <= Got
  BY <1>2, AckNow
<1>4. /\ console.req > 0
      /\ m.kind = "req" /\ m.seq # PrevSeq(rx_seq_nr_expected) => HandedOK(L, m)
  BY ItemFacts
<1>5. /\ AtOK(pc) /\ AtOK("idle") /\ (pc = "window" => Runs = 1 /\ \A t : AtOK(LoopPc(t, job, sent)))
      /\ TxOK(tx) /\ TxNow(tx) /\ confirmed \subseteq console.done /\ PushbackRest = <<>>
  BY AtFacts
<1>6. NetWithout(m) \subseteq net
  BY DEF NetWithout
<1> DEFINE Out == {RequestAck(rx_seq_nr_expected), RequestNack(rx_seq_nr_expected)}
<1>7. ASSUME NEW out, Consume(m, out), out \subseteq Data(tx'.buffer) \cup Out,
             TxOK(tx'), TxNow(tx'), AtOK(pc'), confirmed' \subseteq console.done
      PROVE  Tracked(L)'
  <2>1. net' \subseteq net \cup Data(tx'.buffer) \cup Out
    BY <1>6, <1>7 DEF Consume
  <2>2. pushback' = <<>>
    BY <1>5, <1>7 DEF Consume
  <2> QED BY <1>1, <1>4, <1>7, <2>1, <2>2, Quiet
<1>8. ASSUME ConsumeAndPushBack(m), m.kind = "req", ~IsResentRequest(m),
             TxOK(tx'), TxNow(tx'), AtOK(pc'), confirmed' \subseteq console.done
      PROVE  Tracked(L)'
  <2>1. net' \subseteq net \cup Data(tx'.buffer) \cup Out
    BY <1>6, <1>8 DEF ConsumeAndPushBack
  <2>2. pushback' = Append(<<>>, m)
    BY <1>5, <1>8 DEF ConsumeAndPushBack
  <2>3. Head(pushback') = m
    BY <2>2
  <2>4. HandedOK(L, m)
    BY <1>4, <1>8 DEF IsResentRequest
  <2> QED BY <1>1, <1>4, <1>8, <2>1, <2>3, <2>4, Quiet
<1>9. ASSUME NEW t, WindowReturned(t), pc = "window" PROVE AtOK(pc')
  BY <1>5, <1>9 DEF WindowReturned
<1>10. ASSUME TxOK(tx'), TxNow(tx') PROVE \A s : Data(Retransmitted(tx', s)) \subseteq Data(tx'.buffer)
  BY Resent
<1>11. ASSUME m.kind # "nack", AckAccepted(tx, m.ack), m.ack = PrevSeq(tx.seq_nr)
       PROVE  Runs = 1 => Got = Count
  <2> SUFFICES ASSUME Runs = 1 PROVE Got = Count
    OBVIOUS
  <2>1. tx.seq_nr \in Seqs
    BY <1>5 DEF TxOK, Txs
  <2>2. Expects(m) = tx.seq_nr
    BY <1>11, <2>1, NextFacts DEF Expects
  <2>3. Diff(tx.seq_nr, Base) = Count
    BY <1>5 DEF TxNow, During
  <2>4. Count <= Got
    BY <1>3, <1>11, <2>2, <2>3
  <2> QED BY <2>4, Numbers
<1>a. CASE HandleAck(m)
  <2>1. tx' = u /\ Consume(m, {}) /\ pc' = pc /\ confirmed' = confirmed
    BY <1>2, <1>a DEF HandleAck, history
  <2> QED BY <1>3, <1>5, <1>7, <2>1
<1>b. CASE HandleNack(m)
  <2>1. tx' = u /\ Consume(m, Data(Retransmitted(tx', m.ack))) /\ pc' = pc /\ confirmed' = confirmed
    BY <1>2, <1>b DEF HandleNack, history
  <2> QED BY <1>3, <1>5, <1>7, <1>10, <2>1
<1>c. CASE HandleDuplicate(m)
  <2>1. /\ tx' = u /\ pc' = pc /\ confirmed' = confirmed
        /\ Consume(m, {RequestAck(rx_seq_nr_expected)} \cup
                      IF tx'.buffer = {} THEN {} ELSE Data(Retransmitted(tx', OldestSeq(tx'))))
    BY <1>2, <1>c DEF HandleDuplicate, IsResentRequest, history
  <2>2. Data(Retransmitted(tx', OldestSeq(tx'))) \subseteq Data(tx'.buffer)
    BY Resent
  <2>3. {RequestAck(rx_seq_nr_expected)} \cup (IF tx'.buffer = {} THEN {} ELSE Data(Retransmitted(tx', OldestSeq(tx'))))
          \subseteq Data(tx'.buffer) \cup Out
    BY <2>2
  <2> QED BY <1>3, <1>5, <1>7, <2>1, <2>3
<1>d. CASE HandleOutOfSequence(m)
  <2>1. tx' = u /\ Consume(m, {RequestNack(rx_seq_nr_expected)}) /\ pc' = pc /\ confirmed' = confirmed
    BY <1>2, <1>d DEF HandleOutOfSequence, history
  <2> QED BY <1>3, <1>5, <1>7, <2>1
<1>e. CASE WaitResent(m)
  <2>1. tx' = tx /\ Consume(m, {RequestAck(rx_seq_nr_expected)}) /\ pc' = pc /\ confirmed' = confirmed
    BY <1>e DEF WaitResent, history
  <2> QED BY <1>5, <1>7, <2>1
<1>f. CASE WindowAck(m)
  <2>1. tx' = u /\ Consume(m, {}) /\ confirmed' = confirmed /\ pc = "window" /\ (WindowReturned(tx') \/ pc' = pc)
    BY <1>2, <1>f DEF WindowAck
  <2>2. AtOK(pc')
    BY <1>5, <1>9, <2>1
  <2> QED BY <1>3, <1>5, <1>7, <2>1, <2>2
<1>g. CASE WindowNack(m)
  <2>1. /\ tx' = u /\ Consume(m, Data(Retransmitted(tx', m.ack))) /\ confirmed' = confirmed
        /\ pc = "window" /\ (WindowReturned(tx') \/ pc' = pc)
    BY <1>2, <1>g DEF WindowNack
  <2>2. AtOK(pc')
    BY <1>5, <1>9, <2>1
  <2> QED BY <1>3, <1>5, <1>7, <1>10, <2>1, <2>2
<1>h. CASE WindowNewRequest(m)
  <2>1. /\ tx' = u /\ ConsumeAndPushBack(m) /\ confirmed' = confirmed /\ pc' = "idle"
        /\ m.kind = "req" /\ ~IsResentRequest(m)
    BY <1>2, <1>h DEF WindowNewRequest
  <2> QED BY <1>3, <1>5, <1>8, <2>1
<1>i. CASE FinalAck(m)
  <2>1. m.kind = "ack" /\ pc = "final" /\ Consume(m, {})
    BY <1>i DEF FinalAck
  <2>2. u = AcknowledgeTx(tx, m.ack)
    BY <1>2, <2>1
  <2>3. CASE AckAccepted(tx, m.ack) /\ m.ack = PrevSeq(tx.seq_nr)
    <3>1. tx' = [u EXCEPT !.buffer = {}] /\ pc' = "idle" /\ confirmed' = confirmed \cup {job.req}
      BY <1>i, <2>2, <2>3 DEF FinalAck
    <3>2. Runs = 1 => Got = Count
      BY <1>11, <2>1, <2>3
    <3>3. TxOK(tx') /\ TxNow(tx')
      <4>1. PICK v : v = tx'
        OBVIOUS
      <4>2. TxOK(v) /\ TxNow(v)
        BY <1>3, <3>1, <3>2, <4>1, Cleared
      <4> QED BY <4>1, <4>2
    <3>4. job.req \in console.done
      BY <2>1, <3>2, StreamDone
    <3>5. confirmed' \subseteq console.done
      BY <1>5, <3>1, <3>4
    <3> QED BY <1>5, <1>7, <2>1, <3>1, <3>3, <3>5
  <2>4. CASE ~(AckAccepted(tx, m.ack) /\ m.ack = PrevSeq(tx.seq_nr))
    <3>1. tx' = u /\ pc' = pc /\ confirmed' = confirmed
      BY <1>i, <2>2, <2>4 DEF FinalAck
    <3> QED BY <1>3, <1>5, <1>7, <2>1, <3>1
  <2> QED BY <2>3, <2>4
<1>j. CASE FinalNack(m)
  <2>1. tx' = u /\ Consume(m, Data(Retransmitted(tx', m.ack))) /\ pc' = pc /\ confirmed' = confirmed
    BY <1>2, <1>j DEF FinalNack, history
  <2> QED BY <1>3, <1>5, <1>7, <1>10, <2>1
<1>k. CASE FinalNewRequest(m)
  <2>1. m.kind = "req" /\ ~IsResentRequest(m) /\ pc = "final" /\ ConsumeAndPushBack(m) /\ pc' = "idle"
    BY <1>k DEF FinalNewRequest
  <2>2. u = AcknowledgeTx(tx, m.ack)
    BY <1>2, <2>1
  <2>3. /\ tx' = (IF AckAccepted(tx, m.ack) /\ m.ack = PrevSeq(tx.seq_nr) THEN [u EXCEPT !.buffer = {}] ELSE u)
        /\ confirmed' = confirmed \/ (tx'.buffer = {} /\ confirmed' = confirmed \cup {job.req})
    BY <1>k, <2>2 DEF FinalNewRequest
  <2>4. PICK v : v = tx'
    OBVIOUS
  <2>5. TxOK(v) /\ TxNow(v)
    <3>1. CASE AckAccepted(tx, m.ack) /\ m.ack = PrevSeq(tx.seq_nr)
      <4>1. Runs = 1 => Got = Count
        BY <1>11, <2>1, <3>1
      <4> QED BY <1>3, <2>3, <2>4, <3>1, <4>1, Cleared
    <3>2. CASE ~(AckAccepted(tx, m.ack) /\ m.ack = PrevSeq(tx.seq_nr))
      BY <1>3, <2>3, <2>4, <3>2
    <3> QED BY <3>1, <3>2
  <2>6. confirmed' \subseteq console.done
    <3>1. CASE v.buffer = {}
      <4>1. Runs = 1 => Got = Count
        BY <2>5, <3>1, NothingKept
      <4>2. job.req \in console.done
        BY <2>1, <4>1, StreamDone
      <4> QED BY <1>5, <2>3, <4>2
    <3>2. CASE v.buffer # {}
      BY <1>5, <2>3, <2>4, <3>2
    <3> QED BY <3>1, <3>2
  <2>7. TxOK(tx') /\ TxNow(tx')
    BY <2>4, <2>5
  <2> QED BY <1>5, <1>8, <2>1, <2>6, <2>7
<1> QED BY <1>a, <1>b, <1>c, <1>d, <1>e, <1>f, <1>g, <1>h, <1>i, <1>j, <1>k DEF QuietReceive

\* A wait that reached its deadline.
LEMMA TimeoutTracked ==
  ASSUME NEW L, Late(L), IInv, Tracked(L), WindowTimeout \/ FinalTimeout
  PROVE  Tracked(L)'
<1>1. /\ console' = console /\ executed' = executed /\ job' = job /\ sent' = sent /\ tx' = tx
      /\ rx_seq_nr_expected' = rx_seq_nr_expected /\ pushback' = pushback /\ confirmed' = confirmed /\ pc # "idle"
  BY DEF WindowTimeout, FinalTimeout, history
<1>2. /\ console.req > 0 /\ AtOK(pc) /\ AtOK("idle") /\ (pc = "window" => Runs = 1 /\ \A t : AtOK(LoopPc(t, job, sent)))
      /\ TxOK(tx) /\ TxNow(tx) /\ confirmed \subseteq console.done /\ pushback = <<>>
  BY <1>1, AtFacts
<1>3. AtOK(pc')
  <2>1. CASE WindowTimeout
    BY <1>2, <2>1 DEF WindowTimeout, WindowReturned
  <2>2. CASE FinalTimeout
    BY <1>2, <2>2 DEF FinalTimeout
  <2> QED BY <2>1, <2>2
<1>4. Data(Retransmitted(tx, OldestSeq(tx))) \subseteq Data(tx.buffer)
  BY Resent
<1>5. net' \subseteq net \cup Data(tx.buffer)
  <2>1. CASE WindowTimeout
    BY <1>4, <2>1 DEF WindowTimeout
  <2>2. CASE FinalTimeout
    BY <1>4, <2>2 DEF FinalTimeout
  <2> QED BY <2>1, <2>2
<1>6. net' \subseteq net \cup Data(tx'.buffer) \cup {RequestAck(rx_seq_nr_expected), RequestNack(rx_seq_nr_expected)}
  BY <1>1, <1>5
<1>7. TxOK(tx') /\ TxNow(tx')
  BY <1>1, <1>2
<1> QED BY <1>1, <1>2, <1>3, <1>6, <1>7, Quiet

\* The first packet of a reply leaves it alone in flight: the request said that all before arrived.
LEMMA FirstOut ==
  ASSUME NEW t \in Txs, NEW rx \in Seqs, Before(t, rx), NEW j \in Jobs, NEW u, u = AcknowledgeTx(t, PrevSeq(rx)),
         NEW v, v = IF j.rpc THEN SendData(u, j) ELSE SendDataPacket([u EXCEPT !.buffer = {}], j, 1)
  PROVE  During(v, rx, 0, 1, j.req, j.n) /\ ReplyPacket(u, j, 1) \in v.buffer
<1>1. t.seq_nr = rx /\ t.acked \in Seqs
  BY DEF Before, Txs
<1>2. u \in Txs /\ u.seq_nr = rx /\ Diff(NextSeq(rx), NextSeq(u.acked)) <= 1
  <2>1. CASE AckAccepted(t, PrevSeq(rx))
    <3>1. u \in Txs /\ u.seq_nr = rx /\ NextSeq(u.acked) = rx
      BY <1>1, <2>1, AckCases
    <3>2. Diff(NextSeq(rx), rx) = 1
      BY NextFacts
    <3> QED BY <3>1, <3>2
  <2>2. CASE ~AckAccepted(t, PrevSeq(rx))
    <3>1. u = t
      BY <2>2, AckCases
    <3>2. ~(InFlight(t) <= SEND_WINDOW)
      <4> SUFFICES ASSUME InFlight(t) <= SEND_WINDOW PROVE FALSE
        OBVIOUS
      <4>1. Diff(PrevSeq(rx), t.acked) = InFlight(t)
        BY <1>1, NextFacts DEF InFlight
      <4>2. InFlight(t) \in Nat
        BY <1>1, NextFacts, DiffFacts DEF InFlight
      <4>3. InFlight(t) < Half
        BY <4>2, Ring
      <4> QED BY <2>2, <4>1, <4>2, <4>3 DEF AckAccepted, InFlight
    <3>3. rx = 0 /\ t.acked = 0
      BY <1>1, <3>2 DEF Before
    <3>4. Diff(NextSeq(rx), NextSeq(t.acked)) = 0
      BY <3>3, NextFacts, DiffFacts
    <3> QED BY <1>1, <3>1, <3>4
  <2> QED BY <2>1, <2>2
<1>3. PICK p : p = ReplyPacket(u, j, 1)
  OBVIOUS
<1>4. p.seq = rx /\ p.req = j.req /\ p.idx = 1 /\ p.fin = (1 = j.n)
  BY <1>2, <1>3 DEF ReplyPacket
<1>5. v.seq_nr = NextSeq(rx) /\ v.acked = u.acked /\ v.buffer = {p}
  <2>1. CASE j.rpc
    <3>1. v = [u EXCEPT !.seq_nr = NextSeq(rx), !.buffer = {p}]
      BY <1>2, <1>3, <2>1 DEF SendData
    <3> QED BY <1>2, <3>1 DEF Txs
  <2>2. CASE ~j.rpc
    <3>1. PICK w : w = [u EXCEPT !.buffer = {}]
      OBVIOUS
    <3>2. w \in Txs /\ w.seq_nr = rx /\ w.acked = u.acked /\ w.buffer = {}
      BY <1>2, <3>1 DEF Txs
    <3>3. ReplyPacket(w, j, 1) = p
      BY <1>2, <1>3, <3>2 DEF ReplyPacket
    <3>4. v = [w EXCEPT !.seq_nr = NextSeq(rx), !.buffer = {} \cup {p}]
      BY <2>2, <3>1, <3>2, <3>3 DEF SendDataPacket
    <3> QED BY <3>2, <3>4 DEF Txs
  <2> QED BY <2>1, <2>2
<1>6. Diff(NextSeq(rx), rx) = 1 /\ Diff(rx, rx) = 0
  BY NextFacts, DiffFacts
<1>7. InFlight(v) <= 1 /\ InFlight(v) \in Nat
  <2>1. InFlight(v) = Diff(NextSeq(rx), NextSeq(u.acked))
    BY <1>5 DEF InFlight
  <2>2. NextSeq(rx) \in Seqs /\ NextSeq(u.acked) \in Seqs
    BY <1>2, NextFacts DEF Txs
  <2> QED BY <1>2, <2>1, <2>2, DiffFacts
<1>8. Piece(p, rx, 1, j.req, j.n)
  BY <1>4, <1>6 DEF Piece
<1>9. \A d \in 0 .. 1 - 1 : \E q \in v.buffer : Diff(q.seq, rx) = d
  <2>1. \A d \in 0 .. 1 - 1 : d = 0
    OBVIOUS
  <2> QED BY <1>4, <1>5, <1>6, <2>1
<1>10. InFlight(v) <= SEND_WINDOW
  BY <1>7, Ring
<1> QED BY <1>3, <1>5, <1>6, <1>7, <1>8, <1>9, <1>10 DEF During

\* The request is taken: it was not before, and the reply begins where the console expects it.
LEMMA RequestTracked ==
  ASSUME NEW L, Late(L), IInv, Tracked(L), NEW m \in Items, HandleRequest(m)
  PROVE  Tracked(L)'
<1>1. /\ pc = "idle" /\ m.kind = "req" /\ m.seq = rx_seq_nr_expected
      /\ console' = console /\ confirmed' = confirmed
      /\ rx_seq_nr_expected' = NextSeq(rx_seq_nr_expected) /\ job' = m.job
      /\ executed' = [executed EXCEPT ![m.job.req] = @ + 1]
  BY DEF HandleRequest, Execute
<1>2. /\ console.req > 0 /\ Runs = 0 /\ m.job = console.job /\ Expects(m) = console.rx
  BY <1>1, ItemFacts
<1>3. /\ Got = 0 /\ Base = console.rx /\ console.waiting /\ rx_seq_nr_expected = ReqSeq /\ ReqSeq \in Seqs
      /\ console.rx \in Seqs /\ console.job \in Jobs /\ console.req \in Requests /\ console.req \in Nat
  BY <1>2, Numbers
<1>4. m.ack = PrevSeq(console.rx)
  <2>1. PICK u : u = AcknowledgeTx(tx, IF m.kind = "nack" THEN PrevSeq(m.ack) ELSE m.ack)
    OBVIOUS
  <2> QED BY <1>1, <1>2, <2>1, AckNow
<1>5. PICK j : j = console.job
  OBVIOUS
<1>6. j \in Jobs /\ j.req = console.req /\ j.n \in 1 .. L /\ (j.rpc => j.n = 1) /\ L \in Nat
  BY <1>3, <1>5 DEF Tracked, ConsoleOK, Late
<1>7. PICK u : u = AcknowledgeTx(tx, PrevSeq(console.rx))
  OBVIOUS
<1>8. PICK v : v = IF j.rpc THEN SendData(u, j) ELSE SendDataPacket([u EXCEPT !.buffer = {}], j, 1)
  OBVIOUS
<1>9. /\ tx' = v /\ Consume(m, {RequestAck(NextSeq(rx_seq_nr_expected))} \cup Data({ReplyPacket(u, j, 1)}))
      /\ IF j.rpc THEN pc' = "idle" ELSE sent' = 1 /\ pc' = LoopPc(v, j, 1)
  BY <1>2, <1>4, <1>5, <1>7, <1>8 DEF HandleRequest, Execute
<1>10. During(v, console.rx, 0, 1, j.req, j.n) /\ ReplyPacket(u, j, 1) \in v.buffer
  <2>1. tx \in Txs /\ Before(tx, console.rx)
    BY <1>2 DEF IInv, TxOK, Tracked, ServerOK, TxNow
  <2> QED BY <1>3, <1>6, <1>7, <1>8, <2>1, FirstOut
<1>11. Got' = Got /\ Base' = Base /\ ReqSeq' = ReqSeq
  BY <1>1 DEF Got, Base, ReqSeq
<1>12. executed' = [executed EXCEPT ![console.req] = 1] /\ executed \in [Requests -> Nat]
  <2>1. executed[console.req] = 0
    BY <1>2 DEF Runs
  <2> QED BY <1>1, <1>2, <1>5, <1>6, <2>1 DEF IInv, TypeOK
<1>13. Runs' = 1
  BY <1>1, <1>3, <1>12 DEF Runs
<1>14. job' = j /\ Count' = 1
  BY <1>1, <1>2, <1>5, <1>9 DEF Count
<1>15. ConsoleOK(L)'
  <2>1. \A r \in Requests : executed'[r] \in {0, 1} /\ (r = 0 \/ r > console.req => executed'[r] = 0)
    <3> TAKE r \in Requests
    <3>1. executed[r] \in {0, 1} /\ (r = 0 \/ r > console.req => executed[r] = 0)
      BY DEF Tracked, ConsoleOK
    <3>2. CASE r = console.req
      BY <1>2, <1>3, <1>12, <3>2
    <3>3. CASE r # console.req
      BY <1>12, <3>1, <3>3
    <3> QED BY <3>2, <3>3
  <2>2. console.req # 0
    BY <1>2
  <2> QED BY <1>1, <1>3, <1>11, <1>13, <2>1, <2>2 DEF Tracked, ConsoleOK, NumberOK
<1>16. ServerOK'
  <2>1. During(tx, Base, Got, Count, console.req, console.job.n)'
    BY <1>1, <1>3, <1>5, <1>6, <1>9, <1>10, <1>11, <1>14
  <2>2. AtOK(pc)'
    <3>1. CASE j.rpc
      BY <1>9, <1>13, <3>1 DEF AtOK
    <3>2. CASE ~j.rpc
      BY <1>6, <1>9, <1>13, <1>14, <3>2 DEF AtOK, LoopPc
    <3> QED BY <3>1, <3>2
  <2>3. 1 \in 1 .. j.n
    BY <1>6
  <2> QED BY <1>1, <1>3, <1>5, <1>11, <1>13, <1>14, <2>1, <2>2, <2>3 DEF ServerOK, TxNow
<1>17. NetOK(L)'
  <2>1. ASSUME NEW x \in net' PROVE MsgOK(L, x, console.req, ReqSeq, j, 1, Base, Got, 1)
    <3>1. CASE x \in net
      <4>1. MsgOK(L, x, console.req, ReqSeq, j, 0, Base, Got, Count)
        BY <1>2, <1>5, <3>1 DEF Tracked, NetOK
      <4> QED BY <4>1 DEF MsgOK
    <3>2. CASE x = RequestAck(NextSeq(rx_seq_nr_expected))
      <4>1. x.kind = "reqack" /\ x.ack = ReqSeq /\ x.born = console.req
        BY <1>3, <3>2, NextFacts DEF RequestAck
      <4>2. Diff(ReqSeq, ReqSeq) = 0 /\ console.req - console.req = 0 /\ 0 <= MaxAge
        BY <1>3, DiffFacts, TransportAssumption
      <4> QED BY <1>3, <4>1, <4>2 DEF MsgOK
    <3>3. CASE x \in Data({ReplyPacket(u, j, 1)})
      <4>1. x.kind = "data" /\ x.pkt = ReplyPacket(u, j, 1) /\ x.born = console.req
        BY <3>3 DEF Data
      <4>2. Piece(x.pkt, Base, 1, console.req, j.n)
        BY <1>3, <1>6, <1>10, <4>1 DEF During
      <4>3. console.req - console.req = 0 /\ 0 <= MaxAge
        BY <1>3, TransportAssumption
      <4> QED BY <1>3, <4>1, <4>2, <4>3 DEF MsgOK
    <3> QED BY <1>9, <3>1, <3>2, <3>3 DEF Consume, NetWithout
  <2> QED BY <1>1, <1>5, <1>11, <1>13, <1>14, <2>1 DEF NetOK
<1>18. PushOK(L)'
  BY <1>9, AtFacts DEF Consume, PushOK
<1> QED BY <1>15, <1>16, <1>17, <1>18 DEF Tracked

\* One more packet of the stream.
LEMMA SendNextTracked ==
  ASSUME NEW L, Late(L), IInv, Tracked(L), SendNext
  PROVE  Tracked(L)'
<1>1. /\ pc = "sending" /\ console' = console /\ executed' = executed /\ confirmed' = confirmed /\ job' = job
      /\ rx_seq_nr_expected' = rx_seq_nr_expected /\ pushback' = pushback /\ sent' = sent + 1
      /\ tx' = SendDataPacket(tx, job, sent + 1) /\ pc' = LoopPc(tx', job, sent + 1)
      /\ net' = net \cup Data({ReplyPacket(tx, job, sent + 1)})
  BY DEF SendNext, history
<1>2. /\ Runs = 1 /\ ~job.rpc /\ sent < job.n /\ job = console.job /\ Count = sent
      /\ During(tx, Base, Got, sent, console.req, job.n) /\ InFlight(tx) < SEND_WINDOW /\ pushback = <<>>
      /\ console.req > 0
  <2>1. AtOK(pc) /\ TxNow(tx) /\ pushback = <<>> /\ console.req > 0
    BY <1>1, AtFacts
  <2>2. Runs = 1
    BY <1>1, <2>1, Numbers DEF AtOK
  <2>3. ~job.rpc /\ sent < job.n /\ job = console.job
    BY <1>1, <2>1, <2>2 DEF AtOK, Tracked, ServerOK
  <2>4. Count = sent
    BY <2>3 DEF Count
  <2>5. InFlight(tx) < SEND_WINDOW
    BY <1>1 DEF IInv
  <2> QED BY <2>1, <2>2, <2>3, <2>4, <2>5 DEF TxNow
<1>3. /\ Base \in Seqs /\ Got \in Nat /\ sent \in Nat /\ Got <= sent /\ job.n \in Nat /\ job.n < SeqMod
      /\ job \in Jobs
      /\ console.req \in Nat /\ job.req = console.req
  <2>1. job.req = console.req /\ L \in Nat
    BY <1>2 DEF Tracked, ConsoleOK, Late
  <2>2. console.job.n <= L /\ L < SeqMod /\ console.job.n \in Nat
    BY Numbers
  <2>3. Base \in Seqs /\ Got \in Nat /\ console.req \in Nat /\ Count \in Nat /\ Got <= Count
    BY <1>2, Numbers
  <2>4. job \in Jobs
    BY DEF IInv, TypeOK
  <2>5. job.n \in Nat /\ job.n < SeqMod
    BY <1>2, <2>1, <2>2, Ring
  <2> QED BY <1>2, <2>1, <2>3, <2>4, <2>5
<1>4. PICK p : p = ReplyPacket(tx, job, sent + 1)
  OBVIOUS
<1>5. tx.seq_nr \in Seqs /\ tx.acked \in Seqs /\ tx \in Txs
  BY DEF IInv, TxOK, Txs
<1>6. tx'.seq_nr = NextSeq(tx.seq_nr) /\ tx'.acked = tx.acked /\ tx'.buffer = tx.buffer \cup {p}
  <2>1. tx' = [tx EXCEPT !.seq_nr = NextSeq(tx.seq_nr), !.buffer = tx.buffer \cup {p}]
    BY <1>1, <1>4, <1>5 DEF SendDataPacket
  <2> QED BY <1>5, <2>1 DEF Txs
<1>7. Diff(tx.seq_nr, Base) = sent /\ InFlight(tx) <= sent /\ InFlight(tx) \in Nat
  BY <1>2, <1>5, NextFacts, DiffFacts DEF During, InFlight
<1>8. Diff(NextSeq(tx.seq_nr), Base) = sent + 1
  <2>1. sent + 1 < SeqMod
    BY <1>2, <1>3, Ring
  <2> QED BY <1>3, <1>5, <1>7, <2>1, NextFacts
<1>9. InFlight(tx)' = InFlight(tx) + 1
  <2>1. InFlight(tx)' = Diff(NextSeq(tx.seq_nr), NextSeq(tx.acked))
    BY <1>6 DEF InFlight
  <2>2. InFlight(tx) + 1 < SeqMod
    BY <1>2, <1>7, Ring
  <2> QED BY <1>5, <2>1, <2>2, NextFacts DEF InFlight
<1>10. Piece(p, Base, sent + 1, console.req, job.n)
  <2>1. p.seq = tx.seq_nr /\ p.req = job.req /\ p.idx = sent + 1 /\ p.fin = (sent + 1 = job.n)
    BY <1>4 DEF ReplyPacket
  <2> QED BY <1>3, <1>7, <2>1 DEF Piece
<1>11. \A q : (Piece(q, Base, sent, console.req, job.n) /\ q.seq \in Seqs => Piece(q, Base, sent + 1, console.req, job.n))
  <2>1. \A q : q.seq \in Seqs => Diff(q.seq, Base) \in Nat
    BY <1>3, DiffFacts
  <2> QED BY <1>3, <2>1 DEF Piece
<1>12. Got' = Got /\ Base' = Base /\ ReqSeq' = ReqSeq /\ Runs' = Runs /\ Count' = sent + 1
  BY <1>1, <1>2 DEF Got, Base, ReqSeq, Runs, Count
<1>13. During(tx', Base, Got, sent + 1, console.req, job.n)
  <2>1. \A q \in tx'.buffer : Piece(q, Base, sent + 1, console.req, job.n)
    <3>1. \A q \in tx.buffer : q.seq \in Seqs
      BY <1>5 DEF Txs, Packets
    <3> QED BY <1>2, <1>6, <1>10, <1>11, <3>1 DEF During
  <2>2. \A d \in Got .. (sent + 1) - 1 : \E q \in tx'.buffer : Diff(q.seq, Base) = d
    <3> TAKE d \in Got .. (sent + 1) - 1
    <3>1. CASE d = sent
      <4>1. Diff(p.seq, Base) = sent
        BY <1>4, <1>7 DEF ReplyPacket
      <4> QED BY <1>6, <3>1, <4>1
    <3>2. CASE d # sent
      <4>1. d \in Got .. sent - 1
        BY <1>3, <3>2
      <4> QED BY <1>2, <1>6, <4>1 DEF During
    <3> QED BY <3>1, <3>2
  <2>3. InFlight(tx') = InFlight(tx) + 1
    BY <1>9 DEF InFlight
  <2>4. InFlight(tx') <= SEND_WINDOW /\ InFlight(tx') <= sent + 1
    BY <1>2, <1>3, <1>7, <2>3, Ring
  <2> QED BY <1>6, <1>8, <2>1, <2>2, <2>4 DEF During
<1>14. ConsoleOK(L)'
  BY <1>1, <1>2, <1>12 DEF Tracked, ConsoleOK, NumberOK
<1>15. ServerOK'
  <2>1. TxNow(tx)'
    BY <1>1, <1>2, <1>12, <1>13 DEF TxNow
  <2>2. AtOK(pc)'
    BY <1>1, <1>2, <1>3, <1>12 DEF AtOK, LoopPc
  <2>3. sent + 1 \in 1 .. job.n /\ Got <= sent + 1
    BY <1>2, <1>3
  <2> QED BY <1>1, <1>2, <1>12, <2>1, <2>2, <2>3 DEF Tracked, ServerOK
<1>16. NetOK(L)'
  <2>1. ASSUME NEW x \in net' PROVE MsgOK(L, x, console.req, ReqSeq, job, 1, Base, Got, sent + 1)
    <3>1. CASE x \in net
      <4>1. MsgOK(L, x, console.req, ReqSeq, job, 1, Base, Got, sent)
        BY <1>2, <3>1 DEF Tracked, NetOK
      <4>2. x.kind = "data" => x.pkt.seq \in Seqs
        BY <3>1 DEF IInv, TypeOK, RequestMsgs, ControlMsgs, DataMsgs, RequestAckMsgs, Packets
      <4>3. x.kind = "data" /\ Piece(x.pkt, Base, sent, console.req, job.n)
              => Piece(x.pkt, Base, sent + 1, console.req, job.n)
        BY <1>11, <4>2
      <4> QED BY <4>1, <4>3 DEF MsgOK
    <3>2. CASE x \in Data({p})
      <4>1. x.kind = "data" /\ x.pkt = p /\ x.born = console.req
        BY <3>2 DEF Data
      <4>2. console.req - console.req = 0 /\ 0 <= MaxAge
        BY <1>3, TransportAssumption
      <4> QED BY <1>3, <1>10, <4>1, <4>2 DEF MsgOK
    <3> QED BY <1>1, <1>4, <3>1, <3>2
  <2> QED BY <1>1, <1>2, <1>12, <2>1 DEF NetOK
<1>17. PushOK(L)'
  BY <1>1, <1>2 DEF PushOK
<1> QED BY <1>14, <1>15, <1>16, <1>17 DEF Tracked

\* What the console says it expects, in a request, an acknowledgement or a NACK.
LEMMA SaidOK ==
  ASSUME NEW L, Late(L), IInv, Tracked(L), NEW g \in Nat, NEW b \in Seqs, NEW e \in Seqs, Diff(e, b) <= g,
         NEW c \in Nat, NEW s, NEW j, NEW x, NEW k, NEW m, m.born = c,
         \/ m.kind = "req" /\ m.ack = PrevSeq(e) /\ m.seq = s /\ m.job = j
         \/ m.kind = "ack" /\ m.ack = PrevSeq(e)
         \/ m.kind = "nack" /\ m.ack = e
  PROVE  MsgOK(L, m, c, s, j, x, b, g, k)
<1>1. Expects(m) = e
  BY NextFacts DEF Expects
<1>2. c - c = 0 /\ c <= c /\ 0 <= MaxAge
  BY TransportAssumption
<1> QED BY <1>1, <1>2 DEF MsgOK, Heard

\* A step of the console or the network that moves neither what the console waits for nor what it has.
LEMMA ConsoleQuiet ==
  ASSUME NEW L, Late(L), IInv, Tracked(L), UNCHANGED <<server, history>>, console.req > 0,
         console'.req = console.req, console'.rx = console.rx, console'.seq = console.seq, console'.got = console.got,
         console'.job = console.job, console'.waiting = console.waiting, console'.done = console.done,
         \A m \in net' : m \in net \/ MsgOK(L, m, console.req, ReqSeq, console.job, Runs, Base, Got, Count)
  PROVE  Tracked(L)'
<1>1. /\ tx' = tx /\ rx_seq_nr_expected' = rx_seq_nr_expected /\ pushback' = pushback /\ pc' = pc
      /\ job' = job /\ sent' = sent
      /\ executed' = executed /\ confirmed' = confirmed
  BY DEF server, history
<1>2. Got' = Got /\ Base' = Base /\ ReqSeq' = ReqSeq /\ Runs' = Runs /\ Count' = Count
  BY <1>1 DEF Got, Base, ReqSeq, Runs, Count
<1>3. ConsoleOK(L)'
  BY <1>1, <1>2 DEF Tracked, ConsoleOK, NumberOK
<1>4. ServerOK'
  <2>1. TxNow(tx)'
    BY <1>1, <1>2 DEF Tracked, ServerOK, TxNow
  <2>2. AtOK(pc)'
    BY <1>1, <1>2 DEF Tracked, ServerOK, AtOK
  <2> QED BY <1>1, <1>2, <2>1, <2>2 DEF Tracked, ServerOK
<1>5. NetOK(L)'
  BY <1>2 DEF Tracked, NetOK
<1>6. PushOK(L)'
  BY <1>1, <1>2 DEF Tracked, PushOK, HandedOK
<1> QED BY <1>3, <1>4, <1>5, <1>6 DEF Tracked

\* The console repeats itself, takes note of an acknowledgement, or a datagram is lost.
LEMMA ConsoleQuietSteps ==
  ASSUME NEW L, Late(L), IInv, Tracked(L),
         ConsoleResend \/ ConsoleNack \/ Lose \/ \E m \in net : ConsoleRequestAcked(m) \/ ConsoleReAck(m)
  PROVE  Tracked(L)'
<1>1. UNCHANGED <<server, history>>
  BY DEF ConsoleResend, ConsoleNack, Lose, ConsoleRequestAcked, ConsoleReAck
<1>2. console.req > 0
  <2>1. ASSUME console.req = 0 PROVE net = {} /\ ~console.waiting
    BY <2>1 DEF Tracked, ConsoleOK
  <2>2. console.req # 0
    BY <2>1 DEF ConsoleResend, ConsoleNack, Lose
  <2> QED BY <2>2, Numbers
<1>3. /\ Base \in Seqs /\ console.rx \in Seqs /\ Got \in Nat /\ Diff(console.rx, Base) <= Got
      /\ console.req \in Nat
  <2>1. Base \in Seqs /\ console.rx \in Seqs /\ Got \in Nat /\ Diff(console.rx, Base) = Got /\ console.req \in Nat
    BY Numbers
  <2> QED BY <2>1
<1>4. CASE ConsoleResend
  <2>1. console' = console /\ net' = net \cup {RequestMsg(console)} /\ console.waiting
    BY <1>4 DEF ConsoleResend
  <2>2. PICK m : m = RequestMsg(console)
    OBVIOUS
  <2>3. m.kind = "req" /\ m.ack = PrevSeq(console.rx) /\ m.seq = ReqSeq /\ m.job = console.job /\ m.born = console.req
    BY <2>1, <2>2 DEF RequestMsg, ReqSeq
  <2>4. MsgOK(L, m, console.req, ReqSeq, console.job, Runs, Base, Got, Count)
    BY <1>3, <2>3, SaidOK
  <2> QED BY <1>1, <1>2, <1>3, <2>1, <2>2, <2>4, ConsoleQuiet
<1>5. CASE ConsoleNack
  <2>1. console' = console /\ net' = net \cup {Control("nack", console.rx)}
    BY <1>5 DEF ConsoleNack
  <2>2. PICK m : m = Control("nack", console.rx)
    OBVIOUS
  <2>3. m.kind = "nack" /\ m.ack = console.rx /\ m.born = console.req
    BY <2>2 DEF Control
  <2>4. MsgOK(L, m, console.req, ReqSeq, console.job, Runs, Base, Got, Count)
    BY <1>3, <2>3, SaidOK
  <2> QED BY <1>1, <1>2, <1>3, <2>1, <2>2, <2>4, ConsoleQuiet
<1>6. CASE Lose
  <2>1. console' = console /\ net' \subseteq net
    BY <1>6 DEF Lose
  <2> QED BY <1>1, <1>2, <1>3, <2>1, ConsoleQuiet
<1>7. ASSUME NEW m \in net, ConsoleRequestAcked(m) PROVE Tracked(L)'
  <2>1. console' = [console EXCEPT !.acked = TRUE] /\ net' \subseteq net
    BY <1>7 DEF ConsoleRequestAcked
  <2>2. /\ console'.req = console.req /\ console'.rx = console.rx /\ console'.seq = console.seq
        /\ console'.got = console.got
        /\ console'.job = console.job /\ console'.waiting = console.waiting /\ console'.done = console.done
    BY <2>1 DEF IInv, TypeOK, Consoles
  <2> QED BY <1>1, <1>2, <2>1, <2>2, ConsoleQuiet
<1>8. ASSUME NEW d \in net, ConsoleReAck(d) PROVE Tracked(L)'
  <2>1. console' = console /\ net' \subseteq net \cup {Control("ack", PrevSeq(console.rx))}
    BY <1>8 DEF ConsoleReAck
  <2>2. PICK m : m = Control("ack", PrevSeq(console.rx))
    OBVIOUS
  <2>3. m.kind = "ack" /\ m.ack = PrevSeq(console.rx) /\ m.born = console.req
    BY <2>2 DEF Control
  <2>4. MsgOK(L, m, console.req, ReqSeq, console.job, Runs, Base, Got, Count)
    BY <1>3, <2>3, SaidOK
  <2> QED BY <1>1, <1>2, <1>3, <2>1, <2>2, <2>4, ConsoleQuiet
<1> QED BY <1>4, <1>5, <1>6, <1>7, <1>8

\* The packet the console takes is the next one of the reply to the request it waits for: none of
\* an earlier reply has its number.
LEMMA AcceptFacts ==
  ASSUME NEW L, Late(L), IInv, Tracked(L), NEW m \in net, ConsoleAccept(m)
  PROVE  /\ Runs = 1 /\ Got < Count /\ m.pkt.req = console.req /\ m.pkt.idx = Got + 1
         /\ (m.pkt.fin \/ console.job.rpc) = (Got + 1 = console.job.n)
         /\ console.req > 0 /\ Got < console.job.n
<1>1. console.waiting /\ m.kind = "data" /\ m.pkt.seq = console.rx
  BY DEF ConsoleAccept
<1>2. MsgOK(L, m, console.req, ReqSeq, console.job, Runs, Base, Got, Count)
  BY DEF Tracked, NetOK
<1>3. /\ Got < console.job.n /\ console.job.n <= L /\ Got \in Nat /\ console.job.n \in Nat /\ L \in Nat
      /\ console.req \in Nat /\ Diff(console.rx, Base) = Got /\ Base \in Seqs /\ console.rx \in Seqs
      /\ (Got = 0 => Base = console.rx)
  BY <1>1, Numbers DEF Tracked, ConsoleOK, Late
<1>4. PICK age \in Nat : age = console.req - m.born /\ age <= MaxAge
  <2>1. m.born \in Nat
    BY DEF IInv, TypeOK, RequestMsgs, ControlMsgs, DataMsgs, RequestAckMsgs
  <2> QED BY <1>2, <1>3, <2>1 DEF MsgOK
<1>5. PICK far \in Nat : far = age * L /\ far + L + SEND_WINDOW + 2 < SeqMod
  <2>1. age * L \in Nat /\ age * L <= MaxAge * L /\ MaxAge * L \in Nat /\ MaxAge * L + L + L + SEND_WINDOW + 2 < SeqMod
    BY <1>4, Reach
  <2> QED BY <1>3, <2>1, Ring
<1>6. ~(Diff(Base, console.rx) \in 1 .. far + SEND_WINDOW + 1)
  <2>1. CASE Got = 0
    <3>1. Diff(Base, console.rx) = 0
      BY <1>3, <2>1, DiffFacts
    <3> QED BY <3>1, Ring
  <2>2. CASE Got # 0
    <3>1. Diff(Base, console.rx) = SeqMod - Got
      <4>1. console.rx # Base
        BY <1>3, <2>2, DiffFacts
      <4> QED BY <1>3, <4>1, DiffFacts
    <3>2. SeqMod - Got > far + SEND_WINDOW + 1
      BY <1>3, <1>5, Ring
    <3> QED BY <1>3, <1>5, <3>1, <3>2, Ring
  <2> QED BY <2>1, <2>2
<1>7. Runs = 1 /\ Piece(m.pkt, Base, Count, console.req, console.job.n)
  BY <1>1, <1>2, <1>4, <1>5, <1>6 DEF MsgOK
<1>8. Got < Count /\ m.pkt.req = console.req /\ m.pkt.idx = Got + 1 /\ m.pkt.fin = (Got + 1 = console.job.n)
  BY <1>1, <1>3, <1>7 DEF Piece
<1>9. console.job.rpc => Got + 1 = console.job.n
  BY <1>3 DEF Tracked, ConsoleOK
<1>10. m.pkt.fin \in BOOLEAN /\ console.job.rpc \in BOOLEAN
  BY <1>1 DEF IInv, TypeOK, RequestMsgs, ControlMsgs, DataMsgs, RequestAckMsgs, Packets, Consoles, Jobs
<1>11. (m.pkt.fin \/ console.job.rpc) = (Got + 1 = console.job.n)
  BY <1>8, <1>9, <1>10
<1> QED BY <1>3, <1>7, <1>8, <1>11, Numbers

\* The console takes a packet.
LEMMA AcceptTracked ==
  ASSUME NEW L, Late(L), IInv, Tracked(L), NEW m \in net, ConsoleAccept(m)
  PROVE  Tracked(L)'
<1>1. /\ Runs = 1 /\ Got < Count /\ console.req > 0 /\ Got < console.job.n
      /\ (m.pkt.fin \/ console.job.rpc) = (Got + 1 = console.job.n)
  BY AcceptFacts
<1>2. /\ console.waiting /\ UNCHANGED <<server, history>>
      /\ net' \subseteq net \cup {Control("ack", PrevSeq(NextSeq(console.rx)))}
  BY DEF ConsoleAccept
<1>3. /\ tx' = tx /\ rx_seq_nr_expected' = rx_seq_nr_expected /\ pushback' = pushback /\ pc' = pc
      /\ job' = job /\ sent' = sent
      /\ executed' = executed /\ confirmed' = confirmed
  BY <1>2 DEF server, history
<1>4. PICK last \in BOOLEAN : last = (Got + 1 = console.job.n)
  OBVIOUS
<1>5. /\ console'.req = console.req /\ console'.rx = NextSeq(console.rx) /\ console'.job = console.job
      /\ console'.got = Append(console.got, <<m.pkt.req, m.pkt.idx>>)
      /\ console'.waiting = ~last
      /\ console'.seq = (IF last THEN NextSeq(console.seq) ELSE console.seq)
      /\ console'.done = (IF last THEN console.done \cup {console.req} ELSE console.done)
  <2>1. console' = [console EXCEPT !.rx = NextSeq(console.rx), !.got = Append(@, <<m.pkt.req, m.pkt.idx>>),
                      !.waiting = ~last, !.seq = IF last THEN NextSeq(@) ELSE @,
                      !.done = IF last THEN @ \cup {console.req} ELSE @]
    BY <1>1, <1>4 DEF ConsoleAccept
  <2> QED BY <2>1 DEF IInv, TypeOK, Consoles
<1>a. /\ Got + 1 = console.job.n => /\ ~console'.waiting /\ console'.seq = NextSeq(console.seq)
                                   /\ console'.done = console.done \cup {console.req}
      /\ Got + 1 # console.job.n => console'.waiting /\ console'.seq = console.seq /\ console'.done = console.done
  BY <1>4, <1>5
<1>6. /\ Base \in Seqs /\ Got \in Nat /\ console.rx \in Seqs /\ console.seq \in Seqs
      /\ Diff(console.rx, Base) = Got /\ ReqSeq \in Seqs
      /\ console.req \in Nat /\ console.req \in Requests /\ console.job.n \in Nat
      /\ console.job.n < SeqMod /\ L \in Nat
      /\ Count \in Nat /\ Count <= console.job.n
  <2>1. console.job.n <= L /\ L < SeqMod /\ L \in Nat /\ console.job.n \in Nat
    BY Numbers DEF Late
  <2> QED BY <1>1, <2>1, Numbers, Ring
<1>7. Got' = Got + 1
  <2>1. console.got \in Seq(Requests \X Nat)
    BY DEF IInv, TypeOK, Consoles
  <2> QED BY <1>5, <2>1 DEF Got
<1>8. Got + 1 < SeqMod /\ Got < SeqMod
  BY <1>1, <1>6, Ring
<1>9. Base' = Base
  BY <1>5, <1>6, <1>7, <1>8, BackFacts DEF Base
<1>10. ReqSeq' = ReqSeq /\ ReqSeq = console.seq
  BY <1>2, <1>5, <1>6, NextFacts DEF ReqSeq
<1>11. Runs' = 1 /\ Count' = Count
  BY <1>1, <1>3, <1>5 DEF Runs, Count
<1>12. ConsoleOK(L)'
  <2>1. MaxAge = 0 \/ (console'.req < MaxRequests => NumberOK')
    BY <1>1, <1>5, <1>10 DEF Tracked, ConsoleOK, NumberOK
  <2>2. console'.waiting => Got' < console'.job.n
    BY <1>1, <1>5, <1>6, <1>7, <1>a
  <2>3. ~console'.waiting => Got' = console'.job.n /\ console'.req \in console'.done
    BY <1>5, <1>7, <1>a
  <2>4. console.done \subseteq console'.done
    BY <1>5
  <2>5. console'.req # 0
    BY <1>1, <1>5
  <2> QED BY <1>3, <1>5, <1>11, <2>1, <2>2, <2>3, <2>4, <2>5 DEF Tracked, ConsoleOK
<1>13. ServerOK'
  <2>1. TxNow(tx)'
    <3>1. During(tx, Base, Got, Count, console.req, console.job.n)
      BY <1>1 DEF Tracked, ServerOK, TxNow
    <3>2. (Got + 1) .. (Count - 1) \subseteq Got .. (Count - 1)
      BY <1>6
    <3>3. During(tx, Base, Got + 1, Count, console.req, console.job.n)
      BY <3>1, <3>2 DEF During
    <3> QED BY <1>3, <1>5, <1>7, <1>9, <1>11, <3>3 DEF TxNow
  <2>2. AtOK(pc)'
    BY <1>1, <1>3, <1>5, <1>11 DEF Tracked, ServerOK, AtOK
  <2>3. Got + 1 <= Count
    BY <1>1, <1>6
  <2> QED BY <1>1, <1>3, <1>5, <1>7, <1>10, <1>11, <2>1, <2>2, <2>3 DEF Tracked, ServerOK
<1>14. NetOK(L)'
  <2>1. ASSUME NEW x \in net' PROVE MsgOK(L, x, console.req, ReqSeq, console.job, 1, Base, Got + 1, Count)
    <3>1. CASE x \in net
      <4>1. MsgOK(L, x, console.req, ReqSeq, console.job, 1, Base, Got, Count)
        BY <1>1, <3>1 DEF Tracked, NetOK
      <4>2. x.kind \in {"req", "ack", "nack"} => x.ack \in Seqs
        BY <3>1 DEF IInv, TypeOK, RequestMsgs, ControlMsgs, DataMsgs, RequestAckMsgs
      <4>3. x.kind \in {"req", "ack", "nack"} => (Diff(Expects(x), Base) <= Got => Diff(Expects(x), Base) <= Got + 1)
        <5>1. x.kind \in {"req", "ack", "nack"} => Expects(x) \in Seqs
          BY <4>2, NextFacts DEF Expects
        <5>2. x.kind \in {"req", "ack", "nack"} => Diff(Expects(x), Base) \in Nat
          BY <1>6, <5>1, DiffFacts
        <5> QED BY <1>6, <5>2
      <4> QED BY <4>1, <4>3 DEF MsgOK, Heard
    <3>2. CASE x = Control("ack", PrevSeq(NextSeq(console.rx)))
      <4>1. x.kind = "ack" /\ x.ack = PrevSeq(NextSeq(console.rx)) /\ x.born = console.req
        BY <3>2 DEF Control
      <4>2. NextSeq(console.rx) \in Seqs /\ Diff(NextSeq(console.rx), Base) <= Got + 1
        BY <1>6, <1>8, NextFacts
      <4>3. Got + 1 \in Nat
        BY <1>6
      <4> QED BY <1>6, <4>1, <4>2, <4>3, SaidOK
    <3> QED BY <1>2, <3>1, <3>2
  <2> QED BY <1>5, <1>7, <1>9, <1>10, <1>11, <2>1 DEF NetOK
<1>15. PushOK(L)'
  <2>1. HandedOK(L, Head(pushback)) => HandedOK(L, Head(pushback))'
    BY <1>1, <1>3, <1>9, <1>11 DEF HandedOK
  <2> QED BY <1>3, <2>1 DEF Tracked, PushOK
<1> QED BY <1>12, <1>13, <1>14, <1>15 DEF Tracked

\* A new request: the last reply is all there, and every datagram on the way is one request older.
LEMMA AgedOK ==
  ASSUME NEW L, Late(L), NEW c \in Nat, NEW s \in Seqs, NEW sn \in Seqs, sn = NextSeq(s),
         NEW b \in Seqs, NEW rx \in Seqs,
         NEW n \in Nat, n <= L, Diff(rx, b) = n, MaxAge = 0 \/ s # 0,
         NEW m \in Msgs, m.born + MaxAge >= c + 1, NEW j, MsgOK(L, m, c, s, j, 1, b, n, n), j.n = n, NEW jn, NEW k
  PROVE  MsgOK(L, m, c + 1, sn, jn, 0, rx, 0, k)
<1>1. m.born \in Nat /\ m.born <= c
  BY DEF Msgs, RequestMsgs, ControlMsgs, DataMsgs, RequestAckMsgs, MsgOK
<1>2. PICK age \in Nat : age = c - m.born
  BY <1>1
<1>3. age + 1 <= MaxAge /\ (c + 1) - m.born = age + 1 /\ m.born <= c + 1 /\ MaxAge \in Nat /\ age <= MaxAge /\ MaxAge # 0
  BY <1>1, <1>2, TransportAssumption
<1>4. PICK far \in Nat : far = age * L /\ (age + 1) * L = far + L /\ far + L + L + SEND_WINDOW + 2 < SeqMod
  <2>1. age * L \in Nat /\ (age + 1) * L = age * L + L /\ age * L <= MaxAge * L /\ MaxAge * L \in Nat
        /\ MaxAge * L + L + L + SEND_WINDOW + 2 < SeqMod /\ L \in Nat
    BY <1>3, Reach
  <2> QED BY <2>1, Ring
<1>5. L \in Nat /\ MaxAge + 2 < SeqMod /\ SEND_WINDOW \in Nat /\ SeqMod \in Nat
  BY <1>3, Reach, Ring
\* A number within the reply, or shortly before it, lies before the next one.
<1>6. ASSUME NEW e \in Seqs, NEW h \in Nat, h + L < SeqMod, Diff(e, b) <= n \/ Diff(b, e) <= h
      PROVE  Diff(rx, e) <= h + L
  <2>1. PICK p \in Nat, q \in Nat : p = Diff(e, b) /\ q = Diff(b, e) /\ p < SeqMod /\ q < SeqMod
    BY DiffFacts
  <2>2. (p = 0 <=> e = b) /\ (e # b => q = SeqMod - p) /\ (q = 0 <=> b = e)
    BY <2>1, DiffFacts
  <2>3. Diff(rx, e) = (IF n + q < SeqMod THEN n + q ELSE n + q - SeqMod)
    BY <2>1, DiffFacts
  <2>4. (e = b => q = 0) /\ (e # b => q = SeqMod - p /\ p # 0)
    BY <2>2
  <2>5. CASE p <= n /\ e # b
    BY ONLY <1>5, <2>1, <2>3, <2>4, <2>5, n \in Nat, n <= L, h \in Nat
  <2>6. CASE q <= h
    BY ONLY <1>5, <1>6, <2>1, <2>3, <2>6, n \in Nat, n <= L, h \in Nat
  <2>7. CASE e = b
    BY <2>4, <2>6, <2>7
  <2> QED BY <1>6, <2>1, <2>5, <2>6, <2>7
<1>7. m.kind \in {"req", "ack", "nack"} => Expects(m) \in Seqs
  BY NextFacts DEF Msgs, RequestMsgs, ControlMsgs, DataMsgs, RequestAckMsgs, Expects
<1>8. Diff(sn, s) = 1
  BY NextFacts
<1>9. ASSUME m.kind = "req"
      PROVE  m.seq # 0 /\ Diff(sn, m.seq) = age + 1 /\ Diff(rx, Expects(m)) <= (age + 1) * L
  <2>1. m.seq \in Seqs /\ Expects(m) \in Seqs
    BY <1>7, <1>9 DEF Msgs, RequestMsgs, ControlMsgs, DataMsgs, RequestAckMsgs
  <2>2. \/ age = 0 /\ m.seq = s /\ Diff(Expects(m), b) <= n
        \/ 0 < age /\ m.seq # 0 /\ Diff(s, m.seq) = age /\ Diff(b, Expects(m)) <= far
    BY <1>2, <1>4, <1>9 DEF MsgOK
  <2>3. m.seq # 0
    BY <1>3, <2>2
  <2>4. Diff(s, m.seq) = age
    BY <2>1, <2>2, DiffFacts
  <2>5. Diff(sn, m.seq) = age + 1
    BY <1>3, <1>5, <2>1, <2>4, NextFacts
  <2>6. Diff(rx, Expects(m)) <= far + L
    BY <1>4, <1>5, <1>6, <2>1, <2>2
  <2> QED BY <1>4, <2>3, <2>5, <2>6
<1>10. ASSUME m.kind \in {"ack", "nack"}
       PROVE  Diff(rx, Expects(m)) <= (age + 1) * L
  <2>1. Expects(m) \in Seqs
    BY <1>7, <1>10
  <2>2. Diff(Expects(m), b) <= n \/ Diff(b, Expects(m)) <= far
    BY <1>2, <1>4, <1>10 DEF MsgOK, Heard
  <2>3. Diff(rx, Expects(m)) <= far + L
    BY <1>4, <1>5, <1>6, <2>1, <2>2
  <2> QED BY <1>4, <2>3
<1>11. ASSUME m.kind = "data"
       PROVE  Diff(rx, m.pkt.seq) \in 1 .. (age + 1) * L + SEND_WINDOW + 1
  <2>1. PICK e \in Seqs : e = m.pkt.seq
    BY <1>11 DEF Msgs, RequestMsgs, ControlMsgs, DataMsgs, RequestAckMsgs, Packets
  <2>2. Diff(e, b) < n \/ Diff(b, e) \in 1 .. far + SEND_WINDOW + 1
    BY <1>2, <1>4, <1>11, <2>1 DEF MsgOK, Piece
  <2>3. PICK p \in Nat, q \in Nat : p = Diff(e, b) /\ q = Diff(b, e) /\ p < SeqMod /\ q < SeqMod
    BY DiffFacts
  <2>4. (e = b => p = 0 /\ q = 0) /\ (e # b => q = SeqMod - p /\ p # 0)
    BY <2>3, DiffFacts
  <2>5. PICK d : d = Diff(rx, e) /\ d = (IF n + q < SeqMod THEN n + q ELSE n + q - SeqMod)
    BY <2>3, DiffFacts
  <2>6. d \in 1 .. far + L + SEND_WINDOW + 1
    <3>1. CASE p < n
      BY ONLY <1>4, <1>5, <2>3, <2>4, <2>5, <3>1, n \in Nat, n <= L
    <3>2. CASE q \in 1 .. far + SEND_WINDOW + 1
      BY ONLY <1>4, <1>5, <2>3, <2>5, <3>2, n \in Nat, n <= L
    <3> QED BY <2>2, <2>3, <3>1, <3>2
  <2> QED BY <1>4, <2>1, <2>5, <2>6
<1>12. ASSUME m.kind = "reqack"
       PROVE  Diff(sn, m.ack) <= (age + 1) + 1 /\ m.ack # sn
  <2>1. m.ack \in Seqs
    BY <1>12 DEF Msgs, RequestMsgs, ControlMsgs, DataMsgs, RequestAckMsgs
  <2>2. Diff(s, m.ack) <= age + 1 /\ Diff(s, m.ack) \in Nat
    BY <1>2, <1>12, <2>1, DiffFacts DEF MsgOK
  <2>3. Diff(sn, m.ack) = Diff(s, m.ack) + 1
    BY <1>3, <1>5, <2>1, <2>2, NextFacts
  <2>4. Diff(sn, m.ack) # 0
    BY <2>2, <2>3
  <2> QED BY <2>1, <2>2, <2>3, <2>4, DiffFacts
<1> QED BY <1>3, <1>9, <1>10, <1>11, <1>12 DEF MsgOK, Heard

\* The console asks for something new: the session has nothing left to send it.
LEMMA AskTracked ==
  ASSUME NEW L, Late(L), IInv, Tracked(L), ConsoleSend
  PROVE  Tracked(L)'
<1>1. ~console.waiting /\ console.req < MaxRequests /\ UNCHANGED <<server, history>>
  BY DEF ConsoleSend
<1>2. PICK j \in NewJobs(console.req + 1) :
        /\ console' = [console EXCEPT !.req = @ + 1, !.waiting = TRUE, !.acked = FALSE, !.got = <<>>, !.job = j]
        /\ net' = Surviving(j.req) \cup {RequestMsg(console')}
  BY DEF ConsoleSend
<1>3. /\ tx' = tx /\ rx_seq_nr_expected' = rx_seq_nr_expected /\ pushback' = pushback /\ pc' = pc
      /\ job' = job /\ sent' = sent
      /\ executed' = executed /\ confirmed' = confirmed
  BY <1>1 DEF server, history
<1>4. /\ console'.req = console.req + 1 /\ console'.rx = console.rx /\ console'.job = j /\ console'.got = <<>>
      /\ console'.waiting /\ console'.seq = console.seq /\ console'.done = console.done
  BY <1>2 DEF IInv, TypeOK, Consoles
<1>5. /\ Base \in Seqs /\ Got \in Nat /\ console.rx \in Seqs /\ console.seq \in Seqs
      /\ Diff(console.rx, Base) = Got /\ ReqSeq \in Seqs
      /\ console.req \in Nat /\ console.req \in Requests /\ console.job.n \in Nat /\ console.job.n <= L
      /\ L \in Nat \ {0}
      /\ rx_seq_nr_expected \in Seqs /\ console.req + 1 \in Requests
  <2>1. console.req + 1 \in Requests
    BY <1>1, Numbers, Ring DEF Requests
  <2> QED BY <2>1, Numbers DEF Late
<1>6. j.req = console.req + 1 /\ j.n \in 1 .. L /\ (j.rpc => j.n = 1)
  <2>1. \A k \in StreamLens : k \in 1 .. L
    <3>1. (\A k \in StreamLens : k <= L) /\ StreamLens \subseteq Nat \ {0} /\ L \in Nat
      BY TransportAssumption DEF Late
    <3> QED BY <3>1
  <2> QED BY <1>5, <2>1 DEF NewJobs
<1>7. Got' = 0
  BY <1>4 DEF Got
<1>8. Base' = console.rx
  <2>1. 0 \in Nat /\ 0 < SeqMod
    BY Ring
  <2>2. Back(console.rx, 0) = console.rx
    BY <1>5, <2>1, BackFacts
  <2> QED BY <1>4, <1>7, <2>2 DEF Base
<1>9. ReqSeq' = console.seq /\ ReqSeq = PrevSeq(console.seq) /\ console.seq = NextSeq(ReqSeq)
  BY <1>1, <1>4, <1>5, NextFacts DEF ReqSeq
<1>10. Runs' = 0
  BY <1>3, <1>4, <1>5 DEF Runs, Tracked, ConsoleOK
<1>11. ASSUME console.req > 0
       PROVE  /\ Runs = 1 /\ Got = console.job.n /\ Count = Got /\ console.req \in console.done /\ job = console.job
              /\ tx.seq_nr = console.rx /\ InFlight(tx) <= SEND_WINDOW /\ rx_seq_nr_expected = console.seq
  <2>1. Runs = 1 /\ Got = console.job.n /\ console.req \in console.done
    BY <1>1, <1>11 DEF Tracked, ConsoleOK
  <2>2. Count = Got /\ rx_seq_nr_expected = console.seq
    BY <1>5, <1>9, <2>1, Numbers
  <2>3. Diff(tx.seq_nr, Base) = Got /\ InFlight(tx) <= SEND_WINDOW /\ job = console.job
    BY <2>1, <2>2 DEF Tracked, ServerOK, TxNow, During
  <2>4. tx.seq_nr \in Seqs
    BY DEF IInv, TxOK, Txs
  <2>5. tx.seq_nr = console.rx
    BY <1>5, <2>3, <2>4, Ring DEF Diff, Seqs
  <2> QED BY <2>1, <2>2, <2>3, <2>5
<1>12. ASSUME ~(console.req > 0)
       PROVE  /\ Runs = 0 /\ console.req = 0 /\ net = {} /\ pushback = <<>>
              /\ Before(tx, console.rx) /\ rx_seq_nr_expected = console.seq
  <2>1. console.req = 0
    BY <1>5, <1>12
  <2>2. Runs = 0
    BY <2>1, Numbers
  <2> QED BY <2>1, <2>2 DEF Tracked, ConsoleOK, ServerOK, TxNow
<1>13. ConsoleOK(L)'
  <2>1. \A r \in Requests : r > 0 /\ r < console.req + 1 => r \in console.done
    <3> SUFFICES ASSUME NEW r \in Requests, r > 0, r < console.req + 1 PROVE r \in console.done
      OBVIOUS
    <3>1. CASE r = console.req
      BY <1>11, <3>1
    <3>2. CASE r < console.req
      BY <3>2 DEF Tracked, ConsoleOK
    <3> QED BY <1>5, <3>1, <3>2, Ring
  <2>2. \A r \in Requests : executed[r] \in {0, 1} /\ (r = 0 \/ r > console.req + 1 => executed[r] = 0)
    <3>1. \A r \in Requests : r \in Nat
      BY Ring
    <3>2. \A r \in Requests : r > console.req + 1 => r > console.req
      BY <1>5, <3>1
    <3> QED BY <3>2 DEF Tracked, ConsoleOK
  <2>3. MaxAge = 0 \/ (console.req + 1 < MaxRequests => NumberOK')
    <3> SUFFICES ASSUME MaxAge # 0, console.req + 1 < MaxRequests PROVE NumberOK'
      OBVIOUS
    <3>1. NumberOK /\ MaxRequests \in Nat /\ console.seq \in Nat /\ ReqSeq \in Nat /\ SeqMod \in Nat
      BY <1>1, <1>5, Ring DEF Tracked, ConsoleOK
    <3>2. 0 < console.seq /\ console.seq + (MaxRequests - (console.req + 1)) <= SeqMod
      <4>1. CASE console.req > 0
        <5>1. 0 < ReqSeq /\ ReqSeq + (MaxRequests - console.req) <= SeqMod
          BY <3>1, <4>1 DEF NumberOK
        <5>2. PICK k \in Nat : k = MaxRequests - console.req /\ k > 1
          BY <1>5, <3>1
        <5>3. ReqSeq + k <= SeqMod /\ MaxRequests - (console.req + 1) = k - 1
          BY <1>5, <3>1, <5>1, <5>2
        <5>4. console.seq = ReqSeq + 1
          BY <1>9, <3>1, <5>2, <5>3 DEF NextSeq
        <5> QED BY <3>1, <5>1, <5>2, <5>3, <5>4
      <4>2. CASE ~(console.req > 0)
        <5>1. console.req = 0 /\ MaxRequests > 1
          BY <1>5, <3>1, <4>2
        <5>2. 0 < console.seq /\ console.seq + MaxRequests <= SeqMod + 1
          BY <3>1, <5>1 DEF NumberOK
        <5> QED BY <3>1, <5>1, <5>2
      <4> QED BY <4>1, <4>2
    <3>3. console.req + 1 > 0
      BY <1>5
    <3> QED BY <1>4, <1>9, <3>2, <3>3 DEF NumberOK
  <2>4. console.req + 1 # 0 /\ 0 < j.n
    BY <1>5, <1>6
  <2>5. confirmed \subseteq console.done
    BY AtFacts
  <2> QED BY <1>3, <1>4, <1>6, <1>7, <1>9, <2>1, <2>2, <2>3, <2>4, <2>5 DEF ConsoleOK
<1>14. ServerOK'
  <2>1. Before(tx, console.rx) /\ rx_seq_nr_expected = console.seq
    BY <1>11, <1>12 DEF Before
  <2>2. TxNow(tx)'
    BY <1>3, <1>4, <1>10, <2>1 DEF TxNow
  <2>3. pc \in {"idle", "final"} /\ (pc = "final" => job.req \in Requests /\ 0 < job.req /\ job.req < console.req + 1)
    <3>1. AtOK(pc) /\ pc \in {"idle", "sending", "window", "final"}
      BY AtFacts DEF IInv, TypeOK
    <3>2. CASE console.req > 0
      <4>1. Runs = 1 /\ Got = console.job.n /\ Count = Got /\ job = console.job
        BY <1>11, <3>2
      <4>2. ~(pc \in {"sending", "window"})
        <5> SUFFICES ASSUME pc \in {"sending", "window"} PROVE FALSE
          OBVIOUS
        <5>1. ~job.rpc /\ sent < job.n
          BY <3>1, <4>1 DEF AtOK
        <5>2. sent = job.n
          BY <4>1, <5>1 DEF Count
        <5> QED BY <1>5, <4>1, <5>1, <5>2
      <4>3. job.req = console.req
        BY <4>1 DEF Tracked, ConsoleOK
      <4> QED BY <1>5, <3>1, <3>2, <4>2, <4>3
    <3>3. CASE ~(console.req > 0)
      <4>1. Runs = 0 /\ console.req = 0
        BY <1>12, <3>3
      <4>2. pc \in {"idle", "final"} /\ (pc = "final" => job.req \in Requests /\ 0 < job.req /\ job.req < console.req)
        BY <3>1, <4>1 DEF AtOK
      <4>3. job.req \in Requests => job.req \in Nat
        BY Ring
      <4> QED BY <1>5, <4>1, <4>2, <4>3
    <3> QED BY <3>2, <3>3
  <2>4. AtOK(pc)'
    BY <1>3, <1>4, <1>10, <2>3 DEF AtOK
  <2> QED BY <1>3, <1>4, <1>10, <2>1, <2>2, <2>4 DEF ServerOK
<1>15. NetOK(L)'
  <2>1. ASSUME NEW m \in net' PROVE MsgOK(L, m, console.req + 1, console.seq, j, 0, console.rx, 0, Count')
    <3>1. CASE m = RequestMsg(console')
      <4>1. m.kind = "req" /\ m.ack = PrevSeq(console.rx) /\ m.seq = console.seq /\ m.job = j /\ m.born = console.req + 1
        BY <1>4, <3>1 DEF RequestMsg
      <4>2. Diff(console.rx, console.rx) <= 0 /\ console.req + 1 \in Nat
        BY <1>5, DiffFacts
      <4>3. PICK k : k = Count'
        OBVIOUS
      <4>4. MsgOK(L, m, console.req + 1, console.seq, j, 0, console.rx, 0, k)
        BY <1>5, <4>1, <4>2, SaidOK
      <4> QED BY <4>3, <4>4
    <3>2. CASE m \in net /\ m.born + MaxAge >= console.req + 1
      <4>1. console.req > 0
        BY <1>12, <3>2
      <4>2. MsgOK(L, m, console.req, ReqSeq, console.job, 1, Base, Got, Got)
        BY <1>11, <3>2, <4>1 DEF Tracked, NetOK
      <4>3. MaxAge = 0 \/ ReqSeq # 0
        BY <1>1, <1>5, <4>1, Ring DEF Tracked, ConsoleOK, NumberOK
      <4>4. m \in Msgs
        BY <3>2 DEF IInv, TypeOK, Msgs
      <4>5. PICK k : k = Count'
        OBVIOUS
      <4>6. Got <= L /\ console.job.n = Got
        BY <1>5, <1>11, <4>1
      <4>7. MsgOK(L, m, console.req + 1, console.seq, j, 0, console.rx, 0, k)
        BY <1>5, <1>9, <3>2, <4>2, <4>3, <4>4, <4>6, AgedOK
      <4> QED BY <4>5, <4>7
    <3> QED BY <1>2, <1>6, <3>1, <3>2 DEF Surviving
  <2> QED BY <1>4, <1>7, <1>8, <1>9, <1>10, <2>1 DEF NetOK
<1>16. PushOK(L)'
  <2> SUFFICES ASSUME pushback # <<>> PROVE HandedOK(L, Head(pushback))'
    BY <1>3 DEF PushOK
  <2>1. console.req > 0
    BY <1>12
  <2>2. PICK m : m = Head(pushback)
    OBVIOUS
  <2>3. m \in RequestMsgs
    BY <2>2 DEF IInv, TypeOK
  <2>4. Expects(m) \in Seqs
    BY <2>3, NextFacts DEF RequestMsgs, Expects
  <2>5. /\ m.seq \notin {rx_seq_nr_expected, PrevSeq(rx_seq_nr_expected), 0}
        /\ Diff(Base, Expects(m)) <= MaxAge * L
    <3>1. HandedOK(L, m) /\ Runs = 1
      BY <1>11, <2>1, <2>2 DEF Tracked, PushOK
    <3>2. 0 \in Nat /\ 0 <= MaxAge
      BY TransportAssumption
    <3>3. MaxAge * L \in Nat
      BY <3>2, Reach
    <3> QED BY <3>1, <3>3 DEF HandedOK
  <2>6. Diff(console.rx, Expects(m)) <= MaxAge * L + L
    <3>1. PICK far \in Nat : far = MaxAge * L /\ far + L + L < SeqMod
      <4>1. 0 \in Nat /\ 0 <= MaxAge
        BY TransportAssumption
      <4>2. MaxAge * L \in Nat /\ MaxAge * L + L + L + SEND_WINDOW + 2 < SeqMod
        BY <4>1, Reach
      <4> QED BY <1>5, <4>2, Ring
    <3>2. PICK q \in Nat : q = Diff(Base, Expects(m)) /\ q <= far
      BY <1>5, <2>4, <2>5, <3>1, DiffFacts
    <3>3. Got <= L
      BY <1>5, <1>11, <2>1
    <3>4. Got + q < SeqMod /\ Got + q <= far + L
      BY <1>5, <3>1, <3>2, <3>3, Ring
    <3>5. Diff(console.rx, Expects(m)) = Got + q
      BY <1>5, <2>4, <3>2, <3>4, DiffFacts
    <3> QED BY <3>1, <3>4, <3>5
  <2> QED BY <1>3, <1>8, <1>10, <2>2, <2>5, <2>6 DEF HandedOK
<1> QED BY <1>13, <1>14, <1>15, <1>16 DEF Tracked

\* A new session, or one whose traffic so far is delivered.
LEMMA InitTracked ==
  ASSUME NEW L, Late(L), Init
  PROVE  Tracked(L)
<1>1. /\ pushback = <<>> /\ pc = "idle" /\ job = NoJob /\ sent = 0 /\ net = {}
      /\ executed = [r \in Requests |-> 0] /\ confirmed = {}
  BY DEF Init
<1>2. PICK rx \in Seqs, crx \in Seqs :
        SessionAt(tx, rx, crx) /\ Before(tx, crx) /\ (MaxAge = 0 \/ (MaxRequests > 1 => 0 < rx /\ rx + MaxRequests <= SeqMod + 1))
  <2>1. CASE Fresh /\ SessionAt(ResetTx, 0, 0)
    <3>1. tx = ResetTx /\ SessionAt(tx, 0, 0)
      BY <2>1 DEF SessionAt
    <3>2. Before(tx, 0)
      BY <3>1 DEF Before, ResetTx
    <3>3. MaxAge = 0
      BY <2>1 DEF Late
    <3> QED BY <3>1, <3>2, <3>3, Ring
  <2>2. ASSUME NEW s \in Starts, SessionAt([seq_nr |-> s[1], acked |-> PrevSeq(s[1]), buffer |-> {}], s[2], s[1])
        PROVE  \E rx \in Seqs, crx \in Seqs :
                 SessionAt(tx, rx, crx) /\ Before(tx, crx) /\ (MaxAge = 0 \/ (MaxRequests > 1 => 0 < rx /\ rx + MaxRequests <= SeqMod + 1))
    <3>1. s[1] \in Seqs /\ s[2] \in Seqs
      BY Ring
    <3>2. SessionAt(tx, s[2], s[1]) /\ tx.seq_nr = s[1] /\ tx.acked = PrevSeq(s[1])
      BY <2>2 DEF SessionAt
    <3>3. InFlight(tx) = 0
      BY <3>1, <3>2, NextFacts, DiffFacts DEF InFlight
    <3>4. Before(tx, s[1])
      BY <3>2, <3>3, Ring DEF Before
    <3>5. MaxAge = 0 \/ (MaxRequests > 1 => 0 < s[2] /\ s[2] + MaxRequests <= SeqMod + 1)
      BY DEF Late
    <3> QED BY <3>1, <3>2, <3>4, <3>5
  <2> QED BY <2>1, <2>2 DEF Init
<1>3. /\ rx_seq_nr_expected = rx /\ console.seq = rx /\ console.rx = crx /\ console.req = 0
      /\ console.waiting = FALSE
      /\ console.got = <<>> /\ console.job = NoJob /\ console.done = {}
  BY <1>2 DEF SessionAt
<1>4. Got = 0 /\ Runs = 0 /\ MaxRequests \in Nat /\ rx \in Nat /\ L \in Nat \ {0} /\ 0 \in Requests /\ Requests \subseteq Nat
  BY <1>1, <1>3, Ring DEF Got, Runs, Late
<1>5. ConsoleOK(L)
  <2>1. NoJob.req = 0 /\ NoJob.n = 1 /\ 1 \in 1 .. L
    BY <1>4 DEF NoJob
  <2>2. MaxAge = 0 \/ NumberOK
    BY <1>2, <1>3, <1>4 DEF NumberOK
  <2>3. \A r \in Requests : executed[r] = 0 /\ ~(r > 0 /\ r < 0)
    BY <1>1, <1>4
  <2> QED BY <1>1, <1>3, <1>4, <2>1, <2>2, <2>3 DEF ConsoleOK
<1>6. ServerOK
  BY <1>1, <1>2, <1>3, <1>4 DEF ServerOK, TxNow, AtOK
<1>7. NetOK(L) /\ PushOK(L)
  BY <1>1 DEF NetOK, PushOK
<1> QED BY <1>5, <1>6, <1>7 DEF Tracked

\* Neither of the two ways to start over happens.
LEMMA NoStartingOver ==
  ASSUME NEW L, Late(L), IInv, Tracked(L)
  PROVE  ~ConsoleRestart /\ \A m \in Items : ~HandlePeerReset(m)
<1>1. ~ConsoleRestart
  <2>1. console.restarts \in Nat
    BY DEF IInv, TypeOK, Consoles
  <2> QED BY <2>1 DEF ConsoleRestart, Late
<1>2. \A m \in Items : ~HandlePeerReset(m)
  BY ItemFacts DEF HandlePeerReset
<1> QED BY <1>1, <1>2

\* The invariant is inductive, together with the one above.
LEMMA StepTracked ==
  ASSUME NEW L, Late(L), IInv, Tracked(L), [Next]_vars, IInv'
  PROVE  Tracked(L)'
<1>1. CASE ServerStep
  <2>1. CASE SendNext
    BY <2>1, SendNextTracked
  <2>2. CASE WindowTimeout \/ FinalTimeout
    BY <2>2, TimeoutTracked
  <2>3. ASSUME NEW m \in Items, Receive(m) PROVE Tracked(L)'
    <3>1. QuietReceive(m) \/ HandleRequest(m) \/ HandlePeerReset(m)
      BY <2>3 DEF Receive, QuietReceive
    <3>2. CASE QuietReceive(m)
      BY <3>2, QuietReceiveTracked
    <3>3. CASE HandleRequest(m)
      BY <3>3, RequestTracked
    <3>4. CASE HandlePeerReset(m)
      BY <3>4, NoStartingOver
    <3> QED BY <3>1, <3>2, <3>3, <3>4
  <2> QED BY <1>1, <2>1, <2>2, <2>3 DEF ServerStep
<1>2. CASE ConsoleStep
  <2>1. CASE ConsoleSend
    BY <2>1, AskTracked
  <2>2. CASE ConsoleResend \/ ConsoleNack
    BY <2>2, ConsoleQuietSteps
  <2>3. CASE ConsoleRestart
    BY <2>3, NoStartingOver
  <2>4. ASSUME NEW m \in net, ConsoleRequestAcked(m) \/ ConsoleReAck(m) PROVE Tracked(L)'
    BY <2>4, ConsoleQuietSteps
  <2>5. ASSUME NEW m \in net, ConsoleAccept(m) PROVE Tracked(L)'
    BY <2>5, AcceptTracked
  <2> QED BY <1>2, <2>1, <2>2, <2>3, <2>4, <2>5 DEF ConsoleStep
<1>3. CASE Lose
  BY <1>3, ConsoleQuietSteps
<1>4. CASE UNCHANGED vars
  <2>1. /\ tx' = tx /\ rx_seq_nr_expected' = rx_seq_nr_expected /\ pushback' = pushback /\ pc' = pc
        /\ job' = job /\ sent' = sent
        /\ executed' = executed /\ confirmed' = confirmed /\ console' = console /\ net' = net
    BY <1>4 DEF vars
  <2>2. Got' = Got /\ Base' = Base /\ ReqSeq' = ReqSeq /\ Runs' = Runs /\ Count' = Count
    BY <2>1 DEF Got, Base, ReqSeq, Runs, Count
  <2>3. ConsoleOK(L)'
    BY <2>1, <2>2 DEF Tracked, ConsoleOK, NumberOK
  <2>4. TxNow(tx)' /\ AtOK(pc)'
    BY <2>1, <2>2 DEF Tracked, ServerOK, TxNow, AtOK
  <2>5. ServerOK'
    BY <2>1, <2>2, <2>4 DEF Tracked, ServerOK
  <2>6. NetOK(L)'
    BY <2>1, <2>2 DEF Tracked, NetOK
  <2>7. PushOK(L)'
    BY <2>1, <2>2 DEF Tracked, PushOK, HandedOK
  <2> QED BY <2>3, <2>5, <2>6, <2>7 DEF Tracked
<1> QED BY <1>1, <1>2, <1>3, <1>4 DEF Next

\* Tracked, the invariant that ties the console to the session: what the session has out, keeps and
\* expects (tx_seq_nr, tx_buffer, rx_seq_nr_expected) fits what the console has and asks for, and no
\* datagram on the way can be taken for another.
THEOREM Tracking ==
  ASSUME NEW CONSTANT L, Late(L)
  PROVE  Spec => []Tracked(L)
<1>1. Init => Tracked(L)
  BY InitTracked
<1>2. IInv /\ IInv' /\ Tracked(L) /\ [Next]_vars => Tracked(L)'
  BY StepTracked
<1> QED BY <1>1, <1>2, Invariance, PTL DEF Spec

\* LostPacketsRecoverable: while the console waits for a reply that was started, each packet out that
\* it lacks is kept (tx_buffer), with the number and the place in the reply that it lacks.
THEOREM LossesRecoverable ==
  ASSUME NEW CONSTANT L, Late(L)
  PROVE  Spec => []LostPacketsRecoverable
<1>1. IInv /\ Tracked(L) => LostPacketsRecoverable
  <2> SUFFICES ASSUME IInv, Tracked(L), console.waiting, executed[console.req] > 0,
                      NEW d \in 0 .. Diff(tx.seq_nr, console.rx) - 1
               PROVE  \E p \in tx.buffer :
                        Diff(p.seq, console.rx) = d /\ p.req = console.req /\ p.idx = Len(console.got) + 1 + d
    BY DEF LostPacketsRecoverable
  <2>1. Runs = 1
    <3>1. Runs \in {0, 1} /\ Runs > 0
      BY Numbers DEF Runs
    <3> QED BY <3>1
  <2>2. /\ Base \in Seqs /\ console.rx \in Seqs /\ Got \in Nat /\ Count \in Nat /\ Got <= Count
        /\ Diff(console.rx, Base) = Got
    BY <2>1, Numbers
  <2>3. During(tx, Base, Got, Count, console.req, console.job.n)
    BY <2>1 DEF Tracked, ServerOK, TxNow
  <2>4. tx.seq_nr \in Seqs /\ \A p \in tx.buffer : p.seq \in Seqs
    BY DEF IInv, TxOK, Txs, Packets
  <2>5. Diff(tx.seq_nr, Base) = Count
    BY <2>3 DEF During
  <2>6. Diff(tx.seq_nr, console.rx) = Count - Got
    BY <2>2, <2>4, <2>5, Ring DEF Diff, Seqs
  <2>7. d \in Nat /\ Got + d \in Got .. Count - 1
    BY <2>2, <2>6
  <2>8. PICK p \in tx.buffer : Diff(p.seq, Base) = Got + d
    BY <2>3, <2>7 DEF During
  <2>9. p.req = console.req /\ p.idx = Got + d + 1
    BY <2>3, <2>8 DEF During, Piece
  <2>10. Diff(p.seq, console.rx) = d
    BY <2>2, <2>4, <2>7, <2>8, Ring DEF Diff, Seqs
  <2>11. Got + d + 1 = Len(console.got) + 1 + d
    BY <2>2, <2>7 DEF Got
  <2> QED BY <2>9, <2>10, <2>11
<1> QED BY <1>1, Invariance, Tracking, PTL

\* ConfirmedDelivered: a stream that _wait_for_final_ack reports as confirmed reached the console whole.
THEOREM ConfirmedReached ==
  ASSUME NEW CONSTANT L, Late(L)
  PROVE  Spec => []ConfirmedDelivered
<1>1. Tracked(L) => ConfirmedDelivered
  BY DEF Tracked, ConsoleOK, ConfirmedDelivered
<1> QED BY <1>1, Tracking, PTL

\* The initial states are initial states of the promise.
LEMMA InitPromised ==
  ASSUME Init PROVE Promised!Init
<1>1. \E rx, crx : console = [seq |-> rx, rx |-> crx, req |-> 0, waiting |-> FALSE, acked |-> FALSE,
                              got |-> <<>>, job |-> NoJob, done |-> {}, restarts |-> 0]
  BY DEF Init, SessionAt
<1>2. executed = [r \in Requests |-> 0]
  BY DEF Init
<1> QED BY <1>1, <1>2 DEF Promised!Init, NoJob

\* Every step keeps the promise: taking the request executes it, a packet taken is the next piece,
\* and all the rest is out of the console's sight.
LEMMA StepPromised ==
  ASSUME NEW L, Late(L), IInv, Tracked(L), [Next]_vars
  PROVE  [Promised!Next]_(Promised!promise)
<1>1. ASSUME UNCHANGED <<console, executed>> PROVE UNCHANGED Promised!promise
  BY <1>1 DEF Promised!promise
<1>2. CASE ServerStep
  <2>1. CASE SendNext \/ WindowTimeout \/ FinalTimeout
    <3>1. UNCHANGED <<console, executed>>
      BY <2>1 DEF SendNext, WindowTimeout, FinalTimeout, history
    <3> QED BY <1>1, <3>1
  <2>2. ASSUME NEW m \in Items, Receive(m) PROVE [Promised!Next]_(Promised!promise)
    <3>1. CASE QuietReceive(m)
      <4>1. UNCHANGED <<console, executed>>
        BY <3>1 DEF QuietReceive, HandleAck, HandleNack, HandleDuplicate, HandleOutOfSequence, WaitResent, WindowAck,
             WindowNack, WindowNewRequest, FinalAck, FinalNack, FinalNewRequest, history
      <4> QED BY <1>1, <4>1
    <3>2. CASE HandleRequest(m)
      <4>1. /\ m.kind = "req" /\ m.seq = rx_seq_nr_expected /\ console' = console
            /\ executed' = [executed EXCEPT ![m.job.req] = @ + 1]
        BY <3>2 DEF HandleRequest, Execute
      <4>2. console.req > 0 /\ Runs = 0 /\ m.job = console.job
        BY <4>1, ItemFacts
      <4>3. m.job.req = console.req /\ console.req \in Requests /\ console.req \in Nat /\ executed[console.req] = 0
        BY <4>2, Numbers DEF Tracked, ConsoleOK, Runs
      <4>4. executed' = [executed EXCEPT ![console.req] = 1]
        <5>1. executed \in [Requests -> Nat] /\ 0 + 1 = 1
          BY DEF IInv, TypeOK
        <5>2. PICK r \in Requests : r = console.req /\ r = m.job.req /\ executed[r] = 0
          BY <4>3
        <5>3. executed' = [executed EXCEPT ![r] = executed[r] + 1]
          BY <4>1, <5>2
        <5> QED BY <5>1, <5>2, <5>3
      <4>5. Promised!Execute
        <5>1. \E r \in Requests : 0 < r /\ r <= console.req /\ executed[r] = 0 /\ executed' = [executed EXCEPT ![r] = 1]
          <6>1. 0 < console.req /\ console.req <= console.req
            BY <4>2, <4>3
          <6> QED BY <4>3, <4>4, <6>1
        <5> QED BY <4>1, <5>1 DEF Promised!Execute
      <4> QED BY <4>5 DEF Promised!Next
    <3>3. CASE HandlePeerReset(m)
      BY <3>3, NoStartingOver
    <3> QED BY <2>2, <3>1, <3>2, <3>3 DEF Receive, QuietReceive
  <2> QED BY <1>2, <2>1, <2>2 DEF ServerStep
<1>3. CASE ConsoleStep
  <2>1. CASE ConsoleSend
    <3>1. PICK j \in NewJobs(console.req + 1) :
            console' = [console EXCEPT !.req = @ + 1, !.waiting = TRUE, !.acked = FALSE, !.got = <<>>, !.job = j]
      BY <2>1 DEF ConsoleSend
    <3>2. ~console.waiting /\ console.req < MaxRequests /\ executed' = executed
      BY <2>1 DEF ConsoleSend, history
    <3>3. /\ console'.req = console.req + 1 /\ console'.job = j /\ console'.got = <<>>
          /\ console'.waiting = TRUE /\ console'.acked = FALSE
      BY <3>1 DEF IInv, TypeOK, Consoles
    <3>4. console.req + 1 \in Requests
      BY <3>2, Numbers, Ring DEF Requests
    <3>5. j.n \in {1} \cup StreamLens
      BY DEF NewJobs
    <3>6. Promised!Ask
      BY <3>2, <3>3, <3>4, <3>5 DEF Promised!Ask
    <3> QED BY <3>6 DEF Promised!Next
  <2>2. CASE ConsoleResend \/ ConsoleNack
    <3>1. UNCHANGED <<console, executed>>
      BY <2>2 DEF ConsoleResend, ConsoleNack, history
    <3> QED BY <1>1, <3>1
  <2>3. CASE ConsoleRestart
    BY <2>3, NoStartingOver
  <2>4. ASSUME NEW m \in net, ConsoleRequestAcked(m) PROVE [Promised!Next]_(Promised!promise)
    <3>1. /\ console.waiting /\ m.kind = "reqack" /\ m.ack = console.seq /\ executed' = executed
          /\ console' = [console EXCEPT !.acked = TRUE]
      BY <2>4 DEF ConsoleRequestAcked, history
    <3>2. MsgOK(L, m, console.req, ReqSeq, console.job, Runs, Base, Got, Count)
      BY DEF Tracked, NetOK
    <3>3. executed[console.req] = 1
      BY <3>1, <3>2 DEF MsgOK, ReqSeq, Runs
    <3>4. /\ console'.req = console.req /\ console'.job = console.job /\ console'.got = console.got
          /\ console'.waiting = console.waiting /\ console'.acked = TRUE
      BY <3>1 DEF IInv, TypeOK, Consoles
    <3>5. Promised!Acknowledge
      BY <3>1, <3>3, <3>4 DEF Promised!Acknowledge
    <3> QED BY <3>5 DEF Promised!Next
  <2>5. ASSUME NEW m \in net, ConsoleReAck(m) PROVE [Promised!Next]_(Promised!promise)
    <3>1. UNCHANGED <<console, executed>>
      BY <2>5 DEF ConsoleReAck, history
    <3> QED BY <1>1, <3>1
  <2>6. ASSUME NEW m \in net, ConsoleAccept(m) PROVE [Promised!Next]_(Promised!promise)
    <3>1. /\ Runs = 1 /\ m.pkt.req = console.req /\ m.pkt.idx = Got + 1 /\ Got < console.job.n
          /\ (m.pkt.fin \/ console.job.rpc) = (Got + 1 = console.job.n)
      BY <2>6, AcceptFacts
    <3>2. console.waiting /\ executed' = executed
      BY <2>6 DEF ConsoleAccept, history
    <3>3. /\ console'.req = console.req /\ console'.job = console.job /\ console'.acked = console.acked
          /\ console'.got = Append(console.got, <<m.pkt.req, m.pkt.idx>>)
          /\ console'.waiting = ~(m.pkt.fin \/ console.job.rpc)
      <4>1. PICK last : last = (m.pkt.fin \/ console.job.rpc)
        OBVIOUS
      <4>2. console' = [console EXCEPT !.rx = NextSeq(console.rx), !.got = Append(@, <<m.pkt.req, m.pkt.idx>>),
                          !.waiting = ~last, !.seq = IF last THEN NextSeq(@) ELSE @,
                          !.done = IF last THEN @ \cup {console.req} ELSE @]
        BY <2>6, <4>1 DEF ConsoleAccept
      <4> QED BY <4>1, <4>2 DEF IInv, TypeOK, Consoles
    <3>4. console.got \in Seq(Requests \X Nat) /\ Got \in Nat /\ console.job.n \in Nat
      BY Numbers DEF IInv, TypeOK, Consoles
    <3>5. console'.got = Append(console.got, <<console.req, Len(console.got) + 1>>) /\ Len(console'.got) = Got + 1
      BY <3>1, <3>3, <3>4 DEF Got
    <3>6. console'.waiting = (Got + 1 # console.job.n)
      BY <3>1, <3>3
    <3>7. (Got + 1 # console.job.n) = (Got + 1 < console.job.n)
      BY <3>1, <3>4
    <3>8. console'.waiting = (Len(console'.got) < console.job.n)
      BY <3>5, <3>6, <3>7
    <3>9. executed[console.req] = 1
      BY <3>1 DEF Runs
    <3>10. Promised!Deliver
      BY <3>2, <3>3, <3>5, <3>8, <3>9 DEF Promised!Deliver
    <3> QED BY <3>10 DEF Promised!Next
  <2> QED BY <1>3, <2>1, <2>2, <2>3, <2>4, <2>5, <2>6 DEF ConsoleStep
<1>4. CASE Lose
  <2>1. UNCHANGED <<console, executed>>
    BY <1>4 DEF Lose, history
  <2> QED BY <1>1, <2>1
<1>5. CASE UNCHANGED vars
  <2>1. UNCHANGED <<console, executed>>
    BY <1>5 DEF vars
  <2> QED BY <1>1, <2>1
<1> QED BY <1>2, <1>3, <1>4, <1>5 DEF Next

\* PromiseKept: a session and a console that does not start over, with any losses, copies and
\* reorderings in between, implement RequestReply. _handle_data executes a request at most once, the
\* acknowledgement that ends its repetition is sent only for a request that was executed, and each
\* packet the console takes is the next one of the reply it waits for.
THEOREM PromiseKeeping ==
  ASSUME NEW CONSTANT L, Late(L)
  PROVE  Spec => PromiseKept
<1>1. Init => Promised!Init
  BY InitPromised
<1>2. IInv /\ Tracked(L) /\ [Next]_vars => [Promised!Next]_(Promised!promise)
  BY StepPromised
<1> QED BY <1>1, <1>2, Invariance, Tracking, PTL DEF Spec, PromiseKept, Promised!Spec

=============================================================================
