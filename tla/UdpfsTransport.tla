--------------------------- MODULE UdpfsTransport ---------------------------
(***************************************************************************)
(* The UDPRDMA transport of one UDPFS session: the worker thread of class   *)
(* Session (udpfs_server.py), the reply sender it runs and the console at   *)
(* the other end of a network that loses, delays, reorders and repeats      *)
(* datagrams.                                                               *)
(*                                                                          *)
(* A request is answered either by one FIN packet that nobody waits for     *)
(* (_send_data: OPEN, CLOSE, LSEEK, ... replies) or by a stream of packets  *)
(* under a send window, whose last packet must be acknowledged before the   *)
(* worker returns (_send_raw_data_with_header: READ and BREAD replies).     *)
(* Payload bytes are abstracted to <<request, packet index>>.               *)
(*                                                                          *)
(* The demultiplexer only moves a datagram from the socket to the session's *)
(* queue, so the queue is part of the network here: whatever order the      *)
(* network produces is the order the queue holds. Timeouts may fire at any  *)
(* time. The 50 ms rate limit of _retransmit_from is not a separate case:   *)
(* a suppressed retransmission is one whose packets are all lost.           *)
(* The DISCOVERY branches of the two waits are unreachable (the             *)
(* demultiplexer never queues a DISCOVERY) and are left out.                *)
(***************************************************************************)
EXTENDS Integers, Sequences

CONSTANTS
  SeqMod,              \* size of the sequence ring (0x1000 in the code)
  SEND_WINDOW,         \* packets a stream may have in flight
  MAX_WINDOW_RETRIES,  \* waits without progress before a stream is given up
  StreamLens,          \* possible lengths, in packets, of a streamed reply
  Starts,              \* <<tx, rx>> sequence numbers a session already in use may be at
  Fresh,               \* TRUE: the run starts with a session that has carried nothing
  Duplicating,         \* TRUE: a datagram may arrive again and again
  MaxAge,              \* a datagram is gone MaxAge requests after it was sent
  MaxRequests,         \* bound on the requests of a run
  MaxRestarts          \* bound on the restarts of the console

Half == SeqMod \div 2
Seqs == 0 .. SeqMod - 1

ASSUME TransportAssumption ==
  /\ SeqMod \in Nat /\ SEND_WINDOW \in Nat \ {0} /\ MAX_WINDOW_RETRIES \in Nat \ {0}
  /\ SeqMod = 2 * Half
  /\ SEND_WINDOW + 2 < Half
  /\ StreamLens \subseteq Nat \ {0} /\ Starts \subseteq Seqs \X Seqs
  /\ Duplicating \in BOOLEAN /\ Fresh \in BOOLEAN
  /\ MaxAge \in Nat /\ MaxRequests \in Nat /\ MaxRestarts \in Nat

VARIABLES
  \* the session (udpfs_server.py, class Session)
  tx,         \* tx_seq_nr, tx_seq_nr_acked and tx_buffer, the packets kept for retransmission
  rx_seq_nr_expected,
  pushback,   \* items a wait handed back to the worker
  pc,         \* where the worker is: "idle", "sending", "window" or "final"
  job,        \* the request being answered
  sent,       \* packets of the stream sent so far (the code's offset)
  old_acked,  \* acknowledged position when the window wait was entered
  retries,    \* window_retries, or attempt in the final wait
  \* the console
  console,
  \* datagrams on the way
  net,
  \* what happened, for the properties
  executed,   \* how often each request was executed
  confirmed,  \* requests whose stream was reported as fully acknowledged
  aborted     \* requests whose stream was given up

server == <<tx, rx_seq_nr_expected, pushback, pc, job, sent, old_acked, retries>>
history == <<executed, confirmed, aborted>>
vars == <<tx, rx_seq_nr_expected, pushback, pc, job, sent, old_acked, retries,
          console, net, executed, confirmed, aborted>>

-----------------------------------------------------------------------------
(* Sequence arithmetic: (a + 1) & 0xFFF, (a - 1) & 0xFFF, (a - b) & 0xFFF   *)
(* of 12-bit numbers, without a modulus so that the provers can follow it.  *)

NextSeq(a) == IF a = SeqMod - 1 THEN 0 ELSE a + 1
PrevSeq(a) == IF a = 0 THEN SeqMod - 1 ELSE a - 1
Diff(a, b) == IF a >= b THEN a - b ELSE a - b + SeqMod

Requests == 0 .. MaxRequests
Jobs == [req : Requests, rpc : BOOLEAN, n : Nat]
Packets == [seq : Seqs, req : Requests, idx : Nat, fin : BOOLEAN]

RequestMsgs == [kind : {"req"}, seq : Seqs, ack : Seqs, job : Jobs, born : Nat]
ControlMsgs == [kind : {"ack", "nack"}, ack : Seqs, born : Nat]
DataMsgs == [kind : {"data"}, pkt : Packets, born : Nat]
RequestAckMsgs == [kind : {"reqack", "reqnack"}, ack : Seqs, born : Nat]
ToServer == RequestMsgs \cup ControlMsgs

-----------------------------------------------------------------------------
(* The transmit side of a session: t.seq_nr, t.acked and t.buffer.          *)

\* _acknowledge_tx: cumulative progress inside the sent interval only.
\* (Mutant: any acknowledgement of the last half ring is taken.)
AckAcceptedRewinding(t, acknowledged) == Diff(t.seq_nr, acknowledged) < Half
AckAccepted(t, acknowledged) ==
  LET advance == Diff(acknowledged, t.acked)
      sentSpan == Diff(t.seq_nr, NextSeq(t.acked))
  IN  advance < Half /\ sentSpan < Half /\ advance <= sentSpan

\* (Mutant: the packet after the acknowledged one is dropped too.)
AcknowledgeTxOneMore(t, acknowledged) ==
  IF AckAccepted(t, acknowledged)
  THEN [t EXCEPT !.acked = acknowledged,
                 !.buffer = {p \in @ : Diff(p.seq, NextSeq(NextSeq(acknowledged))) < Half}]
  ELSE t
AcknowledgeTx(t, acknowledged) ==
  IF AckAccepted(t, acknowledged)
  THEN [t EXCEPT !.acked = acknowledged,
                 !.buffer = {p \in @ : Diff(p.seq, NextSeq(acknowledged)) < Half}]
  ELSE t

InFlight(t) == Diff(t.seq_nr, NextSeq(t.acked))

\* _send_data_packet: number the packet, keep it, send it.
ReplyPacket(t, j, i) == [seq |-> t.seq_nr, req |-> j.req, idx |-> i, fin |-> i = j.n]
SendDataPacket(t, j, i) ==
  [t EXCEPT !.seq_nr = NextSeq(@), !.buffer = @ \cup {ReplyPacket(t, j, i)}]

\* _send_data: the only packet of a reply replaces whatever was kept.
SendData(t, j) ==
  [t EXCEPT !.seq_nr = NextSeq(@), !.buffer = {ReplyPacket(t, j, 1)}]

\* _retransmit_from: the kept packets at or after from_seq.
Retransmitted(t, from_seq) == {p \in t.buffer : Diff(p.seq, from_seq) < Half}

\* self.tx_buffer[0][0]: the packet kept longest.
OldestSeq(t) ==
  (CHOOSE p \in t.buffer : \A q \in t.buffer : Diff(t.seq_nr, q.seq) <= Diff(t.seq_nr, p.seq)).seq

\* Where the send loop goes next once i packets of job j are out.
LoopPc(t, j, i) ==
  IF i >= j.n THEN "final" ELSE IF InFlight(t) >= SEND_WINDOW THEN "window" ELSE "sending"

-----------------------------------------------------------------------------
(* Datagrams. A datagram carries, for the model only, the number of the     *)
(* console's request at the time it was sent.                               *)

Data(pkts) == {[kind |-> "data", pkt |-> p, born |-> console.req] : p \in pkts}
\* (Mutant: the acknowledgement names the request expected next.)
RequestAckExpected(rx) == [kind |-> "reqack", ack |-> rx, born |-> console.req]
RequestAck(rx) == [kind |-> "reqack", ack |-> PrevSeq(rx), born |-> console.req]
RequestNack(rx) == [kind |-> "reqnack", ack |-> rx, born |-> console.req]
Control(kind, seq) == [kind |-> kind, ack |-> seq, born |-> console.req]

\* _queue_get: a pushed back item first, then the session's queue.
Items == IF pushback # <<>> THEN {Head(pushback)} ELSE net \cap ToServer

NetWithout(m) == IF Duplicating \/ pushback # <<>> THEN net ELSE net \ {m}
PushbackRest == IF pushback # <<>> THEN Tail(pushback) ELSE pushback

Consume(m, out) ==
  /\ net' = NetWithout(m) \cup out
  /\ pushback' = PushbackRest

ConsumeAndPushBack(m) ==
  /\ net' = NetWithout(m)
  /\ pushback' = Append(PushbackRest, m)

\* _is_resent_request: a copy of the last request taken.
IsResentRequest(m) == m.kind = "req" /\ m.seq = PrevSeq(rx_seq_nr_expected)

-----------------------------------------------------------------------------
(* The worker between requests: _handle_data.                               *)

\* A pure ACK moves the acknowledged position, nothing else.
HandleAck(m) ==
  /\ pc = "idle" /\ m.kind = "ack"
  /\ tx' = AcknowledgeTx(tx, m.ack)
  /\ Consume(m, {})
  /\ UNCHANGED <<rx_seq_nr_expected, pc, job, sent, old_acked, retries, console, history>>

\* (Mutant: the NACK is noted and nothing is sent again.)
HandleNackSilently(m) ==
  /\ pc = "idle" /\ m.kind = "nack"
  /\ tx' = AcknowledgeTx(tx, PrevSeq(m.ack))
  /\ Consume(m, {})
  /\ UNCHANGED <<rx_seq_nr_expected, pc, job, sent, old_acked, retries, console, history>>

\* A NACK names the packet the console expects: all before it arrived.
HandleNack(m) ==
  /\ pc = "idle" /\ m.kind = "nack"
  /\ tx' = AcknowledgeTx(tx, PrevSeq(m.ack))
  /\ Consume(m, Data(Retransmitted(tx', m.ack)))
  /\ UNCHANGED <<rx_seq_nr_expected, pc, job, sent, old_acked, retries, console, history>>

\* The last request again: acknowledge it again and repeat what is left of its reply.
HandleDuplicate(m) ==
  /\ pc = "idle" /\ IsResentRequest(m)
  /\ tx' = AcknowledgeTx(tx, m.ack)
  /\ Consume(m, {RequestAck(rx_seq_nr_expected)} \cup
                IF tx'.buffer = {} THEN {} ELSE Data(Retransmitted(tx', OldestSeq(tx'))))
  /\ UNCHANGED <<rx_seq_nr_expected, pc, job, sent, old_acked, retries, console, history>>

\* Neither expected, nor the last one, nor 0: answered with a NACK.
HandleOutOfSequence(m) ==
  /\ pc = "idle" /\ m.kind = "req"
  /\ m.seq \notin {rx_seq_nr_expected, PrevSeq(rx_seq_nr_expected), 0}
  /\ tx' = AcknowledgeTx(tx, m.ack)
  /\ Consume(m, {RequestNack(rx_seq_nr_expected)})
  /\ UNCHANGED <<rx_seq_nr_expected, pc, job, sent, old_acked, retries, console, history>>

\* Sequence 0 out of order: the peer is taken to have started over.
ResetTx == [seq_nr |-> 0, acked |-> 0, buffer |-> {}]

\* The request is acknowledged at once, executed, and its reply started.
Execute(m, t, rx) ==
  LET j == m.job
      t1 == IF j.rpc THEN SendData(t, j) ELSE SendDataPacket([t EXCEPT !.buffer = {}], j, 1)
  IN  /\ tx' = t1
      /\ rx_seq_nr_expected' = NextSeq(rx)
      /\ Consume(m, {RequestAck(NextSeq(rx))} \cup Data({ReplyPacket(t, j, 1)}))
      /\ executed' = [executed EXCEPT ![j.req] = @ + 1]
      /\ job' = j
      /\ IF j.rpc
         THEN pc' = "idle" /\ UNCHANGED <<sent, old_acked, retries>>
         ELSE /\ sent' = 1
              /\ pc' = LoopPc(t1, j, 1)
              /\ old_acked' = t1.acked
              /\ retries' = 0
      /\ UNCHANGED <<console, confirmed, aborted>>

HandleRequest(m) ==
  /\ pc = "idle" /\ m.kind = "req" /\ m.seq = rx_seq_nr_expected
  /\ Execute(m, AcknowledgeTx(tx, m.ack), rx_seq_nr_expected)

\* (Mutant: the reset forgets rx_seq_nr_expected.)
HandlePeerResetTxOnly(m) ==
  /\ pc = "idle" /\ m.kind = "req" /\ m.seq = 0
  /\ m.seq \notin {rx_seq_nr_expected, PrevSeq(rx_seq_nr_expected)}
  /\ Execute(m, ResetTx, rx_seq_nr_expected)

HandlePeerReset(m) ==
  /\ pc = "idle" /\ m.kind = "req" /\ m.seq = 0
  /\ m.seq \notin {rx_seq_nr_expected, PrevSeq(rx_seq_nr_expected)}
  /\ Execute(m, ResetTx, 0)

-----------------------------------------------------------------------------
(* The send loop of _send_raw_data_with_header.                             *)

SendNext ==
  /\ pc = "sending"
  /\ tx' = SendDataPacket(tx, job, sent + 1)
  /\ net' = net \cup Data({ReplyPacket(tx, job, sent + 1)})
  /\ sent' = sent + 1
  /\ pc' = LoopPc(tx', job, sent + 1)
  /\ old_acked' = tx.acked
  /\ retries' = 0
  /\ UNCHANGED <<rx_seq_nr_expected, pushback, job, console, history>>

\* A wait drops a copy of the request it is answering, after acknowledging it again.
WaitResent(m) ==
  /\ pc \in {"window", "final"} /\ IsResentRequest(m)
  /\ Consume(m, {RequestAck(rx_seq_nr_expected)})
  /\ UNCHANGED <<tx, rx_seq_nr_expected, pc, job, sent, old_acked, retries, console, history>>

\* The window wait returned without a new request: back to the loop's test,
\* counting the waits that brought no progress.
WindowReturned(t) ==
  IF t.acked # old_acked
  THEN pc' = LoopPc(t, job, sent) /\ retries' = 0 /\ old_acked' = t.acked /\ UNCHANGED aborted
  ELSE /\ retries' = retries + 1
       /\ UNCHANGED old_acked
       /\ IF retries + 1 >= MAX_WINDOW_RETRIES
          THEN pc' = "idle" /\ aborted' = aborted \cup {job.req}
          ELSE pc' = LoopPc(t, job, sent) /\ UNCHANGED aborted

WindowAck(m) ==
  /\ pc = "window" /\ m.kind = "ack"
  /\ tx' = AcknowledgeTx(tx, m.ack)
  /\ Consume(m, {})
  /\ IF tx'.acked # tx.acked
     THEN WindowReturned(tx')
     ELSE UNCHANGED <<pc, retries, old_acked, aborted>>
  /\ UNCHANGED <<rx_seq_nr_expected, job, sent, console, executed, confirmed>>

WindowNack(m) ==
  /\ pc = "window" /\ m.kind = "nack"
  /\ tx' = AcknowledgeTx(tx, PrevSeq(m.ack))
  /\ Consume(m, Data(Retransmitted(tx', m.ack)))
  /\ IF AckAccepted(tx, PrevSeq(m.ack)) /\ m.ack = tx.seq_nr
     THEN WindowReturned(tx')
     ELSE UNCHANGED <<pc, retries, old_acked, aborted>>
  /\ UNCHANGED <<rx_seq_nr_expected, job, sent, console, executed, confirmed>>

\* A new request: the console has moved on, the rest of the stream is not sent.
WindowNewRequest(m) ==
  /\ pc = "window" /\ m.kind = "req" /\ ~IsResentRequest(m)
  /\ tx' = AcknowledgeTx(tx, m.ack)
  /\ ConsumeAndPushBack(m)
  /\ pc' = "idle"
  /\ aborted' = aborted \cup {job.req}
  /\ UNCHANGED <<rx_seq_nr_expected, job, sent, old_acked, retries, console, executed, confirmed>>

WindowTimeout ==
  /\ pc = "window"
  /\ net' = net \cup (IF tx.buffer = {} THEN {} ELSE Data(Retransmitted(tx, OldestSeq(tx))))
  /\ WindowReturned(tx)
  /\ UNCHANGED <<tx, rx_seq_nr_expected, pushback, job, sent, console, executed, confirmed>>

-----------------------------------------------------------------------------
(* _wait_for_final_ack and _wait_for_ack: the last packet must be confirmed. *)

FinalAck(m) ==
  /\ pc = "final" /\ m.kind = "ack"
  /\ Consume(m, {})
  /\ IF AckAccepted(tx, m.ack) /\ m.ack = PrevSeq(tx.seq_nr)
     THEN /\ tx' = [AcknowledgeTx(tx, m.ack) EXCEPT !.buffer = {}]
          /\ pc' = "idle"
          /\ confirmed' = confirmed \cup {job.req}
     ELSE tx' = AcknowledgeTx(tx, m.ack) /\ UNCHANGED <<pc, confirmed>>
  /\ UNCHANGED <<rx_seq_nr_expected, job, sent, old_acked, retries, console, executed, aborted>>

FinalNack(m) ==
  /\ pc = "final" /\ m.kind = "nack"
  /\ tx' = AcknowledgeTx(tx, PrevSeq(m.ack))
  /\ Consume(m, Data(Retransmitted(tx', m.ack)))
  /\ UNCHANGED <<rx_seq_nr_expected, pc, job, sent, old_acked, retries, console, history>>

\* (Mutant: a new request always counts as the confirmation.)
FinalNewRequestConfirms(m) ==
  /\ pc = "final" /\ m.kind = "req" /\ ~IsResentRequest(m)
  /\ ConsumeAndPushBack(m)
  /\ pc' = "idle"
  /\ tx' = AcknowledgeTx(tx, m.ack)
  /\ confirmed' = confirmed \cup {job.req}
  /\ UNCHANGED <<rx_seq_nr_expected, job, sent, old_acked, retries, console, executed, aborted>>

\* A new request ends the wait; the stream counts as confirmed only if the
\* acknowledgement it carries covers the last packet.
FinalNewRequest(m) ==
  /\ pc = "final" /\ m.kind = "req" /\ ~IsResentRequest(m)
  /\ ConsumeAndPushBack(m)
  /\ pc' = "idle"
  /\ LET t == AcknowledgeTx(tx, m.ack)
         covered == AckAccepted(tx, m.ack) /\ m.ack = PrevSeq(tx.seq_nr)
     IN  /\ tx' = IF covered THEN [t EXCEPT !.buffer = {}] ELSE t
         /\ confirmed' = IF tx'.acked = PrevSeq(tx.seq_nr) /\ tx'.buffer = {}
                         THEN confirmed \cup {job.req} ELSE confirmed
  /\ UNCHANGED <<rx_seq_nr_expected, job, sent, old_acked, retries, console, executed, aborted>>

\* (Mutant: no limit on the attempts.)
FinalTimeoutForever ==
  /\ pc = "final"
  /\ IF tx.buffer = {}
     THEN pc' = "idle" /\ UNCHANGED net
     ELSE net' = net \cup Data(Retransmitted(tx, OldestSeq(tx))) /\ UNCHANGED pc
  /\ UNCHANGED <<tx, rx_seq_nr_expected, pushback, job, sent, old_acked, retries, console, history>>

FinalTimeout ==
  /\ pc = "final"
  /\ IF tx.buffer = {}
     THEN pc' = "idle" /\ UNCHANGED <<net, retries>>
     ELSE /\ net' = net \cup Data(Retransmitted(tx, OldestSeq(tx)))
          /\ retries' = retries + 1
          /\ pc' = IF retries >= MAX_WINDOW_RETRIES THEN "idle" ELSE pc
  /\ UNCHANGED <<tx, rx_seq_nr_expected, pushback, job, sent, old_acked, console, history>>

-----------------------------------------------------------------------------
(* The console. It has one request outstanding and takes packets in order.  *)
(* It sends the request again until the request is acknowledged, and asks   *)
(* for the packet it expects when the reply does not come.                  *)

RequestMsg(c) ==
  [kind |-> "req", seq |-> c.seq, ack |-> PrevSeq(c.rx), job |-> c.job, born |-> c.req]

NewJobs(r) ==
  {[req |-> r, rpc |-> TRUE, n |-> 1]} \cup {[req |-> r, rpc |-> FALSE, n |-> k] : k \in StreamLens}

\* Datagrams of an earlier request survive for MaxAge requests more.
Surviving(r) == {m \in net : m.born + MaxAge >= r}

ConsoleSend ==
  /\ ~console.waiting /\ console.req < MaxRequests
  /\ \E j \in NewJobs(console.req + 1) :
       /\ console' = [console EXCEPT !.req = @ + 1, !.waiting = TRUE, !.acked = FALSE,
                                     !.got = <<>>, !.job = j]
       /\ net' = Surviving(j.req) \cup {RequestMsg(console')}
  /\ UNCHANGED <<server, history>>

ConsoleResend ==
  /\ console.waiting /\ ~console.acked
  /\ net' = net \cup {RequestMsg(console)}
  /\ UNCHANGED <<server, console, history>>

ConsoleRequestAcked(m) ==
  /\ console.waiting /\ m.kind = "reqack" /\ m.ack = console.seq
  /\ console' = [console EXCEPT !.acked = TRUE]
  /\ net' = IF Duplicating THEN net ELSE net \ {m}
  /\ UNCHANGED <<server, history>>

ConsoleNack ==
  /\ console.waiting /\ console.acked
  /\ net' = net \cup {Control("nack", console.rx)}
  /\ UNCHANGED <<server, console, history>>

\* The expected packet: keep it, acknowledge it, and on FIN return the reply.
ConsoleAccept(m) ==
  /\ console.waiting /\ m.kind = "data" /\ m.pkt.seq = console.rx
  /\ LET rx == NextSeq(console.rx)
         last == m.pkt.fin \/ console.job.rpc
     IN  /\ console' = [console EXCEPT !.rx = rx,
                          !.got = Append(@, <<m.pkt.req, m.pkt.idx>>),
                          !.waiting = ~last,
                          !.seq = IF last THEN NextSeq(@) ELSE @,
                          !.done = IF last THEN @ \cup {console.req} ELSE @]
         /\ net' = (IF Duplicating THEN net ELSE net \ {m}) \cup {Control("ack", PrevSeq(rx))}
  /\ UNCHANGED <<server, history>>

\* Any other packet is answered with the acknowledgement of the last one kept.
ConsoleReAck(m) ==
  /\ console.waiting /\ m.kind = "data" /\ m.pkt.seq # console.rx
  /\ net' = (IF Duplicating THEN net ELSE net \ {m}) \cup {Control("ack", PrevSeq(console.rx))}
  /\ UNCHANGED <<server, console, history>>

\* The console boots again and starts over at 0, without a DISCOVERY.
ConsoleRestart ==
  /\ console.restarts < MaxRestarts
  /\ console' = [console EXCEPT !.seq = 0, !.rx = 0, !.waiting = FALSE, !.acked = FALSE,
                                !.got = <<>>, !.restarts = @ + 1]
  /\ net' = {}
  /\ UNCHANGED <<server, history>>

\* A network that does not repeat datagrams may lose them.
Lose ==
  /\ ~Duplicating
  /\ \E m \in net : net' = net \ {m}
  /\ UNCHANGED <<server, console, history>>

-----------------------------------------------------------------------------
NoJob == [req |-> 0, rpc |-> TRUE, n |-> 1]

SessionAt(t, rx, consoleRx) ==
  /\ tx = t
  /\ rx_seq_nr_expected = rx
  /\ console = [seq |-> rx, rx |-> consoleRx, req |-> 0, waiting |-> FALSE, acked |-> FALSE,
                got |-> <<>>, job |-> NoJob, done |-> {}, restarts |-> 0]

\* A new session; or one whose traffic so far is delivered and acknowledged.
Init ==
  /\ \/ Fresh /\ SessionAt(ResetTx, 0, 0)
     \/ \E s \in Starts :
          SessionAt([seq_nr |-> s[1], acked |-> PrevSeq(s[1]), buffer |-> {}], s[2], s[1])
  /\ pushback = <<>> /\ pc = "idle" /\ job = NoJob /\ sent = 0
  /\ old_acked = tx.acked /\ retries = 0
  /\ net = {}
  /\ executed = [r \in Requests |-> 0] /\ confirmed = {} /\ aborted = {}

\* One item taken from the session's queue.
Receive(m) ==
  \/ HandleAck(m) \/ HandleNack(m) \/ HandleDuplicate(m) \/ HandleOutOfSequence(m)
  \/ HandleRequest(m) \/ HandlePeerReset(m)
  \/ WaitResent(m) \/ WindowAck(m) \/ WindowNack(m) \/ WindowNewRequest(m)
  \/ FinalAck(m) \/ FinalNack(m) \/ FinalNewRequest(m)

ServerStep == SendNext \/ WindowTimeout \/ FinalTimeout \/ \E m \in Items : Receive(m)

ConsoleStep ==
  \/ ConsoleSend \/ ConsoleResend \/ ConsoleNack \/ ConsoleRestart
  \/ \E m \in net : ConsoleRequestAcked(m) \/ ConsoleAccept(m) \/ ConsoleReAck(m)

Next == ServerStep \/ ConsoleStep \/ Lose

Spec == Init /\ [][Next]_vars

\* What the code's timers and its loops guarantee: a wait ends at its deadline,
\* the send loop goes on, a handed back item is taken, the console's timers
\* fire; and a datagram sent again and again gets through in the end.
Fairness ==
  /\ WF_vars(SendNext) /\ WF_vars(WindowTimeout) /\ WF_vars(FinalTimeout)
  /\ WF_vars(pushback # <<>> /\ \E m \in Items : Receive(m))
  /\ WF_vars(ConsoleResend) /\ WF_vars(ConsoleNack)
  /\ SF_vars(\E m \in Items : HandleRequest(m))
  /\ SF_vars(\E m \in Items : HandleDuplicate(m))
  /\ SF_vars(\E m \in Items : HandleNack(m))
  /\ SF_vars(\E m \in net : ConsoleRequestAcked(m))
  /\ SF_vars(\E m \in net : ConsoleAccept(m))

FairSpec == Spec /\ Fairness

-----------------------------------------------------------------------------
(* Properties.                                                              *)

Consoles == [seq : Seqs, rx : Seqs, req : Requests, waiting : BOOLEAN, acked : BOOLEAN,
             got : Seq(Requests \X Nat), job : Jobs, done : SUBSET Requests, restarts : Nat]

\* The type of the state: sequence numbers stay on the ring, a wait's counter
\* within its limit, and what the worker hands back to itself is a request.
TypeOK ==
  /\ tx \in [seq_nr : Seqs, acked : Seqs, buffer : SUBSET Packets]
  /\ rx_seq_nr_expected \in Seqs
  /\ pushback \in Seq(RequestMsgs)
  /\ pc \in {"idle", "sending", "window", "final"}
  /\ job \in Jobs /\ sent \in Nat /\ old_acked \in Seqs /\ retries \in 0 .. MAX_WINDOW_RETRIES + 1
  /\ console \in Consoles
  /\ net \subseteq RequestMsgs \cup ControlMsgs \cup DataMsgs \cup RequestAckMsgs
  /\ executed \in [Requests -> Nat]
  /\ confirmed \subseteq Requests /\ aborted \subseteq Requests

\* The session keeps the promise of RequestReply through the losses, copies and
\* reorderings of the network and the restarts of the console: a request is executed
\* at most once; one the console stops resending because it saw it acknowledged was
\* executed, so that it never waits for an answer nobody will start; and each packet
\* it takes is the next one of the reply to the request it waits for, to the last.
Promised ==
  INSTANCE RequestReply WITH
    Calls <- Requests, Lengths <- {1} \cup StreamLens,
    current <- console.req, length <- console.job.n, waiting <- console.waiting,
    told <- console.acked, reply <- console.got, runs <- executed

PromiseKept == Promised!Spec

\* While the console waits for a reply that was started, each packet sent that
\* it lacks is still kept, so a NACK or a timeout can produce it.
LostPacketsRecoverable ==
  console.waiting /\ executed[console.req] > 0 =>
    LET missing == Diff(tx.seq_nr, console.rx)
    IN  \A d \in 0 .. missing - 1 : \E p \in tx.buffer :
          /\ Diff(p.seq, console.rx) = d
          /\ p.req = console.req /\ p.idx = Len(console.got) + 1 + d

\* A stream reported as confirmed (the return value of _wait_for_final_ack,
\* which the READ statistics count) did reach the console whole.
ConfirmedDelivered == confirmed \subseteq console.done

\* The kept packets are among the last SEND_WINDOW + 1 sent, whatever the
\* console sends: the half-ring comparisons of the code are unambiguous.
WindowBounded ==
  \A p \in tx.buffer : Diff(tx.seq_nr, p.seq) \in 1 .. SEND_WINDOW + 1

\* A worker inside a transfer has nothing handed back to it: a wait that found
\* an item there again and again would never see the acknowledgements behind it.
PushbackDrained == pc # "idle" => pushback = <<>>

\* No datagram moves the acknowledged position backwards or past what was
\* sent; only a peer that starts over resets it.
AckNeverRewinds ==
  [][tx'.acked # tx.acked =>
       \/ Diff(tx'.acked, tx.acked) <= Diff(tx.seq_nr, NextSeq(tx.acked))
       \/ tx'.acked = 0 /\ rx_seq_nr_expected' = 1]_vars

\* "DATA 0 with no DISCOVERY in front of it resets only the sequence counters"
\* (tests/test_udpfs_handoff_retried_write.py): the request a restarted console
\* opens with starts the session over, so it is executed before it is
\* acknowledged or answered. Not so: see the README.
RestartedRequestExecuted ==
  console.restarts > 0 /\ (console.acked \/ console.req \in console.done)
    => executed[console.req] > 0

\* Every transfer ends: the worker comes back for the next request even when
\* the console has gone silent.
WorkerReturns == pc # "idle" ~> pc = "idle"

\* A request is answered in full, or its stream was given up by the server.
RequestAnswered ==
  \A r \in Requests :
    console.waiting /\ console.req = r ~> (~console.waiting \/ console.req # r \/ r \in aborted)

=============================================================================
