-------------------------- MODULE UdpfsNegotiation --------------------------
(***************************************************************************)
(* How AutoUdpfsServer (ps2servers_core.py) finds out which of two protocol *)
(* profiles the console at one address speaks. A Standard console numbers    *)
(* its requests from 0 and its replies come numbered from 0; a Modulo        *)
(* console goes on from the number of its DISCOVERY, and the compatibility    *)
(* INFORM takes number 0 of the server's own sequence.                        *)
(*                                                                          *)
(* Three kinds of threads work on the session: the main thread handles       *)
(* DISCOVERY, the session's worker handles DATA, and one timer thread per     *)
(* handshake sends the delayed INFORM. The first two hold compat_lock only    *)
(* while they decide; the worker acts on its decision after it let go of it.  *)
(* A new loader may take over the console, and so the address, at any time.   *)
(***************************************************************************)
EXTENDS Integers, Sequences

CONSTANTS
  Modes,          \* the modes a server may be started in
  N,              \* size of the sequence number space (4096)
  Discs,          \* numbers the DISCOVERY of a Modulo console may carry
  Kinds,          \* the profiles of the consoles that come in automatic mode
  Background,     \* TRUE: a console goes on sending DISCOVERY once it is running
  MaxConsoles, MaxRequests, MaxQueue,
  MaxGen          \* bound on the handshakes of one console

ASSUME NegotiationAssumption ==
  /\ Modes \subseteq {"auto", "standard", "modulo"}
  /\ N \in Nat \ {0, 1} /\ Discs \subseteq 0 .. N - 1 /\ Discs # {}
  /\ Kinds \subseteq {"standard", "modulo"} /\ Kinds # {}
  /\ Background \in BOOLEAN
  /\ MaxConsoles \in Nat \ {0} /\ MaxRequests \in 1 .. N - 1
  /\ MaxQueue \in Nat \ {0} /\ MaxGen \in Nat

VARIABLES
  sess,     \* the server's mode, and the negotiation and sequence state of the Session
  timers,   \* generations whose fallback timer is still running
  queue,    \* the session's queue
  worker,   \* the worker: "idle", or "accept" or "reply" with a request in hand
  console,  \* the console that has the address now
  executed  \* per console and request: how often it was carried out

vars == <<sess, timers, queue, worker, console, executed>>

NONE == -1
protocol_mode == sess.mode
Pending(mode) == IF mode = "auto" THEN "pending" ELSE mode

-----------------------------------------------------------------------------
(* The session.                                                             *)

\* _reset_transport_state
ResetTransport(s) ==
  [s EXCEPT !.tx_seq_nr = 0, !.rx_expected = 0, !.rx_streaming = FALSE, !.profile = Pending(s.mode),
            !.fallback_sent = FALSE, !.first_data_seen = FALSE,
            !.pending_zero = FALSE, !.pending_discovery = NONE]

\* _reset_session_state: the console's files are closed too.
ResetSession(s) == [ResetTransport(s) EXCEPT !.handles = FALSE]

\* _compatibility_inform takes a number of the server's sequence.
CompatibilityInform(s) ==
  [s EXCEPT !.tx_seq_nr = (@ + 1) % N, !.fallback_sent = TRUE]

classify_profile(discovery, first) ==
  LET modulo == (discovery + 1) % N
  IN  IF first = modulo /\ (first # 0 \/ discovery # 0) THEN "modulo"
      ELSE IF discovery = 0 /\ first = 0 THEN "standard"
      ELSE IF first = modulo THEN "modulo" ELSE "standard"

\* The console learns from an INFORM that it was heard.
Informed(c, compat) ==
  IF c.at = "start" /\ (compat \/ ~c.picky)
  THEN [c EXCEPT !.at = "informed"] ELSE c

-----------------------------------------------------------------------------
(* The main thread: _handle_discovery.                                      *)

\* The console sends DISCOVERY until it starts, or for good.
Discovers == console.at # "run" \/ Background

\* During a stream: remembered until DATA tells what it meant.
DiscoveryStreaming ==
  /\ Discovers /\ protocol_mode # "modulo" /\ sess.rx_streaming
  /\ sess' = IF console.disc = 0
             THEN [sess EXCEPT !.pending_zero = TRUE, !.pending_discovery = NONE]
             ELSE [sess EXCEPT !.pending_zero = FALSE, !.pending_discovery = console.disc]
  /\ console' = Informed(console, FALSE)
  /\ UNCHANGED <<timers, queue, worker, executed>>

\* Otherwise a new handshake, with a timer of its own in automatic mode.
DiscoveryFresh ==
  /\ Discovers /\ protocol_mode # "modulo" /\ ~sess.rx_streaming
  /\ sess.generation < console.id * MaxGen
  /\ sess' = [ResetSession(sess) EXCEPT !.discovery_sequence = console.disc, !.generation = @ + 1]
  /\ timers' = IF protocol_mode = "auto" THEN timers \cup {sess.generation + 1} ELSE timers
  /\ console' = Informed(console, FALSE)
  /\ UNCHANGED <<queue, worker, executed>>

\* Forced Modulo mode: the stream is aligned with every DISCOVERY of a new number...
DiscoveryModulo ==
  /\ Discovers /\ protocol_mode = "modulo"
  /\ sess' = [CompatibilityInform(sess) EXCEPT
                !.last_disc = console.disc, !.rx_expected = (console.disc + 1) % N]
  /\ console' = [Informed(console, TRUE) EXCEPT !.base = sess'.tx_seq_nr]
  /\ UNCHANGED <<timers, queue, worker, executed>>

\* ... and a repeated one, for two seconds, only gets the INFORM again.
DiscoveryModuloAgain ==
  /\ Discovers /\ protocol_mode = "modulo" /\ sess.last_disc = console.disc
  /\ console' = Informed(console, TRUE)
  /\ UNCHANGED <<sess, timers, queue, worker, executed>>

\* (Mutant: the delayed INFORM goes to a console that is already heard.)
FallbackWhileStreaming(g) ==
  /\ g \in timers
  /\ timers' = timers \ {g}
  /\ IF sess.generation = g /\ sess.rx_streaming
     THEN sess' = CompatibilityInform(sess) /\ console' = Informed(console, TRUE)
     ELSE UNCHANGED <<sess, console>>
  /\ UNCHANGED <<queue, worker, executed>>

\* send_later, for the handshake it was started for.
Fallback(g) ==
  /\ g \in timers
  /\ timers' = timers \ {g}
  /\ IF /\ sess.generation = g /\ sess.profile = "pending"
        /\ ~sess.first_data_seen /\ ~sess.rx_streaming /\ ~sess.fallback_sent
     THEN sess' = CompatibilityInform(sess) /\ console' = Informed(console, TRUE)
     ELSE UNCHANGED <<sess, console>>
  /\ UNCHANGED <<queue, worker, executed>>

-----------------------------------------------------------------------------
(* The worker: _handle_data.                                                *)

\* A request at the number that a remembered DISCOVERY announced, and not where
\* the stream goes on, is the first of a new loader.
ResolveDiscovery(s, seq) ==
  IF s.pending_discovery = NONE THEN s
  ELSE IF seq = s.rx_expected THEN [s EXCEPT !.pending_discovery = NONE]
  ELSE IF seq = (s.pending_discovery + 1) % N
  THEN [ResetTransport(s) EXCEPT !.discovery_sequence = s.pending_discovery,
                                 !.generation = @ + 1]
  ELSE s

ResolveZeroDiscovery(s, seq) ==
  IF ~s.pending_zero THEN s
  ELSE IF seq = s.rx_expected THEN [s EXCEPT !.pending_zero = FALSE]
  ELSE IF seq \in {0, 1}
  THEN [ResetTransport(s) EXCEPT !.discovery_sequence = 0, !.generation = @ + 1]
  ELSE s

\* (Mutant: the number of an INFORM nobody waited for stays used up.)
ClassifyKeepsTx(s, seq) ==
  LET p == classify_profile(s.discovery_sequence, seq)
      t == [s EXCEPT !.profile = p, !.first_data_seen = TRUE]
      m == [t EXCEPT !.rx_expected = seq]
  IN  IF s.profile # "pending" THEN s
      ELSE IF p # "modulo" THEN [t EXCEPT !.rx_expected = 0]
      ELSE IF m.fallback_sent THEN m ELSE CompatibilityInform(m)

\* The first request of a handshake decides the profile.
Classify(s, seq) ==
  IF s.profile = "pending"
  THEN LET p == classify_profile(s.discovery_sequence, seq)
           t == [s EXCEPT !.profile = p, !.first_data_seen = TRUE]
       IN  IF p = "modulo"
           THEN LET m == [t EXCEPT !.rx_expected = seq]
                IN  IF m.fallback_sent THEN m ELSE CompatibilityInform(m)
           ELSE IF t.fallback_sent
                THEN [t EXCEPT !.rx_expected = 0, !.tx_seq_nr = 0, !.fallback_sent = FALSE]
                ELSE [t EXCEPT !.rx_expected = 0]
  ELSE IF ~s.rx_streaming /\ s.profile = "modulo" THEN [s EXCEPT !.rx_expected = seq]
  ELSE s

\* What is decided under compat_lock.
HandleData ==
  /\ worker.at = "idle" /\ queue # <<>>
  /\ LET seq == Head(queue).seq
     IN  sess' = Classify(ResolveZeroDiscovery(ResolveDiscovery(sess, seq), seq), seq)
  /\ worker' = [at |-> "accept", item |-> Head(queue)]
  /\ queue' = Tail(queue)
  /\ UNCHANGED <<timers, console, executed>>

\* The request is not the expected one: a repeated one is acknowledged again,
\* any other is answered with a NACK.
Refuse ==
  /\ worker.at = "accept"
  /\ worker.item.seq # sess.rx_expected
  /\ worker.item.seq = (sess.rx_expected - 1) % N \/ worker.item.seq # 0
  /\ worker' = [worker EXCEPT !.at = "idle"]
  /\ UNCHANGED <<sess, timers, queue, console, executed>>

\* (Mutant: a repeated number 0 is taken for a peer that was reset.)
AcceptZero ==
  LET item == worker.item
      fresh == item.seq # sess.rx_expected
  IN  /\ worker.at = "accept" /\ (~fresh \/ item.seq = 0)
      /\ sess' = [sess EXCEPT !.rx_expected = (item.seq + 1) % N, !.rx_streaming = TRUE,
                              !.tx_seq_nr = IF fresh THEN 0 ELSE @, !.handles = TRUE]
      /\ executed' = [executed EXCEPT ![item.id][item.n] = @ + 1]
      /\ worker' = [worker EXCEPT !.at = "reply"]
      /\ UNCHANGED <<timers, queue, console>>

\* It is, or it is number 0 of a peer that was reset: it is carried out.
Accept ==
  LET item == worker.item
      fresh == item.seq # sess.rx_expected
  IN  /\ worker.at = "accept"
      /\ \/ ~fresh
         \/ item.seq = 0 /\ item.seq # (sess.rx_expected - 1) % N
      /\ sess' = [sess EXCEPT !.rx_expected = (item.seq + 1) % N, !.rx_streaming = TRUE,
                              !.tx_seq_nr = IF fresh THEN 0 ELSE @, !.handles = TRUE]
      /\ executed' = [executed EXCEPT ![item.id][item.n] = @ + 1]
      /\ worker' = [worker EXCEPT !.at = "reply"]
      /\ UNCHANGED <<timers, queue, console>>

\* The number of the reply its console waits for.
NextReply(c) == (c.base + c.got) % N

\* The reply takes the next number; the console takes it if it is the one it waits for.
Reply ==
  /\ worker.at = "reply"
  /\ sess' = [sess EXCEPT !.tx_seq_nr = (@ + 1) % N]
  /\ console' = IF worker.item.id = console.id /\ worker.item.n = console.got
                   /\ sess.tx_seq_nr = NextReply(console)
                THEN [console EXCEPT !.got = @ + 1] ELSE console
  /\ worker' = [worker EXCEPT !.at = "idle"]
  /\ UNCHANGED <<timers, queue, executed>>

-----------------------------------------------------------------------------
(* The console.                                                             *)

Generations == 1 .. MaxGen * MaxConsoles

Numbers(kind) == IF kind = "modulo" THEN Discs ELSE {0}

\* A server with a forced mode serves the consoles of that profile.
Loaders == IF protocol_mode = "auto" THEN Kinds ELSE {protocol_mode}

\* The first reply's number: a Modulo console counts the INFORM.
Base(kind) == IF kind = "modulo" THEN 1 ELSE 0

First(kind, disc) == IF kind = "modulo" THEN (disc + 1) % N ELSE 0

Request(c, n) == [seq |-> (First(c.kind, c.disc) + n) % N, id |-> c.id, n |-> n]

\* The next request; the network may lose it.
Send ==
  /\ console.at # "start" /\ console.sent = console.got /\ console.sent < MaxRequests
  /\ console' = [console EXCEPT !.sent = @ + 1, !.at = "run"]
  /\ \/ Len(queue) < MaxQueue /\ queue' = Append(queue, Request(console, console.sent))
     \/ UNCHANGED queue
  /\ UNCHANGED <<sess, timers, worker, executed>>

\* The same request again, when its acknowledgement is late.
Resend ==
  /\ console.sent > console.got /\ Len(queue) < MaxQueue
  /\ queue' = Append(queue, Request(console, console.got))
  /\ UNCHANGED <<sess, timers, worker, console, executed>>

\* A new loader takes the address over. It takes seconds to start: what the old
\* one had sent has been handled and the timers of its handshakes have run out,
\* as have the two seconds in which DISCOVERY counts as repeated.
\* A Standard one may follow a running one without DISCOVERY. It does not happen to start where
\* a running one would have gone on: the server takes it for the old one then.
Replace ==
  /\ console.id < MaxConsoles /\ queue = <<>> /\ worker.at = "idle" /\ timers = {}
  /\ \E k \in Loaders : \E d \in Numbers(k) : \E at \in {"start", "informed"} :
       /\ sess.rx_streaming => First(k, d) # sess.rx_expected
       /\ at = "informed" => /\ k = "standard" /\ console.got > 0
                             /\ First(k, d) # (sess.rx_expected - 1) % N
       /\ console' = [id |-> console.id + 1, kind |-> k, disc |-> d, at |-> at,
                      sent |-> 0, got |-> 0, base |-> Base(k), picky |-> FALSE]
  /\ sess' = [sess EXCEPT !.last_disc = NONE]
  /\ UNCHANGED <<timers, queue, worker, executed>>

-----------------------------------------------------------------------------
\* Session.__init__ and _init_compat; the first console has not been heard yet.
Init ==
  /\ \E mode \in Modes :
     sess = [mode |-> mode, profile |-> Pending(mode), discovery_sequence |-> 0, tx_seq_nr |-> 0, rx_expected |-> 0,
             rx_streaming |-> FALSE, generation |-> 0, fallback_sent |-> FALSE,
             first_data_seen |-> FALSE, pending_zero |-> FALSE, pending_discovery |-> NONE,
             last_disc |-> NONE, handles |-> FALSE]
  /\ timers = {} /\ queue = <<>>
  /\ worker = [at |-> "idle", item |-> [seq |-> 0, id |-> 1, n |-> 0]]
  /\ \E k \in Loaders : \E d \in Numbers(k) : \E picky \in IF k = "modulo" THEN BOOLEAN ELSE {FALSE} :
       console = [id |-> 1, kind |-> k, disc |-> d, at |-> "start", sent |-> 0, got |-> 0,
                  base |-> Base(k), picky |-> picky]
  /\ executed = [i \in 1 .. MaxConsoles |-> [n \in 0 .. MaxRequests - 1 |-> 0]]

Discovery ==
  DiscoveryStreaming \/ DiscoveryFresh \/ DiscoveryModulo \/ DiscoveryModuloAgain

WorkerStep == HandleData \/ Refuse \/ Accept \/ Reply

Next ==
  \/ Discovery \/ (\E g \in Generations : Fallback(g)) \/ WorkerStep
  \/ Send \/ Resend \/ Replace

Spec == Init /\ [][Next]_vars

\* The worker and the timers run, and the console neither stops asking to be
\* heard nor stops repeating a request that was not answered.
Fairness ==
  /\ WF_vars(WorkerStep) /\ \A g \in Generations : WF_vars(Fallback(g))
  /\ WF_vars(Discovery /\ console.at = "start") /\ WF_vars(Send) /\ WF_vars(Resend)

FairSpec == Spec /\ Fairness

-----------------------------------------------------------------------------
(* Properties.                                                              *)

\* A reply is numbered as its console expects: "A delayed compatibility INFORM
\* is irrelevant to a standard session and must not consume its server DATA
\* sequence" (ps2servers_core.py:459).
NumberedAsExpected ==
  (worker.at = "reply" /\ worker.item.id = console.id /\ worker.item.n = console.got)
    => sess.tx_seq_nr = NextReply(console)

\* No request is carried out twice, and none of an earlier console after the
\* next one was heard: "background discovery of any sequence does not reset an
\* active transfer" (docs/PROTOCOL-COMPATIBILITY.md:25).
AtMostOnce == \A i \in 1 .. MaxConsoles : \A n \in 0 .. MaxRequests - 1 : executed[i][n] <= 1

\* Nor does negotiation close the files of a console that is being served, or those its next
\* loader takes over: "background discovery ... does not ... close its handles"
\* (docs/PROTOCOL-COMPATIBILITY.md:25).
HandedOver == [][AtMostOnce' /\ (sess.handles => sess'.handles)]_vars

\* Every console is served in the end, or gives way to the next one; in
\* particular "a fresh Modulo client" does not wait "forever" (docs/EDGE.md:409).
Served ==
  \A i \in 1 .. MaxConsoles :
    (console.id = i) ~> (console.id # i \/ console.got = MaxRequests)

=============================================================================
