----------------------- MODULE UdpfsNegotiationProofs -----------------------
(***************************************************************************)
(* For any number of consoles, requests and handshakes, any sequence space   *)
(* and any queue: consoles that are quiet once they run get their replies    *)
(* numbered as they expect, have every request carried out at most once and   *)
(* keep their files (NumberedAsExpected and HandedOver of UdpfsNegotiation).  *)
(*                                                                          *)
(* The argument follows the first request of a console. Until it is handled  *)
(* the session is Ready for it, in one of three ways: it is fresh and knows   *)
(* the console's DISCOVERY, it is left over from an earlier console, whose    *)
(* stream does not go on where this console begins, or it was aligned by      *)
(* forced Modulo mode. Handling it leaves the session Decided, and accepting  *)
(* it leaves the two in step (Established) until the console is replaced.     *)
(***************************************************************************)
EXTENDS UdpfsNegotiation, TLAPS

SessFields ==
  {"mode", "profile", "discovery_sequence", "tx_seq_nr", "rx_expected", "rx_streaming",
   "generation", "fallback_sent", "first_data_seen", "pending_zero", "pending_discovery",
   "last_disc", "handles"}

ConsoleFields == {"id", "kind", "disc", "at", "sent", "got", "base", "picky"}

FirstSeq(c) == First(c.kind, c.disc)

\* The fields of a session and of a console hold what they should.
SessOK(s) ==
  /\ DOMAIN s = SessFields
  /\ s.mode \in {"auto", "standard", "modulo"}
  /\ s.rx_expected \in 0 .. N - 1 /\ s.tx_seq_nr \in 0 .. N - 1
  /\ s.rx_streaming \in BOOLEAN /\ s.fallback_sent \in BOOLEAN /\ s.handles \in BOOLEAN
  /\ s.pending_zero \in BOOLEAN
  /\ s.generation \in Nat

ConsoleOK(c, mode) ==
  /\ DOMAIN c = ConsoleFields
  /\ c.id \in 1 .. MaxConsoles /\ c.at \in {"start", "informed", "run"}
  /\ c.sent \in 0 .. MaxRequests /\ c.got \in Nat /\ c.got <= c.sent /\ c.sent <= c.got + 1
  /\ c.disc \in 0 .. N - 1 /\ c.base \in 0 .. N - 1
  /\ c.kind \in {"standard", "modulo"}
  /\ c.kind = "standard" => c.disc = 0
  /\ mode # "auto" => c.kind = mode
  /\ mode # "modulo" => c.base = Base(c.kind)
  /\ c.at # "run" <=> c.sent = 0

\* Nothing of an earlier stream waits to be resolved.
NothingPending(s) == ~s.pending_zero /\ s.pending_discovery = NONE

\* A session that has not heard a request since it was set up or its last handshake.
FreshSession(s) ==
  /\ s.mode # "modulo" /\ ~s.rx_streaming /\ s.rx_expected = 0 /\ s.profile = Pending(s.mode)
  /\ NothingPending(s)
  /\ s.tx_seq_nr = IF s.fallback_sent THEN 1 ELSE 0
  /\ s.mode = "standard" => ~s.fallback_sent

\* A session whose stream is an earlier console's.
LeftOver(s, c) ==
  /\ s.mode # "modulo" /\ s.rx_streaming /\ s.profile # "pending" /\ ~c.picky
  /\ FirstSeq(c) # s.rx_expected

\* ... and knows from DISCOVERY, or will see from its number 0, that another one came.
WillTell(s, c) ==
  \/ s.pending_zero /\ s.pending_discovery = NONE /\ c.disc = 0
  \/ ~s.pending_zero /\ s.pending_discovery = c.disc /\ c.disc # 0 /\ c.kind = "modulo"
  \/ NothingPending(s) /\ c.kind = "standard" /\ (s.rx_expected - 1) % N # 0

\* Forced Modulo mode; every DISCOVERY aligns the session with the console.
ModuloSession(s) == s.mode = "modulo" /\ s.profile = "modulo" /\ NothingPending(s)

Aligned(s, c) == s.rx_expected = FirstSeq(c) /\ s.tx_seq_nr = c.base

Ready(s, c) ==
  \/ FreshSession(s) /\ s.discovery_sequence = c.disc
  \/ LeftOver(s, c) /\ WillTell(s, c)
  \/ ModuloSession(s) /\ Aligned(s, c)

\* Before the console was heard.
Starting(s, c, T) ==
  \/ FreshSession(s) /\ (T = {} \/ s.discovery_sequence = c.disc)
  \/ LeftOver(s, c) /\ T = {}
  \/ ModuloSession(s) /\ s.last_disc \in {NONE, c.disc} /\ (s.last_disc = c.disc => Aligned(s, c))

\* The first request has been handled and is about to be accepted.
Decided(s, c) ==
  /\ NothingPending(s) /\ s.profile # "pending" /\ (s.mode = "modulo" => s.profile = "modulo")
  /\ \/ Aligned(s, c)
     \/ /\ s.rx_streaming /\ s.rx_expected # 0 /\ (s.rx_expected - 1) % N # 0
        /\ c.kind = "standard" /\ c.base = 0

\* How many requests of the console were carried out, once the first one was.
Carried(c, w) == IF w.at = "reply" THEN c.got + 1 ELSE c.got

Established(s, c, w) ==
  /\ s.rx_streaming /\ NothingPending(s) /\ s.profile # "pending"
  /\ s.mode = "modulo" => s.profile = "modulo"
  /\ s.rx_expected = (FirstSeq(c) + Carried(c, w)) % N
  /\ s.tx_seq_nr = (c.base + c.got) % N
  /\ Carried(c, w) <= c.sent

IsRequest(c, m) ==
  m.id = c.id /\ m.n \in Nat /\ m.n < c.sent /\ m.seq = (FirstSeq(c) + m.n) % N

Items == [seq : Nat, id : Nat, n : Nat]

\* What waits are requests of this console, in order.
InOrder(c, q, from) ==
  /\ \A i \in 1 .. Len(q) : IsRequest(c, q[i]) /\ from <= q[i].n
  /\ \A i, j \in 1 .. Len(q) : i <= j => q[i].n <= q[j].n

WorkerOK(c, w) ==
  /\ DOMAIN w = {"at", "item"} /\ w.at \in {"idle", "accept", "reply"}
  /\ w.at # "idle" => IsRequest(c, w.item)
  /\ w.at = "reply" => w.item.n = c.got

\* Where the first request of the console is.
Progress(s, c, q, w, T) ==
  \/ c.at = "start" /\ q = <<>> /\ w.at = "idle" /\ Starting(s, c, T)
  \/ c.at = "informed" /\ q = <<>> /\ w.at = "idle" /\ Ready(s, c)
  \/ c.at = "run" /\ c.got = 0 /\ w.at = "idle" /\ Ready(s, c) /\ InOrder(c, q, 0)
  \/ c.at = "run" /\ c.got = 0 /\ w.at = "accept" /\ Decided(s, c) /\ InOrder(c, q, 0)
  \/ /\ c.at = "run" /\ Established(s, c, w)
     /\ InOrder(c, q, Carried(c, w) - 1)
     /\ w.at = "accept" => /\ w.item.n >= c.got - 1
                           /\ \A i \in 1 .. Len(q) : w.item.n <= q[i].n

\* Timers belong to handshakes of automatic mode.
TimersOK(s, T) ==
  T # {} => s.mode = "auto"

\* What was carried out: of this console the requests it counts, of later ones nothing.
ExecutedOK(c, w, ex) ==
  /\ ex \in [1 .. MaxConsoles -> [0 .. MaxRequests - 1 -> 0 .. 1]]
  /\ \A i \in 1 .. MaxConsoles : \A n \in 0 .. MaxRequests - 1 :
       (i > c.id \/ (i = c.id /\ n >= Carried(c, w))) => ex[i][n] = 0

NegotiationInv ==
  /\ SessOK(sess) /\ ConsoleOK(console, sess.mode) /\ WorkerOK(console, worker)
  /\ queue \in Seq(Items)
  /\ Progress(sess, console, queue, worker, timers)
  /\ TimersOK(sess, timers)
  /\ ExecutedOK(console, worker, executed)
  /\ sess.handles /\ ~sess.rx_streaming => worker.at = "accept"

-----------------------------------------------------------------------------
(* Sequence numbers.                                                        *)

LEMMA Division ==
  ASSUME NEW n \in Nat \ {0}, NEW a \in Nat
  PROVE  \E q \in Int : \E r \in 0 .. n - 1 : a = n * q + r /\ a % n = r
<1>1. a % n \in 0 .. n - 1
  OBVIOUS
<1>2. a \div n \in Int
  OBVIOUS
<1>3. a = n * (a \div n) + (a % n)
  OBVIOUS
<1> QED BY <1>1, <1>2, <1>3

LEMMA Remainder ==
  ASSUME NEW n \in Nat \ {0}, NEW q \in Int, NEW r \in 0 .. n - 1
  PROVE  (n * q + r) % n = r
  OBVIOUS

\* The number after a % N.
LEMMA Successor ==
  ASSUME NEW n \in Nat \ {0}, NEW a \in Nat
  PROVE  (a + 1) % n = IF a % n = n - 1 THEN 0 ELSE (a % n) + 1
<1>1. PICK q \in Int, r \in 0 .. n - 1 : a = n * q + r /\ a % n = r
  BY Division
<1>2. CASE r = n - 1
  <2>1. a + 1 = n * (q + 1) + 0
    BY <1>1, <1>2
  <2>2. (n * (q + 1) + 0) % n = 0
    <3>1. q + 1 \in Int /\ 0 \in 0 .. n - 1
      OBVIOUS
    <3> QED BY ONLY <3>1, Remainder, n \in Nat \ {0}
  <2> QED BY <1>1, <1>2, <2>1, <2>2
<1>3. CASE r # n - 1
  <2>1. a + 1 = n * q + (r + 1) /\ r + 1 \in 0 .. n - 1
    BY <1>1, <1>3
  <2>2. (n * q + (r + 1)) % n = r + 1
    BY ONLY <2>1, Remainder, n \in Nat \ {0}, q \in Int
  <2> QED BY <1>1, <1>3, <2>1, <2>2
<1> QED BY <1>2, <1>3

\* The sequence numbers, of which there are at least two.
LEMMA SequenceNumbers ==
  /\ \A x \in 0 .. N - 1 : x % N = x
  /\ \A a \in Nat : a % N \in 0 .. N - 1
  /\ \A a \in Nat : ((a % N) + 1) % N = (a + 1) % N
  /\ \A a \in Nat : (((a + 1) % N) - 1) % N = a % N
  /\ \A a \in Nat : (a + 1) % N # a % N
  /\ 1 % N = 1 /\ N >= 2 /\ N \in Nat
<1>1. N \in Nat \ {0} /\ N >= 2
  BY NegotiationAssumption
<1>2. ASSUME NEW x \in 0 .. N - 1 PROVE x % N = x
  BY <1>1
<1>3. ASSUME NEW a \in Nat PROVE a % N \in 0 .. N - 1
  BY <1>1
<1>4. (0 - 1) % N = N - 1
  BY ONLY <1>1
<1>5. ASSUME NEW a \in Nat
      PROVE  /\ ((a % N) + 1) % N = (a + 1) % N /\ (((a + 1) % N) - 1) % N = a % N /\ (a + 1) % N # a % N
  <2>1. PICK r : r = a % N
    OBVIOUS
  <2>2. PICK t : t = (a + 1) % N
    OBVIOUS
  <2>3. r \in 0 .. N - 1 /\ t = IF r = N - 1 THEN 0 ELSE r + 1
    BY <1>1, <1>3, <2>1, <2>2, Successor
  <2>4. (r + 1) % N = IF r % N = N - 1 THEN 0 ELSE (r % N) + 1
    <3>1. r \in Nat
      BY <1>1, <2>3
    <3> QED BY ONLY <1>1, <3>1, Successor
  <2>5. r % N = r
    BY <1>2, <2>3
  <2>6. (r + 1) % N = t
    BY <2>3, <2>4, <2>5
  <2>7. (t - 1) % N = r
    <3>1. CASE r = N - 1
      BY <1>4, <2>3, <3>1
    <3>2. CASE r # N - 1
      <4>1. t - 1 = r
        BY <1>1, <2>3, <3>2
      <4> QED BY <2>5, <4>1
    <3> QED BY <3>1, <3>2
  <2>8. t # r
    BY <1>1, <2>3
  <2> QED BY <2>1, <2>2, <2>6, <2>7, <2>8
<1>6. 1 % N = 1
  BY <1>1, <1>2
<1> QED BY <1>1, <1>2, <1>3, <1>5, <1>6

LEMMA AtLeastTwo == N \in Nat /\ N >= 2 /\ 0 \in 0 .. N - 1 /\ 1 \in 0 .. N - 1 /\ (0 + 1) % N = 1
<1>1. N \in Nat /\ N >= 2
  BY NegotiationAssumption
<1>2. 1 % N = 1 /\ 0 + 1 = 1
  BY SequenceNumbers
<1> QED BY <1>1, <1>2

LEMMA NextNumber == \A x \in 0 .. N - 1 : (x + 1) % N \in 0 .. N - 1
<1> SUFFICES ASSUME NEW x \in 0 .. N - 1 PROVE (x + 1) % N \in 0 .. N - 1
  OBVIOUS
<1>1. x + 1 \in Nat
  BY AtLeastTwo
<1> QED BY ONLY <1>1, SequenceNumbers

-----------------------------------------------------------------------------
(* What the session's operations leave in its fields.                       *)

LEMMA CompatibilityInformFields ==
  ASSUME NEW s, SessOK(s)
  PROVE  LET r == CompatibilityInform(s)
         IN  /\ SessOK(r) /\ r.tx_seq_nr = (s.tx_seq_nr + 1) % N /\ r.fallback_sent = TRUE
             /\ r.mode = s.mode /\ r.profile = s.profile /\ r.rx_expected = s.rx_expected
             /\ r.rx_streaming = s.rx_streaming /\ r.pending_zero = s.pending_zero
             /\ r.pending_discovery = s.pending_discovery /\ r.handles = s.handles
             /\ r.discovery_sequence = s.discovery_sequence /\ r.last_disc = s.last_disc
<1>1. (s.tx_seq_nr + 1) % N \in 0 .. N - 1
  BY NextNumber DEF SessOK
<1> QED BY <1>1 DEF CompatibilityInform, SessFields, SessOK

\* A session that is reset for a console whose DISCOVERY had the number d.
Restarted(s, d) == [ResetTransport(s) EXCEPT !.discovery_sequence = d, !.generation = @ + 1]

LEMMA ResetTransportFields ==
  ASSUME NEW s, SessOK(s)
  PROVE  LET r == ResetTransport(s)
         IN  /\ DOMAIN r = SessFields /\ r.mode = s.mode /\ r.profile = Pending(s.mode)
             /\ r.rx_expected = 0 /\ r.tx_seq_nr = 0 /\ r.rx_streaming = FALSE /\ r.fallback_sent = FALSE
             /\ r.pending_zero = FALSE /\ r.pending_discovery = NONE
             /\ r.handles = s.handles /\ r.generation = s.generation
  BY DEF ResetTransport, SessFields, SessOK

LEMMA RestartedFields ==
  ASSUME NEW s, SessOK(s), s.mode # "modulo", NEW d
  PROVE  LET r == Restarted(s, d)
         IN  /\ SessOK(r) /\ r.mode = s.mode /\ r.handles = s.handles
             /\ FreshSession(r) /\ r.discovery_sequence = d
<1>1. PICK t : t = ResetTransport(s)
  OBVIOUS
<1>2. /\ DOMAIN t = SessFields /\ t.mode = s.mode /\ t.profile = Pending(s.mode)
      /\ t.rx_expected = 0 /\ t.tx_seq_nr = 0 /\ t.rx_streaming = FALSE /\ t.fallback_sent = FALSE
      /\ t.pending_zero = FALSE /\ t.pending_discovery = NONE
      /\ t.handles = s.handles /\ t.generation = s.generation
  BY <1>1, ResetTransportFields
<1>3. PICK r : r = [t EXCEPT !.discovery_sequence = d, !.generation = @ + 1]
  OBVIOUS
<1>4. /\ DOMAIN r = SessFields /\ r.mode = s.mode /\ r.profile = Pending(s.mode)
      /\ r.rx_expected = 0 /\ r.tx_seq_nr = 0 /\ r.rx_streaming = FALSE /\ r.fallback_sent = FALSE
      /\ r.pending_zero = FALSE /\ r.pending_discovery = NONE /\ r.discovery_sequence = d
      /\ r.handles = s.handles /\ r.generation = s.generation + 1
  BY <1>2, <1>3 DEF SessFields
<1>5. SessOK(r)
  <2>1. 0 \in 0 .. N - 1 /\ s.generation + 1 \in Nat
    BY AtLeastTwo DEF SessOK
  <2> QED BY <1>4, <2>1 DEF SessOK
<1>6. FreshSession(r)
  BY <1>4 DEF FreshSession, NothingPending
<1> QED BY <1>1, <1>3, <1>4, <1>5, <1>6 DEF Restarted

\* The first request of a console, in a session that knows its DISCOVERY.
LEMMA ClassifyFirst ==
  ASSUME NEW s, NEW c, SessOK(s), ConsoleOK(c, s.mode), FreshSession(s), s.discovery_sequence = c.disc
  PROVE  LET r == Classify(s, FirstSeq(c))
         IN  SessOK(r) /\ r.mode = s.mode /\ r.handles = s.handles /\ Decided(r, c)
<1>1. PICK f : f = FirstSeq(c)
  OBVIOUS
<1>2. f \in 0 .. N - 1 /\ (c.kind = "standard" => f = 0 /\ c.disc = 0)
      /\ (c.kind = "modulo" => f = (c.disc + 1) % N /\ (f # 0 \/ c.disc # 0))
  <2>1. 0 \in 0 .. N - 1 /\ (0 + 1) % N = 1 /\ c.kind \in {"standard", "modulo"}
    BY AtLeastTwo DEF ConsoleOK
  <2>2. (c.disc + 1) % N \in 0 .. N - 1
    BY NextNumber DEF ConsoleOK
  <2>3. c.disc = 0 => (c.disc + 1) % N = 1
    BY <2>1
  <2> QED BY <1>1, <2>1, <2>2, <2>3 DEF FirstSeq, First, ConsoleOK
<1>3. c.kind = "standard" => classify_profile(c.disc, f) = "standard"
  BY <1>2, SequenceNumbers DEF classify_profile
<1>4. c.kind = "modulo" => classify_profile(c.disc, f) = "modulo"
  BY <1>2 DEF classify_profile
<1>5. PICK p : p = classify_profile(s.discovery_sequence, f)
  OBVIOUS
<1>6. p = c.kind /\ c.kind \in {"standard", "modulo"} /\ c.base = IF c.kind = "modulo" THEN 1 ELSE 0
  BY <1>3, <1>4, <1>5 DEF ConsoleOK, FreshSession, Base
<1>7. PICK t : t = [s EXCEPT !.profile = p, !.first_data_seen = TRUE]
  OBVIOUS
<1>8. /\ SessOK(t) /\ t.mode = s.mode /\ t.handles = s.handles /\ t.profile = p /\ NothingPending(t)
      /\ t.fallback_sent = s.fallback_sent /\ t.tx_seq_nr = s.tx_seq_nr
  BY <1>7 DEF SessOK, SessFields, NothingPending, FreshSession
<1>9. CASE s.mode = "standard"
  <2>1. s.profile = "standard" /\ s.tx_seq_nr = 0 /\ s.rx_expected = 0 /\ NothingPending(s) /\ c.kind = "standard"
    BY <1>9 DEF FreshSession, Pending, ConsoleOK
  <2>2. Classify(s, f) = s
    BY <2>1 DEF Classify
  <2>3. Decided(s, c)
    BY <1>1, <1>2, <1>6, <1>9, <2>1 DEF Decided, Aligned
  <2> QED BY <1>1, <2>2, <2>3
<1>10. CASE s.mode = "auto"
  <2>1. s.profile = "pending" /\ s.tx_seq_nr = IF s.fallback_sent THEN 1 ELSE 0
    BY <1>10 DEF FreshSession, Pending
  <2>2. CASE c.kind = "standard"
    <3>1. PICK r : r = IF t.fallback_sent
                       THEN [t EXCEPT !.rx_expected = 0, !.tx_seq_nr = 0, !.fallback_sent = FALSE]
                       ELSE [t EXCEPT !.rx_expected = 0]
      OBVIOUS
    <3>2. r = Classify(s, f)
      BY <1>5, <1>6, <1>7, <2>1, <2>2, <3>1 DEF Classify
    <3>3. SessOK(r) /\ r.mode = s.mode /\ r.handles = s.handles /\ r.profile = p /\ NothingPending(r)
          /\ r.rx_expected = 0 /\ r.tx_seq_nr = 0
      <4>1. CASE t.fallback_sent
        BY <1>8, <3>1, <4>1, SequenceNumbers DEF SessOK, SessFields, NothingPending
      <4>2. CASE ~t.fallback_sent
        BY <1>8, <2>1, <3>1, <4>2, SequenceNumbers DEF SessOK, SessFields, NothingPending
      <4> QED BY <4>1, <4>2
    <3>4. Decided(r, c)
      BY <1>1, <1>2, <1>6, <1>10, <2>2, <3>3 DEF Decided, Aligned
    <3> QED BY <1>1, <3>2, <3>3, <3>4
  <2>3. CASE c.kind = "modulo"
    <3>1. PICK m : m = [t EXCEPT !.rx_expected = f]
      OBVIOUS
    <3>2. SessOK(m) /\ m.mode = s.mode /\ m.handles = s.handles /\ m.profile = p /\ NothingPending(m)
          /\ m.rx_expected = f /\ m.tx_seq_nr = s.tx_seq_nr /\ m.fallback_sent = s.fallback_sent
      BY <1>2, <1>8, <3>1 DEF SessOK, SessFields, NothingPending
    <3>3. PICK r : r = IF m.fallback_sent THEN m ELSE CompatibilityInform(m)
      OBVIOUS
    <3>4. r = Classify(s, f)
      BY <1>5, <1>6, <1>7, <2>1, <2>3, <3>1, <3>3 DEF Classify
    <3>5. SessOK(r) /\ r.mode = s.mode /\ r.handles = s.handles /\ r.profile = p /\ NothingPending(r)
          /\ r.rx_expected = f /\ r.tx_seq_nr = 1
      <4>1. CASE s.fallback_sent
        BY <2>1, <3>2, <3>3, <4>1
      <4>2. CASE ~s.fallback_sent
        <5>1. r = CompatibilityInform(m) /\ m.tx_seq_nr = 0 /\ (0 + 1) % N = 1
          BY <2>1, <3>2, <3>3, <4>2, SequenceNumbers
        <5> QED BY <3>2, <5>1, CompatibilityInformFields DEF NothingPending
      <4> QED BY <4>1, <4>2
    <3>6. Decided(r, c)
      BY <1>1, <1>6, <2>3, <3>5 DEF Decided, Aligned
    <3> QED BY <1>1, <3>4, <3>5, <3>6
  <2> QED BY <1>6, <2>2, <2>3
<1> QED BY <1>9, <1>10 DEF FreshSession, SessOK

\* What is decided under compat_lock about a request with the number seq.
Handled(s, seq) == Classify(ResolveZeroDiscovery(ResolveDiscovery(s, seq), seq), seq)

\* The first request of a console that the session is ready for.
LEMMA FirstHandled ==
  ASSUME NEW s, NEW c, SessOK(s), ConsoleOK(c, s.mode), Ready(s, c)
  PROVE  LET r == Handled(s, FirstSeq(c))
         IN  SessOK(r) /\ r.mode = s.mode /\ r.handles = s.handles /\ Decided(r, c)
<1>1. PICK f : f = FirstSeq(c)
  OBVIOUS
<1>2. f \in {0, (c.disc + 1) % N} /\ (c.kind = "standard" => f = 0)
      /\ (c.kind = "modulo" => f = (c.disc + 1) % N) /\ c.kind \in {"standard", "modulo"}
  BY <1>1 DEF FirstSeq, First, ConsoleOK
<1>3. CASE FreshSession(s) /\ s.discovery_sequence = c.disc
  <2>1. Handled(s, f) = Classify(s, f)
    BY <1>3 DEF Handled, FreshSession, NothingPending, ResolveDiscovery, ResolveZeroDiscovery
  <2> QED BY <1>1, <1>3, <2>1, ClassifyFirst
<1>4. CASE LeftOver(s, c) /\ s.pending_zero /\ s.pending_discovery = NONE /\ c.disc = 0
  <2>1. f \in {0, 1} /\ f # s.rx_expected
    BY <1>1, <1>2, <1>4, AtLeastTwo DEF LeftOver
  <2>2. Handled(s, f) = Classify(Restarted(s, 0), f)
    BY <1>4, <2>1 DEF Handled, ResolveDiscovery, ResolveZeroDiscovery, Restarted
  <2>3. PICK t : t = Restarted(s, 0)
    OBVIOUS
  <2>4. SessOK(t) /\ t.mode = s.mode /\ t.handles = s.handles /\ FreshSession(t) /\ t.discovery_sequence = c.disc
    BY <1>4, <2>3, RestartedFields DEF LeftOver
  <2> QED BY <1>1, <2>2, <2>3, <2>4, ClassifyFirst
<1>5. CASE LeftOver(s, c) /\ ~s.pending_zero /\ s.pending_discovery = c.disc /\ c.disc # 0 /\ c.kind = "modulo"
  <2>1. f = (c.disc + 1) % N /\ f # s.rx_expected /\ c.disc # NONE
    BY <1>1, <1>2, <1>5, AtLeastTwo DEF LeftOver, ConsoleOK, NONE
  <2>2. PICK t : t = Restarted(s, c.disc)
    OBVIOUS
  <2>3. SessOK(t) /\ t.mode = s.mode /\ t.handles = s.handles /\ FreshSession(t) /\ t.discovery_sequence = c.disc
    BY <1>5, <2>2, RestartedFields DEF LeftOver
  <2>4. ResolveDiscovery(s, f) = t
    BY <1>5, <2>1, <2>2 DEF ResolveDiscovery, Restarted
  <2>5. Handled(s, f) = Classify(t, f)
    BY <2>3, <2>4 DEF Handled, ResolveZeroDiscovery, FreshSession, NothingPending
  <2> QED BY <1>1, <2>3, <2>5, ClassifyFirst
<1>6. CASE LeftOver(s, c) /\ NothingPending(s) /\ c.kind = "standard" /\ (s.rx_expected - 1) % N # 0
  <2>1. Handled(s, f) = s
    BY <1>6 DEF Handled, NothingPending, LeftOver, ResolveDiscovery, ResolveZeroDiscovery, Classify
  <2>2. s.rx_expected # 0 /\ c.base = 0
    BY <1>1, <1>2, <1>6 DEF LeftOver, ConsoleOK, Base
  <2>3. Decided(s, c)
    BY <1>6, <2>2 DEF Decided, LeftOver
  <2> QED BY <1>1, <2>1, <2>3
<1>7. CASE ModuloSession(s) /\ Aligned(s, c)
  <2>1. PICK r : r = IF ~s.rx_streaming THEN [s EXCEPT !.rx_expected = f] ELSE s
    OBVIOUS
  <2>2. Handled(s, f) = r
    BY <1>7, <2>1 DEF ModuloSession, Handled, NothingPending, ResolveDiscovery, ResolveZeroDiscovery, Classify
  <2>3. SessOK(r) /\ r.mode = s.mode /\ r.handles = s.handles /\ NothingPending(r)
        /\ r.profile = s.profile /\ r.rx_expected = f /\ r.tx_seq_nr = s.tx_seq_nr
    BY <1>1, <1>7, <2>1 DEF SessOK, SessFields, ModuloSession, NothingPending, Aligned
  <2>4. Decided(r, c)
    BY <1>1, <1>7, <2>3 DEF Decided, Aligned, ModuloSession
  <2> QED BY <1>1, <2>2, <2>3, <2>4
<1> QED BY <1>3, <1>4, <1>5, <1>6, <1>7 DEF Ready, WillTell

\* A request of a console that is being served.
LEMMA ServedHandled ==
  ASSUME NEW s, NEW c, NEW w, Established(s, c, w), NEW seq
  PROVE  Handled(s, seq) = s
  BY DEF Established, NothingPending, Handled, ResolveDiscovery, ResolveZeroDiscovery, Classify

-----------------------------------------------------------------------------
(* The console and what waits.                                              *)

\* Two states of one console.
SameLoader(c, d) == d.id = c.id /\ d.kind = c.kind /\ d.disc = c.disc

LEMMA InformedFields ==
  ASSUME NEW c, NEW mode, ConsoleOK(c, mode), c.at # "run", NEW compat
  PROVE  LET r == Informed(c, compat)
         IN  /\ ConsoleOK(r, mode) /\ SameLoader(c, r) /\ r.sent = 0 /\ r.got = 0 /\ r.base = c.base
             /\ r.picky = c.picky /\ r.at # "run"
             /\ r.at = IF c.at = "start" /\ ~(compat \/ ~c.picky) THEN "start" ELSE "informed"
<1>1. c.sent = 0 /\ c.got = 0 /\ c.at \in {"start", "informed"}
  BY DEF ConsoleOK
<1>2. CASE c.at = "start" /\ (compat \/ ~c.picky)
  <2>1. PICK r : r = [c EXCEPT !.at = "informed"]
    OBVIOUS
  <2>2. DOMAIN r = ConsoleFields /\ SameLoader(c, r) /\ r.sent = c.sent /\ r.got = c.got /\ r.base = c.base
        /\ r.picky = c.picky /\ r.at = "informed"
    BY <2>1 DEF ConsoleOK, ConsoleFields, SameLoader
  <2>3. ConsoleOK(r, mode)
    BY <1>1, <2>2 DEF ConsoleOK, SameLoader
  <2>4. r = Informed(c, compat)
    BY <1>2, <2>1 DEF Informed
  <2> QED BY <1>1, <1>2, <2>2, <2>3, <2>4
<1>3. CASE ~(c.at = "start" /\ (compat \/ ~c.picky))
  <2>1. Informed(c, compat) = c
    BY <1>3 DEF Informed
  <2> QED BY <1>1, <1>3, <2>1 DEF SameLoader
<1> QED BY <1>2, <1>3

LEMMA InOrderTail ==
  ASSUME NEW c, NEW q \in Seq(Items), q # <<>>, NEW from, InOrder(c, q, from)
  PROVE  /\ Tail(q) \in Seq(Items) /\ InOrder(c, Tail(q), from)
         /\ Head(q) = q[1] /\ IsRequest(c, Head(q)) /\ from <= Head(q).n
         /\ \A i \in 1 .. Len(Tail(q)) : Head(q).n <= Tail(q)[i].n
<1>1. Tail(q) \in Seq(Items) /\ Len(q) \in Nat /\ Len(q) >= 1 /\ Len(Tail(q)) = Len(q) - 1 /\ Head(q) = q[1]
  OBVIOUS
<1>2. \A i \in 1 .. Len(Tail(q)) : Tail(q)[i] = q[i + 1] /\ i + 1 \in 1 .. Len(q)
  BY <1>1
<1>3. 1 \in 1 .. Len(q)
  BY <1>1
<1>4. IsRequest(c, q[1]) /\ from <= q[1].n
  BY <1>3 DEF InOrder
<1>5. ASSUME NEW i \in 1 .. Len(Tail(q)) PROVE q[1].n <= Tail(q)[i].n /\ IsRequest(c, Tail(q)[i]) /\ from <= Tail(q)[i].n
  <2>1. 1 <= i + 1 /\ i + 1 \in 1 .. Len(q) /\ Tail(q)[i] = q[i + 1]
    BY <1>1, <1>2
  <2> QED BY <1>3, <2>1 DEF InOrder
<1>6. ASSUME NEW i \in 1 .. Len(Tail(q)), NEW j \in 1 .. Len(Tail(q)), i <= j PROVE Tail(q)[i].n <= Tail(q)[j].n
  <2>1. i + 1 \in 1 .. Len(q) /\ j + 1 \in 1 .. Len(q) /\ i + 1 <= j + 1
        /\ Tail(q)[i] = q[i + 1] /\ Tail(q)[j] = q[j + 1]
    BY <1>1, <1>2, <1>6
  <2> QED BY <2>1 DEF InOrder
<1> QED BY <1>1, <1>4, <1>5, <1>6 DEF InOrder

LEMMA InOrderAppend ==
  ASSUME NEW c, NEW q \in Seq(Items), NEW m \in Items, NEW from, InOrder(c, q, from), IsRequest(c, m),
         from <= m.n, c.sent \in Nat, m.n = c.sent - 1
  PROVE  Append(q, m) \in Seq(Items) /\ InOrder(c, Append(q, m), from)
<1>1. /\ Append(q, m) \in Seq(Items) /\ Len(q) \in Nat /\ Len(Append(q, m)) = Len(q) + 1
      /\ \A i \in 1 .. Len(q) : Append(q, m)[i] = q[i]
      /\ Append(q, m)[Len(q) + 1] = m
  OBVIOUS
<1>2. \A i \in 1 .. Len(q) + 1 : i \in 1 .. Len(q) \/ i = Len(q) + 1
  BY <1>1
<1>3. \A i \in 1 .. Len(q) : q[i].n \in Nat /\ q[i].n <= m.n
  BY DEF InOrder, IsRequest
<1>4. \A i \in 1 .. Len(q) + 1 : IsRequest(c, Append(q, m)[i]) /\ from <= Append(q, m)[i].n
  BY <1>1, <1>2 DEF InOrder
<1>5. ASSUME NEW i \in 1 .. Len(q) + 1, NEW j \in 1 .. Len(q) + 1, i <= j
      PROVE  Append(q, m)[i].n <= Append(q, m)[j].n
  <2>1. CASE j = Len(q) + 1
    <3>1. Append(q, m)[j] = m /\ m.n \in Nat
      BY <1>1, <2>1 DEF IsRequest
    <3> QED BY <1>1, <1>2, <1>3, <3>1
  <2>2. CASE j \in 1 .. Len(q)
    <3>1. i \in 1 .. Len(q)
      BY <1>1, <1>5, <2>2
    <3> QED BY <1>1, <1>5, <2>2, <3>1 DEF InOrder
  <2> QED BY <1>2, <2>1, <2>2
<1> QED BY <1>1, <1>4, <1>5 DEF InOrder

\* A console that has sent more still has sent what waits.
LEMMA InOrderLater ==
  ASSUME NEW c, NEW d, NEW q, NEW from, NEW to, InOrder(c, q, from), SameLoader(c, d),
         c.sent \in Nat, d.sent \in Nat, c.sent <= d.sent, \A i \in 1 .. Len(q) : to <= q[i].n
  PROVE  InOrder(d, q, to)
<1>1. FirstSeq(d) = FirstSeq(c)
  BY DEF FirstSeq, SameLoader
<1>2. \A i \in 1 .. Len(q) : IsRequest(d, q[i])
  BY <1>1 DEF InOrder, IsRequest, SameLoader
<1> QED BY <1>2 DEF InOrder

-----------------------------------------------------------------------------
(* The main thread and the timers.                                          *)

\* A console that has not sent a request.
LEMMA Silent ==
  ASSUME NegotiationInv, console.at # "run"
  PROVE  /\ queue = <<>> /\ worker.at = "idle" /\ console.sent = 0 /\ console.got = 0
         /\ console.at \in {"start", "informed"}
         /\ console.at = "start" => Starting(sess, console, timers)
         /\ console.at = "informed" => Ready(sess, console)
  BY DEF NegotiationInv, Progress, ConsoleOK

\* ... and is heard, or not, by a DISCOVERY.
LEMMA StillSilent ==
  ASSUME NegotiationInv, console.at # "run",
         SessOK(sess'), sess'.mode = sess.mode, ConsoleOK(console', sess.mode),
         SameLoader(console, console'), console'.sent = 0, console'.got = 0,
         console'.at = "start" => Starting(sess', console', timers'),
         console'.at = "informed" => Ready(sess', console'),
         TimersOK(sess', timers'), sess'.handles => sess'.rx_streaming,
         UNCHANGED <<queue, worker, executed>>
  PROVE  NegotiationInv'
<1>1. queue = <<>> /\ worker.at = "idle" /\ console.sent = 0 /\ console.got = 0
  BY Silent
<1>2. queue' = queue /\ worker' = worker /\ executed' = executed
  OBVIOUS
<1>3. console'.at \in {"start", "informed"}
  BY DEF ConsoleOK
<1>4. Progress(sess', console', queue', worker', timers')
  BY <1>1, <1>2, <1>3 DEF Progress
<1>5. ExecutedOK(console', worker', executed')
  BY <1>1, <1>2 DEF NegotiationInv, ExecutedOK, Carried, SameLoader
<1>6. WorkerOK(console', worker')
  BY <1>1, <1>2 DEF NegotiationInv, WorkerOK
<1> QED BY <1>2, <1>4, <1>5, <1>6 DEF NegotiationInv

LEMMA DiscoveryStreamingStep ==
  ASSUME ~Background, NegotiationInv, DiscoveryStreaming
  PROVE  NegotiationInv' /\ executed' = executed /\ (sess.handles => sess'.handles)
<1>1. console.at # "run" /\ sess.mode # "modulo" /\ sess.rx_streaming
  BY DEF DiscoveryStreaming, Discovers, protocol_mode
<1>2. SessOK(sess) /\ ConsoleOK(console, sess.mode) /\ TimersOK(sess, timers)
  BY DEF NegotiationInv
<1>3. LeftOver(sess, console) /\ timers' = timers /\ (console.at = "start" => timers = {})
  BY <1>1, Silent DEF DiscoveryStreaming, Starting, Ready, FreshSession, ModuloSession
<1>4. /\ SessOK(sess') /\ sess'.mode = sess.mode /\ sess'.rx_streaming = TRUE /\ sess'.profile = sess.profile
      /\ sess'.rx_expected = sess.rx_expected /\ sess'.handles = sess.handles
      /\ sess'.pending_zero = (console.disc = 0)
      /\ sess'.pending_discovery = IF console.disc = 0 THEN NONE ELSE console.disc
  BY <1>1, <1>2 DEF DiscoveryStreaming, SessOK, SessFields
<1>5. /\ ConsoleOK(console', sess.mode) /\ SameLoader(console, console') /\ console'.sent = 0 /\ console'.got = 0
      /\ console'.at = "informed" /\ console'.picky = console.picky
  <2>1. console' = Informed(console, FALSE)
    BY DEF DiscoveryStreaming
  <2>2. ~console.picky
    BY <1>3 DEF LeftOver
  <2> QED BY <1>1, <1>2, <2>1, <2>2, InformedFields
<1>6. LeftOver(sess', console')
  BY <1>3, <1>4, <1>5 DEF LeftOver, FirstSeq, SameLoader
<1>7. WillTell(sess', console')
  BY <1>4, <1>5 DEF WillTell, SameLoader, ConsoleOK
<1>8. TimersOK(sess', timers')
  BY <1>2, <1>3, <1>4 DEF TimersOK
<1>9. executed' = executed /\ queue' = queue /\ worker' = worker
  BY DEF DiscoveryStreaming
<1>10. Ready(sess', console')
  BY <1>6, <1>7 DEF Ready
<1> QED BY <1>1, <1>4, <1>5, <1>8, <1>9, <1>10, StillSilent

LEMMA DiscoveryFreshStep ==
  ASSUME ~Background, NegotiationInv, DiscoveryFresh
  PROVE  NegotiationInv' /\ executed' = executed /\ (sess.handles => sess'.handles)
<1>1. console.at # "run" /\ sess.mode # "modulo" /\ ~sess.rx_streaming
  BY DEF DiscoveryFresh, Discovers, protocol_mode
<1>2. SessOK(sess) /\ ConsoleOK(console, sess.mode) /\ TimersOK(sess, timers) /\ ~sess.handles
  BY <1>1, Silent DEF NegotiationInv
<1>3. PICK t : t = ResetTransport(sess)
  OBVIOUS
<1>4. /\ DOMAIN t = SessFields /\ t.mode = sess.mode /\ t.profile = Pending(sess.mode)
      /\ t.rx_expected = 0 /\ t.tx_seq_nr = 0 /\ t.rx_streaming = FALSE /\ t.fallback_sent = FALSE
      /\ t.pending_zero = FALSE /\ t.pending_discovery = NONE /\ t.generation = sess.generation
  BY <1>2, <1>3, ResetTransportFields
<1>5. PICK u : u = [t EXCEPT !.handles = FALSE]
  OBVIOUS
<1>6. /\ DOMAIN u = SessFields /\ u.mode = sess.mode /\ u.profile = Pending(sess.mode)
      /\ u.rx_expected = 0 /\ u.tx_seq_nr = 0 /\ u.rx_streaming = FALSE /\ u.fallback_sent = FALSE
      /\ u.pending_zero = FALSE /\ u.pending_discovery = NONE /\ u.generation = sess.generation
      /\ u.handles = FALSE
  BY <1>4, <1>5 DEF SessFields
<1>7. sess' = [u EXCEPT !.discovery_sequence = console.disc, !.generation = @ + 1]
  BY <1>3, <1>5 DEF DiscoveryFresh, ResetSession
<1>8. /\ DOMAIN sess' = SessFields /\ sess'.mode = sess.mode /\ sess'.profile = Pending(sess.mode)
      /\ sess'.rx_expected = 0 /\ sess'.tx_seq_nr = 0 /\ sess'.rx_streaming = FALSE /\ sess'.fallback_sent = FALSE
      /\ sess'.pending_zero = FALSE /\ sess'.pending_discovery = NONE /\ sess'.generation = sess.generation + 1
      /\ sess'.handles = FALSE /\ sess'.discovery_sequence = console.disc
  BY <1>6, <1>7 DEF SessFields
<1>9. SessOK(sess')
  <2>1. 0 \in 0 .. N - 1 /\ sess.generation + 1 \in Nat
    BY <1>2, AtLeastTwo DEF SessOK
  <2> QED BY <1>2, <1>8, <2>1 DEF SessOK
<1>10. FreshSession(sess')
  BY <1>1, <1>8 DEF FreshSession, NothingPending
<1>11. /\ ConsoleOK(console', sess.mode) /\ SameLoader(console, console') /\ console'.sent = 0 /\ console'.got = 0
  <2>1. console' = Informed(console, FALSE)
    BY DEF DiscoveryFresh
  <2> QED BY <1>1, <1>2, <2>1, InformedFields
<1>12. TimersOK(sess', timers')
  BY <1>2, <1>8 DEF TimersOK, DiscoveryFresh, protocol_mode
<1>13. Starting(sess', console', timers') /\ Ready(sess', console')
  BY <1>8, <1>10, <1>11 DEF Starting, Ready, SameLoader
<1>14. executed' = executed /\ queue' = queue /\ worker' = worker
  BY DEF DiscoveryFresh
<1> QED BY <1>1, <1>2, <1>8, <1>9, <1>11, <1>12, <1>13, <1>14, StillSilent

LEMMA DiscoveryModuloStep ==
  ASSUME ~Background, NegotiationInv, DiscoveryModulo
  PROVE  NegotiationInv' /\ executed' = executed /\ (sess.handles => sess'.handles)
<1>1. console.at # "run" /\ sess.mode = "modulo"
  BY DEF DiscoveryModulo, Discovers, protocol_mode
<1>2. SessOK(sess) /\ ConsoleOK(console, sess.mode) /\ TimersOK(sess, timers) /\ timers' = timers
      /\ (sess.handles => sess.rx_streaming)
  BY <1>1, Silent DEF NegotiationInv, DiscoveryModulo
<1>3. ModuloSession(sess)
  BY <1>1, Silent DEF Starting, Ready, FreshSession, LeftOver
<1>4. PICK t : t = CompatibilityInform(sess)
  OBVIOUS
<1>5. /\ SessOK(t) /\ t.mode = sess.mode /\ t.profile = sess.profile
      /\ t.rx_streaming = sess.rx_streaming /\ t.pending_zero = sess.pending_zero
      /\ t.pending_discovery = sess.pending_discovery /\ t.handles = sess.handles
  BY <1>2, <1>4, CompatibilityInformFields
<1>6. (console.disc + 1) % N \in 0 .. N - 1
  BY <1>2, NextNumber DEF ConsoleOK
<1>7. sess' = [t EXCEPT !.last_disc = console.disc, !.rx_expected = (console.disc + 1) % N]
  BY <1>4 DEF DiscoveryModulo
<1>8. /\ SessOK(sess') /\ sess'.mode = sess.mode /\ sess'.profile = sess.profile
      /\ sess'.rx_streaming = sess.rx_streaming /\ sess'.pending_zero = sess.pending_zero
      /\ sess'.pending_discovery = sess.pending_discovery /\ sess'.handles = sess.handles
      /\ sess'.rx_expected = (console.disc + 1) % N
  BY <1>5, <1>6, <1>7 DEF SessOK, SessFields
<1>9. PICK d : d = Informed(console, TRUE)
  OBVIOUS
<1>10. /\ ConsoleOK(d, sess.mode) /\ SameLoader(console, d) /\ d.sent = 0 /\ d.got = 0 /\ d.at = "informed"
  BY <1>1, <1>2, <1>9, InformedFields
<1>11. console' = [d EXCEPT !.base = sess'.tx_seq_nr] /\ sess'.tx_seq_nr \in 0 .. N - 1
  BY <1>8, <1>9 DEF DiscoveryModulo, SessOK
<1>12. /\ ConsoleOK(console', sess.mode) /\ SameLoader(console, console') /\ console'.sent = 0 /\ console'.got = 0
       /\ console'.at = "informed" /\ console'.base = sess'.tx_seq_nr
  <2>1. /\ DOMAIN console' = ConsoleFields /\ SameLoader(console, console') /\ console'.sent = 0 /\ console'.got = 0
        /\ console'.at = "informed" /\ console'.base = sess'.tx_seq_nr
    BY <1>10, <1>11 DEF ConsoleOK, ConsoleFields, SameLoader
  <2> QED BY <1>1, <1>10, <1>11, <2>1 DEF ConsoleOK, SameLoader
<1>13. Ready(sess', console')
  <2>1. ModuloSession(sess')
    BY <1>3, <1>8 DEF ModuloSession, NothingPending
  <2>2. FirstSeq(console') = (console.disc + 1) % N
    BY <1>1, <1>2, <1>12 DEF FirstSeq, First, SameLoader, ConsoleOK
  <2> QED BY <1>8, <1>12, <2>1, <2>2 DEF Ready, Aligned
<1>14. TimersOK(sess', timers')
  BY <1>2, <1>8 DEF TimersOK
<1>15. executed' = executed /\ queue' = queue /\ worker' = worker
  BY DEF DiscoveryModulo
<1> QED BY <1>1, <1>2, <1>8, <1>12, <1>13, <1>14, <1>15, StillSilent

LEMMA DiscoveryModuloAgainStep ==
  ASSUME ~Background, NegotiationInv, DiscoveryModuloAgain
  PROVE  NegotiationInv' /\ executed' = executed /\ (sess.handles => sess'.handles)
<1>1. console.at # "run" /\ sess.mode = "modulo" /\ sess.last_disc = console.disc
  BY DEF DiscoveryModuloAgain, Discovers, protocol_mode
<1>2. /\ SessOK(sess) /\ ConsoleOK(console, sess.mode) /\ TimersOK(sess, timers)
      /\ (sess.handles => sess.rx_streaming) /\ sess' = sess /\ timers' = timers
  BY <1>1, Silent DEF NegotiationInv, DiscoveryModuloAgain
<1>3. ModuloSession(sess) /\ Aligned(sess, console)
  BY <1>1, Silent DEF Starting, Ready, FreshSession, LeftOver
<1>4. /\ ConsoleOK(console', sess.mode) /\ SameLoader(console, console') /\ console'.sent = 0 /\ console'.got = 0
      /\ console'.at = "informed" /\ console'.base = console.base
  <2>1. console' = Informed(console, TRUE)
    BY DEF DiscoveryModuloAgain
  <2> QED BY <1>1, <1>2, <2>1, InformedFields
<1>5. Ready(sess', console')
  BY <1>2, <1>3, <1>4 DEF Ready, Aligned, FirstSeq, SameLoader
<1>6. executed' = executed /\ queue' = queue /\ worker' = worker
  BY DEF DiscoveryModuloAgain
<1> QED BY <1>1, <1>2, <1>4, <1>5, <1>6, StillSilent

LEMMA FallbackStep ==
  ASSUME ~Background, NegotiationInv, NEW g \in Generations, Fallback(g)
  PROVE  NegotiationInv' /\ executed' = executed /\ (sess.handles => sess'.handles)
<1>1. g \in timers /\ timers' = timers \ {g} /\ queue' = queue /\ worker' = worker /\ executed' = executed
  BY DEF Fallback
<1>2. SessOK(sess) /\ ConsoleOK(console, sess.mode) /\ TimersOK(sess, timers)
  BY DEF NegotiationInv
<1>3. TimersOK(sess, timers')
  BY <1>1, <1>2 DEF TimersOK
<1>4. CASE UNCHANGED <<sess, console>>
  <2>1. Progress(sess, console, queue, worker, timers')
    <3>1. Progress(sess, console, queue, worker, timers)
      BY DEF NegotiationInv
    <3>2. Starting(sess, console, timers) => Starting(sess, console, timers')
      BY <1>1 DEF Starting
    <3> QED BY <3>1, <3>2 DEF Progress
  <2> QED BY <1>1, <1>3, <1>4, <2>1 DEF NegotiationInv
<1>5. CASE /\ sess.profile = "pending" /\ ~sess.rx_streaming /\ ~sess.fallback_sent
           /\ sess' = CompatibilityInform(sess) /\ console' = Informed(console, TRUE)
  <2>1. /\ SessOK(sess') /\ sess'.tx_seq_nr = (sess.tx_seq_nr + 1) % N /\ sess'.fallback_sent = TRUE
        /\ sess'.mode = sess.mode /\ sess'.profile = sess.profile /\ sess'.rx_expected = sess.rx_expected
        /\ sess'.rx_streaming = sess.rx_streaming /\ sess'.pending_zero = sess.pending_zero
        /\ sess'.pending_discovery = sess.pending_discovery /\ sess'.handles = sess.handles
        /\ sess'.discovery_sequence = sess.discovery_sequence
    BY <1>2, <1>5, CompatibilityInformFields
  <2>2. FreshSession(sess) /\ sess.discovery_sequence = console.disc /\ worker.at = "idle"
    <3>1. Progress(sess, console, queue, worker, timers)
      BY DEF NegotiationInv
    <3>2. Starting(sess, console, timers) => FreshSession(sess) /\ sess.discovery_sequence = console.disc
      BY <1>1, <1>5 DEF Starting, LeftOver, ModuloSession
    <3>3. Ready(sess, console) => FreshSession(sess) /\ sess.discovery_sequence = console.disc
      BY <1>5 DEF Ready, LeftOver, ModuloSession
    <3> QED BY <1>5, <3>1, <3>2, <3>3 DEF Progress, Decided, Established
  <2>3. FreshSession(sess')
    <3>1. sess.mode = "auto" /\ sess.tx_seq_nr = 0
      BY <1>2, <1>5, <2>2 DEF FreshSession, Pending, SessOK
    <3>2. sess'.tx_seq_nr = 1
      BY <2>1, <3>1, AtLeastTwo
    <3> QED BY <2>1, <2>2, <3>1, <3>2 DEF FreshSession, NothingPending
  <2>4. TimersOK(sess', timers')
    BY <1>3, <2>1 DEF TimersOK
  <2>5. CASE console.at # "run"
    <3>1. ConsoleOK(console', sess.mode) /\ SameLoader(console, console') /\ console'.sent = 0 /\ console'.got = 0
      BY <1>2, <1>5, <2>5, InformedFields
    <3>2. Starting(sess', console', timers') /\ Ready(sess', console')
      BY <2>1, <2>2, <2>3, <3>1 DEF Starting, Ready, SameLoader
    <3>3. sess'.handles => sess'.rx_streaming
      BY <1>5, <2>1, <2>2 DEF NegotiationInv
    <3> QED BY <1>1, <2>1, <2>4, <2>5, <3>1, <3>2, <3>3, StillSilent
  <2>6. CASE console.at = "run"
    <3>1. console' = console
      BY <1>5, <2>6 DEF Informed
    <3>2. Ready(sess', console)
      BY <2>1, <2>2, <2>3 DEF Ready
    <3>3. console.got = 0 /\ InOrder(console, queue, 0)
      <4>1. ~Established(sess, console, worker)
        BY <1>5 DEF Established
      <4> QED BY <2>6, <4>1 DEF NegotiationInv, Progress
    <3>4. Progress(sess', console', queue', worker', timers')
      BY <1>1, <2>2, <2>6, <3>1, <3>2, <3>3 DEF Progress
    <3> QED BY <1>1, <2>1, <2>4, <3>1, <3>4 DEF NegotiationInv
  <2> QED BY <1>1, <2>1, <2>5, <2>6
<1> QED BY <1>1, <1>4, <1>5 DEF Fallback

-----------------------------------------------------------------------------
(* The worker.                                                              *)

LEMMA HandleDataStep ==
  ASSUME NegotiationInv, HandleData
  PROVE  NegotiationInv' /\ executed' = executed /\ (sess.handles => sess'.handles)
<1>1. /\ worker.at = "idle" /\ queue # <<>> /\ queue \in Seq(Items)
      /\ sess' = Handled(sess, Head(queue).seq)
      /\ worker' = [at |-> "accept", item |-> Head(queue)] /\ queue' = Tail(queue)
      /\ timers' = timers /\ console' = console /\ executed' = executed
  BY DEF HandleData, Handled, NegotiationInv
<1>2. /\ SessOK(sess) /\ ConsoleOK(console, sess.mode) /\ TimersOK(sess, timers)
      /\ ExecutedOK(console, worker, executed) /\ Progress(sess, console, queue, worker, timers)
  BY DEF NegotiationInv
<1>3. Carried(console', worker') = console.got /\ Carried(console, worker) = console.got
  BY <1>1 DEF Carried
<1>4. ExecutedOK(console', worker', executed')
  BY <1>1, <1>2, <1>3 DEF ExecutedOK
<1>5. PICK m : m = Head(queue)
  OBVIOUS
<1>6. DOMAIN worker' = {"at", "item"} /\ worker'.at = "accept" /\ worker'.item = m
  BY <1>1, <1>5
<1>7. ASSUME console.at = "run", console.got = 0, Ready(sess, console), InOrder(console, queue, 0)
      PROVE  NegotiationInv' /\ (sess.handles => sess'.handles)
  <2>1. queue' \in Seq(Items) /\ InOrder(console, queue', 0) /\ IsRequest(console, m)
    BY <1>1, <1>5, <1>7, InOrderTail
  <2>2. m.n = 0
    BY <1>2, <1>7, <2>1 DEF IsRequest, ConsoleOK
  <2>3. m.seq = FirstSeq(console)
    <3>1. FirstSeq(console) \in 0 .. N - 1
      BY <1>2, AtLeastTwo, NextNumber DEF FirstSeq, First, ConsoleOK
    <3>2. FirstSeq(console) + 0 = FirstSeq(console)
      BY <3>1, AtLeastTwo
    <3>3. FirstSeq(console) % N = FirstSeq(console)
      BY ONLY <3>1, SequenceNumbers
    <3> QED BY <2>1, <2>2, <3>2, <3>3 DEF IsRequest
  <2>4. SessOK(sess') /\ sess'.mode = sess.mode /\ sess'.handles = sess.handles /\ Decided(sess', console)
    BY <1>1, <1>2, <1>5, <1>7, <2>3, FirstHandled
  <2>5. WorkerOK(console', worker')
    BY <1>1, <1>6, <2>1 DEF WorkerOK
  <2>6. Progress(sess', console', queue', worker', timers')
    BY <1>1, <1>6, <1>7, <2>1, <2>4 DEF Progress
  <2>7. TimersOK(sess', timers')
    BY <1>1, <1>2, <2>4 DEF TimersOK
  <2> QED BY <1>1, <1>2, <1>4, <1>6, <2>1, <2>4, <2>5, <2>6, <2>7 DEF NegotiationInv
<1>8. ASSUME console.at = "run", Established(sess, console, worker), InOrder(console, queue, console.got - 1)
      PROVE  NegotiationInv' /\ (sess.handles => sess'.handles)
  <2>1. /\ queue' \in Seq(Items) /\ InOrder(console, queue', console.got - 1) /\ IsRequest(console, m)
        /\ console.got - 1 <= m.n /\ \A i \in 1 .. Len(queue') : m.n <= queue'[i].n
    BY <1>1, <1>5, <1>8, InOrderTail
  <2>2. sess' = sess
    BY <1>1, <1>8, ServedHandled
  <2>3. Established(sess', console', worker')
    BY <1>1, <1>3, <1>8, <2>2 DEF Established
  <2>4. WorkerOK(console', worker')
    BY <1>1, <1>6, <2>1 DEF WorkerOK
  <2>5. m.n >= console.got - 1
    BY <1>2, <2>1 DEF IsRequest, ConsoleOK
  <2>6. Progress(sess', console', queue', worker', timers')
    BY <1>1, <1>3, <1>6, <1>8, <2>1, <2>3, <2>5 DEF Progress
  <2>7. TimersOK(sess', timers')
    BY <1>1, <1>2, <2>2 DEF TimersOK
  <2>8. sess'.rx_streaming
    BY <2>3 DEF Established
  <2> QED BY <1>1, <1>2, <1>4, <2>1, <2>2, <2>4, <2>6, <2>7, <2>8 DEF NegotiationInv
<1> QED BY <1>1, <1>2, <1>3, <1>7, <1>8 DEF Progress

\* A request that is about to be accepted or refused: the next one, or the last one again.
LEMMA NextOrLast ==
  ASSUME NegotiationInv, worker.at = "accept", Established(sess, console, worker)
  PROVE  /\ worker.item.n \in {console.got - 1, console.got}
         /\ worker.item.n = console.got => worker.item.seq = sess.rx_expected
         /\ worker.item.n = console.got - 1 => /\ worker.item.seq # sess.rx_expected
                                               /\ worker.item.seq = (sess.rx_expected - 1) % N
<1>1. /\ IsRequest(console, worker.item) /\ ConsoleOK(console, sess.mode)
      /\ sess.rx_expected = (FirstSeq(console) + console.got) % N
  BY DEF NegotiationInv, WorkerOK, Established, Carried
<1>2. PICK n : n = worker.item.n
  OBVIOUS
<1>3. PICK f : f = FirstSeq(console)
  OBVIOUS
<1>4. PICK k : k = console.got
  OBVIOUS
<1>5. k \in Nat /\ n \in Nat /\ n <= k /\ f \in Nat
  <2>1. FirstSeq(console) \in 0 .. N - 1
    BY <1>1, AtLeastTwo, NextNumber DEF FirstSeq, First, ConsoleOK
  <2> QED BY <1>1, <1>2, <1>3, <1>4, <2>1 DEF IsRequest, ConsoleOK
<1>6. n >= k - 1
  BY <1>2, <1>4, <1>5 DEF NegotiationInv, Progress, Decided, InOrder
<1>7. worker.item.seq = (f + n) % N /\ sess.rx_expected = (f + k) % N
  BY <1>1, <1>2, <1>3, <1>4 DEF IsRequest
<1>8. ASSUME n = k - 1
      PROVE  (f + n) % N # (f + k) % N /\ (f + n) % N = (((f + k) % N) - 1) % N
  <2>1. PICK a : a = f + n
    OBVIOUS
  <2>2. a \in Nat /\ f + k = a + 1
    BY <1>5, <1>8, <2>1
  <2>3. (a + 1) % N # a % N /\ (((a + 1) % N) - 1) % N = a % N
    BY ONLY <2>2, SequenceNumbers
  <2> QED BY <2>1, <2>2, <2>3
<1>9. n \in {k - 1, k}
  BY <1>5, <1>6
<1> QED BY <1>2, <1>4, <1>7, <1>8, <1>9

LEMMA RefuseStep ==
  ASSUME NegotiationInv, Refuse
  PROVE  NegotiationInv' /\ executed' = executed /\ (sess.handles => sess'.handles)
<1>1. /\ worker.at = "accept" /\ worker.item.seq # sess.rx_expected
      /\ worker.item.seq = (sess.rx_expected - 1) % N \/ worker.item.seq # 0
      /\ worker' = [worker EXCEPT !.at = "idle"]
      /\ sess' = sess /\ timers' = timers /\ queue' = queue /\ console' = console /\ executed' = executed
  BY DEF Refuse
<1>2. /\ DOMAIN worker = {"at", "item"} /\ IsRequest(console, worker.item) /\ ConsoleOK(console, sess.mode)
      /\ ExecutedOK(console, worker, executed) /\ Progress(sess, console, queue, worker, timers)
  BY <1>1 DEF NegotiationInv, WorkerOK
<1>3. DOMAIN worker' = {"at", "item"} /\ worker'.at = "idle"
  BY <1>1, <1>2
<1>4. ~(console.got = 0 /\ Decided(sess, console))
  <2> SUFFICES ASSUME console.got = 0, Decided(sess, console) PROVE FALSE
    OBVIOUS
  <2>1. worker.item.n = 0
    BY <1>2 DEF IsRequest, ConsoleOK
  <2>2. worker.item.seq = FirstSeq(console)
    <3>1. FirstSeq(console) \in 0 .. N - 1
      BY <1>2, AtLeastTwo, NextNumber DEF FirstSeq, First, ConsoleOK
    <3>2. FirstSeq(console) + 0 = FirstSeq(console)
      BY <3>1, AtLeastTwo
    <3>3. FirstSeq(console) % N = FirstSeq(console)
      BY ONLY <3>1, SequenceNumbers
    <3> QED BY <1>2, <2>1, <3>2, <3>3 DEF IsRequest
  <2> QED BY <1>1, <2>2 DEF Decided, Aligned, FirstSeq, First
<1>5. console.at = "run" /\ Established(sess, console, worker) /\ InOrder(console, queue, console.got - 1)
  BY <1>1, <1>2, <1>4 DEF Progress, Carried
<1>6. Carried(console', worker') = console.got /\ Carried(console, worker) = console.got
  BY <1>1, <1>3 DEF Carried
<1>7. Established(sess', console', worker')
  BY <1>1, <1>5, <1>6 DEF Established
<1>8. Progress(sess', console', queue', worker', timers')
  BY <1>1, <1>3, <1>5, <1>6, <1>7 DEF Progress
<1>9. ExecutedOK(console', worker', executed')
  BY <1>1, <1>2, <1>6 DEF ExecutedOK
<1>10. WorkerOK(console', worker')
  BY <1>3 DEF WorkerOK
<1>11. sess.rx_streaming
  BY <1>5 DEF Established
<1> QED BY <1>1, <1>8, <1>9, <1>10, <1>11 DEF NegotiationInv

LEMMA AcceptStep ==
  ASSUME NegotiationInv, Accept
  PROVE  NegotiationInv' /\ (sess.handles => sess'.handles)
<1>1. PICK item : item = worker.item
  OBVIOUS
<1>3. /\ worker.at = "accept" /\ (item.seq = sess.rx_expected \/ (item.seq = 0 /\ item.seq # (sess.rx_expected - 1) % N))
      /\ sess' = [sess EXCEPT !.rx_expected = (item.seq + 1) % N, !.rx_streaming = TRUE,
                              !.tx_seq_nr = IF item.seq # sess.rx_expected THEN 0 ELSE @, !.handles = TRUE]
      /\ executed' = [executed EXCEPT ![item.id][item.n] = @ + 1]
      /\ worker' = [worker EXCEPT !.at = "reply"]
      /\ timers' = timers /\ queue' = queue /\ console' = console
  BY <1>1 DEF Accept
<1>4. /\ DOMAIN worker = {"at", "item"} /\ IsRequest(console, item) /\ ConsoleOK(console, sess.mode) /\ SessOK(sess)
      /\ ExecutedOK(console, worker, executed) /\ Progress(sess, console, queue, worker, timers) /\ TimersOK(sess, timers)
  BY <1>1, <1>3 DEF NegotiationInv, WorkerOK
<1>5. DOMAIN worker' = {"at", "item"} /\ worker'.at = "reply" /\ worker'.item = item
  BY <1>1, <1>3, <1>4
<1>6. Carried(console, worker) = console.got /\ Carried(console', worker') = console.got + 1
  BY <1>3, <1>5 DEF Carried
<1>7. FirstSeq(console) \in 0 .. N - 1
  BY <1>4, AtLeastTwo, NextNumber DEF FirstSeq, First, ConsoleOK
<1>8. console.got \in Nat /\ console.at = "run" /\ InOrder(console, queue, console.got - 1)
  BY <1>3, <1>4, <1>6 DEF Progress, ConsoleOK, InOrder, IsRequest
<1>9. /\ item.n = console.got /\ item.seq = (FirstSeq(console) + console.got) % N
      /\ (IF item.seq # sess.rx_expected THEN 0 ELSE sess.tx_seq_nr) = (console.base + console.got) % N
      /\ NothingPending(sess) /\ sess.profile # "pending" /\ (sess.mode = "modulo" => sess.profile = "modulo")
      /\ \A i \in 1 .. Len(queue) : console.got <= queue[i].n
  <2>1. CASE console.got = 0 /\ Decided(sess, console) /\ InOrder(console, queue, 0)
    <3>1. item.n = 0
      BY <1>4, <2>1 DEF IsRequest, ConsoleOK
    <3>2. item.seq = (FirstSeq(console) + console.got) % N
      BY <1>4, <2>1, <3>1 DEF IsRequest
    <3>3. FirstSeq(console) + console.got = FirstSeq(console) /\ console.base + console.got = console.base
          /\ console.base \in 0 .. N - 1
      BY <1>4, <1>7, <2>1, AtLeastTwo DEF ConsoleOK
    <3>4. FirstSeq(console) % N = FirstSeq(console) /\ console.base % N = console.base
      BY ONLY <1>7, <3>3, SequenceNumbers
    <3>5. (IF item.seq # sess.rx_expected THEN 0 ELSE sess.tx_seq_nr) = console.base
      <4>1. CASE Aligned(sess, console)
        BY <3>2, <3>3, <3>4, <4>1 DEF Aligned
      <4>2. CASE sess.rx_expected # 0 /\ console.kind = "standard" /\ console.base = 0
        BY <3>2, <3>3, <3>4, <4>2 DEF FirstSeq, First
      <4> QED BY <2>1, <4>1, <4>2 DEF Decided
    <3> QED BY <2>1, <3>1, <3>2, <3>3, <3>4, <3>5 DEF Decided, InOrder
  <2>2. CASE Established(sess, console, worker) /\ (\A i \in 1 .. Len(queue) : item.n <= queue[i].n)
    <3>1. item.n = console.got /\ item.seq = sess.rx_expected
      BY <1>1, <1>3, <2>2, NextOrLast
    <3> QED BY <1>6, <2>2, <3>1 DEF Established
  <2> QED BY <1>1, <1>3, <1>4, <2>1, <2>2 DEF Progress
<1>10. (item.seq + 1) % N = (FirstSeq(console) + (console.got + 1)) % N /\ (item.seq + 1) % N \in 0 .. N - 1
  <2>1. PICK a : a = FirstSeq(console) + console.got
    OBVIOUS
  <2>2. a \in Nat /\ a + 1 \in Nat /\ FirstSeq(console) + (console.got + 1) = a + 1
    BY <1>7, <1>8, <2>1, AtLeastTwo
  <2>3. ((a % N) + 1) % N = (a + 1) % N /\ (a + 1) % N \in 0 .. N - 1
    BY ONLY <2>2, SequenceNumbers
  <2> QED BY <1>9, <2>1, <2>2, <2>3
<1>11. /\ SessOK(sess') /\ sess'.mode = sess.mode /\ sess'.rx_streaming = TRUE /\ sess'.handles = TRUE
       /\ NothingPending(sess') /\ sess'.profile = sess.profile
       /\ sess'.rx_expected = (item.seq + 1) % N
       /\ sess'.tx_seq_nr = IF item.seq # sess.rx_expected THEN 0 ELSE sess.tx_seq_nr
  <2>1. (IF item.seq # sess.rx_expected THEN 0 ELSE sess.tx_seq_nr) \in 0 .. N - 1
    BY <1>4, AtLeastTwo DEF SessOK
  <2> QED BY <1>3, <1>4, <1>9, <1>10, <2>1 DEF SessOK, SessFields, NothingPending
<1>12. Established(sess', console', worker')
  <2>1. console.got + 1 <= console.sent
    BY <1>4, <1>9 DEF IsRequest, ConsoleOK
  <2> QED BY <1>3, <1>6, <1>9, <1>10, <1>11, <2>1 DEF Established
<1>13. InOrder(console', queue', Carried(console', worker') - 1)
  <2>1. Carried(console', worker') - 1 = console.got
    BY <1>6, <1>8
  <2> QED BY <1>3, <1>8, <1>9, <2>1 DEF InOrder
<1>14. Progress(sess', console', queue', worker', timers')
  BY <1>3, <1>5, <1>8, <1>12, <1>13 DEF Progress
<1>15. ExecutedOK(console', worker', executed')
  <2>1. PICK i : i = item.id
    OBVIOUS
  <2>2. PICK k : k = item.n
    OBVIOUS
  <2>3. i = console.id /\ i \in 1 .. MaxConsoles /\ k = console.got /\ k \in 0 .. MaxRequests - 1
    <3>1. item.n < console.sent /\ console.sent \in 0 .. MaxRequests /\ i = console.id /\ console.id \in 1 .. MaxConsoles
      BY <1>4, <2>1 DEF IsRequest, ConsoleOK
    <3>2. k = console.got /\ k \in Nat /\ k < console.sent
      BY <1>8, <1>9, <2>2, <3>1
    <3> QED BY ONLY <3>1, <3>2, NegotiationAssumption
  <2>4. /\ executed \in [1 .. MaxConsoles -> [0 .. MaxRequests - 1 -> 0 .. 1]] /\ executed[i][k] = 0
        /\ executed' = [executed EXCEPT ![i] = [executed[i] EXCEPT ![k] = executed[i][k] + 1]]
    BY <1>3, <1>4, <1>6, <2>1, <2>2, <2>3 DEF ExecutedOK
  <2>5. executed[i] \in [0 .. MaxRequests - 1 -> 0 .. 1]
    BY <2>3, <2>4
  <2>6. [executed[i] EXCEPT ![k] = executed[i][k] + 1] \in [0 .. MaxRequests - 1 -> 0 .. 1]
    BY <2>3, <2>4, <2>5
  <2>7. executed' \in [1 .. MaxConsoles -> [0 .. MaxRequests - 1 -> 0 .. 1]]
    BY <2>3, <2>4, <2>6
  <2>8. ASSUME NEW j \in 1 .. MaxConsoles, NEW n \in 0 .. MaxRequests - 1,
               j > console'.id \/ (j = console'.id /\ n >= Carried(console', worker'))
        PROVE  executed'[j][n] = 0
    <3>1. executed[j][n] = 0
      <4>1. j > console.id \/ (j = console.id /\ n >= console.got + 1)
        BY <1>3, <1>6, <2>8
      <4>2. j > console.id \/ (j = console.id /\ n >= Carried(console, worker))
        BY <1>6, <1>8, <4>1
      <4> QED BY <1>4, <4>2 DEF ExecutedOK
    <3>2. j # i \/ n # k
      BY <1>3, <1>4, <1>6, <1>8, <2>3, <2>8 DEF ConsoleOK
    <3>3. CASE j # i
      BY <2>4, <3>1, <3>3
    <3>4. CASE j = i /\ n # k
      <4>1. executed'[j] = [executed[i] EXCEPT ![k] = executed[i][k] + 1]
        BY <2>3, <2>4, <3>4
      <4> QED BY <2>5, <3>1, <3>4, <4>1
    <3> QED BY <3>2, <3>3, <3>4
  <2> QED BY <2>7, <2>8 DEF ExecutedOK
<1>16. WorkerOK(console', worker')
  BY <1>3, <1>4, <1>5, <1>9 DEF WorkerOK
<1>17. TimersOK(sess', timers')
  BY <1>3, <1>4, <1>11 DEF TimersOK
<1> QED BY <1>3, <1>4, <1>11, <1>14, <1>15, <1>16, <1>17 DEF NegotiationInv

LEMMA ReplyStep ==
  ASSUME NegotiationInv, Reply
  PROVE  NegotiationInv' /\ executed' = executed /\ (sess.handles => sess'.handles)
<1>1. /\ worker.at = "reply" /\ sess' = [sess EXCEPT !.tx_seq_nr = (@ + 1) % N]
      /\ worker' = [worker EXCEPT !.at = "idle"]
      /\ timers' = timers /\ queue' = queue /\ executed' = executed
  BY DEF Reply
<1>2. /\ DOMAIN worker = {"at", "item"} /\ IsRequest(console, worker.item) /\ worker.item.n = console.got
      /\ ConsoleOK(console, sess.mode) /\ SessOK(sess) /\ TimersOK(sess, timers)
      /\ ExecutedOK(console, worker, executed)
  BY <1>1 DEF NegotiationInv, WorkerOK
<1>3. console.at = "run" /\ Established(sess, console, worker) /\ InOrder(console, queue, Carried(console, worker) - 1)
  BY <1>1 DEF NegotiationInv, Progress
<1>4. DOMAIN worker' = {"at", "item"} /\ worker'.at = "idle"
  BY <1>1, <1>2
<1>5. console' = [console EXCEPT !.got = @ + 1]
  <2>1. worker.item.id = console.id /\ sess.tx_seq_nr = NextReply(console)
    BY <1>2, <1>3 DEF IsRequest, Established, NextReply
  <2> QED BY <1>2, <2>1 DEF Reply
<1>6. /\ DOMAIN console' = ConsoleFields /\ SameLoader(console, console') /\ console'.at = "run"
      /\ console'.sent = console.sent /\ console'.got = console.got + 1 /\ console'.base = console.base
  BY <1>2, <1>3, <1>5 DEF ConsoleOK, ConsoleFields, SameLoader
<1>7. Carried(console, worker) = console.got + 1 /\ Carried(console', worker') = console.got + 1
  BY <1>1, <1>4, <1>6 DEF Carried
<1>8. console.got + 1 <= console.sent /\ console.got \in Nat /\ console.sent \in Nat
  BY <1>2, <1>3, <1>7 DEF Established, ConsoleOK
<1>9. ConsoleOK(console', sess.mode)
  BY <1>2, <1>3, <1>6, <1>8 DEF ConsoleOK, SameLoader
<1>10. /\ SessOK(sess') /\ sess'.mode = sess.mode /\ sess'.rx_expected = sess.rx_expected
       /\ sess'.rx_streaming = sess.rx_streaming /\ NothingPending(sess') /\ sess'.profile = sess.profile
       /\ sess'.tx_seq_nr = (sess.tx_seq_nr + 1) % N /\ sess'.handles = sess.handles
  <2>1. (sess.tx_seq_nr + 1) % N \in 0 .. N - 1
    BY <1>2, NextNumber DEF SessOK
  <2> QED BY <1>1, <1>2, <1>3, <2>1 DEF SessOK, SessFields, NothingPending, Established
<1>11. (sess.tx_seq_nr + 1) % N = (console.base + (console.got + 1)) % N
  <2>1. PICK a : a = console.base + console.got
    OBVIOUS
  <2>2. a \in Nat /\ console.base + (console.got + 1) = a + 1
    BY <1>2, <1>8, <2>1, AtLeastTwo DEF ConsoleOK
  <2>3. ((a % N) + 1) % N = (a + 1) % N
    BY ONLY <2>2, SequenceNumbers
  <2>4. sess.tx_seq_nr = a % N
    BY <1>3, <2>1 DEF Established
  <2> QED BY <2>2, <2>3, <2>4
<1>12. Established(sess', console', worker')
  <2>1. FirstSeq(console') = FirstSeq(console)
    BY <1>6 DEF FirstSeq, SameLoader
  <2> QED BY <1>3, <1>6, <1>7, <1>8, <1>10, <1>11, <2>1 DEF Established
<1>13. InOrder(console', queue, Carried(console', worker') - 1)
  <2>1. PICK from : from = Carried(console, worker) - 1
    OBVIOUS
  <2>2. InOrder(console, queue, from) /\ from = Carried(console', worker') - 1
    BY <1>3, <1>7, <2>1
  <2>3. \A i \in 1 .. Len(queue) : from <= queue[i].n
    BY <2>2 DEF InOrder
  <2>4. InOrder(console', queue, from)
    BY <1>6, <1>8, <2>2, <2>3, InOrderLater
  <2> QED BY <2>2, <2>4
<1>14. Progress(sess', console', queue', worker', timers')
  BY <1>1, <1>4, <1>6, <1>12, <1>13 DEF Progress
<1>15. ExecutedOK(console', worker', executed')
  BY <1>1, <1>2, <1>6, <1>7 DEF ExecutedOK, SameLoader
<1>16. WorkerOK(console', worker') /\ TimersOK(sess', timers')
  BY <1>1, <1>2, <1>4, <1>10 DEF WorkerOK, TimersOK
<1>17. sess'.rx_streaming /\ queue' \in Seq(Items)
  BY <1>1, <1>3, <1>10 DEF Established, NegotiationInv
<1> QED BY <1>1, <1>9, <1>10, <1>14, <1>15, <1>16, <1>17 DEF NegotiationInv

-----------------------------------------------------------------------------
(* The console.                                                             *)

LEMMA RequestIsOne ==
  ASSUME NEW c, NEW n \in Nat, ConsoleOK(c, sess.mode), n < c.sent
  PROVE  Request(c, n) \in Items /\ IsRequest(c, Request(c, n)) /\ Request(c, n).n = n
<1>1. FirstSeq(c) \in 0 .. N - 1 /\ c.id \in Nat
  BY AtLeastTwo, NextNumber, NegotiationAssumption DEF FirstSeq, First, ConsoleOK
<1>2. FirstSeq(c) + n \in Nat
  BY <1>1, AtLeastTwo
<1>3. (FirstSeq(c) + n) % N \in 0 .. N - 1
  BY ONLY <1>2, SequenceNumbers
<1>4. (FirstSeq(c) + n) % N \in Nat
  BY <1>3, AtLeastTwo
<1>5. Request(c, n) = [seq |-> (FirstSeq(c) + n) % N, id |-> c.id, n |-> n]
  BY DEF Request, FirstSeq
<1>6. Request(c, n) \in Items
  BY <1>1, <1>4, <1>5 DEF Items
<1> QED BY <1>5, <1>6 DEF IsRequest

LEMMA ResendStep ==
  ASSUME NegotiationInv, Resend
  PROVE  NegotiationInv' /\ executed' = executed /\ (sess.handles => sess'.handles)
<1>1. /\ console.sent > console.got /\ queue' = Append(queue, Request(console, console.got))
      /\ sess' = sess /\ timers' = timers /\ worker' = worker /\ console' = console /\ executed' = executed
  BY DEF Resend
<1>2. ConsoleOK(console, sess.mode) /\ queue \in Seq(Items) /\ Progress(sess, console, queue, worker, timers)
  BY DEF NegotiationInv
<1>3. console.at = "run" /\ console.got \in Nat /\ console.sent \in Nat /\ console.got = console.sent - 1
  BY <1>1, <1>2 DEF ConsoleOK
<1>4. PICK m : m = Request(console, console.got)
  OBVIOUS
<1>5. m \in Items /\ IsRequest(console, m) /\ m.n = console.got
  BY <1>1, <1>2, <1>3, <1>4, RequestIsOne
<1>6. queue' = Append(queue, m)
  BY <1>1, <1>4
<1>7. ASSUME NEW from, InOrder(console, queue, from), from <= console.got
      PROVE  queue' \in Seq(Items) /\ InOrder(console, queue', from)
  <2>1. from <= m.n /\ m.n = console.sent - 1
    BY <1>3, <1>5, <1>7
  <2> QED BY <1>2, <1>3, <1>5, <1>6, <1>7, <2>1, InOrderAppend
<1>8. ASSUME console.got = 0, InOrder(console, queue, 0)
      PROVE  queue' \in Seq(Items) /\ InOrder(console, queue', 0)
  BY <1>7, <1>8
<1>9. ASSUME InOrder(console, queue, Carried(console, worker) - 1)
      PROVE  queue' \in Seq(Items) /\ InOrder(console, queue', Carried(console, worker) - 1)
  <2>1. Carried(console, worker) - 1 <= console.got
    BY <1>3 DEF Carried
  <2> QED BY <1>7, <1>9, <2>1
<1>10. ASSUME worker.at = "accept", Established(sess, console, worker), \A i \in 1 .. Len(queue) : worker.item.n <= queue[i].n
       PROVE  \A i \in 1 .. Len(queue') : worker.item.n <= queue'[i].n
  <2>1. worker.item.n <= m.n
    BY <1>3, <1>5, <1>10, NextOrLast
  <2>2. \A i \in 1 .. Len(queue') : (i \in 1 .. Len(queue) /\ queue'[i] = queue[i]) \/ queue'[i] = m
    BY <1>2, <1>5, <1>6
  <2> QED BY <1>10, <2>1, <2>2
<1>11. queue' \in Seq(Items) /\ Progress(sess', console', queue', worker', timers')
  BY <1>1, <1>2, <1>3, <1>8, <1>9, <1>10 DEF Progress
<1> QED BY <1>1, <1>11 DEF NegotiationInv

LEMMA SendStep ==
  ASSUME NegotiationInv, Send
  PROVE  NegotiationInv' /\ executed' = executed /\ (sess.handles => sess'.handles)
<1>1. /\ console.at # "start" /\ console.sent = console.got /\ console.sent < MaxRequests
      /\ console' = [console EXCEPT !.sent = @ + 1, !.at = "run"]
      /\ queue' = Append(queue, Request(console, console.sent)) \/ queue' = queue
      /\ sess' = sess /\ timers' = timers /\ worker' = worker /\ executed' = executed
  BY DEF Send
<1>2. /\ ConsoleOK(console, sess.mode) /\ queue \in Seq(Items) /\ Progress(sess, console, queue, worker, timers)
      /\ WorkerOK(console, worker) /\ ExecutedOK(console, worker, executed)
  BY DEF NegotiationInv
<1>3. console.sent \in Nat /\ console.sent + 1 \in 0 .. MaxRequests /\ MaxRequests \in Nat
  BY <1>1, <1>2, NegotiationAssumption DEF ConsoleOK
<1>4. /\ DOMAIN console' = ConsoleFields /\ SameLoader(console, console') /\ console'.at = "run"
      /\ console'.sent = console.sent + 1 /\ console'.got = console.got /\ console'.base = console.base
      /\ console'.picky = console.picky
  BY <1>1, <1>2 DEF ConsoleOK, ConsoleFields, SameLoader
<1>5. ConsoleOK(console', sess.mode)
  BY <1>1, <1>2, <1>3, <1>4 DEF ConsoleOK, SameLoader
<1>6. PICK m : m = Request(console, console.sent)
  OBVIOUS
<1>7. m \in Items /\ IsRequest(console', m) /\ m.n = console.sent
  <2>1. m = Request(console', console.sent)
    BY <1>4, <1>6 DEF Request, SameLoader
  <2>2. console.sent < console'.sent
    BY <1>3, <1>4
  <2> QED BY <1>3, <1>5, <2>1, <2>2, RequestIsOne
<1>8. FirstSeq(console') = FirstSeq(console) /\ Carried(console', worker) = Carried(console, worker)
  BY <1>4 DEF FirstSeq, SameLoader, Carried
<1>9. ASSUME NEW from, InOrder(console, queue, from), from <= console.sent
      PROVE  queue' \in Seq(Items) /\ InOrder(console', queue', from)
  <2>1. \A i \in 1 .. Len(queue) : from <= queue[i].n
    BY <1>9 DEF InOrder
  <2>2. InOrder(console', queue, from)
    BY <1>3, <1>4, <1>9, <2>1, InOrderLater
  <2>3. from <= m.n /\ m.n = console'.sent - 1 /\ console'.sent \in Nat
    BY <1>3, <1>4, <1>7, <1>9
  <2>4. Append(queue, m) \in Seq(Items) /\ InOrder(console', Append(queue, m), from)
    BY <1>2, <1>7, <2>2, <2>3, InOrderAppend
  <2> QED BY <1>1, <1>2, <1>6, <2>2, <2>4
<1>10. WorkerOK(console', worker')
  <2>1. worker.at # "idle" => IsRequest(console', worker.item)
    BY <1>2, <1>3, <1>4, <1>8 DEF WorkerOK, IsRequest, SameLoader
  <2> QED BY <1>1, <1>2, <1>4, <2>1 DEF WorkerOK
<1>11. ExecutedOK(console', worker', executed')
  BY <1>1, <1>2, <1>4, <1>8 DEF ExecutedOK, SameLoader
<1>12. CASE console.at = "informed"
  <2>1. Ready(sess, console) /\ queue = <<>> /\ worker.at = "idle" /\ console.got = 0 /\ console.sent = 0
    BY <1>12, Silent
  <2>2. Ready(sess, console')
    BY <1>4, <1>8, <2>1 DEF Ready, LeftOver, WillTell, Aligned, SameLoader
  <2>3. InOrder(console, queue, 0)
    <3>1. Len(queue) = 0
      BY <2>1
    <3> QED BY <3>1 DEF InOrder
  <2>4. queue' \in Seq(Items) /\ InOrder(console', queue', 0)
    BY <1>9, <2>1, <2>3
  <2>5. Progress(sess', console', queue', worker', timers')
    BY <1>1, <1>4, <2>1, <2>2, <2>4 DEF Progress
  <2> QED BY <1>1, <1>5, <1>10, <1>11, <2>4, <2>5 DEF NegotiationInv
<1>13. CASE console.at = "run"
  <2>1. console.got # 0 /\ console.got \in Nat
    BY <1>1, <1>2, <1>13 DEF ConsoleOK
  <2>2. /\ Established(sess, console, worker) /\ InOrder(console, queue, Carried(console, worker) - 1)
        /\ worker.at = "accept" => /\ worker.item.n >= console.got - 1
                                   /\ \A i \in 1 .. Len(queue) : worker.item.n <= queue[i].n
    BY <1>2, <1>13, <2>1 DEF Progress
  <2>3. Carried(console, worker) = console.got
    BY <1>1, <2>1, <2>2 DEF Established, Carried
  <2>4. queue' \in Seq(Items) /\ InOrder(console', queue', Carried(console', worker) - 1)
    <3>1. PICK from : from = Carried(console, worker) - 1
      OBVIOUS
    <3>2. InOrder(console, queue, from) /\ from <= console.sent
      BY <1>1, <2>1, <2>2, <2>3, <3>1
    <3> QED BY <1>8, <1>9, <3>1, <3>2
  <2>5. Established(sess', console', worker')
    BY <1>1, <1>3, <1>4, <1>8, <2>2, <2>3 DEF Established
  <2>6. ASSUME worker.at = "accept" PROVE \A i \in 1 .. Len(queue') : worker.item.n <= queue'[i].n
    <3>1. worker.item.n <= m.n
      BY <1>1, <1>7, <2>1, <2>2, <2>6, NextOrLast
    <3>2. \A i \in 1 .. Len(queue') : (i \in 1 .. Len(queue) /\ queue'[i] = queue[i]) \/ queue'[i] = m
      BY <1>1, <1>2, <1>6, <1>7
    <3> QED BY <2>2, <2>6, <3>1, <3>2
  <2>7. Progress(sess', console', queue', worker', timers')
    BY <1>1, <1>4, <2>2, <2>4, <2>5, <2>6 DEF Progress
  <2> QED BY <1>1, <1>5, <1>10, <1>11, <2>4, <2>7 DEF NegotiationInv
<1> QED BY <1>1, <1>2, <1>12, <1>13 DEF ConsoleOK

LEMMA ReplaceStep ==
  ASSUME NegotiationInv, Replace
  PROVE  NegotiationInv' /\ executed' = executed /\ (sess.handles => sess'.handles)
<1>1. /\ console.id < MaxConsoles /\ queue = <<>> /\ worker.at = "idle" /\ timers = {}
      /\ sess' = [sess EXCEPT !.last_disc = NONE]
      /\ timers' = timers /\ queue' = queue /\ worker' = worker /\ executed' = executed
  BY DEF Replace
<1>2. /\ ConsoleOK(console, sess.mode) /\ SessOK(sess) /\ Progress(sess, console, queue, worker, timers)
      /\ WorkerOK(console, worker) /\ ExecutedOK(console, worker, executed)
  BY DEF NegotiationInv
<1>3. PICK k \in Loaders : \E d \in Numbers(k) : \E at \in {"start", "informed"} :
        /\ sess.rx_streaming => First(k, d) # sess.rx_expected
        /\ at = "informed" => /\ k = "standard" /\ console.got > 0
                              /\ First(k, d) # (sess.rx_expected - 1) % N
        /\ console' = [id |-> console.id + 1, kind |-> k, disc |-> d, at |-> at,
                       sent |-> 0, got |-> 0, base |-> Base(k), picky |-> FALSE]
  BY DEF Replace
<1>3a. PICK d \in Numbers(k), at \in {"start", "informed"} :
        /\ sess.rx_streaming => First(k, d) # sess.rx_expected
        /\ at = "informed" => /\ k = "standard" /\ console.got > 0
                              /\ First(k, d) # (sess.rx_expected - 1) % N
        /\ console' = [id |-> console.id + 1, kind |-> k, disc |-> d, at |-> at,
                       sent |-> 0, got |-> 0, base |-> Base(k), picky |-> FALSE]
  BY <1>3
<1>4. /\ DOMAIN console' = ConsoleFields /\ console'.id = console.id + 1 /\ console'.kind = k /\ console'.disc = d
      /\ console'.at = at /\ console'.sent = 0 /\ console'.got = 0 /\ console'.base = Base(k) /\ console'.picky = FALSE
  BY <1>3a DEF ConsoleFields
<1>5. /\ SessOK(sess') /\ sess'.mode = sess.mode /\ sess'.profile = sess.profile
      /\ sess'.rx_expected = sess.rx_expected /\ sess'.tx_seq_nr = sess.tx_seq_nr
      /\ sess'.rx_streaming = sess.rx_streaming /\ sess'.fallback_sent = sess.fallback_sent
      /\ sess'.pending_zero = sess.pending_zero /\ sess'.pending_discovery = sess.pending_discovery
      /\ sess'.handles = sess.handles /\ sess'.last_disc = NONE
  BY <1>1, <1>2 DEF SessOK, SessFields
<1>6. /\ k \in {"standard", "modulo"} /\ (sess.mode # "auto" => k = sess.mode)
      /\ d \in 0 .. N - 1 /\ (k = "standard" => d = 0)
  BY <1>2, AtLeastTwo, NegotiationAssumption DEF Loaders, Numbers, protocol_mode, SessOK
<1>7. ConsoleOK(console', sess.mode)
  <2>1. console.id + 1 \in 1 .. MaxConsoles
    BY <1>1, <1>2, NegotiationAssumption DEF ConsoleOK
  <2>2. Base(k) \in 0 .. N - 1
    BY AtLeastTwo DEF Base
  <2>3. 0 \in 0 .. MaxRequests
    BY NegotiationAssumption, AtLeastTwo
  <2> QED BY <1>4, <1>6, <2>1, <2>2, <2>3 DEF ConsoleOK
<1>8. ExecutedOK(console', worker', executed')
  <2>1. console.id \in Nat
    BY <1>2, NegotiationAssumption DEF ConsoleOK
  <2>2. \A i \in 1 .. MaxConsoles : i >= console.id + 1 => i > console.id
    BY <2>1, NegotiationAssumption
  <2>3. \A i \in 1 .. MaxConsoles : i > console'.id \/ i = console'.id => i > console.id
    BY <1>4, <2>1, NegotiationAssumption
  <2> QED BY <1>1, <1>2, <2>3 DEF ExecutedOK
<1>9. WorkerOK(console', worker') /\ TimersOK(sess', timers')
  BY <1>1, <1>2 DEF WorkerOK, TimersOK
<1>10. FirstSeq(console') = First(k, d)
  BY <1>4 DEF FirstSeq
<1>11. \/ FreshSession(sess)
       \/ sess.rx_streaming /\ sess.profile # "pending" /\ sess.mode # "modulo"
       \/ sess.mode = "modulo"
  BY <1>1, <1>2 DEF Progress, Starting, Ready, LeftOver, ModuloSession, Established, SessOK
<1>12. sess.mode = "modulo" => ModuloSession(sess)
  BY <1>1, <1>2 DEF Progress, Starting, Ready, LeftOver, FreshSession, Established, ModuloSession
<1>13. console.got > 0 => Established(sess, console, worker)
  BY <1>1, <1>2 DEF Progress, ConsoleOK
<1>14. Progress(sess', console', queue', worker', timers')
  <2>1. CASE sess.mode = "modulo"
    <3>1. at = "start" /\ d # NONE
      BY <1>3a, <1>6, <2>1, AtLeastTwo DEF NONE
    <3>2. ModuloSession(sess')
      BY <1>5, <1>12, <2>1 DEF ModuloSession, NothingPending
    <3>3. Starting(sess', console', timers')
      BY <1>4, <1>5, <3>1, <3>2 DEF Starting
    <3> QED BY <1>1, <1>4, <3>1, <3>3 DEF Progress
  <2>2. CASE FreshSession(sess)
    <3>1. FreshSession(sess')
      BY <1>5, <2>2 DEF FreshSession, NothingPending
    <3>2. at = "start"
      BY <1>2, <1>3a, <1>13, <2>2 DEF FreshSession, Established
    <3>3. Starting(sess', console', timers')
      BY <1>1, <3>1 DEF Starting
    <3> QED BY <1>1, <1>4, <3>2, <3>3 DEF Progress
  <2>3. CASE sess.rx_streaming /\ sess.profile # "pending" /\ sess.mode # "modulo"
    <3>1. LeftOver(sess', console')
      BY <1>3a, <1>4, <1>5, <1>10, <2>3 DEF LeftOver
    <3>2. CASE at = "start"
      BY <1>1, <1>4, <3>1, <3>2 DEF Progress, Starting
    <3>3. CASE at = "informed"
      <4>1. NothingPending(sess')
        BY <1>3a, <1>5, <1>13, <3>3 DEF Established, NothingPending
      <4>2. k = "standard" /\ (sess'.rx_expected - 1) % N # 0
        BY <1>3a, <1>5, <3>3 DEF First
      <4>3. Ready(sess', console')
        BY <1>4, <3>1, <4>1, <4>2 DEF Ready, WillTell
      <4> QED BY <1>1, <1>4, <3>3, <4>3 DEF Progress
    <3> QED BY <3>2, <3>3
  <2> QED BY <1>11, <2>1, <2>2, <2>3
<1>15. sess'.handles => sess'.rx_streaming
  BY <1>1, <1>5 DEF NegotiationInv
<1>16. queue' \in Seq(Items)
  BY <1>1 DEF NegotiationInv
<1> QED BY <1>1, <1>5, <1>7, <1>8, <1>9, <1>14, <1>15, <1>16 DEF NegotiationInv

-----------------------------------------------------------------------------
(* The theorems.                                                            *)

LEMMA InitNegotiation == Init => NegotiationInv
<1> SUFFICES ASSUME Init PROVE NegotiationInv
  OBVIOUS
<1>1. PICK mode \in Modes :
        sess = [mode |-> mode, profile |-> Pending(mode), discovery_sequence |-> 0, tx_seq_nr |-> 0, rx_expected |-> 0,
                rx_streaming |-> FALSE, generation |-> 0, fallback_sent |-> FALSE,
                first_data_seen |-> FALSE, pending_zero |-> FALSE, pending_discovery |-> NONE,
                last_disc |-> NONE, handles |-> FALSE]
  BY DEF Init
<1>2. /\ DOMAIN sess = SessFields /\ sess.mode = mode /\ sess.profile = Pending(mode) /\ sess.tx_seq_nr = 0
      /\ sess.rx_expected = 0 /\ sess.rx_streaming = FALSE /\ sess.generation = 0 /\ sess.fallback_sent = FALSE
      /\ sess.pending_zero = FALSE /\ sess.pending_discovery = NONE /\ sess.last_disc = NONE /\ sess.handles = FALSE
  BY <1>1 DEF SessFields
<1>3. PICK k \in Loaders : \E d \in Numbers(k) : \E picky \in IF k = "modulo" THEN BOOLEAN ELSE {FALSE} :
        console = [id |-> 1, kind |-> k, disc |-> d, at |-> "start", sent |-> 0, got |-> 0,
                   base |-> Base(k), picky |-> picky]
  BY Zenon DEF Init
<1>4. PICK d \in Numbers(k), picky \in IF k = "modulo" THEN BOOLEAN ELSE {FALSE} :
        console = [id |-> 1, kind |-> k, disc |-> d, at |-> "start", sent |-> 0, got |-> 0,
                   base |-> Base(k), picky |-> picky]
  BY <1>3
<1>5. /\ DOMAIN console = ConsoleFields /\ console.id = 1 /\ console.kind = k /\ console.disc = d
      /\ console.at = "start" /\ console.sent = 0 /\ console.got = 0 /\ console.base = Base(k)
  BY <1>4 DEF ConsoleFields
<1>6. /\ timers = {} /\ queue = <<>> /\ worker = [at |-> "idle", item |-> [seq |-> 0, id |-> 1, n |-> 0]]
      /\ executed = [i \in 1 .. MaxConsoles |-> [n \in 0 .. MaxRequests - 1 |-> 0]]
  BY DEF Init
<1>7. mode \in {"auto", "standard", "modulo"}
  BY NegotiationAssumption
<1>8. SessOK(sess)
  <2>1. 0 \in 0 .. N - 1 /\ 0 \in Nat
    BY AtLeastTwo
  <2> QED BY <1>2, <1>7, <2>1 DEF SessOK
<1>9. /\ k \in {"standard", "modulo"} /\ (sess.mode # "auto" => k = sess.mode)
      /\ d \in 0 .. N - 1 /\ (k = "standard" => d = 0)
  BY <1>2, <1>7, AtLeastTwo, NegotiationAssumption DEF Loaders, Numbers, protocol_mode
<1>10. ConsoleOK(console, sess.mode)
  <2>1. 1 \in 1 .. MaxConsoles /\ 0 \in 0 .. MaxRequests
    BY NegotiationAssumption, AtLeastTwo
  <2>2. Base(k) \in 0 .. N - 1
    BY AtLeastTwo DEF Base
  <2> QED BY <1>5, <1>9, <2>1, <2>2 DEF ConsoleOK
<1>11. Starting(sess, console, timers)
  <2>1. CASE mode = "modulo"
    <3>1. d # NONE
      BY <1>9, AtLeastTwo DEF NONE
    <3>2. ModuloSession(sess)
      BY <1>2, <2>1 DEF ModuloSession, Pending, NothingPending
    <3> QED BY <1>2, <1>5, <3>1, <3>2 DEF Starting
  <2>2. CASE mode # "modulo"
    <3>1. FreshSession(sess)
      BY <1>2, <2>2 DEF FreshSession, NothingPending
    <3> QED BY <1>6, <3>1 DEF Starting
  <2> QED BY <2>1, <2>2
<1>12. worker.at = "idle" /\ WorkerOK(console, worker)
  BY <1>6 DEF WorkerOK
<1>13. queue \in Seq(Items)
  BY <1>6
<1>14. ExecutedOK(console, worker, executed)
  BY <1>6 DEF ExecutedOK
<1> QED BY <1>2, <1>5, <1>6, <1>8, <1>10, <1>11, <1>12, <1>13, <1>14 DEF NegotiationInv, Progress, TimersOK

LEMMA StepNegotiation ==
  ASSUME ~Background, NegotiationInv, [Next]_vars
  PROVE  NegotiationInv' /\ (sess.handles => sess'.handles)
<1>1. CASE UNCHANGED vars
  BY <1>1 DEF vars, NegotiationInv
<1>2. CASE Discovery
  BY <1>2, DiscoveryStreamingStep, DiscoveryFreshStep, DiscoveryModuloStep, DiscoveryModuloAgainStep DEF Discovery
<1>3. ASSUME NEW g \in Generations, Fallback(g) PROVE NegotiationInv' /\ (sess.handles => sess'.handles)
  BY <1>3, FallbackStep
<1>4. CASE WorkerStep
  BY <1>4, HandleDataStep, RefuseStep, AcceptStep, ReplyStep DEF WorkerStep
<1>5. CASE Send \/ Resend \/ Replace
  BY <1>5, SendStep, ResendStep, ReplaceStep
<1>6. UNCHANGED vars \/ Discovery \/ (\E g \in Generations : Fallback(g)) \/ WorkerStep \/ (Send \/ Resend \/ Replace)
  BY Zenon DEF Next
<1> QED BY <1>1, <1>2, <1>3, <1>4, <1>5, <1>6

LEMMA OnceEach == NegotiationInv => AtMostOnce
<1> SUFFICES ASSUME NegotiationInv, NEW i \in 1 .. MaxConsoles, NEW n \in 0 .. MaxRequests - 1
             PROVE  executed[i][n] <= 1
  BY DEF AtMostOnce
<1>1. executed[i] \in [0 .. MaxRequests - 1 -> 0 .. 1]
  BY DEF NegotiationInv, ExecutedOK
<1>2. executed[i][n] \in 0 .. 1
  BY <1>1
<1>3. \A x \in 0 .. 1 : x <= 1
  OBVIOUS
<1> QED BY ONLY <1>2, <1>3

\* Session and console are in step before, during and after the first request of every console
\* (_handle_discovery, _handle_data and send_later of AutoUdpfsServer), in each mode of the
\* server. The hypothesis is the one under which it is true: a console does not send DISCOVERY
\* once it runs, else one handled between a decision and its request resets what was decided.
THEOREM NegotiationInvariant ==
  ASSUME ~Background
  PROVE  Spec => []NegotiationInv
<1>1. NegotiationInv /\ [Next]_vars => NegotiationInv'
  BY StepNegotiation
<1> QED BY <1>1, InitNegotiation, PTL DEF Spec

\* Every reply has the number its console waits for: the delayed INFORM takes a number of a
\* Modulo session's sequence and none of a Standard one's (_handle_data, send_later).
THEOREM RepliesNumbered ==
  ASSUME ~Background
  PROVE  Spec => []NumberedAsExpected
<1>1. NegotiationInv => NumberedAsExpected
  BY DEF NegotiationInv, Progress, Established, NumberedAsExpected, NextReply
<1> QED BY <1>1, NegotiationInvariant, PTL

\* No request is carried out twice and no files are closed under a console or the loader that
\* takes over from it (_reset_session_state, _handle_data).
THEOREM FilesHandedOver ==
  ASSUME ~Background
  PROVE  Spec => HandedOver
<1>1. NegotiationInv /\ [Next]_vars => (sess.handles => sess'.handles)
  BY StepNegotiation
<1> QED BY <1>1, OnceEach, NegotiationInvariant, PTL DEF Spec, HandedOver

=============================================================================
