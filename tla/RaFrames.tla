------------------------------ MODULE RaFrames ------------------------------
(***************************************************************************)
(* The memory snapshots a console sends for its achievements: RA15 datagrams   *)
(* over UDP, put together by SnapshotAssembler (ra_protocol.py) and evaluated    *)
(* frame by frame by Evaluator (ra_evaluator.py). A frame's sequence number is    *)
(* taken modulo SeqModulus, so old and new are told apart by distance.            *)
(*                                                                           *)
(* The model numbers the console's frames absolutely (n); the code sees q only.   *)
(* The bytes of a part are its frame's n: any two frames differ.                  *)
(***************************************************************************)
EXTENDS Integers, FiniteSets

CONSTANTS
  SeqModulus,    \* SEQUENCE_MODULUS
  MaxParts,      \* MAX_PARTS
  MaxFrames,     \* bound on the frames the console sends: fewer than can be told apart
  MaxLate,       \* how many frames a datagram can be late
  RaIds,         \* achievement IDs of the set
  RaRestarts     \* whether the console may start again at sequence 0

ASSUME RaFramesAssumption ==
  /\ SeqModulus \in Nat \ {0, 1} /\ MaxParts \in Nat \ {0} /\ MaxFrames \in Nat
  /\ 2 * MaxFrames < SeqModulus /\ MaxLate \in Nat /\ RaRestarts \in BOOLEAN

VARIABLES
  con,   \* the console: its frame and the sequence number of it
  air,   \* the datagrams on their way
  asm,   \* SnapshotAssembler
  evl    \* Evaluator, with the frame it saw last and what it told of it

frameVars == <<con, air, asm, evl>>

Ahead(to, from) == (to - from) % SeqModulus
Half == SeqModulus \div 2

NewAssembler == [seq |-> -1, parts |-> 0, got |-> {}, blocked |-> FALSE, completed |-> FALSE, stale |-> FALSE]

FramesInit ==
  /\ \E q \in {0, SeqModulus - 2} : con = [n |-> 0, q |-> q, parts |-> 0, silent |-> FALSE]
  /\ air = {} /\ asm = NewAssembler
  /\ evl = [seq |-> -1, hist |-> 0, triggered |-> {}, twice |-> FALSE, last |-> [n |-> 0, prev |-> 0, whole |-> TRUE, taken |-> TRUE]]

-----------------------------------------------------------------------------
(* The console and the network; modelled from the replies the code expects.   *)

\* The datagrams of a frame, as parse_snapshot reads them; a malformed one is refused there.
Parts(n, q, parts) == {[n |-> n, q |-> q, part |-> i, parts |-> parts] : i \in 1..parts}

\* A frame goes out in one or more parts.
SendFrame ==
  /\ con.n < MaxFrames
  /\ \E parts \in 1..MaxParts, again \in {FALSE} \cup {RaRestarts /\ con.silent} :
       LET q == IF again THEN 0 ELSE (con.q + 1) % SeqModulus
       IN  /\ con' = [n |-> con.n + 1, q |-> q, parts |-> parts, silent |-> FALSE]
           /\ air' = {p \in air : con.n + 1 - p.n <= MaxLate} \cup Parts(con.n + 1, q, parts)
  /\ UNCHANGED <<asm, evl>>

\* No new part for `timeout`: the assembler will start again. Nothing is on its way by then.
Silence ==
  /\ asm.seq # -1 /\ ~asm.stale
  /\ asm' = [asm EXCEPT !.stale = TRUE]
  /\ con' = [con EXCEPT !.silent = TRUE]
  /\ air' = {}
  /\ UNCHANGED evl

-----------------------------------------------------------------------------
(* SnapshotAssembler.feed                                                    *)

Block(A) == [A EXCEPT !.blocked = TRUE, !.got = {}]

\* A part ahead of the frame in assembly starts its own frame. (seq = -1: none yet)
Starts(A, p) ==
  IF A.seq = -1 \/ Ahead(p.q, A.seq) \in 1..(Half - 1)
  THEN [A EXCEPT !.seq = p.q, !.parts = p.parts, !.got = {}, !.blocked = FALSE, !.completed = FALSE] ELSE A

\* A part that contradicts what was received blocks the frame; a repeated one is no sign of life.
Adds(A, p) ==
  IF p.parts # A.parts \/ \E g \in A.got : g.part = p.part /\ g.n # p.n THEN Block(A)
  ELSE LET got == A.got \cup {[part |-> p.part, n |-> p.n]}
       IN  [A EXCEPT !.got = got, !.stale = @ /\ got = A.got]

\* The assembler after a datagram, with its parts of the frame still in `got`.
Fed(A, p) ==
  LET fresh == IF A.stale THEN NewAssembler ELSE A
      B == Starts(fresh, p)
  IN  IF B.seq # p.q \/ B.blocked \/ B.completed THEN B ELSE Adds(B, p)

Complete(A) == ~A.completed /\ ~A.blocked /\ A.parts > 0 /\ Cardinality(A.got) = A.parts

-----------------------------------------------------------------------------
(* Evaluator.evaluate                                                        *)

\* Mutant: a gap leaves the conditions as they are.
HistoryKept(E, q) == E.hist

\* What the conditions remember: a frame that is not the next one starts them afresh.
History(E, q) == IF E.seq # -1 /\ Ahead(q, E.seq) # 1 THEN 0 ELSE E.hist

\* Those already triggered are not activated again, and not told again.
Triggers(E, ids) == ids \ E.triggered

\* One complete frame. Memory the frame lacks rejects it and starts the conditions afresh.
Evaluated(E, n, q, whole, ids, missing) ==
  IF E.seq # -1 /\ Ahead(q, E.seq) \notin 1..(Half - 1)
  THEN [E EXCEPT !.last = [n |-> n, prev |-> 0, whole |-> whole, taken |-> FALSE]]
  ELSE IF missing
  THEN [E EXCEPT !.seq = q, !.hist = 0, !.last = [n |-> n, prev |-> 0, whole |-> whole, taken |-> TRUE]]
  ELSE LET told == Triggers(E, ids)
       IN  [E EXCEPT !.seq = q, !.hist = n, !.triggered = @ \cup told, !.twice = @ \/ told \cap E.triggered # {},
                     !.last = [n |-> n, prev |-> History(E, q), whole |-> whole, taken |-> TRUE]]

\* EvaluatedReceiver.receive, for a RA15 datagram; the network may deliver it again.
ReceivePart ==
  \E p \in air, again \in BOOLEAN :
    LET A == Fed(asm, p)
    IN  /\ air' = IF again THEN air ELSE air \ {p}
        /\ IF Complete(A)
           THEN /\ asm' = [A EXCEPT !.completed = TRUE, !.got = {}]
                /\ \E ids \in SUBSET RaIds, missing \in BOOLEAN :
                     evl' = Evaluated(evl, p.n, p.q, \A g \in A.got : g.n = p.n, ids, missing)
           ELSE asm' = A /\ UNCHANGED evl
        /\ UNCHANGED con

FramesNext ==
  \/ SendFrame
  \/ Silence
  \/ ReceivePart

FramesSpec == FramesInit /\ [][FramesNext]_frameVars

-----------------------------------------------------------------------------
(* Properties.                                                               *)

\* A frame is evaluated only when every byte of it is of one snapshot of the console's
\* memory. ("without mixed-frame values")
FrameWhole == evl.last.whole

\* A condition that compares with the frame before compares with the frame before: what it
\* remembers is of frame n - 1, or it remembers nothing. ("skipped sequence numbers reset temporal evaluation")
HistoryContiguous == evl.last.prev \in {0, evl.last.n - 1}

\* An achievement is told once per set, however often its conditions are started afresh.
UnlockedOnce == ~evl.twice

\* An achievement is judged by the game as it was played: whole frames, in an unbroken row,
\* each unlock once.
EvaluatedAsPlayed == FrameWhole /\ HistoryContiguous /\ UnlockedOnce

-----------------------------------------------------------------------------
(* What the code or its comments lead one to expect and the code does not  *)
(* do (README, Observations). No run checks these.                          *)

\* A console that starts again after the silence is evaluated again.
\* ("A timeout permits the same console to restart its sequence", ra_protocol.py)
RestartEvaluated == evl.last.taken

=============================================================================
