------------------------------ MODULE RaSession ------------------------------
(***************************************************************************)
(* The launcher's view of the achievement engine (ra_session.py,               *)
(* ra_notifications.py): a thread fetches the engine's /state, SessionTracker  *)
(* decides whether a game is being played and UnlockTracker which unlocks are   *)
(* new; the window's timer turns the thread on and off with the server and      *)
(* takes the unlocks.                                                         *)
(*                                                                         *)
(* An engine run has a number; games and unlock IDs are small sets. The engine  *)
(* itself is modelled from the fields the code reads.                          *)
(***************************************************************************)
EXTENDS Integers, Sequences, FiniteSets, SequencesExt

CONSTANTS
  Games,          \* the games the console may run
  UnlockIds,      \* the achievements
  MaxPackets,     \* packets the console sends to one engine run (a bound)
  MaxEngineRuns,  \* runs of the engine (a bound)
  ThreadSees,     \* whether the thread, too, sees a stop before the next start
  UNLOCKS_KEPT    \* 8

ASSUME SessionAssumption == {MaxPackets, MaxEngineRuns, UNLOCKS_KEPT} \subseteq Nat /\ ThreadSees \in BOOLEAN

VARIABLES
  engine,    \* [run, connected, packets, game, ring]
  engineRuns,
  track,     \* SessionTracker: [packets, advanced, session, active]
  unlocked,  \* UnlockTracker: [session, seen]
  mon,       \* SessionPoller: [enabled, was, at, got, result, unlocks]
  told       \* unlocks the window was given

raSessionVars == <<engine, engineRuns, track, unlocked, mon, told>>

NoGame == "none"
OffEngine == [run |-> 0, connected |-> FALSE, packets |-> 0, game |-> NoGame, ring |-> {}]
NewTrack(n) == [packets |-> -1, advanced |-> FALSE, session |-> n, active |-> NoGame]
NewUnlocked == [session |-> 0, seen |-> {}]
Stopped == [state |-> "stopped", game |-> NoGame, session |-> 0]

-----------------------------------------------------------------------------
\* SessionTracker.observe: [t |-> the tracker, r |-> the result]. The clock's part, telemetry
\* that has stalled, is the choice `stalled`.
Seen(t, r) == [t |-> t, r |-> r]
Plain(state) == [state |-> state, game |-> NoGame, session |-> 0]

Observe(T, e, stalled) ==
  IF e.run = 0 THEN Seen(NewTrack(T.session), Plain("unreachable"))
  ELSE IF ~e.connected THEN Seen(NewTrack(T.session), Plain("listening"))
  ELSE LET advanced == T.packets # -1 /\ e.packets > T.packets
           U == [T EXCEPT !.packets = e.packets,
                          !.advanced = IF advanced THEN TRUE ELSE IF T.packets # -1 /\ e.packets < T.packets THEN FALSE ELSE @]
           idle == [U EXCEPT !.active = NoGame] IN
    IF U.advanced /\ ~advanced /\ stalled THEN Seen(idle, Plain("stalled"))
    ELSE IF ~U.advanced \/ e.game = NoGame THEN Seen(idle, Plain("connected"))
    ELSE IF e.game # U.active /\ ~advanced THEN Seen(idle, Plain("connected"))
    ELSE LET n == IF e.game # U.active THEN U.session + 1 ELSE U.session IN
         Seen([U EXCEPT !.active = e.game, !.session = n], [state |-> "playing", game |-> e.game, session |-> n])

\* Mutant: the engine's history is told as new when a session begins.
FreshHistory(N, e, r) ==
  IF r.state # "playing" THEN [n |-> NewUnlocked, new |-> {}]
  ELSE [n |-> [session |-> r.session, seen |-> N.seen \cup e.ring], new |-> e.ring \ N.seen]

\* UnlockTracker.observe: the first look at a session is the baseline. Of the new ones, those
\* that are `young` enough are told.
Fresh(N, e, r) ==
  IF r.state # "playing" THEN [n |-> NewUnlocked, new |-> {}]
  ELSE IF r.session # N.session THEN [n |-> [session |-> r.session, seen |-> e.ring], new |-> {}]
  ELSE [n |-> [N EXCEPT !.seen = @ \cup e.ring], new |-> e.ring \ N.seen]

-----------------------------------------------------------------------------
\* SessionPoller._run: pause, fetch, or publish what was fetched.
Pause ==
  /\ mon.at = "top" /\ ~mon.enabled
  /\ IF mon.was
     THEN /\ track' = NewTrack(track.session) /\ unlocked' = NewUnlocked
          /\ mon' = [mon EXCEPT !.was = FALSE, !.unlocks = <<>>, !.result = Stopped]
     ELSE UNCHANGED <<track, unlocked, mon>>
  /\ UNCHANGED <<engine, engineRuns, told>>

Fetch ==
  /\ mon.at = "top" /\ mon.enabled
  /\ \E e \in {engine, OffEngine} : mon' = [mon EXCEPT !.was = TRUE, !.at = "read", !.got = e]
  /\ UNCHANGED <<engine, engineRuns, track, unlocked, told>>

Newest(u) == IF Len(u) <= UNLOCKS_KEPT THEN u ELSE SubSeq(u, Len(u) - UNLOCKS_KEPT + 1, Len(u))

\* The unlocks of a stopped service are not published; the newest are kept.
Publishing(ids, r) ==
  IF mon.enabled
  THEN [mon EXCEPT !.at = "top", !.got = OffEngine, !.result = r, !.unlocks = Newest(@ \o ids)]
  ELSE [mon EXCEPT !.at = "top", !.got = OffEngine]

PublishState ==
  /\ mon.at = "read"
  /\ \E stalled \in BOOLEAN :
       LET s == Observe(track, mon.got, stalled)
           f == Fresh(unlocked, mon.got, s.r) IN
       /\ track' = s.t /\ unlocked' = f.n
       /\ \E young \in SUBSET f.new :
            mon' = Publishing(SetToSeq({[id |-> i, run |-> mon.got.run] : i \in young}), s.r)
  /\ UNCHANGED <<engine, engineRuns, told>>

\* The window's timer: set_running with whether the server runs, then take_unlocks.
WindowTick ==
  /\ LET on == engine.run # 0 IN
     /\ mon' = [mon EXCEPT !.enabled = on, !.unlocks = <<>>]
     /\ told' = IF on THEN told \o [i \in DOMAIN mon.unlocks |-> [id |-> mon.unlocks[i].id, run |-> mon.unlocks[i].run, now |-> engine.run]] ELSE told
  /\ UNCHANGED <<engine, engineRuns, track, unlocked>>

-----------------------------------------------------------------------------
\* The engine and the console behind it. The window's timer sees a run end before the
\* user starts the next one; with ThreadSees the thread has seen it as well.
EngineStarts ==
  /\ engine.run = 0 /\ engineRuns < MaxEngineRuns /\ ~mon.enabled
  /\ ThreadSees => ~mon.was /\ mon.at = "top"
  /\ engineRuns' = engineRuns + 1
  /\ engine' = [OffEngine EXCEPT !.run = engineRuns + 1]
  /\ UNCHANGED <<track, unlocked, mon, told>>

EngineEnds ==
  /\ engine.run # 0 /\ engine' = OffEngine
  /\ UNCHANGED <<engineRuns, track, unlocked, mon, told>>

ConsoleSends ==
  /\ engine.run # 0 /\ engine.packets < MaxPackets
  /\ engine' = [engine EXCEPT !.connected = TRUE, !.packets = @ + 1]
  /\ UNCHANGED <<engineRuns, track, unlocked, mon, told>>

EngineLoads ==
  /\ engine.connected
  /\ \E g \in Games \cup {NoGame} : g # engine.game /\ engine' = [engine EXCEPT !.game = g]
  /\ UNCHANGED <<engineRuns, track, unlocked, mon, told>>

EngineUnlocks ==
  /\ engine.game # NoGame
  /\ \E i \in UnlockIds : i \notin engine.ring /\ engine' = [engine EXCEPT !.ring = @ \cup {i}]
  /\ UNCHANGED <<engineRuns, track, unlocked, mon, told>>

ConsoleLeaves ==
  /\ engine.connected /\ engine' = [engine EXCEPT !.connected = FALSE, !.game = NoGame]
  /\ UNCHANGED <<engineRuns, track, unlocked, mon, told>>

RaSessionInit ==
  /\ engine = OffEngine /\ engineRuns = 0
  /\ track = NewTrack(0) /\ unlocked = NewUnlocked /\ told = <<>>
  /\ mon = [enabled |-> FALSE, was |-> FALSE, at |-> "top", got |-> OffEngine, result |-> Stopped, unlocks |-> <<>>]

RaSessionNext == Pause \/ Fetch \/ PublishState \/ WindowTick \/ EngineStarts \/ EngineEnds \/ ConsoleSends \/ EngineLoads \/ EngineUnlocks \/ ConsoleLeaves

RaSessionSpec == RaSessionInit /\ [][RaSessionNext]_raSessionVars

-----------------------------------------------------------------------------
\* An unlock is told at most once per engine run, whatever the polls, pauses and game
\* changes between its looks at the engine's ring.
ToldOnce == \A i, j \in DOMAIN told : i # j => [told[i] EXCEPT !.now = 0] # [told[j] EXCEPT !.now = 0]

-----------------------------------------------------------------------------
(* What the code or its comments lead one to expect and the code does not  *)
(* do (README, Observations). No run checks these.                          *)

\* The window is told of an unlock only while the engine run that unlocked it is the one
\* running. ("A stop during an in-flight HTTP read must never publish stale unlocks into
\* the subsequent service session")
UnlocksOfThisRun == \A i \in DOMAIN told : told[i].run = told[i].now

=============================================================================
