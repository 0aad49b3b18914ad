------------------------- MODULE UdpfsSessionsProofs -------------------------
(***************************************************************************)
(* Proofs about UdpfsSessions for any number of consoles and sessions. The  *)
(* table invariants need to know what a session is before its creation      *)
(* (Unborn), that the sentinel is only in the queue of a session that was   *)
(* told to stop (Sentinels), and what the main thread has done when it       *)
(* holds a datagram or is stopping (MainThread).                             *)
(***************************************************************************)
EXTENDS UdpfsSessions, TLAPS

Unborn ==
  \A s \in Ids : s > created => /\ worker[s] = "unborn" /\ ~closing[s]
                                /\ queue[s] = <<>> /\ handles[s] = 0

Sentinels == \A s \in Ids : \A i \in DOMAIN queue[s] : queue[s][i] = "none" => closing[s]

MainThread ==
  /\ shut_down <=> demux \in {"joining", "done"}
  /\ shut_down => \A a \in Addrs : sessions[a] = 0
  /\ demux = "put" => \E a \in Addrs : sessions[a] = target /\ target # 0

\* The inductive invariant.
IInv ==
  /\ TypeOK /\ RegisteredIsServed /\ NothingLeaks
  /\ Unborn /\ Sentinels /\ MainThread

-----------------------------------------------------------------------------
\* The server starts with an empty table, so the invariant holds.
LEMMA InitIInv == Init => IInv
<1> SUFFICES ASSUME Init PROVE IInv
  OBVIOUS
<1>1. TypeOK
  <2>1. queue \in [Ids -> Seq({"data", "none"})]
    BY DEF Init
  <2>2. /\ sessions \in [Addrs -> 0 .. created] /\ created \in 0 .. MaxObjs
        /\ handles \in [Ids -> 0 .. MAX_HANDLES - 1] /\ last_activity \in [Ids -> Nat]
    BY SessionsAssumption DEF Init
  <2>3. closing \in [Ids -> BOOLEAN] /\ shut_down \in BOOLEAN
    BY Zenon DEF Init
  <2> QED BY <2>1, <2>2, <2>3 DEF Init, TypeOK
<1>2. RegisteredIsServed /\ NothingLeaks
  BY DEF Init, RegisteredIsServed, NothingLeaks, Registered, Ids
<1>3. Unborn /\ Sentinels /\ MainThread
  BY DEF Init, Unborn, Sentinels, MainThread
<1> QED BY <1>1, <1>2, <1>3 DEF IInv

\* Telling the registered sessions of S to stop puts the sentinel only into
\* queues of sessions that are now closing.
LEMMA ShutdownQueues ==
  ASSUME TypeOK, Sentinels, NEW S, Shutdown(S)
  PROVE  /\ closing' \in [Ids -> BOOLEAN]
         /\ queue' \in [Ids -> Seq({"data", "none"})]
         /\ Sentinels'
<1>1. closing' \in [Ids -> BOOLEAN]
  BY DEF TypeOK, Shutdown
<1>2. \A s \in Ids : queue'[s] \in Seq({"data", "none"})
  <2> TAKE s \in Ids
  <2> QED BY DEF TypeOK, Shutdown
<1>3. Sentinels'
  <2> SUFFICES ASSUME NEW s \in Ids, NEW i \in DOMAIN queue'[s], queue'[s][i] = "none"
               PROVE  closing'[s]
    BY DEF Sentinels
  <2>1. CASE s \in S
    BY <2>1 DEF Shutdown
  <2>2. CASE s \notin S
    BY <2>2 DEF Shutdown, Sentinels
  <2> QED BY <2>1, <2>2
<1> QED BY <1>1, <1>2, <1>3 DEF Shutdown

\* A datagram of a known console only renews its session.
LEMMA LookUpStep ==
  ASSUME IInv, NEW a \in Addrs, LookUp(a) PROVE IInv'
<1>1. TypeOK'
  BY DEF IInv, TypeOK, LookUp, Registered, workerVars
<1>2. RegisteredIsServed' /\ NothingLeaks'
  BY DEF IInv, LookUp, RegisteredIsServed, NothingLeaks, Registered, workerVars
<1>3. Unborn' /\ Sentinels' /\ MainThread'
  BY DEF IInv, LookUp, Unborn, Sentinels, MainThread, Registered, workerVars
<1> QED BY <1>1, <1>2, <1>3 DEF IInv

\* The table only names sessions that were created.
LEMMA RegisteredIds ==
  ASSUME TypeOK PROVE \A a \in Registered : sessions[a] \in Ids
<1> SUFFICES ASSUME NEW a \in Addrs, sessions[a] # 0 PROVE sessions[a] \in Ids
  BY DEF Registered
<1>1. created \in 0 .. MaxObjs /\ sessions[a] \in 0 .. created /\ MaxObjs \in Nat
  BY SessionsAssumption DEF TypeOK
<1> QED BY <1>1 DEF Ids

\* A session is created; gone leaves the table.
LEMMA CreateStep ==
  ASSUME IInv, NEW a \in Addrs, a \notin Registered, demux = "loop", NEW gone \in SUBSET Registered,
         Create(a, gone), Shutdown({sessions[b] : b \in gone})
  PROVE  IInv'
<1> DEFINE n == created + 1
           S == {sessions[b] : b \in gone}
<1>1. n \in Ids /\ n \notin S /\ ~closing[n] /\ worker[n] = "unborn"
  BY SessionsAssumption DEF IInv, TypeOK, Create, Unborn, Ids, Registered
<1>2. \A s \in Ids : closing'[s] = (closing[s] \/ s \in S)
  BY DEF Shutdown
<1>3. /\ closing' \in [Ids -> BOOLEAN] /\ queue' \in [Ids -> Seq({"data", "none"})] /\ Sentinels'
  BY ShutdownQueues DEF IInv
<1>4. TypeOK'
  <2>1. created' \in 0 .. MaxObjs /\ created' = n
    BY <1>1, SessionsAssumption DEF IInv, TypeOK, Create, Ids
  <2>2. sessions' \in [Addrs -> 0 .. created']
    BY <2>1 DEF IInv, TypeOK, Create
  <2>3. worker' \in [Ids -> {"unborn", "loop", "io", "waiting", "leaving", "gone"}]
    BY DEF IInv, TypeOK, Create
  <2>4. target' = n /\ n \in 0 .. n /\ demux' = "put"
    BY SessionsAssumption DEF IInv, TypeOK, Create
  <2>5. last_activity' \in [Ids -> Nat]
    BY DEF IInv, TypeOK, Create
  <2>6. abandoned' \subseteq Ids
    BY RegisteredIds DEF IInv, TypeOK, Create
  <2> QED BY <1>3, <2>1, <2>2, <2>3, <2>4, <2>5, <2>6 DEF IInv, TypeOK, Create
<1>5. RegisteredIsServed'
  <2> SUFFICES ASSUME NEW b \in Addrs, sessions'[b] # 0
               PROVE  /\ ~closing'[sessions'[b]]
                      /\ worker'[sessions'[b]] \in {"loop", "io", "waiting"}
                      /\ \A c \in Addrs : sessions'[c] # 0 /\ sessions'[b] = sessions'[c] => b = c
    BY DEF RegisteredIsServed, Registered
  <2>1. CASE b = a
    <3>1. sessions'[b] = n
      BY <2>1 DEF Create
    <3>2. \A c \in Addrs : sessions[c] # n
      BY SessionsAssumption DEF IInv, TypeOK
    <3>3. worker'[n] = "loop"
      BY <1>1 DEF Create, IInv, TypeOK
    <3> QED BY <1>1, <1>2, <2>1, <3>1, <3>2, <3>3, SessionsAssumption DEF Create, IInv, TypeOK
  <2>2. CASE b # a
    <3>1. b \notin gone /\ sessions'[b] = sessions[b] /\ b \in Registered
      BY <2>2 DEF Create, Registered
    <3>2. sessions[b] \in Ids /\ sessions[b] # n
      BY <3>1, SessionsAssumption DEF IInv, TypeOK, Registered, Ids
    <3>3. sessions[b] \notin S
      BY <3>1 DEF IInv, RegisteredIsServed
    <3>4. worker'[sessions[b]] = worker[sessions[b]]
      BY <3>2 DEF Create, IInv, TypeOK
    <3>5. \A c \in Addrs : sessions'[c] # 0 /\ sessions[b] = sessions'[c] => b = c
      BY <3>1, <3>2, <1>1 DEF Create, IInv, RegisteredIsServed, Registered
    <3> QED BY <1>2, <3>1, <3>2, <3>3, <3>4, <3>5 DEF IInv, RegisteredIsServed
  <2> QED BY <2>1, <2>2
<1>6. NothingLeaks'
  <2> SUFFICES ASSUME NEW s \in Ids
               PROVE  /\ s <= n => closing'[s] \/ \E b \in Addrs : sessions'[b] = s
                      /\ worker'[s] \in {"leaving", "gone"} => closing'[s] \/ shut_down'
                      /\ worker'[s] \in {"unborn", "gone"} => handles'[s] = 0
    BY DEF NothingLeaks, Create
  <2>1. CASE s = n
    BY <2>1, <1>1 DEF Create, IInv, TypeOK
  <2>2. CASE s # n
    <3>1. worker'[s] = worker[s] /\ handles'[s] = handles[s] /\ shut_down' = shut_down
      BY <2>2 DEF Create, IInv, TypeOK
    <3>2. s <= n => closing'[s] \/ \E b \in Addrs : sessions'[b] = s
      <4> SUFFICES ASSUME s <= n, ~closing'[s] PROVE \E b \in Addrs : sessions'[b] = s
        OBVIOUS
      <4>1. ~closing[s] /\ s \notin S
        BY <1>2, Zenon
      <4>4. s <= created
        <5>1. created \in Nat /\ s \in Nat /\ s <= created + 1 /\ s # created + 1
          BY <2>2, SessionsAssumption DEF IInv, TypeOK, Ids
        <5> QED BY <5>1
      <4>2. PICK b \in Addrs : sessions[b] = s
        BY <4>1, <4>4 DEF IInv, NothingLeaks
      <4>3. b \notin gone /\ b # a
        BY <4>1, <4>2, SessionsAssumption DEF Registered, Ids
      <4> QED BY <4>2, <4>3 DEF Create
    <3> QED BY <1>2, <3>1, <3>2 DEF IInv, NothingLeaks
  <2> QED BY <2>1, <2>2
<1>7. Unborn'
  <2> SUFFICES ASSUME NEW s \in Ids, s > n
               PROVE  worker'[s] = "unborn" /\ ~closing'[s] /\ queue'[s] = <<>> /\ handles'[s] = 0
    BY DEF Unborn, Create
  <2>1. s > created /\ s # n
    BY SessionsAssumption DEF IInv, TypeOK, Ids
  <2>2. s \notin S
    BY <2>1, SessionsAssumption DEF IInv, TypeOK, Ids, Registered
  <2> QED BY <1>2, <2>1, <2>2 DEF IInv, Unborn, Create, Shutdown, TypeOK
<1>8. MainThread'
  <2>1. ~shut_down /\ shut_down' = shut_down /\ demux' = "put" /\ target' = n
    BY DEF IInv, MainThread, Create, TypeOK
  <2>2. sessions'[a] = n /\ n # 0
    BY <1>1, SessionsAssumption DEF Create, Ids
  <2> QED BY <2>1, <2>2 DEF MainThread
<1> QED BY <1>3, <1>4, <1>5, <1>6, <1>7, <1>8 DEF IInv

\* A new console with room in the table: nobody is told to stop.
LEMMA FirstContactStep ==
  ASSUME IInv, NEW a \in Addrs, FirstContact(a) PROVE IInv'
<1>1. Shutdown({sessions[b] : b \in {}})
  <2>1. closing' = [s \in Ids |-> closing[s] \/ s \in {}]
    BY DEF FirstContact, IInv, TypeOK
  <2>2. queue' = [s \in Ids |-> queue[s]]
    BY DEF FirstContact, IInv, TypeOK
  <2> QED BY <2>1, <2>2 DEF Shutdown
<1> QED BY <1>1, CreateStep DEF FirstContact

\* A new console with the table full: the victim leaves and is told to stop.
LEMMA FirstContactEvictingStep ==
  ASSUME IInv, NEW a \in Addrs, FirstContactEvicting(a) PROVE IInv'
<1>1. PICK v \in Addrs : Victim(v) /\ Create(a, {v}) /\ Shutdown({sessions[v]})
  BY DEF FirstContactEvicting
<1>2. {v} \in SUBSET Registered /\ {sessions[b] : b \in {v}} = {sessions[v]}
  BY <1>1 DEF Victim
<1> QED BY <1>1, <1>2, CreateStep DEF FirstContactEvicting

\* Queueing the datagram in hand never adds a sentinel, and only to a session that exists.
LEMMA PutSteps ==
  ASSUME IInv, Put \/ Discovery PROVE IInv'
<1>1. CASE Discovery
  <2>1. /\ handles' \in [Ids -> 0 .. MAX_HANDLES - 1]
        /\ \A s \in Ids : handles'[s] \in {handles[s], 0}
    BY <1>1, SessionsAssumption DEF IInv, TypeOK, Discovery
  <2>2. TypeOK'
    BY <1>1, <2>1 DEF IInv, TypeOK, Discovery
  <2>3. RegisteredIsServed' /\ NothingLeaks' /\ Unborn' /\ Sentinels'
    BY <1>1, <2>1 DEF IInv, Discovery, RegisteredIsServed, NothingLeaks, Registered, Unborn,
                Sentinels
  <2>4. MainThread'
    BY <1>1 DEF IInv, Discovery, MainThread
  <2> QED BY <2>2, <2>3, <2>4 DEF IInv
<1>2. CASE Put
  <2>1. target \in Ids /\ target <= created
    BY <1>2, SessionsAssumption DEF Put, IInv, MainThread, TypeOK, Ids
  <2>2. /\ queue'[target] = Append(queue[target], "data")
        /\ \A s \in Ids : s # target => queue'[s] = queue[s]
        /\ queue' \in [Ids -> Seq({"data", "none"})]
    BY <1>2, <2>1 DEF Put, IInv, TypeOK
  <2>3. TypeOK'
    BY <1>2, <2>2 DEF IInv, TypeOK, Put, workerVars
  <2>4. RegisteredIsServed' /\ NothingLeaks'
    BY <1>2 DEF IInv, Put, RegisteredIsServed, NothingLeaks, Registered, workerVars
  <2>5. Unborn'
    <3> SUFFICES ASSUME NEW s \in Ids, s > created
                 PROVE  worker[s] = "unborn" /\ ~closing[s] /\ queue'[s] = <<>> /\ handles[s] = 0
      BY <1>2 DEF Unborn, Put, workerVars
    <3>1. s # target
      BY <2>1, SessionsAssumption DEF Ids, IInv, TypeOK
    <3> QED BY <3>1, <2>2 DEF IInv, Unborn
  <2>6. Sentinels'
    <3> SUFFICES ASSUME NEW s \in Ids, NEW i \in DOMAIN queue'[s], queue'[s][i] = "none"
                 PROVE  closing[s]
      BY <1>2 DEF Sentinels, Put
    <3>1. CASE s # target
      BY <3>1, <2>2 DEF IInv, Sentinels
    <3>2. CASE s = target
      <4>1. queue[s] \in Seq({"data", "none"}) /\ queue'[s] = Append(queue[s], "data")
        BY <3>2, <2>2 DEF IInv, TypeOK
      <4>2. i \in 1 .. Len(queue[s]) + 1
        BY <4>1
      <4>3. i # Len(queue[s]) + 1
        BY <4>1
      <4>4. i \in 1 .. Len(queue[s]) /\ queue[s][i] = "none"
        BY <4>1, <4>2, <4>3
      <4> QED BY <4>1, <4>4 DEF IInv, Sentinels
    <3> QED BY <3>1, <3>2
  <2>7. MainThread'
    BY <1>2 DEF IInv, Put, MainThread
  <2> QED BY <2>3, <2>4, <2>5, <2>6, <2>7 DEF IInv
<1> QED BY <1>1, <1>2

\* The sessions of the addresses of gone leave the table and are told to stop.
LEMMA RemoveSessions ==
  ASSUME IInv, NEW gone \in SUBSET Registered,
         sessions' = [a \in Addrs |-> IF a \in gone THEN 0 ELSE sessions[a]],
         Shutdown({sessions[a] : a \in gone}),
         UNCHANGED <<created, workerVars>>, shut_down => shut_down', shut_down' \in BOOLEAN
  PROVE  /\ sessions' \in [Addrs -> 0 .. created']
         /\ closing' \in [Ids -> BOOLEAN] /\ queue' \in [Ids -> Seq({"data", "none"})]
         /\ RegisteredIsServed' /\ NothingLeaks' /\ Unborn' /\ Sentinels'
<1> DEFINE S == {sessions[a] : a \in gone}
<1>1. \A s \in Ids : closing'[s] = (closing[s] \/ s \in S)
  BY DEF Shutdown
<1>2. /\ closing' \in [Ids -> BOOLEAN] /\ queue' \in [Ids -> Seq({"data", "none"})] /\ Sentinels'
  BY ShutdownQueues DEF IInv
<1>3. sessions' \in [Addrs -> 0 .. created']
  BY SessionsAssumption DEF IInv, TypeOK
<1>4. RegisteredIsServed'
  <2> SUFFICES ASSUME NEW b \in Addrs, sessions'[b] # 0
               PROVE  /\ ~closing'[sessions'[b]]
                      /\ worker[sessions'[b]] \in {"loop", "io", "waiting"}
                      /\ \A c \in Addrs : sessions'[c] # 0 /\ sessions'[b] = sessions'[c] => b = c
    BY DEF RegisteredIsServed, Registered, workerVars
  <2>1. b \notin gone /\ sessions'[b] = sessions[b] /\ b \in Registered
    BY DEF Registered
  <2>2. sessions[b] \in Ids
    BY <2>1, SessionsAssumption DEF IInv, TypeOK, Registered, Ids
  <2>3. sessions[b] \notin S
    BY <2>1 DEF IInv, RegisteredIsServed
  <2>4. \A c \in Addrs : sessions'[c] # 0 => c \in Registered /\ sessions'[c] = sessions[c]
    BY DEF Registered
  <2> QED BY <1>1, <2>1, <2>2, <2>3, <2>4 DEF IInv, RegisteredIsServed
<1>5. NothingLeaks'
  <2> SUFFICES ASSUME NEW s \in Ids
               PROVE  /\ s <= created => closing'[s] \/ \E b \in Addrs : sessions'[b] = s
                      /\ worker[s] \in {"leaving", "gone"} => closing'[s] \/ shut_down'
                      /\ worker[s] \in {"unborn", "gone"} => handles[s] = 0
    BY DEF NothingLeaks, workerVars
  <2>1. ASSUME s <= created, ~closing'[s] PROVE \E b \in Addrs : sessions'[b] = s
    <3>1. ~closing[s] /\ s \notin S
      BY <1>1, <2>1, Zenon
    <3>2. PICK b \in Addrs : sessions[b] = s
      BY <2>1, <3>1 DEF IInv, NothingLeaks
    <3> QED BY <3>1, <3>2
  <2> QED BY <1>1, <2>1 DEF IInv, NothingLeaks
<1>6. Unborn'
  <2> SUFFICES ASSUME NEW s \in Ids, s > created
               PROVE  worker[s] = "unborn" /\ ~closing'[s] /\ queue'[s] = <<>> /\ handles[s] = 0
    BY DEF Unborn, workerVars
  <2>1. s \notin S
    BY SessionsAssumption DEF IInv, TypeOK, Ids, Registered
  <2> QED BY <1>1, <2>1 DEF IInv, Unborn, Shutdown
<1> QED BY <1>2, <1>3, <1>4, <1>5, <1>6

\* _sweep_idle_sessions takes out exactly the idle sessions.
LEMMA SweepStep ==
  ASSUME IInv, Sweep PROVE IInv'
<1>1. /\ Idle \in SUBSET Registered
      /\ UNCHANGED <<created, workerVars, last_activity, now, demux, target, joining, shut_down, device>>
  BY DEF Idle, Sweep
<1>5. abandoned' \subseteq Ids
  BY RegisteredIds DEF Sweep, IInv, TypeOK, Idle
<1>2. /\ sessions' \in [Addrs -> 0 .. created']
      /\ closing' \in [Ids -> BOOLEAN] /\ queue' \in [Ids -> Seq({"data", "none"})]
      /\ RegisteredIsServed' /\ NothingLeaks' /\ Unborn' /\ Sentinels'
  <2>1. shut_down' \in BOOLEAN /\ (shut_down => shut_down')
    BY <1>1 DEF IInv, TypeOK
  <2> QED BY <1>1, <2>1, RemoveSessions DEF Sweep
<1>3. TypeOK'
  BY <1>1, <1>2, <1>5 DEF IInv, TypeOK, workerVars
<1>4. MainThread'
  BY <1>1 DEF Sweep, IInv, MainThread
<1> QED BY <1>2, <1>3, <1>4 DEF IInv

\* _shutdown_all_sessions empties the table and tells every session.
LEMMA InterruptStep ==
  ASSUME IInv, Interrupt PROVE IInv'
<1>1. Registered \in SUBSET Registered /\ shut_down' = TRUE /\ demux' = "joining"
  BY DEF Interrupt
<1>2. sessions' = [a \in Addrs |-> IF a \in Registered THEN 0 ELSE sessions[a]]
  BY DEF Interrupt, Registered
<1>3. /\ sessions' \in [Addrs -> 0 .. created']
      /\ closing' \in [Ids -> BOOLEAN] /\ queue' \in [Ids -> Seq({"data", "none"})]
      /\ RegisteredIsServed' /\ NothingLeaks' /\ Unborn' /\ Sentinels'
  <2>1. Shutdown({sessions[a] : a \in Registered}) /\ UNCHANGED <<created, workerVars>>
    BY DEF Interrupt
  <2> QED BY <1>1, <1>2, <2>1, RemoveSessions
<1>4. joining' \subseteq Ids
  BY SessionsAssumption DEF Interrupt, IInv, TypeOK, Registered, Ids
<1>5. TypeOK'
  BY <1>1, <1>3, <1>4 DEF Interrupt, IInv, TypeOK, workerVars
<1>6. MainThread'
  BY <1>1 DEF Interrupt, MainThread
<1> QED BY <1>3, <1>5, <1>6 DEF IInv

\* The clock, the joins and _cleanup leave the sessions alone.
LEMMA EndSteps ==
  ASSUME IInv, Cleanup \/ Tick \/ \E s \in Ids : Join(s) \/ JoinTimesOut(s) PROVE IInv'
<1>1. /\ UNCHANGED <<sessions, created, closing, queue, workerVars, last_activity, target, shut_down>>
      /\ now' \in Nat /\ joining' \subseteq Ids /\ abandoned' \subseteq Ids /\ device' \in {"open", "closed"}
      /\ \/ demux' = demux
         \/ demux = "joining" /\ demux' = "done"
  <2>1. CASE Cleanup
    BY <2>1 DEF IInv, TypeOK, Cleanup
  <2>2. CASE Tick
    <3>1. now' \in Nat
      BY <2>2 DEF IInv, TypeOK, Tick
    <3> QED BY <2>2, <3>1 DEF IInv, TypeOK, Tick
  <2>3. CASE \E s \in Ids : Join(s) \/ JoinTimesOut(s)
    BY <2>3 DEF IInv, TypeOK, Join, JoinTimesOut
  <2> QED BY <2>1, <2>2, <2>3
<1>2. TypeOK'
  BY <1>1 DEF IInv, TypeOK, workerVars
<1>3. RegisteredIsServed' /\ NothingLeaks' /\ Unborn' /\ Sentinels'
  BY <1>1 DEF IInv, RegisteredIsServed, NothingLeaks, Registered, Unborn, Sentinels, workerVars
<1>4. MainThread'
  BY <1>1 DEF IInv, MainThread
<1> QED BY <1>2, <1>3, <1>4 DEF IInv

\* A worker takes the head of its queue: what is left of the queue is well typed
\* and holds sentinels only if the session is closing, and so does the head.
LEMMA TakeHead ==
  ASSUME IInv, NEW s \in Ids, queue[s] # <<>>, queue' = [queue EXCEPT ![s] = Tail(@)],
         UNCHANGED closing
  PROVE  /\ queue' \in [Ids -> Seq({"data", "none"})] /\ Sentinels'
         /\ Head(queue[s]) = "none" => closing[s]
         /\ \A t \in Ids : t # s => queue'[t] = queue[t]
<1>1. queue[s] \in Seq({"data", "none"}) /\ queue'[s] = Tail(queue[s])
  BY DEF IInv, TypeOK
<1>2. queue' \in [Ids -> Seq({"data", "none"})]
  BY <1>1 DEF IInv, TypeOK
<1>3. Head(queue[s]) = "none" => closing[s]
  <2>1. 1 \in DOMAIN queue[s] /\ Head(queue[s]) = queue[s][1]
    BY <1>1
  <2> QED BY <2>1 DEF IInv, Sentinels
<1>4. \A t \in Ids : t # s => queue'[t] = queue[t]
  BY DEF IInv, TypeOK
<1>5. Sentinels'
  <2> SUFFICES ASSUME NEW t \in Ids, NEW i \in DOMAIN queue'[t], queue'[t][i] = "none"
               PROVE  closing[t]
    BY DEF Sentinels
  <2>1. CASE t # s
    BY <2>1, <1>4 DEF IInv, Sentinels
  <2>2. CASE t = s
    <3>1. Len(Tail(queue[s])) = Len(queue[s]) - 1 /\ DOMAIN Tail(queue[s]) = 1 .. Len(queue[s]) - 1
      <4>1. Len(queue[s]) \in Nat /\ Len(queue[s]) # 0
        BY <1>1
      <4> QED BY <1>1, <4>1
    <3>3. i \in 1 .. Len(queue[s]) - 1 /\ Tail(queue[s])[i] = "none"
      BY <2>2, <1>1, <3>1
    <3>2. i + 1 \in DOMAIN queue[s] /\ queue[s][i + 1] = "none"
      BY <3>3, <1>1
    <3> QED BY <2>2, <3>2 DEF IInv, Sentinels
  <2> QED BY <2>1, <2>2
<1> QED BY <1>2, <1>3, <1>4, <1>5

\* A worker that moves on, and changes at most its own queue and handles, keeps
\* the invariant when it ends only after it was told to, and with no handle open.
LEMMA WorkerMoves ==
  ASSUME IInv, NEW s \in Ids, worker[s] \notin {"unborn", "gone"},
         NEW w \in {"loop", "io", "waiting", "leaving", "gone"},
         NEW h \in 0 .. MAX_HANDLES - 1,
         worker' = [worker EXCEPT ![s] = w], handles' = [handles EXCEPT ![s] = h],
         w \in {"leaving", "gone"} => closing[s] \/ shut_down,
         w = "gone" => h = 0,
         UNCHANGED tableVars,
         queue' \in [Ids -> Seq({"data", "none"})], Sentinels',
         \A t \in Ids : t # s => queue'[t] = queue[t]
  PROVE  IInv'
<1>1. UNCHANGED <<sessions, created, closing, last_activity, now, demux, target, joining,
                  shut_down, device, abandoned>>
  BY DEF tableVars, mainVars
<1>2. /\ worker'[s] = w /\ handles'[s] = h
      /\ \A t \in Ids : t # s => worker'[t] = worker[t] /\ handles'[t] = handles[t]
  BY DEF IInv, TypeOK
<1>3. TypeOK'
  <2>1. worker' \in [Ids -> {"unborn", "loop", "io", "waiting", "leaving", "gone"}]
    BY DEF IInv, TypeOK
  <2>2. handles' \in [Ids -> 0 .. MAX_HANDLES - 1]
    BY DEF IInv, TypeOK
  <2> QED BY <1>1, <2>1, <2>2 DEF IInv, TypeOK
<1>4. RegisteredIsServed'
  <2> SUFFICES ASSUME NEW a \in Addrs, sessions[a] # 0
               PROVE  worker'[sessions[a]] \in {"loop", "io", "waiting"}
    BY <1>1 DEF IInv, RegisteredIsServed, Registered
  <2>1. sessions[a] \in Ids /\ ~closing[sessions[a]] /\ ~shut_down
    <3>1. sessions[a] \in Ids
      <4>1. created \in 0 .. MaxObjs /\ sessions[a] \in 0 .. created /\ MaxObjs \in Nat
        BY SessionsAssumption DEF IInv, TypeOK
      <4> QED BY <4>1 DEF Ids
    <3>2. ~closing[sessions[a]]
      BY DEF IInv, RegisteredIsServed, Registered
    <3>3. ~shut_down
      BY DEF IInv, MainThread
    <3> QED BY <3>1, <3>2, <3>3
  <2>2. CASE sessions[a] = s
    BY <2>1, <2>2, <1>2
  <2>3. CASE sessions[a] # s
    BY <2>1, <2>3, <1>2 DEF IInv, RegisteredIsServed, Registered
  <2> QED BY <2>2, <2>3
<1>5. NothingLeaks'
  <2> SUFFICES ASSUME NEW t \in Ids
               PROVE  /\ worker'[t] \in {"leaving", "gone"} => closing[t] \/ shut_down
                      /\ worker'[t] \in {"unborn", "gone"} => handles'[t] = 0
    BY <1>1 DEF IInv, NothingLeaks
  <2>1. CASE t = s
    BY <2>1, <1>2
  <2>2. CASE t # s
    BY <2>2, <1>2 DEF IInv, NothingLeaks
  <2> QED BY <2>1, <2>2
<1>6. Unborn'
  <2> SUFFICES ASSUME NEW t \in Ids, t > created
               PROVE  worker'[t] = "unborn" /\ ~closing[t] /\ queue'[t] = <<>> /\ handles'[t] = 0
    BY <1>1 DEF Unborn
  <2>1. t # s
    BY DEF IInv, Unborn
  <2> QED BY <2>1, <1>2 DEF IInv, Unborn
<1>7. MainThread'
  BY <1>1 DEF IInv, MainThread
<1> QED BY <1>3, <1>4, <1>5, <1>6, <1>7 DEF IInv

\* Every step of a worker preserves the invariant.
LEMMA WorkerSteps ==
  ASSUME IInv, NEW s \in Ids, WorkerStep(s) PROVE IInv'
<1>1. handles[s] \in 0 .. MAX_HANDLES - 1 /\ 0 \in 0 .. MAX_HANDLES - 1
  BY SessionsAssumption DEF IInv, TypeOK
<1>2. /\ handles = [handles EXCEPT ![s] = handles[s]]
      /\ worker = [worker EXCEPT ![s] = worker[s]]
  BY DEF IInv, TypeOK
<1>3. UNCHANGED tableVars /\ UNCHANGED closing
  BY DEF WorkerStep, Take, TakeLate, Leave, Answer, Open, Close, WaitTakes, WaitEnds, Exit, tableVars
<1>4. ASSUME UNCHANGED queue
      PROVE  /\ queue' \in [Ids -> Seq({"data", "none"})] /\ Sentinels'
             /\ \A t \in Ids : t # s => queue'[t] = queue[t]
  BY <1>3, <1>4 DEF IInv, TypeOK, Sentinels
<1>5. CASE Take(s) \/ TakeLate(s)
  <2>1. /\ worker[s] = "loop" /\ queue[s] # <<>> /\ UNCHANGED handles
        /\ queue' = [queue EXCEPT ![s] = Tail(@)]
        /\ worker' = [worker EXCEPT ![s] = IF Head(queue[s]) = "none" THEN "leaving" ELSE "io"]
    BY <1>5 DEF Take, TakeLate
  <2>2. /\ queue' \in [Ids -> Seq({"data", "none"})] /\ Sentinels'
        /\ Head(queue[s]) = "none" => closing[s]
        /\ \A t \in Ids : t # s => queue'[t] = queue[t]
    BY <1>3, <2>1, TakeHead
  <2>3. CASE Head(queue[s]) = "none"
    <3>1. worker' = [worker EXCEPT ![s] = "leaving"]
      BY <2>1, <2>3
    <3>2. handles' = [handles EXCEPT ![s] = handles[s]]
      BY <2>1, <1>2
    <3> QED BY <1>1, <1>3, <2>1, <2>2, <2>3, <3>1, <3>2, WorkerMoves
  <2>4. CASE Head(queue[s]) # "none"
    <3>1. worker' = [worker EXCEPT ![s] = "io"]
      BY <2>1, <2>4
    <3>2. handles' = [handles EXCEPT ![s] = handles[s]]
      BY <2>1, <1>2
    <3> QED BY <1>1, <1>3, <2>1, <2>2, <3>1, <3>2, WorkerMoves
  <2> QED BY <2>3, <2>4
<1>6. CASE WaitTakes(s)
  <2>1. /\ worker[s] = "waiting" /\ queue[s] # <<>> /\ UNCHANGED handles /\ UNCHANGED worker
        /\ queue' = [queue EXCEPT ![s] = Tail(@)]
    BY <1>6 DEF WaitTakes, workerVars
  <2>2. /\ queue' \in [Ids -> Seq({"data", "none"})] /\ Sentinels'
        /\ \A t \in Ids : t # s => queue'[t] = queue[t]
    BY <1>3, <2>1, TakeHead
  <2>3. worker' = [worker EXCEPT ![s] = "waiting"] /\ handles' = [handles EXCEPT ![s] = handles[s]]
    BY <2>1, <1>2
  <2> QED BY <1>1, <1>3, <2>1, <2>2, <2>3, WorkerMoves
<1>7. CASE Leave(s)
  <2>1. /\ worker[s] = "loop"
        /\ closing[s] \/ shut_down
        /\ worker' = [worker EXCEPT ![s] = "leaving"] /\ UNCHANGED <<queue, handles>>
    BY <1>7 DEF Leave, Stopped
  <2>2. handles' = [handles EXCEPT ![s] = handles[s]]
    BY <2>1, <1>2
  <2> QED BY <1>1, <1>3, <1>4, <2>1, <2>2, WorkerMoves
<1>8. CASE Answer(s) \/ WaitEnds(s)
  <2>1. PICK w \in {"loop", "waiting"} :
          worker[s] \in {"io", "waiting"} /\ worker' = [worker EXCEPT ![s] = w]
    BY <1>8 DEF Answer, WaitEnds
  <2>2. UNCHANGED queue /\ handles' = [handles EXCEPT ![s] = handles[s]]
    BY <1>8, <1>2 DEF Answer, WaitEnds
  <2> QED BY <1>1, <1>3, <1>4, <2>1, <2>2, WorkerMoves
<1>9. CASE Open(s) \/ Close(s)
  <2>1. PICK h \in 0 .. MAX_HANDLES - 1 :
          /\ worker[s] = "io" /\ worker' = [worker EXCEPT ![s] = "loop"]
          /\ handles' = [handles EXCEPT ![s] = h] /\ UNCHANGED queue
    <3>1. CASE Open(s)
      <4>1. handles[s] + 1 \in 0 .. MAX_HANDLES - 1
        BY <3>1, <1>1, SessionsAssumption DEF Open
      <4> QED BY <3>1, <4>1 DEF Open
    <3>2. CASE Close(s)
      <4>1. handles[s] - 1 \in 0 .. MAX_HANDLES - 1
        BY <3>2, <1>1, SessionsAssumption DEF Close
      <4> QED BY <3>2, <4>1 DEF Close
    <3> QED BY <1>9, <3>1, <3>2
  <2> QED BY <1>3, <1>4, <2>1, WorkerMoves
<1>10. CASE Exit(s)
  <2>1. /\ worker[s] = "leaving" /\ worker' = [worker EXCEPT ![s] = "gone"]
        /\ handles' = [handles EXCEPT ![s] = 0] /\ UNCHANGED queue
    BY <1>10 DEF Exit
  <2>2. closing[s] \/ shut_down
    BY <2>1 DEF IInv, NothingLeaks
  <2> QED BY <1>1, <1>3, <1>4, <2>1, <2>2, WorkerMoves
<1> QED BY <1>5, <1>6, <1>7, <1>8, <1>9, <1>10 DEF WorkerStep

-----------------------------------------------------------------------------
\* The inductive invariant holds in every reachable state, for any number of
\* consoles and sessions and any size of the table.
THEOREM Invariance == Spec => []IInv
<1>1. IInv /\ [Next]_vars => IInv'
  <2> SUFFICES ASSUME IInv, [Next]_vars PROVE IInv'
    OBVIOUS
  <2>1. CASE UNCHANGED vars
    <3>1. TypeOK' /\ Unborn' /\ Sentinels' /\ MainThread'
      BY <2>1 DEF IInv, vars, TypeOK, Unborn, Sentinels, MainThread
    <3>2. RegisteredIsServed' /\ NothingLeaks'
      BY <2>1 DEF IInv, vars, RegisteredIsServed, NothingLeaks, Registered
    <3> QED BY <3>1, <3>2 DEF IInv
  <2>2. CASE MainStep
    BY <2>2, LookUpStep, FirstContactStep, FirstContactEvictingStep, PutSteps, SweepStep,
       InterruptStep, EndSteps DEF MainStep
  <2>3. CASE Tick
    BY <2>3, EndSteps
  <2>4. CASE \E s \in Ids : WorkerStep(s)
    BY <2>4, WorkerSteps
  <2> QED BY <2>1, <2>2, <2>3, <2>4 DEF Next
<1> QED BY InitIInv, <1>1, PTL DEF Spec

\* The state is well typed; a session never holds MAX_HANDLES handles of its own.
THEOREM TypeCorrect == Spec => []TypeOK
<1>1. IInv => TypeOK
  BY DEF IInv
<1> QED BY <1>1, Invariance, PTL

\* A console in the table has a worker that runs and was not told to stop.
THEOREM AlwaysServed == Spec => []RegisteredIsServed
<1>1. IInv => RegisteredIsServed
  BY DEF IInv
<1> QED BY <1>1, Invariance, PTL

\* _route_data never queues a datagram for a session that was told to stop.
THEOREM AlwaysPutServed == Spec => []PutReachesServed
<1>1. IInv => PutReachesServed
  BY DEF IInv, MainThread, RegisteredIsServed, Registered, PutReachesServed
<1> QED BY <1>1, Invariance, PTL

\* A session that left the table was told to stop, and no handle outlives its worker.
THEOREM NeverLeaks == Spec => []NothingLeaks
<1>1. IInv => NothingLeaks
  BY DEF IInv
<1> QED BY <1>1, Invariance, PTL

-----------------------------------------------------------------------------
\* Until the shutdown every session is in the table or was abandoned; from then
\* on it is waited for, was abandoned, or has ended; and the device is closed
\* when nobody is waited for any more.
Waited ==
  /\ ~shut_down => \A s \in Ids : s <= created =>
                     s \in abandoned \/ \E a \in Addrs : sessions[a] = s
  /\ shut_down => \A s \in Ids : s <= created =>
                     s \in abandoned \/ s \in joining \/ worker[s] = "gone"
  /\ device = "closed" <=> demux = "done"
  /\ demux = "done" => joining = {}

LEMMA WaitedStep ==
  ASSUME IInv, Waited, [Next]_vars PROVE Waited'
<1>0. /\ shut_down \in BOOLEAN /\ (shut_down <=> demux \in {"joining", "done"})
      /\ created \in Nat /\ MaxObjs \in Nat
  BY SessionsAssumption DEF IInv, TypeOK, MainThread
<1>1. CASE UNCHANGED vars
  BY <1>1 DEF Waited, vars
<1>2. ASSUME NEW a \in Addrs, LookUp(a) PROVE Waited'
  BY <1>0, <1>2 DEF LookUp, Waited, workerVars
<1>3. ASSUME NEW a \in Addrs, NEW gone \in SUBSET Registered, demux = "loop", a \notin Registered,
             Create(a, gone)
      PROVE  Waited'
  <2>1. /\ ~shut_down /\ ~shut_down' /\ demux = "loop" /\ demux' = "put"
        /\ device' = device /\ created' = created + 1
    BY <1>0, <1>3 DEF Create
  <2>2. ASSUME NEW s \in Ids, s <= created'
        PROVE  s \in abandoned' \/ \E b \in Addrs : sessions'[b] = s
    <3>1. CASE s = created + 1
      BY <3>1, <1>3 DEF Create
    <3>2. CASE s <= created
      <4>1. s \in abandoned \/ \E b \in Addrs : sessions[b] = s
        BY <3>2, <2>1 DEF Waited
      <4>2. ASSUME NEW b \in Addrs, sessions[b] = s, s \notin abandoned'
            PROVE  sessions'[b] = s
        <5>1. b \in Registered /\ b # a
          BY <4>2, <1>3 DEF Registered, Ids
        <5>2. b \notin gone
          BY <4>2, <1>3 DEF Create
        <5> QED BY <5>1, <5>2, <4>2, <1>3 DEF Create
      <4> QED BY <4>1, <4>2, <1>3 DEF Create
    <3> QED BY <3>1, <3>2, <2>1, <2>2, <1>0 DEF Ids
  <2> QED BY <2>1, <2>2 DEF Waited
<1>4. ASSUME NEW a \in Addrs, FirstContact(a) \/ FirstContactEvicting(a) PROVE Waited'
  <2>1. CASE FirstContact(a)
    BY <2>1, <1>3 DEF FirstContact
  <2>2. CASE FirstContactEvicting(a)
    BY <2>2, <1>3 DEF FirstContactEvicting, Victim
  <2> QED BY <1>4, <2>1, <2>2
<1>5. CASE Put \/ Discovery
  BY <1>0, <1>5 DEF Put, Discovery, Waited, workerVars
<1>6. CASE Sweep
  <2>1. ~shut_down /\ ~shut_down' /\ demux' = demux /\ device' = device /\ UNCHANGED <<created, joining>>
    BY <1>0, <1>6 DEF Sweep
  <2>2. ASSUME NEW s \in Ids, s <= created
        PROVE  s \in abandoned' \/ \E b \in Addrs : sessions'[b] = s
    <3>1. s \in abandoned \/ \E b \in Addrs : sessions[b] = s
      BY <2>1, <2>2 DEF Waited
    <3> QED BY <3>1, <1>6 DEF Sweep, Idle
  <2> QED BY <2>1, <2>2 DEF Waited
<1>7. CASE Interrupt
  <2>1. ~shut_down /\ shut_down' /\ demux' = "joining" /\ device = "open" /\ UNCHANGED <<created, device, abandoned>>
    BY <1>0, <1>7 DEF Interrupt, Waited, IInv, TypeOK
  <2>2. ASSUME NEW s \in Ids, s <= created PROVE s \in abandoned \/ s \in joining'
    <3>1. s \in abandoned \/ \E b \in Addrs : sessions[b] = s
      BY <2>1, <2>2 DEF Waited
    <3> QED BY <3>1, <1>7 DEF Interrupt, Registered, Ids
  <2> QED BY <2>1, <2>2 DEF Waited
<1>8. ASSUME NEW s \in Ids, Join(s) \/ JoinTimesOut(s) PROVE Waited'
  BY <1>0, <1>8 DEF Join, JoinTimesOut, Waited, workerVars
<1>9. CASE Cleanup
  BY <1>0, <1>9 DEF Cleanup, Waited, workerVars
<1>10. CASE Tick
  BY <1>10 DEF Tick, Waited, workerVars
<1>11. ASSUME NEW s \in Ids, WorkerStep(s) PROVE Waited'
  <2>1. UNCHANGED <<sessions, created, joining, shut_down, demux, device, abandoned>>
    BY <1>11 DEF WorkerStep, Take, TakeLate, Leave, Answer, Open, Close, WaitTakes, WaitEnds, Exit,
                 tableVars, mainVars
  <2>2. \A t \in Ids : worker[t] = "gone" => worker'[t] = "gone"
    BY <1>11 DEF WorkerStep, Take, TakeLate, Leave, Answer, Open, Close, WaitTakes, WaitEnds, Exit,
                 workerVars, IInv, TypeOK
  <2> QED BY <2>1, <2>2 DEF Waited
<1> QED BY <1>1, <1>2, <1>4, <1>5, <1>6, <1>7, <1>8, <1>9, <1>10, <1>11 DEF Next, MainStep

\* When _cleanup closes the block device, no worker is inside a handler except
\* the ones of sessions evicted or swept before and those a join gave up on.
THEOREM AlwaysNoShutdownRace == Spec => []NoShutdownRace
<1>1. Init => Waited
  BY SessionsAssumption DEF Init, Waited, Ids
<1>2. IInv /\ Waited /\ [Next]_vars => Waited'
  BY WaitedStep
<1>3. IInv /\ Waited => NoShutdownRace
  <2> SUFFICES ASSUME IInv, Waited, device = "closed", NEW s \in Ids, worker[s] = "io"
               PROVE  s \in abandoned
    BY DEF NoShutdownRace
  <2>1. shut_down /\ joining = {}
    BY DEF Waited, IInv, MainThread
  <2>2. s <= created
    BY SessionsAssumption DEF IInv, Unborn, TypeOK, Ids
  <2> QED BY <2>1, <2>2 DEF Waited
<1> QED BY Invariance, <1>1, <1>2, <1>3, PTL DEF Spec

=============================================================================
