---------------------------- MODULE UdpfsSessions ----------------------------
(***************************************************************************)
(* The session table of the UDPFS server (udpfs_server.py): the main thread *)
(* that receives datagrams, creates, evicts and sweeps sessions and shuts    *)
(* the server down, and one worker thread per session that runs the request  *)
(* handlers and owns the session's file handles.                             *)
(*                                                                          *)
(* A session that left the table lives on until its worker notices; its     *)
(* console may meanwhile be given a new session, so sessions are numbered by *)
(* their creation and never reused. What a handler does is abstracted to     *)
(* what it does to the session: it uses the shared block device or a file,   *)
(* opens or closes handles, and may wait for acknowledgements, taking items  *)
(* off the queue as it does (UdpfsTransport has the detail).                 *)
(***************************************************************************)
EXTENDS Integers, Sequences, FiniteSets

CONSTANTS
  Addrs,         \* addresses of the consoles
  max_sessions,  \* entries the table may hold
  session_timeout,
  MAX_HANDLES,
  MaxObjs,       \* bound on the sessions created
  MaxQueue,      \* bound on the items queued for a session
  MaxTime        \* bound on the clock

Ids == 1 .. MaxObjs

ASSUME SessionsAssumption ==
  /\ max_sessions \in Nat \ {0} /\ session_timeout \in Nat /\ MAX_HANDLES \in Nat \ {0}
  /\ MaxObjs \in Nat /\ MaxQueue \in Nat /\ MaxTime \in Nat

VARIABLES
  sessions,      \* the table: the session of each address, 0 for none
  created,       \* sessions created so far
  closing,       \* per session: _closing
  queue,         \* per session: its queue; "none" is the sentinel of shutdown()
  worker,        \* per session: where its worker thread is
  handles,       \* per session: how many handles are open, not counting the block device's
  last_activity, \* per session
  now,           \* time.monotonic()
  demux,         \* where the main thread is: "loop", "put", "joining" or "done"
  target,        \* the session the datagram in hand is for
  joining,       \* workers _shutdown_all_sessions still waits for
  shut_down,     \* _shutdown
  device,        \* the shared block device: "open" or "closed"
  abandoned      \* sessions nobody waits for any more (for the properties)

mainVars == <<now, demux, target, joining, shut_down, device, abandoned>>
workerVars == <<worker, handles>>
vars == <<sessions, created, closing, queue, worker, handles, last_activity,
          now, demux, target, joining, shut_down, device, abandoned>>

Registered == {a \in Addrs : sessions[a] # 0}

-----------------------------------------------------------------------------
(* The main thread.                                                         *)

\* Session.shutdown for the sessions of S: the flag, then the sentinel.
Shutdown(S) ==
  /\ closing' = [s \in Ids |-> closing[s] \/ s \in S]
  /\ queue' = [s \in Ids |-> IF s \in S THEN Append(queue[s], "none") ELSE queue[s]]

\* _evict_oldest_session_locked picks the least recently active peer.
Victim(a) ==
  /\ a \in Registered
  /\ \A b \in Registered : last_activity[sessions[a]] <= last_activity[sessions[b]]

\* A datagram of a console that has a session.
LookUp(a) ==
  /\ demux = "loop" /\ a \in Registered
  /\ last_activity' = [last_activity EXCEPT ![sessions[a]] = now]
  /\ target' = sessions[a] /\ demux' = "put"
  /\ UNCHANGED <<sessions, created, closing, queue, workerVars, now, joining, shut_down, device, abandoned>>

\* A Session for a, with its worker started; the table loses the addresses of gone.
Create(a, gone) ==
  LET s == created + 1
  IN  /\ created < MaxObjs
      /\ created' = s
      /\ sessions' = [b \in Addrs |->
           IF b = a THEN s ELSE IF b \in gone THEN 0 ELSE sessions[b]]
      /\ worker' = [worker EXCEPT ![s] = "loop"]
      /\ last_activity' = [last_activity EXCEPT ![s] = now]
      /\ target' = s /\ demux' = "put"
      /\ abandoned' = abandoned \cup {sessions[b] : b \in gone}
      /\ UNCHANGED <<handles, now, joining, shut_down, device>>

\* A datagram of a console that has none, with room in the table.
FirstContact(a) ==
  /\ demux = "loop" /\ a \notin Registered
  /\ Cardinality(Registered) < max_sessions
  /\ Create(a, {})
  /\ UNCHANGED <<closing, queue>>

\* (Mutant: the victim leaves the table and is not told.)
FirstContactEvictingSilently(a) ==
  /\ demux = "loop" /\ a \notin Registered
  /\ Cardinality(Registered) >= max_sessions
  /\ \E v \in Addrs : Victim(v) /\ Create(a, {v})
  /\ UNCHANGED <<closing, queue>>

\* The same with the table full.
FirstContactEvicting(a) ==
  /\ demux = "loop" /\ a \notin Registered
  /\ Cardinality(Registered) >= max_sessions
  /\ \E v \in Addrs : Victim(v) /\ Create(a, {v}) /\ Shutdown({sessions[v]})

\* _route_data, after the lookup: the datagram goes to the session's queue.
Put ==
  /\ demux = "put" /\ Len(queue[target]) < MaxQueue
  /\ queue' = [queue EXCEPT ![target] = Append(@, "data")]
  /\ demux' = "loop"
  /\ UNCHANGED <<sessions, created, closing, workerVars, last_activity, now, target,
                 joining, shut_down, device, abandoned>>

\* A DISCOVERY is answered by the main thread itself; a new handshake closes
\* the files of the session, whatever its worker does (UdpfsNegotiation says when).
Discovery ==
  /\ demux = "put"
  /\ demux' = "loop"
  /\ \/ UNCHANGED handles
     \/ handles' = [handles EXCEPT ![target] = 0]
  /\ UNCHANGED <<sessions, created, closing, queue, worker, last_activity, now, target,
                 joining, shut_down, device, abandoned>>

Idle == {a \in Registered : now - last_activity[sessions[a]] > session_timeout}

\* _sweep_idle_sessions, between two datagrams.
Sweep ==
  /\ demux = "loop" /\ Idle # {}
  /\ sessions' = [a \in Addrs |-> IF a \in Idle THEN 0 ELSE sessions[a]]
  /\ Shutdown({sessions[a] : a \in Idle})
  /\ abandoned' = abandoned \cup {sessions[a] : a \in Idle}
  /\ UNCHANGED <<created, workerVars, last_activity, now, demux, target, joining, shut_down, device>>

\* KeyboardInterrupt, at any point of the loop: _shutdown_all_sessions up to the joins.
Interrupt ==
  /\ demux \in {"loop", "put"}
  /\ shut_down' = TRUE
  /\ demux' = "joining"
  /\ joining' = {sessions[a] : a \in Registered}
  /\ sessions' = [a \in Addrs |-> 0]
  /\ Shutdown(joining')
  /\ UNCHANGED <<created, workerVars, last_activity, now, target, device, abandoned>>

\* _thread.join(timeout=2.0) returns: the worker has ended...
Join(s) ==
  /\ demux = "joining" /\ s \in joining /\ worker[s] = "gone"
  /\ joining' = joining \ {s}
  /\ UNCHANGED <<sessions, created, closing, queue, workerVars, last_activity, now, demux,
                 target, shut_down, device, abandoned>>

\* ... or two seconds have passed.
JoinTimesOut(s) ==
  /\ demux = "joining" /\ s \in joining
  /\ joining' = joining \ {s} /\ abandoned' = abandoned \cup {s}
  /\ UNCHANGED <<sessions, created, closing, queue, workerVars, last_activity, now, demux,
                 target, shut_down, device>>

\* (Mutant: the device is closed without waiting for the workers.)
CleanupAtOnce ==
  /\ demux = "joining"
  /\ device' = "closed" /\ demux' = "done"
  /\ UNCHANGED <<sessions, created, closing, queue, workerVars, last_activity, now, target,
                 joining, shut_down, abandoned>>

\* _cleanup closes the shared block device.
Cleanup ==
  /\ demux = "joining" /\ joining = {}
  /\ device' = "closed" /\ demux' = "done"
  /\ UNCHANGED <<sessions, created, closing, queue, workerVars, last_activity, now, target,
                 joining, shut_down, abandoned>>

Tick ==
  /\ now < MaxTime
  /\ now' = now + 1
  /\ UNCHANGED <<sessions, created, closing, queue, workerVars, last_activity, demux, target,
                 joining, shut_down, device, abandoned>>

-----------------------------------------------------------------------------
(* A worker: Session._run and the handlers it calls.                        *)

tableVars == <<sessions, created, closing, last_activity, mainVars>>

Stopped(s) == closing[s] \/ shut_down

\* The next item, if the loop's condition still holds.
Take(s) ==
  /\ worker[s] = "loop" /\ ~Stopped(s) /\ queue[s] # <<>>
  /\ worker' = [worker EXCEPT ![s] = IF Head(queue[s]) = "none" THEN "leaving" ELSE "io"]
  /\ queue' = [queue EXCEPT ![s] = Tail(@)]
  /\ UNCHANGED <<handles, tableVars>>

\* The get(timeout=1.0) that was begun before the flag was set returns an item.
TakeLate(s) ==
  /\ worker[s] = "loop" /\ Stopped(s) /\ queue[s] # <<>>
  /\ worker' = [worker EXCEPT ![s] = IF Head(queue[s]) = "none" THEN "leaving" ELSE "io"]
  /\ queue' = [queue EXCEPT ![s] = Tail(@)]
  /\ UNCHANGED <<handles, tableVars>>

\* (Mutant: the loop relies on the sentinel to end an evicted session.)
LeaveOnServerStop(s) ==
  /\ worker[s] = "loop" /\ shut_down
  /\ worker' = [worker EXCEPT ![s] = "leaving"]
  /\ UNCHANGED <<queue, handles, tableVars>>

\* The loop's condition is false.
Leave(s) ==
  /\ worker[s] = "loop" /\ Stopped(s)
  /\ worker' = [worker EXCEPT ![s] = "leaving"]
  /\ UNCHANGED <<queue, handles, tableVars>>

\* A handler has done its I/O and answers, at once or with a stream it waits for.
Answer(s) ==
  /\ worker[s] = "io"
  /\ \E w \in {"loop", "waiting"} : worker' = [worker EXCEPT ![s] = w]
  /\ UNCHANGED <<queue, handles, tableVars>>

\* _alloc_handle; the block device's handle 0 counts too.
Open(s) ==
  /\ worker[s] = "io" /\ handles[s] + 1 < MAX_HANDLES
  /\ handles' = [handles EXCEPT ![s] = @ + 1]
  /\ worker' = [worker EXCEPT ![s] = "loop"]
  /\ UNCHANGED <<queue, tableVars>>

\* _free_handle
Close(s) ==
  /\ worker[s] = "io" /\ handles[s] > 0
  /\ handles' = [handles EXCEPT ![s] = @ - 1]
  /\ worker' = [worker EXCEPT ![s] = "loop"]
  /\ UNCHANGED <<queue, tableVars>>

\* A wait takes any item off the queue, the sentinel too, and goes on.
WaitTakes(s) ==
  /\ worker[s] = "waiting" /\ queue[s] # <<>>
  /\ queue' = [queue EXCEPT ![s] = Tail(@)]
  /\ UNCHANGED <<workerVars, tableVars>>

\* It ends: acknowledged, or its retries exhausted.
WaitEnds(s) ==
  /\ worker[s] = "waiting"
  /\ worker' = [worker EXCEPT ![s] = "loop"]
  /\ UNCHANGED <<queue, handles, tableVars>>

\* The end of _run: the session's own handles are closed.
Exit(s) ==
  /\ worker[s] = "leaving"
  /\ handles' = [handles EXCEPT ![s] = 0]
  /\ worker' = [worker EXCEPT ![s] = "gone"]
  /\ UNCHANGED <<queue, tableVars>>

-----------------------------------------------------------------------------
Init ==
  /\ sessions = [a \in Addrs |-> 0] /\ created = 0
  /\ closing = [s \in Ids |-> FALSE] /\ queue = [s \in Ids |-> <<>>]
  /\ worker = [s \in Ids |-> "unborn"] /\ handles = [s \in Ids |-> 0]
  /\ last_activity = [s \in Ids |-> 0]
  /\ now = 0 /\ demux = "loop" /\ target = 0 /\ joining = {}
  /\ shut_down = FALSE /\ device = "open" /\ abandoned = {}

MainStep ==
  \/ \E a \in Addrs : LookUp(a) \/ FirstContact(a) \/ FirstContactEvicting(a)
  \/ Put \/ Discovery \/ Sweep \/ Interrupt \/ Cleanup
  \/ \E s \in Ids : Join(s) \/ JoinTimesOut(s)

WorkerStep(s) ==
  \/ Take(s) \/ TakeLate(s) \/ Leave(s) \/ Answer(s) \/ Open(s) \/ Close(s)
  \/ WaitTakes(s) \/ WaitEnds(s) \/ Exit(s)

Next == MainStep \/ Tick \/ \E s \in Ids : WorkerStep(s)

Spec == Init /\ [][Next]_vars

\* A worker runs: its loop, its I/O and its waits (each has a timeout and a
\* bounded number of retries) come to an end.
Fairness ==
  \A s \in Ids : /\ WF_vars(Leave(s)) /\ WF_vars(Answer(s)) /\ WF_vars(WaitEnds(s))
                 /\ WF_vars(Take(s)) /\ WF_vars(Exit(s))

FairSpec == Spec /\ Fairness

-----------------------------------------------------------------------------
(* Properties.                                                              *)

\* The type of the state.
TypeOK ==
  /\ sessions \in [Addrs -> 0 .. created] /\ created \in 0 .. MaxObjs
  /\ closing \in [Ids -> BOOLEAN]
  /\ queue \in [Ids -> Seq({"data", "none"})]
  /\ worker \in [Ids -> {"unborn", "loop", "io", "waiting", "leaving", "gone"}]
  /\ handles \in [Ids -> 0 .. MAX_HANDLES - 1]
  /\ last_activity \in [Ids -> Nat] /\ now \in Nat
  /\ demux \in {"loop", "put", "joining", "done"} /\ target \in 0 .. created
  /\ joining \subseteq Ids /\ shut_down \in BOOLEAN /\ device \in {"open", "closed"}
  /\ abandoned \subseteq Ids

\* A console in the table is served: its session has a running worker that has
\* not been told to stop, and is no other console's ("the session then still
\* exists, still holds its handles, and never serves another packet").
RegisteredIsServed ==
  \A a \in Registered :
    /\ ~closing[sessions[a]]
    /\ worker[sessions[a]] \in {"loop", "io", "waiting"}
    /\ \A b \in Registered : sessions[a] = sessions[b] => a = b

\* The datagram in hand goes to a session that is still served: eviction and
\* the sweep, which close files and stop workers, never come between the two.
PutReachesServed == demux = "put" => ~closing[target] /\ target # 0

\* A session that left the table was told to stop, a worker stops only when it
\* or the server was told to, and no handle outlives the worker that owns it.
NothingLeaks ==
  \A s \in Ids : /\ s <= created => closing[s] \/ \E a \in Addrs : sessions[a] = s
                 /\ worker[s] \in {"leaving", "gone"} => closing[s] \/ shut_down
                 /\ worker[s] \in {"unborn", "gone"} => handles[s] = 0

\* "Wait for worker threads to finish before the caller closes shared resources
\* (the block device in _cleanup), avoiding a shutdown race" (udpfs_server.py:1036).
\* The only workers that may still be inside a handler when the device is closed
\* are those that took longer than the join waits, and those of sessions that had
\* left the table before, which nobody waits for.
NoShutdownRace == device = "closed" => \A s \in Ids : worker[s] = "io" => s \in abandoned

\* The handles of a session that was evicted, swept or shut down are closed in
\* the end, although a wait may swallow the sentinel meant for the loop.
ClosedInTheEnd ==
  \A s \in Ids : closing[s] ~> (worker[s] = "gone" /\ handles[s] = 0)

=============================================================================
