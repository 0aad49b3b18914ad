---------------------------- MODULE StatusPoller ----------------------------
(***************************************************************************)
(* What the launcher knows of the servers it runs: Poller (status_client.py)   *)
(* asks each of them over the router status protocol (router_status.py,        *)
(* UdpfsServer._maybe_answer_status) in a thread of its own, and the window     *)
(* reads the last answer before it stops a server.                            *)
(*                                                                         *)
(* A run of a server is a number, 0 while it is stopped. A query and its        *)
(* answer are one datagram each, which may be lost; the asker waits.           *)
(***************************************************************************)
EXTENDS Integers, FiniteSets

CONSTANTS
  PolledServers,   \* the keys of the servers
  MaxServerRuns,   \* runs of each server (a bound)
  QuickRestart     \* whether a server may be started again within one sweep

ASSUME StatusAssumption == MaxServerRuns \in Nat /\ QuickRestart \in BOOLEAN

VARIABLES
  child,    \* server -> [run, busy, degraded]
  runs,     \* server -> the number of its last run
  poll,     \* [target, result]: server -> what set_target and the last answer left
  sweep,    \* the poller's thread: [at, todo, key, reply]
  stopped   \* the server stop_server has under way, and whether the user was asked

statusVars == <<child, runs, poll, sweep, stopped>>

NoReply == [of |-> 0, state |-> "unknown"]
NoResult == [of |-> 0, state |-> "none"]
Down == [run |-> 0, busy |-> FALSE, degraded |-> FALSE]
Resting == [at |-> "rest"]
NoStop == [key |-> "none", asked |-> FALSE]

\* _status_state: an unreadable share before a transfer, a transfer before nothing; "ready"
\* as well when the table of sessions changes while it is copied.
StatusState(c) == IF c.degraded THEN {"degraded"} ELSE {"ready"} \cup (IF c.busy THEN {"busy"} ELSE {})

\* _maybe_answer_status and build_status_reply: what the run that gets the query sends.
StatusReplies(c) == {[of |-> c.run, state |-> s] : s \in StatusState(c)}

\* is_busy: only a server that has said so.
IsBusy(r) == r.state = "busy"

-----------------------------------------------------------------------------
\* _launch_server and set_target: the result of an earlier run was cleared by its stop.
SetTarget ==
  /\ stopped = NoStop
  /\ \E k \in PolledServers :
       /\ child[k] = Down /\ poll.target[k] = 0 /\ runs[k] < MaxServerRuns
       /\ QuickRestart \/ sweep.at = "rest"
       /\ runs' = [runs EXCEPT ![k] = @ + 1]
       /\ child' = [child EXCEPT ![k] = [Down EXCEPT !.run = runs[k] + 1]]
       /\ poll' = [poll EXCEPT !.target[k] = runs[k] + 1]
  /\ UNCHANGED <<sweep, stopped>>

\* stop_server: a server that has said it is busy is stopped only after a question; then the
\* process ends and its target is cleared.
ConfirmStop ==
  /\ stopped = NoStop
  /\ \E k \in PolledServers :
       /\ child[k] # Down
       /\ stopped' = [key |-> k, asked |-> IsBusy(poll.result[k])]
  /\ UNCHANGED <<child, runs, poll, sweep>>

ClearTarget ==
  /\ stopped # NoStop
  /\ \/ /\ child' = [child EXCEPT ![stopped.key] = Down]
        /\ poll' = [target |-> [poll.target EXCEPT ![stopped.key] = 0], result |-> [poll.result EXCEPT ![stopped.key] = NoResult]]
     \/ stopped.asked /\ UNCHANGED <<child, poll>>
  /\ stopped' = NoStop
  /\ UNCHANGED <<runs, sweep>>

\* A server ends by itself; the window's timer sees it and clears the target.
ServerDies ==
  /\ \E k \in PolledServers : child[k] # Down /\ stopped.key # k /\ child' = [child EXCEPT ![k] = Down]
  /\ UNCHANGED <<runs, poll, sweep, stopped>>

SeeExit ==
  /\ stopped = NoStop
  /\ \E k \in PolledServers :
       /\ poll.target[k] # 0 /\ child[k] = Down
       /\ poll' = [target |-> [poll.target EXCEPT ![k] = 0], result |-> [poll.result EXCEPT ![k] = NoResult]]
  /\ UNCHANGED <<child, runs, sweep, stopped>>

\* The server: transfers begin and end, the share goes and comes back.
ServerMoves ==
  /\ \E k \in PolledServers, b, d \in BOOLEAN :
       child[k] # Down /\ stopped.key # k /\ child' = [child EXCEPT ![k].busy = b, ![k].degraded = d]
  /\ UNCHANGED <<runs, poll, sweep, stopped>>

-----------------------------------------------------------------------------
\* poll_once: the targets are copied, then each is asked and its answer kept.
SweepBegins ==
  /\ sweep.at = "rest"
  /\ sweep' = [at |-> "next", todo |-> {k \in PolledServers : poll.target[k] # 0}]
  /\ UNCHANGED <<child, runs, poll, stopped>>

\* query: the reply of the run that gets the datagram, or none in time.
Ask ==
  /\ sweep.at = "next"
  /\ IF sweep.todo = {} THEN sweep' = Resting
     ELSE \E k \in sweep.todo :
          \E r \in {NoReply} \cup (IF child[k] = Down THEN {} ELSE StatusReplies(child[k])) :
            sweep' = [at |-> "record", todo |-> sweep.todo \ {k}, key |-> k, reply |-> r]
  /\ UNCHANGED <<child, runs, poll, stopped>>

\* Mutant: the answer is kept whether or not the target still exists.
KeptAlways(k) == TRUE

\* Only targets that still exist keep an answer.
Kept(k) == poll.target[k] # 0

RecordAnswer ==
  /\ sweep.at = "record"
  /\ poll' = IF Kept(sweep.key) THEN [poll EXCEPT !.result[sweep.key] = sweep.reply] ELSE poll
  /\ sweep' = [at |-> "next", todo |-> sweep.todo]
  /\ UNCHANGED <<child, runs, stopped>>

StatusInit ==
  /\ child = [k \in PolledServers |-> Down] /\ runs = [k \in PolledServers |-> 0]
  /\ poll = [target |-> [k \in PolledServers |-> 0], result |-> [k \in PolledServers |-> NoResult]]
  /\ sweep = Resting /\ stopped = NoStop

StatusNext == SetTarget \/ ConfirmStop \/ ClearTarget \/ ServerDies \/ SeeExit \/ ServerMoves \/ SweepBegins \/ Ask \/ RecordAnswer

StatusSpec == StatusInit /\ [][StatusNext]_statusVars

-----------------------------------------------------------------------------
\* What the launcher shows of a server was said by the run it started: an answer that is
\* under way when a server is stopped is not kept for the next one. ("a server stopped
\* mid-sweep must not have a stale answer reinstated behind clear_target")
AnswerOfThisRun == \A k \in PolledServers :
  poll.result[k].of # 0 => poll.result[k].of = poll.target[k]
=============================================================================
