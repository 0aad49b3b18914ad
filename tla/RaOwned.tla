------------------------------- MODULE RaOwned -------------------------------
(***************************************************************************)
(* The owned RetroAchievements service: the UDP loop of ra_owned_service.py    *)
(* with the receiver it owns (ra_receiver.py, ra_evaluated_receiver.py), the    *)
(* resolver thread, the account session (ra_account_worker.py) whose methods    *)
(* the loop runs for callers, and the callers themselves.                       *)
(*                                                                           *)
(* The loop's iteration is three steps, cut where it releases _frame_lock with   *)
(* something at stake: "head" (reset and commands), "work" (results, jobs and    *)
(* one datagram) and "publish". rx is the receiver with its evaluator, ses the    *)
(* AccountSession, svc the OwnedService, tasks what the callers' account          *)
(* workers are at. What a datagram's bytes say is RaFrames.                       *)
(***************************************************************************)
EXTENDS Naturals, Sequences, SequencesExt

CONSTANTS
  Images,         \* image hashes a console can ask about
  Accounts,       \* RetroAchievements users
  FrameCapacity,  \* frame_capacity
  MaxCmds,        \* bound on the commands waiting for the loop
  MaxRaCalls,     \* bound on the calls of the owner of the service
  MaxAsked,       \* bound on the requests that take the lease or start an identification
  MaxRuns         \* bound on the times the service is started

ASSUME RaOwnedAssumption ==
  /\ "none" \notin Images \cup Accounts
  /\ FrameCapacity \in Nat \ {0} /\ MaxCmds \in Nat /\ MaxRaCalls \in Nat /\ MaxAsked \in Nat /\ MaxRuns \in Nat \ {0}

VARIABLES rx, ses, svc, tasks

raVars == <<rx, ses, svc, tasks>>

NoJob == [token |-> 0, image |-> "none"]
NoAcct == [user |-> "none", epoch |-> 0]
NoCtx == [user |-> "none", epoch |-> 0, image |-> "none"]
NoTask == [id |-> 0, epoch |-> 0, op |-> "none", ctx |-> NoCtx, job |-> NoJob]

-----------------------------------------------------------------------------
(* Receiver and EvaluatedReceiver.                                           *)

NewReceiver ==
  [token |-> 1, gen |-> 2, owner |-> FALSE, pending |-> NoJob, queued |-> NoJob, identified |-> "none", unsupported |-> FALSE,
   sent |-> FALSE, watch |-> "none", acct |-> NoAcct, evaluator |-> 0, ctx |-> NoCtx]

\* Receiver.clear, with WatchSession.clear
RxClear(R) ==
  [R EXCEPT !.token = @ + 1, !.gen = @ + 1, !.owner = FALSE, !.pending = NoJob, !.queued = NoJob, !.identified = "none",
            !.unsupported = FALSE, !.sent = FALSE, !.watch = "none"]

\* EvaluatedReceiver._reconcile
Reconcile(R) ==
  IF R.evaluator # 0 /\ (R.watch = "none" \/ R.evaluator # R.gen)
  THEN [R EXCEPT !.evaluator = 0, !.ctx = NoCtx] ELSE R

RxReset(R) == Reconcile(RxClear(R))

\* bind_account, clear_account
RxBind(R, acct) == IF acct = R.acct THEN R ELSE [RxReset(R) EXCEPT !.acct = acct]
RxClearAccount(R) == [RxReset(R) EXCEPT !.acct = NoAcct]

\* Receiver._expire: the console's lease is over, or the identification took too long.
Expired(R) ==
  {R} \cup (IF R.owner THEN {RxReset(R)} ELSE {})
      \cup (IF R.pending # NoJob THEN {[R EXCEPT !.token = @ + 1, !.pending = NoJob, !.queued = NoJob]} ELSE {})

\* complete, of both: "watch" installs a list and its evaluator, "unsupported" and "failed" do not.
RxComplete(R, job, what) ==
  IF R.pending # job \/ job = NoJob \/ job.token # R.token THEN R
  ELSE LET S == [R EXCEPT !.pending = NoJob, !.queued = NoJob, !.identified = IF what = "failed" THEN "none" ELSE job.image,
                          !.unsupported = what = "unsupported"]
       IN  IF what # "watch" THEN Reconcile(S)
           ELSE [S EXCEPT !.gen = @ + 1, !.watch = job.image, !.evaluator = R.gen + 1, !.ctx = NoCtx]

\* complete_set: no watch list can be derived (and everything is revoked), or it is installed.
CompleteSet(R, job, ctx) ==
  IF R.acct # [user |-> ctx.user, epoch |-> ctx.epoch] \/ R.pending # job \/ job = NoJob \/ job.image # ctx.image
  THEN {RxComplete(R, job, "failed")}
  ELSE {RxReset(R)} \cup
       (IF job.token = R.token THEN {[RxComplete(R, job, "watch") EXCEPT !.ctx = ctx]} ELSE {R})

\* Receiver.receive, the requests. A RAG1 serves the last chunk of the installed list.
Request(R, kind, i) ==
  IF kind = "RAG1" THEN IF R.owner /\ R.watch = i THEN [R EXCEPT !.sent = TRUE] ELSE R
  ELSE IF kind = "RAP1" \/ R.identified = i \/ R.pending.image = i THEN [R EXCEPT !.owner = TRUE]
  ELSE LET job == [token |-> R.token + 1, image |-> i]
       IN  Reconcile([R EXCEPT !.owner = TRUE, !.token = @ + 1, !.gen = @ + 1, !.watch = "none", !.sent = FALSE,
                               !.identified = "none", !.unsupported = FALSE, !.pending = job, !.queued = job])

-----------------------------------------------------------------------------
(* AccountSession, on the loop's thread.                                     *)

NewSession == [epoch |-> 0, serial |-> 0, user |-> "none", pending |-> NoTask, ctx |-> NoCtx, store |-> "none"]

Both(R, S) == [rx |-> R, ses |-> S]

Logout(R, S, forget) ==
  Both(RxClearAccount(R),
       [S EXCEPT !.epoch = @ + 1, !.user = "none", !.pending = NoTask, !.ctx = NoCtx, !.store = IF forget THEN "none" ELSE @])

\* _new_task
NewTask(S, op, ctx, job) ==
  LET t == [id |-> S.serial + 1, epoch |-> S.epoch, op |-> op, ctx |-> ctx, job |-> job]
  IN  [S EXCEPT !.serial = @ + 1, !.pending = t]

\* begin_login, begin_resume and begin_import; begin_set for the receiver's job;
\* begin_start_session, begin_award and begin_ping for the session's context
BeginTask(R, S, op) ==
  CASE op = "login" -> LET L == Logout(R, S, FALSE) IN Both(L.rx, NewTask(L.ses, op, NoCtx, NoJob))
    [] op = "set" /\ S.user # "none" /\ R.pending # NoJob ->
         Both(R, NewTask(S, op, [user |-> S.user, epoch |-> S.epoch, image |-> R.pending.image], R.pending))
    [] op = "award" /\ S.user # "none" /\ S.ctx.epoch = S.epoch /\ S.ctx.user = S.user -> Both(R, NewTask(S, op, S.ctx, NoJob))
    [] OTHER -> Both(R, S)

\* accept: only for the pending task of this epoch; the pending task is over in any case.
Accept(R, S, t, user, remember) ==
  LET done == [S EXCEPT !.pending = NoTask]
  IN  IF S.pending # t \/ t = NoTask \/ t.epoch # S.epoch THEN {Both(R, S)}
      ELSE IF user = "none" \/ t.op = "award" THEN {Both(R, done)}
      ELSE IF t.op = "set"
      THEN {Both(N, [done EXCEPT !.ctx = IF N.ctx = t.ctx /\ N.gen # R.gen THEN t.ctx ELSE @]) : N \in CompleteSet(R, t.job, t.ctx)}
      ELSE {Both(RxBind(R, [user |-> user, epoch |-> S.epoch]),
                 [done EXCEPT !.user = user, !.store = IF remember THEN user ELSE @])}

-----------------------------------------------------------------------------
(* OwnedService: the loop.                                                   *)

NoFrame == [old |-> FALSE, gen |-> 0, ctx |-> NoCtx, unlock |-> FALSE]

\* _discard_frame. The queue of raw frames is filled and emptied wherever the evaluations
\* are and is left out.
Discard(V) == [V EXCEPT !.evals = <<>>, !.latest = NoFrame, !.frameGen = 0]

\* Whatever was read for a game or an account that is no longer current is dropped.
DropStale(V, R) == IF V.frameGen # R.gen THEN Discard(V) ELSE V
CancelStale(V, R) == IF V.active # NoJob /\ V.active.token # R.token THEN [V EXCEPT !.cancel = TRUE] ELSE V

\* _drain_commands, one command. The callback's caller has its result in `tasks`.
Command(c, R, S) ==
  CASE c.kind = "clear" -> {Logout(R, S, c.forget)}
    [] c.kind = "begin" -> {BeginTask(R, S, c.op)}
    [] c.kind = "accept" -> Accept(R, S, c.task, c.user, c.remember)

DrainOne ==
  \E n \in Command(Head(svc.cmds), rx, ses) :
    LET c == Head(svc.cmds)
        V == [svc EXCEPT !.cmds = Tail(@), !.account = [user |-> n.ses.user, epoch |-> n.ses.epoch]]
    IN  /\ rx' = n.rx /\ ses' = n.ses
        /\ svc' = IF c.kind = "clear" THEN V ELSE DropStale(CancelStale(V, n.rx), n.rx)
        /\ tasks' = IF c.kind = "begin" /\ n.ses.serial # ses.serial THEN tasks \cup {n.ses.pending} ELSE tasks

\* The head of the loop: a reset, then one command after another.
LoopHead ==
  /\ svc.loop = "head" /\ ~svc.stop
  /\ IF svc.reset
     THEN /\ rx' = RxReset(rx)
          /\ svc' = [Discard(svc) EXCEPT !.reset = FALSE]
          /\ UNCHANGED <<ses, tasks>>
     ELSE IF svc.cmds = <<>> THEN svc' = [svc EXCEPT !.loop = "work"] /\ UNCHANGED <<rx, ses, tasks>>
     ELSE DrainOne

\* _complete_result: a set for the account the resolver saw, no support, or a failure
CompleteResult(R, r) ==
  IF r.what = "set" THEN CompleteSet(R, r.job, r.ctx) ELSE {RxComplete(R, r.job, r.what)}

\* The rest of the iteration: a result, a job for the resolver, and at most one datagram.
LoopWork ==
  /\ svc.loop = "work"
  /\ \E R0 \in Expired(rx) : \E R1 \in IF svc.results = <<>> THEN {R0} ELSE CompleteResult(R0, Head(svc.results)) :
       LET hand == svc.jobs = <<>> /\ R1.queued # NoJob
           R2 == IF hand THEN [R1 EXCEPT !.queued = NoJob] ELSE R1
           V == DropStale(CancelStale([svc EXCEPT !.results = <<>>, !.jobs = IF hand THEN <<R1.queued>> ELSE @], R2), R2)
       IN  \/ rx' = R2 /\ svc' = [V EXCEPT !.loop = "head"]
           \/ \E kind \in {"RAP1", "RAQ1", "RAG1"}, i \in Images :
                LET R3 == Request(R2, kind, i)
                    asked == svc.asked + (IF R3.owner # R2.owner \/ R3.token # R2.token THEN 1 ELSE 0)
                IN  /\ asked <= MaxAsked
                    /\ rx' = R3 /\ svc' = [DropStale(V, R3) EXCEPT !.loop = "head", !.asked = asked]
           \/ \E unlock \in BOOLEAN :
                /\ R2.owner /\ R2.watch # "none" /\ R2.sent
                /\ rx' = R2
                /\ svc' = [V EXCEPT !.loop = "publish",
                                    !.out = [old |-> FALSE, gen |-> R2.gen, ctx |-> R2.ctx, unlock |-> unlock /\ R2.evaluator = R2.gen]]
  /\ UNCHANGED <<ses, tasks>>

\* Mutant: a reset that came in between is not looked at.
PublishRegardless(V) ==
  IF V.out.unlock THEN [V EXCEPT !.frameGen = V.out.gen, !.latest = NoFrame,
                                 !.evals = IF Len(@) = FrameCapacity THEN @ ELSE Append(@, V.out)]
  ELSE [V EXCEPT !.frameGen = V.out.gen, !.latest = V.out]

\* A full unlock queue drops the new unlock.
Publish(V) ==
  IF V.reset THEN V
  ELSE IF V.out.unlock THEN [V EXCEPT !.frameGen = V.out.gen, !.latest = NoFrame,
                                      !.evals = IF Len(@) = FrameCapacity THEN @ ELSE Append(@, V.out)]
  ELSE [V EXCEPT !.frameGen = V.out.gen, !.latest = V.out]

LoopPublish ==
  /\ svc.loop = "publish"
  /\ svc' = [Publish(svc) EXCEPT !.loop = "head", !.out = NoFrame]
  /\ UNCHANGED <<rx, ses, tasks>>

\* The finally of _serve: what is left in the command queue, then a logout.
LoopEnds ==
  /\ svc.stop /\ svc.loop = "head"
  /\ IF svc.cmds # <<>> THEN DrainOne
     ELSE LET n == Logout(rx, ses, FALSE)
          IN  /\ rx' = n.rx /\ ses' = n.ses
              /\ svc' = [Discard(svc) EXCEPT !.loop = "dead", !.account = NoAcct, !.cancel = svc.active # NoJob, !.wanted = "out"]
              /\ UNCHANGED tasks

-----------------------------------------------------------------------------
(* OwnedService: the resolver thread.                                        *)

\* _resolve takes a job; the resolver sees the account the service shows at that time.
WorkerTakes ==
  /\ svc.worker = "idle" /\ ~svc.stop /\ svc.jobs # <<>>
  /\ svc' = [svc EXCEPT !.worker = "busy", !.jobs = <<>>, !.active = Head(svc.jobs), !.cancel = FALSE,
                        !.saw = [user |-> svc.account.user, epoch |-> svc.account.epoch, image |-> Head(svc.jobs).image]]
  /\ UNCHANGED <<rx, ses, tasks>>

\* What the child may answer and valid_identification_result lets through: no support, or
\* the set of the account it was started for.
Identifications(saw) == {"unsupported"} \cup (IF saw.user # "none" THEN {"set"} ELSE {})

\* The lookup ends (ProcessResolver: the answer, the deadline, or the cancellation) and
\* its result waits for room.
WorkerResolves ==
  /\ svc.worker = "busy"
  /\ \E what \in {"failed"} \cup (IF svc.cancel THEN {} ELSE Identifications(svc.saw)) :
       svc' = [svc EXCEPT !.worker = "put", !.active = NoJob, !.cancel = FALSE, !.saw = NoCtx,
                          !.found = [job |-> svc.active, what |-> what, ctx |-> IF what = "set" THEN svc.saw ELSE NoCtx]]
  /\ UNCHANGED <<rx, ses, tasks>>

WorkerPuts ==
  /\ svc.worker = "put"
  /\ svc.stop \/ svc.results = <<>>
  /\ svc' = [svc EXCEPT !.worker = "idle", !.results = IF svc.stop THEN @ ELSE <<svc.found>>,
                        !.found = [job |-> NoJob, what |-> "failed", ctx |-> NoCtx]]
  /\ UNCHANGED <<rx, ses, tasks>>

-----------------------------------------------------------------------------
(* The callers.                                                              *)

Call == svc.calls < MaxRaCalls
CmdRoom == Len(svc.cmds) < MaxCmds

\* reset
Revoke(V) == [Discard(V) EXCEPT !.reset = TRUE, !.cancel = @ \/ V.active # NoJob, !.out.old = V.loop = "publish", !.calls = @ + 1]

ServiceReset ==
  /\ Call /\ svc' = Revoke(svc) /\ UNCHANGED <<rx, ses, tasks>>

\* clear_account
ClearAccount ==
  /\ Call /\ CmdRoom
  /\ \E forget \in BOOLEAN :
       svc' = [Revoke(svc) EXCEPT !.account = [user |-> "none", epoch |-> @.epoch + 1],
                                  !.cmds = Append(@, [kind |-> "clear", forget |-> forget]), !.wanted = IF forget THEN "forgotten" ELSE "out"]
  /\ UNCHANGED <<rx, ses, tasks>>

\* run_account with one of the session's begin_ methods
RunBegin ==
  /\ Call /\ CmdRoom /\ svc.loop # "dead"
  /\ \E op \in {"login", "set", "award"} :
       svc' = [svc EXCEPT !.cmds = Append(@, [kind |-> "begin", op |-> op]), !.calls = @ + 1, !.wanted = IF op = "login" THEN "in" ELSE @]
  /\ UNCHANGED <<rx, ses, tasks>>

\* _Lookup's answer to a task, as far as valid_account_result lets it through: a signed-in
\* account for a login, the task's own account for the others, or a failure.
AccountAnswers(t) == {"none"} \cup (IF t.op = "login" THEN Accounts ELSE {t.ctx.user})

\* The caller's AccountWorker ends; the caller hands the result to accept, with run_account.
TaskEnds ==
  /\ CmdRoom /\ svc.loop # "dead"
  /\ \E t \in tasks : \E user \in AccountAnswers(t), remember \in BOOLEAN :
       /\ remember => t.op = "login" /\ user # "none"
       /\ svc' = [svc EXCEPT !.cmds = Append(@, [kind |-> "accept", task |-> t, user |-> user, remember |-> remember])]
       /\ tasks' = tasks \ {t}
  /\ UNCHANGED <<rx, ses>>

\* take_evaluation
TakeEvaluation ==
  /\ ~svc.reset
  /\ \/ svc.evals # <<>> /\ svc' = [svc EXCEPT !.evals = Tail(@)]
     \/ svc.evals = <<>> /\ svc.latest # NoFrame /\ svc' = [svc EXCEPT !.latest = NoFrame]
  /\ UNCHANGED <<rx, ses, tasks>>

\* stop, and start once both threads are gone
ServiceStop ==
  /\ Call /\ ~svc.stop
  /\ svc' = [Revoke(svc) EXCEPT !.stop = TRUE]
  /\ UNCHANGED <<rx, ses, tasks>>

ServiceStart ==
  /\ svc.loop = "dead" /\ svc.worker = "idle" /\ svc.runs < MaxRuns
  /\ rx' = NewReceiver /\ ses' = [NewSession EXCEPT !.store = ses.store]
  /\ svc' = [Discard(svc) EXCEPT !.loop = "head", !.stop = FALSE, !.reset = FALSE, !.jobs = <<>>, !.results = <<>>, !.runs = @ + 1]
  /\ UNCHANGED tasks

RaInit ==
  /\ rx = NewReceiver /\ ses = NewSession /\ tasks = {}
  /\ svc = [loop |-> "head", stop |-> FALSE, reset |-> FALSE, cmds |-> <<>>, jobs |-> <<>>, results |-> <<>>, active |-> NoJob,
            cancel |-> FALSE, worker |-> "idle", saw |-> NoCtx, found |-> [job |-> NoJob, what |-> "failed", ctx |-> NoCtx],
            evals |-> <<>>, latest |-> NoFrame, frameGen |-> 0, out |-> NoFrame, account |-> NoAcct,
            asked |-> 0, calls |-> 0, runs |-> 1, wanted |-> "out"]

RaNext ==
  \/ LoopHead
  \/ LoopWork
  \/ LoopPublish
  \/ LoopEnds
  \/ WorkerTakes
  \/ WorkerResolves
  \/ WorkerPuts
  \/ ServiceReset
  \/ ClearAccount
  \/ RunBegin
  \/ TaskEnds
  \/ TakeEvaluation
  \/ ServiceStop
  \/ ServiceStart

RaSpec == RaInit /\ [][RaNext]_raVars

-----------------------------------------------------------------------------
(* Properties.                                                               *)

\* Once reset, clear_account or stop has returned, no caller is handed a frame or an unlock
\* of the time before it, whichever step the loop was at. ("Immediately hide queued frames")
NothingFromBefore ==
  \A x \in ToSet(svc.evals) \cup {svc.latest} : ~x.old

\* A watch list is evaluated for the account that is signed in and the image the console
\* asked about, however late the set it came from was.
SetIsCurrent ==
  rx.ctx # NoCtx =>
    /\ rx.acct = [user |-> rx.ctx.user, epoch |-> rx.ctx.epoch]
    /\ rx.ctx.image = rx.watch /\ rx.ctx.image = rx.identified

\* Once every command is done, who logged out is out: no late result signs the account
\* back in or brings back a forgotten token. ("a cancelled child cannot sign an account back in")
LoggedOutStaysOut ==
  svc.cmds = <<>> /\ svc.wanted # "in" =>
    /\ ses.user = "none" /\ rx.acct = NoAcct
    /\ svc.wanted = "forgotten" => ses.store = "none"

\* What is shown and evaluated is bound to the account signed in and the image being played:
\* nothing of an earlier one comes through a queue, a late result or a finished task.
AccountBound == NothingFromBefore /\ SetIsCurrent /\ LoggedOutStaysOut

=============================================================================
