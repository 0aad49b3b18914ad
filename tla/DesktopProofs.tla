---------------------------- MODULE DesktopProofs ----------------------------
(***************************************************************************)
(* What the parts of the launcher promise, for every number of servers, images, *)
(* titles, frames, runs and achievements: the status poller, the library window, *)
(* the RA15 receiver, the library catalogue, the achievement notifications, the   *)
(* DHCP helper of a direct link, the owned RetroAchievements service, the         *)
(* launcher's processes and the network port of a direct link. Each has its own    *)
(* inductive invariant; they share no state.                                     *)
(***************************************************************************)
EXTENDS StatusPoller, LibraryWindow, RaFrames, LibraryCatalog, RaSession, DhcpResponder, RaOwned, Launcher, DirectLink,
        FiniteSetTheorems, TLAPS

-----------------------------------------------------------------------------
(* StatusPoller: what is shown was said by the run the launcher started.     *)

PollTyped ==
  /\ child \in [PolledServers -> [run : Nat, busy : BOOLEAN, degraded : BOOLEAN]]
  /\ runs \in [PolledServers -> Nat]
  /\ DOMAIN poll = {"target", "result"}
  /\ poll.target \in [PolledServers -> Nat]
  /\ poll.result \in [PolledServers -> [of : Nat, state : {"none", "unknown", "ready", "busy", "degraded"}]]
  /\ stopped = NoStop \/ stopped.key \in PolledServers
  /\ sweep.at \in {"rest", "next", "record"}
  /\ sweep.at # "rest" => sweep.todo \subseteq PolledServers
  /\ sweep.at = "record" =>
       sweep.key \in PolledServers /\ sweep.reply \in [of : Nat, state : {"unknown", "ready", "busy", "degraded"}]

\* A child that runs is the run its target names, so an answer under way is of the target,
\* or of a target that has been cleared since.
AnswersFollowTargets ==
  /\ \A k \in PolledServers : child[k] = Down \/ child[k].run = poll.target[k]
  /\ sweep.at = "record" /\ sweep.reply.of # 0 => poll.target[sweep.key] \in {0, sweep.reply.of}

StatusInv == PollTyped /\ AnswersFollowTargets /\ AnswerOfThisRun

\* The inductive invariant of StatusPoller, when no server is started again within one sweep.
THEOREM StatusInvariant == ASSUME ~QuickRestart PROVE StatusSpec => []StatusInv
<1>1. StatusInit => StatusInv
  BY DEF StatusInit, StatusInv, PollTyped, AnswersFollowTargets, AnswerOfThisRun, Down, NoResult, Resting, NoStop
<1>2. StatusInv /\ [StatusNext]_statusVars => StatusInv'
  <2> SUFFICES ASSUME StatusInv, [StatusNext]_statusVars PROVE StatusInv'
    OBVIOUS
  <2> USE DEF StatusInv, PollTyped, AnswersFollowTargets, AnswerOfThisRun
  <2>1. CASE SetTarget
    <3>1. PICK k \in PolledServers :
            /\ child[k] = Down /\ poll.target[k] = 0 /\ runs[k] < MaxServerRuns
            /\ QuickRestart \/ sweep.at = "rest"
            /\ runs' = [runs EXCEPT ![k] = @ + 1]
            /\ child' = [child EXCEPT ![k] = [Down EXCEPT !.run = runs[k] + 1]]
            /\ poll' = [poll EXCEPT !.target[k] = runs[k] + 1]
      BY <2>1, Zenon DEF SetTarget
    <3>2. sweep.at = "rest"
      BY <3>1, Zenon
    <3>3. [Down EXCEPT !.run = runs[k] + 1] \in [run : Nat, busy : BOOLEAN, degraded : BOOLEAN]
          /\ [Down EXCEPT !.run = runs[k] + 1].run = runs[k] + 1
      <4>1. Down \in [run : Nat, busy : BOOLEAN, degraded : BOOLEAN] /\ runs[k] \in Nat
        BY DEF Down
      <4> QED BY ONLY <4>1
    <3>4. poll'.target = [poll.target EXCEPT ![k] = runs[k] + 1] /\ poll'.result = poll.result
          /\ DOMAIN poll' = {"target", "result"}
      BY <3>1
    <3> QED BY <2>1, <3>1, <3>2, <3>3, <3>4 DEF SetTarget
  <2>2. CASE ConfirmStop
    BY <2>2 DEF ConfirmStop
  <2>3. CASE ClearTarget
    <3> DEFINE cleared ==
          /\ child' = [child EXCEPT ![stopped.key] = Down]
          /\ poll' = [target |-> [poll.target EXCEPT ![stopped.key] = 0], result |-> [poll.result EXCEPT ![stopped.key] = NoResult]]
    <3>1. stopped.key \in PolledServers /\ stopped' = NoStop /\ UNCHANGED <<runs, sweep>>
      BY <2>3 DEF ClearTarget
    <3>2. CASE cleared
      BY <3>1, <3>2 DEF Down, NoResult
    <3>3. CASE UNCHANGED <<child, poll>>
      BY <3>1, <3>3
    <3> QED BY <2>3, <3>2, <3>3 DEF ClearTarget
  <2>4. CASE ServerDies
    <3>1. PICK k \in PolledServers : child' = [child EXCEPT ![k] = Down]
      BY <2>4 DEF ServerDies
    <3>2. Down \in [run : Nat, busy : BOOLEAN, degraded : BOOLEAN]
      BY DEF Down
    <3> QED BY <2>4, <3>1, <3>2 DEF ServerDies
  <2>5. CASE SeeExit
    BY <2>5 DEF SeeExit, Down, NoResult
  <2>6. CASE ServerMoves
    <3>1. PICK k \in PolledServers, b \in BOOLEAN, d \in BOOLEAN :
            child[k] # Down /\ child' = [child EXCEPT ![k].busy = b, ![k].degraded = d]
      BY <2>6 DEF ServerMoves
    <3>2. PICK c : c = [child EXCEPT ![k].busy = b]
      OBVIOUS
    <3>3. c \in [PolledServers -> [run : Nat, busy : BOOLEAN, degraded : BOOLEAN]]
          /\ c[k].run = child[k].run /\ \A j \in PolledServers \ {k} : c[j] = child[j]
      BY <3>2
    <3>4. child' = [c EXCEPT ![k].degraded = d]
      BY <3>1, <3>2
    <3>5. child' \in [PolledServers -> [run : Nat, busy : BOOLEAN, degraded : BOOLEAN]]
          /\ child'[k].run = c[k].run /\ \A j \in PolledServers \ {k} : child'[j] = c[j]
      BY <3>3, <3>4
    <3> QED BY <2>6, <3>1, <3>3, <3>5 DEF ServerMoves
  <2>7. CASE SweepBegins
    BY <2>7 DEF SweepBegins
  <2>8. CASE Ask
    <3>1. CASE sweep.todo = {}
      BY <2>8, <3>1 DEF Ask, Resting
    <3>2. CASE sweep.todo # {}
      <4>1. PICK k \in sweep.todo :
              \E r \in {NoReply} \cup (IF child[k] = Down THEN {} ELSE StatusReplies(child[k])) :
                sweep' = [at |-> "record", todo |-> sweep.todo \ {k}, key |-> k, reply |-> r]
        BY <2>8, <3>2 DEF Ask
      <4>2. PICK r \in {NoReply} \cup (IF child[k] = Down THEN {} ELSE StatusReplies(child[k])) :
                sweep' = [at |-> "record", todo |-> sweep.todo \ {k}, key |-> k, reply |-> r]
        BY <4>1
      <4>3. k \in PolledServers /\ sweep.todo \subseteq PolledServers
        BY <2>8 DEF Ask
      <4>4. r \in [of : Nat, state : {"unknown", "ready", "busy", "degraded"}] /\ (r.of # 0 => r.of = poll.target[k])
        <5>1. CASE r = NoReply
          BY <5>1 DEF NoReply
        <5>2. CASE child[k] # Down /\ r \in StatusReplies(child[k])
          BY <4>3, <5>2 DEF StatusReplies, StatusState
        <5> QED BY <4>2, <5>1, <5>2
      <4> QED BY <2>8, <4>2, <4>3, <4>4 DEF Ask
    <3> QED BY <3>1, <3>2
  <2>9. CASE RecordAnswer
    <3>1. sweep.key \in PolledServers /\ sweep.at = "record"
      BY <2>9 DEF RecordAnswer
    <3>2. CASE Kept(sweep.key)
      <4>1. poll'.target = poll.target /\ poll'.result = [poll.result EXCEPT ![sweep.key] = sweep.reply]
            /\ DOMAIN poll' = {"target", "result"}
        BY <2>9, <3>1, <3>2 DEF RecordAnswer
      <4> QED BY <2>9, <3>1, <3>2, <4>1 DEF RecordAnswer, Kept
    <3>3. CASE ~Kept(sweep.key)
      BY <2>9, <3>1, <3>3 DEF RecordAnswer
    <3> QED BY <3>2, <3>3
  <2>10. CASE UNCHANGED statusVars
    BY <2>10 DEF statusVars
  <2> QED BY <2>1, <2>2, <2>3, <2>4, <2>5, <2>6, <2>7, <2>8, <2>9, <2>10 DEF StatusNext
<1> QED BY <1>1, <1>2, PTL DEF StatusSpec

\* Poller (status_client.py): the answer kept for a server was given by the run the launcher
\* started, whatever is stopped, dies or is asked in between; a restart within one sweep is
\* the case the code does not cover.
THEOREM AnswersOfThisRun == ASSUME ~QuickRestart PROVE StatusSpec => []AnswerOfThisRun
<1>1. StatusInv => AnswerOfThisRun
  BY DEF StatusInv
<1> QED BY <1>1, StatusInvariant, PTL

-----------------------------------------------------------------------------
(* LibraryWindow: what is on display answers the last refresh.               *)

WinFields == {"busy", "loading", "pending", "cancel", "closed"}

WinOK(w) ==
  /\ DOMAIN w = WinFields
  /\ w.busy \in BOOLEAN /\ w.loading \in BOOLEAN /\ w.pending \in BOOLEAN /\ w.cancel \in BOOLEAN

\* The worker k while the window is w and c refreshes were asked for: one thread at a time,
\* the loading flag says which kind, and rows being loaded are the last asked for unless another
\* refresh is remembered.
WorkerOK(k, w, c) ==
  /\ k.op # "none" => w.busy /\ (w.loading <=> k.op = "rows")
  /\ k.op = "rows" =>
       /\ DOMAIN k = {"op", "at", "click", "cut"} /\ k.cut \in BOOLEAN
       /\ (k.cut => w.cancel) /\ (w.pending \/ k.click = c)
  /\ k.op = "transfer" => DOMAIN k = {"op", "at"}

\* The queue q, likewise: one answer at most.
EventsOK(q, k, w, c) ==
  q # <<>> =>
    /\ w.busy /\ k.op = "none" /\ q = <<Head(q)>>
    /\ w.loading =>
         /\ Head(q).kind \in {"rows", "error"} /\ (w.pending \/ Head(q).click = c)
         /\ Head(q).kind = "rows" /\ Head(q).cut => Head(q).said /\ w.cancel
    /\ ~w.loading => Head(q).kind \in {"done", "error"}

WindowInv ==
  /\ WinOK(win) /\ asked \in BOOLEAN
  /\ WorkerOK(worker, win, clicks)
  /\ EventsOK(events, worker, win, clicks)
  /\ win.busy => worker.op # "none" \/ events # <<>>
  /\ worker.op # "none" => events = <<>>
  /\ win.pending \/ (win.busy /\ win.loading) \/ shown.click = clicks
  /\ win.pending => win.busy
  /\ win.cancel => asked \/ win.pending

LEMMA OneEvent ==
  ASSUME NEW e, NEW q, q = Append(<<>>, e)
  PROVE  q # <<>> /\ q = <<Head(q)>> /\ Head(q) = e
OBVIOUS

\* run with a loading of rows: whatever was remembered is now being answered.
LEMMA RunsRows ==
  ASSUME WinOK(win), RunTask(LoadRows(clicks')), events' = <<>>
  PROVE  WindowInv'
<1>1. worker' = [op |-> "rows", at |-> 0, click |-> clicks', cut |-> FALSE] /\ asked' = FALSE
  BY DEF RunTask, LoadRows
<1>2. WinOK(win') /\ win'.busy /\ ~win'.cancel /\ win'.loading /\ ~win'.pending
  BY DEF RunTask, LoadRows, WinOK, WinFields
<1>3. WorkerOK(worker', win', clicks')
  BY <1>1, <1>2 DEF WorkerOK
<1>4. EventsOK(events', worker', win', clicks')
  BY DEF EventsOK
<1> QED BY <1>1, <1>2, <1>3, <1>4 DEF WindowInv

\* run with any other work, by a window that is not busy.
LEMMA RunsWork ==
  ASSUME WindowInv, ~win.busy, NEW j, RunTask(j), UNCHANGED <<events, shown, clicks>>,
         j.op \in {"transfer", "check", "cover"}, j.op = "transfer" => DOMAIN j = {"op", "at"}
  PROVE  WindowInv'
<1>1. worker' = j /\ asked' = FALSE /\ ~win.pending /\ events = <<>>
  BY DEF RunTask, WindowInv, EventsOK
<1>2. WinOK(win') /\ win'.busy /\ ~win'.cancel /\ ~win'.loading /\ ~win'.pending
  BY <1>1 DEF RunTask, WindowInv, WinOK, WinFields
<1>3. WorkerOK(worker', win', clicks')
  BY <1>1, <1>2 DEF WorkerOK
<1>4. EventsOK(events', worker', win', clicks')
  BY <1>1 DEF EventsOK
<1> QED BY <1>1, <1>2, <1>3, <1>4 DEF WindowInv

\* A refresh, of the button or of a change to the titles.
LEMMA RefreshKeeps ==
  ASSUME WindowInv, WindowAssumption, clicks \in Nat, RefreshNow, UNCHANGED <<events, shown>>
  PROVE  WindowInv'
<1>1. CASE win.busy
  <2>1. win' = Recall(win) /\ worker' = worker /\ asked' = asked
    BY <1>1 DEF RefreshNow
  <2>2. /\ WinOK(win') /\ win'.busy /\ win'.pending /\ win'.loading = win.loading
        /\ win.cancel => win'.cancel
    BY <1>1, <2>1 DEF Recall, WindowInv, WinOK, WinFields
  <2>3. WorkerOK(worker', win', clicks')
    BY <2>1, <2>2 DEF WorkerOK, WindowInv
  <2>4. EventsOK(events', worker', win', clicks')
    BY <2>1, <2>2 DEF EventsOK, WindowInv
  <2> QED BY <1>1, <2>1, <2>2, <2>3, <2>4 DEF WindowInv
<1>2. CASE ~win.busy
  <2>1. RunTask(LoadRows(clicks'))
    BY <1>2 DEF RefreshNow
  <2>2. events' = <<>>
    BY <1>2 DEF WindowInv, EventsOK
  <2> QED BY <2>1, <2>2, RunsRows DEF WindowInv
<1> QED BY <1>1, <1>2

\* The worker's last step: an answer is put in the queue.
LEMMA AnswerKeeps ==
  ASSUME WindowInv, worker.op # "none", NEW e, Answer(e), UNCHANGED <<win, shown, clicks, asked>>,
         win.loading => /\ e.kind \in {"rows", "error"} /\ (win.pending \/ e.click = clicks)
                        /\ e.kind = "rows" /\ e.cut => e.said /\ win.cancel,
         ~win.loading => e.kind \in {"done", "error"}
  PROVE  WindowInv'
<1>1. events' = Append(<<>>, e) /\ worker' = [op |-> "none"]
  BY DEF Answer, Put, IdleWorker, WindowInv
<1>2. events' # <<>> /\ events' = <<Head(events')>> /\ Head(events') = e
  BY ONLY <1>1, OneEvent
<1>3. WorkerOK(worker', win', clicks')
  BY <1>1 DEF WorkerOK
<1>4. EventsOK(events', worker', win', clicks')
  BY <1>1, <1>2 DEF EventsOK, WindowInv, WorkerOK
<1> QED BY <1>1, <1>2, <1>3, <1>4 DEF WindowInv, WorkerOK

\* The worker's other steps leave the window alone.
LEMMA StepKeeps ==
  ASSUME WindowInv, worker.op # "none", worker'.op = worker.op, UNCHANGED <<win, events, shown, clicks, asked>>,
         WorkerOK(worker', win, clicks)
  PROVE  WindowInv'
BY DEF WindowInv, EventsOK

\* One event taken from the queue.
LEMMA PollKeeps ==
  ASSUME WindowInv, Poll
  PROVE  WindowInv' /\ PartialWasAskedFor
<1>1. PICK e : e = Head(events)
  OBVIOUS
<1>2. /\ events # <<>> /\ events = <<e>> /\ events' = Tail(events) /\ clicks' = clicks
      /\ win.busy /\ worker.op = "none"
  BY <1>1 DEF Poll, WindowInv, EventsOK
<1>3. events' = <<>>
  BY ONLY <1>2
<1>4. /\ win.loading => /\ e.kind \in {"rows", "error"} /\ (win.pending \/ e.click = clicks)
                        /\ e.kind = "rows" /\ e.cut => e.said /\ win.cancel
      /\ ~win.loading => e.kind \in {"done", "error"}
  BY <1>1, <1>2 DEF WindowInv, EventsOK
<1>5. shown' = IF e.kind = "rows" /\ ~(win.loading /\ win.pending) THEN [click |-> e.click, cut |-> e.cut, said |-> e.said]
               ELSE IF e.kind = "error" /\ win.loading /\ ~(win.loading /\ win.pending) THEN NoRows(e.click) ELSE shown
  BY <1>1 DEF Poll
<1>6. PartialWasAskedFor
  BY <1>4, <1>5 DEF PartialWasAskedFor, NoRows, WindowInv, WinOK
<1>7. CASE e.kind = "done" \/ win.pending
  BY <1>1, <1>2, <1>3, <1>6, <1>7, RunsRows DEF Poll, WindowInv
<1>8. CASE ~(e.kind = "done" \/ win.pending)
  <2>1. win' = [win EXCEPT !.busy = FALSE] /\ worker' = worker /\ asked' = asked
    BY <1>1, <1>8 DEF Poll
  <2>2. WinOK(win') /\ ~win'.busy /\ ~win'.pending /\ win'.loading = win.loading /\ win'.cancel = win.cancel
    BY <1>8, <2>1 DEF WinOK, WinFields, WindowInv
  <2>3. shown'.click = clicks'
    BY <1>2, <1>4, <1>5, <1>8 DEF WindowInv, NoRows
  <2>4. WorkerOK(worker', win', clicks') /\ EventsOK(events', worker', win', clicks')
    BY <1>2, <1>3, <2>1 DEF WorkerOK, EventsOK
  <2> QED BY <1>2, <1>3, <1>6, <2>1, <2>2, <2>3, <2>4 DEF WindowInv
<1> QED BY <1>7, <1>8

\* The inductive step, with what may be said of the rows put on display.
LEMMA WindowStep ==
  ASSUME WindowInv, clicks \in Nat, [WindowNext]_windowVars
  PROVE  WindowInv' /\ clicks' \in Nat /\ PartialWasAskedFor
<1>1. CASE LoadStep
  <2>1. worker.op = "rows" /\ UNCHANGED <<win, events, shown, clicks, asked>>
    BY <1>1 DEF LoadStep
  <2>2. /\ DOMAIN worker' = DOMAIN worker /\ worker'.op = "rows" /\ worker'.click = worker.click
        /\ worker'.cut \in BOOLEAN /\ (worker'.cut => win.cancel)
    BY <1>1, <2>1 DEF LoadStep, WindowInv, WorkerOK, WinOK
  <2>3. WorkerOK(worker', win, clicks)
    BY <2>1, <2>2 DEF WorkerOK, WindowInv
  <2> QED BY <2>1, <2>2, <2>3, StepKeeps DEF PartialWasAskedFor
<1>2. CASE LoadEnds
  <2>1. worker.op = "rows" /\ win.loading /\ UNCHANGED <<win, shown, clicks, asked>>
    BY <1>2 DEF LoadEnds, WindowInv, WorkerOK
  <2>2. CASE Answer([kind |-> "rows", click |-> worker.click, cut |-> worker.cut, said |-> win.cancel])
    BY <2>1, <2>2, AnswerKeeps DEF PartialWasAskedFor, WindowInv, WorkerOK
  <2>3. CASE Answer([kind |-> "error", click |-> worker.click])
    BY <2>1, <2>3, AnswerKeeps DEF PartialWasAskedFor, WindowInv, WorkerOK
  <2> QED BY <1>2, <2>2, <2>3 DEF LoadEnds
<1>3. CASE TransferCheck
  <2>1. worker.op = "transfer" /\ ~win.loading /\ UNCHANGED <<win, shown, clicks, asked>>
    BY <1>3 DEF TransferCheck, WindowInv, WorkerOK
  <2>2. CASE Answer(Outcome("error"))
    BY <2>1, <2>2, AnswerKeeps DEF PartialWasAskedFor, Outcome
  <2>3. CASE worker' = [worker EXCEPT !.at = "copy"] /\ UNCHANGED events
    <3>1. DOMAIN worker' = DOMAIN worker /\ worker'.op = "transfer"
      BY <2>1, <2>3 DEF WindowInv, WorkerOK
    <3> QED BY <2>1, <2>3, <3>1, StepKeeps DEF PartialWasAskedFor, WindowInv, WorkerOK
  <2> QED BY <1>3, <2>2, <2>3 DEF TransferCheck
<1>4. CASE TransferCopy
  <2>1. worker.op = "transfer" /\ UNCHANGED <<win, events, shown, clicks, asked>>
    BY <1>4 DEF TransferCopy
  <2>2. DOMAIN worker' = DOMAIN worker /\ worker'.op = "transfer"
    BY <1>4, <2>1 DEF TransferCopy, WindowInv, WorkerOK
  <2> QED BY <2>1, <2>2, StepKeeps DEF PartialWasAskedFor, WindowInv, WorkerOK
<1>5. CASE TransferEnds
  <2>1. worker.op = "transfer" /\ ~win.loading /\ UNCHANGED <<win, shown, clicks, asked>>
    BY <1>5 DEF TransferEnds, WindowInv, WorkerOK
  <2>2. Answer(Outcome("done")) \/ Answer(Outcome("error"))
    BY <1>5 DEF TransferEnds
  <2> QED BY <2>1, <2>2, AnswerKeeps DEF PartialWasAskedFor, Outcome
<1>6. CASE CheckStamp
  <2>1. worker.op = "check" /\ worker'.op = "check" /\ UNCHANGED <<win, events, shown, clicks, asked>>
    BY <1>6 DEF CheckStamp
  <2> QED BY <2>1, StepKeeps DEF PartialWasAskedFor, WindowInv, WorkerOK
<1>7. CASE CheckRefresh
  <2>1. worker.op = "check" /\ ~win.loading /\ UNCHANGED <<win, shown, clicks, asked>>
    BY <1>7 DEF CheckRefresh, WindowInv, WorkerOK
  <2>2. CASE Answer(Outcome("done")) \/ Answer(Outcome("error"))
    BY <2>1, <2>2, AnswerKeeps DEF PartialWasAskedFor, Outcome
  <2>3. CASE worker'.op = "check" /\ UNCHANGED events
    BY <2>1, <2>3, StepKeeps DEF PartialWasAskedFor, WindowInv, WorkerOK
  <2> QED BY <1>7, <2>2, <2>3 DEF CheckRefresh
<1>8. CASE CheckHash
  <2>1. worker.op = "check" /\ ~win.loading /\ UNCHANGED <<win, shown, clicks, asked>>
    BY <1>8 DEF CheckHash, WindowInv, WorkerOK
  <2>2. Answer(Outcome("done")) \/ Answer(Outcome("error"))
    BY <1>8 DEF CheckHash
  <2> QED BY <2>1, <2>2, AnswerKeeps DEF PartialWasAskedFor, Outcome
<1>9. CASE CoverEnds
  <2>1. worker.op = "cover" /\ ~win.loading /\ UNCHANGED <<win, shown, clicks, asked>>
    BY <1>9 DEF CoverEnds, WindowInv, WorkerOK
  <2>2. Answer(Outcome("done")) \/ Answer(Outcome("error"))
    BY <1>9 DEF CoverEnds
  <2> QED BY <2>1, <2>2, AnswerKeeps DEF PartialWasAskedFor, Outcome
<1>10. CASE Refresh \/ SaveTitle \/ RemoveTitle
  <2>1. RefreshNow /\ UNCHANGED <<events, shown>>
    BY <1>10 DEF Refresh, SaveTitle, RemoveTitle
  <2>2. clicks' \in Nat
    BY <2>1 DEF RefreshNow
  <2> QED BY <2>1, <2>2, RefreshKeeps, WindowAssumption DEF PartialWasAskedFor
<1>11. CASE Poll
  BY <1>11, PollKeeps DEF Poll
<1>12. CASE Cancel
  <2>1. win' = [win EXCEPT !.cancel = TRUE] /\ asked' = TRUE /\ UNCHANGED <<worker, events, shown, clicks>>
    BY <1>12 DEF Cancel
  <2>2. /\ WinOK(win') /\ win'.busy = win.busy /\ win'.loading = win.loading /\ win'.pending = win.pending /\ win'.cancel
    BY <2>1 DEF WindowInv, WinOK, WinFields
  <2>3. WorkerOK(worker', win', clicks') /\ EventsOK(events', worker', win', clicks')
    BY <2>1, <2>2 DEF WindowInv, WorkerOK, EventsOK
  <2> QED BY <2>1, <2>2, <2>3 DEF WindowInv, PartialWasAskedFor
<1>13. CASE CloseWindow
  <2>1. win' = [win EXCEPT !.closed = TRUE] /\ UNCHANGED <<worker, events, shown, clicks, asked>>
    BY <1>13 DEF CloseWindow
  <2>2. /\ WinOK(win') /\ win'.busy = win.busy /\ win'.loading = win.loading /\ win'.pending = win.pending /\ win'.cancel = win.cancel
    BY <2>1 DEF WindowInv, WinOK, WinFields
  <2>3. WorkerOK(worker', win', clicks') /\ EventsOK(events', worker', win', clicks')
    BY <2>1, <2>2 DEF WindowInv, WorkerOK, EventsOK
  <2> QED BY <2>1, <2>2, <2>3 DEF WindowInv, PartialWasAskedFor
<1>14. CASE InstallImage
  BY <1>14, RunsWork DEF InstallImage, BeginWork, PartialWasAskedFor
<1>15. CASE CheckImage
  BY <1>15, RunsWork DEF CheckImage, BeginWork, PartialWasAskedFor
<1>16. CASE RepairCover
  BY <1>16, RunsWork DEF RepairCover, BeginWork, PartialWasAskedFor
<1>17. CASE UNCHANGED <<win, worker, events, shown, clicks, asked>>
  BY <1>17 DEF WindowInv, PartialWasAskedFor
<1>18. OtherCopies \/ OtherSwaps \/ UNCHANGED windowVars => UNCHANGED <<win, worker, events, shown, clicks, asked>>
  BY DEF OtherCopies, OtherSwaps, windowVars
<1> QED
  BY <1>1, <1>2, <1>3, <1>4, <1>5, <1>6, <1>7, <1>8, <1>9, <1>10, <1>11, <1>12, <1>13, <1>14, <1>15, <1>16, <1>17, <1>18
     DEF WindowNext, WorkerStep

\* The game library window (library_gui.py): what is on display belongs to the last refresh
\* asked for, and rows cut short are shown only to a user who pressed Cancel.
THEOREM WindowAnswers == WindowSpec => WindowFaithful
<1>1. WindowInit => WindowInv /\ clicks \in Nat
  <2> SUFFICES ASSUME WindowInit PROVE WindowInv /\ clicks \in Nat
    OBVIOUS
  <2>1. WinOK(win) /\ win.busy /\ win.loading /\ ~win.pending /\ ~win.cancel
    BY DEF WindowInit, WinOK, WinFields
  <2>2. WorkerOK(worker, win, clicks) /\ worker.op = "rows"
    BY <2>1 DEF WindowInit, WorkerOK, LoadRows
  <2> QED BY <2>1, <2>2 DEF WindowInit, WindowInv, EventsOK
<1>2. WindowInv /\ clicks \in Nat /\ [WindowNext]_windowVars => (WindowInv /\ clicks \in Nat)'
  BY WindowStep
<1>3. WindowInv /\ clicks \in Nat /\ [WindowNext]_windowVars => [LatestShown' /\ PartialWasAskedFor]_windowVars
  <2>1. WindowInv' => LatestShown'
    BY DEF WindowInv, LatestShown
  <2> QED BY <2>1, WindowStep
<1> QED BY <1>1, <1>2, <1>3, PTL DEF WindowSpec, WindowFaithful

-----------------------------------------------------------------------------
(* RaFrames: achievements are judged by the game as it was played.           *)

\* The sequence number of frame n, when the console began with b.
FrameSeq(b, n) == (b + n) % SeqModulus

DatagramOK(p, b, sent) == p.n \in 1 .. sent /\ p.q = FrameSeq(b, p.n)

AssemblerOK(A, b) ==
  /\ DOMAIN A = {"seq", "parts", "got", "blocked", "completed", "stale"}
  /\ \A g \in A.got : g.n \in 1 .. MaxFrames /\ FrameSeq(b, g.n) = A.seq
  /\ ~Complete(A)

EvaluatorOK(E, b) ==
  /\ DOMAIN E = {"seq", "hist", "triggered", "twice", "last"}
  /\ E.seq = -1 => E.hist = 0
  /\ E.hist = 0 \/ (E.hist \in 1 .. MaxFrames /\ FrameSeq(b, E.hist) = E.seq)
  /\ E.last.whole = TRUE /\ E.last.prev \in {0, E.last.n - 1} /\ E.twice = FALSE

FramesFrom(b) ==
  /\ con.n \in 0 .. MaxFrames /\ con.q = FrameSeq(b, con.n) /\ DOMAIN con = {"n", "q", "parts", "silent"}
  /\ \A p \in air : DatagramOK(p, b, con.n)
  /\ AssemblerOK(asm, b)
  /\ EvaluatorOK(evl, b)

FramesInv == \E b \in 0 .. SeqModulus - 1 : FramesFrom(b)

\* Within half the sequence space a number names one frame, and the next number the next frame.
LEMMA Multiple ==
  ASSUME NEW m \in Nat \ {0}, NEW k \in Int, NEW x \in Int, x = m * k, -m < x, x < m
  PROVE  x = 0
<1>1. CASE k >= 1
  <2>1. m * k >= m
    BY ONLY <1>1, m \in Nat \ {0}, k \in Int
  <2> QED BY <2>1
<1>2. CASE k <= -1
  <2>1. m * k <= -m
    BY ONLY <1>2, m \in Nat \ {0}, k \in Int
  <2> QED BY <2>1
<1>3. CASE k = 0
  BY <1>3
<1> QED BY <1>1, <1>2, <1>3

LEMMA Quotient ==
  ASSUME NEW m \in Nat \ {0}, NEW a \in Int
  PROVE  a % m \in 0 .. m - 1 /\ \E k \in Int : a % m = a - m * k
<1>1. a % m \in 0 .. m - 1 /\ a \div m \in Int
  OBVIOUS
<1>2. a % m = a - m * (a \div m)
  OBVIOUS
<1> QED BY <1>1, <1>2

LEMMA FrameNumbers ==
  ASSUME NEW b \in Nat, NEW n \in 0 .. MaxFrames, NEW o \in 0 .. MaxFrames
  PROVE  /\ FrameSeq(b, n) \in 0 .. SeqModulus - 1
         /\ FrameSeq(b, n) = FrameSeq(b, o) => n = o
         /\ Ahead(FrameSeq(b, n), FrameSeq(b, o)) = 1 => n = o + 1
<1> DEFINE M == SeqModulus
<1>1. M \in Nat \ {0} /\ MaxFrames \in Nat /\ 2 * MaxFrames < M /\ M > 1
  BY RaFramesAssumption
<1>2. PICK i \in Int : (b + n) % M = (b + n) - M * i
  <2>1. b + n \in Int
    BY <1>1
  <2> QED BY ONLY <1>1, <2>1, Quotient
<1>3. PICK j \in Int : (b + o) % M = (b + o) - M * j
  <2>1. b + o \in Int
    BY <1>1
  <2> QED BY ONLY <1>1, <2>1, Quotient
<1>4. (b + n) % M \in 0 .. M - 1 /\ (b + o) % M \in 0 .. M - 1
  <2>1. b + o \in Int /\ b + n \in Int
    BY <1>1
  <2> QED BY ONLY <1>1, <2>1, Quotient
<1>5. PICK s \in Int : s = (b + n) % M
  BY <1>4
<1>6. PICK t \in Int : t = (b + o) % M
  BY <1>4
<1>7. PICK k \in Int : (s - t) % M = (s - t) - M * k
  <2>1. s - t \in Int
    OBVIOUS
  <2> QED BY ONLY <1>1, <2>1, Quotient
<1>8. s = t => n = o
  <2> SUFFICES ASSUME s = t PROVE n = o
    OBVIOUS
  <2>1. n - o = M * (i - j)
    BY ONLY <1>1, <1>2, <1>3, <1>5, <1>6, s = t, b \in Nat, n \in 0 .. MaxFrames, o \in 0 .. MaxFrames, i \in Int, j \in Int
  <2>2. n - o \in Int /\ -M < n - o /\ n - o < M /\ i - j \in Int
    BY ONLY <1>1, n \in 0 .. MaxFrames, o \in 0 .. MaxFrames, i \in Int, j \in Int
  <2>3. n - o = 0
    BY ONLY <1>1, <2>1, <2>2, Multiple
  <2> QED BY <1>1, <2>3
<1>9. (s - t) % M = 1 => n = o + 1
  <2> SUFFICES ASSUME (s - t) % M = 1 PROVE n = o + 1
    OBVIOUS
  <2>1. (n - o) - 1 = M * ((i - j) + k)
    <3>1. (s - t) - M * k = 1 /\ s = (b + n) - M * i /\ t = (b + o) - M * j
      BY ONLY <1>2, <1>3, <1>5, <1>6, <1>7, (s - t) % M = 1
    <3> QED BY ONLY <1>1, <3>1, b \in Nat, n \in 0 .. MaxFrames, o \in 0 .. MaxFrames, i \in Int, j \in Int, k \in Int
  <2>2. (n - o) - 1 \in Int /\ -M < (n - o) - 1 /\ (n - o) - 1 < M /\ (i - j) + k \in Int
    BY ONLY <1>1, n \in 0 .. MaxFrames, o \in 0 .. MaxFrames, i \in Int, j \in Int, k \in Int
  <2>3. (n - o) - 1 = 0
    BY ONLY <1>1, <2>1, <2>2, Multiple
  <2> QED BY <1>1, <2>3
<1> QED BY ONLY <1>4, <1>5, <1>6, <1>8, <1>9 DEF FrameSeq, Ahead

LEMMA NextFrame ==
  ASSUME NEW b \in Nat, NEW n \in Nat
  PROVE  (FrameSeq(b, n) + 1) % SeqModulus = FrameSeq(b, n + 1)
<1> DEFINE M == SeqModulus
<1>1. M \in Nat \ {0} /\ M > 1
  BY RaFramesAssumption
<1>2. b + n \in Int
  OBVIOUS
<1>3. PICK k \in Int : (b + n) % M = (b + n) - M * k
  BY ONLY <1>1, <1>2, Quotient
<1>4. (b + n) % M \in 0 .. M - 1
  BY ONLY <1>1, <1>2, Quotient
<1>5. PICK s \in 0 .. M - 1 : s = (b + n) % M
  BY <1>4
<1>6. (s + 1) % M = (b + (n + 1)) % M
  <2>1. CASE s = M - 1
    <3>1. s + 1 = M * 1 + 0 /\ b + (n + 1) = M * (k + 1) + 0
      BY ONLY <1>1, <1>2, <1>3, <1>5, <2>1, b \in Nat, n \in Nat, k \in Int, s \in 0 .. M - 1
    <3>2. \A q \in Int : (M * q + 0) % M = 0
      BY ONLY <1>1
    <3> QED BY ONLY <3>1, <3>2, k \in Int
  <2>2. CASE s # M - 1
    <3>1. s + 1 = M * 0 + (s + 1) /\ b + (n + 1) = M * k + (s + 1) /\ s + 1 \in 0 .. M - 1
      BY ONLY <1>1, <1>2, <1>3, <1>5, <2>2, b \in Nat, n \in Nat, k \in Int, s \in 0 .. M - 1
    <3>2. \A q \in Int, r \in 0 .. M - 1 : (M * q + r) % M = r
      BY ONLY <1>1
    <3> QED BY ONLY <3>1, <3>2, k \in Int
  <2> QED BY <2>1, <2>2
<1> QED BY ONLY <1>5, <1>6 DEF FrameSeq

\* feed: the parts kept are of the frame in assembly, and a frame is complete only with the part
\* that was just fed.
LEMMA FedKeeps ==
  ASSUME NEW b \in Nat, NEW A, AssemblerOK(A, b), NEW p, DatagramOK(p, b, MaxFrames), NEW F, F = Fed(A, p)
  PROVE  /\ DOMAIN F = {"seq", "parts", "got", "blocked", "completed", "stale"}
         /\ \A g \in F.got : g.n \in 1 .. MaxFrames /\ FrameSeq(b, g.n) = F.seq
         /\ Complete(F) => F.seq = p.q
<1> DEFINE PartsKept(X) == /\ DOMAIN X = {"seq", "parts", "got", "blocked", "completed", "stale"}
                      /\ \A g \in X.got : g.n \in 1 .. MaxFrames /\ FrameSeq(b, g.n) = X.seq
<1>1. PICK fresh : fresh = IF A.stale THEN NewAssembler ELSE A
  OBVIOUS
<1>2. PartsKept(fresh) /\ ~Complete(fresh)
  BY <1>1 DEF AssemblerOK, NewAssembler, Complete
<1>3. PICK B : B = Starts(fresh, p)
  OBVIOUS
<1>4. PartsKept(B) /\ (B.seq # p.q => B = fresh)
  BY <1>2, <1>3 DEF Starts
<1>5. F = IF B.seq # p.q \/ B.blocked \/ B.completed THEN B ELSE Adds(B, p)
  BY <1>1, <1>3 DEF Fed
<1>6. CASE B.seq # p.q \/ B.blocked \/ B.completed
  <2>1. F = B
    BY <1>5, <1>6
  <2>2. ~Complete(B)
    BY <1>2, <1>4, <1>6 DEF Complete
  <2> QED BY <1>4, <2>1, <2>2
<1>7. CASE ~(B.seq # p.q \/ B.blocked \/ B.completed)
  <2>1. F = Adds(B, p) /\ B.seq = p.q
    BY <1>5, <1>7
  <2>2. PICK got : got = B.got \cup {[part |-> p.part, n |-> p.n]}
    OBVIOUS
  <2>3. \A g \in got : g.n \in 1 .. MaxFrames /\ FrameSeq(b, g.n) = B.seq
    BY <1>4, <2>1, <2>2 DEF DatagramOK
  <2>4. F = Block(B) \/ F = [B EXCEPT !.got = got, !.stale = B.stale /\ got = B.got]
    BY <2>1, <2>2 DEF Adds
  <2>5. CASE F = Block(B)
    BY <1>4, <2>1, <2>5 DEF Block
  <2>6. CASE F = [B EXCEPT !.got = got, !.stale = B.stale /\ got = B.got]
    BY <1>4, <2>1, <2>3, <2>6
  <2> QED BY <2>4, <2>5, <2>6
<1> QED BY <1>6, <1>7

\* evaluate, for a frame put together of its own parts.
LEMMA EvaluatedKeeps ==
  ASSUME NEW b \in Nat, NEW E, EvaluatorOK(E, b), NEW n \in 1 .. MaxFrames, NEW q, q = FrameSeq(b, n),
         NEW ids, NEW missing \in BOOLEAN, NEW N, N = Evaluated(E, n, q, TRUE, ids, missing)
  PROVE  EvaluatorOK(N, b)
<1>0. MaxFrames \in Nat /\ n \in 0 .. MaxFrames /\ q \in 0 .. SeqModulus - 1
  BY RaFramesAssumption, FrameNumbers
<1>1. CASE E.seq # -1 /\ Ahead(q, E.seq) \notin 1..(Half - 1)
  <2>0. PICK l : l = [n |-> n, prev |-> 0, whole |-> TRUE, taken |-> FALSE]
    OBVIOUS
  <2>1. N = [E EXCEPT !.last = l]
    BY <1>1, <2>0 DEF Evaluated
  <2>2. DOMAIN N = DOMAIN E /\ N.seq = E.seq /\ N.hist = E.hist /\ N.twice = E.twice /\ N.last = l
    BY <2>1 DEF EvaluatorOK
  <2>3. N.last.whole = TRUE
    BY ONLY <2>0, <2>2
  <2>4. N.last.prev \in {0, N.last.n - 1}
    BY ONLY <2>0, <2>2
  <2>5. DOMAIN N = {"seq", "hist", "triggered", "twice", "last"} /\ N.twice = FALSE
    BY <2>2 DEF EvaluatorOK
  <2>6. (N.seq = -1 => N.hist = 0) /\ (N.hist = 0 \/ (N.hist \in 1 .. MaxFrames /\ FrameSeq(b, N.hist) = N.seq))
    BY <2>2 DEF EvaluatorOK
  <2> QED BY <2>3, <2>4, <2>5, <2>6 DEF EvaluatorOK
<1>2. CASE ~(E.seq # -1 /\ Ahead(q, E.seq) \notin 1..(Half - 1)) /\ missing
  <2>0. PICK l : l = [n |-> n, prev |-> 0, whole |-> TRUE, taken |-> TRUE]
    OBVIOUS
  <2>1. N = [E EXCEPT !.seq = q, !.hist = 0, !.last = l]
    BY <1>2, <2>0 DEF Evaluated
  <2>2. DOMAIN N = DOMAIN E /\ N.hist = 0 /\ N.twice = E.twice /\ N.last = l
    BY <2>1 DEF EvaluatorOK
  <2>3. N.last.whole = TRUE
    BY ONLY <2>0, <2>2
  <2>4. N.last.prev \in {0, N.last.n - 1}
    BY ONLY <2>0, <2>2
  <2>5. DOMAIN N = {"seq", "hist", "triggered", "twice", "last"} /\ N.twice = FALSE
    BY <2>2 DEF EvaluatorOK
  <2>6. (N.seq = -1 => N.hist = 0) /\ (N.hist = 0 \/ (N.hist \in 1 .. MaxFrames /\ FrameSeq(b, N.hist) = N.seq))
    BY <2>2 DEF EvaluatorOK
  <2> QED BY <2>3, <2>4, <2>5, <2>6 DEF EvaluatorOK
<1>3. CASE ~(E.seq # -1 /\ Ahead(q, E.seq) \notin 1..(Half - 1)) /\ ~missing
  <2>1. PICK fired : fired = Triggers(E, ids)
    OBVIOUS
  <2>2. PICK prev : prev = History(E, q)
    OBVIOUS
  <2>8. PICK l : l = [n |-> n, prev |-> prev, whole |-> TRUE, taken |-> TRUE]
    OBVIOUS
  <2>3. N = [E EXCEPT !.seq = q, !.hist = n, !.triggered = E.triggered \cup fired, !.twice = E.twice \/ fired \cap E.triggered # {}, !.last = l]
    BY <1>3, <2>1, <2>2, <2>8 DEF Evaluated
  <2>4. fired \cap E.triggered = {}
    BY <2>1 DEF Triggers
  <2>5. prev \in {0, n - 1}
    <3>1. CASE E.seq = -1 \/ Ahead(q, E.seq) = 1
      <4>1. prev = E.hist
        BY <2>2, <3>1 DEF History
      <4>2. CASE E.hist = 0
        BY <4>1, <4>2
      <4>3. CASE E.hist # 0
        <5>1. E.hist \in 0 .. MaxFrames /\ FrameSeq(b, E.hist) = E.seq /\ Ahead(FrameSeq(b, n), FrameSeq(b, E.hist)) = 1
          BY <1>0, <3>1, <4>3 DEF EvaluatorOK
        <5>2. n = E.hist + 1
          BY ONLY <1>0, <5>1, FrameNumbers, b \in Nat
        <5> QED BY <1>0, <4>1, <5>1, <5>2
      <4> QED BY <4>2, <4>3
    <3>2. CASE ~(E.seq = -1 \/ Ahead(q, E.seq) = 1)
      BY <2>2, <3>2 DEF History
    <3> QED BY <3>1, <3>2
  <2>6. DOMAIN N = DOMAIN E /\ N.seq = q /\ N.hist = n /\ N.twice = FALSE
        /\ N.last = l
    BY <2>3, <2>4 DEF EvaluatorOK
  <2>7. q # -1
    BY <1>0, RaFramesAssumption
  <2>9. N.last.whole = TRUE /\ N.last.n = n /\ N.last.prev = prev
    BY ONLY <2>6, <2>8
  <2> QED BY ONLY <2>5, <2>6, <2>7, <2>9, EvaluatorOK(E, b), q = FrameSeq(b, n), n \in 1 .. MaxFrames DEF EvaluatorOK
<1> QED BY <1>1, <1>2, <1>3

LEMMA FramesStep ==
  ASSUME ~RaRestarts, NEW b \in Nat, FramesFrom(b), [FramesNext]_frameVars
  PROVE  FramesFrom(b)'
<1>0. MaxFrames \in Nat /\ SeqModulus \in Nat
  BY RaFramesAssumption
<1>1. CASE SendFrame
  <2>1. PICK parts \in 1..MaxParts : \E again \in {FALSE} \cup {RaRestarts /\ con.silent} :
       LET q == IF again THEN 0 ELSE (con.q + 1) % SeqModulus
       IN  /\ con' = [n |-> con.n + 1, q |-> q, parts |-> parts, silent |-> FALSE]
           /\ air' = {p \in air : con.n + 1 - p.n <= MaxLate} \cup Parts(con.n + 1, q, parts)
    BY <1>1 DEF SendFrame
  <2>2. PICK q : q = (con.q + 1) % SeqModulus
    OBVIOUS
  <2>3. con' = [n |-> con.n + 1, q |-> q, parts |-> parts, silent |-> FALSE]
        /\ air' = {p \in air : con.n + 1 - p.n <= MaxLate} \cup Parts(con.n + 1, q, parts)
    BY <2>1, <2>2
  <2>4. con.n \in Nat /\ con.n + 1 \in 1 .. MaxFrames /\ con.q = FrameSeq(b, con.n)
    BY <1>0, <1>1 DEF SendFrame, FramesFrom
  <2>5. q = FrameSeq(b, con.n + 1)
    BY <2>2, <2>4, NextFrame
  <2>6. ASSUME NEW p \in air' PROVE DatagramOK(p, b, con.n + 1)
    <3>1. CASE p \in air
      BY <1>0, <2>4, <3>1 DEF DatagramOK, FramesFrom
    <3>2. CASE p \in Parts(con.n + 1, q, parts)
      BY <2>4, <2>5, <3>2 DEF DatagramOK, Parts
    <3> QED BY <2>3, <2>6, <3>1, <3>2
  <2> QED BY <1>1, <2>3, <2>4, <2>5, <2>6 DEF FramesFrom, SendFrame
<1>2. CASE Silence
  <2>1. AssemblerOK(asm', b)
    BY <1>2 DEF Silence, AssemblerOK, FramesFrom, Complete
  <2> QED BY <1>2, <2>1 DEF Silence, FramesFrom
<1>3. CASE ReceivePart
  <2>1. PICK p \in air, again \in BOOLEAN :
    LET A == Fed(asm, p)
    IN  /\ air' = IF again THEN air ELSE air \ {p}
        /\ IF Complete(A)
           THEN /\ asm' = [A EXCEPT !.completed = TRUE, !.got = {}]
                /\ \E ids \in SUBSET RaIds, missing \in BOOLEAN :
                     evl' = Evaluated(evl, p.n, p.q, \A g \in A.got : g.n = p.n, ids, missing)
           ELSE asm' = A /\ UNCHANGED evl
        /\ UNCHANGED con
    BY <1>3 DEF ReceivePart
  <2>2. PICK A : A = Fed(asm, p)
    OBVIOUS
  <2>3. DatagramOK(p, b, MaxFrames) /\ AssemblerOK(asm, b)
    BY <1>0 DEF FramesFrom, DatagramOK
  <2>4. /\ DOMAIN A = {"seq", "parts", "got", "blocked", "completed", "stale"}
        /\ \A g \in A.got : g.n \in 1 .. MaxFrames /\ FrameSeq(b, g.n) = A.seq
        /\ Complete(A) => A.seq = p.q
    BY <2>2, <2>3, FedKeeps
  <2>5. con' = con /\ \A d \in air' : DatagramOK(d, b, con.n)
    BY <2>1 DEF FramesFrom
  <2>6. CASE Complete(A)
    <3>1. asm' = [A EXCEPT !.completed = TRUE, !.got = {}]
      BY <2>1, <2>2, <2>6
    <3>2. AssemblerOK(asm', b)
      BY <2>4, <3>1 DEF AssemblerOK, Complete
    <3>3. p.n \in 1 .. MaxFrames /\ p.q = FrameSeq(b, p.n)
      BY <2>3 DEF DatagramOK
    <3>4. ASSUME NEW g \in A.got PROVE g.n = p.n
      <4>1. g.n \in 0 .. MaxFrames /\ p.n \in 0 .. MaxFrames /\ FrameSeq(b, g.n) = FrameSeq(b, p.n)
        BY <1>0, <2>4, <2>6, <3>3
      <4> QED BY ONLY <4>1, FrameNumbers, b \in Nat
    <3>5. (\A g \in A.got : g.n = p.n) = TRUE
      BY <3>4
    <3>6. PICK ids \in SUBSET RaIds, missing \in BOOLEAN : evl' = Evaluated(evl, p.n, p.q, TRUE, ids, missing)
      BY <2>1, <2>2, <2>6, <3>5
    <3>7. EvaluatorOK(evl', b)
      BY <3>3, <3>6, EvaluatedKeeps DEF FramesFrom
    <3> QED BY <2>5, <3>2, <3>7 DEF FramesFrom
  <2>7. CASE ~Complete(A)
    <3>1. asm' = A /\ evl' = evl
      BY <2>1, <2>2, <2>7
    <3> QED BY <2>4, <2>5, <2>7, <3>1 DEF FramesFrom, AssemblerOK
  <2> QED BY <2>6, <2>7
<1>4. CASE UNCHANGED frameVars
  BY <1>4 DEF frameVars, FramesFrom
<1> QED BY <1>1, <1>2, <1>3, <1>4 DEF FramesNext

\* The RA15 receiver (ra_protocol.py, ra_evaluator.py), for every modulus more than twice the frames
\* that can be in question: what is evaluated is whole frames in an unbroken row, each unlock once,
\* while the console does not start over.
THEOREM JudgedAsPlayed == ASSUME ~RaRestarts PROVE FramesSpec => []EvaluatedAsPlayed
<1>0. SeqModulus \in Nat \ {0, 1} /\ MaxFrames \in Nat
  BY RaFramesAssumption
<1>1. FramesInit => FramesInv
  <2> SUFFICES ASSUME FramesInit PROVE FramesInv
    OBVIOUS
  <2>1. PICK q \in {0, SeqModulus - 2} : con = [n |-> 0, q |-> q, parts |-> 0, silent |-> FALSE]
    BY DEF FramesInit
  <2>2. q \in 0 .. SeqModulus - 1
    BY <1>0, <2>1
  <2>3. FrameSeq(q, 0) = q
    <3>1. q + 0 = q
      BY <1>0, <2>2
    <3>2. \A x \in 0 .. SeqModulus - 1 : x % SeqModulus = x
      BY ONLY <1>0
    <3> QED BY ONLY <2>2, <3>1, <3>2 DEF FrameSeq
  <2>4. AssemblerOK(asm, q)
    BY DEF FramesInit, AssemblerOK, NewAssembler, Complete
  <2>5. EvaluatorOK(evl, q)
    BY DEF FramesInit, EvaluatorOK
  <2>6. FramesFrom(q)
    BY <1>0, <2>1, <2>3, <2>4, <2>5 DEF FramesInit, FramesFrom
  <2> QED BY <2>2, <2>6 DEF FramesInv
<1>2. FramesInv /\ [FramesNext]_frameVars => FramesInv'
  <2> SUFFICES ASSUME FramesInv, [FramesNext]_frameVars PROVE FramesInv'
    OBVIOUS
  <2>1. PICK b \in 0 .. SeqModulus - 1 : FramesFrom(b)
    BY DEF FramesInv
  <2>2. b \in Nat
    BY <1>0
  <2>3. FramesFrom(b)'
    BY <2>1, <2>2, FramesStep
  <2> QED BY <2>3 DEF FramesInv
<1>3. FramesInv => EvaluatedAsPlayed
  BY DEF FramesInv, FramesFrom, EvaluatorOK, EvaluatedAsPlayed, FrameWhole, HistoryContiguous, UnlockedOnce
<1> QED BY <1>1, <1>2, <1>3, PTL DEF FramesSpec

-----------------------------------------------------------------------------
(* LibraryCatalog: the catalogue says what the images are, and overwrites    *)
(* none of them.                                                             *)

ImageFiles == [ver : Nat, part : BOOLEAN, ours : BOOLEAN]

\* The operations, by what they carry along.
JobOK(j) ==
  /\ j.op \in {"none", "scan", "inspect", "edit", "import", "art", "convert"}
  /\ j.op = "scan" => DOMAIN j = {"op", "todo"} /\ j.todo \subseteq ImageNames
  /\ j.op = "inspect" =>
       /\ j.todo \subseteq ImageNames /\ j.at \in {"next", "open", "read", "save"}
       /\ IF j.at = "next" THEN DOMAIN j = {"op", "todo", "at"} ELSE j.p \in ImageNames
  /\ j.op = "edit" => j.p \in ImageNames /\ j.id \in {0} \cup Serials
  /\ j.op = "import" =>
       /\ j.p \in ImageNames /\ j.ver \in Nat /\ j.at \in {"check", "create", "copy", "row", "undo"}
       /\ j.at # "undo" => DOMAIN j = {"op", "p", "ver", "at"}
  /\ j.op \in {"art", "convert"} =>
       /\ j.todo \subseteq Serials /\ j.at \in {"next", "create", "save", "undo"}
       /\ IF j.at = "next" THEN DOMAIN j = {"op", "todo", "at"} ELSE j.k \in Serials

\* An identity that was verified is that of the stamp it is kept under.
IdentOK(i) ==
  \A p \in DOMAIN i :
    /\ i[p].status # "conflict"
    /\ i[p].status = "verified" => i[p].id \in Serials /\ i[p].id = i[p].stamp.ver /\ ~i[p].stamp.part

GamesOK(g) == DOMAIN g \subseteq ImageNames /\ \A p \in DOMAIN g : g[p] \in {0} \cup Serials

\* The image being inspected: undisturbed it is what was stamped, opened and read; disturbed once
\* it is another one than was stamped.
LookOK(j, L, d) ==
  j.op = "inspect" /\ j.at # "next" =>
    /\ d \in {0, 1} /\ (j.at = "save" => j.id.status # "conflict")
    /\ d = 1 => L[j.p].ver # j.stamp.ver
    /\ d = 0 => /\ L[j.p] = j.stamp
                /\ j.at = "read" => j.opened = j.stamp
                /\ j.at = "save" /\ j.id.status = "verified" => j.id.id \in Serials /\ j.id.id = j.stamp.ver /\ ~j.stamp.part

\* What an import is writing, or is about to remove, it created itself; so does a cover.
WriteOK(j, L) ==
  j.op = "import" /\ (j.at = "copy" \/ (j.at = "undo" /\ Created(j))) => L[j.p].ours = TRUE
PaintOK(j, a) ==
  j.op \in {"art", "convert"} /\ (j.at = "save" \/ (j.at = "undo" /\ Created(j))) => a[j.k] = "part"

CatalogInv ==
  /\ library \in [ImageNames -> ImageFiles]
  /\ art \in [Serials -> {"none", "theirs", "part", "ours"}]
  /\ GamesOK(games) /\ IdentOK(ident)
  /\ JobOK(job) /\ LookOK(job, library, disturbed) /\ WriteOK(job, library) /\ PaintOK(job, art)

LEMMA InspectedOK ==
  ASSUME NEW f \in ImageFiles
  PROVE  /\ Inspect(f).status # "conflict"
         /\ Inspect(f).status = "verified" => Inspect(f).id \in Serials /\ Inspect(f).id = f.ver /\ ~f.part
BY DEF Inspect, ImageFiles

\* An operation that begins, or is over, has nothing in its hands.
LEMMA BeginKeeps ==
  ASSUME CatalogInv, JobOK(job'), UNCHANGED <<library, art>>, GamesOK(games'), IdentOK(ident'),
         job'.op \in {"none", "scan", "edit"} \/ job'.at \in {"next", "check"}
  PROVE  CatalogInv'
<1>1. LookOK(job', library', disturbed')
  BY DEF LookOK, JobOK
<1>2. WriteOK(job', library') /\ PaintOK(job', art')
  BY DEF WriteOK, PaintOK, JobOK
<1> QED BY <1>1, <1>2 DEF CatalogInv

LEMMA FinishKeeps ==
  ASSUME CatalogInv, NEW how, Finish(how), UNCHANGED <<library, art>>, GamesOK(games'), IdentOK(ident')
  PROVE  CatalogInv'
<1>1. job'.op = "none"
  BY DEF Finish, IdleJob
<1>2. JobOK(job')
  BY <1>1 DEF JobOK
<1> QED BY <1>1, <1>2, BeginKeeps

LEMMA RunKeeps ==
  ASSUME CatalogInv, NEW j, Run(j), JobOK(j), j.op \in {"scan", "edit"} \/ j.at \in {"next", "check"}
  PROVE  CatalogInv'
<1>1. job' = j /\ UNCHANGED <<library, art, games, ident, disturbed>>
  BY DEF Run
<1> QED BY <1>1, BeginKeeps DEF CatalogInv

LEMMA UpsertKeeps ==
  ASSUME CatalogInv, NEW p \in ImageNames, Upsert(p)
  PROVE  GamesOK(games') /\ IdentOK(ident')
<1>1. GamesOK(games')
  BY DEF Upsert, GamesOK, CatalogInv
<1>2. IdentOK(ident')
  BY DEF Upsert, IdentOK, CatalogInv
<1> QED BY <1>1, <1>2

LEMMA SaveIdentityKeeps ==
  ASSUME IdentOK(ident), NEW p, NEW stamp, NEW r, SaveIdentity(p, stamp, r), r.status # "conflict",
         r.status = "verified" => r.id \in Serials /\ r.id = stamp.ver /\ ~stamp.part
  PROVE  IdentOK(ident')
<1>1. DOMAIN ident' = DOMAIN ident \cup {p}
  BY DEF SaveIdentity
<1>2. ASSUME NEW q \in DOMAIN ident'
      PROVE  ident'[q] = IF q = p THEN [stamp |-> stamp, status |-> r.status, id |-> r.id] ELSE ident[q]
  BY <1>2 DEF SaveIdentity
<1> QED BY <1>1, <1>2 DEF IdentOK

\* What the download is to fetch is named by a serial.
LEMMA ArtKeys ==
  ASSUME CatalogInv, NEW p \in DOMAIN games, ArtKey(p) # 0
  PROVE  ArtKey(p) \in Serials
<1>1. games[p] \in {0} \cup Serials
  BY DEF CatalogInv, GamesOK
<1>2. PICK row : row = CurrentIdentity(p)
  OBVIOUS
<1>3. row.status = "verified" => row.id \in Serials
  BY <1>2 DEF CurrentIdentity, IdentityRecord, CatalogInv, IdentOK
<1>4. ArtKey(p) = IF row.status = "verified" THEN row.id ELSE IF row.status \in {"conflict", "stale"} THEN 0 ELSE games[p]
  BY <1>2 DEF ArtKey
<1> QED BY <1>1, <1>3, <1>4

LEMMA StartsKeep ==
  ASSUME CatalogInv, Scan \/ InspectIds \/ Edit \/ Restore \/ ImportImage \/ DownloadArt \/ RepairArt \/ ImportArt
  PROVE  CatalogInv'
<1>0. DOMAIN games \subseteq ImageNames
  BY DEF CatalogInv, GamesOK
<1>1. CASE Scan
  BY <1>1, RunKeeps DEF Scan, JobOK
<1>2. CASE InspectIds
  BY <1>0, <1>2, RunKeeps DEF InspectIds, JobOK
<1>3. CASE Edit \/ Restore
  <2>1. PICK p \in ImageNames, id \in {0} \cup Serials : Run([op |-> "edit", p |-> p, id |-> id])
    BY <1>0, <1>3 DEF Edit, Restore
  <2> QED BY <2>1, RunKeeps DEF JobOK
<1>4. CASE ImportImage
  <2>1. PICK p \in ImageNames, v \in Versions : Run([op |-> "import", p |-> p, ver |-> v, at |-> "check"])
    BY <1>4 DEF ImportImage
  <2>2. v \in Nat
    BY LibraryAssumption DEF Versions
  <2> QED BY <2>1, <2>2, RunKeeps DEF JobOK
<1>5. CASE DownloadArt
  <2>1. PICK keys : /\ keys = {k \in {ArtKey(p) : p \in DOMAIN games} : k # 0 /\ art[k] = "none"}
                    /\ Run([op |-> "art", todo |-> keys, at |-> "next"])
    BY <1>5 DEF DownloadArt
  <2>2. keys \subseteq Serials
    BY <2>1, ArtKeys
  <2> QED BY <2>1, <2>2, RunKeeps DEF JobOK
<1>6. CASE RepairArt \/ ImportArt
  <2>1. PICK keys : keys \subseteq Serials /\ Run([op |-> "convert", todo |-> keys, at |-> "next"])
    <3>1. CASE RepairArt
      BY <3>1 DEF RepairArt
    <3>2. CASE ImportArt
      BY <3>2 DEF ImportArt
    <3> QED BY <1>6, <3>1, <3>2
  <2> QED BY <2>1, RunKeeps DEF JobOK
<1> QED BY <1>1, <1>2, <1>3, <1>4, <1>5, <1>6

LEMMA ScanKeeps ==
  ASSUME CatalogInv, ScanEntry
  PROVE  CatalogInv'
<1>1. job.op = "scan" /\ UNCHANGED <<library, art>>
  BY DEF ScanEntry
<1>2. CASE Finish("ok") /\ UNCHANGED <<games, ident>>
  BY <1>1, <1>2, FinishKeeps DEF CatalogInv
<1>3. CASE \E p \in job.todo :
             /\ job' = [job EXCEPT !.todo = @ \ {p}]
             /\ IF library[p] = Absent THEN UNCHANGED <<games, ident>> ELSE Upsert(p)
  <2>1. PICK p \in job.todo :
             /\ job' = [job EXCEPT !.todo = @ \ {p}]
             /\ IF library[p] = Absent THEN UNCHANGED <<games, ident>> ELSE Upsert(p)
    BY <1>3
  <2>2. p \in ImageNames
    BY <1>1 DEF CatalogInv, JobOK
  <2>3. job'.op = "scan" /\ JobOK(job')
    BY <1>1, <2>1 DEF CatalogInv, JobOK
  <2>4. GamesOK(games') /\ IdentOK(ident')
    BY <2>1, <2>2, UpsertKeeps DEF CatalogInv
  <2> QED BY <1>1, <2>3, <2>4, BeginKeeps
<1> QED BY <1>2, <1>3 DEF ScanEntry

LEMMA InspectNextKeeps ==
  ASSUME CatalogInv, InspectNext
  PROVE  CatalogInv'
<1>1. job.op = "inspect" /\ job.at = "next" /\ UNCHANGED <<library, art, games>>
  BY DEF InspectNext
<1>2. CASE Finish("ok") /\ UNCHANGED ident
  BY <1>1, <1>2, FinishKeeps DEF CatalogInv
<1>3. CASE ~(Finish("ok") /\ UNCHANGED ident)
  <2>1. PICK p \in job.todo :
             IF library[p] = Absent
             THEN /\ SaveIdentity(p, Absent, [status |-> "unavailable", id |-> 0])
                  /\ job' = [job EXCEPT !.todo = @ \ {p}] /\ UNCHANGED disturbed
             ELSE IF p \in DOMAIN ident /\ ident[p].stamp = fingerprint(p) /\ ident[p].status \in Statuses
             THEN /\ job' = [job EXCEPT !.todo = @ \ {p}] /\ UNCHANGED <<ident, disturbed>>
             ELSE /\ job' = [op |-> "inspect", todo |-> job.todo \ {p}, at |-> "open", p |-> p, stamp |-> fingerprint(p)]
                  /\ disturbed' = 0 /\ UNCHANGED ident
    BY <1>3 DEF InspectNext
  <2>2. p \in ImageNames /\ job.todo \subseteq ImageNames
    BY <1>1 DEF CatalogInv, JobOK
  <2>3. CASE job' = [job EXCEPT !.todo = @ \ {p}]
    <3>1. job'.op = "inspect" /\ job'.at = "next" /\ JobOK(job')
      BY <1>1, <2>3 DEF CatalogInv, JobOK
    <3>2. CASE SaveIdentity(p, Absent, [status |-> "unavailable", id |-> 0])
      <4>1. IdentOK(ident')
        BY <3>2, SaveIdentityKeeps DEF CatalogInv
      <4> QED BY <1>1, <3>1, <4>1, BeginKeeps DEF CatalogInv
    <3>3. CASE UNCHANGED ident
      BY <1>1, <3>1, <3>3, BeginKeeps DEF CatalogInv
    <3> QED BY <2>1, <3>2, <3>3
  <2>4. CASE job' = [op |-> "inspect", todo |-> job.todo \ {p}, at |-> "open", p |-> p, stamp |-> fingerprint(p)]
             /\ disturbed' = 0 /\ UNCHANGED ident
    <3>1. JobOK(job')
      BY <2>2, <2>4 DEF JobOK
    <3>2. LookOK(job', library', disturbed')
      BY <1>1, <2>4 DEF LookOK, fingerprint
    <3>3. WriteOK(job', library') /\ PaintOK(job', art')
      BY <2>4 DEF WriteOK, PaintOK
    <3> QED BY <1>1, <2>4, <3>1, <3>2, <3>3 DEF CatalogInv
  <2> QED BY <2>1, <2>3, <2>4
<1> QED BY <1>2, <1>3

LEMMA InspectKeeps ==
  ASSUME CatalogInv, InspectOpen \/ InspectRead \/ InspectSave
  PROVE  CatalogInv'
<1>1. CASE InspectOpen
  <2>1. /\ job.op = "inspect" /\ job.at = "open" /\ UNCHANGED <<library, art, games, ident, disturbed>>
        /\ job' = [op |-> "inspect", todo |-> job.todo, at |-> "read", p |-> job.p, stamp |-> job.stamp, opened |-> library[job.p]]
    BY <1>1 DEF InspectOpen, fingerprint
  <2>2. JobOK(job') /\ WriteOK(job', library') /\ PaintOK(job', art')
    BY <2>1 DEF JobOK, WriteOK, PaintOK, CatalogInv
  <2>3. LookOK(job', library', disturbed')
    BY <2>1 DEF LookOK, CatalogInv
  <2> QED BY <2>1, <2>2, <2>3 DEF CatalogInv
<1>2. CASE InspectRead
  <2>1. job.op = "inspect" /\ job.at = "read" /\ UNCHANGED <<library, art, games, ident, disturbed>>
    BY <1>2 DEF InspectRead
  <2>2. CASE Finish("ok")
    BY <2>1, <2>2, FinishKeeps DEF CatalogInv
  <2>3. CASE ~Finish("ok")
    <3>1. PICK id : id = IF job.opened = Absent THEN [status |-> "unavailable", id |-> 0]
                         ELSE IF library[job.p] # job.opened THEN [status |-> "changed", id |-> 0]
                         ELSE Inspect(job.opened)
      OBVIOUS
    <3>2. job' = [op |-> "inspect", todo |-> job.todo, at |-> "save", p |-> job.p, stamp |-> job.stamp, id |-> id]
      BY <1>2, <2>3, <3>1 DEF InspectRead, fingerprint
    <3>3. JobOK(job') /\ WriteOK(job', library') /\ PaintOK(job', art')
      BY <2>1, <3>2 DEF JobOK, WriteOK, PaintOK, CatalogInv
    <3>4. job.p \in ImageNames /\ library[job.p] \in ImageFiles
      BY <2>1 DEF JobOK, CatalogInv
    <3>7. id.status # "conflict"
      BY <3>1 DEF Inspect
    <3>5. disturbed = 0 /\ id.status = "verified" => id.id \in Serials /\ id.id = job.stamp.ver /\ ~job.stamp.part
      <4> SUFFICES ASSUME disturbed = 0, id.status = "verified"
                   PROVE  id.id \in Serials /\ id.id = job.stamp.ver /\ ~job.stamp.part
        OBVIOUS
      <4>1. job.opened = job.stamp /\ library[job.p] = job.stamp
        BY <2>1 DEF CatalogInv, LookOK
      <4>2. id = Inspect(job.stamp)
        BY <3>1, <4>1
      <4> QED BY <3>4, <4>1, <4>2, InspectedOK
    <3>6. LookOK(job', library', disturbed')
      BY <2>1, <3>2, <3>5, <3>7 DEF LookOK, CatalogInv
    <3> QED BY <2>1, <3>3, <3>6 DEF CatalogInv
  <2> QED BY <2>2, <2>3
<1>3. CASE InspectSave
  <2>1. /\ job.op = "inspect" /\ job.at = "save" /\ UNCHANGED <<library, art, games>>
        /\ SaveIdentity(job.p, job.stamp, Compared)
        /\ job' = [op |-> "inspect", todo |-> job.todo, at |-> "next"]
    BY <1>3 DEF InspectSave
  <2>2. job.p \in ImageNames
    BY <2>1 DEF JobOK, CatalogInv
  <2>3. Compared.status = "verified" => Compared.id \in Serials /\ Compared.id = job.stamp.ver /\ ~job.stamp.part
    <3> SUFFICES ASSUME Compared.status = "verified"
                 PROVE  Compared.id \in Serials /\ Compared.id = job.stamp.ver /\ ~job.stamp.part
      OBVIOUS
    <3>1. library[job.p] = job.stamp /\ Compared = job.id
      BY DEF Compared, fingerprint
    <3>2. disturbed = 0
      BY <2>1, <3>1 DEF CatalogInv, LookOK
    <3> QED BY <2>1, <3>1, <3>2 DEF CatalogInv, LookOK
  <2>6. Compared.status # "conflict"
    BY <2>1 DEF Compared, CatalogInv, LookOK
  <2>4. IdentOK(ident')
    BY <2>1, <2>3, <2>6, SaveIdentityKeeps DEF CatalogInv
  <2>5. JobOK(job') /\ job'.op = "inspect" /\ job'.at = "next"
    BY <2>1 DEF JobOK, CatalogInv
  <2> QED BY <2>1, <2>4, <2>5, BeginKeeps DEF CatalogInv
<1> QED BY <1>1, <1>2, <1>3

LEMMA EditKeeps ==
  ASSUME CatalogInv, EditRow
  PROVE  CatalogInv'
<1>1. job.op = "edit" /\ Finish("ok") /\ UNCHANGED <<library, art, ident>>
  BY DEF EditRow
<1>2. GamesOK(games')
  BY <1>1 DEF EditRow, GamesOK, CatalogInv, JobOK
<1> QED BY <1>1, <1>2, FinishKeeps DEF CatalogInv

LEMMA ImportKeeps ==
  ASSUME CatalogInv, ImportCheck \/ ImportCreate \/ ImportCopy \/ ImportUndo \/ ImportRow
  PROVE  CatalogInv'
<1>0. /\ job.op = "import" /\ job.p \in ImageNames /\ job.ver \in Nat
      /\ job.at # "undo" => DOMAIN job = {"op", "p", "ver", "at"}
  BY DEF ImportCheck, ImportCreate, ImportCopy, ImportUndo, ImportRow, CatalogInv, JobOK
<1>1. CASE ImportCheck
  <2>1. job.at = "check" /\ UNCHANGED <<library, art, games, ident, disturbed>>
    BY <1>1 DEF ImportCheck
  <2>2. CASE Finish("failed")
    BY <2>1, <2>2, FinishKeeps DEF CatalogInv
  <2>3. CASE job' = [job EXCEPT !.at = "create"]
    <3>1. JobOK(job') /\ LookOK(job', library', disturbed') /\ WriteOK(job', library') /\ PaintOK(job', art')
      BY <1>0, <2>1, <2>3 DEF JobOK, LookOK, WriteOK, PaintOK
    <3> QED BY <2>1, <3>1 DEF CatalogInv
  <2> QED BY <1>1, <2>2, <2>3 DEF ImportCheck
<1>2. CASE ImportCreate
  <2>1. job.at = "create" /\ UNCHANGED <<art, games, ident, disturbed>>
    BY <1>2 DEF ImportCreate
  <2>2. CASE library[job.p] # Absent
    <3>1. job' = [job EXCEPT !.at = "undo"] /\ library' = library
      BY <1>2, <2>2 DEF ImportCreate
    <3>2. DOMAIN job' = {"op", "p", "ver", "at"} /\ job'.op = "import" /\ job'.at = "undo" /\ job'.p = job.p /\ job'.ver = job.ver
      BY <1>0, <2>1, <3>1
    <3>3. JobOK(job') /\ LookOK(job', library', disturbed') /\ WriteOK(job', library') /\ PaintOK(job', art')
      BY <1>0, <3>2 DEF JobOK, LookOK, WriteOK, PaintOK, Created
    <3> QED BY <2>1, <3>1, <3>3 DEF CatalogInv
  <2>3. CASE library[job.p] = Absent
    <3>1. job' = [job EXCEPT !.at = "copy"] /\ library' = [library EXCEPT ![job.p] = [ver |-> job.ver, part |-> TRUE, ours |-> TRUE]]
      BY <1>2, <2>3 DEF ImportCreate
    <3>2. DOMAIN job' = {"op", "p", "ver", "at"} /\ job'.op = "import" /\ job'.at = "copy" /\ job'.p = job.p /\ job'.ver = job.ver
      BY <1>0, <2>1, <3>1
    <3>3. library' \in [ImageNames -> ImageFiles] /\ library'[job.p].ours = TRUE
      BY <1>0, <3>1 DEF CatalogInv, ImageFiles
    <3>4. JobOK(job') /\ LookOK(job', library', disturbed') /\ WriteOK(job', library') /\ PaintOK(job', art')
      BY <1>0, <3>2, <3>3 DEF JobOK, LookOK, WriteOK, PaintOK
    <3> QED BY <2>1, <3>3, <3>4 DEF CatalogInv
  <2> QED BY <2>2, <2>3
<1>3. CASE ImportCopy
  <2>1. job.at = "copy" /\ UNCHANGED <<art, games, ident, disturbed>> /\ library[job.p].ours = TRUE
    BY <1>0, <1>3 DEF ImportCopy, CatalogInv, WriteOK
  <2>2. CASE job' = [job EXCEPT !.at = "row"] /\ library' = [library EXCEPT ![job.p].part = FALSE]
    <3>1. DOMAIN job' = {"op", "p", "ver", "at"} /\ job'.op = "import" /\ job'.at = "row" /\ job'.p = job.p /\ job'.ver = job.ver
      BY <1>0, <2>1, <2>2
    <3>2. library' \in [ImageNames -> ImageFiles]
      BY <1>0, <2>2 DEF CatalogInv, ImageFiles
    <3>3. JobOK(job') /\ LookOK(job', library', disturbed') /\ WriteOK(job', library') /\ PaintOK(job', art')
      BY <1>0, <3>1 DEF JobOK, LookOK, WriteOK, PaintOK
    <3> QED BY <2>1, <3>2, <3>3 DEF CatalogInv
  <2>3. CASE /\ job' = [op |-> "import", p |-> job.p, ver |-> job.ver, at |-> "undo", created |-> TRUE]
             /\ UNCHANGED library
    <3>1. JobOK(job') /\ LookOK(job', library', disturbed') /\ WriteOK(job', library') /\ PaintOK(job', art')
      BY <1>0, <2>1, <2>3 DEF JobOK, LookOK, WriteOK, PaintOK
    <3> QED BY <2>1, <2>3, <3>1 DEF CatalogInv
  <2> QED BY <1>3, <2>2, <2>3 DEF ImportCopy
<1>4. CASE ImportUndo
  <2>1. Finish("failed") /\ UNCHANGED <<art, games, ident, disturbed>>
    BY <1>4 DEF ImportUndo
  <2>2. library' \in [ImageNames -> ImageFiles]
    BY <1>0, <1>4 DEF ImportUndo, CatalogInv, ImageFiles, Absent
  <2>3. job'.op = "none"
    BY <2>1 DEF Finish, IdleJob
  <2>4. JobOK(job') /\ LookOK(job', library', disturbed') /\ WriteOK(job', library') /\ PaintOK(job', art')
    BY <2>3 DEF JobOK, LookOK, WriteOK, PaintOK
  <2> QED BY <2>1, <2>2, <2>4 DEF CatalogInv
<1>5. CASE ImportRow
  <2>1. Finish("ok") /\ UNCHANGED <<library, art, disturbed>>
    BY <1>5 DEF ImportRow
  <2>2. GamesOK(games') /\ IdentOK(ident')
    BY <1>0, <1>5, UpsertKeeps DEF ImportRow, CatalogInv
  <2> QED BY <2>1, <2>2, FinishKeeps
<1> QED BY <1>1, <1>2, <1>3, <1>4, <1>5

LEMMA ArtKeeps ==
  ASSUME CatalogInv, ArtNext \/ ArtCreate \/ ArtSave \/ ArtUndo
  PROVE  CatalogInv'
<1>0. /\ job.op \in {"art", "convert"} /\ job.todo \subseteq Serials
      /\ IF job.at = "next" THEN DOMAIN job = {"op", "todo", "at"} ELSE job.k \in Serials
      /\ UNCHANGED <<library, games, ident, disturbed>>
  BY DEF ArtNext, ArtCreate, ArtSave, ArtUndo, Painting, CatalogInv, JobOK
<1>1. CASE ArtNext
  <2>1. job.at = "next" /\ art' = art
    BY <1>1 DEF ArtNext
  <2>2. CASE Finish("ok")
    BY <1>0, <2>1, <2>2, FinishKeeps DEF CatalogInv
  <2>3. CASE ~Finish("ok")
    <3>1. PICK k \in job.todo, found \in BOOLEAN :
             job' = IF found /\ art[k] = "none"
                    THEN [op |-> job.op, todo |-> job.todo \ {k}, at |-> "create", k |-> k]
                    ELSE [job EXCEPT !.todo = @ \ {k}]
      BY <1>1, <2>3 DEF ArtNext
    <3>2. CASE job' = [op |-> job.op, todo |-> job.todo \ {k}, at |-> "create", k |-> k]
      <4>1. JobOK(job') /\ LookOK(job', library', disturbed') /\ WriteOK(job', library') /\ PaintOK(job', art')
        BY <1>0, <3>2 DEF JobOK, LookOK, WriteOK, PaintOK
      <4> QED BY <1>0, <2>1, <4>1 DEF CatalogInv
    <3>3. CASE job' = [job EXCEPT !.todo = @ \ {k}]
      <4>1. DOMAIN job' = {"op", "todo", "at"} /\ job'.op = job.op /\ job'.at = "next" /\ job'.todo \subseteq Serials
        BY <1>0, <2>1, <3>3
      <4>2. JobOK(job')
        BY <1>0, <4>1 DEF JobOK
      <4> QED BY <1>0, <2>1, <4>1, <4>2, BeginKeeps DEF CatalogInv
    <3> QED BY <3>1, <3>2, <3>3
  <2> QED BY <2>2, <2>3
<1>2. CASE ArtCreate
  <2>1. job.at = "create"
    BY <1>2 DEF ArtCreate
  <2>2. /\ job'.op = job.op /\ job'.todo = job.todo /\ job'.at \in {"undo", "save"} /\ job'.k = job.k
        /\ DOMAIN job' = {"op", "todo", "at", "k"}
        /\ art' \in [Serials -> {"none", "theirs", "part", "ours"}]
        /\ job'.at = "save" => art'[job.k] = "part"
    BY <1>0, <1>2, <2>1 DEF ArtCreate, CatalogInv
  <2>3. JobOK(job') /\ LookOK(job', library', disturbed') /\ WriteOK(job', library') /\ PaintOK(job', art')
    BY <1>0, <2>1, <2>2 DEF JobOK, LookOK, WriteOK, PaintOK, Created
  <2> QED BY <1>0, <2>2, <2>3 DEF CatalogInv
<1>3. CASE ArtSave
  <2>1. job.at = "save" /\ art[job.k] = "part"
    BY <1>0, <1>3 DEF ArtSave, CatalogInv, PaintOK
  <2>2. CASE art' = [art EXCEPT ![job.k] = "ours"] /\ job' = [op |-> job.op, todo |-> job.todo, at |-> "next"]
    <3>1. art' \in [Serials -> {"none", "theirs", "part", "ours"}]
      BY <2>2 DEF CatalogInv
    <3>2. JobOK(job') /\ LookOK(job', library', disturbed') /\ WriteOK(job', library') /\ PaintOK(job', art')
      BY <1>0, <2>2 DEF JobOK, LookOK, WriteOK, PaintOK
    <3> QED BY <1>0, <3>1, <3>2 DEF CatalogInv
  <2>3. CASE UNCHANGED art /\ job' = [op |-> job.op, todo |-> job.todo, at |-> "undo", k |-> job.k, created |-> TRUE]
    <3>1. JobOK(job') /\ LookOK(job', library', disturbed') /\ WriteOK(job', library') /\ PaintOK(job', art')
      BY <1>0, <2>1, <2>3 DEF JobOK, LookOK, WriteOK, PaintOK
    <3> QED BY <1>0, <2>3, <3>1 DEF CatalogInv
  <2> QED BY <1>3, <2>2, <2>3 DEF ArtSave
<1>4. CASE ArtUndo
  <2>1. job' = [op |-> job.op, todo |-> job.todo, at |-> "next"]
    BY <1>4 DEF ArtUndo
  <2>2. art' \in [Serials -> {"none", "theirs", "part", "ours"}]
    BY <1>4 DEF ArtUndo, CatalogInv
  <2>3. JobOK(job') /\ LookOK(job', library', disturbed') /\ WriteOK(job', library') /\ PaintOK(job', art')
    BY <1>0, <2>1 DEF JobOK, LookOK, WriteOK, PaintOK
  <2> QED BY <1>0, <2>2, <2>3 DEF CatalogInv
<1> QED BY <1>1, <1>2, <1>3, <1>4

\* Other programs: never the file an import is writing, and once at most the one being inspected.
LEMMA OtherKeeps ==
  ASSUME LooksDisturbed <= 1, CatalogInv, OtherProgram
  PROVE  CatalogInv'
<1>1. PICK p \in ImageNames, v \in 0..MaxVersion :
       /\ v # library[p].ver /\ ~(Writing(p) /\ library[p].ours)
       /\ Looking(p) => disturbed < LooksDisturbed
       /\ disturbed' = IF Looking(p) THEN disturbed + 1 ELSE disturbed
       /\ library' = [library EXCEPT ![p] = [ver |-> v, part |-> FALSE, ours |-> FALSE]]
  BY DEF OtherProgram
<1>2. job' = job /\ UNCHANGED <<art, games, ident>>
  BY DEF OtherProgram
<1>3. LooksDisturbed \in {0, 1} /\ v \in Nat
  BY LibraryAssumption
<1>4. library' \in [ImageNames -> ImageFiles] /\ library'[p].ver = v /\ \A q \in ImageNames \ {p} : library'[q] = library[q]
  BY <1>1, <1>3 DEF CatalogInv, ImageFiles
<1>5. WriteOK(job', library')
  BY <1>1, <1>2, <1>4 DEF WriteOK, Writing, CatalogInv, JobOK
<1>6. LookOK(job', library', disturbed')
  <2> SUFFICES ASSUME job.op = "inspect", job.at # "next" PROVE LookOK(job, library', disturbed')
    BY <1>2 DEF LookOK
  <2>1. job.p \in ImageNames
    BY DEF CatalogInv, JobOK
  <2>2. CASE p = job.p
    <3>1. Looking(p)
      BY <2>2 DEF Looking
    <3>2. disturbed = 0 /\ disturbed' = 1 /\ library[p] = job.stamp
      BY <1>1, <1>3, <2>2, <3>1 DEF CatalogInv, LookOK
    <3> QED BY <1>1, <1>4, <2>2, <3>2 DEF LookOK, CatalogInv
  <2>3. CASE p # job.p
    <3>1. ~Looking(p)
      BY <2>3 DEF Looking
    <3>2. disturbed' = disturbed /\ library'[job.p] = library[job.p]
      BY <1>1, <1>4, <2>1, <2>3, <3>1
    <3> QED BY <3>2 DEF CatalogInv, LookOK
  <2> QED BY <2>2, <2>3
<1> QED BY <1>2, <1>4, <1>5, <1>6 DEF CatalogInv

LEMMA OtherArtKeeps ==
  ASSUME CatalogInv, OtherArt
  PROVE  CatalogInv'
<1>1. PICK k \in Serials : art[k] = "none" /\ art' = [art EXCEPT ![k] = "theirs"]
  BY DEF OtherArt
<1>2. UNCHANGED <<library, games, ident, job, disturbed>>
  BY DEF OtherArt
<1>3. art' \in [Serials -> {"none", "theirs", "part", "ours"}] /\ PaintOK(job, art')
  BY <1>1 DEF CatalogInv, PaintOK, JobOK
<1> QED BY <1>2, <1>3 DEF CatalogInv

LEMMA CatalogStep ==
  ASSUME LooksDisturbed <= 1, CatalogInv, [CatalogNext]_catalogVars
  PROVE  CatalogInv'
<1>1. CASE Scan \/ InspectIds \/ Edit \/ Restore \/ ImportImage \/ DownloadArt \/ RepairArt \/ ImportArt
  BY <1>1, StartsKeep
<1>2. CASE CatalogWork
  BY <1>2, ScanKeeps, InspectNextKeeps, InspectKeeps, EditKeeps, ImportKeeps, ArtKeeps, Zenon DEF CatalogWork
<1>3. CASE Drain \/ CancelScan \/ UNCHANGED catalogVars
  <2>1. UNCHANGED <<library, art, games, ident, job, disturbed>>
    BY <1>3 DEF Drain, CancelScan, catalogVars
  <2> QED BY <2>1 DEF CatalogInv
<1>4. CASE OtherProgram
  BY <1>4, OtherKeeps
<1>5. CASE OtherArt
  BY <1>5, OtherArtKeeps
<1>6. CASE Kill
  <2>1. job'.op = "none" /\ UNCHANGED <<library, art, games, ident>>
    BY <1>6 DEF Kill, IdleJob
  <2>2. JobOK(job')
    BY <2>1 DEF JobOK
  <2> QED BY <2>1, <2>2, BeginKeeps DEF CatalogInv
<1> QED BY <1>1, <1>2, <1>3, <1>4, <1>5, <1>6, Zenon DEF CatalogNext

\* A file or a cover is created exclusively, and only what was created is changed or removed.
LEMMA WorkOverwritesNothing ==
  ASSUME CatalogInv
  PROVE  NothingOverwritten
<1> DEFINE Spared == /\ \A p \in ImageNames : library[p] # Absent /\ ~library[p].ours => library'[p] = library[p]
                   /\ \A k \in Serials : art[k] = "theirs" => art'[k] = "theirs"
<1>1. CASE ScanEntry \/ InspectNext \/ InspectOpen \/ InspectRead \/ InspectSave \/ EditRow \/ ImportCheck \/ ImportRow \/ ArtNext
  <2>1. UNCHANGED <<library, art>>
    BY <1>1 DEF ScanEntry, InspectNext, InspectOpen, InspectRead, InspectSave, EditRow, ImportCheck, ImportRow, ArtNext
  <2> QED BY <2>1 DEF NothingOverwritten
<1>2. CASE ImportCreate \/ ImportCopy \/ ImportUndo
  <2>1. art' = art /\ job.op = "import" /\ job.p \in ImageNames
    BY <1>2 DEF ImportCreate, ImportCopy, ImportUndo, CatalogInv, JobOK
  <2>2. library' = library \/ library[job.p] = Absent \/ library[job.p].ours = TRUE
    BY <1>2 DEF ImportCreate, ImportCopy, ImportUndo, CatalogInv, WriteOK
  <2>3. \A p \in ImageNames \ {job.p} : library'[p] = library[p]
    BY <1>2, <2>1 DEF ImportCreate, ImportCopy, ImportUndo, CatalogInv
  <2>4. Spared
    BY <2>1, <2>2, <2>3
  <2> QED BY <2>4 DEF NothingOverwritten
<1>3. CASE ArtCreate \/ ArtSave \/ ArtUndo
  <2>1. library' = library /\ job.op \in {"art", "convert"} /\ job.k \in Serials
    BY <1>3 DEF ArtCreate, ArtSave, ArtUndo, Painting, CatalogInv, JobOK
  <2>2. art' = art \/ art[job.k] = "none" \/ art[job.k] = "part"
    BY <1>3 DEF ArtCreate, ArtSave, ArtUndo, Painting, CatalogInv, PaintOK
  <2>3. \A k \in Serials \ {job.k} : art'[k] = art[k]
    BY <1>3, <2>1 DEF ArtCreate, ArtSave, ArtUndo, CatalogInv
  <2>4. Spared
    BY <2>1, <2>2, <2>3
  <2> QED BY <2>4 DEF NothingOverwritten
<1>4. CASE ~CatalogWork
  BY <1>4 DEF NothingOverwritten
<1> QED BY <1>1, <1>2, <1>3, <1>4, Zenon DEF CatalogWork

\* The LIBRARY tab (library_panel.py, library_catalog.py, disc_identity.py): a serial it shows is
\* the image's own, and no image or cover of anybody else is changed or removed, when no image is
\* swapped twice within one inspection; the stamps the code compares cannot see an image put back.
THEOREM CatalogTrue == ASSUME LooksDisturbed <= 1 PROVE CatalogSpec => CatalogFaithful
<1>1. CatalogInit => CatalogInv
  <2> SUFFICES ASSUME CatalogInit PROVE CatalogInv
    OBVIOUS
  <2>1. job.op = "none"
    BY DEF CatalogInit, IdleJob
  <2>2. JobOK(job) /\ LookOK(job, library, disturbed) /\ WriteOK(job, library) /\ PaintOK(job, art)
    BY <2>1 DEF JobOK, LookOK, WriteOK, PaintOK
  <2>3. library \in [ImageNames -> ImageFiles] /\ art \in [Serials -> {"none", "theirs", "part", "ours"}]
    BY DEF CatalogInit, Absent, ImageFiles
  <2>4. GamesOK(games) /\ IdentOK(ident)
    BY DEF CatalogInit, GamesOK, IdentOK
  <2> QED BY <2>2, <2>3, <2>4 DEF CatalogInv
<1>2. CatalogInv /\ [CatalogNext]_catalogVars => CatalogInv'
  BY CatalogStep
<1>3. CatalogInv => SerialIsTheImages
  <2> SUFFICES ASSUME CatalogInv, NEW p \in DOMAIN games, CurrentIdentity(p).status \in {"verified", "conflict"}
               PROVE  CurrentIdentity(p).id = library[p].ver /\ ~library[p].part
    BY DEF SerialIsTheImages
  <2>1. /\ p \in DOMAIN ident /\ ident[p].status = "verified" /\ library[p] = ident[p].stamp
        /\ CurrentIdentity(p).id = ident[p].id
    <3>1. p \in DOMAIN ident
      BY DEF CurrentIdentity, IdentityRecord
    <3>2. ident[p].status = "verified"
      BY <3>1 DEF CurrentIdentity, IdentityRecord, CatalogInv, IdentOK
    <3>3. library[p] = ident[p].stamp
      BY <3>1 DEF CurrentIdentity, IdentityRecord, fingerprint
    <3>4. CurrentIdentity(p).id = ident[p].id
      BY <3>1, <3>3 DEF CurrentIdentity, IdentityRecord, fingerprint
    <3> QED BY <3>1, <3>2, <3>3, <3>4
  <2> QED BY <2>1 DEF CatalogInv, IdentOK
<1>4. CatalogInv => NothingOverwritten
  BY WorkOverwritesNothing
<1> QED BY <1>1, <1>2, <1>3, <1>4, PTL DEF CatalogSpec, CatalogFaithful

-----------------------------------------------------------------------------
(* RaSession: an unlock is told once.                                        *)

Tellings == [id : UnlockIds, run : Nat, now : Nat]
Finds == [id : UnlockIds, run : Nat]

EngineOK(e) ==
  /\ DOMAIN e = {"run", "connected", "packets", "game", "ring"}
  /\ e.run \in Nat /\ e.ring \subseteq UnlockIds /\ IsFiniteSet(e.ring)

TrackOK(t) ==
  /\ DOMAIN t = {"packets", "advanced", "session", "active"}
  /\ t.session \in Nat /\ (t.active # NoGame => t.session >= 1)

UnlockedOK(u) == DOMAIN u = {"session", "seen"}

MonitorOK(m, e, n) ==
  /\ DOMAIN m = {"enabled", "was", "at", "got", "result", "unlocks"}
  /\ m.at \in {"top", "read"} /\ EngineOK(m.got) /\ m.got.run <= n
  /\ m.unlocks \in Seq(Finds)
  /\ m.got.run # 0 /\ m.got.run = e.run => m.got.ring \subseteq e.ring

\* An unlock i of run r that was told or is about to be: the engine still has it, if the run goes
\* on, so does what was fetched, and the tracker has seen it unless it is to begin anew.
KeyOK(i, r, e, n, m, u) ==
  /\ r \in 1 .. n
  /\ r = e.run => i \in e.ring
  /\ m.at = "read" /\ m.got.run # 0 => r <= m.got.run
  /\ m.at = "read" /\ r = m.got.run => i \in m.got.ring
  /\ r = e.run \/ (m.at = "read" /\ r = m.got.run) => u.session = 0 \/ i \in u.seen

SameUnlock(x, y) == x.id = y.id /\ x.run = y.run
NoneTwice(s) == \A i, j \in DOMAIN s : i # j => ~SameUnlock(s[i], s[j])
NoneShared(s, t) == \A i \in DOMAIN s, j \in DOMAIN t : ~SameUnlock(s[i], t[j])

AllKeysOK(s, e, n, m, u) == \A i \in DOMAIN s : KeyOK(s[i].id, s[i].run, e, n, m, u)

SessionInv ==
  /\ EngineOK(engine) /\ engineRuns \in Nat /\ engine.run \in {0, engineRuns}
  /\ TrackOK(track) /\ UnlockedOK(unlocked) /\ MonitorOK(mon, engine, engineRuns)
  /\ told \in Seq(Tellings)
  /\ NoneTwice(told) /\ NoneTwice(mon.unlocks) /\ NoneShared(told, mon.unlocks)
  /\ AllKeysOK(told, engine, engineRuns, mon, unlocked)
  /\ AllKeysOK(mon.unlocks, engine, engineRuns, mon, unlocked)

\* A finite set as a sequence: each of its elements once.
LEMMA SequenceOfSet ==
  ASSUME NEW S, IsFiniteSet(S), NEW s, s = SetToSeq(S)
  PROVE  s \in Seq(S) /\ \A i, j \in DOMAIN s : i # j => s[i] # s[j]
<1>1. Cardinality(S) \in Nat /\ ExistsBijection(1..Cardinality(S), S)
  BY FS_CardinalityType
<1>2. PICK f \in [1..Cardinality(S) -> S] : IsInjective(f)
  BY <1>1 DEF ExistsBijection, Bijection, Injection
<1>3. s \in [1..Cardinality(S) -> S] /\ IsInjective(s)
  BY <1>2 DEF SetToSeq
<1>4. s \in Seq(S)
  BY <1>1, <1>3
<1>5. \A i, j \in DOMAIN s : i # j => s[i] # s[j]
  BY <1>3 DEF IsInjective
<1> QED BY <1>4, <1>5

\* The unlocks found in one look at run r.
LEMMA Findings ==
  ASSUME NEW Y, Y \subseteq UnlockIds, IsFiniteSet(Y), NEW r \in Nat,
         NEW s, s = SetToSeq({[id |-> i, run |-> r] : i \in Y})
  PROVE  s \in Seq(Finds) /\ NoneTwice(s) /\ \A k \in DOMAIN s : s[k].id \in Y /\ s[k].run = r
<1>1. PICK S : S = {[id |-> i, run |-> r] : i \in Y}
  OBVIOUS
<1>2. IsFiniteSet(S)
  <2>1. PICK f : f = [i \in Y |-> [id |-> i, run |-> r]]
    OBVIOUS
  <2>2. f \in [Y -> S] /\ \A x \in S : \E i \in Y : f[i] = x
    BY <1>1, <2>1
  <2>3. f \in Surjection(Y, S)
    BY <2>2 DEF Surjection
  <2> QED BY <2>3, FS_Surjection
<1>3. s \in Seq(S) /\ \A i, j \in DOMAIN s : i # j => s[i] # s[j]
  <2>1. s = SetToSeq(S)
    BY <1>1
  <2> QED BY ONLY <1>2, <2>1, SequenceOfSet
<1>4. S \subseteq Finds /\ \A x \in S : x.id \in Y /\ x.run = r
  BY <1>1 DEF Finds
<1>5. \A x, y \in S : SameUnlock(x, y) => x = y
  BY <1>1 DEF SameUnlock
<1>6. \A k \in DOMAIN s : s[k] \in S
  BY <1>3
<1>7. s \in Seq(Finds)
  BY <1>3, <1>4
<1>8. NoneTwice(s)
  BY <1>3, <1>5, <1>6 DEF NoneTwice
<1> QED BY <1>4, <1>6, <1>7, <1>8

\* Two sequences of different unlocks, one after the other.
IsAppended(w, s, t) == w = s \o t

LEMMA Joined ==
  ASSUME NEW A, NEW s \in Seq(A), NEW t \in Seq(A), NoneTwice(s), NoneTwice(t), NoneShared(s, t),
         NEW w, IsAppended(w, s, t)
  PROVE  /\ w \in Seq(A) /\ NoneTwice(w)
         /\ \A k \in DOMAIN w : (\E i \in DOMAIN s : w[k] = s[i]) \/ (\E i \in DOMAIN t : w[k] = t[i])
<1>1. w \in Seq(A) /\ Len(w) = Len(s) + Len(t) /\ Len(s) \in Nat /\ Len(t) \in Nat
      /\ DOMAIN s = 1 .. Len(s) /\ DOMAIN t = 1 .. Len(t) /\ DOMAIN w = 1 .. Len(s) + Len(t)
  BY DEF IsAppended
<1>2. \A k \in DOMAIN w : \/ k \in DOMAIN s /\ w[k] = s[k]
                          \/ k - Len(s) \in DOMAIN t /\ k \notin DOMAIN s /\ w[k] = t[k - Len(s)]
  BY <1>1 DEF IsAppended
<1>3. ASSUME NEW k \in DOMAIN w, NEW l \in DOMAIN w, k # l PROVE ~SameUnlock(w[k], w[l])
  <2>1. CASE k \in DOMAIN s /\ l \in DOMAIN s
    BY <1>2, <1>3, <2>1 DEF NoneTwice
  <2>2. CASE k \in DOMAIN s /\ l \notin DOMAIN s
    BY <1>2, <2>2 DEF NoneShared
  <2>3. CASE k \notin DOMAIN s /\ l \in DOMAIN s
    BY <1>2, <2>3 DEF NoneShared, SameUnlock
  <2>4. CASE k \notin DOMAIN s /\ l \notin DOMAIN s
    <3>1. k - Len(s) \in DOMAIN t /\ l - Len(s) \in DOMAIN t /\ k - Len(s) # l - Len(s)
          /\ w[k] = t[k - Len(s)] /\ w[l] = t[l - Len(s)]
      BY <1>1, <1>2, <1>3, <2>4
    <3> QED BY <3>1 DEF NoneTwice
  <2> QED BY <2>1, <2>2, <2>3, <2>4
<1>4. NoneTwice(w)
  BY <1>3 DEF NoneTwice
<1> QED BY <1>1, <1>2, <1>4

LEMMA NewestKept ==
  ASSUME NEW A, NEW s \in Seq(A), NoneTwice(s), NEW w, w = Newest(s)
  PROVE  w \in Seq(A) /\ NoneTwice(w) /\ \A k \in DOMAIN w : \E i \in DOMAIN s : w[k] = s[i]
<1>0. UNLOCKS_KEPT \in Nat
  BY SessionAssumption
<1>1. CASE Len(s) <= UNLOCKS_KEPT
  BY <1>1 DEF Newest
<1>2. CASE ~(Len(s) <= UNLOCKS_KEPT)
  <2>1. PICK d : d = Len(s) - UNLOCKS_KEPT
    OBVIOUS
  <2>2. w = SubSeq(s, d + 1, Len(s)) /\ d \in Nat /\ d + 1 <= Len(s) + 1 /\ Len(s) \in Nat /\ DOMAIN s = 1 .. Len(s)
    BY <1>0, <1>2, <2>1 DEF Newest
  <2>3. w \in Seq(A) /\ DOMAIN w = 1 .. Len(s) - d /\ \A k \in DOMAIN w : w[k] = s[k + d] /\ k + d \in DOMAIN s
    BY <2>2
  <2>4. NoneTwice(w)
    BY <2>2, <2>3 DEF NoneTwice
  <2> QED BY <2>3, <2>4
<1> QED BY <1>1, <1>2

-----------------------------------------------------------------------------
\* observe of the two trackers.
LEMMA ObserveKeeps ==
  ASSUME NEW T, TrackOK(T), NEW e, NEW stalled, NEW s, s = Observe(T, e, stalled)
  PROVE  TrackOK(s.t) /\ (s.r.state = "playing" => e.run # 0 /\ s.r.session \in Nat /\ s.r.session >= 1)
<1>1. CASE e.run = 0 \/ ~e.connected
  BY <1>1 DEF Observe, Seen, Plain, NewTrack, TrackOK
<1>2. CASE ~(e.run = 0 \/ ~e.connected)
  <2> DEFINE adv == T.packets # -1 /\ e.packets > T.packets
             a == IF adv THEN TRUE ELSE IF T.packets # -1 /\ e.packets < T.packets THEN FALSE ELSE T.advanced
             U == [T EXCEPT !.packets = e.packets, !.advanced = a]
             idle == [U EXCEPT !.active = NoGame]
             n == IF e.game # U.active THEN U.session + 1 ELSE U.session
  <2>1. \/ s = Seen(idle, Plain("stalled")) \/ s = Seen(idle, Plain("connected"))
        \/ e.game # NoGame /\ s = Seen([U EXCEPT !.active = e.game, !.session = n], [state |-> "playing", game |-> e.game, session |-> n])
    BY <1>2, Zenon DEF Observe
  <2> HIDE DEF adv
  <2>2. DOMAIN U = DOMAIN T /\ U.session = T.session /\ U.active = T.active
    <3> HIDE DEF a
    <3> QED BY ONLY TrackOK(T) DEF TrackOK
  <2> HIDE DEF U
  <2>3. TrackOK(U)
    BY <2>2 DEF TrackOK
  <2>4. TrackOK(idle)
    BY <2>3 DEF TrackOK
  <2>5. CASE s = Seen(idle, Plain("stalled")) \/ s = Seen(idle, Plain("connected"))
    BY <2>4, <2>5 DEF Seen, Plain
  <2>6. CASE e.game # NoGame /\ s = Seen([U EXCEPT !.active = e.game, !.session = n], [state |-> "playing", game |-> e.game, session |-> n])
    <3>1. n \in Nat /\ n >= 1
      BY <2>3, <2>6 DEF TrackOK
    <3>2. TrackOK([U EXCEPT !.active = e.game, !.session = n])
      BY <2>3, <3>1 DEF TrackOK
    <3> QED BY <1>2, <2>6, <3>1, <3>2 DEF Seen
  <2> QED BY <2>1, <2>5, <2>6
<1> QED BY <1>1, <1>2

LEMMA FreshKeeps ==
  ASSUME NEW N, UnlockedOK(N), NEW e, NEW r, NEW f, f = Fresh(N, e, r)
  PROVE  /\ UnlockedOK(f.n)
         /\ \/ f.n.session = 0 /\ f.new = {}
            \/ r.state = "playing" /\ f.new = {} /\ f.n.seen = e.ring
            \/ r.state = "playing" /\ r.session = N.session /\ f.new = e.ring \ N.seen /\ f.n.seen = N.seen \cup e.ring
               /\ f.n.session = N.session
<1>1. CASE r.state # "playing"
  BY <1>1 DEF Fresh, NewUnlocked, UnlockedOK
<1>2. CASE r.state = "playing" /\ r.session # N.session
  BY <1>2 DEF Fresh, UnlockedOK
<1>3. CASE r.state = "playing" /\ r.session = N.session
  <2>1. f = [n |-> [N EXCEPT !.seen = @ \cup e.ring], new |-> e.ring \ N.seen]
    BY <1>3 DEF Fresh
  <2>2. PICK g : g = [N EXCEPT !.seen = @ \cup e.ring]
    OBVIOUS
  <2>3. UnlockedOK(g) /\ g.seen = N.seen \cup e.ring /\ g.session = N.session
    BY <2>2 DEF UnlockedOK
  <2>4. f.n = g /\ f.new = e.ring \ N.seen
    BY ONLY <2>1, <2>2
  <2> QED BY ONLY <1>3, <2>3, <2>4
<1> QED BY <1>1, <1>2, <1>3

\* Steps of the engine and of the console behind it: the thread and the window are elsewhere.
LEMMA EngineKeeps ==
  ASSUME SessionInv, EngineOK(engine'), engineRuns' \in Nat, engine'.run \in {0, engineRuns'}, engineRuns <= engineRuns',
         engine'.run = engine.run => engine.ring \subseteq engine'.ring,
         engine'.run = engine.run \/ engine'.run = 0 \/ engine'.run > engineRuns,
         UNCHANGED <<track, unlocked, mon, told>>
  PROVE  SessionInv'
<1>1. MonitorOK(mon, engine', engineRuns')
  BY DEF SessionInv, MonitorOK, EngineOK
<1>2. ASSUME NEW i, NEW r, KeyOK(i, r, engine, engineRuns, mon, unlocked)
      PROVE  KeyOK(i, r, engine', engineRuns', mon, unlocked)
  BY <1>2 DEF KeyOK, SessionInv, EngineOK
<1>3. AllKeysOK(told, engine', engineRuns', mon, unlocked) /\ AllKeysOK(mon.unlocks, engine', engineRuns', mon, unlocked)
  BY <1>2 DEF AllKeysOK, SessionInv
<1> QED BY <1>1, <1>3 DEF SessionInv

LEMMA EngineSteps ==
  ASSUME SessionInv, EngineStarts \/ EngineEnds \/ ConsoleSends \/ EngineLoads \/ EngineUnlocks \/ ConsoleLeaves
  PROVE  SessionInv'
<1>0. EngineOK(engine) /\ engineRuns \in Nat /\ engine.run \in {0, engineRuns}
  BY DEF SessionInv
<1>1. EngineOK(OffEngine) /\ OffEngine.run = 0
  BY FS_EmptySet DEF OffEngine, EngineOK
<1>2. CASE EngineStarts
  <2>1. engine' = [OffEngine EXCEPT !.run = engineRuns + 1] /\ engineRuns' = engineRuns + 1 /\ engine.run = 0
        /\ UNCHANGED <<track, unlocked, mon, told>>
    BY <1>2 DEF EngineStarts
  <2>2. EngineOK(engine') /\ engine'.run = engineRuns + 1
    BY <1>0, <1>1, <2>1 DEF EngineOK
  <2> QED BY <1>0, <2>1, <2>2, EngineKeeps
<1>3. CASE EngineEnds
  <2>1. engine' = OffEngine /\ engineRuns' = engineRuns /\ engine.run # 0 /\ UNCHANGED <<track, unlocked, mon, told>>
    BY <1>3 DEF EngineEnds
  <2> QED BY <1>0, <1>1, <2>1, EngineKeeps
<1>4. CASE ConsoleSends \/ EngineLoads \/ ConsoleLeaves
  <2>1. /\ engineRuns' = engineRuns /\ UNCHANGED <<track, unlocked, mon, told>>
        /\ DOMAIN engine' = DOMAIN engine /\ engine'.run = engine.run /\ engine'.ring = engine.ring
    BY <1>0, <1>4 DEF ConsoleSends, EngineLoads, ConsoleLeaves, EngineOK
  <2>2. EngineOK(engine')
    BY <1>0, <2>1 DEF EngineOK
  <2> QED BY <1>0, <2>1, <2>2, EngineKeeps
<1>5. CASE EngineUnlocks
  <2>1. PICK i \in UnlockIds : engine' = [engine EXCEPT !.ring = @ \cup {i}]
    BY <1>5 DEF EngineUnlocks
  <2>2. /\ engineRuns' = engineRuns /\ UNCHANGED <<track, unlocked, mon, told>>
        /\ DOMAIN engine' = DOMAIN engine /\ engine'.run = engine.run /\ engine'.ring = engine.ring \cup {i}
    BY <1>0, <1>5, <2>1 DEF EngineUnlocks, EngineOK
  <2>3. IsFiniteSet(engine.ring \cup {i})
    BY <1>0, FS_AddElement DEF EngineOK
  <2>4. EngineOK(engine')
    BY <1>0, <2>2, <2>3 DEF EngineOK
  <2> QED BY <1>0, <2>2, <2>4, EngineKeeps
<1> QED BY <1>2, <1>3, <1>4, <1>5

\* Steps of the thread that begin the trackers anew or fetch the engine's state.
LEMMA ThreadSteps ==
  ASSUME SessionInv, Pause \/ Fetch
  PROVE  SessionInv'
<1>0. /\ EngineOK(engine) /\ engineRuns \in Nat /\ engine.run \in {0, engineRuns}
      /\ TrackOK(track) /\ MonitorOK(mon, engine, engineRuns) /\ UnlockedOK(unlocked)
  BY DEF SessionInv
<1>1. CASE UNCHANGED <<engine, engineRuns, track, unlocked, mon, told>>
  BY <1>1 DEF SessionInv
<1>2. CASE Pause /\ mon.was
  <2>1. /\ engine' = engine /\ engineRuns' = engineRuns /\ told' = told /\ mon.at = "top"
        /\ track' = NewTrack(track.session) /\ unlocked' = NewUnlocked
        /\ mon' = [mon EXCEPT !.was = FALSE, !.unlocks = <<>>, !.result = Stopped]
    BY <1>2 DEF Pause
  <2>2. TrackOK(track') /\ UnlockedOK(unlocked') /\ unlocked'.session = 0
    BY <1>0, <2>1 DEF TrackOK, UnlockedOK, NewTrack, NewUnlocked
  <2>3. DOMAIN mon' = DOMAIN mon /\ mon'.at = mon.at /\ mon'.got = mon.got /\ mon'.unlocks = <<>>
    BY <1>0, <2>1 DEF MonitorOK
  <2>4. MonitorOK(mon', engine, engineRuns)
    BY <1>0, <2>3 DEF MonitorOK
  <2>5. ASSUME NEW i, NEW r, KeyOK(i, r, engine, engineRuns, mon, unlocked)
        PROVE  KeyOK(i, r, engine, engineRuns, mon', unlocked')
    BY <2>1, <2>2, <2>3, <2>5 DEF KeyOK
  <2>6. AllKeysOK(told, engine, engineRuns, mon', unlocked')
    BY <2>5 DEF AllKeysOK, SessionInv
  <2>7. AllKeysOK(<<>>, engine, engineRuns, mon', unlocked') /\ NoneTwice(<<>>) /\ NoneShared(told, <<>>)
    BY DEF AllKeysOK, NoneTwice, NoneShared
  <2> QED BY <1>0, <2>1, <2>2, <2>3, <2>4, <2>6, <2>7 DEF SessionInv
<1>3. CASE Fetch
  <2>1. PICK e \in {engine, OffEngine} : mon' = [mon EXCEPT !.was = TRUE, !.at = "read", !.got = e]
    BY <1>3 DEF Fetch
  <2>2. /\ engine' = engine /\ engineRuns' = engineRuns /\ told' = told /\ mon.at = "top"
        /\ track' = track /\ unlocked' = unlocked
    BY <1>3 DEF Fetch
  <2>3. DOMAIN mon' = DOMAIN mon /\ mon'.at = "read" /\ mon'.got = e /\ mon'.unlocks = mon.unlocks
    BY <1>0, <2>1 DEF MonitorOK
  <2>4. EngineOK(e) /\ (e.run = 0 \/ (e.run = engine.run /\ e.ring = engine.ring)) /\ e.run <= engineRuns
    BY <1>0, <2>1, FS_EmptySet DEF OffEngine, EngineOK
  <2>5. MonitorOK(mon', engine, engineRuns)
    BY <1>0, <2>3, <2>4 DEF MonitorOK
  <2>6. ASSUME NEW i, NEW r, KeyOK(i, r, engine, engineRuns, mon, unlocked)
        PROVE  KeyOK(i, r, engine, engineRuns, mon', unlocked)
    BY <1>0, <2>2, <2>3, <2>4, <2>6 DEF KeyOK
  <2>7. AllKeysOK(told, engine, engineRuns, mon', unlocked) /\ AllKeysOK(mon.unlocks, engine, engineRuns, mon', unlocked)
    BY <2>6 DEF AllKeysOK, SessionInv
  <2> QED BY <1>0, <2>2, <2>3, <2>5, <2>7 DEF SessionInv
<1> QED BY <1>1, <1>2, <1>3 DEF Pause

\* The window takes the unlocks: they are told, or dropped when the server is off.
LEMMA WindowTells ==
  ASSUME SessionInv, WindowTick
  PROVE  SessionInv'
<1>0. /\ EngineOK(engine) /\ engineRuns \in Nat /\ engine.run \in {0, engineRuns} /\ told \in Seq(Tellings)
      /\ TrackOK(track) /\ MonitorOK(mon, engine, engineRuns) /\ UnlockedOK(unlocked)
      /\ NoneTwice(told) /\ NoneTwice(mon.unlocks) /\ NoneShared(told, mon.unlocks)
      /\ AllKeysOK(told, engine, engineRuns, mon, unlocked)
      /\ AllKeysOK(mon.unlocks, engine, engineRuns, mon, unlocked)
  BY DEF SessionInv
<1>1. PICK on : on = (engine.run # 0)
  OBVIOUS
<1>2. PICK t : t = [i \in DOMAIN mon.unlocks |-> [id |-> mon.unlocks[i].id, run |-> mon.unlocks[i].run, now |-> engine.run]]
  OBVIOUS
<1>3. /\ engine' = engine /\ engineRuns' = engineRuns /\ track' = track /\ unlocked' = unlocked
      /\ mon' = [mon EXCEPT !.enabled = on, !.unlocks = <<>>]
      /\ told' = told \o t \/ told' = told
  BY <1>1, <1>2 DEF WindowTick
<1>4. DOMAIN mon' = DOMAIN mon /\ mon'.at = mon.at /\ mon'.got = mon.got /\ mon'.unlocks = <<>>
  BY <1>0, <1>3 DEF MonitorOK
<1>5. MonitorOK(mon', engine, engineRuns)
  BY <1>0, <1>4 DEF MonitorOK
<1>6. ASSUME NEW i, NEW r, KeyOK(i, r, engine, engineRuns, mon, unlocked)
      PROVE  KeyOK(i, r, engine, engineRuns, mon', unlocked)
  BY <1>4, <1>6 DEF KeyOK
<1>7. AllKeysOK(<<>>, engine, engineRuns, mon', unlocked) /\ NoneTwice(<<>>) /\ NoneShared(told', <<>>)
  BY DEF AllKeysOK, NoneTwice, NoneShared
<1>8. told' \in Seq(Tellings) /\ NoneTwice(told') /\ AllKeysOK(told', engine, engineRuns, mon', unlocked)
  <2>1. CASE told' = told
    BY <1>0, <1>6, <2>1 DEF AllKeysOK
  <2>2. CASE told' = told \o t
    <3>1. PICK u \in Seq(Finds) : u = mon.unlocks
      BY <1>0 DEF MonitorOK
    <3>2. /\ engine.run \in Nat /\ DOMAIN u = 1 .. Len(u) /\ Len(u) \in Nat
          /\ \A i \in DOMAIN u : u[i].id \in UnlockIds /\ u[i].run \in Nat
      <4>1. engine.run \in Nat
        BY <1>0 DEF EngineOK
      <4>2. DOMAIN u = 1 .. Len(u) /\ Len(u) \in Nat /\ \A i \in DOMAIN u : u[i] \in Finds
        BY ONLY u \in Seq(Finds)
      <4> QED BY <4>1, <4>2 DEF Finds
    <3>3. DOMAIN t = DOMAIN u /\ \A i \in DOMAIN u : t[i] = [id |-> u[i].id, run |-> u[i].run, now |-> engine.run]
      BY <1>2, <3>1
    <3>4. \A i \in DOMAIN u : t[i] \in Tellings /\ t[i].id = u[i].id /\ t[i].run = u[i].run
      BY <3>2, <3>3 DEF Tellings
    <3>5. t \in Seq(Tellings)
      <4>1. t \in [1 .. Len(u) -> Tellings]
        BY <1>2, <3>1, <3>2, <3>3, <3>4
      <4> QED BY <3>2, <4>1
    <3>6. NoneTwice(t) /\ NoneShared(told, t)
      BY <1>0, <3>1, <3>3, <3>4 DEF NoneTwice, NoneShared, SameUnlock
    <3>7. /\ told' \in Seq(Tellings) /\ NoneTwice(told')
          /\ \A k \in DOMAIN told' : (\E i \in DOMAIN told : told'[k] = told[i]) \/ (\E i \in DOMAIN t : told'[k] = t[i])
      <4>1. PICK w, o : w = told' /\ o = told
        OBVIOUS
      <4>2. o \in Seq(Tellings) /\ NoneTwice(o) /\ NoneShared(o, t) /\ IsAppended(w, o, t)
        BY <1>0, <2>2, <3>6, <4>1 DEF IsAppended
      <4>3. /\ w \in Seq(Tellings) /\ NoneTwice(w)
            /\ \A k \in DOMAIN w : (\E i \in DOMAIN o : w[k] = o[i]) \/ (\E i \in DOMAIN t : w[k] = t[i])
        BY ONLY <3>5, <3>6, <4>2, Joined
      <4> QED BY ONLY <4>1, <4>3
    <3>8. \A i \in DOMAIN told : KeyOK(told[i].id, told[i].run, engine, engineRuns, mon', unlocked)
      BY <1>0, <1>6 DEF AllKeysOK
    <3>9. \A i \in DOMAIN t : KeyOK(t[i].id, t[i].run, engine, engineRuns, mon', unlocked)
      BY <1>0, <1>6, <3>1, <3>3, <3>4 DEF AllKeysOK
    <3>10. \A k \in DOMAIN told' : KeyOK(told'[k].id, told'[k].run, engine, engineRuns, mon', unlocked)
      BY <3>7, <3>8, <3>9
    <3> QED BY <3>7, <3>10 DEF AllKeysOK
  <2> QED BY <1>3, <2>1, <2>2
<1> QED BY <1>0, <1>3, <1>4, <1>5, <1>7, <1>8 DEF SessionInv

\* The thread publishes: what it has seen before it does not find again.
LEMMA PublishKeeps ==
  ASSUME SessionInv, PublishState
  PROVE  SessionInv'
<1>0. /\ EngineOK(engine) /\ engineRuns \in Nat /\ engine.run \in {0, engineRuns} /\ told \in Seq(Tellings)
      /\ TrackOK(track) /\ MonitorOK(mon, engine, engineRuns) /\ UnlockedOK(unlocked)
      /\ NoneTwice(told) /\ NoneTwice(mon.unlocks) /\ NoneShared(told, mon.unlocks)
      /\ AllKeysOK(told, engine, engineRuns, mon, unlocked)
      /\ AllKeysOK(mon.unlocks, engine, engineRuns, mon, unlocked)
  BY DEF SessionInv
<1>1. PICK g : g = mon.got
  OBVIOUS
<1>2. PICK stalled \in BOOLEAN :
        /\ track' = Observe(track, g, stalled).t
        /\ unlocked' = Fresh(unlocked, g, Observe(track, g, stalled).r).n
        /\ \E young \in SUBSET Fresh(unlocked, g, Observe(track, g, stalled).r).new :
             mon' = Publishing(SetToSeq({[id |-> i, run |-> g.run] : i \in young}), Observe(track, g, stalled).r)
  BY <1>1, Zenon DEF PublishState
<1>3. engine' = engine /\ engineRuns' = engineRuns /\ told' = told /\ mon.at = "read"
  BY DEF PublishState
<1>4. PICK s : s = Observe(track, g, stalled)
  OBVIOUS
<1>5. PICK f : f = Fresh(unlocked, g, s.r)
  OBVIOUS
<1>6. TrackOK(s.t) /\ (s.r.state = "playing" => g.run # 0 /\ s.r.session \in Nat /\ s.r.session >= 1)
  BY <1>0, <1>4, ObserveKeeps
<1>7. /\ UnlockedOK(f.n)
      /\ \/ f.n.session = 0 /\ f.new = {}
         \/ s.r.state = "playing" /\ f.new = {} /\ f.n.seen = g.ring
         \/ s.r.state = "playing" /\ s.r.session = unlocked.session /\ f.new = g.ring \ unlocked.seen
            /\ f.n.seen = unlocked.seen \cup g.ring /\ f.n.session = unlocked.session
  BY <1>0, <1>5, FreshKeeps
<1>8. track' = s.t /\ unlocked' = f.n
  BY <1>2, <1>4, <1>5
<1>9. PICK young \in SUBSET f.new : mon' = Publishing(SetToSeq({[id |-> i, run |-> g.run] : i \in young}), s.r)
  BY <1>2, <1>4, <1>5
<1>10. PICK ids : ids = SetToSeq({[id |-> i, run |-> g.run] : i \in young})
  OBVIOUS
<1>11. EngineOK(g) /\ g.run <= engineRuns /\ (g.run # 0 /\ g.run = engine.run => g.ring \subseteq engine.ring)
  BY <1>0, <1>1 DEF MonitorOK
<1>12. young \subseteq g.ring /\ young \subseteq UnlockIds /\ IsFiniteSet(young)
  <2>1. young \subseteq g.ring
    BY <1>7
  <2> QED BY <1>11, <2>1, FS_Subset DEF EngineOK
<1>13. ids \in Seq(Finds) /\ NoneTwice(ids) /\ \A k \in DOMAIN ids : ids[k].id \in young /\ ids[k].run = g.run
  <2>1. g.run \in Nat
    BY <1>11 DEF EngineOK
  <2> QED BY ONLY <1>10, <1>12, <2>1, Findings
\* What is found is new, ...
<1>14. ASSUME NEW i \in young, KeyOK(i, g.run, engine, engineRuns, mon, unlocked)
       PROVE  FALSE
  BY <1>1, <1>3, <1>6, <1>7, <1>14 DEF KeyOK
<1>15. NoneShared(mon.unlocks, ids) /\ NoneShared(told, ids)
  BY <1>0, <1>13, <1>14 DEF NoneShared, SameUnlock, AllKeysOK
<1>16. /\ mon' = Publishing(ids, s.r)
       /\ DOMAIN mon' = DOMAIN mon /\ mon'.at = "top" /\ mon'.got = OffEngine
       /\ mon'.unlocks = mon.unlocks \/ mon'.unlocks = Newest(mon.unlocks \o ids)
  BY <1>0, <1>9, <1>10 DEF Publishing, MonitorOK
\* ... and is seen from now on, like what was told before.
<1>17. ASSUME NEW i, NEW r, KeyOK(i, r, engine, engineRuns, mon, unlocked)
       PROVE  KeyOK(i, r, engine, engineRuns, mon', f.n)
  BY <1>0, <1>1, <1>3, <1>6, <1>7, <1>11, <1>16, <1>17 DEF KeyOK, EngineOK
<1>18. ASSUME NEW i \in young PROVE KeyOK(i, g.run, engine, engineRuns, mon', f.n)
  BY <1>0, <1>6, <1>7, <1>11, <1>12, <1>16 DEF KeyOK, EngineOK
<1>19. PICK u : u = mon.unlocks
  OBVIOUS
<1>20. u \in Seq(Finds) /\ NoneTwice(u) /\ NoneShared(u, ids)
  BY <1>0, <1>15, <1>19 DEF MonitorOK
<1>21. PICK w : w = u \o ids
  OBVIOUS
<1>22. IsAppended(w, u, ids)
  BY <1>21 DEF IsAppended
<1>23. /\ w \in Seq(Finds) /\ NoneTwice(w)
       /\ \A k \in DOMAIN w : (\E i \in DOMAIN u : w[k] = u[i]) \/ (\E i \in DOMAIN ids : w[k] = ids[i])
  BY ONLY <1>13, <1>20, <1>22, Joined
<1>24. PICK v : v = Newest(w)
  OBVIOUS
<1>25. v \in Seq(Finds) /\ NoneTwice(v) /\ \A k \in DOMAIN v : \E i \in DOMAIN w : v[k] = w[i]
  BY ONLY <1>23, <1>24, NewestKept
<1>26. \A k \in DOMAIN v : (\E i \in DOMAIN u : v[k] = u[i]) \/ (\E i \in DOMAIN ids : v[k] = ids[i])
  BY <1>23, <1>25
<1>27. NoneShared(told, v)
  BY <1>0, <1>15, <1>19, <1>26 DEF NoneShared
<1>28. AllKeysOK(told, engine, engineRuns, mon', f.n) /\ AllKeysOK(u, engine, engineRuns, mon', f.n)
  BY <1>0, <1>17, <1>19 DEF AllKeysOK
<1>29. AllKeysOK(v, engine, engineRuns, mon', f.n)
  <2>1. \A i \in DOMAIN ids : KeyOK(ids[i].id, ids[i].run, engine, engineRuns, mon', f.n)
    BY <1>13, <1>18
  <2> QED BY <1>26, <1>28, <2>1 DEF AllKeysOK
<1>30. mon'.unlocks = u \/ mon'.unlocks = v
  BY <1>16, <1>19, <1>21, <1>24
<1>31. MonitorOK(mon', engine, engineRuns)
  <2>1. EngineOK(OffEngine) /\ OffEngine.run = 0
    BY FS_EmptySet DEF OffEngine, EngineOK
  <2> QED BY <1>0, <1>16, <1>20, <1>25, <1>30, <2>1 DEF MonitorOK
<1>32. /\ NoneTwice(mon'.unlocks) /\ NoneShared(told, mon'.unlocks)
       /\ AllKeysOK(mon'.unlocks, engine, engineRuns, mon', f.n)
  BY <1>0, <1>19, <1>20, <1>25, <1>27, <1>28, <1>29, <1>30
<1> QED BY <1>0, <1>3, <1>6, <1>7, <1>8, <1>28, <1>31, <1>32 DEF SessionInv

LEMMA SessionInitOK == RaSessionInit => SessionInv
<1> SUFFICES ASSUME RaSessionInit PROVE SessionInv
  OBVIOUS
<1>1. EngineOK(OffEngine) /\ OffEngine.run = 0
  BY FS_EmptySet DEF OffEngine, EngineOK
<1>2. /\ DOMAIN mon = {"enabled", "was", "at", "got", "result", "unlocks"}
      /\ mon.at = "top" /\ mon.got = OffEngine /\ mon.unlocks = <<>>
  BY DEF RaSessionInit
<1>3. MonitorOK(mon, engine, 0)
  BY <1>1, <1>2 DEF MonitorOK
<1>4. engine = OffEngine /\ engineRuns = 0 /\ told = <<>> /\ TrackOK(track) /\ UnlockedOK(unlocked)
  BY DEF RaSessionInit, NewTrack, NewUnlocked, TrackOK, UnlockedOK
<1>5. NoneTwice(<<>>) /\ NoneShared(<<>>, <<>>) /\ AllKeysOK(<<>>, engine, 0, mon, unlocked)
  BY DEF NoneTwice, NoneShared, AllKeysOK
<1> QED BY <1>1, <1>2, <1>3, <1>4, <1>5 DEF SessionInv

LEMMA SessionStep == SessionInv /\ [RaSessionNext]_raSessionVars => SessionInv'
<1> SUFFICES ASSUME SessionInv, [RaSessionNext]_raSessionVars PROVE SessionInv'
  OBVIOUS
<1>1. CASE UNCHANGED raSessionVars
  BY <1>1 DEF raSessionVars, SessionInv
<1>2. CASE RaSessionNext
  <2>1. \/ Pause \/ Fetch
        \/ PublishState
        \/ WindowTick
        \/ EngineStarts \/ EngineEnds \/ ConsoleSends \/ EngineLoads \/ EngineUnlocks \/ ConsoleLeaves
    BY <1>2 DEF RaSessionNext
  <2> QED BY <2>1, ThreadSteps, PublishKeeps, WindowTells, EngineSteps
<1> QED BY <1>1, <1>2

\* No unlock is told twice (RaSession): over any number of engine runs, games and achievements,
\* and however polls, pauses, failed fetches and the window's timer interleave, whether or not
\* the thread notices a restart of the engine.
THEOREM ToldJustOnce == RaSessionSpec => []ToldOnce
<1>1. SessionInv => ToldOnce
  <2> SUFFICES ASSUME SessionInv, NEW i \in DOMAIN told, NEW j \in DOMAIN told, i # j,
                      [told[i] EXCEPT !.now = 0] = [told[j] EXCEPT !.now = 0]
               PROVE  FALSE
    BY DEF ToldOnce
  <2>1. told[i] \in Tellings /\ told[j] \in Tellings
    BY DEF SessionInv
  <2>2. PICK x \in Tellings, y \in Tellings : x = told[i] /\ y = told[j]
    BY <2>1
  <2>3. [x EXCEPT !.now = 0].id = x.id /\ [x EXCEPT !.now = 0].run = x.run
        /\ [y EXCEPT !.now = 0].id = y.id /\ [y EXCEPT !.now = 0].run = y.run
    BY ONLY x \in Tellings, y \in Tellings DEF Tellings
  <2>4. x.id = y.id /\ x.run = y.run
    BY ONLY <2>2, <2>3, [told[i] EXCEPT !.now = 0] = [told[j] EXCEPT !.now = 0]
  <2> QED BY <2>2, <2>4 DEF SessionInv, NoneTwice, SameUnlock
<1> QED BY <1>1, SessionInitOK, SessionStep, PTL DEF RaSessionSpec

-----------------------------------------------------------------------------
(* DhcpResponder: networks and the port are left as they were found.         *)

HelperFields == {"os", "pc", "code", "configured", "waits", "stop", "macs", "lease", "tokens", "plan", "among",
                 "probed", "answered", "onLan"}
Running == {"verify", "configure", "applied", "binding", "probing", "serving", "checked"}
OneAtMost(S) == \A x, y \in S : x = y

\* A cable leads to one device with an address at most.
CableOK(w) == w.foreign \in BOOLEAN /\ OneAtMost(w.neighbors)

\* The address is on the port of a Unix host only while the process runs, and once it may be
\* there the finally clause knows.
PortOK(h, held) ==
  h.os = "unix" =>
    /\ h.pc \in {"verify", "configure"} => ~held /\ ~h.configured
    /\ h.pc = "applied" => ~h.configured
    /\ h.pc \in {"binding", "probing", "serving", "checked"} => h.configured
    /\ h.pc = "exited" => ~held

\* A move leads to an address nobody was heard on, and not further.
Settled(p, among) ==
  /\ p.server \notin among /\ p.client \notin among /\ p.server # p.client /\ p.server.net = p.client.net
  /\ p.server # Server
  /\ PlanRehome(p.server, p.client, among, TRUE) = {}

\* Whoever was answered has been counted, and after a probe there is no other server.
ProcessOK(h, w, held) ==
  /\ DOMAIN h = HelperFields /\ h.pc \in Running \cup {"restoring", "exited"} /\ h.configured \in BOOLEAN
  /\ h.probed \in BOOLEAN /\ (h.probed => ~w.foreign) /\ h.onLan = FALSE
  /\ IsFiniteSet(h.macs) /\ h.answered \subseteq h.macs /\ OneAtMost(h.answered)
  /\ h.code = "rehome" => Settled(h.plan, h.among)
  /\ PortOK(h, held)

\* While it runs, the process has seen one device at most.
HelperInv ==
  /\ CableOK(wire) /\ heldIp \in BOOLEAN /\ ProcessOK(helper, wire, heldIp)
  /\ helper.pc \in Running => OneAtMost(helper.macs)

LEMMA CableLeads == ASSUME NEW n, NEW w \in Wires(n) PROVE CableOK(w)
<1>1. ASSUME NEW d, NEW m, NEW f \in BOOLEAN, NEW i, NEW g, w = Wire(n, d, m, f, i, g), OneAtMost(m)
      PROVE  CableOK(w)
  BY <1>1 DEF Wire, CableOK
<1>2. OneAtMost({}) /\ \A a : OneAtMost({a})
  BY DEF OneAtMost
<1>3. CASE \E lan \in BOOLEAN \X BOOLEAN : w = Wire(n, {"pc", "tv"}, {}, TRUE, lan[1], lan[2])
  BY <1>1, <1>2, <1>3, Zenon
<1>4. CASE \E d : w = Wire(n, d, {}, FALSE, FALSE, FALSE)
  BY <1>1, <1>2, <1>4, Zenon
<1>5. CASE \E d, a : w = Wire(n, d, {a}, FALSE, FALSE, FALSE)
  BY <1>1, <1>2, <1>5, Zenon
<1>6. CASE w \in {Wire(n, {}, {}, FALSE, FALSE, FALSE), Wire(n, {"ps2"}, {}, FALSE, FALSE, FALSE),
                  Wire(n, {"ps2"}, {Server}, FALSE, FALSE, FALSE), Wire(n, {"ps2"}, {Client}, FALSE, FALSE, FALSE),
                  Wire(n, {"ps2"}, {[net |-> 2, host |-> 1]}, FALSE, FALSE, FALSE)}
  BY <1>4, <1>5, <1>6, Zenon
<1>7. CASE w \in {Wire(n, {"pc", "tv"}, {}, TRUE, lan[1], lan[2]) : lan \in BOOLEAN \X BOOLEAN}
  BY <1>3, <1>7
<1> QED BY <1>6, <1>7 DEF Wires

\* A set with one element at most, in numbers.
LEMMA CountedOne == ASSUME NEW S, IsFiniteSet(S) PROVE Cardinality(S) <= 1 <=> OneAtMost(S)
<1>1. Cardinality(S) \in Nat
  BY FS_CardinalityType
<1>2. ASSUME Cardinality(S) <= 1 PROVE OneAtMost(S)
  <2>1. Cardinality(S) = 0 \/ Cardinality(S) = 1
    BY <1>1, <1>2
  <2> QED BY <2>1, FS_EmptySet, FS_Singleton DEF OneAtMost
<1>3. ASSUME OneAtMost(S) PROVE Cardinality(S) <= 1
  <2>1. CASE S = {}
    BY <2>1, FS_EmptySet
  <2>2. CASE S # {}
    <3>1. PICK x : x \in S
      BY <2>2
    <3>2. S = {x}
      BY <3>1, <1>3 DEF OneAtMost
    <3> QED BY <3>2, FS_Singleton
  <2> QED BY <2>1, <2>2
<1> QED BY <1>2, <1>3

\* _free_host: a host number nobody has.
LEMMA FreeIsFree ==
  ASSUME NEW net, NEW avoid, FreeHost(net, avoid) # 0
  PROVE  FreeHost(net, avoid) \in Hosts /\ [net |-> net, host |-> FreeHost(net, avoid)] \notin avoid
<1> DEFINE free == {h \in Hosts : [net |-> net, host |-> h] \notin avoid}
<1>1. free # {} /\ FreeHost(net, avoid) = CHOOSE h \in free : \A k \in free : h <= k
  BY DEF FreeHost
<1>2. \E h \in free : \A k \in free : h <= k
  <2>1. free \subseteq {1, 2, 3}
    BY DEF Hosts
  <2>2. PICK a : a \in free
    BY <1>1
  <2>3. CASE 1 \in free
    BY <2>1, <2>3
  <2>4. CASE 1 \notin free /\ 2 \in free
    BY <2>1, <2>4
  <2>5. CASE 1 \notin free /\ 2 \notin free
    <3>1. free = {3}
      BY <2>1, <2>2, <2>5
    <3> QED BY <3>1
  <2> QED BY <2>3, <2>4, <2>5
<1>3. FreeHost(net, avoid) \in free
  BY <1>1, <1>2
<1> QED BY <1>3

\* plan_rehome, when one device at most is heard: the new address is free, and settles the matter.
LEMMA PlanSettles ==
  ASSUME NEW near, OneAtMost(near), NEW present, NEW p \in PlanRehome(Server, Client, near, present)
  PROVE  Settled(p, near)
<1> DEFINE off == {n \in near : n.net # OurNet}
           Adopted(n) == LET s == FreeHost(n.net, near)
                         IN  Plans(n.net, s, FreeHost(n.net, near \cup {[net |-> n.net, host |-> s]}))
           s0 == FreeHost(OurNet, near \cup {Server})
           taken == near \cup {Server, [net |-> OurNet, host |-> s0]}
           c0 == IF Client \in near \/ Client.host = s0 THEN FreeHost(OurNet, taken) ELSE Client.host
<1>0. Server.net = OurNet /\ Client.net = OurNet /\ Client.host = 2 /\ Client = [net |-> OurNet, host |-> 2] /\ OurNet = 1
  BY DEF Server, Client, OurNet
\* Wherever the PC and the client are then, in the network of the device or alone in theirs, they stay.
<1>1. ASSUME NEW q, NEW r, q \notin near, \A n \in near : n.net = q.net PROVE PlanRehome(q, r, near, TRUE) = {}
  <2>1. {n \in near : n.net # q.net} = {}
    BY <1>1
  <2> QED BY <2>1, <1>1 DEF PlanRehome
<1>2. CASE \E n \in off : p \in Adopted(n)
  <2>1. PICK n \in off : p \in Adopted(n)
    BY <1>2
  <2>2. PICK s : s = FreeHost(n.net, near)
    OBVIOUS
  <2>3. PICK c : c = FreeHost(n.net, near \cup {[net |-> n.net, host |-> s]})
    OBVIOUS
  <2>4. s # 0 /\ c # 0 /\ p = [server |-> [net |-> n.net, host |-> s], client |-> [net |-> n.net, host |-> c]]
    BY <2>1, <2>2, <2>3 DEF Plans
  <2>5. p.server \notin near /\ p.client \notin near \cup {[net |-> n.net, host |-> s]}
    BY <2>2, <2>3, <2>4, FreeIsFree
  <2>6. p.server.net = n.net /\ p.client.net = n.net /\ p.server # Server /\ p.server # p.client
    BY <2>1, <2>4, <2>5, <1>0
  <2>7. \A m \in near : m.net = n.net
    BY <2>1 DEF OneAtMost
  <2>8. PlanRehome(p.server, p.client, near, TRUE) = {}
    BY <2>5, <2>6, <2>7, <1>1
  <2> QED BY <2>5, <2>6, <2>8 DEF Settled
<1>3. CASE off = {} /\ p \in Plans(OurNet, s0, c0)
  <2>1. PICK s : s = s0
    OBVIOUS
  <2>2. PICK c : c = c0
    OBVIOUS
  <2>3. s # 0 /\ c # 0 /\ p = [server |-> [net |-> OurNet, host |-> s], client |-> [net |-> OurNet, host |-> c]]
    BY <1>3, <2>1, <2>2 DEF Plans
  <2>4. p.server \notin near \cup {Server} /\ p.server.net = OurNet /\ p.client.net = OurNet
    BY <2>1, <2>3, FreeIsFree
  <2>5. p.client \notin near /\ p.client # p.server
    <3>1. CASE Client \in near \/ Client.host = s0
      <4>1. c = FreeHost(OurNet, near \cup {Server, [net |-> OurNet, host |-> s]})
        BY <3>1, <2>1, <2>2
      <4>2. [net |-> OurNet, host |-> c] \notin near \cup {Server, [net |-> OurNet, host |-> s]}
        BY <4>1, <2>3, FreeIsFree
      <4> QED BY <4>2, <2>3
    <3>2. CASE ~(Client \in near \/ Client.host = s0)
      <4>1. c = 2 /\ s # 2 /\ Client \notin near
        BY <3>2, <2>1, <2>2, <1>0
      <4>2. p.client = Client /\ p.client.host = 2 /\ p.server.host = s
        BY <4>1, <2>3, <1>0
      <4> QED BY <4>1, <4>2
    <3> QED BY <3>1, <3>2
  <2>6. \A m \in near : m.net = p.server.net
    BY <1>3, <2>4
  <2>7. PlanRehome(p.server, p.client, near, TRUE) = {}
    BY <2>4, <2>6, <1>1
  <2> QED BY <2>4, <2>5, <2>7 DEF Settled
<1>4. \/ \E n \in off : p \in Adopted(n)
      \/ {n \in near : n.net = OurNet} # {} /\ p \in Plans(OurNet, s0, c0)
  BY <1>0 DEF PlanRehome
<1>5. ASSUME NEW m \in near, m.net = OurNet PROVE off = {}
  BY <1>5 DEF OneAtMost
<1> QED BY <1>2, <1>3, <1>4, <1>5
\* The helper ends: the finally clause restores the port if it was configured.
LEMMA ExitOK ==
  ASSUME NEW h, NEW w, NEW held \in BOOLEAN, ProcessOK(h, w, held), h.pc \in Running \ {"applied"}, NEW code, code # "rehome"
  PROVE  ProcessOK(Exit(h, code), w, held) /\ Exit(h, code).pc \notin Running
<1>1. PICK e : e = Exit(h, code)
  OBVIOUS
<1>2. DOMAIN h = HelperFields /\ h.configured \in BOOLEAN
  BY DEF ProcessOK
<1>3. /\ DOMAIN e = HelperFields /\ e.pc = (IF h.configured THEN "restoring" ELSE "exited") /\ e.code = code
      /\ e.os = h.os /\ e.configured = h.configured /\ e.macs = h.macs /\ e.plan = h.plan /\ e.among = h.among
      /\ e.probed = h.probed /\ e.answered = h.answered /\ e.onLan = h.onLan
  BY <1>1, <1>2 DEF Exit, HelperFields
<1>4. PortOK(e, held)
  BY <1>2, <1>3 DEF ProcessOK, PortOK, Running
<1>5. e.pc \in {"restoring", "exited"} /\ e.pc \notin Running
  BY <1>3 DEF Running
<1> QED BY <1>1, <1>3, <1>4, <1>5 DEF ProcessOK

\* The helper asks for another address.
LEMMA RehomeOK ==
  ASSUME NEW h, NEW held \in BOOLEAN, CableOK(wire), ProcessOK(h, wire, held), h.pc \in Running \ {"applied"}, h.os = helper.os,
         NEW present, NEW p \in PlanNow(present)
  PROVE  ProcessOK(AskRehome(h, p, present), wire, held) /\ AskRehome(h, p, present).pc \notin Running
<1>1. PICK e : e = Exit(h, "rehome")
  OBVIOUS
<1>2. PICK near : near = Neighbors(present)
  OBVIOUS
<1>3. PICK a : a = AskRehome(h, p, present)
  OBVIOUS
<1>4. DOMAIN h = HelperFields /\ h.configured \in BOOLEAN
  BY DEF ProcessOK
<1>5. /\ DOMAIN e = HelperFields /\ e.pc = (IF h.configured THEN "restoring" ELSE "exited")
      /\ e.os = h.os /\ e.configured = h.configured /\ e.macs = h.macs
      /\ e.probed = h.probed /\ e.answered = h.answered /\ e.onLan = h.onLan
  BY <1>1, <1>4 DEF Exit, HelperFields
<1>6. a = [e EXCEPT !.plan = p, !.among = near]
  BY <1>1, <1>2, <1>3 DEF AskRehome
<1>7. /\ DOMAIN a = HelperFields /\ a.pc = e.pc /\ a.plan = p /\ a.among = near
      /\ a.os = h.os /\ a.configured = h.configured /\ a.macs = h.macs
      /\ a.probed = h.probed /\ a.answered = h.answered /\ a.onLan = h.onLan
  BY <1>5, <1>6 DEF HelperFields
<1>8. Settled(p, near)
  <2>1. OneAtMost(near)
    BY <1>2 DEF Neighbors, CableOK, OneAtMost
  <2>2. p \in PlanRehome(Server, Client, near, present)
    BY <1>2 DEF PlanNow
  <2> QED BY <2>1, <2>2, PlanSettles
<1>9. PortOK(a, held) /\ a.pc \in {"restoring", "exited"} /\ a.pc \notin Running
  BY <1>4, <1>5, <1>7 DEF ProcessOK, PortOK, Running
<1> QED BY <1>3, <1>7, <1>8, <1>9 DEF ProcessOK

\* What a change of the process leaves alone.
SameBut(g, h) ==
  /\ DOMAIN g = HelperFields /\ g.os = h.os /\ g.code = h.code /\ g.plan = h.plan /\ g.among = h.among
  /\ g.onLan = h.onLan /\ g.answered = h.answered

\* The steps up to the first answer.
LEMMA StartingSteps ==
  ASSUME HelperInv, Verify \/ ApplyLocalIp \/ Configured
  PROVE  HelperInv'
<1> USE DEF HelperInv
<1>0. DOMAIN helper = HelperFields /\ helper.configured \in BOOLEAN
  BY DEF ProcessOK
<1>1. CASE Verify
  <2>1. wire' = wire /\ heldIp' = heldIp /\ helper.pc = "verify"
    BY <1>1 DEF Verify
  <2>2. CASE helper' = Exit(helper, "refused")
    BY <2>1, <2>2, ExitOK DEF Running
  <2>3. CASE \E at \in {"configure", "binding"} : helper' = [helper EXCEPT !.pc = at] /\ (at = "binding" => helper.os # "unix")
    <3>1. PICK at \in {"configure", "binding"} : helper' = [helper EXCEPT !.pc = at] /\ (at = "binding" => helper.os # "unix")
      BY <2>3
    <3>2. SameBut(helper', helper) /\ helper'.pc = at /\ helper'.configured = helper.configured /\ helper'.macs = helper.macs
          /\ helper'.probed = helper.probed
      BY <3>1, <1>0 DEF HelperFields, SameBut
    <3>3. PortOK(helper', heldIp')
      BY <3>1, <3>2, <2>1 DEF PortOK, ProcessOK, SameBut
    <3> QED BY <3>2, <3>3, <2>1 DEF ProcessOK, SameBut, Running
  <2> QED BY <1>1, <2>2, <2>3 DEF Verify
<1>2. CASE ApplyLocalIp
  <2>1. wire' = wire /\ helper.pc = "configure"
    BY <1>2 DEF ApplyLocalIp
  <2>2. CASE helper' = [helper EXCEPT !.pc = "applied"] /\ heldIp' = TRUE
    <3>1. SameBut(helper', helper) /\ helper'.pc = "applied" /\ helper'.configured = helper.configured /\ helper'.macs = helper.macs
          /\ helper'.probed = helper.probed
      BY <2>2, <1>0 DEF HelperFields, SameBut
    <3>2. PortOK(helper', heldIp')
      BY <3>1, <2>1 DEF PortOK, ProcessOK, SameBut
    <3> QED BY <3>1, <3>2, <2>1, <2>2 DEF ProcessOK, SameBut, Running
  <2>3. CASE helper' = Exit(helper, "refused") /\ heldIp' = heldIp
    BY <2>1, <2>3, ExitOK DEF Running
  <2> QED BY <1>2, <2>2, <2>3 DEF ApplyLocalIp
<1>3. CASE Configured
  <2>1. wire' = wire /\ heldIp' = heldIp /\ helper.pc = "applied" /\ helper' = [helper EXCEPT !.pc = "binding", !.configured = TRUE]
    BY <1>3 DEF Configured
  <2>2. SameBut(helper', helper) /\ helper'.pc = "binding" /\ helper'.configured = TRUE /\ helper'.macs = helper.macs
        /\ helper'.probed = helper.probed
    BY <2>1, <1>0 DEF HelperFields, SameBut
  <2>3. PortOK(helper', heldIp')
    BY <2>2, <2>1 DEF PortOK
  <2> QED BY <2>1, <2>2, <2>3 DEF ProcessOK, SameBut, Running
<1> QED BY <1>1, <1>2, <1>3

\* open_socket: bound, refused, moved out of a console's way, stopped, or another round.
LEMMA OpenSocketStep == ASSUME HelperInv, OpenSocket PROVE HelperInv'
<1> USE DEF HelperInv
<1>0. DOMAIN helper = HelperFields /\ helper.configured \in BOOLEAN
  BY DEF ProcessOK
<1>1. wire' = wire /\ heldIp' = heldIp /\ helper.pc = "binding" /\ helper.pc \in Running \ {"applied"}
  BY DEF OpenSocket, Running
<1>2. ASSUME NEW g, SameBut(g, helper), g.pc \in {"binding", "probing"}, g.configured = helper.configured, g.macs = helper.macs,
             g.probed = helper.probed
      PROVE  ProcessOK(g, wire, heldIp) /\ g.pc \in Running \ {"applied"} /\ OneAtMost(g.macs)
  <2>1. PortOK(g, heldIp)
    BY <1>1, <1>2 DEF PortOK, ProcessOK, SameBut
  <2> QED BY <1>1, <1>2, <2>1 DEF ProcessOK, SameBut, Running
<1>3. CASE helper' = [helper EXCEPT !.pc = "probing"]
  <2>1. SameBut(helper', helper) /\ helper'.pc = "probing" /\ helper'.configured = helper.configured /\ helper'.macs = helper.macs
        /\ helper'.probed = helper.probed
    BY <1>3, <1>0 DEF HelperFields, SameBut
  <2> QED BY <1>1, <1>2, <2>1
<1>4. CASE helper' = Exit(helper, "refused")
  BY <1>1, <1>4, ExitOK
<1>5. PICK h : h = [helper EXCEPT !.waits = IF @ < 2 THEN @ + 1 ELSE @]
  OBVIOUS
<1>6. SameBut(h, helper) /\ h.pc = "binding" /\ h.configured = helper.configured /\ h.macs = helper.macs /\ h.probed = helper.probed
  BY <1>5, <1>0, <1>1 DEF HelperFields, SameBut
<1>7. ProcessOK(h, wire, heldIp) /\ h.pc \in Running \ {"applied"} /\ OneAtMost(h.macs) /\ h.os = helper.os
  BY <1>2, <1>6 DEF SameBut
<1>8. CASE \E p \in PlanNow(FALSE) : helper' = AskRehome(h, p, FALSE)
  BY <1>1, <1>7, <1>8, RehomeOK
<1>9. CASE helper' = Exit(h, "stopped")
  BY <1>1, <1>7, <1>9, ExitOK
<1>10. CASE helper' = h
  BY <1>1, <1>7, <1>10
<1>11. \/ helper' = [helper EXCEPT !.pc = "probing"] \/ helper' = Exit(helper, "refused")
       \/ \E p \in PlanNow(FALSE) : helper' = AskRehome(h, p, FALSE)
       \/ helper' = Exit(h, "stopped") \/ helper' = h
  BY <1>5 DEF OpenSocket
<1> QED BY <1>3, <1>4, <1>8, <1>9, <1>10, <1>11

\* A probe, the first or a later one.
LEMMA ProbeSteps == ASSUME HelperInv, FirstProbe \/ Reprobe PROVE HelperInv'
<1> USE DEF HelperInv
<1>0. DOMAIN helper = HelperFields /\ helper.configured \in BOOLEAN
  BY DEF ProcessOK
<1>1. wire' = wire /\ heldIp' = heldIp /\ helper.pc \in {"probing", "checked"} /\ Probe(helper, "serving")
  BY DEF FirstProbe, Reprobe
<1>2. CASE helper' = Exit(helper, "refused")
  BY <1>1, <1>2, ExitOK DEF Running
<1>3. ASSUME NEW b \in BOOLEAN, b => helper.probed \/ ~wire.foreign, helper' = [helper EXCEPT !.pc = "serving", !.probed = b]
      PROVE  HelperInv'
  <2>1. SameBut(helper', helper) /\ helper'.pc = "serving" /\ helper'.configured = helper.configured /\ helper'.macs = helper.macs
        /\ helper'.probed = b
    BY <1>3, <1>0 DEF HelperFields, SameBut
  <2>2. PortOK(helper', heldIp')
    BY <1>1, <2>1 DEF PortOK, ProcessOK, SameBut
  <2> QED BY <1>1, <1>3, <2>1, <2>2 DEF ProcessOK, SameBut, Running
<1>4. CASE ~wire.foreign /\ helper' = [helper EXCEPT !.pc = "serving", !.probed = TRUE]
  BY <1>3, <1>4
<1>5. CASE helper' = [helper EXCEPT !.pc = "serving"]
  <2>1. helper.probed \in BOOLEAN /\ helper' = [helper EXCEPT !.pc = "serving", !.probed = helper.probed]
    BY <1>5, <1>0 DEF HelperFields, ProcessOK
  <2> QED BY <2>1, <1>3
<1> QED BY <1>1, <1>2, <1>4, <1>5 DEF Probe, Hears

\* The head of the loop, and the look at the address and at the wire.
LEMMA CheckSteps == ASSUME HelperInv, StopCheck \/ Recheck PROVE HelperInv'
<1> USE DEF HelperInv
<1>0. DOMAIN helper = HelperFields /\ helper.configured \in BOOLEAN
  BY DEF ProcessOK
<1>1. wire' = wire /\ heldIp' = heldIp /\ helper.pc \in {"serving", "checked"}
  BY DEF StopCheck, Recheck
<1>2. CASE \E code \in {"stopped", "refused"} : helper' = Exit(helper, code)
  BY <1>1, <1>2, ExitOK DEF Running
<1>3. CASE \E at \in {"serving", "checked"} : helper' = [helper EXCEPT !.pc = at]
  <2>1. PICK at \in {"serving", "checked"} : helper' = [helper EXCEPT !.pc = at]
    BY <1>3
  <2>2. SameBut(helper', helper) /\ helper'.pc = at /\ helper'.configured = helper.configured /\ helper'.macs = helper.macs
        /\ helper'.probed = helper.probed
    BY <2>1, <1>0 DEF HelperFields, SameBut
  <2>3. PortOK(helper', heldIp')
    BY <1>1, <2>2 DEF PortOK, ProcessOK, SameBut
  <2> QED BY <1>1, <2>2, <2>3 DEF ProcessOK, SameBut, Running
<1>4. CASE \E present : \E p \in PlanNow(present) : helper' = AskRehome(helper, p, present)
  BY <1>1, <1>4, RehomeOK DEF Running
<1> QED BY <1>2, <1>3, <1>4 DEF StopCheck, Recheck

\* handle_packet: a second device ends the process before it is answered.
LEMMA ReceiveStep == ASSUME HelperInv, Receive PROVE HelperInv'
<1> USE DEF HelperInv
<1>0. DOMAIN helper = HelperFields /\ helper.configured \in BOOLEAN /\ helper.pc = "checked" /\ IsFiniteSet(helper.macs)
  BY DEF ProcessOK, Receive
<1>1. wire' = wire /\ heldIp' = heldIp
  BY DEF Receive
<1>2. PICK back : back = [helper EXCEPT !.pc = "serving"]
  OBVIOUS
<1>3. SameBut(back, helper) /\ back.pc = "serving" /\ back.configured = helper.configured /\ back.macs = helper.macs
      /\ back.probed = helper.probed
  BY <1>2, <1>0 DEF HelperFields, SameBut
\* A process that differs in what it has counted and answered.
<1>4. ASSUME NEW g, DOMAIN g = HelperFields, g.os = helper.os, g.code = helper.code, g.plan = helper.plan, g.among = helper.among,
             g.pc = "serving", g.configured = helper.configured, g.probed = helper.probed, g.onLan = FALSE,
             IsFiniteSet(g.macs), g.answered \subseteq g.macs, OneAtMost(g.answered)
      PROVE  ProcessOK(g, wire, heldIp) /\ g.pc \in Running \ {"applied"}
  <2>1. PortOK(g, heldIp)
    BY <1>0, <1>4 DEF PortOK, ProcessOK
  <2> QED BY <1>4, <2>1 DEF ProcessOK, Running
<1>5. CASE helper' = back
  <2>1. ProcessOK(back, wire, heldIp) /\ back.pc \in Running
    BY <1>3, <1>4 DEF SameBut, ProcessOK
  <2> QED BY <1>0, <1>1, <1>3, <1>5, <2>1 DEF Running
<1>6. ASSUME NEW mac \in wire.devices, NEW type \in {"DISCOVER", "REQUEST", "DECLINE", "RELEASE", "INFORM"}, NEW ours \in BOOLEAN,
             NEW r, r = HandlePacket(back, mac, type, ours),
             helper' = IF r.reply THEN [r.h EXCEPT !.answered = @ \cup {mac}, !.onLan = @ \/ (wire.foreign /\ helper.probed)] ELSE r.h
      PROVE  HelperInv'
  <2>1. PICK seen : seen = [back EXCEPT !.macs = @ \cup {mac}]
    OBVIOUS
  <2>2. PICK spent : spent = [seen EXCEPT !.tokens = @ - 1]
    OBVIOUS
  <2>3. IsFiniteSet(helper.macs \cup {mac})
    BY <1>0, FS_AddElement
  <2>4. SameBut(seen, helper) /\ seen.pc = "serving" /\ seen.configured = helper.configured /\ seen.macs = helper.macs \cup {mac}
        /\ seen.probed = helper.probed
    BY <2>1, <1>3 DEF HelperFields, SameBut
  <2>5. helper.onLan = FALSE /\ helper.answered \subseteq helper.macs /\ OneAtMost(helper.answered)
    BY DEF ProcessOK
  <2>6. ProcessOK(seen, wire, heldIp) /\ seen.pc \in Running \ {"applied"}
    BY <1>4, <2>3, <2>4, <2>5 DEF SameBut
  <2>c. Cardinality(seen.macs) \in Nat
    BY <2>3, <2>4, FS_CardinalityType
  <2>7. CASE Cardinality(seen.macs) > 1
    <3>0. ~(Cardinality(seen.macs) <= 1)
      BY <2>7, <2>c
    <3>1. r = [h |-> Exit(seen, "refused"), reply |-> FALSE]
      BY <1>6, <2>1, <2>7, <3>0 DEF HandlePacket
    <3>2. helper' = Exit(seen, "refused")
      BY <1>6, <3>1
    <3> QED BY <1>1, <2>6, <3>2, ExitOK
  <2>8. CASE ~(Cardinality(seen.macs) > 1)
    <3>1. OneAtMost(seen.macs)
      <4>1. Cardinality(seen.macs) <= 1
        BY <2>8, <2>c
      <4> QED BY <2>3, <2>4, <4>1, CountedOne
    <3>2. ASSUME NEW g, \E x : g = [seen EXCEPT !.lease = x] \/ g = [spent EXCEPT !.lease = x] \/ g = seen \/ g = spent
          PROVE  SameBut(g, seen) /\ g.pc = "serving" /\ g.configured = seen.configured /\ g.macs = seen.macs
                 /\ g.probed = seen.probed
      <4>1. SameBut(spent, seen) /\ spent.pc = "serving" /\ spent.configured = seen.configured /\ spent.macs = seen.macs
            /\ spent.probed = seen.probed
        BY <2>2, <2>4 DEF SameBut, HelperFields
      <4>2. SameBut(seen, seen)
        BY <2>4 DEF SameBut
      <4> QED BY <3>2, <4>1, <4>2, <2>4 DEF SameBut, HelperFields
    <3>3. CASE \E g : r = [h |-> g, reply |-> FALSE] /\ \E x : g = [seen EXCEPT !.lease = x] \/ g = spent \/ g = seen
      <4>1. PICK g : r = [h |-> g, reply |-> FALSE] /\ \E x : g = [seen EXCEPT !.lease = x] \/ g = spent \/ g = seen
        BY <3>3
      <4>2. helper' = g
        BY <1>6, <4>1
      <4>3. SameBut(g, seen) /\ g.pc = "serving" /\ g.configured = seen.configured /\ g.macs = seen.macs /\ g.probed = seen.probed
        BY <4>1, <3>2
      <4>4. ProcessOK(g, wire, heldIp)
        BY <1>4, <4>3, <2>3, <2>4, <2>5 DEF SameBut
      <4> QED BY <1>1, <3>1, <4>2, <4>3, <4>4
    <3>4. CASE r = [h |-> [spent EXCEPT !.lease = mac], reply |-> TRUE]
      <4>1. PICK g : g = [spent EXCEPT !.lease = mac]
        OBVIOUS
      <4>2. SameBut(g, seen) /\ g.pc = "serving" /\ g.configured = seen.configured /\ g.macs = seen.macs /\ g.probed = seen.probed
        BY <4>1, <3>2
      <4>3. helper' = [g EXCEPT !.answered = @ \cup {mac}, !.onLan = @ \/ (wire.foreign /\ helper.probed)]
        <5>1. r.reply = TRUE /\ r.h = g
          BY <3>4, <4>1
        <5>2. r.reply
          BY <5>1
        <5> QED BY ONLY <5>1, <5>2, helper' = IF r.reply THEN [r.h EXCEPT !.answered = @ \cup {mac}, !.onLan = @ \/ (wire.foreign /\ helper.probed)] ELSE r.h
      <4>4. /\ DOMAIN helper' = HelperFields /\ helper'.pc = "serving" /\ helper'.macs = seen.macs
            /\ helper'.os = helper.os /\ helper'.code = helper.code /\ helper'.plan = helper.plan /\ helper'.among = helper.among
            /\ helper'.configured = helper.configured /\ helper'.probed = helper.probed
            /\ helper'.answered = helper.answered \cup {mac}
            /\ helper'.onLan = (helper.onLan \/ (wire.foreign /\ helper.probed))
        BY <4>2, <4>3, <2>4 DEF SameBut, HelperFields
      <4>5. helper'.onLan = FALSE
        BY <4>4, <2>5 DEF ProcessOK, CableOK
      <4>6. helper'.answered \subseteq helper'.macs /\ OneAtMost(helper'.answered)
        BY <4>4, <2>4, <2>5, <3>1 DEF OneAtMost
      <4>7. ProcessOK(helper', wire, heldIp)
        BY <1>4, <4>4, <4>5, <4>6, <2>3, <2>4
      <4> QED BY <1>1, <3>1, <4>4, <4>7
    <3>5. \/ \E g : r = [h |-> g, reply |-> FALSE] /\ \E x : g = [seen EXCEPT !.lease = x] \/ g = spent \/ g = seen
          \/ r = [h |-> [spent EXCEPT !.lease = mac], reply |-> TRUE]
      BY <1>6, <2>1, <2>2, <2>8 DEF HandlePacket
    <3> QED BY <3>3, <3>4, <3>5
  <2> QED BY <2>7, <2>8
<1> QED BY <1>2, <1>5, <1>6 DEF Receive

\* The end, and what the world does meanwhile. A signal that came before the address is noted
\* would leave it on the port.
LEMMA WorldSteps ==
  ASSUME "early" \notin HelperRisks, HelperInv,
         RestoreLocalIp \/ AskToStop \/ Signal \/ CableMoves \/ SystemMinds \/ Refill
  PROVE  HelperInv'
<1> USE DEF HelperInv
<1>0. DOMAIN helper = HelperFields /\ helper.configured \in BOOLEAN
  BY DEF ProcessOK
<1>1. CASE RestoreLocalIp
  <2>1. helper.pc = "restoring" /\ helper' = [helper EXCEPT !.pc = "exited"] /\ heldIp' = FALSE /\ wire' = wire
    BY <1>1 DEF RestoreLocalIp
  <2>2. SameBut(helper', helper) /\ helper'.pc = "exited" /\ helper'.configured = helper.configured /\ helper'.macs = helper.macs
        /\ helper'.probed = helper.probed
    BY <2>1, <1>0 DEF HelperFields, SameBut
  <2>3. PortOK(helper', heldIp')
    BY <2>1, <2>2 DEF PortOK
  <2> QED BY <2>1, <2>2, <2>3 DEF ProcessOK, SameBut, Running
<1>2. CASE AskToStop \/ Refill
  <2>1. heldIp' = heldIp /\ wire' = wire
    BY <1>2 DEF AskToStop, Refill
  <2>2. SameBut(helper', helper) /\ helper'.pc = helper.pc /\ helper'.configured = helper.configured /\ helper'.macs = helper.macs
        /\ helper'.probed = helper.probed
    BY <1>2, <1>0 DEF AskToStop, Refill, HelperFields, SameBut
  <2>3. PortOK(helper', heldIp')
    BY <2>1, <2>2 DEF PortOK, ProcessOK, SameBut
  <2> QED BY <2>1, <2>2, <2>3 DEF ProcessOK, SameBut
<1>3. CASE Signal
  <2>1. heldIp' = heldIp /\ wire' = wire /\ helper.pc \in Running \ {"applied"} /\ helper' = Exit(helper, "stopped")
    BY <1>3 DEF Signal, Running
  <2> QED BY <2>1, ExitOK
<1>4. CASE CableMoves
  <2>1. heldIp' = heldIp /\ wire' \in Wires(wire.moves + 1) /\ helper' = [helper EXCEPT !.probed = FALSE]
    BY <1>4 DEF CableMoves
  <2>2. SameBut(helper', helper) /\ helper'.pc = helper.pc /\ helper'.configured = helper.configured /\ helper'.macs = helper.macs
        /\ helper'.probed = FALSE
    BY <2>1, <1>0 DEF HelperFields, SameBut
  <2>3. PortOK(helper', heldIp')
    BY <2>1, <2>2 DEF PortOK, ProcessOK, SameBut
  <2>4. CableOK(wire')
    BY <2>1, CableLeads
  <2> QED BY <2>1, <2>2, <2>3, <2>4 DEF ProcessOK, SameBut
<1>5. CASE SystemMinds
  <2>1. helper' = helper /\ wire' = wire /\ heldIp' \in BOOLEAN /\ (helper.os = "unix" => heldIp' = FALSE)
    BY <1>5 DEF SystemMinds
  <2>2. PortOK(helper', heldIp')
    BY <2>1 DEF PortOK, ProcessOK
  <2> QED BY <2>1, <2>2 DEF ProcessOK
<1> QED BY <1>1, <1>2, <1>3, <1>4, <1>5

\* The helper of the direct link (directlink.py): nobody on a network with a DHCP server of its own is
\* answered unless the cable was moved there since the last probe, and never two devices; a move out of
\* a console's way leads to a free address and not further; and on Unix the address is gone from the
\* port with the process. The hypothesis: a signal between the command that adds the address and
\* `configured = True` leaves it there.
THEOREM LeftAsFound == ASSUME "early" \notin HelperRisks PROVE HelperSpec => []LinkLeftClean
<1>1. HelperInit => HelperInv
  <2> SUFFICES ASSUME HelperInit PROVE HelperInv
    OBVIOUS
  <2>1. PICK os \in HelperOS :
          /\ helper = [os |-> os, pc |-> "verify", code |-> "none", configured |-> FALSE, waits |-> 0, stop |-> FALSE, macs |-> {},
                       lease |-> "none", tokens |-> REPLY_BURST, plan |-> [server |-> Server, client |-> Client], among |-> {},
                       probed |-> FALSE, answered |-> {}, onLan |-> FALSE]
          /\ heldIp = (os = "windows")
    BY DEF HelperInit
  <2>2. CableOK(wire)
    BY CableLeads DEF HelperInit
  <2>3. PortOK(helper, heldIp) /\ heldIp \in BOOLEAN
    BY <2>1 DEF PortOK
  <2>4. IsFiniteSet({})
    BY FS_EmptySet
  <2>5. /\ DOMAIN helper = HelperFields /\ helper.pc = "verify" /\ helper.configured = FALSE /\ helper.probed = FALSE
        /\ helper.onLan = FALSE /\ helper.macs = {} /\ helper.answered = {} /\ helper.code = "none"
    BY <2>1 DEF HelperFields
  <2> QED BY <2>2, <2>3, <2>4, <2>5 DEF HelperInv, ProcessOK, Running, OneAtMost
<1>2. HelperInv /\ [HelperNext]_helperVars => HelperInv'
  <2> SUFFICES ASSUME HelperInv, [HelperNext]_helperVars PROVE HelperInv'
    OBVIOUS
  <2>1. CASE UNCHANGED helperVars
    BY <2>1 DEF helperVars, HelperInv
  <2>2. CASE Verify \/ ApplyLocalIp \/ Configured
    BY <2>2, StartingSteps
  <2>3. CASE OpenSocket
    BY <2>3, OpenSocketStep
  <2>4. CASE FirstProbe \/ Reprobe
    BY <2>4, ProbeSteps
  <2>5. CASE StopCheck \/ Recheck
    BY <2>5, CheckSteps
  <2>6. CASE Receive
    BY <2>6, ReceiveStep
  <2>7. CASE RestoreLocalIp \/ AskToStop \/ Signal \/ CableMoves \/ SystemMinds \/ Refill
    BY <2>7, WorldSteps
  <2> QED BY <2>1, <2>2, <2>3, <2>4, <2>5, <2>6, <2>7 DEF HelperNext, HelperStep
<1>3. HelperInv => LinkLeftClean
  <2> SUFFICES ASSUME HelperInv PROVE LinkLeftClean
    OBVIOUS
  <2>1. IsFiniteSet(helper.answered) /\ OneAtMost(helper.answered) /\ helper.onLan = FALSE
    BY FS_Subset DEF HelperInv, ProcessOK
  <2>2. LanLeftAlone
    BY <2>1, CountedOne DEF LanLeftAlone
  <2>3. RehomeSettles
    BY DEF HelperInv, ProcessOK, Settled, RehomeSettles
  <2>4. UnixPortRestored
    BY DEF HelperInv, ProcessOK, PortOK, UnixPortRestored
  <2> QED BY <2>2, <2>3, <2>4 DEF LinkLeftClean
<1> QED BY <1>1, <1>2, <1>3, PTL DEF HelperSpec

-----------------------------------------------------------------------------
(* RaOwned: what is evaluated and shown is of this account and this image.   *)

RxFields == {"token", "gen", "owner", "pending", "queued", "identified", "unsupported", "sent", "watch", "acct", "evaluator", "ctx"}
SesFields == {"epoch", "serial", "user", "pending", "ctx", "store"}
SvcFields == {"loop", "stop", "reset", "cmds", "jobs", "results", "active", "cancel", "worker", "saw", "found", "evals", "latest",
              "frameGen", "out", "account", "asked", "calls", "runs", "wanted"}

\* A receiver: while an identification is under way there is no watch list, and a context is that of
\* the list installed last, of its account and of its image.
RxOK(R) ==
  /\ DOMAIN R = RxFields /\ R.gen \in Nat
  /\ R.pending # NoJob => R.watch = "none" /\ R.ctx = NoCtx
  /\ R.ctx # NoCtx => /\ R.evaluator # 0
                      /\ R.acct = [user |-> R.ctx.user, epoch |-> R.ctx.epoch]
                      /\ R.ctx.image = R.watch /\ R.ctx.image = R.identified

\* Nobody is signed in, and no account task can change that.
SignedOut(R, S) == S.user = "none" /\ R.acct = NoAcct /\ S.pending = NoTask

\* A command that signs nobody in.
Quiet(c) == c.kind = "accept" \/ (c.kind = "begin" /\ c.op # "login")

\* The user who logged out is out, or will be when the logout that waits has been done: nothing
\* behind it signs anybody in.
WillBeOut(cmds, wanted, R, S) ==
  wanted # "in" =>
    \/ /\ SignedOut(R, S) /\ (wanted = "forgotten" => S.store = "none")
       /\ \A j \in 1 .. Len(cmds) : Quiet(cmds[j])
    \/ \E k \in 1 .. Len(cmds) :
         /\ cmds[k].kind = "clear" /\ (wanted = "forgotten" => cmds[k].forget)
         /\ \A j \in k + 1 .. Len(cmds) : Quiet(cmds[j])

\* No frame of before a reset is on its way out, unless the reset will stop it.
FramesOK(V) ==
  /\ \A i \in 1 .. Len(V.evals) : V.evals[i].old = FALSE
  /\ V.latest.old = FALSE
  /\ DOMAIN V.out = {"old", "gen", "ctx", "unlock"} /\ V.out.old \in BOOLEAN
  /\ V.out.old = TRUE => V.reset = TRUE /\ V.loop = "publish"

IsSeq(s) == \E T : s \in Seq(T)

Kinds == {"clear", "begin", "accept"}
CmdOK(c) == c.kind \in Kinds /\ (c.kind = "clear" => c.forget \in BOOLEAN)
QueueOK(cmds) == IsSeq(cmds) /\ \A i \in 1 .. Len(cmds) : CmdOK(cmds[i])

SvcOK(V) == DOMAIN V = SvcFields /\ V.reset \in BOOLEAN /\ QueueOK(V.cmds) /\ IsSeq(V.evals) /\ FramesOK(V)

OwnedInv ==
  /\ RxOK(rx) /\ DOMAIN ses = SesFields /\ SvcOK(svc)
  /\ WillBeOut(svc.cmds, svc.wanted, rx, ses)

-----------------------------------------------------------------------------
\* Sequences of anything.
LEMMA AppendAny ==
  ASSUME NEW s, IsSeq(s), NEW e
  PROVE  /\ IsSeq(Append(s, e)) /\ Len(s) \in Nat /\ Len(Append(s, e)) = Len(s) + 1
         /\ \A i \in 1 .. Len(s) : Append(s, e)[i] = s[i]
         /\ Append(s, e)[Len(s) + 1] = e
<1>1. PICK T : s \in Seq(T)
  BY DEF IsSeq
<1>2. s \in Seq(T \cup {e}) /\ e \in T \cup {e}
  BY <1>1
<1>3. Append(s, e) \in Seq(T \cup {e})
  BY <1>2
<1> QED BY <1>2, <1>3 DEF IsSeq

LEMMA TailAny ==
  ASSUME NEW s, IsSeq(s), s # <<>>
  PROVE  /\ IsSeq(Tail(s)) /\ Len(s) \in Nat /\ Len(s) >= 1 /\ Len(Tail(s)) = Len(s) - 1
         /\ \A i \in 1 .. Len(Tail(s)) : Tail(s)[i] = s[i + 1]
         /\ Head(s) = s[1]
<1>1. PICK T : s \in Seq(T)
  BY DEF IsSeq
<1>2. Tail(s) \in Seq(T)
  BY <1>1
<1> QED BY <1>1, <1>2 DEF IsSeq

LEMMA EmptyAny == IsSeq(<<>>) /\ Len(<<>>) = 0
<1>1. <<>> \in Seq({})
  OBVIOUS
<1> QED BY <1>1 DEF IsSeq

-----------------------------------------------------------------------------
\* The receiver's own operations keep it sound; only account operations touch the account.
RxSame(N, R) == RxOK(N) /\ N.acct = R.acct

LEMMA ReconcileOK ==
  ASSUME NEW R, DOMAIN R = RxFields, R.gen \in Nat, R.watch = "none",
         R.ctx # NoCtx => R.evaluator # 0
  PROVE  RxOK(Reconcile(R)) /\ Reconcile(R).acct = R.acct /\ Reconcile(R).ctx = NoCtx
<1>1. PICK N : N = Reconcile(R)
  OBVIOUS
<1>2. CASE R.evaluator # 0
  <2>1. N = [R EXCEPT !.evaluator = 0, !.ctx = NoCtx]
    BY <1>1, <1>2 DEF Reconcile
  <2> QED BY <1>1, <2>1 DEF RxOK, RxFields
<1>3. CASE R.evaluator = 0
  BY <1>1, <1>3 DEF Reconcile, RxOK
<1> QED BY <1>2, <1>3

LEMMA ResetOK ==
  ASSUME NEW R, RxOK(R)
  PROVE  RxSame(RxReset(R), R) /\ RxReset(R).ctx = NoCtx
<1>1. PICK C : C = RxClear(R)
  OBVIOUS
<1>0. DOMAIN R = RxFields /\ R.gen \in Nat
  BY DEF RxOK
<1>2. /\ DOMAIN C = RxFields /\ C.gen = R.gen + 1 /\ C.watch = "none" /\ C.ctx = R.ctx /\ C.evaluator = R.evaluator
      /\ C.acct = R.acct
  BY <1>0, <1>1 DEF RxClear, RxFields
<1>3. C.ctx # NoCtx => C.evaluator # 0
  BY <1>2 DEF RxOK
<1> QED BY <1>0, <1>1, <1>2, <1>3, ReconcileOK DEF RxReset, RxSame

\* complete: nothing is left of a list while one is pending, so the new one starts clean.
LEMMA CompleteOK ==
  ASSUME NEW R, RxOK(R), NEW lookup, NEW what
  PROVE  /\ RxSame(RxComplete(R, lookup, what), R)
         /\ (what = "watch" /\ R.pending = lookup /\ lookup # NoJob /\ lookup.token = R.token) =>
              LET N == RxComplete(R, lookup, what)
              IN  N.evaluator # 0 /\ N.watch = lookup.image /\ N.identified = lookup.image /\ N.pending = NoJob
<1>1. CASE R.pending # lookup \/ lookup = NoJob \/ lookup.token # R.token
  BY <1>1 DEF RxComplete, RxSame
<1>2. CASE ~(R.pending # lookup \/ lookup = NoJob \/ lookup.token # R.token)
  <2>1. R.watch = "none" /\ R.ctx = NoCtx /\ DOMAIN R = RxFields /\ R.gen \in Nat
    BY <1>2 DEF RxOK
  <2>2. PICK S : S = [R EXCEPT !.pending = NoJob, !.queued = NoJob, !.identified = IF what = "failed" THEN "none" ELSE lookup.image,
                               !.unsupported = what = "unsupported"]
    OBVIOUS
  <2>3. /\ DOMAIN S = RxFields /\ S.gen = R.gen /\ S.watch = "none" /\ S.ctx = NoCtx /\ S.acct = R.acct
        /\ S.identified = (IF what = "failed" THEN "none" ELSE lookup.image) /\ S.pending = NoJob
    BY <2>1, <2>2 DEF RxFields
  <2>4. CASE what # "watch"
    <3>1. RxComplete(R, lookup, what) = Reconcile(S)
      BY <1>2, <2>2, <2>4 DEF RxComplete
    <3> QED BY <2>1, <2>3, <2>4, <3>1, ReconcileOK DEF RxSame
  <2>5. CASE what = "watch"
    <3>1. PICK N : N = RxComplete(R, lookup, what)
      OBVIOUS
    <3>2. N = [S EXCEPT !.gen = @ + 1, !.watch = lookup.image, !.evaluator = R.gen + 1, !.ctx = NoCtx]
      BY <1>2, <2>2, <2>5, <3>1 DEF RxComplete
    <3>3. /\ DOMAIN N = RxFields /\ N.gen = R.gen + 1 /\ N.watch = lookup.image /\ N.evaluator = R.gen + 1 /\ N.ctx = NoCtx
          /\ N.acct = R.acct /\ N.identified = lookup.image /\ N.pending = NoJob
      BY <2>3, <2>5, <3>2 DEF RxFields
    <3>4. N.gen \in Nat /\ N.evaluator # 0
      BY <2>1, <3>3
    <3> QED BY <3>1, <3>3, <3>4 DEF RxSame, RxOK
  <2> QED BY <2>4, <2>5
<1> QED BY <1>1, <1>2

\* complete_set: a set is installed for the account it was read for, or not at all.
LEMMA CompleteSetOK ==
  ASSUME NEW R, RxOK(R), NEW lookup, NEW ctx, NEW N \in CompleteSet(R, lookup, ctx)
  PROVE  RxSame(N, R)
<1>1. CASE N = RxComplete(R, lookup, "failed")
  BY <1>1, CompleteOK
<1>2. CASE N = RxReset(R)
  BY <1>2, ResetOK
<1>3. CASE N = R
  BY <1>3 DEF RxSame
<1>4. CASE /\ R.acct = [user |-> ctx.user, epoch |-> ctx.epoch] /\ R.pending = lookup /\ lookup # NoJob /\ lookup.image = ctx.image
           /\ lookup.token = R.token /\ N = [RxComplete(R, lookup, "watch") EXCEPT !.ctx = ctx]
  <2>1. PICK C : C = RxComplete(R, lookup, "watch")
    OBVIOUS
  <2>2. RxOK(C) /\ C.acct = R.acct /\ C.evaluator # 0 /\ C.watch = lookup.image /\ C.identified = lookup.image /\ C.pending = NoJob
    BY <1>4, <2>1, CompleteOK DEF RxSame
  <2>3. N = [C EXCEPT !.ctx = ctx]
    BY <1>4, <2>1
  <2>4. /\ DOMAIN N = RxFields /\ N.gen \in Nat /\ N.ctx = ctx /\ N.acct = R.acct /\ N.evaluator # 0
        /\ N.watch = lookup.image /\ N.identified = lookup.image /\ N.pending = NoJob
    BY <2>2, <2>3 DEF RxOK, RxFields
  <2> QED BY <1>4, <2>4 DEF RxSame, RxOK
<1> QED BY <1>1, <1>2, <1>3, <1>4 DEF CompleteSet

\* _expire
LEMMA ExpiredOK == ASSUME NEW R, RxOK(R), NEW N \in Expired(R) PROVE RxSame(N, R)
<1>1. CASE N = R
  BY <1>1 DEF RxSame
<1>2. CASE N = RxReset(R)
  BY <1>2, ResetOK
<1>3. CASE N = [R EXCEPT !.token = @ + 1, !.pending = NoJob, !.queued = NoJob]
  <2>1. /\ DOMAIN N = RxFields /\ N.gen = R.gen /\ N.pending = NoJob /\ N.watch = R.watch /\ N.ctx = R.ctx
        /\ N.evaluator = R.evaluator /\ N.acct = R.acct /\ N.identified = R.identified
    BY <1>3 DEF RxOK, RxFields
  <2> QED BY <2>1 DEF RxOK, RxSame
<1> QED BY <1>1, <1>2, <1>3 DEF Expired

\* receive: a request takes the lease, marks a list as sent, or starts over with another image.
LEMMA RequestOK == ASSUME NEW R, RxOK(R), NEW kind, NEW i PROVE RxSame(Request(R, kind, i), R)
<1>0. DOMAIN R = RxFields /\ R.gen \in Nat
  BY DEF RxOK
<1>1. CASE Request(R, kind, i) = R
  BY <1>1 DEF RxSame
<1>2. CASE Request(R, kind, i) \in {[R EXCEPT !.sent = TRUE], [R EXCEPT !.owner = TRUE]}
  <2>1. PICK N : N = Request(R, kind, i)
    OBVIOUS
  <2>2. /\ DOMAIN N = RxFields /\ N.gen = R.gen /\ N.pending = R.pending /\ N.watch = R.watch /\ N.ctx = R.ctx
        /\ N.evaluator = R.evaluator /\ N.acct = R.acct /\ N.identified = R.identified
    BY <1>0, <1>2, <2>1 DEF RxFields
  <2> QED BY <2>1, <2>2 DEF RxOK, RxSame
<1>3. ASSUME NEW lookup, NEW C,
             C = [R EXCEPT !.owner = TRUE, !.token = @ + 1, !.gen = @ + 1, !.watch = "none", !.sent = FALSE,
                           !.identified = "none", !.unsupported = FALSE, !.pending = lookup, !.queued = lookup],
             Request(R, kind, i) = Reconcile(C)
      PROVE  RxSame(Request(R, kind, i), R)
  <2>1. DOMAIN C = RxFields /\ C.gen = R.gen + 1 /\ C.watch = "none" /\ C.ctx = R.ctx /\ C.evaluator = R.evaluator /\ C.acct = R.acct
    BY <1>0, <1>3 DEF RxFields
  <2>2. C.gen \in Nat /\ (C.ctx # NoCtx => C.evaluator # 0)
    BY <1>0, <2>1 DEF RxOK
  <2> QED BY <1>3, <2>1, <2>2, ReconcileOK DEF RxSame
<1> QED BY <1>1, <1>2, <1>3 DEF Request

-----------------------------------------------------------------------------
\* bind_account and clear_account drop what was there for another account.
LEMMA BindOK ==
  ASSUME NEW R, RxOK(R), NEW a
  PROVE  RxOK(RxBind(R, a)) /\ RxOK(RxClearAccount(R)) /\ RxClearAccount(R).acct = NoAcct
<1>1. PICK N : N = RxReset(R)
  OBVIOUS
<1>2. RxOK(N) /\ N.ctx = NoCtx
  BY <1>1, ResetOK DEF RxSame
<1>3. ASSUME NEW x PROVE RxOK([N EXCEPT !.acct = x]) /\ [N EXCEPT !.acct = x].acct = x
  <2>1. PICK M : M = [N EXCEPT !.acct = x]
    OBVIOUS
  <2>2. DOMAIN M = RxFields /\ M.gen = N.gen /\ M.ctx = NoCtx /\ M.pending = N.pending /\ M.watch = N.watch /\ M.acct = x
    BY <1>2, <2>1 DEF RxOK, RxFields
  <2> QED BY <1>2, <2>1, <2>2 DEF RxOK
<1> QED BY <1>1, <1>3 DEF RxBind, RxClearAccount

\* logout: whoever was signed in is out, with whatever was under way.
LEMMA LogoutOK ==
  ASSUME NEW R, RxOK(R), NEW S, DOMAIN S = SesFields, NEW forget \in BOOLEAN, NEW n, n = Logout(R, S, forget)
  PROVE  RxOK(n.rx) /\ DOMAIN n.ses = SesFields /\ SignedOut(n.rx, n.ses) /\ (forget => n.ses.store = "none")
<1>1. n.rx = RxClearAccount(R)
  BY DEF Logout, Both
<1>2. n.ses = [S EXCEPT !.epoch = @ + 1, !.user = "none", !.pending = NoTask, !.ctx = NoCtx, !.store = IF forget THEN "none" ELSE @]
  BY DEF Logout, Both
<1>3. DOMAIN n.ses = SesFields /\ n.ses.user = "none" /\ n.ses.pending = NoTask /\ (forget => n.ses.store = "none")
  BY <1>2 DEF SesFields
<1> QED BY <1>1, <1>3, BindOK DEF SignedOut

LEMMA BeginOK ==
  ASSUME NEW R, RxOK(R), NEW S, DOMAIN S = SesFields, NEW op, NEW n, n = BeginTask(R, S, op)
  PROVE  /\ RxOK(n.rx) /\ DOMAIN n.ses = SesFields
         /\ op # "login" /\ S.user = "none" => n.rx = R /\ n.ses = S
<1>0. ASSUME NEW T, DOMAIN T = SesFields, NEW o, NEW c, NEW j PROVE DOMAIN NewTask(T, o, c, j) = SesFields
  BY <1>0 DEF NewTask, SesFields
<1>1. CASE op = "login"
  <2>1. PICK L : L = Logout(R, S, FALSE)
    OBVIOUS
  <2>2. RxOK(L.rx) /\ DOMAIN L.ses = SesFields
    BY <2>1, LogoutOK
  <2>3. n = Both(L.rx, NewTask(L.ses, op, NoCtx, NoJob))
    BY <1>1, <2>1 DEF BeginTask
  <2>4. n.rx = L.rx /\ n.ses = NewTask(L.ses, op, NoCtx, NoJob)
    BY <2>3 DEF Both
  <2> QED BY <1>0, <1>1, <2>2, <2>4
<1>2. CASE op = "set" /\ S.user # "none" /\ R.pending # NoJob
  <2>1. n.rx = R /\ n.ses = NewTask(S, op, [user |-> S.user, epoch |-> S.epoch, image |-> R.pending.image], R.pending)
    BY <1>2 DEF BeginTask, Both
  <2> QED BY <1>0, <1>2, <2>1
<1>3. CASE op = "award" /\ S.user # "none" /\ S.ctx.epoch = S.epoch /\ S.ctx.user = S.user
  <2>1. n.rx = R /\ n.ses = NewTask(S, op, S.ctx, NoJob)
    BY <1>3 DEF BeginTask, Both
  <2> QED BY <1>0, <1>3, <2>1
<1>4. CASE /\ op # "login" /\ ~(op = "set" /\ S.user # "none" /\ R.pending # NoJob)
           /\ ~(op = "award" /\ S.user # "none" /\ S.ctx.epoch = S.epoch /\ S.ctx.user = S.user)
  <2>1. n.rx = R /\ n.ses = S
    BY <1>4 DEF BeginTask, Both
  <2> QED BY <2>1
<1> QED BY <1>1, <1>2, <1>3, <1>4

\* accept: only the answer to the pending task counts.
LEMMA AcceptOK ==
  ASSUME NEW R, RxOK(R), NEW S, DOMAIN S = SesFields, NEW t, NEW user, NEW remember, NEW n \in Accept(R, S, t, user, remember)
  PROVE  /\ RxOK(n.rx) /\ DOMAIN n.ses = SesFields
         /\ S.pending = NoTask => n.rx = R /\ n.ses = S
<1> DEFINE done == [S EXCEPT !.pending = NoTask]
<1>0. DOMAIN done = SesFields
  BY DEF SesFields
<1>1. CASE n = Both(R, S)
  BY <1>1 DEF Both
<1>2. CASE ~(S.pending # t \/ t = NoTask \/ t.epoch # S.epoch)
  <2>0. S.pending # NoTask
    BY <1>2
  <2>1. CASE n = Both(R, done)
    BY <1>0, <2>0, <2>1 DEF Both
  <2>2. CASE \E N \in CompleteSet(R, t.job, t.ctx) : \E x : n = Both(N, [done EXCEPT !.ctx = x])
    <3>1. PICK N \in CompleteSet(R, t.job, t.ctx) : \E x : n = Both(N, [done EXCEPT !.ctx = x])
      BY <2>2
    <3>1a. PICK x : n = Both(N, [done EXCEPT !.ctx = x])
      BY <3>1
    <3>2. n.rx = N /\ DOMAIN n.ses = SesFields
      BY <1>0, <3>1a DEF Both
    <3> QED BY <2>0, <3>2, CompleteSetOK DEF RxSame
  <2>3. CASE \E a, u, x : n = Both(RxBind(R, a), [done EXCEPT !.user = u, !.store = x])
    <3>1. PICK a, u, x : n = Both(RxBind(R, a), [done EXCEPT !.user = u, !.store = x])
      BY <2>3
    <3>2. n.rx = RxBind(R, a) /\ DOMAIN n.ses = SesFields
      BY <1>0, <3>1 DEF Both
    <3> QED BY <2>0, <3>2, BindOK
  <2>4. CASE user = "none" \/ t.op = "award"
    BY <1>2, <2>1, <2>4 DEF Accept
  <2>5. CASE ~(user = "none" \/ t.op = "award") /\ t.op = "set"
    <3>1. PICK N \in CompleteSet(R, t.job, t.ctx) :
            n = Both(N, [done EXCEPT !.ctx = IF N.ctx = t.ctx /\ N.gen # R.gen THEN t.ctx ELSE @])
      BY <1>2, <2>5 DEF Accept
    <3>2. \E x : n = Both(N, [done EXCEPT !.ctx = x])
      BY <3>1
    <3> QED BY <2>2, <3>2
  <2>6. CASE ~(user = "none" \/ t.op = "award") /\ t.op # "set"
    <3>1. n = Both(RxBind(R, [user |-> user, epoch |-> S.epoch]),
                   [done EXCEPT !.user = user, !.store = IF remember THEN user ELSE @])
      BY <1>2, <2>6 DEF Accept
    <3>2. \E x : n = Both(RxBind(R, [user |-> user, epoch |-> S.epoch]), [done EXCEPT !.user = user, !.store = x])
      BY <3>1
    <3> QED BY <2>3, <3>2
  <2> QED BY <2>4, <2>5, <2>6
<1> QED BY <1>1, <1>2 DEF Accept

\* What a command does, by what it is.
LEMMA CommandOK ==
  ASSUME NEW R, RxOK(R), NEW S, DOMAIN S = SesFields, NEW c, CmdOK(c), NEW n \in Command(c, R, S)
  PROVE  /\ RxOK(n.rx) /\ DOMAIN n.ses = SesFields
         /\ c.kind = "clear" => SignedOut(n.rx, n.ses) /\ (c.forget => n.ses.store = "none")
         /\ Quiet(c) /\ SignedOut(R, S) => n.rx = R /\ n.ses = S
<1>1. CASE c.kind = "clear"
  <2>1. n = Logout(R, S, c.forget)
    BY <1>1 DEF Command
  <2> QED BY <1>1, <2>1, LogoutOK DEF CmdOK, Quiet
<1>2. CASE c.kind = "begin"
  <2>1. n = BeginTask(R, S, c.op)
    BY <1>2 DEF Command
  <2> QED BY <1>2, <2>1, BeginOK DEF Quiet, SignedOut
<1>3. CASE c.kind = "accept"
  <2>1. n \in Accept(R, S, c.task, c.user, c.remember)
    BY <1>3 DEF Command
  <2> QED BY <1>3, <2>1, AcceptOK DEF SignedOut
<1> QED BY <1>1, <1>2, <1>3 DEF CmdOK, Kinds

\* The first command of the queue is done: the logout that waits has come nearer, or is done.
LEMMA QueueMoves ==
  ASSUME NEW R, RxOK(R), NEW S, DOMAIN S = SesFields, NEW cmds, QueueOK(cmds), cmds # <<>>, NEW wanted,
         WillBeOut(cmds, wanted, R, S), NEW n \in Command(Head(cmds), R, S)
  PROVE  RxOK(n.rx) /\ DOMAIN n.ses = SesFields /\ QueueOK(Tail(cmds)) /\ WillBeOut(Tail(cmds), wanted, n.rx, n.ses)
<1>1. /\ IsSeq(Tail(cmds)) /\ Len(cmds) \in Nat /\ Len(cmds) >= 1 /\ Len(Tail(cmds)) = Len(cmds) - 1
      /\ \A i \in 1 .. Len(Tail(cmds)) : Tail(cmds)[i] = cmds[i + 1]
      /\ Head(cmds) = cmds[1]
  BY TailAny DEF QueueOK
<1>2. QueueOK(Tail(cmds)) /\ CmdOK(Head(cmds))
  BY <1>1 DEF QueueOK
<1>3. /\ RxOK(n.rx) /\ DOMAIN n.ses = SesFields
      /\ Head(cmds).kind = "clear" => SignedOut(n.rx, n.ses) /\ (Head(cmds).forget => n.ses.store = "none")
      /\ Quiet(Head(cmds)) /\ SignedOut(R, S) => n.rx = R /\ n.ses = S
  BY <1>2, CommandOK
<1>4. ASSUME wanted # "in", SignedOut(R, S), wanted = "forgotten" => S.store = "none", \A j \in 1 .. Len(cmds) : Quiet(cmds[j])
      PROVE  WillBeOut(Tail(cmds), wanted, n.rx, n.ses)
  <2>1. n.rx = R /\ n.ses = S
    BY <1>1, <1>3, <1>4
  <2>2. \A j \in 1 .. Len(Tail(cmds)) : Quiet(Tail(cmds)[j])
    BY <1>1, <1>4
  <2> QED BY <1>4, <2>1, <2>2 DEF WillBeOut
<1>5. ASSUME wanted # "in", NEW k \in 1 .. Len(cmds), cmds[k].kind = "clear", wanted = "forgotten" => cmds[k].forget,
             \A j \in k + 1 .. Len(cmds) : Quiet(cmds[j])
      PROVE  WillBeOut(Tail(cmds), wanted, n.rx, n.ses)
  <2>1. CASE k = 1
    <3>1. SignedOut(n.rx, n.ses) /\ (wanted = "forgotten" => n.ses.store = "none")
      BY <1>1, <1>3, <1>5, <2>1
    <3>2. \A j \in 1 .. Len(Tail(cmds)) : Quiet(Tail(cmds)[j])
      BY <1>1, <1>5, <2>1
    <3> QED BY <3>1, <3>2 DEF WillBeOut
  <2>2. CASE k # 1
    <3>1. k - 1 \in 1 .. Len(Tail(cmds)) /\ Tail(cmds)[k - 1] = cmds[k]
      BY <1>1, <1>5, <2>2
    <3>2. \A j \in (k - 1) + 1 .. Len(Tail(cmds)) : Quiet(Tail(cmds)[j])
      BY <1>1, <1>5, <2>2
    <3> QED BY <1>5, <3>1, <3>2 DEF WillBeOut
  <2> QED BY <2>1, <2>2
<1>6. wanted = "in" => WillBeOut(Tail(cmds), wanted, n.rx, n.ses)
  BY DEF WillBeOut
<1> QED BY <1>2, <1>3, <1>4, <1>5, <1>6 DEF WillBeOut

\* A command is added: a logout, or one that signs nobody in, or a login, which is then what is wanted.
LEMMA QueueGrows ==
  ASSUME NEW R, NEW S, NEW cmds, QueueOK(cmds), NEW wanted, WillBeOut(cmds, wanted, R, S), NEW c, CmdOK(c), NEW w,
         \/ c.kind = "clear" /\ (w = "forgotten" => c.forget)
         \/ Quiet(c) /\ w = wanted
         \/ w = "in"
  PROVE  QueueOK(Append(cmds, c)) /\ WillBeOut(Append(cmds, c), w, R, S)
<1>1. /\ IsSeq(Append(cmds, c)) /\ Len(cmds) \in Nat /\ Len(Append(cmds, c)) = Len(cmds) + 1
      /\ \A i \in 1 .. Len(cmds) : Append(cmds, c)[i] = cmds[i]
      /\ Append(cmds, c)[Len(cmds) + 1] = c
  BY AppendAny DEF QueueOK
<1>2. \A i \in 1 .. Len(cmds) + 1 : i \in 1 .. Len(cmds) \/ i = Len(cmds) + 1
  BY <1>1
<1>3. QueueOK(Append(cmds, c))
  BY <1>1, <1>2 DEF QueueOK
<1>4. CASE c.kind = "clear" /\ (w = "forgotten" => c.forget)
  <2>1. Len(cmds) + 1 \in 1 .. Len(Append(cmds, c)) /\ ((Len(cmds) + 1) + 1 .. Len(Append(cmds, c))) = {}
    BY <1>1
  <2> QED BY <1>1, <1>3, <1>4, <2>1 DEF WillBeOut
<1>5. CASE Quiet(c) /\ w = wanted
  <2>1. ASSUME \A j \in 1 .. Len(cmds) : Quiet(cmds[j]) PROVE \A j \in 1 .. Len(Append(cmds, c)) : Quiet(Append(cmds, c)[j])
    BY <1>1, <1>2, <1>5, <2>1
  <2>2. ASSUME NEW k \in 1 .. Len(cmds), \A j \in k + 1 .. Len(cmds) : Quiet(cmds[j])
        PROVE  \A j \in k + 1 .. Len(Append(cmds, c)) : Quiet(Append(cmds, c)[j])
    BY <1>1, <1>5, <2>2
  <2>3. \A k \in 1 .. Len(cmds) : k \in 1 .. Len(Append(cmds, c)) /\ Append(cmds, c)[k] = cmds[k]
    BY <1>1
  <2> QED BY <1>3, <1>5, <2>1, <2>2, <2>3 DEF WillBeOut
<1>6. CASE w = "in"
  BY <1>3, <1>6 DEF WillBeOut
<1> QED BY <1>4, <1>5, <1>6

-----------------------------------------------------------------------------
\* The service, when only other fields change, or what is shown is dropped.
LEMMA SvcKept ==
  ASSUME NEW V, SvcOK(V), NEW W, DOMAIN W = SvcFields, W.cmds = V.cmds, W.evals = V.evals, W.latest = V.latest, W.out = V.out,
         W.reset = V.reset, W.loop = V.loop \/ V.out.old = FALSE
  PROVE  SvcOK(W)
BY DEF SvcOK, FramesOK

LEMMA SvcDropped ==
  ASSUME NEW V, SvcOK(V), NEW W, DOMAIN W = SvcFields, QueueOK(W.cmds), W.evals = <<>>, W.latest = NoFrame,
         W.reset \in BOOLEAN, DOMAIN W.out = DOMAIN V.out, W.out.old \in BOOLEAN,
         W.out.old = TRUE => W.reset = TRUE /\ W.loop = "publish"
  PROVE  SvcOK(W)
<1>1. IsSeq(W.evals) /\ Len(W.evals) = 0
  BY EmptyAny
<1>2. W.latest.old = FALSE
  BY DEF NoFrame
<1> QED BY <1>1, <1>2 DEF SvcOK, FramesOK

\* Dropping what is stale changes nothing else.
SvcLike(W, V) == SvcOK(W) /\ W.cmds = V.cmds /\ W.wanted = V.wanted /\ W.loop = V.loop /\ W.reset = V.reset /\ W.out = V.out

LEMMA StaleOK ==
  ASSUME NEW V, SvcOK(V), NEW R
  PROVE  SvcLike(V, V) /\ SvcLike(Discard(V), V) /\ SvcLike(DropStale(V, R), V) /\ SvcLike(CancelStale(V, R), V)
         /\ Discard(V).evals = <<>> /\ Discard(V).latest = NoFrame
<1>0. DOMAIN V = SvcFields
  BY DEF SvcOK
<1>1. SvcLike(V, V)
  BY DEF SvcLike
<1>2. SvcLike(Discard(V), V) /\ Discard(V).evals = <<>> /\ Discard(V).latest = NoFrame
  <2>1. PICK W : W = Discard(V)
    OBVIOUS
  <2>2. /\ DOMAIN W = SvcFields /\ W.cmds = V.cmds /\ W.evals = <<>> /\ W.latest = NoFrame /\ W.out = V.out /\ W.reset = V.reset
        /\ W.loop = V.loop /\ W.wanted = V.wanted
    BY <1>0, <2>1 DEF Discard, SvcFields
  <2>3. SvcOK(W)
    BY <2>2, SvcDropped DEF SvcOK, FramesOK
  <2> QED BY <2>1, <2>2, <2>3 DEF SvcLike
<1>3. SvcLike([V EXCEPT !.cancel = TRUE], V)
  <2>1. PICK W : W = [V EXCEPT !.cancel = TRUE]
    OBVIOUS
  <2>2. /\ DOMAIN W = SvcFields /\ W.cmds = V.cmds /\ W.evals = V.evals /\ W.latest = V.latest /\ W.out = V.out /\ W.reset = V.reset
        /\ W.loop = V.loop /\ W.wanted = V.wanted
    BY <1>0, <2>1 DEF SvcFields
  <2> QED BY <2>1, <2>2, SvcKept DEF SvcLike
<1> QED BY <1>1, <1>2, <1>3 DEF DropStale, CancelStale

\* Whether somebody is signed in is a matter of the account alone.
LEMMA OutAlike ==
  ASSUME NEW R, NEW N, N.acct = R.acct, NEW S, NEW cmds, NEW wanted, WillBeOut(cmds, wanted, R, S)
  PROVE  WillBeOut(cmds, wanted, N, S)
BY DEF WillBeOut, SignedOut

\* One command.
LEMMA DrainStep == ASSUME OwnedInv, svc.cmds # <<>>, DrainOne PROVE OwnedInv'
<1> USE DEF OwnedInv
<1>1. PICK n \in Command(Head(svc.cmds), rx, ses) :
        LET c == Head(svc.cmds)
            V == [svc EXCEPT !.cmds = Tail(@), !.account = [user |-> n.ses.user, epoch |-> n.ses.epoch]]
        IN  /\ rx' = n.rx /\ ses' = n.ses
            /\ svc' = IF c.kind = "clear" THEN V ELSE DropStale(CancelStale(V, n.rx), n.rx)
  BY DEF DrainOne
<1>2. PICK V : V = [svc EXCEPT !.cmds = Tail(@), !.account = [user |-> n.ses.user, epoch |-> n.ses.epoch]]
  OBVIOUS
<1>3. /\ DOMAIN V = SvcFields /\ V.cmds = Tail(svc.cmds) /\ V.evals = svc.evals /\ V.latest = svc.latest /\ V.out = svc.out
      /\ V.reset = svc.reset /\ V.loop = svc.loop /\ V.wanted = svc.wanted
  BY <1>2 DEF SvcOK, SvcFields
<1>4. RxOK(n.rx) /\ DOMAIN n.ses = SesFields /\ QueueOK(Tail(svc.cmds)) /\ WillBeOut(Tail(svc.cmds), svc.wanted, n.rx, n.ses)
  BY QueueMoves DEF SvcOK
<1>5. SvcOK(V)
  BY <1>3, <1>4 DEF SvcOK, FramesOK
<1>6. SvcLike(svc', V)
  <2>1. CASE svc' = V
    BY <1>5, <2>1, StaleOK
  <2>2. CASE svc' = DropStale(CancelStale(V, n.rx), n.rx)
    <3>1. SvcLike(CancelStale(V, n.rx), V)
      BY <1>5, StaleOK
    <3>2. SvcLike(DropStale(CancelStale(V, n.rx), n.rx), CancelStale(V, n.rx))
      BY <3>1, StaleOK DEF SvcLike
    <3> QED BY <2>2, <3>1, <3>2 DEF SvcLike
  <2> QED BY <1>1, <1>2, <2>1, <2>2
<1> QED BY <1>1, <1>3, <1>4, <1>6 DEF SvcLike

\* The head of the loop.
LEMMA HeadStep == ASSUME OwnedInv, LoopHead PROVE OwnedInv'
<1> USE DEF OwnedInv
<1>0. svc.loop = "head" /\ DOMAIN svc = SvcFields /\ svc.out.old = FALSE
  BY DEF LoopHead, SvcOK, FramesOK
<1>1. CASE rx' = RxReset(rx) /\ svc' = [Discard(svc) EXCEPT !.reset = FALSE] /\ UNCHANGED <<ses, tasks>>
  <2>1. PICK D : D = Discard(svc)
    OBVIOUS
  <2>2. SvcLike(D, svc) /\ D.evals = <<>> /\ D.latest = NoFrame
    BY <2>1, StaleOK
  <2>3. svc' = [D EXCEPT !.reset = FALSE] /\ ses' = ses
    BY <1>1, <2>1
  <2>4. /\ DOMAIN svc' = SvcFields /\ svc'.cmds = svc.cmds /\ svc'.evals = <<>> /\ svc'.latest = NoFrame /\ svc'.out = svc.out
        /\ svc'.reset = FALSE /\ svc'.wanted = svc.wanted
    BY <2>2, <2>3 DEF SvcLike, SvcOK, SvcFields
  <2>5. SvcOK(svc')
    BY <1>0, <2>4, SvcDropped DEF SvcOK, FramesOK
  <2>6. RxOK(rx') /\ rx'.acct = rx.acct
    BY <1>1, ResetOK DEF RxSame
  <2> QED BY <2>3, <2>4, <2>5, <2>6, OutAlike
<1>2. CASE svc' = [svc EXCEPT !.loop = "work"] /\ UNCHANGED <<rx, ses, tasks>>
  <2>1. /\ DOMAIN svc' = SvcFields /\ svc'.cmds = svc.cmds /\ svc'.evals = svc.evals /\ svc'.latest = svc.latest /\ svc'.out = svc.out
        /\ svc'.reset = svc.reset /\ svc'.wanted = svc.wanted
    BY <1>0, <1>2 DEF SvcFields
  <2>2. SvcOK(svc')
    BY <1>0, <2>1, SvcKept
  <2> QED BY <1>2, <2>1, <2>2
<1>3. CASE svc.cmds # <<>> /\ DrainOne
  BY <1>3, DrainStep
<1> QED BY <1>1, <1>2, <1>3 DEF LoopHead

\* The finally clause of the loop.
LEMMA EndStep == ASSUME OwnedInv, LoopEnds PROVE OwnedInv'
<1> USE DEF OwnedInv
<1>0. svc.loop = "head" /\ DOMAIN svc = SvcFields /\ svc.out.old = FALSE
  BY DEF LoopEnds, SvcOK, FramesOK
<1>1. CASE svc.cmds # <<>>
  BY <1>1, DrainStep DEF LoopEnds
<1>2. CASE svc.cmds = <<>>
  <2>1. PICK n : n = Logout(rx, ses, FALSE)
    OBVIOUS
  <2>2. PICK D : D = Discard(svc)
    OBVIOUS
  <2>3. SvcLike(D, svc) /\ D.evals = <<>> /\ D.latest = NoFrame
    BY <2>2, StaleOK
  <2>4. /\ rx' = n.rx /\ ses' = n.ses
        /\ svc' = [D EXCEPT !.loop = "dead", !.account = NoAcct, !.cancel = svc.active # NoJob, !.wanted = "out"]
    BY <1>2, <2>1, <2>2 DEF LoopEnds
  <2>5. /\ DOMAIN svc' = SvcFields /\ svc'.cmds = <<>> /\ svc'.evals = <<>> /\ svc'.latest = NoFrame /\ svc'.out = svc.out
        /\ svc'.reset = svc.reset /\ svc'.wanted = "out"
    BY <1>2, <2>3, <2>4 DEF SvcLike, SvcOK, SvcFields
  <2>6. QueueOK(svc'.cmds) /\ Len(svc'.cmds) = 0
    BY <2>5, EmptyAny DEF QueueOK
  <2>7. SvcOK(svc')
    BY <1>0, <2>5, <2>6, SvcDropped DEF SvcOK, FramesOK
  <2>8. RxOK(rx') /\ DOMAIN ses' = SesFields /\ SignedOut(rx', ses')
    BY <2>1, <2>4, LogoutOK
  <2> QED BY <2>5, <2>6, <2>7, <2>8 DEF WillBeOut
<1> QED BY <1>1, <1>2

\* The rest of the iteration: a result, a job, a datagram.
LEMMA WorkStep == ASSUME OwnedInv, LoopWork PROVE OwnedInv'
<1> USE DEF OwnedInv
<1>0. svc.loop = "work" /\ ses' = ses /\ DOMAIN svc = SvcFields /\ svc.out.old = FALSE /\ DOMAIN svc.out = {"old", "gen", "ctx", "unlock"}
  BY DEF LoopWork, SvcOK, FramesOK
<1> DEFINE Hands(R) == svc.jobs = <<>> /\ R.queued # NoJob
           Left(R) == IF Hands(R) THEN [R EXCEPT !.queued = NoJob] ELSE R
           Jobs(R) == IF Hands(R) THEN <<R.queued>> ELSE svc.jobs
           Serving(R) == DropStale(CancelStale([svc EXCEPT !.results = <<>>, !.jobs = Jobs(R)], Left(R)), Left(R))
<1>1. PICK R0 \in Expired(rx) : \E R1 \in IF svc.results = <<>> THEN {R0} ELSE CompleteResult(R0, Head(svc.results)) :
        \/ rx' = Left(R1) /\ svc' = [Serving(R1) EXCEPT !.loop = "head"]
        \/ \E kind \in {"RAP1", "RAQ1", "RAG1"}, i \in Images :
             LET R3 == Request(Left(R1), kind, i)
                 count == svc.asked + (IF R3.owner # Left(R1).owner \/ R3.token # Left(R1).token THEN 1 ELSE 0)
             IN  /\ count <= MaxAsked
                 /\ rx' = R3 /\ svc' = [DropStale(Serving(R1), R3) EXCEPT !.loop = "head", !.asked = count]
        \/ \E unlock \in BOOLEAN :
             /\ Left(R1).owner /\ Left(R1).watch # "none" /\ Left(R1).sent
             /\ rx' = Left(R1)
             /\ svc' = [Serving(R1) EXCEPT !.loop = "publish",
                           !.out = [old |-> FALSE, gen |-> Left(R1).gen, ctx |-> Left(R1).ctx,
                                    unlock |-> unlock /\ Left(R1).evaluator = Left(R1).gen]]
  BY DEF LoopWork
<1> HIDE DEF Left, Jobs, Serving
<1>2. PICK R1 \in IF svc.results = <<>> THEN {R0} ELSE CompleteResult(R0, Head(svc.results)) :
        \/ rx' = Left(R1) /\ svc' = [Serving(R1) EXCEPT !.loop = "head"]
        \/ \E kind \in {"RAP1", "RAQ1", "RAG1"}, i \in Images :
             LET R3 == Request(Left(R1), kind, i)
                 count == svc.asked + (IF R3.owner # Left(R1).owner \/ R3.token # Left(R1).token THEN 1 ELSE 0)
             IN  /\ count <= MaxAsked
                 /\ rx' = R3 /\ svc' = [DropStale(Serving(R1), R3) EXCEPT !.loop = "head", !.asked = count]
        \/ \E unlock \in BOOLEAN :
             /\ Left(R1).owner /\ Left(R1).watch # "none" /\ Left(R1).sent
             /\ rx' = Left(R1)
             /\ svc' = [Serving(R1) EXCEPT !.loop = "publish",
                           !.out = [old |-> FALSE, gen |-> Left(R1).gen, ctx |-> Left(R1).ctx,
                                    unlock |-> unlock /\ Left(R1).evaluator = Left(R1).gen]]
  BY <1>1, Zenon
<1>3. PICK R2, V, jobs : R2 = Left(R1) /\ V = Serving(R1) /\ jobs = Jobs(R1)
  OBVIOUS
<1>3a. R2 = R1 \/ R2 = [R1 EXCEPT !.queued = NoJob]
  BY <1>3 DEF Left
<1>3b. V = DropStale(CancelStale([svc EXCEPT !.results = <<>>, !.jobs = jobs], R2), R2)
  BY <1>3 DEF Serving
<1>4. RxSame(R0, rx)
  BY <1>1, ExpiredOK
<1>5. RxOK(R1) /\ R1.acct = rx.acct
  <2>1. CASE svc.results = <<>>
    BY <1>2, <1>4, <2>1 DEF RxSame
  <2>2. CASE svc.results # <<>>
    <3>1. R1 \in CompleteSet(R0, Head(svc.results).job, Head(svc.results).ctx)
          \/ R1 = RxComplete(R0, Head(svc.results).job, Head(svc.results).what)
      BY <1>2, <2>2 DEF CompleteResult
    <3> QED BY <1>4, <3>1, CompleteSetOK, CompleteOK DEF RxSame
  <2> QED BY <2>1, <2>2
<1>6. RxOK(R2) /\ R2.acct = rx.acct
  <2>1. CASE R2 = [R1 EXCEPT !.queued = NoJob]
    <3>1. /\ DOMAIN R2 = RxFields /\ R2.gen = R1.gen /\ R2.pending = R1.pending /\ R2.watch = R1.watch /\ R2.ctx = R1.ctx
          /\ R2.evaluator = R1.evaluator /\ R2.acct = R1.acct /\ R2.identified = R1.identified
      BY <1>5, <2>1 DEF RxOK, RxFields
    <3> QED BY <1>5, <3>1 DEF RxOK
  <2> QED BY <1>3a, <1>5, <2>1
<1>7. SvcLike(V, svc)
  <2>1. PICK W : W = [svc EXCEPT !.results = <<>>, !.jobs = jobs]
    OBVIOUS
  <2>2. /\ DOMAIN W = SvcFields /\ W.cmds = svc.cmds /\ W.evals = svc.evals /\ W.latest = svc.latest /\ W.out = svc.out
        /\ W.reset = svc.reset /\ W.loop = svc.loop /\ W.wanted = svc.wanted
    BY <1>0, <2>1 DEF SvcFields
  <2>3. SvcOK(W)
    BY <2>2, SvcKept
  <2>4. SvcLike(CancelStale(W, R2), W)
    BY <2>3, StaleOK
  <2>5. SvcLike(DropStale(CancelStale(W, R2), R2), CancelStale(W, R2))
    BY <2>4, StaleOK DEF SvcLike
  <2> QED BY <1>3b, <2>1, <2>2, <2>4, <2>5 DEF SvcLike
\* The service goes on to the next iteration, or has a frame in its hand.
<1>8. ASSUME NEW W, SvcLike(W, svc), NEW count, svc' = [W EXCEPT !.loop = "head", !.asked = count] \/ svc' = [W EXCEPT !.loop = "head"]
      PROVE  SvcOK(svc') /\ svc'.cmds = svc.cmds /\ svc'.wanted = svc.wanted
  <2>0. DOMAIN W = SvcFields
    BY <1>8 DEF SvcLike, SvcOK
  <2>1. /\ DOMAIN svc' = SvcFields /\ svc'.cmds = W.cmds /\ svc'.evals = W.evals /\ svc'.latest = W.latest /\ svc'.out = W.out
        /\ svc'.reset = W.reset /\ svc'.wanted = W.wanted
    BY <1>8, <2>0 DEF SvcFields
  <2>2. W.out.old = FALSE
    BY <1>0, <1>8 DEF SvcLike
  <2>3. SvcOK(W)
    BY <1>8 DEF SvcLike
  <2>4. SvcOK(svc')
    BY <2>1, <2>2, <2>3, SvcKept
  <2> QED BY <1>8, <2>1, <2>4 DEF SvcLike
<1>9. CASE rx' = R2 /\ svc' = [V EXCEPT !.loop = "head"]
  <2>1. SvcOK(svc') /\ svc'.cmds = svc.cmds /\ svc'.wanted = svc.wanted
    BY <1>7, <1>8, <1>9
  <2> QED BY <1>0, <1>6, <1>9, <2>1, OutAlike
<1>10. ASSUME NEW kind, NEW i, NEW count,
              rx' = Request(R2, kind, i), svc' = [DropStale(V, Request(R2, kind, i)) EXCEPT !.loop = "head", !.asked = count]
       PROVE  OwnedInv'
  <2>2. RxOK(rx') /\ rx'.acct = rx.acct
    BY <1>6, <1>10, RequestOK DEF RxSame
  <2>3. SvcLike(DropStale(V, Request(R2, kind, i)), svc)
    BY <1>7, StaleOK DEF SvcLike
  <2>4. SvcOK(svc') /\ svc'.cmds = svc.cmds /\ svc'.wanted = svc.wanted
    BY <1>8, <1>10, <2>3
  <2> QED BY <1>0, <2>2, <2>4, OutAlike
<1>11. ASSUME NEW g, NEW c, NEW u,
              rx' = R2, svc' = [V EXCEPT !.loop = "publish", !.out = [old |-> FALSE, gen |-> g, ctx |-> c, unlock |-> u]]
       PROVE  OwnedInv'
  <2>2. DOMAIN V = SvcFields /\ SvcOK(V)
    BY <1>7 DEF SvcLike, SvcOK
  <2>3. /\ DOMAIN svc' = SvcFields /\ svc'.cmds = V.cmds /\ svc'.evals = V.evals /\ svc'.latest = V.latest
        /\ svc'.out = [old |-> FALSE, gen |-> g, ctx |-> c, unlock |-> u] /\ svc'.reset = V.reset /\ svc'.wanted = V.wanted
    BY <1>11, <2>2 DEF SvcFields
  <2>4. DOMAIN svc'.out = {"old", "gen", "ctx", "unlock"} /\ svc'.out.old = FALSE
    BY <2>3
  <2>5. SvcOK(svc')
    BY <2>2, <2>3, <2>4 DEF SvcOK, FramesOK
  <2> QED BY <1>0, <1>6, <1>7, <1>11, <2>3, <2>5, OutAlike DEF SvcLike
<1>12. CASE rx' = Left(R1) /\ svc' = [Serving(R1) EXCEPT !.loop = "head"]
  BY <1>3, <1>9, <1>12
<1>13. CASE \E kind \in {"RAP1", "RAQ1", "RAG1"}, i \in Images :
             LET R3 == Request(Left(R1), kind, i)
                 count == svc.asked + (IF R3.owner # Left(R1).owner \/ R3.token # Left(R1).token THEN 1 ELSE 0)
             IN  /\ count <= MaxAsked
                 /\ rx' = R3 /\ svc' = [DropStale(Serving(R1), R3) EXCEPT !.loop = "head", !.asked = count]
  <2>1. PICK kind \in {"RAP1", "RAQ1", "RAG1"}, i \in Images :
             LET R3 == Request(Left(R1), kind, i)
                 count == svc.asked + (IF R3.owner # Left(R1).owner \/ R3.token # Left(R1).token THEN 1 ELSE 0)
             IN  /\ count <= MaxAsked
                 /\ rx' = R3 /\ svc' = [DropStale(Serving(R1), R3) EXCEPT !.loop = "head", !.asked = count]
    BY <1>13, Zenon
  <2>2. PICK count : count = svc.asked + (IF Request(R2, kind, i).owner # R2.owner \/ Request(R2, kind, i).token # R2.token THEN 1 ELSE 0)
    OBVIOUS
  <2>3. rx' = Request(R2, kind, i) /\ svc' = [DropStale(V, Request(R2, kind, i)) EXCEPT !.loop = "head", !.asked = count]
    BY <1>3, <2>1, <2>2
  <2> QED BY <1>10, <2>3
<1>14. CASE \E unlock \in BOOLEAN :
             /\ Left(R1).owner /\ Left(R1).watch # "none" /\ Left(R1).sent
             /\ rx' = Left(R1)
             /\ svc' = [Serving(R1) EXCEPT !.loop = "publish",
                           !.out = [old |-> FALSE, gen |-> Left(R1).gen, ctx |-> Left(R1).ctx,
                                    unlock |-> unlock /\ Left(R1).evaluator = Left(R1).gen]]
  <2>1. PICK unlock \in BOOLEAN :
             /\ rx' = Left(R1)
             /\ svc' = [Serving(R1) EXCEPT !.loop = "publish",
                           !.out = [old |-> FALSE, gen |-> Left(R1).gen, ctx |-> Left(R1).ctx,
                                    unlock |-> unlock /\ Left(R1).evaluator = Left(R1).gen]]
    BY <1>14
  <2>2. PICK u : u = (unlock /\ Left(R1).evaluator = Left(R1).gen)
    OBVIOUS
  <2>3. rx' = R2 /\ svc' = [V EXCEPT !.loop = "publish", !.out = [old |-> FALSE, gen |-> Left(R1).gen, ctx |-> Left(R1).ctx, unlock |-> u]]
    BY <1>3, <2>1, <2>2
  <2> QED BY <1>11, <2>3
<1> QED BY <1>2, <1>12, <1>13, <1>14, Zenon

\* A frame is published: one of before a reset is not.
LEMMA PublishStep == ASSUME OwnedInv, LoopPublish PROVE OwnedInv'
<1> USE DEF OwnedInv
<1>0. /\ svc.loop = "publish" /\ rx' = rx /\ ses' = ses /\ DOMAIN svc = SvcFields /\ svc.reset \in BOOLEAN
      /\ svc' = [Publish(svc) EXCEPT !.loop = "head", !.out = NoFrame] /\ IsSeq(svc.evals) /\ QueueOK(svc.cmds) /\ FramesOK(svc)
  BY DEF LoopPublish, SvcOK
<1>1. PICK W : W = Publish(svc)
  OBVIOUS
<1>2. ASSUME DOMAIN W = SvcFields, W.cmds = svc.cmds, W.wanted = svc.wanted, W.reset = svc.reset, IsSeq(W.evals),
             \A i \in 1 .. Len(W.evals) : W.evals[i].old = FALSE, W.latest.old = FALSE
      PROVE  OwnedInv'
  <2>1. svc' = [W EXCEPT !.loop = "head", !.out = NoFrame]
    BY <1>0, <1>1
  <2>2. /\ DOMAIN svc' = SvcFields /\ svc'.cmds = W.cmds /\ svc'.evals = W.evals /\ svc'.latest = W.latest /\ svc'.out = NoFrame
        /\ svc'.reset = W.reset /\ svc'.wanted = W.wanted
    BY <1>2, <2>1 DEF SvcFields
  <2>3. DOMAIN svc'.out = {"old", "gen", "ctx", "unlock"} /\ svc'.out.old = FALSE
    BY <2>2 DEF NoFrame
  <2>4. SvcOK(svc')
    BY <1>0, <1>2, <2>2, <2>3 DEF SvcOK, FramesOK
  <2> QED BY <1>0, <1>2, <2>2, <2>4
<1>3. CASE svc.reset = TRUE
  <2>1. W = svc
    BY <1>1, <1>3 DEF Publish
  <2> QED BY <1>0, <1>2, <2>1 DEF FramesOK
<1>4. CASE svc.reset = FALSE
  <2>0. svc.out.old = FALSE
    BY <1>0, <1>4 DEF FramesOK
  <2>n. NoFrame.old = FALSE
    BY DEF NoFrame
  <2>1. CASE W = [svc EXCEPT !.frameGen = svc.out.gen, !.latest = svc.out]
    <3>1. /\ DOMAIN W = SvcFields /\ W.cmds = svc.cmds /\ W.evals = svc.evals /\ W.latest = svc.out /\ W.reset = svc.reset
          /\ W.wanted = svc.wanted
      BY <1>0, <2>1 DEF SvcFields
    <3> QED BY <1>0, <1>2, <2>0, <3>1 DEF FramesOK
  <2>2. CASE \E e : W = [svc EXCEPT !.frameGen = svc.out.gen, !.latest = NoFrame, !.evals = e] /\ e \in {svc.evals, Append(svc.evals, svc.out)}
    <3>1. PICK e : W = [svc EXCEPT !.frameGen = svc.out.gen, !.latest = NoFrame, !.evals = e] /\ e \in {svc.evals, Append(svc.evals, svc.out)}
      BY <2>2
    <3>2. /\ DOMAIN W = SvcFields /\ W.cmds = svc.cmds /\ W.evals = e /\ W.latest = NoFrame /\ W.reset = svc.reset
          /\ W.wanted = svc.wanted
      BY <1>0, <3>1 DEF SvcFields
    <3>3. IsSeq(e) /\ \A i \in 1 .. Len(e) : e[i].old = FALSE
      <4>1. CASE e = svc.evals
        BY <1>0, <4>1 DEF FramesOK
      <4>2. CASE e = Append(svc.evals, svc.out)
        <5>1. /\ IsSeq(e) /\ Len(svc.evals) \in Nat /\ Len(e) = Len(svc.evals) + 1
              /\ \A i \in 1 .. Len(svc.evals) : e[i] = svc.evals[i]
              /\ e[Len(svc.evals) + 1] = svc.out
          BY <1>0, <4>2, AppendAny
        <5>2. \A i \in 1 .. Len(e) : i \in 1 .. Len(svc.evals) \/ i = Len(svc.evals) + 1
          BY <5>1
        <5> QED BY <1>0, <2>0, <5>1, <5>2 DEF FramesOK
      <4> QED BY <3>1, <4>1, <4>2
    <3> QED BY <1>2, <2>n, <3>2, <3>3
  <2>3. CASE svc.out.unlock
    <3>1. W = [svc EXCEPT !.frameGen = svc.out.gen, !.latest = NoFrame,
                          !.evals = IF Len(@) = FrameCapacity THEN @ ELSE Append(@, svc.out)]
      BY <1>1, <1>4, <2>3 DEF Publish
    <3>2. PICK e : e = IF Len(svc.evals) = FrameCapacity THEN svc.evals ELSE Append(svc.evals, svc.out)
      OBVIOUS
    <3>3. W = [svc EXCEPT !.frameGen = svc.out.gen, !.latest = NoFrame, !.evals = e] /\ e \in {svc.evals, Append(svc.evals, svc.out)}
      BY <3>1, <3>2
    <3> QED BY <2>2, <3>3
  <2>4. CASE ~svc.out.unlock
    BY <1>1, <1>4, <2>1, <2>4 DEF Publish
  <2> QED BY <2>3, <2>4
<1> QED BY <1>0, <1>3, <1>4

\* The resolver: it takes a job, answers, and leaves the answer for the loop.
LEMMA ResolverSteps == ASSUME OwnedInv, WorkerTakes \/ WorkerResolves \/ WorkerPuts PROVE OwnedInv'
<1> USE DEF OwnedInv
<1>0. DOMAIN svc = SvcFields
  BY DEF SvcOK
<1>1. ASSUME DOMAIN svc' = SvcFields, svc'.cmds = svc.cmds, svc'.evals = svc.evals, svc'.latest = svc.latest, svc'.out = svc.out,
             svc'.reset = svc.reset, svc'.loop = svc.loop, svc'.wanted = svc.wanted, rx' = rx, ses' = ses
      PROVE  OwnedInv'
  <2>1. SvcOK(svc')
    BY <1>1, SvcKept
  <2> QED BY <1>1, <2>1
<1>2. CASE WorkerTakes
  <2>1. /\ DOMAIN svc' = SvcFields /\ svc'.cmds = svc.cmds /\ svc'.evals = svc.evals /\ svc'.latest = svc.latest /\ svc'.out = svc.out
        /\ svc'.reset = svc.reset /\ svc'.loop = svc.loop /\ svc'.wanted = svc.wanted
    BY <1>0, <1>2 DEF WorkerTakes, SvcFields
  <2> QED BY <1>1, <1>2, <2>1 DEF WorkerTakes
<1>3. CASE WorkerResolves
  <2>1. PICK what : svc' = [svc EXCEPT !.worker = "put", !.active = NoJob, !.cancel = FALSE, !.saw = NoCtx,
                              !.found = [job |-> svc.active, what |-> what, ctx |-> IF what = "set" THEN svc.saw ELSE NoCtx]]
    BY <1>3 DEF WorkerResolves
  <2>2. /\ DOMAIN svc' = SvcFields /\ svc'.cmds = svc.cmds /\ svc'.evals = svc.evals /\ svc'.latest = svc.latest /\ svc'.out = svc.out
        /\ svc'.reset = svc.reset /\ svc'.loop = svc.loop /\ svc'.wanted = svc.wanted
    BY <1>0, <2>1 DEF SvcFields
  <2> QED BY <1>1, <1>3, <2>2 DEF WorkerResolves
<1>4. CASE WorkerPuts
  <2>1. /\ DOMAIN svc' = SvcFields /\ svc'.cmds = svc.cmds /\ svc'.evals = svc.evals /\ svc'.latest = svc.latest /\ svc'.out = svc.out
        /\ svc'.reset = svc.reset /\ svc'.loop = svc.loop /\ svc'.wanted = svc.wanted
    BY <1>0, <1>4 DEF WorkerPuts, SvcFields
  <2> QED BY <1>1, <1>4, <2>1 DEF WorkerPuts
<1> QED BY <1>2, <1>3, <1>4

\* reset: what was shown is gone, and the frame in the loop's hand is one of before.
LEMMA RevokeOK ==
  ASSUME NEW V, SvcOK(V), NEW W, W = Revoke(V)
  PROVE  SvcOK(W) /\ W.cmds = V.cmds /\ W.wanted = V.wanted /\ W.evals = <<>> /\ W.latest = NoFrame
<1>0. DOMAIN V = SvcFields /\ DOMAIN V.out = {"old", "gen", "ctx", "unlock"} /\ QueueOK(V.cmds)
  BY DEF SvcOK, FramesOK
<1>1. PICK D : D = Discard(V)
  OBVIOUS
<1>2. SvcLike(D, V) /\ D.evals = <<>> /\ D.latest = NoFrame
  BY <1>1, StaleOK
<1>3. DOMAIN D = SvcFields /\ D.cmds = V.cmds /\ D.wanted = V.wanted /\ D.loop = V.loop /\ D.out = V.out
  BY <1>2 DEF SvcLike, SvcOK
<1>4. W = [D EXCEPT !.reset = TRUE, !.cancel = @ \/ V.active # NoJob, !.out.old = V.loop = "publish", !.calls = @ + 1]
  BY <1>1 DEF Revoke
<1>5. /\ DOMAIN W = SvcFields /\ W.cmds = V.cmds /\ W.wanted = V.wanted /\ W.evals = <<>> /\ W.latest = NoFrame
      /\ W.reset = TRUE /\ W.loop = V.loop /\ W.out = [V.out EXCEPT !.old = V.loop = "publish"]
  BY <1>2, <1>3, <1>4 DEF SvcFields
<1>6. DOMAIN W.out = DOMAIN V.out /\ W.out.old = (V.loop = "publish")
  BY <1>0, <1>5
<1>7. SvcOK(W)
  BY <1>0, <1>5, <1>6, SvcDropped
<1> QED BY <1>5, <1>7

LEMMA RevokeSteps == ASSUME OwnedInv, ServiceReset \/ ServiceStop \/ ClearAccount PROVE OwnedInv'
<1> USE DEF OwnedInv
<1>0. rx' = rx /\ ses' = ses
  BY DEF ServiceReset, ServiceStop, ClearAccount
<1>1. PICK W : W = Revoke(svc)
  OBVIOUS
<1>2. SvcOK(W) /\ W.cmds = svc.cmds /\ W.wanted = svc.wanted /\ W.evals = <<>> /\ W.latest = NoFrame
  BY <1>1, RevokeOK
<1>2a. DOMAIN W = SvcFields /\ QueueOK(svc.cmds)
  BY <1>2 DEF SvcOK
<1>3. CASE ServiceReset
  <2>1. svc' = W
    BY <1>1, <1>3 DEF ServiceReset
  <2> QED BY <1>0, <1>2, <2>1
<1>4. CASE ServiceStop
  <2>1. svc' = [W EXCEPT !.stop = TRUE]
    BY <1>1, <1>4 DEF ServiceStop
  <2>2. /\ DOMAIN svc' = SvcFields /\ svc'.cmds = W.cmds /\ svc'.evals = W.evals /\ svc'.latest = W.latest /\ svc'.out = W.out
        /\ svc'.reset = W.reset /\ svc'.loop = W.loop /\ svc'.wanted = W.wanted
    BY <1>2a, <2>1 DEF SvcFields
  <2>3. SvcOK(svc')
    BY <1>2, <2>2, SvcKept
  <2> QED BY <1>0, <1>2, <2>2, <2>3
<1>5. CASE ClearAccount
  <2>1. PICK forget \in BOOLEAN :
          svc' = [W EXCEPT !.account = [user |-> "none", epoch |-> @.epoch + 1],
                           !.cmds = Append(@, [kind |-> "clear", forget |-> forget]), !.wanted = IF forget THEN "forgotten" ELSE "out"]
    BY <1>1, <1>5 DEF ClearAccount
  <2>2. PICK c, w : c = [kind |-> "clear", forget |-> forget] /\ w = IF forget THEN "forgotten" ELSE "out"
    OBVIOUS
  <2>3. /\ DOMAIN svc' = SvcFields /\ svc'.cmds = Append(svc.cmds, c) /\ svc'.evals = W.evals /\ svc'.latest = W.latest
        /\ svc'.out = W.out /\ svc'.reset = W.reset /\ svc'.loop = W.loop /\ svc'.wanted = w
    BY <1>2, <1>2a, <2>1, <2>2 DEF SvcFields
  <2>4. CmdOK(c) /\ c.kind = "clear" /\ (w = "forgotten" => c.forget)
    BY <2>2 DEF CmdOK, Kinds
  <2>5. QueueOK(Append(svc.cmds, c)) /\ WillBeOut(Append(svc.cmds, c), w, rx, ses)
    BY <1>2a, <2>4, QueueGrows
  <2>6. SvcOK(svc')
    BY <1>2, <2>3, <2>5 DEF SvcOK, FramesOK
  <2> QED BY <1>0, <2>3, <2>5, <2>6
<1> QED BY <1>3, <1>4, <1>5

\* run_account: a login is what the owner wants; anything else waits behind what is wanted already.
LEMMA CallerSteps == ASSUME OwnedInv, RunBegin \/ TaskEnds PROVE OwnedInv'
<1> USE DEF OwnedInv
<1>0. rx' = rx /\ ses' = ses /\ DOMAIN svc = SvcFields /\ QueueOK(svc.cmds)
  BY DEF RunBegin, TaskEnds, SvcOK
<1>1. ASSUME NEW c, CmdOK(c), NEW w, (Quiet(c) /\ w = svc.wanted) \/ w = "in",
             DOMAIN svc' = SvcFields, svc'.cmds = Append(svc.cmds, c), svc'.evals = svc.evals, svc'.latest = svc.latest,
             svc'.out = svc.out, svc'.reset = svc.reset, svc'.loop = svc.loop, svc'.wanted = w
      PROVE  OwnedInv'
  <2>1. QueueOK(Append(svc.cmds, c)) /\ WillBeOut(Append(svc.cmds, c), w, rx, ses)
    BY <1>0, <1>1, QueueGrows
  <2>2. SvcOK(svc')
    BY <1>1, <2>1 DEF SvcOK, FramesOK
  <2> QED BY <1>0, <1>1, <2>1, <2>2
<1>2. CASE RunBegin
  <2>1. PICK op : svc' = [svc EXCEPT !.cmds = Append(@, [kind |-> "begin", op |-> op]), !.calls = @ + 1,
                                     !.wanted = IF op = "login" THEN "in" ELSE @]
    BY <1>2 DEF RunBegin
  <2>2. PICK c, w : c = [kind |-> "begin", op |-> op] /\ w = IF op = "login" THEN "in" ELSE svc.wanted
    OBVIOUS
  <2>3. CmdOK(c) /\ ((Quiet(c) /\ w = svc.wanted) \/ w = "in")
    BY <2>2 DEF CmdOK, Kinds, Quiet
  <2>4. /\ DOMAIN svc' = SvcFields /\ svc'.cmds = Append(svc.cmds, c) /\ svc'.evals = svc.evals /\ svc'.latest = svc.latest
        /\ svc'.out = svc.out /\ svc'.reset = svc.reset /\ svc'.loop = svc.loop /\ svc'.wanted = w
    BY <1>0, <2>1, <2>2 DEF SvcFields
  <2> QED BY <1>1, <2>3, <2>4
<1>3. CASE TaskEnds
  <2>1. PICK t, user, remember : svc' = [svc EXCEPT !.cmds = Append(@, [kind |-> "accept", task |-> t, user |-> user, remember |-> remember])]
    BY <1>3 DEF TaskEnds
  <2>2. PICK c : c = [kind |-> "accept", task |-> t, user |-> user, remember |-> remember]
    OBVIOUS
  <2>3. CmdOK(c) /\ Quiet(c)
    BY <2>2 DEF CmdOK, Kinds, Quiet
  <2>4. /\ DOMAIN svc' = SvcFields /\ svc'.cmds = Append(svc.cmds, c) /\ svc'.evals = svc.evals /\ svc'.latest = svc.latest
        /\ svc'.out = svc.out /\ svc'.reset = svc.reset /\ svc'.loop = svc.loop /\ svc'.wanted = svc.wanted
    BY <1>0, <2>1, <2>2 DEF SvcFields
  <2> QED BY <1>1, <2>3, <2>4
<1> QED BY <1>2, <1>3

\* take_evaluation hands out the oldest unlock, or the latest frame.
LEMMA TakeStep == ASSUME OwnedInv, TakeEvaluation PROVE OwnedInv'
<1> USE DEF OwnedInv
<1>0. rx' = rx /\ ses' = ses /\ DOMAIN svc = SvcFields /\ IsSeq(svc.evals) /\ FramesOK(svc)
  BY DEF TakeEvaluation, SvcOK
<1>1. CASE svc.evals # <<>> /\ svc' = [svc EXCEPT !.evals = Tail(@)]
  <2>1. /\ DOMAIN svc' = SvcFields /\ svc'.cmds = svc.cmds /\ svc'.evals = Tail(svc.evals) /\ svc'.latest = svc.latest
        /\ svc'.out = svc.out /\ svc'.reset = svc.reset /\ svc'.loop = svc.loop /\ svc'.wanted = svc.wanted
    BY <1>0, <1>1 DEF SvcFields
  <2>2. /\ IsSeq(Tail(svc.evals)) /\ Len(svc.evals) \in Nat /\ Len(Tail(svc.evals)) = Len(svc.evals) - 1
        /\ \A i \in 1 .. Len(Tail(svc.evals)) : Tail(svc.evals)[i] = svc.evals[i + 1]
    BY <1>0, <1>1, TailAny
  <2>3. \A i \in 1 .. Len(Tail(svc.evals)) : Tail(svc.evals)[i].old = FALSE
    BY <1>0, <2>2 DEF FramesOK
  <2>4. SvcOK(svc')
    BY <2>1, <2>2, <2>3 DEF SvcOK, FramesOK
  <2> QED BY <1>0, <2>1, <2>4
<1>2. CASE svc' = [svc EXCEPT !.latest = NoFrame]
  <2>1. /\ DOMAIN svc' = SvcFields /\ svc'.cmds = svc.cmds /\ svc'.evals = svc.evals /\ svc'.latest = NoFrame
        /\ svc'.out = svc.out /\ svc'.reset = svc.reset /\ svc'.loop = svc.loop /\ svc'.wanted = svc.wanted
    BY <1>0, <1>2 DEF SvcFields
  <2>2. svc'.latest.old = FALSE
    BY <2>1 DEF NoFrame
  <2>3. SvcOK(svc')
    BY <2>1, <2>2 DEF SvcOK, FramesOK
  <2> QED BY <1>0, <2>1, <2>3
<1> QED BY <1>1, <1>2 DEF TakeEvaluation

\* A receiver and a session that nobody has used.
LEMMA NewOK ==
  ASSUME NEW store, NEW S, S = [NewSession EXCEPT !.store = store]
  PROVE  RxOK(NewReceiver) /\ DOMAIN S = SesFields /\ SignedOut(NewReceiver, S) /\ S.store = store
<1>1. /\ DOMAIN NewReceiver = RxFields /\ NewReceiver.gen = 2 /\ NewReceiver.pending = NoJob /\ NewReceiver.ctx = NoCtx
      /\ NewReceiver.acct = NoAcct
  BY DEF NewReceiver, RxFields
<1>2. RxOK(NewReceiver)
  BY <1>1 DEF RxOK
<1>3. DOMAIN S = SesFields /\ S.user = "none" /\ S.pending = NoTask /\ S.store = store
  BY DEF NewSession, SesFields
<1> QED BY <1>1, <1>2, <1>3 DEF SignedOut

\* start: nobody is signed in yet, and the stored token is as it was left.
LEMMA StartStep == ASSUME OwnedInv, ServiceStart PROVE OwnedInv'
<1> USE DEF OwnedInv
<1>0. /\ svc.loop = "dead" /\ rx' = NewReceiver /\ ses' = [NewSession EXCEPT !.store = ses.store] /\ svc.out.old = FALSE
      /\ DOMAIN svc = SvcFields /\ QueueOK(svc.cmds)
  BY DEF ServiceStart, SvcOK, FramesOK
<1>1. PICK D : D = Discard(svc)
  OBVIOUS
<1>2. SvcLike(D, svc) /\ D.evals = <<>> /\ D.latest = NoFrame
  BY <1>1, StaleOK
<1>3. DOMAIN D = SvcFields /\ D.cmds = svc.cmds /\ D.wanted = svc.wanted /\ D.out = svc.out
  BY <1>2 DEF SvcLike, SvcOK
<1>4. svc' = [D EXCEPT !.loop = "head", !.stop = FALSE, !.reset = FALSE, !.jobs = <<>>, !.results = <<>>, !.runs = @ + 1]
  BY <1>1 DEF ServiceStart
<1>5. /\ DOMAIN svc' = SvcFields /\ svc'.cmds = svc.cmds /\ svc'.evals = <<>> /\ svc'.latest = NoFrame /\ svc'.out = svc.out
      /\ svc'.reset = FALSE /\ svc'.wanted = svc.wanted
  BY <1>2, <1>3, <1>4 DEF SvcFields
<1>6. SvcOK(svc')
  BY <1>0, <1>5, SvcDropped
<1>7. RxOK(rx') /\ DOMAIN ses' = SesFields /\ SignedOut(rx', ses') /\ ses'.store = ses.store
  BY <1>0, NewOK
<1>8. WillBeOut(svc.cmds, svc.wanted, rx', ses')
  BY <1>7 DEF WillBeOut
<1> QED BY <1>5, <1>6, <1>7, <1>8

\* What the receiver evaluates is of the account that is signed in and the image that was asked about;
\* what a caller is handed is not of before its reset; who logged out is out when the queue is empty:
\* for any images, accounts, capacities and any number of calls, jobs and restarts (ra_owned_service.py,
\* ra_receiver.py, ra_evaluated_receiver.py, ra_account_worker.py).
THEOREM BoundToTheAccount == RaSpec => []AccountBound
<1>1. RaInit => OwnedInv
  <2> SUFFICES ASSUME RaInit PROVE OwnedInv
    OBVIOUS
  <2>1. NewSession = [NewSession EXCEPT !.store = "none"]
    BY DEF NewSession
  <2>2. RxOK(rx) /\ DOMAIN ses = SesFields /\ SignedOut(rx, ses)
    BY <2>1, NewOK DEF RaInit
  <2>3. /\ DOMAIN svc = SvcFields /\ svc.cmds = <<>> /\ svc.evals = <<>> /\ svc.latest = NoFrame /\ svc.out = NoFrame
        /\ svc.reset = FALSE /\ svc.wanted = "out"
    BY DEF RaInit, SvcFields
  <2>4. DOMAIN NoFrame = {"old", "gen", "ctx", "unlock"} /\ NoFrame.old = FALSE
    BY DEF NoFrame
  <2>5. IsSeq(<<>>) /\ Len(<<>>) = 0 /\ QueueOK(<<>>)
    BY EmptyAny DEF QueueOK
  <2>6. SvcOK(svc)
    <3>1. Len(svc.evals) = 0 /\ IsSeq(svc.evals) /\ QueueOK(svc.cmds)
      BY <2>3, <2>5
    <3>2. DOMAIN svc.out = {"old", "gen", "ctx", "unlock"} /\ svc.out.old = FALSE /\ svc.latest.old = FALSE
      BY <2>3, <2>4
    <3>3. FramesOK(svc)
      <4>1. \A i \in 1 .. Len(svc.evals) : svc.evals[i].old = FALSE
        BY <3>1
      <4>2. svc.out.old \in BOOLEAN /\ (svc.out.old = TRUE => svc.reset = TRUE /\ svc.loop = "publish")
        BY <3>2
      <4> QED BY <3>2, <4>1, <4>2 DEF FramesOK
    <3> QED BY <2>3, <3>1, <3>3 DEF SvcOK
  <2>7. WillBeOut(svc.cmds, svc.wanted, rx, ses)
    BY <2>2, <2>3, <2>5 DEF WillBeOut
  <2> QED BY <2>2, <2>6, <2>7 DEF OwnedInv
<1>2. OwnedInv /\ [RaNext]_raVars => OwnedInv'
  <2> SUFFICES ASSUME OwnedInv, [RaNext]_raVars PROVE OwnedInv'
    OBVIOUS
  <2>1. CASE LoopHead
    BY <2>1, HeadStep
  <2>2. CASE LoopWork
    BY <2>2, WorkStep
  <2>3. CASE LoopPublish
    BY <2>3, PublishStep
  <2>4. CASE LoopEnds
    BY <2>4, EndStep
  <2>5. CASE WorkerTakes \/ WorkerResolves \/ WorkerPuts
    BY <2>5, ResolverSteps
  <2>6. CASE ServiceReset \/ ServiceStop \/ ClearAccount
    BY <2>6, RevokeSteps
  <2>7. CASE RunBegin \/ TaskEnds
    BY <2>7, CallerSteps
  <2>8. CASE TakeEvaluation
    BY <2>8, TakeStep
  <2>9. CASE ServiceStart
    BY <2>9, StartStep
  <2>10. CASE UNCHANGED raVars
    BY <2>10 DEF raVars, OwnedInv
  <2> QED BY <2>1, <2>2, <2>3, <2>4, <2>5, <2>6, <2>7, <2>8, <2>9, <2>10 DEF RaNext
<1>3. OwnedInv => AccountBound
  <2> SUFFICES ASSUME OwnedInv PROVE AccountBound
    OBVIOUS
  <2>1. FramesOK(svc) /\ IsSeq(svc.evals)
    BY DEF OwnedInv, SvcOK
  <2>2. NothingFromBefore
    <3>1. \A x \in ToSet(svc.evals) : \E i \in 1 .. Len(svc.evals) : x = svc.evals[i]
      BY <2>1 DEF ToSet, IsSeq
    <3> QED BY <2>1, <3>1 DEF NothingFromBefore, FramesOK
  <2>3. SetIsCurrent
    BY DEF OwnedInv, RxOK, SetIsCurrent
  <2>4. LoggedOutStaysOut
    <3>1. Len(<<>>) = 0
      OBVIOUS
    <3> QED BY <3>1 DEF OwnedInv, WillBeOut, SignedOut, LoggedOutStaysOut
  <2> QED BY <2>2, <2>3, <2>4 DEF AccountBound
<1> QED BY <1>1, <1>2, <1>3, PTL DEF RaSpec

-----------------------------------------------------------------------------
(* Launcher: no server process is lost, no setting survives a factory reset. *)

LaunchFields == {"launches", "phase", "successor", "admin", "reset", "stage", "proc", "kids", "checks", "applies", "jobs",
                 "cache", "saved", "last", "auto", "ignore", "rules", "killed", "goal", "file"}
FileFields == {"exists", "active", "cache", "pend", "auto", "ignore"}
ProcStates == {"none", "live", "dead"}

\* A start that is to be continued is of a server that did not run.
FileOK(f) ==
  /\ DOMAIN f = FileFields /\ f.exists \in BOOLEAN /\ f.pend \in Pendings
  /\ \A k \in ServerKeys : f.pend = Start(k) => f.exists = TRUE /\ k \notin f.active

LaunchTyped(S) ==
  /\ DOMAIN S = LaunchFields /\ S.phase \in {"up", "closing", "down"} /\ S.stage \in {"pending", "auto", "starting", "ready"}
  /\ S.proc \in [ServerKeys -> ProcStates] /\ S.kids \in [ServerKeys -> Nat]
  /\ S.checks \in [ServerKeys -> Nat] /\ S.applies \in [ServerKeys -> Nat]
  /\ S.reset \in BOOLEAN /\ S.killed \in BOOLEAN /\ FileOK(S.file) /\ S.saved \in Pendings /\ S.last \subseteq ServerKeys
  /\ S.file.active \subseteq ServerKeys

\* The card has the only process of its server, unless an instance was killed.
ChildOK(S, k) ==
  /\ S.proc[k] = "live" => S.kids[k] >= 1
  /\ S.killed = FALSE => S.kids[k] = (IF S.proc[k] = "live" THEN 1 ELSE 0)

\* A card has one flow at most, and then no process; a server the autostart will start has neither.
FlowOK(S, k) ==
  /\ S.checks[k] + S.applies[k] <= 1
  /\ S.checks[k] + S.applies[k] = 1 => S.proc[k] # "live" /\ S.phase = "up" /\ S.stage # "pending" /\ k \notin S.last

\* Before the first timer nothing runs, and what is to be continued is not started again by the second.
StageOK(S, k) ==
  /\ S.phase = "up" /\ S.stage = "pending" => S.proc[k] # "live" /\ (S.saved = Start(k) => k \notin S.last)
  /\ S.phase = "up" /\ S.stage = "ready" => k \notin S.last
  /\ S.phase = "down" => S.proc[k] # "live"

LaunchOK(S) ==
  /\ LaunchTyped(S)
  /\ \A k \in ServerKeys : ChildOK(S, k) /\ FlowOK(S, k) /\ StageOK(S, k)
  /\ S.reset = TRUE => S.file.exists = FALSE

\* A server that may be started.
Startable(S, k) ==
  /\ LaunchOK(S) /\ k \in ServerKeys /\ S.phase = "up" /\ S.stage # "pending"
  /\ S.proc[k] # "live" /\ S.checks[k] = 0 /\ S.applies[k] = 0 /\ k \notin S.last

-----------------------------------------------------------------------------
LEMMA PendingsDiffer ==
  /\ NoPending \in Pendings /\ <<"allow">> \in Pendings /\ <<"cleanup">> \in Pendings
  /\ \A k \in ServerKeys : Start(k) \in Pendings /\ Start(k) # NoPending /\ Start(k) # <<"allow">> /\ Start(k) # <<"cleanup">>
  /\ NoPending # <<"allow">> /\ NoPending # <<"cleanup">> /\ <<"allow">> # <<"cleanup">>
  /\ \A k, j \in ServerKeys : Start(k) = Start(j) => k = j
  /\ \A k \in ServerKeys : Start(k)[2] = k
BY DEF Pendings, NoPending, Start

\* _save changes the file alone.
LEMMA SaveOK ==
  ASSUME NEW S, LaunchOK(S), NEW pend \in Pendings, \A k \in ServerKeys : pend = Start(k) => S.proc[k] # "live",
         NEW N, N = Save(S, pend)
  PROVE  /\ LaunchOK(N)
         /\ N.phase = S.phase /\ N.stage = S.stage /\ N.proc = S.proc /\ N.kids = S.kids /\ N.checks = S.checks
         /\ N.applies = S.applies /\ N.last = S.last /\ N.reset = S.reset /\ N.killed = S.killed
<1>1. CASE S.reset = TRUE
  BY <1>1 DEF Save
<1>2. CASE S.reset = FALSE
  <2>0. LaunchTyped(S) /\ DOMAIN S = LaunchFields
    BY DEF LaunchOK, LaunchTyped
  <2>1. PICK f : f = [exists |-> TRUE, active |-> Live(S), cache |-> S.cache, pend |-> pend, auto |-> S.auto, ignore |-> S.ignore]
    OBVIOUS
  <2>2. N = [S EXCEPT !.file = f]
    BY <1>2, <2>1 DEF Save
  <2>3. /\ DOMAIN N = LaunchFields /\ N.file = f
        /\ N.phase = S.phase /\ N.stage = S.stage /\ N.proc = S.proc /\ N.kids = S.kids /\ N.checks = S.checks
        /\ N.applies = S.applies /\ N.last = S.last /\ N.reset = S.reset /\ N.killed = S.killed /\ N.saved = S.saved
    BY <2>0, <2>2 DEF LaunchFields
  <2>4. DOMAIN f = FileFields /\ f.exists = TRUE /\ f.pend = pend /\ f.active = Live(S)
    BY <2>1 DEF FileFields
  <2>5. FileOK(f) /\ f.active \subseteq ServerKeys
    BY <2>4 DEF FileOK, Live
  <2>6. LaunchTyped(N)
    BY <2>0, <2>3, <2>5 DEF LaunchTyped
  <2>7. \A k \in ServerKeys : ChildOK(N, k) /\ FlowOK(N, k) /\ StageOK(N, k)
    BY <2>3 DEF LaunchOK, ChildOK, FlowOK, StageOK
  <2> QED BY <1>2, <2>3, <2>6, <2>7 DEF LaunchOK
<1> QED BY <1>1, <1>2 DEF LaunchOK, LaunchTyped

LEMMA SaveNone ==
  ASSUME NEW S, LaunchOK(S), NEW N, N = Save(S, NoPending)
  PROVE  /\ LaunchOK(N)
         /\ N.phase = S.phase /\ N.stage = S.stage /\ N.proc = S.proc /\ N.kids = S.kids /\ N.checks = S.checks
         /\ N.applies = S.applies /\ N.last = S.last /\ N.reset = S.reset /\ N.killed = S.killed
<1>1. NoPending \in Pendings /\ \A k \in ServerKeys : NoPending = Start(k) => S.proc[k] # "live"
  BY PendingsDiffer
<1> QED BY <1>1, SaveOK

\* Everything else of a state stays; only what the properties do not look at may change.
LaunchAlike(N, S) ==
  /\ DOMAIN N = LaunchFields /\ N.phase = S.phase /\ N.stage = S.stage /\ N.proc = S.proc /\ N.kids = S.kids /\ N.checks = S.checks
  /\ N.applies = S.applies /\ N.last = S.last /\ N.reset = S.reset /\ N.killed = S.killed /\ N.file = S.file /\ N.saved = S.saved

LEMMA AlikeOK == ASSUME NEW S, LaunchOK(S), NEW N, LaunchAlike(N, S) PROVE LaunchOK(N)
<1>1. LaunchTyped(N)
  BY DEF LaunchOK, LaunchTyped, LaunchAlike
<1>2. \A k \in ServerKeys : ChildOK(N, k) /\ FlowOK(N, k) /\ StageOK(N, k)
  BY DEF LaunchOK, ChildOK, FlowOK, StageOK, LaunchAlike
<1> QED BY <1>1, <1>2 DEF LaunchOK, LaunchAlike

\* The first half of a shutdown: the flows under way are not heard of any more.
LEMMA CloseOK ==
  ASSUME NEW S, LaunchOK(S), S.phase # "down", NEW successor, NEW N, N = Close(S, successor)
  PROVE  LaunchOK(N)
<1>0. LaunchTyped(S) /\ DOMAIN S = LaunchFields
  BY DEF LaunchOK, LaunchTyped
<1>1. /\ DOMAIN N = LaunchFields /\ N.phase = "closing" /\ N.stage = S.stage /\ N.proc = S.proc /\ N.kids = S.kids /\ N.checks = Idle
      /\ N.applies = Idle /\ N.last = S.last /\ N.reset = S.reset /\ N.killed = S.killed /\ N.file = S.file /\ N.saved = S.saved
  BY <1>0 DEF Close, LaunchFields
<1>2. Idle \in [ServerKeys -> Nat] /\ \A k \in ServerKeys : Idle[k] = 0
  BY DEF Idle
<1>3. LaunchTyped(N)
  BY <1>0, <1>1, <1>2 DEF LaunchTyped
<1>4. \A k \in ServerKeys : ChildOK(N, k) /\ FlowOK(N, k) /\ StageOK(N, k)
  BY <1>1, <1>2 DEF LaunchOK, ChildOK, FlowOK, StageOK
<1> QED BY <1>1, <1>3, <1>4 DEF LaunchOK

\* relaunch_as_admin
LEMMA RelaunchOK ==
  ASSUME NEW S, LaunchOK(S), S.phase = "up", NEW pend \in Pendings, \A k \in ServerKeys : pend = Start(k) => S.proc[k] # "live",
         NEW N \in Relaunch(S, pend)
  PROVE  LaunchOK(N)
<1>1. PICK T : T = Save(S, pend)
  OBVIOUS
<1>2. LaunchOK(T) /\ T.phase = "up"
  BY <1>1, SaveOK
<1>3. LaunchOK(Close(T, "elevated"))
  BY <1>2, CloseOK
<1>4. LaunchOK(Save(S, NoPending))
  BY SaveNone
<1> QED BY <1>1, <1>3, <1>4 DEF Relaunch

\* _launch_server: the card has no process, so none is lost.
LEMMA LaunchServerOK ==
  ASSUME NEW S, NEW k, Startable(S, k), NEW N \in LaunchServer(S, k)
  PROVE  LaunchOK(N)
<1>0. LaunchOK(S) /\ LaunchTyped(S) /\ DOMAIN S = LaunchFields /\ k \in ServerKeys
  BY DEF Startable, LaunchOK, LaunchTyped
<1>1. CASE N = S
  BY <1>0, <1>1
<1>2. CASE N = Save([S EXCEPT !.proc[k] = "live", !.kids[k] = @ + 1], NoPending)
  <2>1. PICK T : T = [S EXCEPT !.proc[k] = "live", !.kids[k] = @ + 1]
    OBVIOUS
  <2>2. /\ DOMAIN T = LaunchFields /\ T.phase = S.phase /\ T.stage = S.stage /\ T.proc = [S.proc EXCEPT ![k] = "live"]
        /\ T.kids = [S.kids EXCEPT ![k] = @ + 1] /\ T.checks = S.checks
        /\ T.applies = S.applies /\ T.last = S.last /\ T.reset = S.reset /\ T.killed = S.killed /\ T.file = S.file /\ T.saved = S.saved
    BY <1>0, <2>1 DEF LaunchFields
  <2>3. S.proc \in [ServerKeys -> ProcStates] /\ S.kids \in [ServerKeys -> Nat]
    BY <1>0 DEF LaunchTyped
  <2>4. T.proc \in [ServerKeys -> ProcStates] /\ T.kids \in [ServerKeys -> Nat]
    BY <1>0, <2>2, <2>3 DEF ProcStates
  <2>5. LaunchTyped(T)
    BY <1>0, <2>2, <2>4 DEF LaunchTyped
  <2>6. ASSUME NEW j \in ServerKeys PROVE ChildOK(T, j) /\ FlowOK(T, j) /\ StageOK(T, j)
    <3>1. ChildOK(S, j) /\ FlowOK(S, j) /\ StageOK(S, j)
      BY <1>0 DEF LaunchOK
    <3>2. CASE j = k
      <4>1. T.proc[k] = "live" /\ T.kids[k] = S.kids[k] + 1 /\ S.kids[k] \in Nat
        BY <1>0, <2>2, <2>3
      <4>2. /\ S.phase = "up" /\ S.stage # "pending" /\ S.proc[k] # "live" /\ S.checks[k] = 0 /\ S.applies[k] = 0 /\ k \notin S.last
        BY DEF Startable
      <4> QED BY <2>2, <3>1, <3>2, <4>1, <4>2 DEF ChildOK, FlowOK, StageOK
    <3>3. CASE j # k
      <4>1. T.proc[j] = S.proc[j] /\ T.kids[j] = S.kids[j]
        BY <2>2, <2>3, <3>3
      <4> QED BY <2>2, <3>1, <4>1 DEF ChildOK, FlowOK, StageOK
    <3> QED BY <3>2, <3>3
  <2>7. LaunchOK(T)
    BY <1>0, <2>2, <2>5, <2>6 DEF LaunchOK
  <2> QED BY <1>2, <2>1, <2>7, SaveNone
<1> QED BY <1>1, <1>2 DEF LaunchServer

\* _handle_windows_setup_check, and start_server
LEMMA HandleCheckOK ==
  ASSUME NEW S, NEW k, Startable(S, k), NEW needed, NEW clean, NEW N \in HandleCheck(S, k, needed, clean)
  PROVE  LaunchOK(N)
<1>1. PICK T : T = IF clean THEN Remember(S, k) ELSE S
  OBVIOUS
<1>2. Startable(T, k)
  <2>1. CASE T = S
    BY <2>1
  <2>2. CASE T = Save([S EXCEPT !.cache = @ \cup {k}], NoPending)
    <3>1. PICK U : U = [S EXCEPT !.cache = @ \cup {k}]
      OBVIOUS
    <3>2. LaunchAlike(U, S)
      BY <3>1 DEF LaunchAlike, Startable, LaunchOK, LaunchTyped, LaunchFields
    <3>3. LaunchOK(U)
      BY <3>2, AlikeOK DEF Startable
    <3>4. /\ LaunchOK(T) /\ T.phase = U.phase /\ T.stage = U.stage /\ T.proc = U.proc /\ T.checks = U.checks
          /\ T.applies = U.applies /\ T.last = U.last
      BY <2>2, <3>1, <3>3, SaveNone
    <3> QED BY <3>2, <3>4 DEF Startable, LaunchAlike
  <2> QED BY <1>1, <2>1, <2>2 DEF Remember
<1>3. CASE N = T
  BY <1>2, <1>3 DEF Startable
<1>4. CASE N \in LaunchServer(T, k)
  BY <1>2, <1>4, LaunchServerOK
<1>5. CASE N \in Relaunch(T, Start(k))
  <2>1. \A j \in ServerKeys : Start(k) = Start(j) => T.proc[j] # "live"
    BY <1>2, PendingsDiffer DEF Startable
  <2> QED BY <1>2, <1>5, <2>1, RelaunchOK, PendingsDiffer DEF Startable
<1>6. CASE N = [T EXCEPT !.applies[k] = @ + 1]
  <2>0. LaunchOK(T) /\ LaunchTyped(T) /\ DOMAIN T = LaunchFields /\ k \in ServerKeys
    BY <1>2 DEF Startable, LaunchOK, LaunchTyped
  <2>2. /\ DOMAIN N = LaunchFields /\ N.phase = T.phase /\ N.stage = T.stage /\ N.proc = T.proc
        /\ N.applies = [T.applies EXCEPT ![k] = @ + 1] /\ N.checks = T.checks /\ N.kids = T.kids
        /\ N.last = T.last /\ N.reset = T.reset /\ N.killed = T.killed /\ N.file = T.file /\ N.saved = T.saved
    BY <1>6, <2>0 DEF LaunchFields
  <2>3. T.applies \in [ServerKeys -> Nat]
    BY <2>0 DEF LaunchTyped
  <2>4. N.applies \in [ServerKeys -> Nat] /\ N.applies[k] = T.applies[k] + 1 /\ \A j \in ServerKeys \ {k} : N.applies[j] = T.applies[j]
    BY <2>0, <2>2, <2>3
  <2>5. LaunchTyped(N)
    BY <2>0, <2>2, <2>4 DEF LaunchTyped
  <2>6. ASSUME NEW j \in ServerKeys PROVE ChildOK(N, j) /\ FlowOK(N, j) /\ StageOK(N, j)
    <3>1. ChildOK(T, j) /\ FlowOK(T, j) /\ StageOK(T, j)
      BY <2>0 DEF LaunchOK
    <3>2. /\ T.phase = "up" /\ T.stage # "pending" /\ T.proc[k] # "live" /\ T.checks[k] = 0 /\ T.applies[k] = 0 /\ k \notin T.last
      BY <1>2 DEF Startable
    <3>3. CASE j = k
      BY <2>2, <2>4, <3>1, <3>2, <3>3 DEF ChildOK, FlowOK, StageOK
    <3>4. CASE j # k
      BY <2>2, <2>4, <3>1, <3>4 DEF ChildOK, FlowOK, StageOK
    <3> QED BY <3>3, <3>4
  <2> QED BY <2>0, <2>2, <2>5, <2>6 DEF LaunchOK
<1> QED BY <1>1, <1>3, <1>4, <1>5, <1>6 DEF HandleCheck

LEMMA StartServerOK ==
  ASSUME NEW S, NEW k, Startable(S, k), NEW N \in StartServer(S, k)
  PROVE  LaunchOK(N)
<1>1. CASE N = S
  BY <1>1 DEF Startable
<1>2. CASE N \in HandleCheck(S, k, FALSE, TRUE)
  BY <1>2, HandleCheckOK
<1>3. CASE N \in LaunchServer(S, k)
  BY <1>3, LaunchServerOK
<1>4. CASE N = [S EXCEPT !.checks[k] = @ + 1]
  <2>0. LaunchOK(S) /\ LaunchTyped(S) /\ DOMAIN S = LaunchFields /\ k \in ServerKeys
    BY DEF Startable, LaunchOK, LaunchTyped
  <2>2. /\ DOMAIN N = LaunchFields /\ N.phase = S.phase /\ N.stage = S.stage /\ N.proc = S.proc
        /\ N.checks = [S.checks EXCEPT ![k] = @ + 1] /\ N.applies = S.applies /\ N.kids = S.kids
        /\ N.last = S.last /\ N.reset = S.reset /\ N.killed = S.killed /\ N.file = S.file /\ N.saved = S.saved
    BY <1>4, <2>0 DEF LaunchFields
  <2>3. S.checks \in [ServerKeys -> Nat]
    BY <2>0 DEF LaunchTyped
  <2>4. N.checks \in [ServerKeys -> Nat] /\ N.checks[k] = S.checks[k] + 1 /\ \A j \in ServerKeys \ {k} : N.checks[j] = S.checks[j]
    BY <2>0, <2>2, <2>3
  <2>5. LaunchTyped(N)
    BY <2>0, <2>2, <2>4 DEF LaunchTyped
  <2>6. ASSUME NEW j \in ServerKeys PROVE ChildOK(N, j) /\ FlowOK(N, j) /\ StageOK(N, j)
    <3>1. ChildOK(S, j) /\ FlowOK(S, j) /\ StageOK(S, j)
      BY <2>0 DEF LaunchOK
    <3>2. /\ S.phase = "up" /\ S.stage # "pending" /\ S.proc[k] # "live" /\ S.checks[k] = 0 /\ S.applies[k] = 0 /\ k \notin S.last
      BY DEF Startable
    <3>3. CASE j = k
      BY <2>2, <2>4, <3>1, <3>2, <3>3 DEF ChildOK, FlowOK, StageOK
    <3>4. CASE j # k
      BY <2>2, <2>4, <3>1, <3>4 DEF ChildOK, FlowOK, StageOK
    <3> QED BY <3>3, <3>4
  <2> QED BY <2>0, <2>2, <2>5, <2>6 DEF LaunchOK
<1> QED BY <1>1, <1>2, <1>3, <1>4 DEF StartServer

\* stop_server: the process of the card is gone, and it was the only one.
LEMMA StopServerOK ==
  ASSUME NEW S, LaunchOK(S), NEW k \in ServerKeys, NEW N, N = StopServer(S, k)
  PROVE  LaunchOK(N)
<1>0. LaunchTyped(S) /\ DOMAIN S = LaunchFields
  BY DEF LaunchOK, LaunchTyped
<1>1. CASE S.proc[k] = "none"
  BY <1>1 DEF StopServer
<1>2. CASE S.proc[k] # "none"
  <2>1. PICK T : T = [S EXCEPT !.kids[k] = IF S.proc[k] = "live" THEN @ - 1 ELSE @, !.proc[k] = "dead"]
    OBVIOUS
  <2>2. /\ DOMAIN T = LaunchFields /\ T.phase = S.phase /\ T.stage = S.stage /\ T.proc = [S.proc EXCEPT ![k] = "dead"]
        /\ T.kids = [S.kids EXCEPT ![k] = IF S.proc[k] = "live" THEN @ - 1 ELSE @] /\ T.checks = S.checks
        /\ T.applies = S.applies /\ T.last = S.last /\ T.reset = S.reset /\ T.killed = S.killed /\ T.file = S.file /\ T.saved = S.saved
    BY <1>0, <2>1 DEF LaunchFields
  <2>3. /\ S.proc \in [ServerKeys -> ProcStates] /\ S.kids \in [ServerKeys -> Nat]
        /\ \A j \in ServerKeys : ChildOK(S, j) /\ FlowOK(S, j) /\ StageOK(S, j)
    BY <1>0 DEF LaunchTyped, LaunchOK
  <2>4. /\ T.proc[k] = "dead" /\ T.kids[k] = (IF S.proc[k] = "live" THEN S.kids[k] - 1 ELSE S.kids[k])
        /\ \A j \in ServerKeys \ {k} : T.proc[j] = S.proc[j] /\ T.kids[j] = S.kids[j]
    BY <2>2, <2>3
  <2>5. T.kids[k] \in Nat
    BY <2>3, <2>4 DEF ChildOK
  <2>6. T.proc \in [ServerKeys -> ProcStates]
    BY <2>2, <2>3 DEF ProcStates
  <2>6a. T.kids \in [ServerKeys -> Nat]
    <3>1. DOMAIN T.kids = ServerKeys /\ \A j \in ServerKeys : T.kids[j] \in Nat
      BY <2>2, <2>3, <2>4, <2>5
    <3>2. T.kids = [j \in ServerKeys |-> T.kids[j]]
      BY <2>2, <2>3
    <3> QED BY <3>1, <3>2
  <2>7. LaunchTyped(T)
    BY <1>0, <2>2, <2>6, <2>6a DEF LaunchTyped
  <2>8. ASSUME NEW j \in ServerKeys PROVE ChildOK(T, j) /\ FlowOK(T, j) /\ StageOK(T, j)
    <3>1. CASE j = k
      BY <2>2, <2>3, <2>4, <3>1 DEF ChildOK, FlowOK, StageOK
    <3>2. CASE j # k
      BY <2>2, <2>3, <2>4, <3>2 DEF ChildOK, FlowOK, StageOK
    <3> QED BY <3>1, <3>2
  <2>9. LaunchOK(T)
    BY <2>2, <2>7, <2>8 DEF LaunchOK
  <2> QED BY <1>2, <2>1, <2>9, SaveNone DEF StopServer
<1> QED BY <1>1, <1>2

\* stop_all
LEMMA StopAllOK ==
  ASSUME NEW S, LaunchOK(S), NEW N, N = StopAll(S)
  PROVE  LaunchOK(N) /\ N.phase = S.phase /\ \A k \in ServerKeys : N.proc[k] # "live"
<1>0. LaunchTyped(S) /\ DOMAIN S = LaunchFields
  BY DEF LaunchOK, LaunchTyped
<1>1. CASE S.proc = NoProcs
  BY <1>1 DEF StopAll, NoProcs
<1>2. CASE S.proc # NoProcs
  <2>1. PICK T : T = [S EXCEPT !.kids = [k \in ServerKeys |-> IF S.proc[k] = "live" THEN S.kids[k] - 1 ELSE S.kids[k]],
                               !.proc = [k \in ServerKeys |-> IF S.proc[k] = "none" THEN "none" ELSE "dead"]]
    OBVIOUS
  <2>2. /\ DOMAIN T = LaunchFields /\ T.phase = S.phase /\ T.stage = S.stage
        /\ T.proc = [k \in ServerKeys |-> IF S.proc[k] = "none" THEN "none" ELSE "dead"]
        /\ T.kids = [k \in ServerKeys |-> IF S.proc[k] = "live" THEN S.kids[k] - 1 ELSE S.kids[k]] /\ T.checks = S.checks
        /\ T.applies = S.applies /\ T.last = S.last /\ T.reset = S.reset /\ T.killed = S.killed /\ T.file = S.file /\ T.saved = S.saved
    BY <1>0, <2>1 DEF LaunchFields
  <2>3. /\ S.proc \in [ServerKeys -> ProcStates] /\ S.kids \in [ServerKeys -> Nat]
        /\ \A j \in ServerKeys : ChildOK(S, j) /\ FlowOK(S, j) /\ StageOK(S, j)
    BY <1>0 DEF LaunchTyped, LaunchOK
  <2>4. \A j \in ServerKeys : T.proc[j] # "live" /\ T.kids[j] = (IF S.proc[j] = "live" THEN S.kids[j] - 1 ELSE S.kids[j])
    BY <2>2
  <2>5. \A j \in ServerKeys : T.kids[j] \in Nat
    BY <2>3, <2>4 DEF ChildOK
  <2>6. T.proc \in [ServerKeys -> ProcStates] /\ T.kids \in [ServerKeys -> Nat]
    <3>1. T.proc \in [ServerKeys -> ProcStates]
      BY <2>2 DEF ProcStates
    <3>2. T.kids = [j \in ServerKeys |-> T.kids[j]]
      BY <2>2
    <3> QED BY <2>5, <3>1, <3>2
  <2>7. LaunchTyped(T)
    BY <1>0, <2>2, <2>6 DEF LaunchTyped
  <2>8. ASSUME NEW j \in ServerKeys PROVE ChildOK(T, j) /\ FlowOK(T, j) /\ StageOK(T, j)
    BY <2>2, <2>3, <2>4 DEF ChildOK, FlowOK, StageOK
  <2>9. LaunchOK(T)
    BY <2>2, <2>7, <2>8 DEF LaunchOK
  <2>10. N = Save(T, NoPending)
    BY <1>2, <2>1 DEF StopAll
  <2> QED BY <2>2, <2>4, <2>9, <2>10, SaveNone
<1> QED BY <1>1, <1>2

-----------------------------------------------------------------------------
(* The handlers.                                                             *)

LEMMA AllowOK ==
  ASSUME NEW S, LaunchOK(S), S.phase = "up", NEW confirm, NEW N \in Allow(S, confirm)
  PROVE  LaunchOK(N)
<1>1. CASE N = S
  BY <1>1
<1>2. CASE N = [S EXCEPT !.jobs = @ \cup {"allow"}]
  <2>1. LaunchAlike(N, S)
    BY <1>2 DEF LaunchAlike, LaunchOK, LaunchTyped, LaunchFields
  <2> QED BY <2>1, AlikeOK
<1>3. CASE N \in Relaunch(S, <<"allow">>)
  <2>1. <<"allow">> \in Pendings /\ \A k \in ServerKeys : <<"allow">> = Start(k) => S.proc[k] # "live"
    BY PendingsDiffer
  <2> QED BY <1>3, <2>1, RelaunchOK
<1> QED BY <1>1, <1>2, <1>3 DEF Allow

LEMMA CleanupOK ==
  ASSUME NEW S0, LaunchOK(S0), S0.phase = "up", NEW confirm, NEW N \in Cleanup(S0, confirm)
  PROVE  LaunchOK(N)
<1>1. PICK S : S = IF Live(S0) = {} THEN S0 ELSE StopAll(S0)
  OBVIOUS
<1>2. LaunchOK(S) /\ S.phase = "up"
  BY <1>1, StopAllOK
<1>3. PICK forgot : forgot = IF S.cache = {} THEN S ELSE Save([S EXCEPT !.cache = {}], NoPending)
  OBVIOUS
<1>4. LaunchOK(forgot)
  <2>1. PICK U : U = [S EXCEPT !.cache = {}]
    OBVIOUS
  <2>2. LaunchAlike(U, S)
    BY <1>2, <2>1 DEF LaunchAlike, LaunchOK, LaunchTyped, LaunchFields
  <2>3. LaunchOK(Save(U, NoPending))
    BY <1>2, <2>2, AlikeOK, SaveNone
  <2> QED BY <1>2, <1>3, <2>1, <2>3
<1>5. CASE N \in {S0, S}
  BY <1>2, <1>5
<1>6. CASE N = [forgot EXCEPT !.jobs = @ \cup {"cleanup"}]
  <2>1. LaunchAlike(N, forgot)
    BY <1>4, <1>6 DEF LaunchAlike, LaunchOK, LaunchTyped, LaunchFields
  <2> QED BY <1>4, <2>1, AlikeOK
<1>7. CASE N \in Relaunch(S, <<"cleanup">>)
  <2>1. <<"cleanup">> \in Pendings /\ \A k \in ServerKeys : <<"cleanup">> = Start(k) => S.proc[k] # "live"
    BY PendingsDiffer
  <2> QED BY <1>2, <1>7, <2>1, RelaunchOK
<1> QED BY <1>1, <1>3, <1>5, <1>6, <1>7 DEF Cleanup

\* What the user clicks, once the timers of __init__ have fired.
LEMMA ClickSteps ==
  ASSUME ~EarlyClicks, LaunchOK(lch), (\E k \in ServerKeys : Toggle(k)) \/ StopEverything \/ ClickAllow \/ ClickCleanup
  PROVE  LaunchOK(lch')
<1>0. lch.phase = "up" /\ lch.stage = "ready"
  BY DEF Toggle, StopEverything, ClickAllow, ClickCleanup, Ready, TkFree
<1>1. CASE \E k \in ServerKeys : Toggle(k)
  <2>1. PICK k \in ServerKeys : Toggle(k)
    BY <1>1
  <2>2. CASE lch' = StopServer(lch, k)
    BY <2>2, StopServerOK
  <2>3. CASE lch.proc[k] # "live" /\ lch' \in StartServer(lch, k)
    <3>1. lch.checks[k] \in Nat /\ lch.applies[k] \in Nat /\ ~(lch.checks[k] + lch.applies[k] > 0)
      BY <2>1 DEF LaunchOK, LaunchTyped, Toggle, Busy
    <3>2. lch.checks[k] = 0 /\ lch.applies[k] = 0
      BY <3>1
    <3>3. Startable(lch, k)
      BY <1>0, <2>3, <3>2 DEF Startable, LaunchOK, StageOK
    <3> QED BY <2>3, <3>3, StartServerOK
  <2> QED BY <2>1, <2>2, <2>3 DEF Toggle
<1>2. CASE StopEverything
  BY <1>2, StopAllOK DEF StopEverything
<1>3. CASE ClickAllow
  BY <1>0, <1>3, AllowOK DEF ClickAllow
<1>4. CASE ClickCleanup
  BY <1>0, <1>4, CleanupOK DEF ClickCleanup
<1> QED BY <1>1, <1>2, <1>3, <1>4

\* The ways out.
LEMMA LeaveSteps == ASSUME LaunchOK(lch), Leave \/ ResetSettings PROVE LaunchOK(lch')
<1>0. lch.phase = "up" /\ DOMAIN lch = LaunchFields
  BY DEF Leave, ResetSettings, Ready, TkFree, LaunchOK, LaunchTyped
<1>1. CASE Leave
  <2>1. PICK S : S = Save(lch, NoPending)
    OBVIOUS
  <2>2. LaunchOK(S) /\ S.phase = "up"
    BY <1>0, <2>1, SaveNone
  <2>3. LaunchOK(Close(S, "none")) /\ LaunchOK(Close(S, "plain"))
    BY <2>2, CloseOK
  <2>4. NoPending \in Pendings /\ \A k \in ServerKeys : NoPending = Start(k) => lch.proc[k] # "live"
    BY PendingsDiffer
  <2>5. lch' \in Relaunch(lch, NoPending) => LaunchOK(lch')
    BY <1>0, <2>4, RelaunchOK
  <2> QED BY <1>1, <2>1, <2>2, <2>3, <2>5 DEF Leave
<1>2. CASE ResetSettings
  <2>1. PICK gone : gone = [lch EXCEPT !.file = NoFile, !.reset = TRUE]
    OBVIOUS
  <2>2. ASSUME NEW r \in BOOLEAN, NEW T, T = [lch EXCEPT !.file = NoFile, !.reset = r]
        PROVE  LaunchOK(T) /\ T.phase = "up"
    <3>1. /\ DOMAIN T = LaunchFields /\ T.file = NoFile /\ T.reset = r
          /\ T.phase = lch.phase /\ T.stage = lch.stage /\ T.proc = lch.proc /\ T.kids = lch.kids /\ T.checks = lch.checks
          /\ T.applies = lch.applies /\ T.last = lch.last /\ T.killed = lch.killed /\ T.saved = lch.saved
      BY <1>0, <2>2 DEF LaunchFields
    <3>2. DOMAIN NoFile = FileFields /\ NoFile.exists = FALSE /\ NoFile.active = {} /\ NoFile.pend = NoPending
      BY DEF NoFile, FileFields
    <3>3. FileOK(NoFile) /\ NoFile.active \subseteq ServerKeys
      BY <3>2, PendingsDiffer DEF FileOK
    <3>4. LaunchTyped(T)
      BY <3>1, <3>3 DEF LaunchOK, LaunchTyped
    <3>5. \A k \in ServerKeys : ChildOK(T, k) /\ FlowOK(T, k) /\ StageOK(T, k)
      BY <3>1 DEF LaunchOK, ChildOK, FlowOK, StageOK
    <3> QED BY <1>0, <3>1, <3>2, <3>4, <3>5 DEF LaunchOK
  <2>3. CASE lch' = Close(gone, "plain")
    BY <2>1, <2>2, <2>3, CloseOK
  <2>4. CASE lch' = Save([gone EXCEPT !.reset = FALSE], NoPending)
    <3>1. [gone EXCEPT !.reset = FALSE] = [lch EXCEPT !.file = NoFile, !.reset = FALSE]
      BY <1>0, <2>1 DEF LaunchFields
    <3> QED BY <2>2, <2>4, <3>1, SaveNone
  <2> QED BY <1>2, <2>1, <2>3, <2>4 DEF ResetSettings
<1> QED BY <1>1, <1>2

\* A check or a setup is over, and its card has no other.
LEMMA FlowSteps ==
  ASSUME LaunchOK(lch), (\E k \in ServerKeys : CheckDone(k)) \/ (\E k \in ServerKeys : ApplyDone(k))
  PROVE  LaunchOK(lch')
<1>0. LaunchTyped(lch) /\ DOMAIN lch = LaunchFields /\ lch.checks \in [ServerKeys -> Nat] /\ lch.applies \in [ServerKeys -> Nat]
  BY DEF LaunchOK, LaunchTyped
<1>1. ASSUME NEW k \in ServerKeys, NEW S, NEW c, NEW a, S = [lch EXCEPT !.checks = c, !.applies = a],
             c \in [ServerKeys -> Nat], a \in [ServerKeys -> Nat], lch.checks[k] + lch.applies[k] > 0, c[k] + a[k] = 0,
             \A j \in ServerKeys \ {k} : c[j] = lch.checks[j] /\ a[j] = lch.applies[j]
      PROVE  Startable(S, k)
  <2>1. /\ DOMAIN S = LaunchFields /\ S.phase = lch.phase /\ S.stage = lch.stage /\ S.proc = lch.proc
        /\ S.checks = c /\ S.applies = a /\ S.kids = lch.kids
        /\ S.last = lch.last /\ S.reset = lch.reset /\ S.killed = lch.killed /\ S.file = lch.file /\ S.saved = lch.saved
    BY <1>0, <1>1 DEF LaunchFields
  <2>2. LaunchTyped(S)
    BY <1>0, <1>1, <2>1 DEF LaunchTyped
  <2>3. \A j \in ServerKeys : ChildOK(lch, j) /\ FlowOK(lch, j) /\ StageOK(lch, j)
    BY DEF LaunchOK
  <2>4. lch.checks[k] + lch.applies[k] = 1
    BY <1>0, <1>1, <2>3 DEF FlowOK
  <2>5. c[k] = 0 /\ a[k] = 0
    BY <1>1
  <2>6. ASSUME NEW j \in ServerKeys PROVE ChildOK(S, j) /\ FlowOK(S, j) /\ StageOK(S, j)
    <3>1. CASE j = k
      BY <2>1, <2>3, <2>5, <3>1 DEF ChildOK, FlowOK, StageOK
    <3>2. CASE j # k
      BY <1>1, <2>1, <2>3, <3>2 DEF ChildOK, FlowOK, StageOK
    <3> QED BY <3>1, <3>2
  <2>7. LaunchOK(S)
    BY <2>1, <2>2, <2>6 DEF LaunchOK
  <2>8. lch.proc[k] # "live" /\ lch.phase = "up" /\ lch.stage # "pending" /\ k \notin lch.last
    BY <2>3, <2>4 DEF FlowOK
  <2> QED BY <2>1, <2>5, <2>7, <2>8 DEF Startable
<1>2. ASSUME NEW k \in ServerKeys, CheckDone(k) PROVE LaunchOK(lch')
  <2>1. PICK c : c = [lch.checks EXCEPT ![k] = @ - 1]
    OBVIOUS
  <2>2. PICK S : S = [lch EXCEPT !.checks[k] = @ - 1]
    OBVIOUS
  <2>3. S = [lch EXCEPT !.checks = c, !.applies = lch.applies]
    BY <1>0, <2>1, <2>2 DEF LaunchFields
  <2>4. lch.checks[k] > 0 /\ lch.checks[k] \in Nat /\ lch.applies[k] \in Nat /\ FlowOK(lch, k)
    BY <1>0, <1>2 DEF CheckDone, LaunchOK
  <2>5. lch.checks[k] = 1 /\ lch.applies[k] = 0
    BY <2>4 DEF FlowOK
  <2>6. c[k] = 0 /\ c \in [ServerKeys -> Nat] /\ \A j \in ServerKeys \ {k} : c[j] = lch.checks[j]
    BY <1>0, <2>1, <2>5
  <2>6a. lch.checks[k] + lch.applies[k] > 0 /\ c[k] + lch.applies[k] = 0
    BY <2>5, <2>6
  <2>7. Startable(S, k)
    BY <1>0, <1>1, <2>3, <2>6, <2>6a
  <2>8. \/ lch' \in HandleCheck(S, k, k \notin S.rules, k \in S.rules)
        \/ lch' \in HandleCheck(S, k, FALSE, FALSE) \/ lch' \in HandleCheck(S, k, TRUE, FALSE)
    BY <1>2, <2>2 DEF CheckDone
  <2> QED BY <2>7, <2>8, HandleCheckOK
<1>3. ASSUME NEW k \in ServerKeys, ApplyDone(k) PROVE LaunchOK(lch')
  <2>1. PICK a : a = [lch.applies EXCEPT ![k] = @ - 1]
    OBVIOUS
  <2>2. PICK S : S = [lch EXCEPT !.applies[k] = @ - 1]
    OBVIOUS
  <2>3. S = [lch EXCEPT !.checks = lch.checks, !.applies = a]
    BY <1>0, <2>1, <2>2 DEF LaunchFields
  <2>4. lch.applies[k] > 0 /\ lch.checks[k] \in Nat /\ lch.applies[k] \in Nat /\ FlowOK(lch, k)
    BY <1>0, <1>3 DEF ApplyDone, LaunchOK
  <2>5. lch.checks[k] = 0 /\ lch.applies[k] = 1
    BY <2>4 DEF FlowOK
  <2>6. a[k] = 0 /\ a \in [ServerKeys -> Nat] /\ \A j \in ServerKeys \ {k} : a[j] = lch.applies[j]
    BY <1>0, <2>1, <2>5
  <2>6a. lch.checks[k] + lch.applies[k] > 0 /\ lch.checks[k] + a[k] = 0
    BY <2>5, <2>6
  <2>7. Startable(S, k)
    BY <1>0, <1>1, <2>3, <2>6, <2>6a
  <2>8. PICK done : done = [S EXCEPT !.rules = @ \cup {k}]
    OBVIOUS
  <2>9. LaunchAlike(done, S)
    BY <2>7, <2>8 DEF LaunchAlike, Startable, LaunchOK, LaunchTyped, LaunchFields
  <2>10. Startable(done, k)
    BY <2>7, <2>9, AlikeOK DEF Startable, LaunchAlike
  <2>11. lch' \in {S, done} \/ lch' \in LaunchServer(done, k)
    BY <1>3, <2>2, <2>8 DEF ApplyDone
  <2> QED BY <2>7, <2>10, <2>11, LaunchServerOK DEF Startable
<1> QED BY <1>2, <1>3

LEMMA JobStep == ASSUME LaunchOK(lch), JobDone PROVE LaunchOK(lch')
<1>1. PICK j, rules : lch' = [lch EXCEPT !.jobs = @ \ {j}, !.rules = rules]
  BY DEF JobDone
<1>2. LaunchAlike(lch', lch)
  BY <1>1 DEF LaunchAlike, LaunchOK, LaunchTyped, LaunchFields
<1> QED BY <1>2, AlikeOK

\* The timers: what is to be continued is not among what the autostart starts.
LEMMA TimerSteps == ASSUME LaunchOK(lch), Continue \/ Autostart \/ AutostartOne PROVE LaunchOK(lch')
<1>0. LaunchTyped(lch) /\ DOMAIN lch = LaunchFields /\ lch.phase = "up" /\ lch.checks \in [ServerKeys -> Nat] /\ lch.applies \in [ServerKeys -> Nat]
  BY DEF LaunchOK, LaunchTyped, Continue, Autostart, AutostartOne
<1>1. \A j \in ServerKeys : ChildOK(lch, j) /\ FlowOK(lch, j) /\ StageOK(lch, j)
  BY DEF LaunchOK
<1>2. ASSUME NEW last, last \subseteq lch.last, lch.stage # "pending", NEW S, S = Starting(lch, last)
      PROVE  /\ LaunchOK(S) /\ S.phase = "up" /\ S.stage # "pending" /\ S.proc = lch.proc
             /\ S.checks = lch.checks /\ S.applies = lch.applies /\ S.last = last
  <2>1. /\ DOMAIN S = LaunchFields /\ S.phase = lch.phase /\ S.stage = (IF last = {} THEN "ready" ELSE "starting") /\ S.proc = lch.proc
        /\ S.checks = lch.checks /\ S.applies = lch.applies /\ S.kids = lch.kids
        /\ S.last = last /\ S.reset = lch.reset /\ S.killed = lch.killed /\ S.file = lch.file /\ S.saved = lch.saved
    BY <1>0, <1>2 DEF Starting, LaunchFields
  <2>2. LaunchTyped(S)
    BY <1>0, <1>2, <2>1 DEF LaunchTyped
  <2>3. ASSUME NEW j \in ServerKeys PROVE ChildOK(S, j) /\ FlowOK(S, j) /\ StageOK(S, j)
    BY <1>0, <1>1, <1>2, <2>1 DEF ChildOK, FlowOK, StageOK
  <2> QED BY <1>0, <2>1, <2>2, <2>3 DEF LaunchOK
<1>3. CASE Autostart
  <2>1. PICK last : last = IF lch.auto THEN lch.last ELSE {}
    OBVIOUS
  <2>2. last \subseteq lch.last /\ lch.stage # "pending" /\ lch' = Starting(lch, last)
    BY <1>3, <2>1 DEF Autostart
  <2> QED BY <1>2, <2>2
<1>4. CASE AutostartOne
  <2>1. PICK k \in lch.last : lch' \in IF Starting(lch, lch.last \ {k}).proc[k] = "live" THEN {Starting(lch, lch.last \ {k})}
                                       ELSE StartServer(Starting(lch, lch.last \ {k}), k)
    BY <1>4 DEF AutostartOne
  <2>2. PICK S : S = Starting(lch, lch.last \ {k})
    OBVIOUS
  <2>3. /\ LaunchOK(S) /\ S.phase = "up" /\ S.stage # "pending" /\ S.proc = lch.proc
        /\ S.checks = lch.checks /\ S.applies = lch.applies /\ S.last = lch.last \ {k}
    BY <1>2, <1>4, <2>2 DEF AutostartOne
  <2>4. k \in ServerKeys /\ lch.checks[k] \in Nat /\ lch.applies[k] \in Nat
    BY <1>0 DEF LaunchTyped
  <2>5. lch.checks[k] = 0 /\ lch.applies[k] = 0
    BY <1>1, <2>4 DEF FlowOK
  <2>6. CASE S.proc[k] = "live"
    BY <2>1, <2>2, <2>3, <2>6
  <2>7. CASE S.proc[k] # "live"
    <3>1. Startable(S, k)
      BY <2>3, <2>4, <2>5, <2>7 DEF Startable
    <3> QED BY <2>1, <2>2, <2>7, <3>1, StartServerOK
  <2> QED BY <2>6, <2>7
<1>5. CASE Continue
  <2>0. lch.stage = "pending" /\ lch.saved \in Pendings
    BY <1>0, <1>5 DEF Continue, LaunchTyped
  <2>1. ASSUME NEW saved \in Pendings, NEW T, T = [lch EXCEPT !.stage = "auto", !.saved = saved]
        PROVE  /\ LaunchOK(T) /\ T.phase = "up" /\ T.stage = "auto" /\ T.proc = lch.proc /\ T.checks = lch.checks
               /\ T.applies = lch.applies /\ T.last = lch.last
    <3>1. /\ DOMAIN T = LaunchFields /\ T.phase = lch.phase /\ T.stage = "auto" /\ T.proc = lch.proc
          /\ T.checks = lch.checks /\ T.applies = lch.applies /\ T.kids = lch.kids
          /\ T.last = lch.last /\ T.reset = lch.reset /\ T.killed = lch.killed /\ T.file = lch.file /\ T.saved = saved
      BY <1>0, <2>1 DEF LaunchFields
    <3>2. LaunchTyped(T)
      BY <1>0, <2>1, <3>1 DEF LaunchTyped
    <3>3. ASSUME NEW j \in ServerKeys PROVE ChildOK(T, j) /\ FlowOK(T, j) /\ StageOK(T, j)
      BY <1>0, <1>1, <2>0, <3>1 DEF ChildOK, FlowOK, StageOK
    <3> QED BY <1>0, <3>1, <3>2, <3>3 DEF LaunchOK
  <2>2. PICK S : S = Save([lch EXCEPT !.stage = "auto", !.saved = NoPending], NoPending)
    OBVIOUS
  <2>3. PICK T : T = [lch EXCEPT !.stage = "auto", !.saved = NoPending]
    OBVIOUS
  <2>4. /\ LaunchOK(T) /\ T.phase = "up" /\ T.stage = "auto" /\ T.proc = lch.proc /\ T.checks = lch.checks
        /\ T.applies = lch.applies /\ T.last = lch.last
    BY <2>1, <2>3, PendingsDiffer
  <2>5. /\ LaunchOK(S) /\ S.phase = "up" /\ S.stage = "auto" /\ S.proc = lch.proc /\ S.checks = lch.checks
        /\ S.applies = lch.applies /\ S.last = lch.last
    <3>1. S = Save(T, NoPending)
      BY <2>2, <2>3
    <3> QED BY <2>4, <3>1, SaveNone
  <2>6. CASE lch.saved = NoPending
    <3>1. lch' = [lch EXCEPT !.stage = "auto"]
      BY <1>5, <2>6, PendingsDiffer DEF Continue
    <3>2. lch' = [lch EXCEPT !.stage = "auto", !.saved = NoPending]
      BY <1>0, <2>6, <3>1 DEF LaunchFields
    <3> QED BY <2>3, <2>4, <3>2
  <2>7. CASE lch.saved = <<"allow">>
    <3>1. lch' \in Allow(S, FALSE)
      BY <1>5, <2>2, <2>7, PendingsDiffer DEF Continue
    <3> QED BY <2>5, <3>1, AllowOK
  <2>8. CASE lch.saved = <<"cleanup">>
    <3>1. lch' \in Cleanup(S, FALSE)
      BY <1>5, <2>2, <2>8, PendingsDiffer DEF Continue
    <3> QED BY <2>5, <3>1, CleanupOK
  <2>9. ASSUME NEW k \in ServerKeys, lch.saved = Start(k) PROVE LaunchOK(lch')
    <3>1. lch.saved # NoPending /\ lch.saved # <<"allow">> /\ lch.saved # <<"cleanup">> /\ lch.saved[2] = k
      BY <2>9, PendingsDiffer
    <3>2. lch' \in StartServer(S, k)
      BY <1>5, <2>2, <3>1 DEF Continue
    <3>3. lch.proc[k] # "live" /\ k \notin lch.last
      BY <1>0, <1>1, <2>0, <2>9 DEF StageOK
    <3>4. lch.checks[k] \in Nat /\ lch.applies[k] \in Nat /\ lch.checks[k] + lch.applies[k] # 1
      BY <1>0, <1>1, <2>0 DEF FlowOK
    <3>5. lch.checks[k] = 0 /\ lch.applies[k] = 0
      BY <1>1, <3>4 DEF FlowOK
    <3>6. Startable(S, k)
      BY <2>5, <3>3, <3>5 DEF Startable
    <3> QED BY <3>2, <3>6, StartServerOK
  <2> QED BY <2>0, <2>6, <2>7, <2>8, <2>9 DEF Pendings
<1> QED BY <1>3, <1>4, <1>5

\* A process ends: the card's own, or one that an instance which was killed left behind.
LEMMA ServerEndsStep == ASSUME LaunchOK(lch), NEW k \in ServerKeys, ServerEnds(k) PROVE LaunchOK(lch')
<1>0. /\ LaunchTyped(lch) /\ DOMAIN lch = LaunchFields /\ lch.proc \in [ServerKeys -> ProcStates] /\ lch.kids \in [ServerKeys -> Nat]
      /\ lch.kids[k] > 0 /\ \A j \in ServerKeys : ChildOK(lch, j) /\ FlowOK(lch, j) /\ StageOK(lch, j)
  BY DEF LaunchOK, LaunchTyped, ServerEnds
<1>1. PICK whose \in {"card", "lost"} :
        /\ whose = "card" => lch.proc[k] = "live"
        /\ whose = "lost" => lch.kids[k] > (IF lch.proc[k] = "live" THEN 1 ELSE 0)
        /\ LET S == [lch EXCEPT !.kids[k] = @ - 1, !.proc[k] = IF whose = "card" THEN "dead" ELSE @]
           IN  lch' = [S EXCEPT !.killed = S.killed /\ \E j \in ServerKeys : S.kids[j] > 0]
  BY DEF ServerEnds
<1>2. PICK S : S = [lch EXCEPT !.kids[k] = @ - 1, !.proc[k] = IF whose = "card" THEN "dead" ELSE @]
  OBVIOUS
<1>3. /\ DOMAIN S = LaunchFields /\ S.phase = lch.phase /\ S.stage = lch.stage
      /\ S.proc = [lch.proc EXCEPT ![k] = IF whose = "card" THEN "dead" ELSE @]
      /\ S.kids = [lch.kids EXCEPT ![k] = @ - 1] /\ S.checks = lch.checks /\ S.applies = lch.applies
      /\ S.last = lch.last /\ S.reset = lch.reset /\ S.killed = lch.killed /\ S.file = lch.file /\ S.saved = lch.saved
  BY <1>0, <1>2 DEF LaunchFields
<1>4. PICK killed \in BOOLEAN : killed = (lch.killed /\ \E j \in ServerKeys : S.kids[j] > 0)
  OBVIOUS
<1>5. lch' = [S EXCEPT !.killed = killed]
  BY <1>1, <1>2, <1>3, <1>4
<1>6. /\ DOMAIN lch' = LaunchFields /\ lch'.phase = lch.phase /\ lch'.stage = lch.stage /\ lch'.proc = S.proc /\ lch'.kids = S.kids
      /\ lch'.checks = lch.checks /\ lch'.applies = lch.applies /\ lch'.killed = killed
      /\ lch'.last = lch.last /\ lch'.reset = lch.reset /\ lch'.file = lch.file /\ lch'.saved = lch.saved
  BY <1>3, <1>5 DEF LaunchFields
<1>7. /\ S.kids[k] = lch.kids[k] - 1 /\ S.proc[k] = (IF whose = "card" THEN "dead" ELSE lch.proc[k])
      /\ \A j \in ServerKeys \ {k} : S.kids[j] = lch.kids[j] /\ S.proc[j] = lch.proc[j]
  BY <1>0, <1>3
<1>8. S.proc \in [ServerKeys -> ProcStates] /\ S.kids \in [ServerKeys -> Nat]
  BY <1>0, <1>3 DEF ProcStates
<1>9. LaunchTyped(lch')
  BY <1>0, <1>6, <1>8 DEF LaunchTyped
<1>10. \A j \in ServerKeys : S.proc[j] = "live" => S.kids[j] >= 1
  <2>1. S.proc[k] = "live" => S.kids[k] >= 1
    <3>1. CASE whose = "card"
      BY <1>7, <3>1
    <3>2. CASE whose = "lost"
      BY <1>0, <1>1, <1>7, <3>2
    <3> QED BY <3>1, <3>2
  <2>2. ASSUME NEW j \in ServerKeys \ {k} PROVE S.proc[j] = "live" => S.kids[j] >= 1
    BY <1>0, <1>7 DEF ChildOK
  <2> QED BY <2>1, <2>2
<1>11. ASSUME killed = FALSE, NEW j \in ServerKeys PROVE S.kids[j] = (IF S.proc[j] = "live" THEN 1 ELSE 0)
  <2>1. CASE lch.killed = FALSE
    <3>1. CASE j # k
      BY <1>0, <1>7, <2>1, <3>1 DEF ChildOK
    <3>2. CASE j = k /\ whose = "card"
      <4>1. lch.kids[k] = 1
        BY <1>0, <1>1, <2>1, <3>2 DEF ChildOK
      <4> QED BY <1>7, <3>2, <4>1
    <3>3. CASE j = k /\ whose = "lost"
      <4>1. lch.kids[k] = (IF lch.proc[k] = "live" THEN 1 ELSE 0) /\ lch.kids[k] > (IF lch.proc[k] = "live" THEN 1 ELSE 0)
        BY <1>0, <1>1, <2>1, <3>3 DEF ChildOK
      <4> QED BY <4>1
    <3> QED BY <3>1, <3>2, <3>3
  <2>2. CASE lch.killed = TRUE
    <3>1. ~(S.kids[j] > 0) /\ S.kids[j] \in Nat
      BY <1>4, <1>8, <1>11, <2>2
    <3> QED BY <1>10, <3>1
  <2> QED BY <1>0, <2>1, <2>2 DEF LaunchTyped
<1>12. ASSUME NEW j \in ServerKeys PROVE ChildOK(lch', j)
  BY <1>6, <1>10, <1>11 DEF ChildOK
<1>13. ASSUME NEW j \in ServerKeys PROVE FlowOK(lch', j) /\ StageOK(lch', j)
  <2>1. S.proc[j] = "live" => lch.proc[j] = "live"
    BY <1>7
  <2> QED BY <1>0, <1>6, <2>1 DEF FlowOK, StageOK
<1> QED BY <1>6, <1>9, <1>12, <1>13 DEF LaunchOK

\* The launcher comes to its end, or is ended.
LEMMA EndSteps == ASSUME LaunchOK(lch), ShutDown \/ Killed \/ GiveUp PROVE LaunchOK(lch')
<1>0. LaunchTyped(lch) /\ DOMAIN lch = LaunchFields
  BY DEF LaunchOK, LaunchTyped
<1>1. CASE ShutDown
  <2>1. PICK S : S = StopAll(lch)
    OBVIOUS
  <2>2. LaunchOK(S) /\ S.phase = "closing" /\ \A k \in ServerKeys : S.proc[k] # "live"
    BY <1>1, <2>1, StopAllOK DEF ShutDown
  <2>3. LaunchTyped(S) /\ DOMAIN S = LaunchFields
    BY <2>2 DEF LaunchOK, LaunchTyped
  <2>4. lch' = [S EXCEPT !.phase = "down"]
    BY <1>1, <2>1 DEF ShutDown
  <2>5. /\ DOMAIN lch' = LaunchFields /\ lch'.phase = "down" /\ lch'.stage = S.stage /\ lch'.proc = S.proc /\ lch'.kids = S.kids
        /\ lch'.checks = S.checks /\ lch'.applies = S.applies /\ lch'.killed = S.killed
        /\ lch'.last = S.last /\ lch'.reset = S.reset /\ lch'.file = S.file /\ lch'.saved = S.saved
    BY <2>3, <2>4 DEF LaunchFields
  <2>6. LaunchTyped(lch')
    BY <2>3, <2>5 DEF LaunchTyped
  <2>7. ASSUME NEW j \in ServerKeys PROVE ChildOK(lch', j) /\ FlowOK(lch', j) /\ StageOK(lch', j)
    BY <2>2, <2>5 DEF LaunchOK, ChildOK, FlowOK, StageOK
  <2> QED BY <2>2, <2>5, <2>6, <2>7 DEF LaunchOK
<1>2. CASE Killed
  <2>1. PICK killed \in BOOLEAN : killed = \E k \in ServerKeys : lch.kids[k] > 0
    OBVIOUS
  <2>2. lch' = [lch EXCEPT !.phase = "down", !.killed = killed,
                           !.proc = NoProcs, !.goal = NoGoal, !.checks = Idle, !.applies = Idle, !.jobs = {}]
    BY <1>2, <2>1 DEF Killed
  <2>3. /\ DOMAIN lch' = LaunchFields /\ lch'.phase = "down" /\ lch'.stage = lch.stage /\ lch'.proc = NoProcs /\ lch'.kids = lch.kids
        /\ lch'.checks = Idle /\ lch'.applies = Idle /\ lch'.killed = killed
        /\ lch'.last = lch.last /\ lch'.reset = lch.reset /\ lch'.file = lch.file /\ lch'.saved = lch.saved
    BY <1>0, <2>2 DEF LaunchFields
  <2>4. /\ Idle \in [ServerKeys -> Nat] /\ \A k \in ServerKeys : Idle[k] = 0
        /\ NoProcs \in [ServerKeys -> ProcStates] /\ \A k \in ServerKeys : NoProcs[k] = "none"
    BY DEF Idle, NoProcs, ProcStates
  <2>5. LaunchTyped(lch')
    BY <1>0, <2>3, <2>4 DEF LaunchTyped
  <2>6. \A j \in ServerKeys : lch.kids[j] \in Nat
    BY <1>0 DEF LaunchTyped
  <2>7. ASSUME NEW j \in ServerKeys PROVE ChildOK(lch', j) /\ FlowOK(lch', j) /\ StageOK(lch', j)
    <3>1. killed = FALSE => lch.kids[j] = 0
      BY <2>1, <2>6
    <3> QED BY <2>3, <2>4, <3>1 DEF ChildOK, FlowOK, StageOK
  <2> QED BY <2>3, <2>5, <2>7 DEF LaunchOK
<1>3. CASE GiveUp
  <2>1. LaunchAlike(lch', lch)
    BY <1>0, <1>3 DEF GiveUp, LaunchAlike, LaunchFields
  <2> QED BY <2>1, AlikeOK
<1> QED BY <1>1, <1>2, <1>3

\* An instance comes up, when its predecessor has let go of the mutex.
LEMMA LaunchStep == ASSUME LaunchOK(lch), Launch PROVE LaunchOK(lch')
<1>0. /\ LaunchTyped(lch) /\ DOMAIN lch = LaunchFields /\ lch.phase = "down" /\ FileOK(lch.file) /\ lch.file.active \subseteq ServerKeys
      /\ lch.checks \in [ServerKeys -> Nat] /\ lch.applies \in [ServerKeys -> Nat]
  BY DEF LaunchOK, LaunchTyped, Launch, MutexFree
<1>1. PICK admin \in BOOLEAN : lch' = Begin(lch, admin)
  BY DEF Launch
<1>2. PICK last : last = IF lch.file.exists THEN lch.file.active ELSE ServerKeys
  OBVIOUS
<1>3. /\ DOMAIN lch' = LaunchFields /\ lch'.phase = "up" /\ lch'.stage = "pending" /\ lch'.proc = NoProcs /\ lch'.kids = lch.kids
      /\ lch'.checks = lch.checks /\ lch'.applies = lch.applies /\ lch'.killed = lch.killed
      /\ lch'.last = last /\ lch'.reset = FALSE /\ lch'.file = lch.file /\ lch'.saved = lch.file.pend
  BY <1>0, <1>1, <1>2 DEF Begin, LaunchFields
<1>4. NoProcs \in [ServerKeys -> ProcStates] /\ \A k \in ServerKeys : NoProcs[k] = "none"
  BY DEF NoProcs, ProcStates
<1>5. last \subseteq ServerKeys /\ lch.file.pend \in Pendings
  BY <1>0, <1>2 DEF FileOK
<1>6. LaunchTyped(lch')
  BY <1>0, <1>3, <1>4, <1>5 DEF LaunchTyped
<1>7. ASSUME NEW j \in ServerKeys PROVE ChildOK(lch', j) /\ FlowOK(lch', j) /\ StageOK(lch', j)
  <2>1. ChildOK(lch, j) /\ FlowOK(lch, j) /\ StageOK(lch, j)
    BY DEF LaunchOK
  <2>2. lch.proc[j] # "live" /\ lch.checks[j] + lch.applies[j] # 1
    BY <1>0, <2>1 DEF StageOK, FlowOK
  <2>3. lch.file.pend = Start(j) => j \notin last
    BY <1>0, <1>2 DEF FileOK
  <2> QED BY <1>3, <1>4, <2>1, <2>2, <2>3 DEF ChildOK, FlowOK, StageOK
<1> QED BY <1>3, <1>6, <1>7 DEF LaunchOK

\* Every server process is one a card can stop, unless an instance was killed and its servers have not
\* noticed yet; and a factory reset is not written over: for any number of servers and instances, whatever
\* order checks, setups, prompts, timers and clicks come in (gui.py: on_toggle, start_server, stop_all,
\* _autostart_servers, reset_settings, _save). The hypothesis: the user does not click before the timers of
\* __init__ have fired, or a server could be started by hand and by the autostart.
THEOREM EverythingReached == ASSUME ~EarlyClicks PROVE LauncherSpec => []NothingLingers
<1>1. LauncherInit => LaunchOK(lch)
  <2> SUFFICES ASSUME LauncherInit PROVE LaunchOK(lch)
    OBVIOUS
  <2>1. PICK auto \in BOOLEAN, ignore \in BOOLEAN, rules \in SUBSET ServerKeys :
          lch = [launches |-> 0, phase |-> "down", successor |-> "none", admin |-> FALSE, reset |-> FALSE, stage |-> "pending",
              proc |-> NoProcs, kids |-> Idle, checks |-> Idle, applies |-> Idle, jobs |-> {},
              cache |-> {}, saved |-> NoPending, last |-> {}, auto |-> auto, ignore |-> ignore,
              rules |-> rules, killed |-> FALSE, goal |-> NoGoal,
              file |-> [NoFile EXCEPT !.exists = TRUE, !.auto = auto, !.ignore = ignore]]
    BY DEF LauncherInit
  <2>2. PICK f : f = [NoFile EXCEPT !.exists = TRUE, !.auto = auto, !.ignore = ignore]
    OBVIOUS
  <2>3. DOMAIN f = FileFields /\ f.exists = TRUE /\ f.active = {} /\ f.pend = NoPending
    BY <2>2 DEF NoFile, FileFields
  <2>4. FileOK(f) /\ f.active \subseteq ServerKeys
    BY <2>3, PendingsDiffer DEF FileOK
  <2>5. /\ DOMAIN lch = LaunchFields /\ lch.phase = "down" /\ lch.stage = "pending" /\ lch.proc = NoProcs /\ lch.kids = Idle
        /\ lch.checks = Idle /\ lch.applies = Idle /\ lch.killed = FALSE
        /\ lch.last = {} /\ lch.reset = FALSE /\ lch.file = f /\ lch.saved = NoPending
    BY <2>1, <2>2 DEF LaunchFields
  <2>6. /\ Idle \in [ServerKeys -> Nat] /\ \A k \in ServerKeys : Idle[k] = 0
        /\ NoProcs \in [ServerKeys -> ProcStates] /\ \A k \in ServerKeys : NoProcs[k] = "none"
    BY DEF Idle, NoProcs, ProcStates
  <2>7. LaunchTyped(lch)
    BY <2>4, <2>5, <2>6, PendingsDiffer DEF LaunchTyped
  <2>8. ASSUME NEW j \in ServerKeys PROVE ChildOK(lch, j) /\ FlowOK(lch, j) /\ StageOK(lch, j)
    BY <2>5, <2>6 DEF ChildOK, FlowOK, StageOK
  <2> QED BY <2>5, <2>7, <2>8 DEF LaunchOK
<1>2. LaunchOK(lch) /\ [LauncherNext]_launcherVars => LaunchOK(lch)'
  <2> SUFFICES ASSUME LaunchOK(lch), [LauncherNext]_launcherVars PROVE LaunchOK(lch')
    OBVIOUS
  <2>1. CASE (\E k \in ServerKeys : Toggle(k)) \/ StopEverything \/ ClickAllow \/ ClickCleanup
    BY <2>1, ClickSteps
  <2>2. CASE Leave \/ ResetSettings
    BY <2>2, LeaveSteps
  <2>3. CASE (\E k \in ServerKeys : CheckDone(k)) \/ (\E k \in ServerKeys : ApplyDone(k))
    BY <2>3, FlowSteps
  <2>4. CASE JobDone
    BY <2>4, JobStep
  <2>5. CASE Continue \/ Autostart \/ AutostartOne
    BY <2>5, TimerSteps
  <2>6. CASE \E k \in ServerKeys : ServerEnds(k)
    BY <2>6, ServerEndsStep
  <2>7. CASE ShutDown \/ Killed \/ GiveUp
    BY <2>7, EndSteps
  <2>8. CASE Launch
    BY <2>8, LaunchStep
  <2>9. CASE UNCHANGED launcherVars
    BY <2>9 DEF launcherVars
  <2> QED BY <2>1, <2>2, <2>3, <2>4, <2>5, <2>6, <2>7, <2>8, <2>9 DEF LauncherNext
<1>3. LaunchOK(lch) => NothingLingers
  BY DEF LaunchOK, LaunchTyped, ChildOK, NothingLingers, NoLostChild, ResetForgets
<1> QED BY <1>1, <1>2, <1>3, PTL DEF LauncherSpec

-----------------------------------------------------------------------------
(* DirectLink: the port is accounted for.                                    *)

LinkFields == {"phase", "elevated", "admin", "starts", "nic", "cfg", "restore", "file", "box", "busy", "proc", "expected", "rehomes", "workers"}
WorkKinds == {"apply", "rehome", "restore", "cleanup", "startup", "enumerate"}
Setting == {"apply", "rehome"}
Recorded == LinkAddrs \cup {"none"}

CfgOK(c) == DOMAIN c = {"addr", "enabled"} /\ c.addr \in Recorded /\ c.enabled \in BOOLEAN

LinkTyped(S) ==
  /\ DOMAIN S = LinkFields /\ S.phase \in {"up", "down"} /\ CfgOK(S.cfg) /\ CfgOK(S.file.cfg)
  /\ S.box \in BOOLEAN /\ S.busy \in BOOLEAN /\ S.expected \in BOOLEAN

\* While a worker is under way the user cannot use the box and no helper is expected to run.
ScriptOK(S, w) ==
  /\ DOMAIN w = {"kind", "addr", "clear", "done"} /\ w.kind \in WorkKinds /\ w.addr \in Recorded
  /\ S.phase = "up" => S.busy = TRUE /\ S.expected = FALSE /\ (w.kind \in {"startup", "rehome"} => S.cfg.enabled = TRUE)

\* There is one worker at most; a helper that runs is expected to, with the box ticked and nothing else going on.
LinkOK(S) ==
  /\ LinkTyped(S)
  /\ \A w \in S.workers : ScriptOK(S, w) /\ \A v \in S.workers : v = w
  /\ S.proc = "running" => S.expected = TRUE
  /\ S.expected = TRUE => S.phase = "up" /\ S.workers = {} /\ S.box = TRUE /\ S.busy = FALSE /\ S.cfg.enabled = TRUE

\* No risk is taken that strands a port: the launcher is not killed, prompts and scripts are not refused.
Sure == LinkRisks \subseteq {"admin"}

\* The address the launcher would put back, now or when it comes up again.
Address(S) == IF S.phase = "up" THEN S.cfg.addr ELSE S.file.cfg.addr
SetByWorker(S) == \E w \in S.workers : w.kind \in Setting /\ w.done = "no"

\* A port with an address has the one that is recorded, or a script is about to give it that one.
PortSafe(S) ==
  /\ \A w \in S.workers : /\ w.kind # "enumerate" => w.addr = Address(S)
                          /\ S.phase = "down" => w.done = "no"
                          /\ w.kind \in {"restore", "cleanup"} /\ w.done = "ok" => S.nic # w.addr
  /\ S.file.pend # "on" /\ S.nic \in LinkAddrs => S.nic = Address(S) \/ SetByWorker(S)
  /\ S.file.pend \in {"none", "on", "off"}
  /\ S.file.pend # "none" => S.phase = "down" /\ S.elevated = TRUE /\ S.workers = {}
  /\ S.file.pend = "on" => Address(S) # "none"

LinkGood(S) == LinkOK(S) /\ (Sure => PortSafe(S))

\* A handler at work: nothing is under way, and no helper runs.
AtWork(S) == LinkTyped(S) /\ S.phase = "up" /\ S.workers = {} /\ S.expected = FALSE /\ S.proc # "running"
NoRequest(S) == Sure => S.file.pend = "none"
PortKnown(S) == Sure => S.file.pend = "none" /\ (S.nic \in LinkAddrs => S.nic = S.cfg.addr)

-----------------------------------------------------------------------------
(* What a handler is made of.                                                *)

LEMMA RestGood == ASSUME NEW S, AtWork(S), PortKnown(S) PROVE LinkGood(S)
BY DEF AtWork, PortKnown, LinkGood, LinkOK, PortSafe, Address, SetByWorker

LEMMA AtWorkKept ==
  ASSUME NEW S, AtWork(S), NEW N, DOMAIN N = LinkFields, N.phase = S.phase, CfgOK(N.cfg), CfgOK(N.file.cfg), N.workers = {},
         N.box \in BOOLEAN, N.busy \in BOOLEAN, N.expected = FALSE, N.proc \in {"none", S.proc}
  PROVE  AtWork(N)
BY DEF AtWork, LinkTyped

LEMMA BoxWorks ==
  ASSUME NEW S, AtWork(S), NEW t \in BOOLEAN, NEW b \in BOOLEAN, NEW N, N = Box(S, t, b)
  PROVE  /\ AtWork(N) /\ N.box = t /\ N.busy = b /\ N.cfg = S.cfg /\ N.nic = S.nic /\ N.file = S.file /\ N.proc = S.proc
         /\ PortKnown(S) => PortKnown(N)
<1>0. DOMAIN S = LinkFields
  BY DEF AtWork, LinkTyped
<1>1. /\ DOMAIN N = LinkFields /\ N.phase = S.phase /\ N.nic = S.nic /\ N.cfg = S.cfg /\ N.file = S.file /\ N.box = t /\ N.busy = b
      /\ N.proc = S.proc /\ N.expected = S.expected /\ N.workers = S.workers
  BY <1>0 DEF Box, LinkFields
<1>2. AtWork(N)
  BY <1>1, AtWorkKept DEF AtWork, LinkTyped
<1> QED BY <1>1, <1>2 DEF PortKnown

LEMMA BoxedTT == ASSUME NEW S, AtWork(S), NEW N, N = Box(S, TRUE, TRUE)
  PROVE  /\ AtWork(N) /\ N.box = TRUE /\ N.busy = TRUE /\ N.cfg = S.cfg /\ N.nic = S.nic /\ N.file = S.file
         /\ PortKnown(S) => PortKnown(N)
<1>0. DOMAIN S = LinkFields
  BY DEF AtWork, LinkTyped
<1>1. /\ DOMAIN N = LinkFields /\ N.phase = S.phase /\ N.nic = S.nic /\ N.cfg = S.cfg /\ N.file = S.file /\ N.box = TRUE /\ N.busy = TRUE
      /\ N.proc = S.proc /\ N.expected = S.expected /\ N.workers = S.workers
  BY <1>0 DEF Box, LinkFields
<1>2. AtWork(N)
  BY <1>1, AtWorkKept DEF AtWork, LinkTyped
<1> QED BY <1>1, <1>2 DEF PortKnown

LEMMA BoxedTF == ASSUME NEW S, AtWork(S), NEW N, N = Box(S, TRUE, FALSE)
  PROVE  /\ AtWork(N) /\ N.box = TRUE /\ N.busy = FALSE /\ N.cfg = S.cfg /\ N.nic = S.nic /\ N.file = S.file
         /\ PortKnown(S) => PortKnown(N)
<1>0. DOMAIN S = LinkFields
  BY DEF AtWork, LinkTyped
<1>1. /\ DOMAIN N = LinkFields /\ N.phase = S.phase /\ N.nic = S.nic /\ N.cfg = S.cfg /\ N.file = S.file /\ N.box = TRUE /\ N.busy = FALSE
      /\ N.proc = S.proc /\ N.expected = S.expected /\ N.workers = S.workers
  BY <1>0 DEF Box, LinkFields
<1>2. AtWork(N)
  BY <1>1, AtWorkKept DEF AtWork, LinkTyped
<1> QED BY <1>1, <1>2 DEF PortKnown

LEMMA SaveWorks ==
  ASSUME NEW S, AtWork(S), NEW N, N = SaveLink(S, "none")
  PROVE  /\ AtWork(N) /\ N.box = S.box /\ N.busy = S.busy /\ N.cfg = S.cfg /\ N.nic = S.nic /\ N.proc = S.proc
         /\ NoRequest(N) /\ ((Sure => (S.nic \in LinkAddrs => S.nic = S.cfg.addr)) => PortKnown(N))
<1>0. DOMAIN S = LinkFields /\ CfgOK(S.cfg)
  BY DEF AtWork, LinkTyped
<1>1. PICK f : f = [cfg |-> S.cfg, restore |-> S.restore, pend |-> "none"]
  OBVIOUS
<1>2. /\ DOMAIN N = LinkFields /\ N.phase = S.phase /\ N.nic = S.nic /\ N.cfg = S.cfg /\ N.file = f /\ N.box = S.box /\ N.busy = S.busy
      /\ N.proc = S.proc /\ N.expected = S.expected /\ N.workers = S.workers
  BY <1>0, <1>1 DEF SaveLink, LinkFields
<1>3. f.cfg = S.cfg /\ f.pend = "none"
  BY <1>1
<1>4. AtWork(N)
  BY <1>0, <1>2, <1>3, AtWorkKept DEF AtWork, LinkTyped
<1> QED BY <1>2, <1>3, <1>4 DEF PortKnown, NoRequest

\* _stop_direct_responder, for a launcher with no worker under way
LEMMA StopWorks ==
  ASSUME NEW S, LinkOK(S), S.phase = "up", S.workers = {}, NEW N, N = StopResponder(S)
  PROVE  /\ AtWork(N) /\ N.box = S.box /\ N.busy = S.busy /\ N.cfg = S.cfg /\ N.nic = S.nic /\ N.file = S.file
         /\ PortKnown(S) => PortKnown(N)
<1>0. LinkTyped(S) /\ DOMAIN S = LinkFields
  BY DEF LinkOK, LinkTyped
<1>1. /\ DOMAIN N = LinkFields /\ N.phase = S.phase /\ N.nic = S.nic /\ N.cfg = S.cfg /\ N.file = S.file /\ N.box = S.box /\ N.busy = S.busy
      /\ N.proc = "none" /\ N.expected = FALSE /\ N.workers = S.workers
  BY <1>0 DEF StopResponder, LinkFields
<1>2. AtWork(N)
  BY <1>0, <1>1 DEF AtWork, LinkTyped
<1> QED BY <1>1, <1>2 DEF PortKnown

\* A worker is sent off: with the recorded address, or to look for ports.
LEMMA WorkGood ==
  ASSUME NEW S, AtWork(S), S.busy = TRUE, NEW kind \in WorkKinds, NEW addr \in Recorded, NEW clear,
         kind \in {"startup", "rehome"} => S.cfg.enabled = TRUE,
         Sure /\ kind # "enumerate" => addr = S.cfg.addr,
         PortKnown(S) \/ (NoRequest(S) /\ kind \in Setting),
         NEW N, N = Work(S, kind, addr, clear)
  PROVE  LinkGood(N)
<1>0. LinkTyped(S) /\ DOMAIN S = LinkFields /\ S.phase = "up" /\ S.workers = {} /\ S.expected = FALSE /\ S.proc # "running"
  BY DEF AtWork, LinkTyped
<1>1. PICK w : w = [kind |-> kind, addr |-> addr, clear |-> clear, done |-> "no"]
  OBVIOUS
<1>2. /\ DOMAIN N = LinkFields /\ N.phase = S.phase /\ N.nic = S.nic /\ N.cfg = S.cfg /\ N.file = S.file /\ N.box = S.box /\ N.busy = S.busy
      /\ N.proc = S.proc /\ N.expected = S.expected /\ N.workers = S.workers \cup {w}
  BY <1>0, <1>1 DEF Work, LinkFields
<1>3. N.workers = {w}
  BY <1>0, <1>2
<1>4. DOMAIN w = {"kind", "addr", "clear", "done"} /\ w.kind = kind /\ w.addr = addr /\ w.done = "no"
  BY <1>1
<1>5. LinkTyped(N)
  BY <1>0, <1>2 DEF LinkTyped
<1>6. ScriptOK(N, w)
  BY <1>0, <1>2, <1>4 DEF ScriptOK
<1>7. LinkOK(N)
  BY <1>0, <1>2, <1>3, <1>5, <1>6 DEF LinkOK
<1>8. ASSUME Sure PROVE PortSafe(N)
  <2>1. Address(N) = S.cfg.addr /\ N.file.pend = "none"
    BY <1>0, <1>2, <1>8 DEF Address, PortKnown, NoRequest
  <2>2. kind \in Setting => SetByWorker(N)
    BY <1>3, <1>4 DEF SetByWorker
  <2> QED BY <1>0, <1>2, <1>3, <1>4, <1>8, <2>1, <2>2 DEF PortSafe, PortKnown
<1> QED BY <1>7, <1>8 DEF LinkGood

\* All but the settings, the recovery marker and the count of moves is as it was.
SetAs(N, S) ==
  /\ DOMAIN N = LinkFields /\ N.phase = S.phase /\ N.nic = S.nic /\ N.file = S.file /\ N.box = S.box /\ N.busy = S.busy
  /\ N.proc = S.proc /\ N.expected = S.expected /\ N.workers = S.workers /\ N.admin = S.admin

LEMMA SetWorks ==
  ASSUME NEW S, AtWork(S), NEW N, SetAs(N, S), CfgOK(N.cfg)
  PROVE  /\ AtWork(N)
         /\ PortKnown(S) /\ N.cfg.addr = S.cfg.addr => PortKnown(N)
<1>1. AtWork(N)
  BY AtWorkKept DEF AtWork, LinkTyped, SetAs
<1> QED BY <1>1 DEF PortKnown, SetAs

LEMMA SwitchedCfg ==
  ASSUME NEW S, CfgOK(S.cfg), NEW v \in BOOLEAN, NEW c, c = [S.cfg EXCEPT !.enabled = v]
  PROVE  CfgOK(c) /\ c.addr = S.cfg.addr /\ c.enabled = v
BY DEF CfgOK

LEMMA SwitchedOn ==
  ASSUME NEW S, CfgOK(S.cfg), NEW c, c = [S.cfg EXCEPT !.enabled = TRUE]
  PROVE  CfgOK(c) /\ c.addr = S.cfg.addr /\ c.enabled = TRUE
BY DEF CfgOK

LEMMA NoCfgOK == CfgOK(NoCfg) /\ NoCfg.addr = "none"
BY DEF CfgOK, NoCfg, Recorded

LEMMA RestoreGood ==
  ASSUME NEW S, AtWork(S), PortKnown(S), NEW clear, NEW N, N = RestoreAsync(S, clear)
  PROVE  LinkGood(N)
<1>1. PICK B : B = Box(S, FALSE, TRUE)
  OBVIOUS
<1>2. AtWork(B) /\ B.busy = TRUE /\ B.cfg = S.cfg /\ PortKnown(B)
  BY <1>1, BoxWorks
<1>3. N = Work(B, "restore", S.cfg.addr, clear)
  BY <1>1 DEF RestoreAsync
<1>4. S.cfg.addr \in Recorded /\ "restore" \in WorkKinds
  BY DEF AtWork, LinkTyped, CfgOK, WorkKinds
<1> QED BY <1>2, <1>3, <1>4, WorkGood

\* _rollback_failed_direct_responder keeps the address on record while the port is put back.
LEMMA RollbackGood ==
  ASSUME NEW S, AtWork(S), PortKnown(S), NEW N, N = RollbackFailed(S)
  PROVE  LinkGood(N)
<1>0. DOMAIN S = LinkFields /\ CfgOK(S.cfg)
  BY DEF AtWork, LinkTyped
<1>1. PICK c : c = [S.cfg EXCEPT !.enabled = FALSE]
  OBVIOUS
<1>2. PICK A : A = [S EXCEPT !.cfg.enabled = FALSE, !.restore = TRUE]
  OBVIOUS
<1>3. SetAs(A, S) /\ A.cfg = c
  BY <1>0, <1>1, <1>2 DEF SetAs, LinkFields
<1>4. AtWork(A) /\ PortKnown(A)
  BY <1>0, <1>1, <1>3, SwitchedCfg, SetWorks
<1>5. PICK B : B = SaveLink(A, "none")
  OBVIOUS
<1>6. AtWork(B) /\ PortKnown(B)
  BY <1>4, <1>5, SaveWorks DEF PortKnown
<1>7. N = RestoreAsync(B, TRUE)
  BY <1>2, <1>5 DEF RollbackFailed
<1> QED BY <1>6, <1>7, RestoreGood

\* _start_direct_responder with its two callers: the helper runs, or everything is put back.
LEMMA ResponderGood ==
  ASSUME NEW S, AtWork(S), PortKnown(S), NEW T, AtWork(T), PortKnown(T), T.box = TRUE, T.busy = FALSE, T.cfg.enabled = TRUE,
         NEW N \in WithResponder(S, T)
  PROVE  LinkGood(N)
<1>1. S.proc # "running"
  BY DEF AtWork
<1>2. CASE N = RollbackFailed(LinkFail(S))
  <2>1. PICK F : F = LinkFail(S)
    OBVIOUS
  <2>2. AtWork(F) /\ PortKnown(F)
    BY <2>1, BoxWorks DEF LinkFail
  <2> QED BY <1>2, <2>1, <2>2, RollbackGood
<1>3. CASE N = [T EXCEPT !.proc = "running", !.expected = TRUE]
  <2>0. LinkTyped(T) /\ DOMAIN T = LinkFields /\ T.phase = "up" /\ T.workers = {}
    BY DEF AtWork, LinkTyped
  <2>1. /\ DOMAIN N = LinkFields /\ N.phase = T.phase /\ N.nic = T.nic /\ N.cfg = T.cfg /\ N.file = T.file /\ N.box = T.box
        /\ N.busy = T.busy /\ N.expected = TRUE /\ N.workers = T.workers
    BY <1>3, <2>0 DEF LinkFields
  <2>2. LinkOK(N)
    BY <2>0, <2>1 DEF LinkOK, LinkTyped
  <2>3. Sure => PortSafe(N)
    BY <2>0, <2>1 DEF PortSafe, PortKnown, Address
  <2> QED BY <2>2, <2>3 DEF LinkGood
<1> QED BY <1>1, <1>2, <1>3 DEF WithResponder

\* relaunch_as_admin: the request and its address are on disk, or the prompt was refused.
LEMMA ElevateGood ==
  ASSUME NEW S, AtWork(S), NEW pend \in {"on", "off"}, pend = "on" => S.cfg.addr # "none", pend = "off" => PortKnown(S),
         NEW N \in LinkElevate(S, pend)
  PROVE  LinkGood(N)
<1>0. LinkTyped(S) /\ DOMAIN S = LinkFields /\ S.phase = "up" /\ S.workers = {} /\ CfgOK(S.cfg)
  BY DEF AtWork, LinkTyped
<1>1. CASE N = [StopResponder(SaveLink(S, pend)) EXCEPT !.phase = "down", !.elevated = TRUE]
  <2>1. PICK f : f = [cfg |-> S.cfg, restore |-> S.restore, pend |-> pend]
    OBVIOUS
  <2>2. f.cfg = S.cfg /\ f.pend = pend
    BY <2>1
  <2>3. PICK A : A = SaveLink(S, pend)
    OBVIOUS
  <2>4. /\ DOMAIN A = LinkFields /\ A.nic = S.nic /\ A.cfg = S.cfg /\ A.file = f /\ A.box = S.box /\ A.busy = S.busy
        /\ A.workers = {}
    BY <1>0, <2>1, <2>3 DEF SaveLink, LinkFields
  <2>5. PICK B : B = StopResponder(A)
    OBVIOUS
  <2>6. /\ DOMAIN B = LinkFields /\ B.nic = S.nic /\ B.cfg = S.cfg /\ B.file = f /\ B.box = S.box /\ B.busy = S.busy
        /\ B.workers = {} /\ B.proc = "none" /\ B.expected = FALSE
    BY <2>4, <2>5 DEF StopResponder, LinkFields
  <2>7. /\ DOMAIN N = LinkFields /\ N.nic = S.nic /\ N.cfg = S.cfg /\ N.file = f /\ N.box = S.box /\ N.busy = S.busy
        /\ N.workers = {} /\ N.proc = "none" /\ N.expected = FALSE /\ N.phase = "down" /\ N.elevated = TRUE
    BY <1>1, <2>3, <2>5, <2>6 DEF LinkFields
  <2>8. LinkOK(N)
    BY <1>0, <2>2, <2>7 DEF LinkOK, LinkTyped
  <2>9. Sure => PortSafe(N)
    BY <1>0, <2>2, <2>7 DEF PortSafe, PortKnown, Address
  <2> QED BY <2>8, <2>9 DEF LinkGood
<1>2. CASE "uac" \in LinkRisks /\ N = LinkFail(SaveLink(S, "none"))
  <2>1. PICK A : A = SaveLink(S, "none")
    OBVIOUS
  <2>2. AtWork(A)
    BY <2>1, SaveWorks
  <2>3. AtWork(N)
    BY <1>2, <2>1, <2>2, BoxWorks DEF LinkFail
  <2>4. ~Sure
    BY <1>2 DEF Sure
  <2> QED BY <2>3, <2>4, RestGood DEF PortKnown
<1> QED BY <1>1, <1>2 DEF LinkElevate

-----------------------------------------------------------------------------
(* What Tk hears of a worker.                                                *)

LEMMA FailGood == ASSUME NEW S, AtWork(S), PortKnown(S), NEW N, N = LinkFail(S) PROVE LinkGood(N)
<1>1. AtWork(N) /\ PortKnown(N)
  BY BoxWorks DEF LinkFail
<1> QED BY <1>1, RestGood

\* _direct_link_choose
LEMMA ChooseGood ==
  ASSUME NEW S, AtWork(S), PortKnown(S), NEW N \in Choose(S)
  PROVE  LinkGood(N)
<1>0. DOMAIN S = LinkFields
  BY DEF AtWork, LinkTyped
<1>1. ASSUME NEW a \in LinkAddrs, NEW T, T = [S EXCEPT !.cfg = [addr |-> a, enabled |-> FALSE]]
      PROVE  AtWork(T) /\ NoRequest(T) /\ T.cfg.addr = a
  <2>1. PICK c : c = [addr |-> a, enabled |-> FALSE]
    OBVIOUS
  <2>2. CfgOK(c) /\ c.addr = a
    BY <2>1 DEF CfgOK, Recorded
  <2>3. SetAs(T, S) /\ T.cfg = c
    BY <1>0, <1>1, <2>1 DEF SetAs, LinkFields
  <2> QED BY <2>2, <2>3, SetWorks DEF NoRequest, PortKnown, SetAs
<1>2. ASSUME NEW a \in LinkAddrs, NEW T, T = [S EXCEPT !.cfg = [addr |-> a, enabled |-> FALSE]],
             N = Work(Box(T, TRUE, TRUE), "apply", a, FALSE)
      PROVE  LinkGood(N)
  <2>1. AtWork(T) /\ NoRequest(T) /\ T.cfg.addr = a
    BY <1>1, <1>2
  <2>2. PICK B : B = Box(T, TRUE, TRUE)
    OBVIOUS
  <2>3. AtWork(B) /\ B.busy = TRUE /\ B.cfg.addr = a /\ NoRequest(B)
    BY <2>1, <2>2, BoxedTT DEF NoRequest
  <2>4. a \in Recorded /\ "apply" \in WorkKinds /\ "apply" \in Setting
    BY DEF Recorded, WorkKinds, Setting
  <2> QED BY <1>2, <2>2, <2>3, <2>4, WorkGood
<1>3. ASSUME NEW a \in LinkAddrs, NEW T, T = [S EXCEPT !.cfg = [addr |-> a, enabled |-> FALSE]], N \in LinkElevate(T, "on")
      PROVE  LinkGood(N)
  <2>1. AtWork(T) /\ T.cfg.addr = a
    BY <1>1, <1>3
  <2>2. a # "none"
    BY DirectLinkAssumption
  <2> QED BY <1>3, <2>1, <2>2, ElevateGood
<1>4. CASE N = LinkFail(S)
  BY <1>4, FailGood
<1>5. CASE N # LinkFail(S)
  <2>1. PICK a \in LinkAddrs : N \in LET T == [S EXCEPT !.cfg = [addr |-> a, enabled |-> FALSE]]
                                    IN  IF T.admin THEN {Work(Box(T, TRUE, TRUE), "apply", a, FALSE)} ELSE LinkElevate(T, "on")
    BY <1>5 DEF Choose
  <2>2. PICK T : T = [S EXCEPT !.cfg = [addr |-> a, enabled |-> FALSE]]
    OBVIOUS
  <2>3. N \in IF T.admin THEN {Work(Box(T, TRUE, TRUE), "apply", a, FALSE)} ELSE LinkElevate(T, "on")
    BY <2>1, <2>2
  <2> QED BY <1>2, <1>3, <2>2, <2>3
<1> QED BY <1>4, <1>5

\* _direct_link_enabled
LEMMA EnabledGood ==
  ASSUME NEW S, AtWork(S), PortKnown(S), NEW N \in Enabled(S)
  PROVE  LinkGood(N)
<1>0. DOMAIN S = LinkFields /\ CfgOK(S.cfg)
  BY DEF AtWork, LinkTyped
<1>1. PICK T : T = [S EXCEPT !.rehomes = 0]
  OBVIOUS
<1>2. SetAs(T, S) /\ T.cfg = S.cfg
  BY <1>0, <1>1 DEF SetAs, LinkFields
<1>3. AtWork(T) /\ PortKnown(T) /\ DOMAIN T = LinkFields /\ CfgOK(T.cfg)
  BY <1>0, <1>2, SetWorks DEF SetAs
<1>4. PICK c : c = [T.cfg EXCEPT !.enabled = TRUE]
  OBVIOUS
<1>5. PICK A : A = [T EXCEPT !.cfg.enabled = TRUE]
  OBVIOUS
<1>6. SetAs(A, T) /\ A.cfg = c
  BY <1>3, <1>4, <1>5 DEF SetAs, LinkFields
<1>7. CfgOK(c) /\ c.addr = T.cfg.addr /\ c.enabled = TRUE
  BY <1>3, <1>4, SwitchedOn
<1>7a. AtWork(A) /\ PortKnown(A) /\ A.cfg.enabled = TRUE
  BY <1>3, <1>6, <1>7, SetWorks
<1>8. PICK B : B = SaveLink(A, "none")
  OBVIOUS
<1>9. AtWork(B) /\ PortKnown(B) /\ B.cfg.enabled = TRUE
  BY <1>7a, <1>8, SaveWorks DEF PortKnown
<1>10. PICK C : C = Box(B, TRUE, FALSE)
  OBVIOUS
<1>11. AtWork(C) /\ PortKnown(C) /\ C.cfg.enabled = TRUE /\ C.box = TRUE /\ C.busy = FALSE
  BY <1>9, <1>10, BoxedTF
<1>12. N \in IF ~Known(T) THEN {T} ELSE WithResponder(T, C)
  BY <1>1, <1>5, <1>8, <1>10 DEF Enabled
<1> QED BY <1>3, <1>11, <1>12, RestGood, ResponderGood

\* _direct_link_restored: the settings go only when the port no longer carries their address.
LEMMA RestoredGood ==
  ASSUME NEW S, AtWork(S), PortKnown(S), Sure => S.nic \notin LinkAddrs, NEW clear, NEW N, N = LinkRestored(S, clear)
  PROVE  LinkGood(N)
<1>0. DOMAIN S = LinkFields /\ CfgOK(S.cfg)
  BY DEF AtWork, LinkTyped
<1>1. PICK T : T = [S EXCEPT !.restore = FALSE, !.cfg = IF clear THEN NoCfg ELSE S.cfg]
  OBVIOUS
<1>2. SetAs(T, S) /\ CfgOK(T.cfg)
  BY <1>0, <1>1, NoCfgOK DEF SetAs, LinkFields
<1>3. AtWork(T) /\ PortKnown(T)
  BY <1>2, SetWorks DEF PortKnown, SetAs
<1>4. PICK U : U = SaveLink(T, "none")
  OBVIOUS
<1>5. AtWork(U) /\ PortKnown(U)
  BY <1>3, <1>4, SaveWorks DEF PortKnown
<1>6. N = LinkFail(IF clear \/ S.restore THEN U ELSE T)
  BY <1>1, <1>4 DEF LinkRestored
<1> QED BY <1>3, <1>5, <1>6, FailGood

\* _direct_link_rehome_done
LEMMA RehomeDoneGood ==
  ASSUME NEW S, AtWork(S), PortKnown(S), S.cfg.enabled = TRUE, NEW N \in RehomeDone(S)
  PROVE  LinkGood(N)
<1>0. DOMAIN S = LinkFields /\ CfgOK(S.cfg) /\ CfgOK(S.file.cfg) /\ S.workers = {} /\ S.expected = FALSE /\ S.box \in BOOLEAN /\ S.busy \in BOOLEAN
  BY DEF AtWork, LinkTyped
<1>1. PICK T : T = [S EXCEPT !.proc = "none"]
  OBVIOUS
<1>2. /\ DOMAIN T = LinkFields /\ T.phase = S.phase /\ T.nic = S.nic /\ T.cfg = S.cfg /\ T.file = S.file /\ T.box = S.box /\ T.busy = S.busy
      /\ T.proc = "none" /\ T.expected = S.expected /\ T.workers = S.workers
  BY <1>0, <1>1 DEF LinkFields
<1>3. AtWork(T) /\ PortKnown(T)
  BY <1>0, <1>2, AtWorkKept DEF PortKnown
<1>4. PICK A : A = [T EXCEPT !.restore = FALSE]
  OBVIOUS
<1>5. SetAs(A, T) /\ A.cfg = T.cfg
  BY <1>2, <1>4 DEF SetAs, LinkFields
<1>6. AtWork(A) /\ PortKnown(A) /\ A.cfg.enabled = TRUE
  BY <1>0, <1>2, <1>3, <1>5, SetWorks
<1>7. PICK B : B = SaveLink(A, "none")
  OBVIOUS
<1>8. AtWork(B) /\ PortKnown(B) /\ B.cfg.enabled = TRUE
  BY <1>6, <1>7, SaveWorks DEF PortKnown
<1>9. PICK C : C = Box(B, TRUE, FALSE)
  OBVIOUS
<1>10. AtWork(C) /\ PortKnown(C) /\ C.cfg.enabled = TRUE /\ C.box = TRUE /\ C.busy = FALSE
  BY <1>8, <1>9, BoxedTF
<1>11. N \in IF ~Known(S) THEN {T} ELSE WithResponder(T, C)
  BY <1>1, <1>4, <1>7, <1>9 DEF RehomeDone
<1> QED BY <1>3, <1>10, <1>11, RestGood, ResponderGood

\* _direct_link_startup_done
LEMMA StartupDoneGood ==
  ASSUME NEW S, AtWork(S), PortKnown(S), S.cfg.enabled = TRUE, NEW N \in StartupDone(S)
  PROVE  LinkGood(N)
<1>1. PICK C : C = Box(S, TRUE, FALSE)
  OBVIOUS
<1>2. AtWork(C) /\ PortKnown(C) /\ C.cfg.enabled = TRUE /\ C.box = TRUE /\ C.busy = FALSE
  BY <1>1, BoxedTF
<1>3. N \in IF ~Known(S) THEN {S} ELSE WithResponder(S, C)
  BY <1>1 DEF StartupDone
<1> QED BY <1>2, <1>3, RestGood, ResponderGood

\* _finish_direct_cleanup, _fail_direct_cleanup
LEMMA CleanupDoneGood ==
  ASSUME NEW S, AtWork(S), PortKnown(S), NEW ok \in BOOLEAN, ok /\ Sure => S.nic \notin LinkAddrs, NEW N, N = CleanupDone(S, ok)
  PROVE  LinkGood(N)
<1>0. DOMAIN S = LinkFields /\ CfgOK(S.cfg) /\ S.cfg.enabled \in BOOLEAN
  BY DEF AtWork, LinkTyped, CfgOK
<1>1. CASE ok
  <2>1. PICK T : T = [S EXCEPT !.cfg = NoCfg, !.restore = FALSE]
    OBVIOUS
  <2>2. SetAs(T, S) /\ CfgOK(T.cfg)
    BY <1>0, <2>1, NoCfgOK DEF SetAs, LinkFields
  <2>3. AtWork(T) /\ PortKnown(T)
    BY <1>1, <2>2, SetWorks DEF PortKnown, SetAs
  <2>4. PICK U : U = SaveLink(T, "none")
    OBVIOUS
  <2>5. AtWork(U) /\ PortKnown(U)
    BY <2>3, <2>4, SaveWorks DEF PortKnown
  <2>6. N = LinkFail(U)
    BY <1>1, <2>1, <2>4 DEF CleanupDone
  <2> QED BY <2>5, <2>6, FailGood
<1>2. CASE ~ok
  <2>1. N = Box(S, S.cfg.enabled, FALSE)
    BY <1>2 DEF CleanupDone
  <2>2. PICK e \in BOOLEAN : e = S.cfg.enabled
    BY <1>0
  <2>2a. N = Box(S, e, FALSE)
    BY <2>1, <2>2
  <2>2b. AtWork(N) /\ PortKnown(N)
    BY ONLY AtWork(S), PortKnown(S), e \in BOOLEAN, FALSE \in BOOLEAN, <2>2a, BoxWorks
  <2> QED BY <2>2b, RestGood
<1> QED BY <1>1, <1>2

-----------------------------------------------------------------------------
(* The steps.                                                                *)

\* What a script may leave behind when nothing is refused.
LEMMA OutcomeOK ==
  ASSUME NEW S, Sure, NEW w, w.kind \in WorkKinds, NEW o \in Outcomes(S, w)
  PROVE  /\ w.kind \in Setting => o.nic \in {w.addr, "dhcp"}
         /\ w.kind \notin Setting => o.nic \in {S.nic, "dhcp"}
         /\ w.kind \in {"restore", "cleanup"} /\ o.done = "ok" => o.nic # w.addr \/ (o.nic = "dhcp")
<1>0. "refused" \notin LinkRisks /\ "norights" \notin LinkRisks
  BY DEF Sure
<1>1. CASE w.kind = "apply"
  BY <1>0, <1>1 DEF Outcomes, Applied, Setting
<1>2. CASE w.kind = "rehome"
  BY <1>0, <1>2 DEF Outcomes, Applied, Setting
<1>3. CASE w.kind \in {"restore", "cleanup"}
  BY <1>0, <1>3 DEF Outcomes, Restored, Setting
<1>4. CASE w.kind = "startup"
  BY <1>4 DEF Outcomes, Setting
<1>5. CASE w.kind = "enumerate"
  BY <1>5 DEF Outcomes, Setting
<1> QED BY <1>1, <1>2, <1>3, <1>4, <1>5 DEF WorkKinds

LEMMA RunStep == ASSUME LinkGood(dl), RunWorker PROVE LinkGood(dl')
<1>1. PICK w \in dl.workers : w.done = "no" /\ \E o \in Outcomes(dl, w) :
         dl' = [dl EXCEPT !.nic = o.nic, !.workers = (dl.workers \ {w}) \cup (IF dl.phase = "up" THEN {[w EXCEPT !.done = o.done]} ELSE {})]
  BY DEF RunWorker
<1>2. PICK o \in Outcomes(dl, w) :
         dl' = [dl EXCEPT !.nic = o.nic, !.workers = (dl.workers \ {w}) \cup (IF dl.phase = "up" THEN {[w EXCEPT !.done = o.done]} ELSE {})]
  BY <1>1
<1>3. /\ LinkOK(dl) /\ LinkTyped(dl) /\ DOMAIN dl = LinkFields /\ ScriptOK(dl, w) /\ dl.workers = {w}
      /\ dl.expected = FALSE /\ dl.proc # "running"
  BY <1>1 DEF LinkGood, LinkOK, LinkTyped
<1>4. PICK v : v = [w EXCEPT !.done = o.done]
  OBVIOUS
<1>5. DOMAIN v = {"kind", "addr", "clear", "done"} /\ v.kind = w.kind /\ v.addr = w.addr /\ v.done = o.done
  BY <1>3, <1>4 DEF ScriptOK
<1>6. PICK ws : ws = IF dl.phase = "up" THEN {v} ELSE {}
  OBVIOUS
<1>7. (dl.workers \ {w}) \cup (IF dl.phase = "up" THEN {[w EXCEPT !.done = o.done]} ELSE {}) = ws
  BY <1>3, <1>4, <1>6
<1>8. /\ DOMAIN dl' = LinkFields /\ dl'.phase = dl.phase /\ dl'.nic = o.nic /\ dl'.cfg = dl.cfg /\ dl'.file = dl.file /\ dl'.box = dl.box
      /\ dl'.busy = dl.busy /\ dl'.proc = dl.proc /\ dl'.expected = dl.expected /\ dl'.workers = ws /\ dl'.elevated = dl.elevated
  BY <1>2, <1>3, <1>7 DEF LinkFields
<1>9. LinkOK(dl')
  <2>1. LinkTyped(dl')
    BY <1>3, <1>8 DEF LinkTyped
  <2>2. dl.phase = "up" => ScriptOK(dl', v)
    BY <1>3, <1>5, <1>8 DEF ScriptOK
  <2> QED BY <1>3, <1>6, <1>8, <2>1, <2>2 DEF LinkOK
<1>10. ASSUME Sure PROVE PortSafe(dl')
  <2>1. PortSafe(dl) /\ dl.file.pend = "none"
    BY <1>3, <1>10 DEF LinkGood, PortSafe
  <2>2. Address(dl') = Address(dl)
    BY <1>8 DEF Address
  <2>3. w.kind # "enumerate" => w.addr = Address(dl)
    BY <1>1, <2>1 DEF PortSafe
  <2>4. w.kind \notin Setting /\ dl.nic \in LinkAddrs => dl.nic = Address(dl)
    BY <1>3, <2>1 DEF PortSafe, SetByWorker
  <2>5. /\ w.kind \in Setting => o.nic \in {w.addr, "dhcp"}
        /\ w.kind \notin Setting => o.nic \in {dl.nic, "dhcp"}
        /\ w.kind \in {"restore", "cleanup"} /\ o.done = "ok" => o.nic # w.addr \/ (o.nic = "dhcp")
    BY <1>2, <1>3, <1>10, OutcomeOK DEF ScriptOK
  <2>6. "dhcp" \notin LinkAddrs /\ w.addr # "dhcp"
    BY <1>3, DirectLinkAssumption DEF ScriptOK, Recorded
  <2>7. o.nic \in LinkAddrs => o.nic = Address(dl)
    BY <2>3, <2>4, <2>5, <2>6 DEF Setting
  <2>8. w.kind \in {"restore", "cleanup"} /\ o.done = "ok" => o.nic # w.addr
    BY <2>5, <2>6
  <2> QED BY <1>5, <1>6, <1>8, <2>1, <2>2, <2>3, <2>7, <2>8 DEF PortSafe
<1> QED BY <1>9, <1>10 DEF LinkGood

LEMMA HeardStep == ASSUME LinkGood(dl), Heard PROVE LinkGood(dl')
<1>1. PICK w \in dl.workers : /\ w.done # "no"
       /\ LET S == [dl EXCEPT !.workers = dl.workers \ {w}]
              ok == w.done = "ok"
          IN  dl' \in CASE w.kind = "enumerate" -> IF ok THEN Choose(S) ELSE {LinkFail(S)}
                        [] w.kind = "apply" -> IF ok THEN Enabled(S) ELSE {LinkFail(S)}
                        [] w.kind = "restore" -> IF ok THEN {LinkRestored(S, w.clear)} ELSE {LinkFail(S)}
                        [] w.kind = "rehome" -> IF ok THEN RehomeDone(S) ELSE {RollbackFailed(S)}
                        [] w.kind = "startup" -> IF ok THEN StartupDone(S) ELSE {RollbackFailed(S)}
                        [] w.kind = "cleanup" -> {CleanupDone(S, ok)}
  BY DEF Heard
<1>2. PICK S : S = [dl EXCEPT !.workers = dl.workers \ {w}]
  OBVIOUS
<1>3. PICK ok \in BOOLEAN : ok = (w.done = "ok")
  OBVIOUS
<1>4. dl' \in CASE w.kind = "enumerate" -> IF ok THEN Choose(S) ELSE {LinkFail(S)}
                 [] w.kind = "apply" -> IF ok THEN Enabled(S) ELSE {LinkFail(S)}
                 [] w.kind = "restore" -> IF ok THEN {LinkRestored(S, w.clear)} ELSE {LinkFail(S)}
                 [] w.kind = "rehome" -> IF ok THEN RehomeDone(S) ELSE {RollbackFailed(S)}
                 [] w.kind = "startup" -> IF ok THEN StartupDone(S) ELSE {RollbackFailed(S)}
                 [] w.kind = "cleanup" -> {CleanupDone(S, ok)}
  BY <1>1, <1>2, <1>3, Zenon
<1>5. /\ LinkTyped(dl) /\ DOMAIN dl = LinkFields /\ ScriptOK(dl, w) /\ dl.workers = {w} /\ dl.phase = "up"
      /\ dl.expected = FALSE /\ dl.proc # "running"
  BY <1>1 DEF LinkGood, LinkOK, LinkTyped, Heard
<1>6. /\ DOMAIN S = LinkFields /\ S.phase = dl.phase /\ S.nic = dl.nic /\ S.cfg = dl.cfg /\ S.file = dl.file /\ S.box = dl.box
      /\ S.busy = dl.busy /\ S.proc = dl.proc /\ S.expected = dl.expected /\ S.workers = {}
  BY <1>2, <1>5 DEF LinkFields
<1>7. AtWork(S)
  BY <1>5, <1>6 DEF AtWork, LinkTyped
<1>8. PortKnown(S)
  BY <1>1, <1>5, <1>6 DEF PortKnown, LinkGood, PortSafe, SetByWorker, Address
<1>9. w.kind \in {"restore", "cleanup"} /\ w.done = "ok" /\ Sure => S.nic \notin LinkAddrs
  BY <1>1, <1>5, <1>6, <1>8 DEF PortKnown, LinkGood, PortSafe, Address
<1>10. w.kind \in {"startup", "rehome"} => S.cfg.enabled = TRUE
  BY <1>5, <1>6 DEF ScriptOK
<1>11. CASE w.kind = "enumerate"
  <2>1. dl' \in IF ok THEN Choose(S) ELSE {LinkFail(S)}
    BY <1>4, <1>11
  <2> QED BY <1>7, <1>8, <2>1, ChooseGood, FailGood
<1>12. CASE w.kind = "apply"
  <2>1. dl' \in IF ok THEN Enabled(S) ELSE {LinkFail(S)}
    BY <1>4, <1>12
  <2> QED BY <1>7, <1>8, <2>1, EnabledGood, FailGood
<1>13. CASE w.kind = "restore"
  <2>1. dl' \in IF ok THEN {LinkRestored(S, w.clear)} ELSE {LinkFail(S)}
    BY <1>4, <1>13
  <2>2. ok /\ Sure => S.nic \notin LinkAddrs
    BY <1>3, <1>9, <1>13
  <2> QED BY <1>7, <1>8, <2>1, <2>2, RestoredGood, FailGood
<1>14. CASE w.kind = "rehome"
  <2>1. dl' \in IF ok THEN RehomeDone(S) ELSE {RollbackFailed(S)}
    BY <1>4, <1>14
  <2> QED BY <1>7, <1>8, <1>10, <1>14, <2>1, RehomeDoneGood, RollbackGood
<1>15. CASE w.kind = "startup"
  <2>1. dl' \in IF ok THEN StartupDone(S) ELSE {RollbackFailed(S)}
    BY <1>4, <1>15
  <2> QED BY <1>7, <1>8, <1>10, <1>15, <2>1, StartupDoneGood, RollbackGood
<1>16. CASE w.kind = "cleanup"
  <2>1. dl' = CleanupDone(S, ok)
    BY <1>4, <1>16
  <2>2. ok /\ Sure => S.nic \notin LinkAddrs
    BY <1>3, <1>9, <1>16
  <2> QED BY <1>3, <1>7, <1>8, <2>1, <2>2, CleanupDoneGood
<1> QED BY <1>5, <1>11, <1>12, <1>13, <1>14, <1>15, <1>16 DEF ScriptOK, WorkKinds

\* A launcher that is up with no worker knows the port's address.
LEMMA IdleKnown == ASSUME LinkGood(dl), dl.phase = "up", dl.workers = {} PROVE PortKnown(dl)
BY DEF LinkGood, PortSafe, PortKnown, SetByWorker, Address

LEMMA IdleOK == ASSUME LinkGood(dl), dl.phase = "up", ~dl.busy PROVE LinkOK(dl) /\ dl.workers = {} /\ PortKnown(dl)
<1>1. LinkOK(dl) /\ dl.workers = {}
  BY DEF LinkGood, LinkOK, ScriptOK
<1> QED BY <1>1, IdleKnown

LEMMA TickStep == ASSUME LinkGood(dl), Tick PROVE LinkGood(dl')
<1>1. dl.phase = "up" /\ ~dl.busy /\ ~dl.box /\ dl' = Work(Box(dl, TRUE, TRUE), "enumerate", "none", FALSE)
  BY DEF Tick
<1>2. LinkOK(dl) /\ dl.workers = {} /\ PortKnown(dl)
  BY <1>1, IdleOK
<1>3. dl.expected = FALSE /\ dl.proc # "running"
  BY <1>1, <1>2 DEF LinkOK, LinkTyped
<1>4. AtWork(dl)
  BY <1>1, <1>2, <1>3 DEF AtWork, LinkOK
<1>5. PICK B : B = Box(dl, TRUE, TRUE)
  OBVIOUS
<1>6. AtWork(B) /\ B.busy = TRUE /\ PortKnown(B)
  BY <1>2, <1>4, <1>5, BoxedTT
<1>7. "none" \in Recorded /\ "enumerate" \in WorkKinds
  BY DEF Recorded, WorkKinds
<1>8. dl' = Work(B, "enumerate", "none", FALSE)
  BY <1>1, <1>5
<1> QED BY <1>6, <1>7, <1>8, WorkGood

LEMMA UntickStep == ASSUME LinkGood(dl), Untick PROVE LinkGood(dl')
<1>1. PICK A : A = StopResponder(dl)
  OBVIOUS
<1>2. PICK off : off = [A EXCEPT !.cfg.enabled = FALSE]
  OBVIOUS
<1>3. /\ dl.phase = "up" /\ ~dl.busy
      /\ dl' \in IF ~dl.cfg.enabled THEN {LinkFail(A)}
                 ELSE {dl, LinkFail(SaveLink(off, "none"))}
                        \cup (IF dl.admin THEN {RestoreAsync(SaveLink(off, "none"), FALSE)} ELSE LinkElevate(off, "off"))
  BY <1>1, <1>2 DEF Untick
<1>4. LinkOK(dl) /\ dl.workers = {} /\ PortKnown(dl)
  BY <1>3, IdleOK
<1>5. AtWork(A) /\ PortKnown(A)
  BY <1>1, <1>3, <1>4, StopWorks
<1>6. DOMAIN A = LinkFields /\ CfgOK(A.cfg)
  BY <1>5 DEF AtWork, LinkTyped
<1>7. PICK c : c = [A.cfg EXCEPT !.enabled = FALSE]
  OBVIOUS
<1>8. SetAs(off, A) /\ off.cfg = c
  BY <1>2, <1>6, <1>7 DEF SetAs, LinkFields
<1>9. AtWork(off) /\ PortKnown(off)
  BY <1>5, <1>6, <1>7, <1>8, SwitchedCfg, SetWorks
<1>10. PICK B : B = SaveLink(off, "none")
  OBVIOUS
<1>11. AtWork(B) /\ PortKnown(B)
  BY <1>9, <1>10, SaveWorks DEF PortKnown
<1>12. CASE dl' = LinkFail(A)
  BY <1>5, <1>12, FailGood
<1>13. CASE dl' = dl
  BY <1>13
<1>14. CASE dl' = LinkFail(B)
  BY <1>11, <1>14, FailGood
<1>15. CASE dl' = RestoreAsync(B, FALSE)
  BY <1>11, <1>15, RestoreGood
<1>16. CASE dl' \in LinkElevate(off, "off")
  BY <1>9, <1>16, ElevateGood
<1> QED BY <1>3, <1>10, <1>12, <1>13, <1>14, <1>15, <1>16

LEMMA CleanUpStep == ASSUME "cleanup" \notin LinkRisks, LinkGood(dl), CleanUp PROVE LinkGood(dl')
<1>1. dl.phase = "up" /\ dl.workers = {} /\ dl' = Work(Box(StopResponder(dl), dl.cfg.enabled, TRUE), "cleanup", dl.cfg.addr, FALSE)
  BY DEF CleanUp
<1>2. LinkOK(dl) /\ PortKnown(dl) /\ CfgOK(dl.cfg)
  BY <1>1, IdleKnown DEF LinkGood, LinkOK, LinkTyped
<1>3. PICK A : A = StopResponder(dl)
  OBVIOUS
<1>4. AtWork(A) /\ PortKnown(A) /\ A.cfg = dl.cfg
  BY <1>1, <1>2, <1>3, StopWorks
<1>5. PICK e \in BOOLEAN : e = dl.cfg.enabled
  BY <1>2 DEF CfgOK
<1>6. PICK B : B = Box(A, e, TRUE)
  OBVIOUS
<1>7. AtWork(B) /\ PortKnown(B) /\ B.cfg = A.cfg /\ B.busy = TRUE
  <2>1. CASE B = Box(A, TRUE, TRUE)
    BY <1>4, <2>1, BoxedTT
  <2>2. CASE B = Box(A, FALSE, TRUE)
    BY <1>4, <2>2, BoxWorks
  <2> QED BY <1>5, <1>6, <2>1, <2>2
<1>8. dl' = Work(B, "cleanup", dl.cfg.addr, FALSE)
  BY <1>1, <1>3, <1>5, <1>6
<1>9. dl.cfg.addr \in Recorded /\ "cleanup" \in WorkKinds
  BY <1>2 DEF CfgOK, WorkKinds
<1> QED BY <1>4, <1>7, <1>8, <1>9, WorkGood

LEMMA ReconfigureStep == ASSUME LinkGood(dl), Reconfigure PROVE LinkGood(dl')
<1>1. dl.workers = {} /\ dl' = [dl EXCEPT !.nic = "other"]
  BY DEF Reconfigure
<1>2. LinkTyped(dl) /\ DOMAIN dl = LinkFields
  BY DEF LinkGood, LinkOK, LinkTyped
<1>3. /\ DOMAIN dl' = LinkFields /\ dl'.phase = dl.phase /\ dl'.nic = "other" /\ dl'.cfg = dl.cfg /\ dl'.file = dl.file /\ dl'.box = dl.box
      /\ dl'.busy = dl.busy /\ dl'.proc = dl.proc /\ dl'.expected = dl.expected /\ dl'.workers = dl.workers /\ dl'.elevated = dl.elevated
  BY <1>1, <1>2 DEF LinkFields
<1>4. LinkOK(dl')
  BY <1>1, <1>2, <1>3 DEF LinkGood, LinkOK, LinkTyped
<1>5. "other" \notin LinkAddrs
  BY DirectLinkAssumption
<1>6. Sure => PortSafe(dl')
  BY <1>1, <1>3, <1>5 DEF LinkGood, PortSafe, Address
<1> QED BY <1>4, <1>6 DEF LinkGood

LEMMA HelperExitsStep == ASSUME LinkGood(dl), HelperExits PROVE LinkGood(dl')
<1>1. PICK code \in {"refused", "rehome", "died"} : dl' = [dl EXCEPT !.proc = code]
  BY DEF HelperExits
<1>2. LinkOK(dl) /\ LinkTyped(dl) /\ DOMAIN dl = LinkFields /\ dl.expected = TRUE
  BY DEF LinkGood, LinkOK, LinkTyped, HelperExits
<1>3. /\ DOMAIN dl' = LinkFields /\ dl'.phase = dl.phase /\ dl'.nic = dl.nic /\ dl'.cfg = dl.cfg /\ dl'.file = dl.file /\ dl'.box = dl.box
      /\ dl'.busy = dl.busy /\ dl'.expected = dl.expected /\ dl'.workers = dl.workers /\ dl'.elevated = dl.elevated /\ dl'.proc = code
  BY <1>1, <1>2 DEF LinkFields
<1>4. LinkOK(dl')
  BY <1>2, <1>3 DEF LinkOK, LinkTyped
<1>5. Sure => PortSafe(dl')
  BY <1>2, <1>3 DEF LinkGood, LinkOK, PortSafe, Address, SetByWorker
<1> QED BY <1>4, <1>5 DEF LinkGood

\* _direct_link_rehome
LEMMA RehomeGood ==
  ASSUME NEW S, AtWork(S), PortKnown(S), NEW a \in LinkAddrs, NEW N, N = Rehome(S, a)
  PROVE  LinkGood(N)
<1>0. DOMAIN S = LinkFields
  BY DEF AtWork, LinkTyped
<1>1. CASE S.rehomes >= MaxRehomes
  BY <1>1, RollbackGood DEF Rehome
<1>2. CASE ~(S.rehomes >= MaxRehomes)
  <2>1. PICK c : c = [addr |-> a, enabled |-> TRUE]
    OBVIOUS
  <2>2. CfgOK(c) /\ c.addr = a /\ c.enabled = TRUE
    BY <2>1 DEF CfgOK, Recorded
  <2>3. PICK A : A = [S EXCEPT !.rehomes = S.rehomes + 1, !.cfg = [addr |-> a, enabled |-> TRUE], !.restore = TRUE]
    OBVIOUS
  <2>4. SetAs(A, S) /\ A.cfg = c
    BY <1>0, <2>1, <2>3 DEF SetAs, LinkFields
  <2>5. AtWork(A)
    BY <2>2, <2>4, SetWorks
  <2>6. PICK T : T = SaveLink(A, "none")
    OBVIOUS
  <2>7. AtWork(T) /\ T.cfg = c /\ NoRequest(T)
    BY <2>4, <2>5, <2>6, SaveWorks
  <2>8. PICK B : B = Box(T, TRUE, TRUE)
    OBVIOUS
  <2>9. AtWork(B) /\ B.busy = TRUE /\ B.cfg = c /\ NoRequest(B)
    BY <2>7, <2>8, BoxedTT DEF NoRequest
  <2>10. N = Work(B, "rehome", a, FALSE)
    BY <1>2, <2>3, <2>6, <2>8 DEF Rehome
  <2>11. a \in Recorded /\ "rehome" \in WorkKinds /\ "rehome" \in Setting
    BY DEF Recorded, WorkKinds, Setting
  <2> QED BY <2>2, <2>9, <2>10, <2>11, WorkGood
<1> QED BY <1>1, <1>2

LEMMA PollStep == ASSUME LinkGood(dl), PollHelper PROVE LinkGood(dl')
<1>1. PICK S : S = [dl EXCEPT !.expected = FALSE]
  OBVIOUS
<1>2. /\ dl.phase = "up" /\ dl.expected /\ dl.proc \notin {"none", "running"}
      /\ dl' \in IF ~Known(S) THEN {S}
                 ELSE IF S.proc = "rehome" THEN {Rehome(S, a) : a \in LinkAddrs \ {S.cfg.addr}}
                 ELSE {RollbackFailed(S)}
  BY <1>1 DEF PollHelper
<1>3. LinkTyped(dl) /\ DOMAIN dl = LinkFields /\ dl.workers = {}
  BY <1>2 DEF LinkGood, LinkOK, LinkTyped
<1>4. /\ DOMAIN S = LinkFields /\ S.phase = dl.phase /\ S.nic = dl.nic /\ S.cfg = dl.cfg /\ S.file = dl.file /\ S.box = dl.box
      /\ S.busy = dl.busy /\ S.expected = FALSE /\ S.workers = dl.workers /\ S.proc = dl.proc
  BY <1>1, <1>3 DEF LinkFields
<1>5. AtWork(S) /\ PortKnown(S)
  BY <1>2, <1>3, <1>4, IdleKnown DEF AtWork, LinkTyped, PortKnown
<1>6. CASE dl' = S
  BY <1>5, <1>6, RestGood
<1>7. CASE \E a \in LinkAddrs : dl' = Rehome(S, a)
  BY <1>5, <1>7, RehomeGood
<1>8. CASE dl' = RollbackFailed(S)
  BY <1>5, <1>8, RollbackGood
<1> QED BY <1>2, <1>6, <1>7, <1>8

LEMMA ExitStep == ASSUME LinkGood(dl), LinkExit PROVE LinkGood(dl')
<1>1. PICK S \in {SaveLink(dl, "none")} \cup (IF "crash" \in LinkRisks THEN {dl} ELSE {}) :
        dl' = [StopResponder(S) EXCEPT !.phase = "down", !.elevated = FALSE, !.workers = {w \in @ : w.done = "no"}]
  BY DEF LinkExit
<1>2. LinkTyped(dl) /\ LinkOK(dl) /\ DOMAIN dl = LinkFields /\ CfgOK(dl.cfg) /\ CfgOK(dl.file.cfg)
  BY DEF LinkGood, LinkOK, LinkTyped
<1>3. PICK f : f = [cfg |-> dl.cfg, restore |-> dl.restore, pend |-> "none"]
  OBVIOUS
<1>4. f.cfg = dl.cfg /\ f.pend = "none"
  BY <1>3
<1>5. /\ DOMAIN S = LinkFields /\ S.nic = dl.nic /\ S.cfg = dl.cfg /\ S.box = dl.box /\ S.busy = dl.busy /\ S.workers = dl.workers
      /\ S.file = f \/ (S.file = dl.file /\ "crash" \in LinkRisks)
  <2>1. CASE S = SaveLink(dl, "none")
    BY <1>2, <1>3, <2>1 DEF SaveLink, LinkFields
  <2>2. CASE S = dl /\ "crash" \in LinkRisks
    BY <1>2, <2>2
  <2> QED BY <1>1, <2>1, <2>2
<1>6. PICK A : A = StopResponder(S)
  OBVIOUS
<1>7. /\ DOMAIN A = LinkFields /\ A.nic = dl.nic /\ A.cfg = dl.cfg /\ A.box = dl.box /\ A.busy = dl.busy /\ A.workers = dl.workers
      /\ A.file = S.file /\ A.proc = "none" /\ A.expected = FALSE
  BY <1>5, <1>6 DEF StopResponder, LinkFields
<1>8. PICK ws : ws = {w \in dl.workers : w.done = "no"}
  OBVIOUS
<1>9. dl' = [A EXCEPT !.phase = "down", !.elevated = FALSE, !.workers = ws]
  BY <1>1, <1>6, <1>7, <1>8
<1>10. /\ DOMAIN dl' = LinkFields /\ dl'.nic = dl.nic /\ dl'.cfg = dl.cfg /\ dl'.box = dl.box /\ dl'.busy = dl.busy /\ dl'.workers = ws
       /\ dl'.file = S.file /\ dl'.proc = "none" /\ dl'.expected = FALSE /\ dl'.phase = "down"
  BY <1>7, <1>9 DEF LinkFields
<1>11. LinkOK(dl')
  <2>1. LinkTyped(dl')
    BY <1>2, <1>4, <1>5, <1>10 DEF LinkTyped
  <2>2. \A w \in ws : ScriptOK(dl', w) /\ \A v \in ws : v = w
    BY <1>2, <1>8, <1>10 DEF LinkOK, ScriptOK
  <2> QED BY <1>10, <2>1, <2>2 DEF LinkOK
<1>12. ASSUME Sure PROVE PortSafe(dl')
  <2>1. S.file = f
    BY <1>5, <1>12 DEF Sure
  <2>2. Address(dl') = dl.cfg.addr /\ Address(dl) = dl.cfg.addr /\ dl'.file.pend = "none" /\ dl.file.pend = "none"
    BY <1>4, <1>10, <1>12, <2>1 DEF Address, LinkExit, LinkGood, PortSafe
  <2>3. SetByWorker(dl) => SetByWorker(dl')
    BY <1>8, <1>10 DEF SetByWorker
  <2> QED BY <1>8, <1>10, <1>12, <2>2, <2>3 DEF LinkGood, PortSafe
<1> QED BY <1>11, <1>12 DEF LinkGood

\* _direct_link_recovery_pending
LEMMA RecoveryGood ==
  ASSUME NEW S, AtWork(S), PortKnown(S), S.file.cfg = S.cfg, NEW N \in Recovery(S)
  PROVE  LinkGood(N)
<1>0. LinkTyped(S) /\ DOMAIN S = LinkFields /\ CfgOK(S.cfg) /\ S.workers = {} /\ S.expected = FALSE /\ S.proc # "running"
  BY DEF AtWork, LinkTyped
<1>1. CASE N = SaveLink([S EXCEPT !.restore = FALSE], "none")
  <2>1. PICK A : A = [S EXCEPT !.restore = FALSE]
    OBVIOUS
  <2>2. SetAs(A, S) /\ A.cfg = S.cfg
    BY <1>0, <2>1 DEF SetAs, LinkFields
  <2>3. AtWork(A) /\ PortKnown(A)
    BY <1>0, <2>2, SetWorks
  <2>4. N = SaveLink(A, "none")
    BY <1>1, <2>1
  <2>5. AtWork(N) /\ PortKnown(N)
    BY <2>3, <2>4, SaveWorks DEF PortKnown
  <2> QED BY <2>5, RestGood
<1>2. CASE N = RestoreAsync(S, TRUE)
  BY <1>2, RestoreGood
<1>3. CASE N = LinkFail(S)
  BY <1>3, FailGood
<1>4. CASE N = [S EXCEPT !.phase = "down", !.elevated = TRUE]
  <2>1. /\ DOMAIN N = LinkFields /\ N.nic = S.nic /\ N.cfg = S.cfg /\ N.file = S.file /\ N.box = S.box /\ N.busy = S.busy
        /\ N.workers = S.workers /\ N.proc = S.proc /\ N.expected = S.expected /\ N.phase = "down" /\ N.elevated = TRUE
    BY <1>0, <1>4 DEF LinkFields
  <2>2. LinkOK(N)
    BY <1>0, <2>1 DEF LinkOK, LinkTyped
  <2>3. Sure => PortSafe(N)
    BY <1>0, <2>1 DEF PortSafe, PortKnown, Address
  <2> QED BY <2>2, <2>3 DEF LinkGood
<1> QED BY <1>1, <1>2, <1>3, <1>4 DEF Recovery

LEMMA LaunchGoodStep == ASSUME LinkGood(dl), LinkLaunch PROVE LinkGood(dl')
<1>1. PICK admin \in BOOLEAN :
       /\ dl.phase = "down" /\ dl.workers = {}
       /\ dl.elevated => admin
       /\ LET S == Box([dl EXCEPT !.phase = "up", !.elevated = FALSE, !.starts = dl.starts + 1, !.admin = admin, !.rehomes = 0,
                                  !.cfg = dl.file.cfg, !.restore = dl.file.restore], FALSE, FALSE)
              clear == SaveLink(S, "none")
          IN  dl' \in CASE S.file.pend = "on" ->
                             {IF ~Known(S) THEN clear ELSE IF ~admin THEN LinkFail(clear)
                              ELSE Work(Box(clear, TRUE, TRUE), "apply", S.cfg.addr, FALSE)}
                        [] S.file.pend = "off" -> {IF admin /\ Known(S) THEN RestoreAsync(clear, FALSE) ELSE LinkFail(clear)}
                        [] S.file.pend = "none" /\ S.restore -> Recovery(S)
                        [] OTHER -> {IF S.cfg.enabled THEN Work(Box(S, TRUE, TRUE), "startup", S.cfg.addr, FALSE) ELSE S}
  BY DEF LinkLaunch
<1>2. PICK A : A = [dl EXCEPT !.phase = "up", !.elevated = FALSE, !.starts = dl.starts + 1, !.admin = admin, !.rehomes = 0,
                              !.cfg = dl.file.cfg, !.restore = dl.file.restore]
  OBVIOUS
<1>3. PICK S : S = Box(A, FALSE, FALSE)
  OBVIOUS
<1>4. PICK clear : clear = SaveLink(S, "none")
  OBVIOUS
<1>5. dl' \in CASE S.file.pend = "on" ->
                     {IF ~Known(S) THEN clear ELSE IF ~admin THEN LinkFail(clear)
                      ELSE Work(Box(clear, TRUE, TRUE), "apply", S.cfg.addr, FALSE)}
                [] S.file.pend = "off" -> {IF admin /\ Known(S) THEN RestoreAsync(clear, FALSE) ELSE LinkFail(clear)}
                [] S.file.pend = "none" /\ S.restore -> Recovery(S)
                [] OTHER -> {IF S.cfg.enabled THEN Work(Box(S, TRUE, TRUE), "startup", S.cfg.addr, FALSE) ELSE S}
  BY <1>1, <1>2, <1>3, <1>4, Zenon
<1>6. LinkTyped(dl) /\ DOMAIN dl = LinkFields /\ dl.expected = FALSE /\ dl.proc # "running"
  BY <1>1 DEF LinkGood, LinkOK, LinkTyped
<1>7. /\ DOMAIN A = LinkFields /\ A.phase = "up" /\ A.nic = dl.nic /\ A.cfg = dl.file.cfg /\ A.file = dl.file /\ A.box = dl.box /\ A.busy = dl.busy
      /\ A.workers = dl.workers /\ A.proc = dl.proc /\ A.expected = dl.expected /\ A.admin = admin
  BY <1>2, <1>6 DEF LinkFields
<1>8. AtWork(A)
  BY <1>1, <1>6, <1>7 DEF AtWork, LinkTyped
<1>9. AtWork(S) /\ S.cfg = dl.file.cfg /\ S.file = dl.file /\ S.nic = dl.nic
  <2>1. AtWork(S) /\ S.cfg = A.cfg /\ S.file = A.file /\ S.nic = A.nic
    BY <1>3, <1>8, BoxWorks
  <2> QED BY <1>7, <2>1
<1>10. CfgOK(S.cfg) /\ S.cfg.addr \in Recorded
  BY <1>9 DEF AtWork, LinkTyped, CfgOK
<1>11. AtWork(clear) /\ clear.cfg = S.cfg /\ clear.nic = S.nic /\ NoRequest(clear)
  BY <1>4, <1>9, SaveWorks
<1>12. Sure => PortSafe(dl) /\ Address(dl) = S.cfg.addr /\ ~SetByWorker(dl)
  BY <1>1, <1>9 DEF LinkGood, Address, SetByWorker
<1>13. S.file.pend # "on" => PortKnown(clear)
  BY <1>9, <1>11, <1>12 DEF PortSafe, PortKnown, NoRequest
<1>14. S.file.pend = "on" /\ Sure => Known(S) /\ admin
  BY <1>1, <1>9, <1>12 DEF PortSafe, Known
<1>15. CASE S.file.pend = "on"
  <2>1. dl' = IF ~Known(S) THEN clear ELSE IF ~admin THEN LinkFail(clear) ELSE Work(Box(clear, TRUE, TRUE), "apply", S.cfg.addr, FALSE)
    BY <1>5, <1>15
  <2>2. CASE ~(Known(S) /\ admin)
    <3>1. PortKnown(clear)
      BY <1>14, <1>15, <2>2 DEF PortKnown
    <3> QED BY <1>11, <2>1, <2>2, <3>1, RestGood, FailGood
  <2>3. CASE Known(S) /\ admin
    <3>1. PICK B : B = Box(clear, TRUE, TRUE)
      OBVIOUS
    <3>2. AtWork(B) /\ B.busy = TRUE /\ B.cfg = S.cfg /\ NoRequest(B)
      BY <1>11, <3>1, BoxedTT DEF NoRequest
    <3>3. dl' = Work(B, "apply", S.cfg.addr, FALSE)
      BY <2>1, <2>3, <3>1
    <3>4. "apply" \in WorkKinds /\ "apply" \in Setting
      BY DEF WorkKinds, Setting
    <3> QED BY <1>10, <3>2, <3>3, <3>4, WorkGood
  <2> QED BY <2>2, <2>3
<1>16. CASE S.file.pend = "off"
  <2>1. dl' = IF admin /\ Known(S) THEN RestoreAsync(clear, FALSE) ELSE LinkFail(clear)
    BY <1>5, <1>16
  <2> QED BY <1>11, <1>13, <1>16, <2>1, RestoreGood, FailGood
<1>17. CASE S.file.pend = "none" /\ S.restore
  <2>1. dl' \in Recovery(S)
    BY <1>5, <1>17
  <2>2. PortKnown(S)
    BY <1>9, <1>12, <1>17 DEF PortSafe, PortKnown
  <2> QED BY <1>9, <2>1, <2>2, RecoveryGood
<1>18. CASE S.file.pend \notin {"on", "off"} /\ ~(S.file.pend = "none" /\ S.restore)
  <2>1. dl' = IF S.cfg.enabled THEN Work(Box(S, TRUE, TRUE), "startup", S.cfg.addr, FALSE) ELSE S
    BY <1>5, <1>18
  <2>2. PortKnown(S)
    BY <1>9, <1>12, <1>18 DEF PortSafe, PortKnown
  <2>3. CASE S.cfg.enabled
    <3>1. PICK B : B = Box(S, TRUE, TRUE)
      OBVIOUS
    <3>2. AtWork(B) /\ B.busy = TRUE /\ B.cfg = S.cfg /\ PortKnown(B)
      BY <1>9, <2>2, <3>1, BoxedTT
    <3>3. dl' = Work(B, "startup", S.cfg.addr, FALSE)
      BY <2>1, <2>3, <3>1
    <3>4. "startup" \in WorkKinds /\ S.cfg.enabled = TRUE
      BY <1>10, <2>3 DEF WorkKinds, CfgOK
    <3> QED BY <1>10, <3>2, <3>3, <3>4, WorkGood
  <2>4. CASE ~S.cfg.enabled
    BY <1>9, <2>1, <2>2, <2>4, RestGood
  <2> QED BY <2>3, <2>4
<1> QED BY <1>15, <1>16, <1>17, <1>18

LEMMA LinkInitGood == ASSUME LinkInit PROVE LinkGood(dl)
<1>1. /\ DOMAIN dl = LinkFields /\ dl.phase = "down" /\ dl.nic = "dhcp" /\ dl.cfg = NoCfg /\ dl.box = FALSE /\ dl.busy = FALSE
      /\ dl.proc = "none" /\ dl.expected = FALSE /\ dl.workers = {} /\ dl.file.cfg = NoCfg /\ dl.file.pend = "none"
  BY DEF LinkInit, LinkFields
<1>2. LinkOK(dl)
  BY <1>1, NoCfgOK DEF LinkOK, LinkTyped
<1>3. "dhcp" \notin LinkAddrs
  BY DirectLinkAssumption
<1> QED BY <1>1, <1>2, <1>3 DEF LinkGood, PortSafe, Address

LEMMA LinkStep ==
  ASSUME "cleanup" \notin LinkRisks, LinkGood(dl), [LinkNext]_linkVars
  PROVE  LinkGood(dl')
<1>1. CASE UNCHANGED linkVars
  BY <1>1 DEF linkVars
<1>2. CASE LinkNext
  BY <1>2, RunStep, HeardStep, TickStep, UntickStep, CleanUpStep, ReconfigureStep, HelperExitsStep, PollStep, ExitStep, LaunchGoodStep
     DEF LinkNext
<1> QED BY <1>1, <1>2

-----------------------------------------------------------------------------
(* Only a script changes the port.                                           *)

HasNic(S, x) == "nic" \in DOMAIN S /\ S.nic = x

LEMMA PartsKeepNic ==
  ASSUME NEW S, NEW x, HasNic(S, x)
  PROVE  /\ \A t, b : HasNic(Box(S, t, b), x)
         /\ \A pend : HasNic(SaveLink(S, pend), x)
         /\ \A kind, addr, clear : HasNic(Work(S, kind, addr, clear), x)
         /\ HasNic(StopResponder(S), x)
<1>1. \A t, b : HasNic(Box(S, t, b), x)
  BY DEF HasNic, Box
<1>2. \A pend : HasNic(SaveLink(S, pend), x)
  BY DEF HasNic, SaveLink
<1>3. \A kind, addr, clear : HasNic(Work(S, kind, addr, clear), x)
  BY DEF HasNic, Work
<1>4. HasNic(StopResponder(S), x)
  BY DEF HasNic, StopResponder
<1> QED BY <1>1, <1>2, <1>3, <1>4

LEMMA RestoreKeepsNic ==
  ASSUME NEW S, NEW x, HasNic(S, x)
  PROVE  /\ HasNic(LinkFail(S), x) /\ HasNic(RollbackFailed(S), x)
         /\ \A clear : HasNic(RestoreAsync(S, clear), x)
<1>1. HasNic(LinkFail(S), x)
  BY PartsKeepNic DEF LinkFail
<1>2. ASSUME NEW T, HasNic(T, x), NEW clear PROVE HasNic(RestoreAsync(T, clear), x)
  BY <1>2, PartsKeepNic DEF RestoreAsync
<1>3. HasNic(RollbackFailed(S), x)
  <2>1. PICK A : A = [S EXCEPT !.cfg.enabled = FALSE, !.restore = TRUE]
    OBVIOUS
  <2>2. HasNic(A, x)
    BY <2>1 DEF HasNic
  <2>3. HasNic(SaveLink(A, "none"), x)
    BY <2>2, PartsKeepNic
  <2> QED BY <1>2, <2>1, <2>3 DEF RollbackFailed
<1> QED BY <1>1, <1>2, <1>3

LEMMA StartKeepsNic ==
  ASSUME NEW S, NEW x, HasNic(S, x)
  PROVE  /\ \A T : HasNic(T, x) => \A N \in WithResponder(S, T) : HasNic(N, x)
         /\ \A pend : \A N \in LinkElevate(S, pend) : HasNic(N, x)
<1>1. ASSUME NEW T, HasNic(T, x), NEW N \in WithResponder(S, T) PROVE HasNic(N, x)
  <2>1. HasNic(RollbackFailed(LinkFail(S)), x)
    BY RestoreKeepsNic
  <2>2. HasNic([T EXCEPT !.proc = "running", !.expected = TRUE], x)
    BY <1>1 DEF HasNic
  <2> QED BY <1>1, <2>1, <2>2 DEF WithResponder
<1>2. ASSUME NEW pend, NEW N \in LinkElevate(S, pend) PROVE HasNic(N, x)
  <2>1. PICK A : A = StopResponder(SaveLink(S, pend))
    OBVIOUS
  <2>2. HasNic(A, x)
    BY <2>1, PartsKeepNic
  <2>3. HasNic([A EXCEPT !.phase = "down", !.elevated = TRUE], x)
    BY <2>2 DEF HasNic
  <2>4. HasNic(LinkFail(SaveLink(S, "none")), x)
    BY PartsKeepNic, RestoreKeepsNic
  <2> QED BY <1>2, <2>1, <2>3, <2>4 DEF LinkElevate
<1> QED BY <1>1, <1>2

LEMMA ChooseKeepsNic == ASSUME NEW S, NEW x, HasNic(S, x), NEW N \in Choose(S) PROVE HasNic(N, x)
<1>1. CASE N = LinkFail(S)
  BY <1>1, RestoreKeepsNic
<1>2. CASE N # LinkFail(S)
  <2>1. PICK a \in LinkAddrs : N \in LET T == [S EXCEPT !.cfg = [addr |-> a, enabled |-> FALSE]]
                                    IN  IF T.admin THEN {Work(Box(T, TRUE, TRUE), "apply", a, FALSE)} ELSE LinkElevate(T, "on")
    BY <1>2 DEF Choose
  <2>2. PICK T : T = [S EXCEPT !.cfg = [addr |-> a, enabled |-> FALSE]]
    OBVIOUS
  <2>3. HasNic(T, x)
    BY <2>2 DEF HasNic
  <2>4. N \in IF T.admin THEN {Work(Box(T, TRUE, TRUE), "apply", a, FALSE)} ELSE LinkElevate(T, "on")
    BY <2>1, <2>2
  <2> QED BY <2>3, <2>4, PartsKeepNic, StartKeepsNic
<1> QED BY <1>1, <1>2

LEMMA DoneKeepsNic ==
  ASSUME NEW S, NEW x, HasNic(S, x)
  PROVE  /\ \A N \in Enabled(S) : HasNic(N, x)
         /\ \A clear : HasNic(LinkRestored(S, clear), x)
         /\ \A N \in RehomeDone(S) : HasNic(N, x)
         /\ \A N \in StartupDone(S) : HasNic(N, x)
         /\ \A ok : HasNic(CleanupDone(S, ok), x)
<1>1. ASSUME NEW N \in Enabled(S) PROVE HasNic(N, x)
  <2>1. PICK T : T = [S EXCEPT !.rehomes = 0]
    OBVIOUS
  <2>2. HasNic(T, x)
    BY <2>1 DEF HasNic
  <2>3. PICK A : A = [T EXCEPT !.cfg.enabled = TRUE]
    OBVIOUS
  <2>4. HasNic(A, x)
    BY <2>2, <2>3 DEF HasNic
  <2>5. HasNic(Box(SaveLink(A, "none"), TRUE, FALSE), x)
    BY <2>4, PartsKeepNic
  <2>6. N \in IF ~Known(T) THEN {T} ELSE WithResponder(T, Box(SaveLink(A, "none"), TRUE, FALSE))
    BY <1>1, <2>1, <2>3 DEF Enabled
  <2> QED BY <2>2, <2>5, <2>6, StartKeepsNic
<1>2. ASSUME NEW clear PROVE HasNic(LinkRestored(S, clear), x)
  <2>1. PICK T : T = [S EXCEPT !.restore = FALSE, !.cfg = IF clear THEN NoCfg ELSE @]
    OBVIOUS
  <2>2. HasNic(T, x)
    BY <2>1 DEF HasNic
  <2>3. HasNic(SaveLink(T, "none"), x)
    BY <2>2, PartsKeepNic
  <2>4. LinkRestored(S, clear) = LinkFail(IF clear \/ S.restore THEN SaveLink(T, "none") ELSE T)
    BY <2>1 DEF LinkRestored
  <2> QED BY <2>2, <2>3, <2>4, RestoreKeepsNic
<1>3. ASSUME NEW N \in RehomeDone(S) PROVE HasNic(N, x)
  <2>1. PICK T : T = [S EXCEPT !.proc = "none"]
    OBVIOUS
  <2>2. HasNic(T, x)
    BY <2>1 DEF HasNic
  <2>3. PICK A : A = [T EXCEPT !.restore = FALSE]
    OBVIOUS
  <2>4. HasNic(A, x)
    BY <2>2, <2>3 DEF HasNic
  <2>5. HasNic(Box(SaveLink(A, "none"), TRUE, FALSE), x)
    BY <2>4, PartsKeepNic
  <2>6. N \in IF ~Known(S) THEN {T} ELSE WithResponder(T, Box(SaveLink(A, "none"), TRUE, FALSE))
    BY <1>3, <2>1, <2>3 DEF RehomeDone
  <2> QED BY <2>2, <2>5, <2>6, StartKeepsNic
<1>4. ASSUME NEW N \in StartupDone(S) PROVE HasNic(N, x)
  BY <1>4, PartsKeepNic, StartKeepsNic DEF StartupDone
<1>5. ASSUME NEW ok PROVE HasNic(CleanupDone(S, ok), x)
  <2>1. PICK T : T = [S EXCEPT !.cfg = NoCfg, !.restore = FALSE]
    OBVIOUS
  <2>2. HasNic(T, x)
    BY <2>1 DEF HasNic
  <2>3. HasNic(SaveLink(T, "none"), x)
    BY <2>2, PartsKeepNic
  <2>4. HasNic(LinkFail(SaveLink(T, "none")), x) /\ HasNic(Box(S, S.cfg.enabled, FALSE), x)
    BY <2>3, PartsKeepNic, RestoreKeepsNic
  <2> QED BY <2>1, <2>4 DEF CleanupDone
<1> QED BY <1>1, <1>2, <1>3, <1>4, <1>5

LEMMA HeardKeepsNic == ASSUME NEW x, HasNic(dl, x), LinkGood(dl), Heard PROVE HasNic(dl', x)
<1>1. PICK w \in dl.workers :
         LET S == [dl EXCEPT !.workers = dl.workers \ {w}]
              ok == w.done = "ok"
          IN  dl' \in CASE w.kind = "enumerate" -> IF ok THEN Choose(S) ELSE {LinkFail(S)}
                        [] w.kind = "apply" -> IF ok THEN Enabled(S) ELSE {LinkFail(S)}
                        [] w.kind = "restore" -> IF ok THEN {LinkRestored(S, w.clear)} ELSE {LinkFail(S)}
                        [] w.kind = "rehome" -> IF ok THEN RehomeDone(S) ELSE {RollbackFailed(S)}
                        [] w.kind = "startup" -> IF ok THEN StartupDone(S) ELSE {RollbackFailed(S)}
                        [] w.kind = "cleanup" -> {CleanupDone(S, ok)}
  BY DEF Heard
<1>2. PICK S : S = [dl EXCEPT !.workers = dl.workers \ {w}]
  OBVIOUS
<1>3. PICK ok : ok = (w.done = "ok")
  OBVIOUS
<1>4. dl' \in CASE w.kind = "enumerate" -> IF ok THEN Choose(S) ELSE {LinkFail(S)}
                 [] w.kind = "apply" -> IF ok THEN Enabled(S) ELSE {LinkFail(S)}
                 [] w.kind = "restore" -> IF ok THEN {LinkRestored(S, w.clear)} ELSE {LinkFail(S)}
                 [] w.kind = "rehome" -> IF ok THEN RehomeDone(S) ELSE {RollbackFailed(S)}
                 [] w.kind = "startup" -> IF ok THEN StartupDone(S) ELSE {RollbackFailed(S)}
                 [] w.kind = "cleanup" -> {CleanupDone(S, ok)}
  BY <1>1, <1>2, <1>3, Zenon
<1>5. HasNic(S, x)
  BY <1>2 DEF HasNic
<1>6. w.kind \in WorkKinds
  BY DEF LinkGood, LinkOK, ScriptOK
<1>7. CASE w.kind = "enumerate"
  <2>1. dl' \in Choose(S) \cup {LinkFail(S)}
    BY <1>4, <1>7
  <2> QED BY <1>5, <2>1, ChooseKeepsNic, RestoreKeepsNic
<1>8. CASE w.kind \in {"apply", "restore"}
  <2>1. dl' \in Enabled(S) \cup {LinkRestored(S, w.clear)} \cup {LinkFail(S)}
    BY <1>4, <1>8
  <2> QED BY <1>5, <2>1, DoneKeepsNic, RestoreKeepsNic
<1>9. CASE w.kind \in {"rehome", "startup"}
  <2>1. dl' \in RehomeDone(S) \cup StartupDone(S) \cup {RollbackFailed(S)}
    BY <1>4, <1>9
  <2> QED BY <1>5, <2>1, DoneKeepsNic, RestoreKeepsNic
<1>10. CASE w.kind = "cleanup"
  <2>1. dl' = CleanupDone(S, ok)
    BY <1>4, <1>10
  <2> QED BY <1>5, <2>1, DoneKeepsNic
<1> QED BY <1>6, <1>7, <1>8, <1>9, <1>10 DEF WorkKinds

LEMMA UserKeepsNic == ASSUME NEW x, HasNic(dl, x), Tick \/ Untick \/ CleanUp PROVE HasNic(dl', x)
<1>1. CASE Tick
  BY <1>1, PartsKeepNic DEF Tick
<1>2. CASE CleanUp
  BY <1>2, PartsKeepNic DEF CleanUp
<1>3. CASE Untick
  <2>1. PICK A : A = StopResponder(dl)
    OBVIOUS
  <2>2. HasNic(A, x)
    BY <2>1, PartsKeepNic
  <2>3. PICK off : off = [A EXCEPT !.cfg.enabled = FALSE]
    OBVIOUS
  <2>4. HasNic(off, x)
    BY <2>2, <2>3 DEF HasNic
  <2>5. dl' \in {dl, LinkFail(A), LinkFail(SaveLink(off, "none")), RestoreAsync(SaveLink(off, "none"), FALSE)} \cup LinkElevate(off, "off")
    BY <1>3, <2>1, <2>3 DEF Untick
  <2>6. HasNic(SaveLink(off, "none"), x)
    BY <2>4, PartsKeepNic
  <2> QED BY <2>2, <2>4, <2>5, <2>6, RestoreKeepsNic, StartKeepsNic
<1> QED BY <1>1, <1>2, <1>3

LEMMA HelperKeepsNic == ASSUME NEW x, HasNic(dl, x), HelperExits \/ PollHelper PROVE HasNic(dl', x)
<1>1. CASE HelperExits
  BY <1>1 DEF HelperExits, HasNic
<1>2. CASE PollHelper
  <2>1. PICK S : S = [dl EXCEPT !.expected = FALSE]
    OBVIOUS
  <2>2. HasNic(S, x)
    BY <2>1 DEF HasNic
  <2>3. dl' \in {S, RollbackFailed(S)} \/ \E a \in LinkAddrs : dl' = Rehome(S, a)
    BY <1>2, <2>1 DEF PollHelper
  <2>4. ASSUME NEW a \in LinkAddrs PROVE HasNic(Rehome(S, a), x)
    <3>1. PICK A : A = [S EXCEPT !.rehomes = S.rehomes + 1, !.cfg = [addr |-> a, enabled |-> TRUE], !.restore = TRUE]
      OBVIOUS
    <3>2. HasNic(A, x)
      BY <2>2, <3>1 DEF HasNic
    <3>3. Rehome(S, a) \in {RollbackFailed(S), Work(Box(SaveLink(A, "none"), TRUE, TRUE), "rehome", a, FALSE)}
      BY <3>1 DEF Rehome
    <3>4. HasNic(SaveLink(A, "none"), x)
      BY <3>2, PartsKeepNic
    <3>5. HasNic(Work(Box(SaveLink(A, "none"), TRUE, TRUE), "rehome", a, FALSE), x)
      BY <3>4, PartsKeepNic
    <3> QED BY <2>2, <3>3, <3>5, RestoreKeepsNic
  <2> QED BY <2>2, <2>3, <2>4, RestoreKeepsNic
<1> QED BY <1>1, <1>2

LEMMA ExitKeepsNic == ASSUME NEW x, HasNic(dl, x), LinkExit PROVE HasNic(dl', x)
<1>1. PICK S \in {SaveLink(dl, "none"), dl} :
        dl' = [StopResponder(S) EXCEPT !.phase = "down", !.elevated = FALSE, !.workers = {w \in @ : w.done = "no"}]
  BY DEF LinkExit
<1>2. PICK A : A = StopResponder(S)
  OBVIOUS
<1>3. HasNic(A, x)
  BY <1>1, <1>2, PartsKeepNic
<1>4. PICK ws : ws = {w \in A.workers : w.done = "no"}
  OBVIOUS
<1>5. dl' = [A EXCEPT !.phase = "down", !.elevated = FALSE, !.workers = ws]
  BY <1>1, <1>2, <1>4
<1> QED BY <1>3, <1>5 DEF HasNic

LEMMA LaunchKeepsNic == ASSUME NEW x, HasNic(dl, x), LinkLaunch PROVE HasNic(dl', x)
<1>1. PICK admin \in BOOLEAN :
       LET S == Box([dl EXCEPT !.phase = "up", !.elevated = FALSE, !.starts = dl.starts + 1, !.admin = admin, !.rehomes = 0,
                                  !.cfg = dl.file.cfg, !.restore = dl.file.restore], FALSE, FALSE)
              clear == SaveLink(S, "none")
          IN  dl' \in CASE S.file.pend = "on" ->
                             {IF ~Known(S) THEN clear ELSE IF ~admin THEN LinkFail(clear)
                              ELSE Work(Box(clear, TRUE, TRUE), "apply", S.cfg.addr, FALSE)}
                        [] S.file.pend = "off" -> {IF admin /\ Known(S) THEN RestoreAsync(clear, FALSE) ELSE LinkFail(clear)}
                        [] S.file.pend = "none" /\ S.restore -> Recovery(S)
                        [] OTHER -> {IF S.cfg.enabled THEN Work(Box(S, TRUE, TRUE), "startup", S.cfg.addr, FALSE) ELSE S}
  BY DEF LinkLaunch
<1>2. PICK A : A = [dl EXCEPT !.phase = "up", !.elevated = FALSE, !.starts = dl.starts + 1, !.admin = admin, !.rehomes = 0,
                              !.cfg = dl.file.cfg, !.restore = dl.file.restore]
  OBVIOUS
<1>3. HasNic(A, x)
  BY <1>2 DEF HasNic
<1>4. PICK S : S = Box(A, FALSE, FALSE)
  OBVIOUS
<1>5. PICK clear : clear = SaveLink(S, "none")
  OBVIOUS
<1>6. HasNic(S, x) /\ HasNic(clear, x)
  BY <1>3, <1>4, <1>5, PartsKeepNic
<1>7. dl' \in CASE S.file.pend = "on" ->
                     {IF ~Known(S) THEN clear ELSE IF ~admin THEN LinkFail(clear)
                      ELSE Work(Box(clear, TRUE, TRUE), "apply", S.cfg.addr, FALSE)}
                [] S.file.pend = "off" -> {IF admin /\ Known(S) THEN RestoreAsync(clear, FALSE) ELSE LinkFail(clear)}
                [] S.file.pend = "none" /\ S.restore -> Recovery(S)
                [] OTHER -> {IF S.cfg.enabled THEN Work(Box(S, TRUE, TRUE), "startup", S.cfg.addr, FALSE) ELSE S}
  BY <1>1, <1>2, <1>4, <1>5, Zenon
<1>8. CASE S.file.pend = "on"
  <2>1. dl' \in {clear, LinkFail(clear), Work(Box(clear, TRUE, TRUE), "apply", S.cfg.addr, FALSE)}
    BY <1>7, <1>8
  <2>2. HasNic(Work(Box(clear, TRUE, TRUE), "apply", S.cfg.addr, FALSE), x)
    BY <1>6, PartsKeepNic
  <2> QED BY <1>6, <2>1, <2>2, RestoreKeepsNic
<1>9. CASE S.file.pend = "off"
  <2>1. dl' \in {RestoreAsync(clear, FALSE), LinkFail(clear)}
    BY <1>7, <1>9
  <2> QED BY <1>6, <2>1, RestoreKeepsNic
<1>10. CASE S.file.pend = "none" /\ S.restore
  <2>1. PICK B : B = [S EXCEPT !.restore = FALSE]
    OBVIOUS
  <2>2. PICK C : C = [S EXCEPT !.phase = "down", !.elevated = TRUE]
    OBVIOUS
  <2>3. dl' \in Recovery(S)
    BY <1>7, <1>10
  <2>4. dl' \in {SaveLink(B, "none"), RestoreAsync(S, TRUE), LinkFail(S), C}
    BY <2>1, <2>2, <2>3 DEF Recovery
  <2>5. HasNic(B, x) /\ HasNic(C, x)
    BY <1>6, <2>1, <2>2 DEF HasNic
  <2> QED BY <1>6, <2>4, <2>5, PartsKeepNic, RestoreKeepsNic
<1>11. CASE S.file.pend \notin {"on", "off"} /\ ~(S.file.pend = "none" /\ S.restore)
  <2>1. dl' \in {S, Work(Box(S, TRUE, TRUE), "startup", S.cfg.addr, FALSE)}
    BY <1>7, <1>11
  <2>2. HasNic(Work(Box(S, TRUE, TRUE), "startup", S.cfg.addr, FALSE), x)
    BY <1>6, PartsKeepNic
  <2> QED BY <1>6, <2>1, <2>2
<1> QED BY <1>8, <1>9, <1>10, <1>11

\* restore_adapter_dhcp touches a port only while it has the address that was recorded for it.
LEMMA ScriptKeepsUsers == ASSUME LinkGood(dl), RunWorker PROVE UsersPortKept
<1>1. SUFFICES ASSUME dl.nic = "other", dl'.nic # "other", \A w \in dl.workers : w.kind \notin Setting PROVE FALSE
  BY DEF UsersPortKept, Setting
<1>2. PICK w \in dl.workers : \E o \in Outcomes(dl, w) :
         dl' = [dl EXCEPT !.nic = o.nic, !.workers = (dl.workers \ {w}) \cup (IF dl.phase = "up" THEN {[w EXCEPT !.done = o.done]} ELSE {})]
  BY DEF RunWorker
<1>3. PICK o \in Outcomes(dl, w) :
         dl' = [dl EXCEPT !.nic = o.nic, !.workers = (dl.workers \ {w}) \cup (IF dl.phase = "up" THEN {[w EXCEPT !.done = o.done]} ELSE {})]
  BY <1>2
<1>4. w.kind \in WorkKinds /\ w.kind \notin Setting /\ w.addr \in Recorded /\ DOMAIN dl = LinkFields
  BY <1>1 DEF LinkGood, LinkOK, LinkTyped, ScriptOK
<1>5. dl'.nic = o.nic
  BY <1>3, <1>4 DEF LinkFields
<1>6. w.addr # "other"
  BY <1>4, DirectLinkAssumption DEF Recorded
<1>7. CASE w.kind \in {"restore", "cleanup"}
  BY <1>1, <1>3, <1>5, <1>6, <1>7 DEF Outcomes, Restored
<1>8. CASE w.kind = "startup"
  BY <1>1, <1>3, <1>5, <1>8 DEF Outcomes
<1>9. CASE w.kind = "enumerate"
  BY <1>1, <1>3, <1>5, <1>9 DEF Outcomes
<1> QED BY <1>4, <1>7, <1>8, <1>9 DEF WorkKinds, Setting

LEMMA PortKeptStep == ASSUME LinkGood(dl), [LinkNext]_linkVars PROVE UsersPortKept
<1>1. CASE RunWorker
  BY <1>1, ScriptKeepsUsers
<1>2. CASE Reconfigure \/ UNCHANGED linkVars
  <2>1. dl.nic # "other" \/ dl'.nic = "other"
    BY <1>2, DirectLinkAssumption DEF Reconfigure, linkVars
  <2> QED BY <2>1 DEF UsersPortKept
<1>3. CASE Heard \/ Tick \/ Untick \/ CleanUp \/ HelperExits \/ PollHelper \/ LinkExit \/ LinkLaunch
  <2>1. HasNic(dl, dl.nic)
    BY DEF LinkGood, LinkOK, LinkTyped, LinkFields, HasNic
  <2>2. HasNic(dl', dl.nic)
    BY <1>3, <2>1, HeardKeepsNic, UserKeepsNic, HelperKeepsNic, ExitKeepsNic, LaunchKeepsNic
  <2> QED BY <2>2 DEF HasNic, UsersPortKept
<1> QED BY <1>1, <1>2, <1>3 DEF LinkNext

\* With nothing under way, the tick box says whether a helper is running, and a port that was configured
\* otherwise is changed by no other script than one that sets an address; whatever fails, is refused or is killed,
\* as long as the cleanup waits for the worker before it.
THEOREM BoxTrue ==
  ASSUME "cleanup" \notin LinkRisks
  PROVE  LinkSpec => [][BoxTellsTruth' /\ UsersPortKept]_linkVars
<1>1. LinkGood(dl) => BoxTellsTruth
  BY DEF LinkGood, LinkOK, BoxTellsTruth
<1>2. LinkGood(dl) /\ [LinkNext]_linkVars => LinkGood(dl)'
  BY LinkStep
<1>3. LinkGood(dl) /\ [LinkNext]_linkVars => BoxTellsTruth'
  BY <1>1, <1>2, PTL
<1>4. LinkGood(dl) /\ [LinkNext]_linkVars => UsersPortKept
  BY PortKeptStep
<1> QED BY <1>2, <1>3, <1>4, LinkInitGood, PTL DEF LinkSpec

\* A port that was given an address is never left with it unknown to launcher.json once the launcher is gone, when
\* launchers end by themselves and no prompt or script is refused; nor is the user's own setting put back to DHCP, and the box tells the truth.
THEOREM PortNeverLost ==
  ASSUME LinkRisks \subseteq {"admin"}
  PROVE  LinkSpec => PortAccounted
<1>0. Sure /\ "cleanup" \notin LinkRisks
  BY DEF Sure
<1>1. LinkGood(dl) => BoxTellsTruth /\ NothingStranded
  <2>1. LinkGood(dl) => BoxTellsTruth
    BY DEF LinkGood, LinkOK, BoxTellsTruth
  <2>2. LinkGood(dl) => NothingStranded
    BY <1>0 DEF LinkGood, PortSafe, Address, SetByWorker, NothingStranded
  <2> QED BY <2>1, <2>2
<1>2. LinkGood(dl) /\ [LinkNext]_linkVars => LinkGood(dl)'
  BY <1>0, LinkStep
<1>3. LinkGood(dl) /\ [LinkNext]_linkVars => BoxTellsTruth' /\ NothingStranded'
  BY <1>1, <1>2, PTL
<1>4. LinkGood(dl) /\ [LinkNext]_linkVars => UsersPortKept
  BY <1>0, PortKeptStep
<1> QED BY <1>2, <1>3, <1>4, LinkInitGood, PTL DEF LinkSpec, PortAccounted

=============================================================================
