------------------------------ MODULE Launcher ------------------------------
(***************************************************************************)
(* The desktop launcher on Windows: the server processes it starts and stops, *)
(* the firewall check that comes before a start, the restart as administrator  *)
(* with what it leaves in launcher.json to be continued, and the mutex that     *)
(* hands the machine from one instance to the next. gui.py (LauncherApp),       *)
(* process.py, serve.py, config.py, elevate.py, single_instance.py and          *)
(* windows_setup.py.                                                            *)
(*                                                                           *)
(* Tk runs one handler at a time, so a handler is a function from the           *)
(* launcher's state to the set of states it can end in: the user's answers, a    *)
(* refused UAC prompt and a failing Popen are the choices. Worker threads hand   *)
(* their results to Tk with root.after, and so come back as actions of their     *)
(* own, any number of handlers later.                                           *)
(***************************************************************************)
EXTENDS Naturals, FiniteSets

CONSTANTS
  ServerKeys,     \* the cards
  Privileged,     \* the keys set to take port 445 or to a port below 1025
  MaxLaunches,    \* bound on the instances one after the other
  EarlyClicks     \* whether the user may click before the 750 ms timer of __init__ has fired

ASSUME LauncherAssumption ==
  /\ IsFiniteSet(ServerKeys) /\ Privileged \subseteq ServerKeys
  /\ MaxLaunches \in Nat /\ EarlyClicks \in BOOLEAN

VARIABLE
  lch       \* the launcher: its instance, its processes, launcher.json, Windows' rules

launcherVars == <<lch>>

NoPending == <<"none">>
Start(k) == <<"start", k>>
Pendings == {NoPending, <<"allow">>, <<"cleanup">>} \cup {Start(k) : k \in ServerKeys}
Files == [exists : BOOLEAN, active : SUBSET ServerKeys, cache : SUBSET ServerKeys, pend : Pendings,
          auto : BOOLEAN, ignore : BOOLEAN]
NoFile == [exists |-> FALSE, active |-> {}, cache |-> {}, pend |-> NoPending, auto |-> FALSE, ignore |-> FALSE]

\* is_running
Live(S) == {k \in ServerKeys : S.proc[k] = "live"}

\* _save: the whole file again, from the widgets and the running servers. A request to
\* be continued is in it only when this very call names it.
Save(S, pend) ==
  IF S.reset THEN S
  ELSE [S EXCEPT !.file = [exists |-> TRUE, active |-> Live(S), cache |-> S.cache, pend |-> pend,
                           auto |-> S.auto, ignore |-> S.ignore]]

-----------------------------------------------------------------------------
(* Stopping.                                                                 *)

NoProcs == [k \in ServerKeys |-> "none"]

\* stop_server: ServerProcess.stop asks through the stop pipe, waits out the grace,
\* terminates, kills; it returns with the process gone. Then the settings are saved.
StopServer(S, k) ==
  IF S.proc[k] = "none" THEN S
  ELSE Save([S EXCEPT !.kids[k] = IF S.proc[k] = "live" THEN @ - 1 ELSE @, !.proc[k] = "dead"], NoPending)

\* stop_all: stop_server for one card after another. Each call saves, and the last one that stops
\* a process finds none running any more.
StopAll(S) ==
  IF S.proc = NoProcs THEN S
  ELSE Save([S EXCEPT !.kids = [k \in ServerKeys |-> IF S.proc[k] = "live" THEN S.kids[k] - 1 ELSE S.kids[k]],
                      !.proc = [k \in ServerKeys |-> IF S.proc[k] = "none" THEN "none" ELSE "dead"]], NoPending)

\* The first half of a shutdown that lasts: from here Tk is blocked in stop_all. The
\* ghost goal notes what ran and what was to be continued. No worker is heard any more.
Idle == [k \in ServerKeys |-> 0]
NoGoal == [known |-> FALSE, ran |-> {}, continue |-> NoPending]
Close(S, successor) ==
  [S EXCEPT !.phase = "closing", !.successor = successor,
            !.checks = Idle, !.applies = Idle, !.jobs = {},
            !.goal = [known |-> TRUE, ran |-> Live(S), continue |-> S.file.pend]]

\* relaunch_as_admin: the UAC prompt is accepted, or refused, and then _clear_pending_start.
Relaunch(S, pend) == {Close(Save(S, pend), "elevated"), Save(S, NoPending)}

-----------------------------------------------------------------------------
(* Starting.                                                                 *)

\* _launch_server. The command cannot be built or the process not started, or it runs
\* and takes the place of the card's process.
LaunchServer(S, k) ==
  {S, Save([S EXCEPT !.proc[k] = "live", !.kids[k] = @ + 1], NoPending)}

\* _remember_firewall_ok
Remember(S, k) == IF k \in S.cache THEN S ELSE Save([S EXCEPT !.cache = @ \cup {k}], NoPending)

\* _handle_windows_setup_check, with _needs_admin, _confirm_windows_setup and
\* _apply_windows_setup_then_start
HandleCheck(S0, k, needed, clean) ==
  LET S == IF clean THEN Remember(S0, k) ELSE S0
      forced == k \in Privileged
  IN  IF S.ignore /\ ~forced THEN LaunchServer(S, k)
      ELSE IF (needed \/ forced) /\ ~S.admin
      THEN {S} \cup Relaunch(S, Start(k)) \cup (IF forced THEN {} ELSE LaunchServer(S, k))
      ELSE IF needed /\ ~S.ignore
      THEN {S, [S EXCEPT !.applies[k] = @ + 1]}
      ELSE LaunchServer(S, k)

\* start_server and _begin_windows_setup_check: a fingerprint seen clean skips the check.
StartServer(S, k) ==
  IF S.phase # "up" THEN {S}
  ELSE IF k \in S.cache
  THEN IF k \in Privileged THEN HandleCheck(S, k, FALSE, TRUE) ELSE LaunchServer(S, k)
  ELSE {[S EXCEPT !.checks[k] = @ + 1]}

-----------------------------------------------------------------------------
(* What the user does. A card is busy while a flow of its own is under way.    *)

\* Tk runs no handler while the autostart is in its loop.
TkFree(S) == S.phase = "up" /\ S.stage # "starting"
Ready(S) == TkFree(S) /\ (EarlyClicks \/ S.stage = "ready")
Busy(S, k) == S.checks[k] + S.applies[k] > 0

\* on_toggle
Toggle(k) ==
  /\ Ready(lch) /\ ~Busy(lch, k)
  /\ lch' \in IF lch.proc[k] = "live" THEN {StopServer(lch, k)} ELSE StartServer(lch, k)

\* stop_all_confirmed
StopEverything ==
  /\ Ready(lch)
  /\ lch' = StopAll(lch)

\* _allow_windows_setup
Allow(S, confirm) ==
  IF S.admin THEN {[S EXCEPT !.jobs = @ \cup {"allow"}]}
  ELSE {S} \cup (IF confirm THEN Relaunch(S, <<"allow">>) ELSE {})

\* _remove_windows_setup, _cleanup_windows_setup_async, _forget_firewall_ok
Cleanup(S0, confirm) ==
  LET S == IF Live(S0) = {} THEN S0 ELSE StopAll(S0)
      forgot == IF S.cache = {} THEN S ELSE Save([S EXCEPT !.cache = {}], NoPending)
  IN  (IF confirm THEN {S0, S} ELSE {S})
        \cup (IF S.admin THEN {[forgot EXCEPT !.jobs = @ \cup {"cleanup"}]}
              ELSE IF confirm THEN Relaunch(S, <<"cleanup">>) ELSE {})

ClickAllow ==
  /\ Ready(lch) /\ "allow" \notin lch.jobs
  /\ lch' \in Allow(lch, TRUE)

ClickCleanup ==
  /\ Ready(lch) /\ "cleanup" \notin lch.jobs
  /\ lch' \in Cleanup(lch, TRUE)

\* exit_app and restart_app, through _shutdown_app; restart_as_admin of main.py; a
\* process that cannot be started leaves the launcher open.
Leave ==
  /\ Ready(lch)
  /\ lch' \in {Close(Save(lch, NoPending), "none"), Close(Save(lch, NoPending), "plain"), Save(lch, NoPending)}
              \cup (IF lch.admin THEN {} ELSE Relaunch(lch, NoPending))

\* reset_settings: the file goes, and nothing may write it back on the way out.
ResetSettings ==
  /\ Ready(lch)
  /\ LET gone == [lch EXCEPT !.file = NoFile, !.reset = TRUE]
     IN  lch' \in {Close(gone, "plain"), Save([gone EXCEPT !.reset = FALSE], NoPending)}

-----------------------------------------------------------------------------
(* What comes back from the worker threads.                                   *)

\* needs_setup: the rules are there, or are not, or the check times out (no rule is
\* asked for, and nothing learnt), or fails (setup is assumed to be needed).
CheckDone(k) ==
  /\ TkFree(lch) /\ lch.checks[k] > 0
  /\ LET S == [lch EXCEPT !.checks[k] = @ - 1]
     IN  lch' \in HandleCheck(S, k, k \notin S.rules, k \in S.rules)
                  \cup HandleCheck(S, k, FALSE, FALSE) \cup HandleCheck(S, k, TRUE, FALSE)

\* apply_setup, then _finish_windows_setup_success or _failure
ApplyDone(k) ==
  /\ TkFree(lch) /\ lch.applies[k] > 0
  /\ LET S == [lch EXCEPT !.applies[k] = @ - 1]
         done == [S EXCEPT !.rules = @ \cup {k}]
     IN  lch' \in {S, done} \cup LaunchServer(done, k)

\* apply_setup for every card, remove_setup; either may fail part way
JobDone ==
  /\ TkFree(lch)
  /\ \E job \in lch.jobs, done \in {ServerKeys, {}} :
       lch' = [lch EXCEPT !.jobs = @ \ {job},
                          !.rules = IF job = "allow" THEN @ \cup done ELSE @ \ done]

-----------------------------------------------------------------------------
(* The timers of __init__.                                                   *)

\* after(350): the request the previous instance left, taken out of the file first.
\* _start_pending, _allow_pending, _cleanup_pending
Continue ==
  /\ lch.phase = "up" /\ lch.stage = "pending"
  /\ LET S == Save([lch EXCEPT !.stage = "auto", !.saved = NoPending], NoPending)
     IN  lch' \in CASE lch.saved = NoPending -> {[lch EXCEPT !.stage = "auto"]}
                    [] lch.saved = <<"allow">> -> Allow(S, FALSE)
                    [] lch.saved = <<"cleanup">> -> Cleanup(S, FALSE)
                    [] OTHER -> StartServer(S, lch.saved[2])

\* after(750): _autostart_servers, and its loop over the servers that ran last. A server that
\* dies meanwhile, or the end of the launcher, may come between two of them.
Starting(S, last) == [S EXCEPT !.last = last, !.stage = IF last = {} THEN "ready" ELSE "starting"]

Autostart ==
  /\ lch.phase = "up" /\ lch.stage = "auto"
  /\ lch' = Starting(lch, IF lch.auto THEN lch.last ELSE {})

AutostartOne ==
  /\ lch.phase = "up" /\ lch.stage = "starting"
  /\ \E k \in lch.last :
       LET S == Starting(lch, lch.last \ {k})
       IN  lch' \in IF S.proc[k] = "live" THEN {S} ELSE StartServer(S, k)

-----------------------------------------------------------------------------
(* Instances and processes.                                                  *)

\* A server ends by itself: a port that is taken, a drive that went away, or, when the
\* launcher has died, the end of file on its stop pipe. _poll_status repaints the card.
ServerEnds(k) ==
  /\ lch.kids[k] > 0
  /\ \E whose \in {"card", "lost"} :
       /\ whose = "card" => lch.proc[k] = "live"
       /\ whose = "lost" => lch.kids[k] > (IF lch.proc[k] = "live" THEN 1 ELSE 0)
       /\ LET S == [lch EXCEPT !.kids[k] = @ - 1, !.proc[k] = IF whose = "card" THEN "dead" ELSE @]
          IN  lch' = [S EXCEPT !.killed = S.killed /\ \E j \in ServerKeys : S.kids[j] > 0]

\* The rest of the shutdown: stop_all, _destroy_root, and the mutex is released.
ShutDown ==
  /\ lch.phase = "closing"
  /\ lch' = [StopAll(lch) EXCEPT !.phase = "down"]

\* The launcher is ended from outside. Its children keep running until they notice.
Killed ==
  /\ lch.phase # "down"
  /\ lch' = [lch EXCEPT !.phase = "down", !.killed = \E k \in ServerKeys : lch.kids[k] > 0,
                        !.proc = NoProcs, !.goal = NoGoal, !.checks = Idle, !.applies = Idle, !.jobs = {}]

\* DesktopInstance of a successor: 30 seconds for the mutex, then it tells the user and ends.
GiveUp ==
  /\ lch.phase = "closing" /\ lch.successor # "none"
  /\ lch' = [lch EXCEPT !.successor = "none"]

Begin(S, admin) ==
  [S EXCEPT !.launches = @ + 1, !.phase = "up", !.successor = "none", !.admin = admin, !.reset = FALSE, !.stage = "pending",
            !.proc = NoProcs, !.cache = S.file.cache,
            !.saved = S.file.pend, !.last = IF S.file.exists THEN S.file.active ELSE ServerKeys,
            !.auto = S.file.auto, !.ignore = S.file.ignore, !.goal = NoGoal]

\* Mutant: the successor does not wait for the servers of its predecessor.
MutexFreeEarly(S) == S.phase # "up"

\* May the mutex be had?
MutexFree(S) == S.phase = "down"

\* The successor that waited for the mutex, or a start by the user.
Launch ==
  /\ MutexFree(lch) /\ lch.launches < MaxLaunches
  /\ \E admin \in BOOLEAN :
       /\ lch.successor = "elevated" => admin
       /\ lch' = Begin(lch, admin)

LauncherInit ==
  \E auto \in BOOLEAN, ignore \in BOOLEAN, rules \in SUBSET ServerKeys :
     lch = [launches |-> 0, phase |-> "down", successor |-> "none", admin |-> FALSE, reset |-> FALSE, stage |-> "pending",
              proc |-> NoProcs, kids |-> Idle, checks |-> Idle, applies |-> Idle, jobs |-> {},
              cache |-> {}, saved |-> NoPending, last |-> {}, auto |-> auto, ignore |-> ignore,
              rules |-> rules, killed |-> FALSE, goal |-> NoGoal,
              file |-> [NoFile EXCEPT !.exists = TRUE, !.auto = auto, !.ignore = ignore]]

LauncherNext ==
  \/ \E k \in ServerKeys : Toggle(k)
  \/ StopEverything
  \/ ClickAllow
  \/ ClickCleanup
  \/ Leave
  \/ ResetSettings
  \/ \E k \in ServerKeys : CheckDone(k)
  \/ \E k \in ServerKeys : ApplyDone(k)
  \/ JobDone
  \/ Continue
  \/ Autostart
  \/ AutostartOne
  \/ \E k \in ServerKeys : ServerEnds(k)
  \/ ShutDown
  \/ Killed
  \/ GiveUp
  \/ Launch

LauncherSpec == LauncherInit /\ [][LauncherNext]_launcherVars

-----------------------------------------------------------------------------
(* Properties.                                                               *)

\* Every server process on the machine is one a Stop button reaches: no start loses the
\* process of an earlier one, and an instance comes up only when its predecessor's servers
\* are gone, unless that was killed. (_launch_server, stop_all, DesktopInstance)
NoLostChild ==
  lch.killed \/ \A k \in ServerKeys : lch.kids[k] = (IF lch.proc[k] = "live" THEN 1 ELSE 0)

\* A factory reset is not undone by what the shutdown saves on its way out. (reset_settings, _save)
ResetForgets == lch.reset => ~lch.file.exists

\* Nothing lingers that the user can no longer reach: no server process, and no setting
\* after a factory reset.
NothingLingers == NoLostChild /\ ResetForgets

-----------------------------------------------------------------------------
(* What the code or its comments lead one to expect and the code does not  *)
(* do (README, Observations). No run checks these.                          *)

\* The servers that ran when the user quit are in launcher.json for the next launch to
\* start. ("--autostart: automatically start last saved servers on launch", main.py)
AutostartRemembers == lch.phase = "down" /\ lch.goal.known /\ ~lch.reset => lch.goal.ran \subseteq lch.file.active

\* The start that needed an administrator is there for the elevated instance to continue.
\* ("Your settings are saved and the server will continue automatically.", gui.py)
ElevatedContinues ==
  lch.phase = "down" /\ lch.goal.known /\ lch.successor = "elevated" => lch.file.pend = lch.goal.continue

\* A fingerprint in the cache has its rules. ("never a wrong answer", _restore)
CacheTrue == lch.cache \subseteq lch.rules

=============================================================================
