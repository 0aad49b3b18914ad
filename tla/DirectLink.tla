----------------------------- MODULE DirectLink -----------------------------
(***************************************************************************)
(* The direct PS2 link as the launcher manages it on Windows: gui.py takes a   *)
(* network port away from DHCP, gives it a fixed address, runs the DHCP helper  *)
(* on it, moves the address when the helper finds a console on it, and puts     *)
(* the port back. The address outlives the launcher and a reboot, so what was   *)
(* done to the port has to be on disk whenever the launcher may be gone.        *)
(*                                                                           *)
(* As in Launcher, a Tk handler is a function from the state to the states it   *)
(* can end in. A worker thread runs one PowerShell script (RunWorker) and is     *)
(* heard by Tk later (Heard). The helper's own behaviour is DhcpResponder.       *)
(***************************************************************************)
EXTENDS Naturals, FiniteSets

CONSTANTS
  LinkAddrs,      \* the server addresses a port can be given
  MaxRehomes,     \* _MAX_REHOMES
  MaxLinkStarts,  \* bound on the instances of the launcher
  LinkRisks       \* what else may happen, see below

\* "crash": the launcher is killed. "refused": apply_adapter_config fails before it has
\* changed anything. "norights": a script without administrator rights, whose commands
\* fail silently. "uac": the user refuses the prompt. "cleanup": the cleanup button is
\* pressed while another worker is under way. "admin": the launcher may be elevated from the start.
ASSUME DirectLinkAssumption ==
  /\ LinkAddrs # {} /\ LinkAddrs \cap {"none", "dhcp", "other"} = {} /\ MaxRehomes \in Nat /\ MaxLinkStarts \in Nat
  /\ LinkRisks \subseteq {"crash", "refused", "norights", "uac", "cleanup", "admin"}

VARIABLE dl

linkVars == <<dl>>

NoCfg == [addr |-> "none", enabled |-> FALSE]
Known(S) == S.cfg.addr # "none"

\* _save: self.saved's direct_link and recovery marker, and the request of this call.
SaveLink(S, pend) == [S EXCEPT !.file = [cfg |-> S.cfg, restore |-> S.restore, pend |-> pend]]

Work(S, kind, addr, clear) ==
  [S EXCEPT !.workers = @ \cup {[kind |-> kind, addr |-> addr, clear |-> clear, done |-> "no"]}]

\* _set_direct_checkbox
Box(S, ticked, busy) == [S EXCEPT !.box = ticked, !.busy = busy]
LinkFail(S) == Box(S, FALSE, FALSE)

\* _stop_direct_responder
StopResponder(S) == [S EXCEPT !.proc = "none", !.expected = FALSE]

\* _direct_link_restore_async
RestoreAsync(S, clear) == Work(Box(S, FALSE, TRUE), "restore", S.cfg.addr, clear)

\* Mutant: the settings are dropped before the port is back on DHCP.
RollbackForgets(S) ==
  RestoreAsync(SaveLink([S EXCEPT !.cfg = NoCfg, !.restore = FALSE], "none"), TRUE)

\* _rollback_failed_direct_responder
RollbackFailed(S) ==
  RestoreAsync(SaveLink([S EXCEPT !.cfg.enabled = FALSE, !.restore = TRUE], "none"), TRUE)

\* _start_direct_responder, and what its two callers do next: on failure roll back S, on
\* success go on to T (which is S with the caller's own changes).
WithResponder(S, T) ==
  IF S.proc = "running" THEN {T}
  ELSE {RollbackFailed(LinkFail(S)), [T EXCEPT !.proc = "running", !.expected = TRUE]}

\* relaunch_as_admin, stop_all and _destroy_root; or the prompt is refused.
LinkElevate(S, pend) ==
  {[StopResponder(SaveLink(S, pend)) EXCEPT !.phase = "down", !.elevated = TRUE]}
    \cup (IF "uac" \in LinkRisks THEN {LinkFail(SaveLink(S, "none"))} ELSE {})

-----------------------------------------------------------------------------
(* The scripts.                                                              *)

\* apply_adapter_config: the address is set; or half done and returned to DHCP by the
\* script itself; or refused at its head; or, without rights, nothing happens and the
\* script still prints CONFIGURED.
Applied(S, w) ==
  {[nic |-> w.addr, done |-> "ok"], [nic |-> "dhcp", done |-> "fail"]}
    \cup (IF "refused" \in LinkRisks THEN {[nic |-> S.nic, done |-> "fail"]} ELSE {})
    \cup (IF "norights" \in LinkRisks /\ ~S.admin THEN {[nic |-> S.nic, done |-> "ok"]} ELSE {})

\* restore_adapter_dhcp: only a port that still carries the expected address is touched,
\* and a port that does not is a success.
Restored(S, w) ==
  IF S.nic # w.addr THEN {[nic |-> S.nic, done |-> "ok"]}
  ELSE {[nic |-> "dhcp", done |-> "ok"], [nic |-> S.nic, done |-> "fail"]}
         \cup (IF "norights" \in LinkRisks /\ ~S.admin THEN {[nic |-> S.nic, done |-> "ok"]} ELSE {})

\* What a worker's script can do. Enabling goes on to the firewall rule, and takes the
\* address back when that fails (which may fail too).
Outcomes(S, w) ==
  CASE w.kind = "apply" ->
         Applied(S, w) \cup {[nic |-> "dhcp", done |-> "fail"], [nic |-> w.addr, done |-> "fail"]}
    [] w.kind = "rehome" -> Applied(S, w)
    [] w.kind \in {"restore", "cleanup"} -> Restored(S, w)
    [] w.kind = "startup" -> {[nic |-> S.nic, done |-> "fail"]}
                               \cup (IF S.nic = w.addr THEN {[nic |-> S.nic, done |-> "ok"]} ELSE {})
    [] w.kind = "enumerate" -> {[nic |-> S.nic, done |-> d] : d \in {"ok", "fail"}}

RunWorker ==
  \E w \in dl.workers :
    /\ w.done = "no"
    /\ \E o \in Outcomes(dl, w) :
         dl' = [dl EXCEPT !.nic = o.nic, !.workers = (@ \ {w}) \cup (IF dl.phase = "up" THEN {[w EXCEPT !.done = o.done]} ELSE {})]

-----------------------------------------------------------------------------
(* What Tk hears of the workers.                                              *)

\* _direct_link_choose, after find_candidates, taken_networks and choose_subnet
Choose(S) ==
  {LinkFail(S)} \cup
  UNION {LET T == [S EXCEPT !.cfg = [addr |-> a, enabled |-> FALSE]]
         IN  IF T.admin THEN {Work(Box(T, TRUE, TRUE), "apply", a, FALSE)} ELSE LinkElevate(T, "on") : a \in LinkAddrs}

\* _direct_link_enabled: without settings (a cleanup took them) the handler dies of a KeyError.
Enabled(S) ==
  LET T == [S EXCEPT !.rehomes = 0]
  IN  IF ~Known(T) THEN {T}
      ELSE WithResponder(T, Box(SaveLink([T EXCEPT !.cfg.enabled = TRUE], "none"), TRUE, FALSE))

\* _direct_link_restored
LinkRestored(S, clear) ==
  LET T == [S EXCEPT !.restore = FALSE, !.cfg = IF clear THEN NoCfg ELSE @]
  IN  LinkFail(IF clear \/ S.restore THEN SaveLink(T, "none") ELSE T)

\* _direct_link_rehome_done
RehomeDone(S) ==
  LET T == [S EXCEPT !.proc = "none"]
  IN  IF ~Known(S) THEN {T}
      ELSE WithResponder(T, Box(SaveLink([T EXCEPT !.restore = FALSE], "none"), TRUE, FALSE))

\* _direct_link_startup_done
StartupDone(S) == IF ~Known(S) THEN {S} ELSE WithResponder(S, Box(S, TRUE, FALSE))

\* _finish_direct_cleanup, _fail_direct_cleanup
CleanupDone(S, ok) ==
  IF ok THEN LinkFail(SaveLink([S EXCEPT !.cfg = NoCfg, !.restore = FALSE], "none")) ELSE Box(S, S.cfg.enabled, FALSE)

Heard ==
  /\ dl.phase = "up"
  /\ \E w \in dl.workers :
       /\ w.done # "no"
       /\ LET S == [dl EXCEPT !.workers = @ \ {w}]
              ok == w.done = "ok"
          IN  dl' \in CASE w.kind = "enumerate" -> IF ok THEN Choose(S) ELSE {LinkFail(S)}
                        [] w.kind = "apply" -> IF ok THEN Enabled(S) ELSE {LinkFail(S)}
                        [] w.kind = "restore" -> IF ok THEN {LinkRestored(S, w.clear)} ELSE {LinkFail(S)}
                        [] w.kind = "rehome" -> IF ok THEN RehomeDone(S) ELSE {RollbackFailed(S)}
                        [] w.kind = "startup" -> IF ok THEN StartupDone(S) ELSE {RollbackFailed(S)}
                        [] w.kind = "cleanup" -> {CleanupDone(S, ok)}

-----------------------------------------------------------------------------
(* What the user does.                                                       *)

\* _direct_link_begin_enable
Tick ==
  /\ dl.phase = "up" /\ ~dl.busy /\ ~dl.box
  /\ dl' = Work(Box(dl, TRUE, TRUE), "enumerate", "none", FALSE)

\* _direct_link_begin_disable: cancel, keep the address, or return the port to DHCP.
Untick ==
  /\ dl.phase = "up" /\ ~dl.busy /\ dl.box
  /\ LET off == [StopResponder(dl) EXCEPT !.cfg.enabled = FALSE]
     IN  dl' \in IF ~dl.cfg.enabled THEN {LinkFail(StopResponder(dl))}
                 ELSE {dl, LinkFail(SaveLink(off, "none"))}
                        \cup (IF dl.admin THEN {RestoreAsync(SaveLink(off, "none"), FALSE)} ELSE LinkElevate(off, "off"))

\* _cleanup_windows_setup_async, as far as the direct link is concerned
CleanUp ==
  /\ dl.phase = "up" /\ dl.admin /\ Known(dl)
  /\ dl.workers = {} \/ ("cleanup" \in LinkRisks /\ \A w \in dl.workers : w.kind # "cleanup")
  /\ dl' = Work(Box(StopResponder(dl), dl.cfg.enabled, TRUE), "cleanup", dl.cfg.addr, FALSE)

\* Windows' own network settings give the port something else.
Reconfigure ==
  /\ dl.nic \in LinkAddrs /\ dl.workers = {}
  /\ dl' = [dl EXCEPT !.nic = "other"]

-----------------------------------------------------------------------------
(* The helper.                                                               *)

\* run_responder returns: 3 for a refusal, 5 with the address it wants, anything else.
HelperExits ==
  /\ dl.proc = "running"
  /\ \E code \in {"refused", "rehome", "died"} : dl' = [dl EXCEPT !.proc = code]

\* _direct_link_rehome
Rehome(S, a) ==
  IF S.rehomes >= MaxRehomes THEN RollbackFailed(S)
  ELSE LET T == SaveLink([S EXCEPT !.rehomes = @ + 1, !.cfg = [addr |-> a, enabled |-> TRUE], !.restore = TRUE], "none")
       IN  Work(Box(T, TRUE, TRUE), "rehome", a, FALSE)

\* _poll_status, and _finish_direct_exit
PollHelper ==
  /\ dl.phase = "up" /\ dl.expected /\ dl.proc \notin {"none", "running"}
  /\ LET S == [dl EXCEPT !.expected = FALSE]
     IN  dl' \in IF ~Known(S) THEN {S}
                 ELSE IF S.proc = "rehome" THEN {Rehome(S, a) : a \in LinkAddrs \ {S.cfg.addr}}
                 ELSE {RollbackFailed(S)}

-----------------------------------------------------------------------------
(* The launcher comes and goes.                                              *)

\* _shutdown_app, or the process is killed. The script of a worker runs to its end without it.
LinkExit ==
  /\ dl.phase = "up"
  /\ \E S \in {SaveLink(dl, "none")} \cup (IF "crash" \in LinkRisks THEN {dl} ELSE {}) :
       dl' = [StopResponder(S) EXCEPT !.phase = "down", !.elevated = FALSE, !.workers = {w \in @ : w.done = "no"}]

\* _direct_link_recovery_pending
Recovery(S) ==
  IF ~Known(S) THEN {SaveLink([S EXCEPT !.restore = FALSE], "none")}
  ELSE IF S.admin THEN {RestoreAsync(S, TRUE)}
  ELSE {LinkFail(S), [S EXCEPT !.phase = "down", !.elevated = TRUE]}

\* __init__, and the one pending flow it takes up: _direct_link_pending,
\* _direct_link_off_pending, the recovery, or _direct_link_startup
LinkLaunch ==
  /\ dl.phase = "down" /\ dl.workers = {} /\ dl.starts < MaxLinkStarts
  /\ \E admin \in BOOLEAN :
       /\ dl.elevated => admin
       /\ admin => dl.elevated \/ "admin" \in LinkRisks \/ dl.starts = 0
       /\ LET S == Box([dl EXCEPT !.phase = "up", !.elevated = FALSE, !.starts = @ + 1, !.admin = admin, !.rehomes = 0,
                                  !.cfg = dl.file.cfg, !.restore = dl.file.restore], FALSE, FALSE)
              clear == SaveLink(S, "none")
          IN  dl' \in CASE S.file.pend = "on" ->
                             {IF ~Known(S) THEN clear ELSE IF ~admin THEN LinkFail(clear)
                              ELSE Work(Box(clear, TRUE, TRUE), "apply", S.cfg.addr, FALSE)}
                        [] S.file.pend = "off" -> {IF admin /\ Known(S) THEN RestoreAsync(clear, FALSE) ELSE LinkFail(clear)}
                        [] S.file.pend = "none" /\ S.restore -> Recovery(S)
                        [] OTHER -> {IF S.cfg.enabled THEN Work(Box(S, TRUE, TRUE), "startup", S.cfg.addr, FALSE) ELSE S}

LinkInit ==
  dl = [phase |-> "down", elevated |-> FALSE, admin |-> FALSE, starts |-> 0, nic |-> "dhcp", cfg |-> NoCfg, restore |-> FALSE,
        file |-> [cfg |-> NoCfg, restore |-> FALSE, pend |-> "none"], box |-> FALSE, busy |-> FALSE,
        proc |-> "none", expected |-> FALSE, rehomes |-> 0, workers |-> {}]

LinkNext ==
  \/ RunWorker
  \/ Heard
  \/ Tick
  \/ Untick
  \/ CleanUp
  \/ Reconfigure
  \/ HelperExits
  \/ PollHelper
  \/ LinkExit
  \/ LinkLaunch

LinkSpec == LinkInit /\ [][LinkNext]_linkVars

-----------------------------------------------------------------------------
(* Properties.                                                               *)

\* A port that was given an address is never left with it unknown to launcher.json once
\* the launcher is gone and no elevated one is to go on: the next launch, the tick box and
\* the cleanup all work from the address recorded there. ("instead of stranding it static",
\* gui.py)
NothingStranded ==
  dl.phase = "down" /\ dl.workers = {} /\ dl.nic \in LinkAddrs /\ dl.file.pend = "none" => dl.file.cfg.addr = dl.nic

\* With nothing under way, the tick box says whether a helper is running.
BoxTellsTruth ==
  dl.phase = "up" /\ dl.workers = {} /\ ~dl.busy /\ dl.proc = "running" => dl.box /\ dl.cfg.enabled

\* A port the user has since configured otherwise is not put back to DHCP.
\* ("it is not ours to clobber", restore_adapter_dhcp)
UsersPortKept ==
  dl.nic = "other" /\ dl.nic' # "other" => \E w \in dl.workers : w.kind \in {"apply", "rehome"}

\* The port is accounted for: what the launcher set it can undo, what the user set it leaves,
\* and the box says which.
PortAccounted == [][NothingStranded' /\ BoxTellsTruth' /\ UsersPortKept]_linkVars

-----------------------------------------------------------------------------
(* What the code or its comments lead one to expect and the code does not  *)
(* do (README, Observations). No run checks these.                          *)

\* Once the port is back on DHCP nothing keeps the settings from being reset.
\* ("untick it and choose Yes to return the port to automatic (DHCP) before resetting", gui.py)
ResetAllowed ==
  dl.phase = "up" /\ dl.workers = {} /\ ~dl.busy /\ ~dl.box /\ dl.nic = "dhcp" => ~Known(dl)

=============================================================================
