------------------------------ MODULE Port445 ------------------------------
(***************************************************************************)
(* --take-445: a server borrows TCP 445 from Windows file sharing and must    *)
(* put it back, whatever happens in between: take_445 of smb2_server.py and    *)
(* _take_445 of smbserver_opl.py, with the mains that call them. Windows is    *)
(* the environment: a service that was told to stop is StopPending for as      *)
(* long as it likes, a command may be refused, and the user may stop the       *)
(* server (KeyboardInterrupt) at any step before the restore has begun.        *)
(***************************************************************************)
EXTENDS Integers, Sequences, SequencesExt

VARIABLES
  svc,      \* the state of each service and driver
  found,    \* ghost: svc as the server found it
  pinned,   \* other software keeps srvnet loaded
  taker,    \* the server: which of the two, where it is, what it remembers
  excused   \* ghost: Windows refused or outlasted a start of the restore

port445Vars == <<svc, found, pinned, taker, excused>>

Drivers == <<"srv", "srv2", "srvnet">>   \* _SMB_DRIVERS, in the order they are stopped
SvcNames == ToSet(Drivers) \cup {"LanmanServer", "Browser"}
SvcStates == {"Running", "StopPending", "Stopped"}

\* What runs on what: srvnet carries srv2, srv2 carries srv and LanmanServer.
DependsOn == [s \in SvcNames |-> CASE s = "Browser" -> {"LanmanServer"} [] s \in {"LanmanServer", "srv"} -> {"srv2"}
                                   [] s = "srv2" -> {"srvnet"} [] s = "srvnet" -> {}]
Dependents(s) == {d \in SvcNames : s \in DependsOn[d] /\ svc[d] = "Running"}
Beneath(s) == DependsOn[s] \cup (UNION {DependsOn[d] : d \in DependsOn[s]})
                           \cup (UNION {UNION {DependsOn[e] : e \in DependsOn[d]} : d \in DependsOn[s]})

\* _port_free: srvnet owns the listener while it is loaded. On some machines it lets
\* go of it when LanmanServer stops, unless something pins it.
PortFree == svc["srvnet"] = "Stopped" \/ (~taker.sticky /\ svc["LanmanServer"] = "Stopped" /\ ~pinned)

Goes(pc) == taker' = [taker EXCEPT !.pc = pc]

-----------------------------------------------------------------------------
(* Windows.                                                                  *)

\* A Stop-Service that is accepted: done at once, or pending. -Force takes the running dependents along.
Stopping(s, force) ==
  \E state \in {"StopPending", "Stopped"} :
    svc' = [x \in SvcNames |-> IF x = s THEN state ELSE IF force /\ x \in Dependents(s) THEN "Stopped" ELSE svc[x]]

\* A pending stop completes.
StopCompletes(s) ==
  /\ svc[s] = "StopPending"
  /\ svc' = [svc EXCEPT ![s] = "Stopped"]
  /\ UNCHANGED <<found, pinned, taker, excused>>

-----------------------------------------------------------------------------
(* take_445 and _take_445.                                                   *)

\* The states at the beginning. Only take_445 looks at what it finds: a service that is
\* neither running nor stopped is left alone, one that is stopped already is not stopped.
Survey ==
  /\ taker.pc = "survey"
  /\ taker' = [taker EXCEPT !.was = svc["LanmanServer"], !.browser = svc["Browser"],
                 !.pc = IF taker.ver = 1 \/ svc["LanmanServer"] = "Running" THEN "stop"
                        ELSE IF svc["LanmanServer"] = "Stopped" THEN "port" ELSE "ended"]
  /\ UNCHANGED <<svc, found, pinned, excused>>

\* Stop-Service LanmanServer -Force. A command that fails may have changed the state. take_445
\* believes its exit code, _take_445 looks at the state only.
StopLanman ==
  /\ taker.pc = "stop"
  /\ \/ Stopping("LanmanServer", TRUE) /\ (Goes("wait") \/ (taker.ver = 2 /\ Goes("refused")))
     \/ UNCHANGED svc /\ Goes(IF taker.ver = 1 THEN "wait" ELSE "refused")
  /\ UNCHANGED <<found, pinned, excused>>

\* wait_for, wait_stopped. What the two do when the time is over differs.
WaitLanman ==
  /\ taker.pc = "wait"
  /\ \/ svc["LanmanServer"] = "Stopped" /\ Goes("port")
     \/ svc["LanmanServer"] # "Stopped" /\ Goes(IF taker.ver = 1 THEN "ended" ELSE "refused")
  /\ UNCHANGED <<svc, found, pinned, excused>>

\* Is 445 free? _take_445 gives up when it is not, take_445 goes on with the drivers.
LookAtPort ==
  /\ taker.pc = "port"
  /\ Goes(IF PortFree THEN "serving" ELSE IF taker.ver = 1 THEN "refused" ELSE "driver")
  /\ UNCHANGED <<svc, found, pinned, excused>>

\* Mutant: the driver is noted once the command has succeeded.
StopDriverNotedAfter ==
  /\ taker.pc = "driver"
  /\ IF taker.i > Len(Drivers) THEN Goes("serving") /\ UNCHANGED svc
     ELSE LET d == Drivers[taker.i]
              noted == [taker EXCEPT !.drivers = Append(@, d)]
          IN  \/ svc[d] # "Running" /\ taker' = [taker EXCEPT !.i = @ + 1] /\ UNCHANGED svc
              \/ svc[d] = "Running" /\ pinned /\ d = "srvnet" /\ Goes("refused") /\ UNCHANGED svc
              \/ /\ svc[d] = "Running" /\ ~(pinned /\ d = "srvnet")
                 /\ \/ Dependents(d) = {} /\ Stopping(d, FALSE) /\ (taker' = [noted EXCEPT !.pc = "waitDriver"] \/ Goes("refused"))
                    \/ UNCHANGED svc /\ taker' = [noted EXCEPT !.pc = "refused"]
  /\ UNCHANGED <<found, pinned, excused>>

\* The next driver: skipped unless it runs, not touched when other software depends on it.
\* It is noted as stopped before the command, which may fail and still change its state;
\* Windows refuses while something runs on the driver.
StopDriver ==
  /\ taker.pc = "driver"
  /\ IF taker.i > Len(Drivers) THEN Goes("serving") /\ UNCHANGED svc
     ELSE LET d == Drivers[taker.i]
              noted == [taker EXCEPT !.drivers = Append(@, d)]
          IN  \/ svc[d] # "Running" /\ taker' = [taker EXCEPT !.i = @ + 1] /\ UNCHANGED svc
              \/ svc[d] = "Running" /\ pinned /\ d = "srvnet" /\ Goes("refused") /\ UNCHANGED svc
              \/ /\ svc[d] = "Running" /\ ~(pinned /\ d = "srvnet")
                 /\ \/ Dependents(d) = {} /\ Stopping(d, FALSE) /\ \E pc \in {"waitDriver", "refused"} : taker' = [noted EXCEPT !.pc = pc]
                    \/ UNCHANGED svc /\ taker' = [noted EXCEPT !.pc = "refused"]
  /\ UNCHANGED <<found, pinned, excused>>

WaitDriver ==
  /\ taker.pc = "waitDriver"
  /\ taker' = IF svc[Drivers[taker.i]] = "Stopped" THEN [taker EXCEPT !.pc = "driver", !.i = @ + 1] ELSE [taker EXCEPT !.pc = "refused"]
  /\ UNCHANGED <<svc, found, pinned, excused>>

\* The bind fails for good, the server is stopped, or the user interrupts whatever it does:
\* one restore, by the except clause or the finally clause. Before the try there is none.
Ends ==
  /\ taker.pc \in {"survey", "stop", "wait", "port", "driver", "waitDriver", "serving", "refused"}
  /\ Goes(IF taker.pc = "survey" THEN "ended" ELSE "restoring")
  /\ UNCHANGED <<svc, found, pinned, excused>>

-----------------------------------------------------------------------------
(* restore.                                                                  *)

\* Start-Service starts what the service needs as well.
Started(s) == [x \in SvcNames |-> IF x \in {s} \cup Beneath(s) THEN "Running" ELSE svc[x]]

\* start_service: waits for a pending stop to complete. It gives up only when Windows
\* refuses, or outlasts the time.
StartService(s, next) ==
  \/ svc[s] = "Running" /\ UNCHANGED <<svc, excused>> /\ taker' = next
  \/ svc[s] = "Stopped" /\ svc' = Started(s) /\ UNCHANGED excused /\ taker' = next
  \/ svc[s] # "Running" /\ UNCHANGED svc /\ excused' = TRUE /\ taker' = next

\* restore of take_445: the drivers in reverse, then LanmanServer if it ran, then Browser.
RestoreNext ==
  /\ taker.pc = "restoring" /\ taker.ver = 2
  /\ LET n == Len(taker.drivers)
     IN  IF n > 0 THEN StartService(taker.drivers[n], [taker EXCEPT !.drivers = Front(@)])
         ELSE IF taker.was # "Running" THEN Goes("ended") /\ UNCHANGED <<svc, excused>>
         ELSE StartService("LanmanServer", [taker EXCEPT !.pc = "browser"])
  /\ UNCHANGED <<found, pinned>>

\* Start-Service Browser, once LanmanServer was seen running. A refusal is not looked at.
RestoreBrowser ==
  /\ taker.pc = "browser"
  /\ IF taker.browser = "Running" /\ svc["LanmanServer"] = "Running"
     THEN StartService("Browser", [taker EXCEPT !.pc = "ended"])
     ELSE Goes("ended") /\ UNCHANGED <<svc, excused>>
  /\ UNCHANGED <<found, pinned>>

\* restore of _take_445: Start-Service without a look at the state. A service whose stop is
\* still pending cannot be started.
RestoreAtOnce ==
  /\ taker.pc = "restoring" /\ taker.ver = 1
  /\ Goes("browser")
  /\ \/ svc["LanmanServer"] # "StopPending" /\ svc' = Started("LanmanServer") /\ UNCHANGED excused
     \/ svc["LanmanServer"] = "StopPending" /\ UNCHANGED <<svc, excused>>
     \/ svc["LanmanServer"] = "Stopped" /\ UNCHANGED svc /\ excused' = TRUE
  /\ UNCHANGED <<found, pinned>>

Port445Init ==
  /\ svc \in [SvcNames -> {"Running", "Stopped"}]
  /\ svc["LanmanServer"] = "Running" => svc["srv2"] = "Running"
  /\ \A s \in SvcNames : svc[s] = "Running" => \A d \in DependsOn[s] : svc[d] = "Running"
  /\ found = svc
  /\ pinned \in BOOLEAN /\ (pinned => svc["srvnet"] = "Running")
  /\ taker \in [ver : {1, 2}, pc : {"survey"}, was : {"none"}, browser : {"none"}, i : {1}, drivers : {<<>>}, sticky : BOOLEAN]
  /\ excused = FALSE

Port445Next ==
  \/ Survey \/ StopLanman \/ WaitLanman \/ LookAtPort \/ StopDriver \/ WaitDriver \/ Ends
  \/ RestoreNext \/ RestoreBrowser \/ RestoreAtOnce
  \/ \E s \in SvcNames : StopCompletes(s)

Port445Spec == Port445Init /\ [][Port445Next]_port445Vars

-----------------------------------------------------------------------------
(* Properties.                                                              *)

\* restore of take_445: when the SMB2 server has ended, however and wherever it was stopped
\* or refused, Windows file sharing is exactly as it was found, drivers and Browser
\* included, unless Windows itself refused or outlasted a start.
SharingRestored == taker.ver = 2 /\ taker.pc = "ended" /\ ~excused => svc = found

-----------------------------------------------------------------------------
(* What the code or its comments lead one to expect and the code does not  *)
(* do (README, Observations). No run checks these.                          *)

\* The except clause of _take_445: a server stopped while LanmanServer goes down puts it
\* back, so that file sharing does not stay off.
InterruptRestores ==
  taker.ver = 1 /\ taker.pc = "ended" /\ ~excused /\ found["LanmanServer"] = "Running" => svc["LanmanServer"] # "Stopped"
=============================================================================
