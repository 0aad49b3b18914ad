------------------------------ MODULE MCDesktop ------------------------------
(***************************************************************************)
(* The parts of the launcher. They share no state, so one run checks them side  *)
(* by side: `part` is chosen at the start and only that part moves.             *)
(***************************************************************************)
EXTENDS Launcher, DirectLink, DhcpResponder, StatusPoller, RaOwned, RaFrames, RaSession, LibraryCatalog, LibraryWindow

VARIABLE part

Parts9 == {"launcher", "link", "helper", "status", "ra", "frames", "rasession", "catalog", "window"}

Others(p) ==
  /\ p # "launcher" => UNCHANGED launcherVars
  /\ p # "link" => UNCHANGED linkVars
  /\ p # "helper" => UNCHANGED helperVars
  /\ p # "status" => UNCHANGED statusVars
  /\ p # "ra" => UNCHANGED raVars
  /\ p # "frames" => UNCHANGED frameVars
  /\ p # "rasession" => UNCHANGED raSessionVars
  /\ p # "catalog" => UNCHANGED catalogVars
  /\ p # "window" => UNCHANGED windowVars

\* A part that is not looked at stays in one of its initial states.
DesktopInit ==
  /\ part \in Parts9
  /\ LauncherInit /\ (part # "launcher" => lch.rules = {} /\ ~lch.auto /\ ~lch.ignore)
  /\ LinkInit
  /\ HelperInit /\ (part # "helper" => helper.os = "unix" /\ wire = CHOOSE w \in Wires(0) : TRUE)
  /\ StatusInit
  /\ RaInit
  /\ FramesInit /\ (part # "frames" => con.q = 0)
  /\ RaSessionInit
  /\ CatalogInit
  /\ WindowInit

DesktopNext ==
  /\ UNCHANGED part /\ Others(part)
  /\ \/ part = "launcher" /\ LauncherNext
     \/ part = "link" /\ LinkNext
     \/ part = "helper" /\ HelperNext
     \/ part = "status" /\ StatusNext
     \/ part = "ra" /\ RaNext
     \/ part = "frames" /\ FramesNext
     \/ part = "rasession" /\ RaSessionNext
     \/ part = "catalog" /\ CatalogNext
     \/ part = "window" /\ WindowNext

DesktopSpec ==
  DesktopInit /\ [][DesktopNext]_<<part, launcherVars, linkVars, helperVars, statusVars, raVars, frameVars, raSessionVars, catalogVars, windowVars>>
=============================================================================
