------------------------------ MODULE MCShares ------------------------------
(***************************************************************************)
(* The file servers beside UDPFS and UDPBD, and the names a UDPFS session      *)
(* sees. They share no state, so one run checks them side by side: `part` is    *)
(* chosen at the start and only that part moves.                               *)
(***************************************************************************)
EXTENDS Smb2Session, Smb2Files, Smb1Server, Port445, HttpIndex, HttpHandler, UdpfsDirectory, UdpfsPaths, EdgeWriters

VARIABLE part

Others(p) ==
  /\ p # "session" => UNCHANGED sessionVars
  /\ p # "files" => UNCHANGED filesVars
  /\ p # "smb1" => UNCHANGED smb1Vars
  /\ p # "port445" => UNCHANGED port445Vars
  /\ p # "index" => UNCHANGED indexVars
  /\ p # "handler" => UNCHANGED handlerVars
  /\ p # "directory" => UNCHANGED directoryVars
  /\ p # "paths" => UNCHANGED pathsVars
  /\ p # "edge" => UNCHANGED edgeVars

\* A part that is not looked at stays in one of its initial states.
SharesInit ==
  /\ part \in {"session", "files", "smb1", "port445", "index", "handler", "directory", "paths", "edge"}
  /\ SessionInit /\ (part # "session" => ~conn.isOpen /\ conn.ceiling = 210)
  /\ FilesInit /\ (part # "files" => ~smbRo)
  /\ Smb1Init /\ (part # "smb1" => ~ro1)
  /\ Port445Init /\ (part # "port445" => (\A s \in SvcNames : svc[s] = "Running") /\ ~pinned /\ taker.ver = 1 /\ ~taker.sticky)
  /\ IndexInit /\ (part # "index" => library.files = {} /\ ~gameIndex.flat)
  /\ HandlerInit
  /\ DirectoryInit /\ (part # "directory" => folder = {})
  /\ PathsInit
  /\ EdgeInit

SharesNext ==
  /\ UNCHANGED part /\ Others(part)
  /\ \/ part = "session" /\ SessionNext
     \/ part = "files" /\ FilesNext
     \/ part = "smb1" /\ Smb1Next
     \/ part = "port445" /\ Port445Next
     \/ part = "index" /\ IndexNext
     \/ part = "handler" /\ HandlerNext
     \/ part = "directory" /\ DirectoryNext
     \/ part = "paths" /\ PathsNext
     \/ part = "edge" /\ EdgeNext

SharesSpec ==
  SharesInit /\ [][SharesNext]_<<part, sessionVars, filesVars, smb1Vars, port445Vars, indexVars, handlerVars, directoryVars, pathsVars, edgeVars>>

MCHttpFiles == {<<1>>, <<5, 1>>, <<5, 11>>, <<5, 2>>}
MCDirNames == {<<1, "cso">>, <<1, "chd">>, <<1, "cue">>, <<1, "cso", "iso">>}
=============================================================================
