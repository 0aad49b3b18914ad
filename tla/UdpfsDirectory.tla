--------------------------- MODULE UdpfsDirectory ---------------------------
(***************************************************************************)
(* The names a UDPFS session sees in a folder:                                 *)
(* DOPEN, DREAD, CLOSE, GETSTAT, and the lookup of OPEN, with compressed        *)
(* images shown as ISOs and CD CHDs as CUE and BIN. Meanwhile the user of the   *)
(* PC and other sessions change the folder.                                    *)
(*                                                                           *)
(* A name is a stem with its extensions: <<1, "cso">> is a file, and            *)
(* <<1, "cso", "iso">> the ISO it is shown as. Extensions differ in nothing but *)
(* what the lookup does with them; upper case is not modelled.                  *)
(***************************************************************************)
EXTENDS Integers, Sequences, FiniteSets, SequencesExt

CONSTANTS
  DirNames,       \* the names files of the folder can have
  Unreadable,     \* those of them that are containers whose header does not parse
  DirHandles,     \* MAX_HANDLES
  FolderVanishes  \* whether the folder may be renamed away for a moment, while DOPEN runs

\* The alias of a container: its name with .iso behind it.
IsoName(n) == <<n[1], n[2], "iso">>

ASSUME DirectoryAssumption ==
  /\ IsFiniteSet(DirNames) /\ Unreadable \subseteq DirNames /\ DirHandles \in Nat \ {0} /\ FolderVanishes \in BOOLEAN
  /\ \A n \in DirNames : n \in {<<n[1], n[2]>>, IsoName(n)}

VARIABLES
  folder,     \* the files of the folder
  dirs        \* the session's directory handles: told to the console, or not

directoryVars == <<folder, dirs>>

Containers == <<"zso", "cso", "chd">>   \* COMPRESSED_EXTENSIONS, in probe order
Ext(n) == n[Len(n)]
IsContainer(n) == Len(n) = 2 /\ Ext(n) \in ToSet(Containers)
Readable(n) == n \notin Unreadable

-----------------------------------------------------------------------------
(* The advertised names.                                                     *)

\* list_virtual_entries and find_virtual_view: a readable CHD is a CUE and a BIN, unless
\* either name is taken.
Virtual(files, stem) ==
  <<stem, "chd">> \in files /\ Readable(<<stem, "chd">>) /\ <<stem, "cue">> \notin files /\ <<stem, "bin">> \notin files

\* Mutant: an alias is advertised although a file has its name.
PrepareAll(files) ==
  {[name |-> n, source |-> n] : n \in {f \in files : ~IsContainer(f)}}
  \cup {[name |-> IsoName(n), source |-> n] : n \in {f \in files : IsContainer(f) /\ Readable(f)}}
  \cup {[name |-> <<n[1], e>>, source |-> n] : n \in {f \in files : Ext(f) = "chd" /\ Virtual(files, f[1])}, e \in {"cue", "bin"}}

\* _prepare_directory_entries: real names, the ISO of each container that can be read and
\* whose alias is free, the CUE and BIN of a CHD.
Prepare(files) ==
  {[name |-> n, source |-> n] : n \in {f \in files : ~IsContainer(f)}}
  \cup {[name |-> IsoName(n), source |-> n] : n \in {f \in files : IsContainer(f) /\ Readable(f) /\ IsoName(f) \notin files}}
  \cup {[name |-> <<n[1], e>>, source |-> n] : n \in {f \in files : Ext(f) = "chd" /\ Virtual(files, f[1])}, e \in {"cue", "bin"}}

\* The probe of _resolve_compressed_sibling for a plain .iso: the first container that can be
\* read, else the first there is.
Probe(files, stem) ==
  LET there == SelectSeq([i \in 1 .. Len(Containers) |-> <<stem, Containers[i]>>], LAMBDA c : c \in files)
      good == SelectSeq(there, Readable)
  IN  IF there = <<>> THEN <<>> ELSE IF good # <<>> THEN Head(good) ELSE Head(there)

\* _resolve_compressed_sibling: the container an ISO name stands for, <<>> for none. A name
\* with both extensions has one container.
Sibling(files, n) ==
  IF Ext(n) # "iso" THEN <<>>
  ELSE IF Len(n) = 3 THEN (IF <<n[1], n[2]>> \in files THEN <<n[1], n[2]>> ELSE <<>>)
  ELSE Probe(files, n[1])

\* The lookup of _handle_open: a real file, a container, a virtual file; <<>> for ENOENT.
OpenSource(files, n) ==
  IF n \in files THEN n
  ELSE IF Sibling(files, n) # <<>> THEN Sibling(files, n)
  ELSE IF Ext(n) \in {"cue", "bin"} /\ Virtual(files, n[1]) THEN <<n[1], "chd">> ELSE <<>>

\* The lookup of _handle_getstat: a container that cannot be read has no size to tell.
StatSource(files, n) ==
  IF n \in files THEN n
  ELSE IF Sibling(files, n) # <<>> /\ Readable(Sibling(files, n)) THEN Sibling(files, n)
  ELSE IF Ext(n) \in {"cue", "bin"} /\ Virtual(files, n[1]) THEN <<n[1], "chd">> ELSE <<>>

-----------------------------------------------------------------------------
(* Directory handles.                                                        *)

NoDir == [open |-> FALSE]
OpenDirs == {h \in 1 .. DirHandles : dirs[h].open}

\* The order os.scandir returns entries in is arbitrary; one order is as good as another.
Listing(files) == SetToSeq(Prepare(files))

\* DOPEN of _handle_open: the entries, the handle, and then the stat, which fails if the folder
\* has just gone: the console is told of the error, and the handle stays.
Dopen ==
  /\ OpenDirs # 1 .. DirHandles
  /\ \E told \in IF FolderVanishes THEN BOOLEAN ELSE {TRUE} :
       dirs' = [dirs EXCEPT ![CHOOSE h \in 1 .. DirHandles : ~dirs[h].open] =
                  [open |-> TRUE, told |-> told, entries |-> Listing(folder), index |-> 0, shown |-> <<>>,
                   steady |-> Prepare(folder), unchanged |-> TRUE]]
  /\ UNCHANGED folder

\* Whether DREAD passes over an entry: its file is gone, or a real CUE or BIN has come.
Skips(e) ==
  \/ e.source \notin folder
  \/ Ext(e.name) \in {"cue", "bin"} /\ Ext(e.source) = "chd" /\ (<<e.name[1], "cue">> \in folder \/ <<e.name[1], "bin">> \in folder)

\* What is left of a listing, less what is passed over.
Ahead(d) == {i \in d.index + 1 .. Len(d.entries) : ~Skips(d.entries[i])}

\* A directory handle moved to the next entry that is not passed over, or to the end.
Advanced(d) ==
  IF Ahead(d) = {} THEN [d EXCEPT !.index = Len(d.entries)]
  ELSE LET i == CHOOSE i \in Ahead(d) : \A j \in Ahead(d) : i <= j
       IN  [d EXCEPT !.index = i, !.shown = Append(d.shown, d.entries[i])]

\* _handle_dread
Dread(h) ==
  /\ dirs[h].open /\ dirs[h].told /\ dirs[h].index < Len(dirs[h].entries)
  /\ dirs' = [dirs EXCEPT ![h] = Advanced(dirs[h])]
  /\ UNCHANGED folder

\* _handle_close of a directory handle.
CloseDir(h) ==
  /\ dirs[h].open /\ dirs[h].told
  /\ dirs' = [dirs EXCEPT ![h] = NoDir]
  /\ UNCHANGED folder

\* A file comes or goes, by the PC's user or another session.
NameChanges(n) ==
  /\ folder' = IF n \in folder THEN folder \ {n} ELSE folder \cup {n}
  /\ dirs' = [h \in 1 .. DirHandles |->
               IF dirs[h].open THEN [dirs[h] EXCEPT !.unchanged = FALSE, !.steady = dirs[h].steady \cap Prepare(folder')] ELSE NoDir]

DirectoryInit ==
  /\ folder \in SUBSET DirNames
  /\ dirs = [h \in 1 .. DirHandles |-> NoDir]

DirectoryNext ==
  \/ Dopen
  \/ \E h \in 1 .. DirHandles : Dread(h) \/ CloseDir(h)
  \/ \E n \in DirNames : NameChanges(n)

DirectorySpec == DirectoryInit /\ [][DirectoryNext]_directoryVars

-----------------------------------------------------------------------------
(* Properties.                                                              *)

\* DREAD, OPEN and GETSTAT agree: every name a session was shown is shown once, and while the
\* folder has not changed since, opens the file it was shown for and has that file's size.
ShownIsServed ==
  \A h \in OpenDirs :
    LET d == dirs[h]
    IN  /\ \A i, j \in 1 .. Len(d.shown) : d.shown[i].name = d.shown[j].name => i = j
        /\ d.unchanged => \A i \in 1 .. Len(d.shown) :
             OpenSource(folder, d.shown[i].name) = d.shown[i].source /\ StatSource(folder, d.shown[i].name) = d.shown[i].source

\* _handle_dread: a listing read to its end has every name that stood for the same file all
\* the while; what came and went meanwhile cuts nothing short.
DirectoryComplete ==
  \A h \in OpenDirs : dirs[h].index = Len(dirs[h].entries) /\ dirs[h].told => dirs[h].steady \subseteq ToSet(dirs[h].shown)

\* A folder as a console sees it, one DREAD at a time while files come and go, is the folder
\* it can then open: no name twice, none missing, each the file it stands for.
FolderShown == ShownIsServed /\ DirectoryComplete

-----------------------------------------------------------------------------
(* What the code or its comments lead one to expect and the code does not  *)
(* do (README, Observations). No run checks these.                          *)

\* Every handle in the session's table is one the console knows of and can close.
HandlesTold == \A h \in OpenDirs : dirs[h].told
=============================================================================
