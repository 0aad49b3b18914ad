----------------------------- MODULE Smb2Files -----------------------------
(***************************************************************************)
(* What the file handlers of smb2_server.py do to the files of a share, for  *)
(* several connections at once: each is served by a thread of its own, and   *)
(* nothing but the file system stands between them. A Handle names its file   *)
(* by path and opens it at the first READ or WRITE (_open_file). CREATE and   *)
(* the rename of SET_INFO look at the file system first and act on what they  *)
(* saw; other threads run in between.                                         *)
(*                                                                           *)
(* A path names nothing, an inode that is a file with some contents, or a     *)
(* directory (empty: the directories of a share are looked at one at a time). *)
(* The root of the share is the one directory that is listed.                 *)
(***************************************************************************)
EXTENDS Integers, Sequences, SequencesExt, Sorting

CONSTANTS
  SmbConns,     \* the connections
  Browsers,     \* those of a client that only looks: it opens what exists, to read or to list
  SmbNames,     \* file names in the root of the share, a finite set of naturals
  MaxFids,      \* handles per connection
  SmbReadOnly,  \* values of the server's --read-only
  Dispositions  \* CreateDispositions clients use; FILE_SUPERSEDE is FILE_OVERWRITE_IF here

ASSUME SmbFilesAssumption ==
  /\ Browsers \subseteq SmbConns /\ IsFiniteSet(SmbNames) /\ SmbNames \subseteq Nat \ {0} /\ MaxFids \in Nat \ {0} /\ SmbReadOnly \subseteq BOOLEAN
  /\ Dispositions \subseteq {"OPEN", "CREATE", "OPEN_IF", "OVERWRITE", "OVERWRITE_IF"}

VARIABLES
  smbRo,       \* --read-only
  smbFs,       \* the inode each name has, 0 for none
  inode,       \* the inodes: "free", "dir", "empty" or "data"
  smbHandles,  \* conn.handles, per connection
  smbOp,       \* a request that has looked at the file system and not yet acted
  lost         \* ghost: a file was overwritten by a rename that was not to replace

filesVars == <<smbRo, smbFs, inode, smbHandles, smbOp, lost>>

Inodes == 1 .. 5
Root == 0
NoHandle == [open |-> FALSE]
NoOp == [kind |-> "none"]
SmbHandle(path, isDir, canWrite) ==
  [open |-> TRUE, path |-> path, isDir |-> isDir, canWrite |-> canWrite, deleteOnClose |-> FALSE,
   fh |-> 0, mode |-> "none", walking |-> FALSE, listing |-> <<>>, cursor |-> 0, listed |-> <<>>, steady |-> {}]

Exists(p) == p = Root \/ smbFs[p] # 0
IsDir(p) == p = Root \/ (smbFs[p] # 0 /\ inode[smbFs[p]] = "dir")
OpenFids(c) == {f \in 1 .. MaxFids : smbHandles[c][f].open}
FreshInode == CHOOSE i \in Inodes : inode[i] = "free"

\* The names that were there all the while a listing is walked.
Watch(handles, fs) ==
  [c \in SmbConns |-> [f \in 1 .. MaxFids |->
     IF handles[c][f].open THEN [handles[c][f] EXCEPT !.steady = {n \in handles[c][f].steady : fs[n] # 0}] ELSE NoHandle]]

\* Inodes no name and no descriptor refers to are free again.
Collect(nodes, fs, handles) ==
  [i \in Inodes |-> IF (\E n \in SmbNames : fs[n] = i) \/ (\E c \in SmbConns, f \in 1 .. MaxFids : handles[c][f].open /\ handles[c][f].fh = i)
                    THEN nodes[i] ELSE "free"]

\* The file system and the handles after a request.
Commit(fs, nodes, handles) ==
  /\ smbFs' = fs
  /\ smbHandles' = Watch(handles, fs)
  /\ inode' = Collect(nodes, fs, handles)

SetHandle(c, f, h) == [smbHandles EXCEPT ![c][f] = h]
Idle(c) == smbOp[c] = NoOp

-----------------------------------------------------------------------------
(* CREATE.                                                                   *)

\* h_create up to the two refusals that need no more than the name.
CreateLook(c) ==
  /\ Idle(c) /\ OpenFids(c) # 1 .. MaxFids
  /\ \E p \in SmbNames \cup {Root}, disp \in Dispositions, want \in {"any", "dir", "file"}, w \in BOOLEAN, del \in BOOLEAN :
       /\ want = "dir" => disp \in {"OPEN", "CREATE", "OPEN_IF"}
       /\ want = "file" => disp = "OPEN"
       /\ del => w
       /\ c \in Browsers => disp = "OPEN" /\ ~w
       /\ p = Root => want # "file" /\ disp = "OPEN" /\ ~w
       /\ ~(disp = "OPEN" /\ ~Exists(p)) /\ ~(disp = "CREATE" /\ Exists(p))
       /\ smbOp' = [smbOp EXCEPT ![c] = [kind |-> "create", path |-> p, disp |-> disp, want |-> want, write |-> w,
                                         del |-> del, exists |-> Exists(p)]]
  /\ UNCHANGED <<smbRo, smbFs, inode, smbHandles, lost>>

\* What creating or overwriting leaves: the name's inode and the inodes, or a refusal.
CreateEffect(o) ==
  LET now == IF o.path = Root THEN 0 ELSE smbFs[o.path]
      same == [ok |-> TRUE, ino |-> now, nodes |-> inode]
      no == [ok |-> FALSE, ino |-> now, nodes |-> inode]
      \* open(path, "wb")
      truncated == IF IsDir(o.path) THEN no
                   ELSE LET i == IF now # 0 THEN now ELSE FreshInode
                        IN  [ok |-> TRUE, ino |-> i, nodes |-> [inode EXCEPT ![i] = "empty"]]
      \* os.makedirs(path, exist_ok=True)
      made == IF now = 0 THEN [ok |-> TRUE, ino |-> FreshInode, nodes |-> [inode EXCEPT ![FreshInode] = "dir"]]
              ELSE IF IsDir(o.path) THEN same ELSE no
  IN  IF ~o.exists
      THEN IF smbRo THEN no ELSE IF o.want = "dir" THEN made ELSE IF o.disp = "OVERWRITE" THEN no ELSE truncated
      ELSE IF o.disp \in {"OVERWRITE", "OVERWRITE_IF"} /\ ~IsDir(o.path)
      THEN IF smbRo THEN no ELSE truncated
      ELSE same

\* h_create from there on: the file, the stat, the kind asked for, the handle. The
\* handle is in the table before FILE_DELETE_ON_CLOSE is refused on a
\* read-only share, and stays there.
CreateAct(c) ==
  /\ smbOp[c].kind = "create"
  /\ LET o == smbOp[c]
         e == CreateEffect(o)
         fs == IF o.path = Root THEN smbFs ELSE [smbFs EXCEPT ![o.path] = e.ino]
         isDir == o.path = Root \/ (e.ino # 0 /\ e.nodes[e.ino] = "dir")
         fits == e.ok /\ (o.path = Root \/ e.ino # 0) /\ ~(isDir /\ o.want = "file") /\ ~(~isDir /\ o.want = "dir")
         f == CHOOSE f \in 1 .. MaxFids : ~smbHandles[c][f].open
     IN  Commit(fs, e.nodes, IF fits
                             THEN SetHandle(c, f, [SmbHandle(o.path, isDir, o.write) EXCEPT !.deleteOnClose = o.del /\ ~smbRo])
                             ELSE smbHandles)
  /\ smbOp' = [smbOp EXCEPT ![c] = NoOp]
  /\ UNCHANGED <<smbRo, lost>>

-----------------------------------------------------------------------------
(* Handles.                                                                  *)

\* h_close: what goes with the file is what the path names now.
CloseFile(c, f) ==
  /\ Idle(c) /\ f \in OpenFids(c)
  /\ LET h == smbHandles[c][f]
         removed == h.deleteOnClose /\ h.path # Root /\ smbFs[h.path] # 0 /\ IsDir(h.path) = h.isDir
     IN  Commit(IF removed THEN [smbFs EXCEPT ![h.path] = 0] ELSE smbFs, inode, SetHandle(c, f, NoHandle))
  /\ UNCHANGED <<smbRo, smbOp, lost>>

\* _open_file: opened at first use; a WRITE after a READ closes it and opens
\* what the path names now. When that fails the closed file object stays.
OpenFile(h, writable) ==
  LET openable == h.path # Root /\ smbFs[h.path] # 0 /\ ~IsDir(h.path)
  IN  IF h.mode = "none"
      THEN IF openable THEN [h EXCEPT !.fh = smbFs[h.path], !.mode = IF writable THEN "r+b" ELSE "rb"] ELSE h
      ELSE IF writable /\ h.mode = "rb"
      THEN IF openable THEN [h EXCEPT !.fh = smbFs[h.path], !.mode = "r+b"] ELSE [h EXCEPT !.fh = 0, !.mode = "closed"]
      ELSE h

\* h_read
ReadFile(c, f) ==
  /\ Idle(c) /\ f \in OpenFids(c) /\ ~smbHandles[c][f].isDir
  /\ Commit(smbFs, inode, SetHandle(c, f, OpenFile(smbHandles[c][f], FALSE)))
  /\ UNCHANGED <<smbRo, smbOp, lost>>

\* h_write, and FILE_END_OF_FILE_INFORMATION of h_set_info
WriteFile(c, f) ==
  /\ Idle(c) /\ f \in OpenFids(c)
  /\ ~smbRo /\ ~smbHandles[c][f].isDir /\ smbHandles[c][f].canWrite
  /\ LET h == OpenFile(smbHandles[c][f], TRUE)
     IN  \E contents \in {"data", "empty"} :
           Commit(smbFs, IF h.fh # 0 THEN [inode EXCEPT ![h.fh] = contents] ELSE inode, SetHandle(c, f, h))
  /\ UNCHANGED <<smbRo, smbOp, lost>>

\* FILE_DISPOSITION_INFORMATION of h_set_info
SetDisposition(c, f) ==
  /\ Idle(c) /\ c \notin Browsers /\ f \in OpenFids(c) /\ ~smbRo /\ smbHandles[c][f].path # Root
  /\ \E d \in BOOLEAN : smbHandles' = [smbHandles EXCEPT ![c][f].deleteOnClose = d]
  /\ UNCHANGED <<smbRo, smbFs, inode, smbOp, lost>>

\* FILE_RENAME_INFORMATION: is there another file at the destination?
RenameLook(c, f) ==
  /\ Idle(c) /\ c \notin Browsers /\ f \in OpenFids(c) /\ ~smbRo /\ smbHandles[c][f].path # Root
  /\ \E dest \in SmbNames, replace \in BOOLEAN :
       LET src == smbHandles[c][f].path
       IN  /\ Exists(dest) => Exists(src) /\ (smbFs[dest] = smbFs[src] \/ replace)
           /\ smbOp' = [smbOp EXCEPT ![c] = [kind |-> "rename", fid |-> f, dest |-> dest, replace |-> replace]]
  /\ UNCHANGED <<smbRo, smbFs, inode, smbHandles, lost>>

\* os.replace, whatever is at the destination by now.
RenameAct(c) ==
  /\ smbOp[c].kind = "rename"
  /\ LET o == smbOp[c]
         h == smbHandles[c][o.fid]
         src == smbFs[h.path]
         dst == smbFs[o.dest]
         works == src # 0 /\ (dst = 0 \/ IsDir(o.dest) = IsDir(h.path))
     IN  /\ Commit(IF works THEN [[smbFs EXCEPT ![h.path] = 0] EXCEPT ![o.dest] = src] ELSE smbFs, inode,
                   IF works THEN [smbHandles EXCEPT ![c][o.fid].path = o.dest] ELSE smbHandles)
         /\ lost' = (lost \/ (works /\ ~o.replace /\ dst \notin {0, src}))
  /\ smbOp' = [smbOp EXCEPT ![c] = NoOp]
  /\ UNCHANGED smbRo

-----------------------------------------------------------------------------
(* Listing.                                                                  *)

\* What is left of a listing, less what can no longer be stat'ed; and what a QUERY_DIRECTORY
\* returns of it, as much as the buffer holds.
Listable(h) == {i \in h.cursor + 1 .. Len(h.listing) : smbFs[h.listing[i]] # 0}
Returned(h, room) == {i \in Listable(h) : Cardinality({j \in Listable(h) : j < i}) < room}
Entries(h, room) == LET at == Sorted(Returned(h, room)) IN [k \in 1 .. Len(at) |-> h.listing[at[k]]]

\* How far the walk gets: past the last entry returned, or past the end.
CursorAfter(h, room) ==
  IF Cardinality(Returned(h, room)) < room THEN Len(h.listing)
  ELSE CHOOSE i \in Returned(h, room) : \A j \in Returned(h, room) : j <= i

\* _listing_for: the names are read now.
Snapshot(h) ==
  LET names == {n \in SmbNames : smbFs[n] # 0}
  IN  [h EXCEPT !.walking = TRUE, !.listing = Sorted(names), !.cursor = 0, !.listed = <<>>, !.steady = names]

\* The handle after the entries that were returned.
Walked(h, room) == [h EXCEPT !.cursor = CursorAfter(h, room), !.listed = h.listed \o Entries(h, room)]

\* Mutant: the names are read again by every call.
QueryDirectoryRereads(c, f) ==
  /\ Idle(c) /\ f \in OpenFids(c) /\ smbHandles[c][f].path = Root
  /\ \E room \in {1, 2}, restart \in BOOLEAN :
       LET was == smbHandles[c][f]
           h == IF ~was.walking \/ restart THEN Snapshot(was) ELSE [was EXCEPT !.listing = Snapshot(was).listing]
       IN  smbHandles' = SetHandle(c, f, Walked(h, room))
  /\ UNCHANGED <<smbRo, smbFs, inode, smbOp, lost>>

\* h_query_directory: the names are read once, at the first call or when the client
\* starts again; SINGLE_ENTRY or a small buffer is room 1.
QueryDirectory(c, f) ==
  /\ Idle(c) /\ f \in OpenFids(c) /\ smbHandles[c][f].path = Root
  /\ \E room \in {1, 2}, restart \in BOOLEAN :
       LET was == smbHandles[c][f]
           h == IF ~was.walking \/ restart THEN Snapshot(was) ELSE was
       IN  smbHandles' = SetHandle(c, f, Walked(h, room))
  /\ UNCHANGED <<smbRo, smbFs, inode, smbOp, lost>>

\* The connection ends, or LOGOFF: close_all deletes nothing.
CloseAll(c) ==
  /\ Idle(c) /\ OpenFids(c) # {}
  /\ Commit(smbFs, inode, [smbHandles EXCEPT ![c] = [f \in 1 .. MaxFids |-> NoHandle]])
  /\ UNCHANGED <<smbRo, smbOp, lost>>

FilesInit ==
  /\ smbRo \in SmbReadOnly
  /\ smbFs = [n \in SmbNames |-> IF n = 1 THEN 1 ELSE 0]
  /\ inode = [i \in Inodes |-> IF i = 1 THEN "data" ELSE "free"]
  /\ smbHandles = [c \in SmbConns |-> [f \in 1 .. MaxFids |-> NoHandle]]
  /\ smbOp = [c \in SmbConns |-> NoOp]
  /\ lost = FALSE

FilesNext ==
  \E c \in SmbConns :
    \/ CreateLook(c) \/ CreateAct(c) \/ RenameAct(c) \/ CloseAll(c)
    \/ \E f \in 1 .. MaxFids :
         CloseFile(c, f) \/ ReadFile(c, f) \/ WriteFile(c, f) \/ SetDisposition(c, f) \/ RenameLook(c, f) \/ QueryDirectory(c, f)

Smb2FilesSpec == FilesInit /\ [][FilesNext]_filesVars

-----------------------------------------------------------------------------
(* Properties.                                                              *)

\* The snapshot h_query_directory walks: a client that asks on until it is told
\* there is no more has seen every name that was there all the while, and no
\* name twice, however other connections create, delete and rename meanwhile.
ListingComplete ==
  \A c \in SmbConns : \A f \in OpenFids(c) :
    LET h == smbHandles[c][f]
    IN  /\ h.path = Root /\ h.walking /\ h.cursor = Len(h.listing) => h.steady \subseteq ToSet(h.listed)
        /\ IsInjective(h.listed)

-----------------------------------------------------------------------------
(* What the code or its comments lead one to expect and the code does not  *)
(* do (README, Observations). No run checks these.                          *)

\* The comment in h_set_info: a rename that is not to replace does not destroy
\* another file.
RenameKeepsOthers == ~lost
=============================================================================
