----------------------------- MODULE Smb1Server -----------------------------
(***************************************************************************)
(* smbserver_opl.py: the SMBv1 server for Open PS2 Loader. Every console has *)
(* a connection and a thread of its own (serve_conn); a connection keeps its  *)
(* trees, open files and searches (Conn), and the connections share nothing   *)
(* but the files. NT_CREATE_ANDX looks at the file system and then acts on    *)
(* what it saw; other threads, and the user of the PC, run in between.        *)
(*                                                                           *)
(* A name of the share is missing, a directory, or a file with one block of   *)
(* contents, a number (0: empty). Two details of OpenFile matter: reads go    *)
(* through a buffered file object opened once, writes open the path anew.     *)
(* Left out: the numbers of fids, tids and sids (16 bits that wrap after      *)
(* 61 440 opens on one connection), the UID, which nothing reads, and the     *)
(* SMB2 answers of --smb-version 2 and 3, which serve no files.               *)
(***************************************************************************)
EXTENDS Integers, Sequences, SequencesExt, Sorting

CONSTANTS
  Smb1Consoles,   \* the connections
  Smb1Names,      \* names in the root of the share, a finite set of naturals
  Smb1ReadOnly,   \* values of --read-only
  MaxBlock,       \* contents are 0 .. MaxBlock
  MaxSearches     \* searches per connection

ASSUME Smb1Assumption ==
  IsFiniteSet(Smb1Names) /\ Smb1Names \subseteq Nat \ {0} /\ Smb1ReadOnly \subseteq BOOLEAN /\ MaxBlock \in Nat \ {0} /\ MaxSearches \in Nat \ {0}

VARIABLES
  ro1,       \* server.read_only
  disk1,     \* the share: Missing, Directory, or the contents of the file
  conn1,     \* per connection: trees, files, searches, and the request in progress
  stale1     \* ghost: a READ has not returned what this connection had written

smb1Vars == <<ro1, disk1, conn1, stale1>>

\* What a name of the share can be besides a file.
Missing == -2
Directory == -1

NoFile1 == [open |-> FALSE]
NoSearch == [open |-> FALSE]
Conn == [tree |-> FALSE, file |-> NoFile1, searches |-> [s \in 1 .. MaxSearches |-> NoSearch], op |-> [kind |-> "none"]]

There(n) == disk1[n] # Missing
IsFile1(n) == disk1[n] >= 0
Free1(c) == conn1[c].op.kind = "none"

\* The console: it has a search or a file open, not both, and begins neither without a tree.
Begins(c) == Free1(c) /\ conn1[c].tree /\ ~conn1[c].file.open /\ \A s \in 1 .. MaxSearches : ~conn1[c].searches[s].open

\* What a change of the disk means to the connections: the names that have been there
\* all the while a search is walked, and whose write a file holds.
SeenSearch(s, d) == IF s.open THEN [s EXCEPT !.steady = {n \in s.steady : d[n] # Missing}] ELSE NoSearch
SeenFile(f, d) == IF f.open /\ d[f.name] # disk1[f.name] THEN [f EXCEPT !.wrote = -1] ELSE f
Seen(conns, d) ==
  [c \in Smb1Consoles |->
     [conns[c] EXCEPT !.searches = [s \in 1 .. MaxSearches |-> SeenSearch(conns[c].searches[s], d)],
                      !.file = SeenFile(conns[c].file, d)]]

\* The disk and the connections after a request.
Disk(d, conns) == disk1' = d /\ conn1' = Seen(conns, d)

-----------------------------------------------------------------------------
(* Trees.                                                                    *)

\* h_tree_connect: one tree is enough here, nothing but its presence is looked at.
\* It fails for an unknown name when more than one share is configured.
TreeConnect1(c) ==
  /\ Free1(c) /\ ~conn1[c].tree
  /\ conn1' = [conn1 EXCEPT ![c].tree = TRUE]
  /\ UNCHANGED <<ro1, disk1, stale1>>

\* h_tree_disconnect: the open files and searches of the tree stay.
TreeDisconnect1(c) ==
  /\ Free1(c) /\ conn1[c].tree
  /\ conn1' = [conn1 EXCEPT ![c].tree = FALSE]
  /\ UNCHANGED <<ro1, disk1, stale1>>

-----------------------------------------------------------------------------
(* Files.                                                                    *)

\* OpenFile.__init__: the "rb" file object, its buffer still empty.
OpenFile1(n) == [open |-> TRUE, name |-> n, dir |-> disk1[n] = Directory, buffer |-> -1, wrote |-> -1, unlinked |-> FALSE]

\* h_open_andx
OpenAndX(c) ==
  /\ Begins(c)
  /\ \E n \in Smb1Names : IsFile1(n) /\ conn1' = [conn1 EXCEPT ![c].file = OpenFile1(n)]
  /\ UNCHANGED <<ro1, disk1, stale1>>

\* h_nt_create_andx up to os.path.exists, and the refusals that need no more.
NtCreateLook(c) ==
  /\ Begins(c)
  /\ \E n \in Smb1Names, disp \in {"OPEN", "CREATE", "OPEN_IF", "OVERWRITE_IF"}, dir \in BOOLEAN :
       /\ There(n) => /\ disp # "CREATE" /\ (dir => disk1[n] = Directory)
                      /\ disp = "OVERWRITE_IF" => ~ro1 /\ disk1[n] # Directory
       /\ ~There(n) => disp # "OPEN" /\ ~ro1
       /\ conn1' = [conn1 EXCEPT ![c].op = [kind |-> "create", name |-> n, disp |-> disp, dir |-> dir, existed |-> There(n)]]
  /\ UNCHANGED <<ro1, disk1, stale1>>

\* Mutant: a file that was not there is made with "wb".
CreateCallWb(o) ==
  LET now == disk1[o.name]
  IN  IF o.existed /\ o.disp # "OVERWRITE_IF" THEN [did |-> TRUE, disk |-> now]
      ELSE [did |-> now # Directory, disk |-> IF now = Directory THEN now ELSE IF o.dir THEN Directory ELSE 0]

\* The file system call: open "wb" over a file that was there, mkdir or open "xb"
\* for one that was not. [did: the call succeeded, disk: the name after it]
CreateCall(o) ==
  LET now == disk1[o.name]
  IN  IF o.existed
      THEN IF o.disp # "OVERWRITE_IF" THEN [did |-> TRUE, disk |-> now]
           ELSE [did |-> now # Directory, disk |-> IF now = Directory THEN now ELSE 0]
      ELSE [did |-> now = Missing, disk |-> IF now # Missing THEN now ELSE IF o.dir THEN Directory ELSE 0]

\* Opened again after the call, for reading: the file may be gone by then (NtCreateOpen).
NtCreateAct(c) ==
  /\ conn1[c].op.kind = "create"
  /\ LET o == conn1[c].op
         r == CreateCall(o)
     IN  Disk([disk1 EXCEPT ![o.name] = r.disk], [conn1 EXCEPT ![c].op = IF r.did THEN [kind |-> "opening", name |-> o.name] ELSE Conn.op])
  /\ UNCHANGED <<ro1, stale1>>

\* OpenFile and getmtime, the fid, and the reply with the action.
NtCreateOpen(c) ==
  /\ conn1[c].op.kind = "opening"
  /\ LET n == conn1[c].op.name
     IN  conn1' = [conn1 EXCEPT ![c].op = Conn.op, ![c].file = IF There(n) THEN OpenFile1(n) ELSE conn1[c].file]
  /\ UNCHANGED <<ro1, disk1, stale1>>

\* h_read_andx: seek and read of the buffered file object. A seek inside its buffer
\* keeps the buffer, and the read then returns it without looking at the file.
ReadAndX(c) ==
  LET f == conn1[c].file
  IN  /\ Free1(c) /\ f.open /\ ~f.dir
      /\ \E inBuffer \in BOOLEAN :
           LET v == IF f.unlinked \/ (inBuffer /\ f.buffer # -1) THEN f.buffer ELSE disk1[f.name]
           IN  /\ conn1' = [conn1 EXCEPT ![c].file.buffer = v]
               /\ stale1' = (stale1 \/ (f.wrote # -1 /\ v # f.wrote))
      /\ UNCHANGED <<ro1, disk1>>

\* h_write_andx: the path is opened "r+b", written and closed.
WriteAndX(c) ==
  LET f == conn1[c].file
  IN  /\ Free1(c) /\ ~ro1 /\ f.open /\ IsFile1(f.name)
      /\ \E v \in 1 .. MaxBlock :
           LET d == [disk1 EXCEPT ![f.name] = v]
           IN  disk1' = d /\ conn1' = [Seen(conn1, d) EXCEPT ![c].file.wrote = IF f.unlinked THEN -1 ELSE v]
      /\ UNCHANGED <<ro1, stale1>>

\* h_close
Close1(c) ==
  /\ Free1(c) /\ conn1[c].file.open
  /\ conn1' = [conn1 EXCEPT ![c].file = NoFile1]
  /\ UNCHANGED <<ro1, disk1, stale1>>

\* h_create_directory: a mkdir that loses a race is refused, so look and act are one.
CreateDirectory(c) ==
  /\ Free1(c) /\ ~ro1 /\ conn1[c].tree
  /\ \E n \in Smb1Names : ~There(n) /\ Disk([disk1 EXCEPT ![n] = Directory], conn1)
  /\ UNCHANGED <<ro1, stale1>>

-----------------------------------------------------------------------------
(* Searches. An entry is a name, or 0 and -1 for "." and "..".               *)

\* h_trans2_find_first2: the names are read now; the reply holds the first.
FindFirst2(c) ==
  /\ Free1(c) /\ conn1[c].tree /\ ~conn1[c].file.open
  /\ \E s \in 1 .. MaxSearches :
       LET names == {n \in Smb1Names : There(n)}
       IN  /\ ~conn1[c].searches[s].open
           /\ conn1' = [conn1 EXCEPT ![c].searches[s] =
                [open |-> TRUE, entries |-> <<0, -1>> \o Sorted(names), cursor |-> 1,
                 heard |-> <<0>>, steady |-> names, eos |-> FALSE]]
  /\ UNCHANGED <<ro1, disk1, stale1>>

\* Mutant: EndOfSearch is sent one entry early.
AdvanceEarly(s) ==
  IF s.cursor >= Len(s.entries) THEN NoSearch
  ELSE [s EXCEPT !.cursor = s.cursor + 1, !.heard = Append(s.heard, s.entries[s.cursor + 1]), !.eos = (s.cursor + 1 >= Len(s.entries) - 1)]

\* A search moved on: one entry at a time, the last with EndOfSearch; a search asked on past
\* its end is dropped. What the console heard is kept until then.
Advance(s) ==
  IF s.cursor >= Len(s.entries) THEN NoSearch
  ELSE [s EXCEPT !.cursor = s.cursor + 1, !.heard = Append(s.heard, s.entries[s.cursor + 1]), !.eos = (s.cursor = Len(s.entries) - 1)]

\* h_trans2_find_next2
FindNext2(c) ==
  /\ Free1(c)
  /\ \E i \in 1 .. MaxSearches :
       conn1[c].searches[i].open /\ conn1' = [conn1 EXCEPT ![c].searches[i] = Advance(conn1[c].searches[i])]
  /\ UNCHANGED <<ro1, disk1, stale1>>

\* serve_conn ends: the files are closed (Conn.cleanup) and the Conn is forgotten.
Disconnect1(c) ==
  /\ Free1(c) /\ conn1[c] # Conn
  /\ conn1' = [conn1 EXCEPT ![c] = Conn]
  /\ UNCHANGED <<ro1, disk1, stale1>>

\* The user of the PC deletes something; a file object that is open keeps the old file.
HostRemoves(n) ==
  /\ There(n)
  /\ Disk([disk1 EXCEPT ![n] = Missing],
          [c \in Smb1Consoles |-> IF conn1[c].file.open /\ conn1[c].file.name = n /\ ~conn1[c].file.dir /\ ~conn1[c].file.unlinked
                                  THEN [conn1[c] EXCEPT !.file = [conn1[c].file EXCEPT !.unlinked = TRUE, !.buffer = disk1[n]]] ELSE conn1[c]])
  /\ UNCHANGED <<ro1, stale1>>

Smb1Init ==
  /\ ro1 \in Smb1ReadOnly
  /\ disk1 = [n \in Smb1Names |-> IF n = 1 THEN 1 ELSE Missing]
  /\ conn1 = [c \in Smb1Consoles |-> Conn]
  /\ stale1 = FALSE

Smb1Next ==
  \/ \E c \in Smb1Consoles :
       \/ TreeConnect1(c) \/ TreeDisconnect1(c) \/ OpenAndX(c) \/ NtCreateLook(c) \/ NtCreateAct(c) \/ NtCreateOpen(c)
       \/ ReadAndX(c) \/ WriteAndX(c) \/ Close1(c) \/ CreateDirectory(c) \/ FindFirst2(c) \/ FindNext2(c) \/ Disconnect1(c)
  \/ \E n \in Smb1Names : HostRemoves(n)

Smb1Spec == Smb1Init /\ [][Smb1Next]_smb1Vars

-----------------------------------------------------------------------------
(* Properties.                                                              *)

\* h_nt_create_andx: a file is emptied only for a console that asked to overwrite it.
\* One that asked to create it, or to open it whether or not it is there, and was
\* overtaken by another console between the look and the call, destroys nothing.
CreateDestroysNothing ==
  [][\A n \in Smb1Names : (disk1[n] \in 1 .. MaxBlock /\ disk1'[n] = 0) =>
       \E c \in Smb1Consoles : conn1[c].op.kind = "create" /\ conn1[c].op.name = n /\ conn1[c].op.existed
                               /\ conn1[c].op.disp = "OVERWRITE_IF" /\ conn1'[c].op # conn1[c].op]_smb1Vars

\* FIND_FIRST2 and FIND_NEXT2: a console that stops at EndOfSearch has heard "." and
\* "..", every name that was there all the while, and nothing twice.
SearchComplete ==
  \A c \in Smb1Consoles, i \in 1 .. MaxSearches :
    LET s == conn1[c].searches[i]
    IN  s.open => /\ s.eos => s.steady \cup {0, -1} \subseteq ToSet(s.heard)
                  /\ IsInjective(s.heard)

-----------------------------------------------------------------------------
(* What the code or its comments lead one to expect and the code does not  *)
(* do (README, Observations). No run checks these.                          *)

\* A console reads back what it wrote: the contents of a block after its own WRITE
\* through the same open file, when nobody else wrote since.
ReadsBack == ~stale1
=============================================================================
