----------------------------- MODULE EdgeWriters -----------------------------
(***************************************************************************)
(* Edge, the router's UDPFS server (native/ps2servers-edge): the sessions and   *)
(* their workers, and the reservation that lets one handle at a time write a    *)
(* file (reserveWriter, TakeOverWriter, removeUnlessWriting).                  *)
(*                                                                         *)
(* A session is numbered, as an expired one lives on beside its console's next. *)
(* A file is a name and, while it is in the folder, an inode. What a request     *)
(* carries besides the name, reads, folders and the block device are left out.   *)
(***************************************************************************)
EXTENDS Integers, FiniteSets

CONSTANTS
  EdgePeers,        \* the consoles
  EdgeFiles,        \* names in the shared folder
  EDGE_SESSIONS,    \* 256
  maxHandles,       \* 64
  MaxEdgeSessions,  \* sessions made in a run (a bound)
  MaxEdgeRequests,  \* requests one session takes (a bound)
  MaxEdgeInodes     \* files made in a run (a bound)

ASSUME EdgeAssumption ==
  {EDGE_SESSIONS, maxHandles, MaxEdgeSessions, MaxEdgeRequests, MaxEdgeInodes} \subseteq Nat

VARIABLES
  sessions,    \* the table: console -> its session, 0 for none
  edge,        \* session -> [handles, write, streaming, taken, at, op, reply, stopped]; a handle's
               \* `own` says that the loader that runs now opened it
  born,        \* the number of sessions made
  writers,     \* the names reserved for writing
  inFolder,    \* name -> inode, 0 when the file is not there
  inodes,      \* the number of inodes made
  serving      \* the dispatcher: "serve", "drain" in Close, "closed"

edgeVars == <<sessions, edge, born, writers, inFolder, inodes, serving>>

EdgeIds == 1..MaxEdgeSessions
Unasked == [kind |-> "none"]
NewState == [handles |-> {}, write |-> 0, streaming |-> FALSE, taken |-> 0, at |-> "select", op |-> Unasked, reply |-> "none", stopped |-> FALSE]

\* The files a set of handles has reserved.
Reserved(handles) == {h.file : h \in {x \in handles : x.writer}}
Inherits(st, f) == {h \in st.handles : h.inherited /\ h.writer /\ h.file = f}

-----------------------------------------------------------------------------
\* releaseWriter, for every handle that is closed.
Released(handles) == writers \ Reserved(handles)

\* CloseHandle: the write being assembled for the handle is discarded with it.
Without(st, handles) ==
  [st EXCEPT !.handles = @ \ handles, !.write = IF @ \in {h.id : h \in handles} THEN 0 ELSE @]

\* Mutant: the handles of a replaced loader are kept without a mark.
HandOffUnmarked(st) == [st EXCEPT !.streaming = FALSE, !.write = 0]

\* HandOff: the transport and the write are reset; the handles pass to the new loader.
HandOff(st) == [st EXCEPT !.streaming = FALSE, !.write = 0, !.handles = {[h EXCEPT !.inherited = TRUE] : h \in @}]

\* Reset, Close: every handle is closed and its reservation dropped.
Closed(st) == [st EXCEPT !.handles = {}, !.write = 0, !.streaming = FALSE]

-----------------------------------------------------------------------------
\* getWorker, from a DISCOVERY or a DATA packet of a console without a session.
GetWorker ==
  /\ serving = "serve" /\ born < MaxEdgeSessions
  /\ \E p \in EdgePeers :
       /\ sessions[p] = 0 /\ Cardinality({q \in EdgePeers : sessions[q] # 0}) < EDGE_SESSIONS
       /\ sessions' = [sessions EXCEPT ![p] = born + 1]
  /\ born' = born + 1 /\ edge' = [edge EXCEPT ![born + 1] = NewState]
  /\ UNCHANGED <<writers, inFolder, inodes, serving>>

\* handleDiscovery: a session that serves a stream only remembers it; any other starts over.
HandleDiscovery ==
  /\ serving = "serve"
  /\ \E s \in {sessions[p] : p \in EdgePeers} \ {0} :
       /\ ~edge[s].streaming
       /\ writers' = Released(edge[s].handles)
       /\ edge' = [edge EXCEPT ![s] = Closed(@)]
  /\ UNCHANGED <<sessions, born, inFolder, inodes, serving>>

\* handleData: the request continues the stream, or is the first of a loader that replaced
\* another. One that does not fit the forced profile after a hand-over is refused (NACK).
EdgeRequests ==
  [kind : {"open"}, file : EdgeFiles, create : BOOLEAN] \cup [kind : {"remove"}, file : EdgeFiles] \cup [kind : {"close", "write"}] \cup {[kind |-> "chunk"]}

Starts == [open |-> "look", remove |-> "lstat", close |-> "close", write |-> "arm", chunk |-> "chunk"]

\* Another loader runs on the console, and handleData sees it.
Replaced(st) == HandOff([st EXCEPT !.handles = {[h EXCEPT !.own = FALSE] : h \in @}])

\* The session that has taken a request and is in its handler.
Taken(st, req) == [st EXCEPT !.streaming = TRUE, !.taken = @ + 1, !.at = Starts[req.kind], !.op = req, !.reply = "none"]

HandleData(s) ==
  /\ edge[s].at = "select" /\ edge[s].taken < MaxEdgeRequests
  /\ \/ \E req \in EdgeRequests, replaced \in BOOLEAN :
          LET st == IF replaced THEN Replaced(edge[s]) ELSE edge[s] IN
          edge' = [edge EXCEPT ![s] = Taken(st, req)]
     \/ edge' = [edge EXCEPT ![s] = [Replaced(edge[s]) EXCEPT !.taken = @ + 1]]
  /\ UNCHANGED <<sessions, born, writers, inFolder, inodes, serving>>

\* A handler sends its reply and the worker returns to its select.
Replied(st, result) == [st EXCEPT !.at = "select", !.op = Unasked, !.reply = result]

-----------------------------------------------------------------------------
\* openForWrite: Resolve and Stat.
LookUpFile(s) ==
  /\ edge[s].at = "look"
  /\ edge' = [edge EXCEPT ![s] =
       IF Cardinality(@.handles) >= maxHandles THEN Replied(@, "EMFILE")
       ELSE IF inFolder[@.op.file] = 0 /\ ~@.op.create THEN Replied(@, "ENOENT")
       ELSE [@ EXCEPT !.at = "reserve"]]
  /\ UNCHANGED <<sessions, born, writers, inFolder, inodes, serving>>

\* reserveWriter; when it is refused TakeOverWriter and, if that closed a handle, once more.
ReserveWriter(s) ==
  LET st == edge[s]  f == st.op.file IN
  /\ st.at \in {"reserve", "again"}
  /\ IF f \notin writers
     THEN writers' = writers \cup {f} /\ edge' = [edge EXCEPT ![s].at = "openfile"]
     ELSE IF st.at = "reserve" /\ Inherits(st, f) # {}
     THEN writers' = Released(Inherits(st, f)) /\ edge' = [edge EXCEPT ![s] = [Without(@, Inherits(st, f)) EXCEPT !.at = "again"]]
     ELSE UNCHANGED writers /\ edge' = [edge EXCEPT ![s] = Replied(@, "EBUSY")]
  /\ UNCHANGED <<sessions, born, inFolder, inodes, serving>>

\* os.OpenFile, which may fail: then the reservation is dropped again.
OpenReserved(s) ==
  LET st == edge[s]  f == st.op.file IN
  /\ st.at = "openfile"
  /\ \/ /\ writers' = writers \ {f} /\ edge' = [edge EXCEPT ![s] = Replied(@, "error")]
        /\ UNCHANGED <<inFolder, inodes>>
     \/ /\ inFolder[f] # 0 \/ (st.op.create /\ inodes < MaxEdgeInodes)
        /\ inodes' = IF inFolder[f] = 0 THEN inodes + 1 ELSE inodes
        /\ inFolder' = IF inFolder[f] = 0 THEN [inFolder EXCEPT ![f] = inodes + 1] ELSE inFolder
        /\ edge' = [edge EXCEPT ![s] =
             Replied([st EXCEPT !.handles = @ \cup {[id |-> st.taken, own |-> TRUE, file |-> f, inode |-> inFolder'[f], writer |-> TRUE, inherited |-> FALSE]}], "ok")]
        /\ UNCHANGED writers
  /\ UNCHANGED <<sessions, born, serving>>

\* handleClose: CloseHandle.
CloseHandle(s) ==
  LET st == edge[s] IN
  /\ st.at = "close"
  /\ \/ \E h \in st.handles :
          writers' = Released({h}) /\ edge' = [edge EXCEPT ![s] = Replied(Without(@, {h}), "ok")]
     \/ UNCHANGED writers /\ edge' = [edge EXCEPT ![s] = Replied(@, "EBADF")]
  /\ UNCHANGED <<sessions, born, inFolder, inodes, serving>>

\* handleWriteRequest, handleBWriteRequest: the write before it is over; armed, or refused.
HandleWriteRequest(s) ==
  LET st == [edge[s] EXCEPT !.write = 0] IN
  /\ st.at = "arm"
  /\ \/ \E h \in st.handles : h.writer /\ edge' = [edge EXCEPT ![s] = Replied([st EXCEPT !.write = h.id], "none")]
     \/ edge' = [edge EXCEPT ![s] = Replied(st, "EBADF")]
  /\ UNCHANGED <<sessions, born, writers, inFolder, inodes, serving>>

\* handleWriteData: a chunk without a write is only acknowledged; an out-of-order or too long
\* one ends the write; the last one stores it through the handle.
HandleWriteData(s) ==
  LET st == edge[s] IN
  /\ st.at = "chunk"
  /\ \E outcome \in IF st.write = 0 THEN {"none"} ELSE {"none", "EIO", "stored"} :
       edge' = [edge EXCEPT ![s] =
         Replied([st EXCEPT !.write = IF outcome = "none" THEN @ ELSE 0],
              IF outcome = "stored" /\ \A h \in st.handles : h.id # st.write THEN "EBADF" ELSE outcome)]
  /\ UNCHANGED <<sessions, born, writers, inFolder, inodes, serving>>

-----------------------------------------------------------------------------
\* handleRemove: Lstat, then removeUnlessWriting, which finds the file busy or unlinks it;
\* TakeOverWriter and once more as in openForWrite.
Lstat(s) ==
  /\ edge[s].at = "lstat"
  /\ edge' = [edge EXCEPT ![s] = IF inFolder[@.op.file] = 0 THEN Replied(@, "ENOENT") ELSE [@ EXCEPT !.at = "unlink"]]
  /\ UNCHANGED <<sessions, born, writers, inFolder, inodes, serving>>

\* Mutant: the reservations are looked at before the unlink, not under one lock with it.
RemoveUnlessWritingSplit(s) ==
  LET st == edge[s]  f == st.op.file IN
  /\ IF st.at = "unlink" /\ f \in writers
     THEN /\ Inherits(st, f) = {} /\ UNCHANGED inFolder
          /\ edge' = [edge EXCEPT ![s] = Replied(@, "EBUSY")]
     ELSE IF st.at = "unlink" THEN UNCHANGED inFolder /\ edge' = [edge EXCEPT ![s].at = "unlinkagain"]
     ELSE /\ st.at = "unlinkagain" /\ inFolder' = [inFolder EXCEPT ![f] = 0]
          /\ edge' = [edge EXCEPT ![s] = Replied(@, "ok")]
  /\ UNCHANGED <<sessions, born, writers, inodes, serving>>

RemoveUnlessWriting(s) ==
  LET st == edge[s]  f == st.op.file IN
  /\ st.at \in {"unlink", "unlinkagain"}
  /\ IF f \notin writers
     THEN /\ inFolder' = [inFolder EXCEPT ![f] = 0]
          /\ edge' = [edge EXCEPT ![s] = Replied(@, IF inFolder[f] = 0 THEN "ENOENT" ELSE "ok")]
          /\ UNCHANGED writers
     ELSE /\ UNCHANGED inFolder
          /\ IF st.at = "unlink" /\ Inherits(st, f) # {}
             THEN writers' = Released(Inherits(st, f)) /\ edge' = [edge EXCEPT ![s] = [Without(@, Inherits(st, f)) EXCEPT !.at = "unlinkagain"]]
             ELSE UNCHANGED writers /\ edge' = [edge EXCEPT ![s] = Replied(@, "EBUSY")]
  /\ UNCHANGED <<sessions, born, inodes, serving>>

-----------------------------------------------------------------------------
\* expireSessions: the entry goes and the worker is told; the files are closed when it has left.
ExpireSessions ==
  /\ serving # "closed"
  /\ \E p \in EdgePeers :
       /\ sessions[p] # 0 /\ sessions' = [sessions EXCEPT ![p] = 0]
       /\ edge' = [edge EXCEPT ![sessions[p]].stopped = TRUE]
  /\ UNCHANGED <<born, writers, inFolder, inodes, serving>>

\* worker: select takes `done`.
WorkerLeaves(s) ==
  /\ edge[s].at = "select" /\ edge[s].stopped
  /\ edge' = [edge EXCEPT ![s].at = "exited"]
  /\ UNCHANGED <<sessions, born, writers, inFolder, inodes, serving>>

CloseState(s) ==
  /\ edge[s].at = "exited"
  /\ writers' = Released(edge[s].handles)
  /\ edge' = [edge EXCEPT ![s] = [Closed(@) EXCEPT !.at = "closed"]]
  /\ UNCHANGED <<sessions, born, inFolder, inodes, serving>>

\* Close: every worker is stopped and waited for before a state is closed.
CloseServer ==
  /\ serving = "serve" /\ serving' = "drain"
  /\ sessions' = [p \in EdgePeers |-> 0]
  /\ edge' = [s \in EdgeIds |-> [edge[s] EXCEPT !.stopped = @ \/ \E p \in EdgePeers : sessions[p] = s]]
  /\ UNCHANGED <<born, writers, inFolder, inodes>>

CloseDone ==
  /\ serving = "drain" /\ \A s \in 1..born : edge[s].at = "closed"
  /\ serving' = "closed"
  /\ UNCHANGED <<sessions, edge, born, writers, inFolder, inodes>>

WorkerStep(s) ==
  HandleData(s) \/ LookUpFile(s) \/ ReserveWriter(s) \/ OpenReserved(s) \/ CloseHandle(s) \/ HandleWriteRequest(s)
    \/ HandleWriteData(s) \/ Lstat(s) \/ RemoveUnlessWriting(s) \/ WorkerLeaves(s) \/ CloseState(s)

EdgeInit ==
  /\ sessions = [p \in EdgePeers |-> 0] /\ edge = [s \in EdgeIds |-> NewState] /\ born = 0
  /\ writers = {} /\ serving = "serve"
  /\ inodes = 0 /\ inFolder = [f \in EdgeFiles |-> 0]

EdgeNext ==
  GetWorker \/ HandleDiscovery \/ ExpireSessions \/ CloseServer \/ CloseDone \/ \E s \in 1..born : WorkerStep(s)

EdgeSpec == EdgeInit /\ [][EdgeNext]_edgeVars

-----------------------------------------------------------------------------
\* A file open for writing is the one in the folder, and is open for writing once: no save
\* goes into a file that is no longer in any folder, and no two consoles' writes mix.
\* (removeUnlessWriting: "go on writing a save into a file that is no longer in any folder")
WritersLinked ==
  \A s, t \in EdgeIds : \A h \in edge[s].handles, g \in edge[t].handles :
    /\ inFolder[h.file] = h.inode
    /\ (<<s, h.id>> # <<t, g.id>> => h.inode # g.inode)

\* A name is reserved exactly while some handle, or an OPEN under way, has it: however a
\* console vanishes, its session expires or the server stops, no file stays reserved.
\* (getWorker: "a peer that disappears mid-write cannot strand a reservation")
ReservationExact ==
  writers = (UNION {Reserved(edge[s].handles) : s \in EdgeIds}) \cup {edge[s].op.file : s \in {t \in EdgeIds : edge[t].at = "openfile"}}

\* One handle at a time writes a file, into the file that is in the folder, and when none
\* does nothing says so.
SingleWriter == WritersLinked /\ ReservationExact

\* A loader that replaced another is refused a file only if another session has it or it
\* opened the file itself: what its predecessor left open passes to it.
\* (openForWrite: "a save it retries after taking over from that loader would otherwise be
\* refused for the whole session")
BusyIsReal == [][\A s \in EdgeIds :
  edge'[s].reply = "EBUSY" /\ edge[s].at \in {"reserve", "again", "unlink", "unlinkagain"} =>
    LET f == edge[s].op.file IN
    \/ \E h \in edge[s].handles : h.file = f /\ h.own
    \/ \E t \in EdgeIds \ {s} : f \in Reserved(edge[t].handles) \/ (edge[t].at = "openfile" /\ edge[t].op.file = f)]_edgeVars
=============================================================================
