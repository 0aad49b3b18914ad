------------------------- MODULE EdgeWritersProofs -------------------------
(***************************************************************************)
(* Proofs about EdgeWriters for any number of consoles, files, sessions and  *)
(* requests: one handle at a time writes a file, into the file that is in the *)
(* folder, a name is reserved exactly while it is held, and a loader is never *)
(* refused what its predecessor left open.                                   *)
(*                                                                         *)
(* A session holds the files of its handles and the one its OPEN has reserved *)
(* (Held). The inductive invariant is that each session is sound by itself    *)
(* (Sound), that no two hold the same file (Apart), that the reservations are *)
(* what is held, and that no two names are the same inode (OneName).          *)
(***************************************************************************)
EXTENDS EdgeWriters, TLAPS

Opening == {"look", "reserve", "again", "openfile"}
Removing == {"lstat", "unlink", "unlinkagain"}
Points == Opening \cup Removing \cup {"select", "close", "arm", "chunk", "exited", "closed"}

Handle == [id : Nat, own : BOOLEAN, file : EdgeFiles, inode : Nat, writer : {TRUE}, inherited : BOOLEAN]

Replies == {"none", "ok", "error", "stored", "EMFILE", "ENOENT", "EBUSY", "EBADF", "EIO"}

State ==
  [handles : SUBSET Handle, write : Nat, streaming : BOOLEAN, taken : Nat, at : Points,
   op : EdgeRequests \cup {Unasked}, reply : Replies, stopped : BOOLEAN]

EdgeTypeOK ==
  /\ born \in 0 .. MaxEdgeSessions /\ inodes \in Nat
  /\ sessions \in [EdgePeers -> 0 .. born]
  /\ edge \in [EdgeIds -> State]
  /\ writers \in SUBSET EdgeFiles
  /\ inFolder \in [EdgeFiles -> 0 .. inodes]

\* A session that has not been made is blank.
Unborn == \A s \in EdgeIds : s > born => edge[s] = NewState

\* The files a session has reserved: those of its handles, and that of an OPEN under way.
Files(handles) == {h.file : h \in handles}
Held(st) == Files(st.handles) \cup (IF st.at = "openfile" THEN {st.op.file} ELSE {})

\* The worker is in the handler of a request that names a file, and has not replied to it.
AtItsRequest(st) ==
  st.at \in Opening \cup Removing => st.op \in EdgeRequests /\ st.op.kind \in {"open", "remove"} /\ st.reply = "none"

\* A session's handles are on different files, none on the one it is opening.
HeldOnce(st) ==
  /\ \A h, g \in st.handles : h.file = g.file => h = g
  /\ st.at = "openfile" => st.op.file \notin Files(st.handles)

\* A handle the running loader did not open is marked; once such a handle was taken over
\* none is left on the file.
Marked(st) ==
  /\ \A h \in st.handles : h.inherited \/ h.own
  /\ st.at \in {"again", "unlinkagain"} => \A h \in st.handles : h.inherited => h.file # st.op.file

\* A handle's file is in the folder.
Linked(st) == \A h \in st.handles : inFolder[h.file] = h.inode /\ h.inode # 0

Sound(st) == AtItsRequest(st) /\ HeldOnce(st) /\ Marked(st) /\ Linked(st)

\* No file is held by two sessions.
Apart == \A s, t \in EdgeIds : s # t => Held(edge[s]) \cap Held(edge[t]) = {}

AllHeld == UNION {Held(edge[s]) : s \in EdgeIds}

\* No two names are the same file.
OneName == \A f, g \in EdgeFiles : inFolder[f] = inFolder[g] /\ inFolder[f] # 0 => f = g

\* The inductive invariant.
WritersInv ==
  /\ EdgeTypeOK /\ Unborn
  /\ \A s \in EdgeIds : Sound(edge[s])
  /\ Apart /\ writers = AllHeld /\ OneName

-----------------------------------------------------------------------------
\* Every handle is a writer, so that what a set of handles has reserved is all its files.
LEMMA ReservedFiles == \A handles \in SUBSET Handle : Reserved(handles) = Files(handles)
BY DEF Reserved, Files, Handle

\* The invariant says what the runs check of the reservations and of the inodes.
LEMMA InvIsSingleWriter == WritersInv => SingleWriter
<1> SUFFICES ASSUME WritersInv PROVE SingleWriter
  OBVIOUS
<1>t. \A s \in EdgeIds : edge[s].handles \in SUBSET Handle
  BY DEF WritersInv, EdgeTypeOK, State
<1>1. WritersLinked
  <2> SUFFICES ASSUME NEW s \in EdgeIds, NEW t \in EdgeIds, NEW h \in edge[s].handles, NEW g \in edge[t].handles
               PROVE  /\ inFolder[h.file] = h.inode
                      /\ h.inode = g.inode => s = t /\ h.id = g.id
    BY DEF WritersLinked
  <2>1. inFolder[h.file] = h.inode /\ h.inode # 0 /\ inFolder[g.file] = g.inode
    BY DEF WritersInv, Sound, Linked
  <2>2. h.file \in EdgeFiles /\ g.file \in EdgeFiles
    BY <1>t DEF Handle
  <2>3. ASSUME h.inode = g.inode PROVE h.file = g.file
    BY <2>1, <2>2, <2>3 DEF WritersInv, OneName
  <2>4. h.file \in Held(edge[s]) /\ g.file \in Held(edge[t])
    BY DEF Held, Files
  <2>5. ASSUME h.file = g.file PROVE s = t
    BY <2>4, <2>5 DEF WritersInv, Apart
  <2>6. ASSUME h.file = g.file, s = t PROVE h = g
    BY <2>6 DEF WritersInv, Sound, HeldOnce
  <2> QED BY <2>1, <2>3, <2>5, <2>6
<1>2. ReservationExact
  <2>1. \A s \in EdgeIds : Reserved(edge[s].handles) = Files(edge[s].handles)
    BY <1>t, ReservedFiles
  <2> QED BY <2>1 DEF WritersInv, ReservationExact, AllHeld, Held
<1> QED BY <1>1, <1>2 DEF SingleWriter

LEMMA NewStateSound == NewState \in State /\ Sound(NewState) /\ Held(NewState) = {}
<1>1. NewState \in State
  BY DEF NewState, State, Points, Replies
<1> QED BY <1>1 DEF NewState, State, Points, Opening, Removing, Sound, AtItsRequest, HeldOnce, Marked, Linked, Held, Files

LEMMA InitWritersInv == EdgeInit => WritersInv
<1> SUFFICES ASSUME EdgeInit PROVE WritersInv
  OBVIOUS
<1>1. EdgeTypeOK
  BY NewStateSound, EdgeAssumption DEF EdgeInit, EdgeTypeOK
<1>2. \A s \in EdgeIds : edge[s] = NewState
  BY DEF EdgeInit
<1>3. Apart /\ AllHeld = {}
  BY <1>2, NewStateSound DEF Apart, AllHeld
<1> QED
  BY <1>1, <1>2, <1>3, NewStateSound DEF EdgeInit, WritersInv, Unborn, OneName

-----------------------------------------------------------------------------
\* What a step of one session has to keep: the session stays sound, takes only files nobody
\* holds, gives back the reservations of those it lets go, and leaves the others' files in the folder.
LEMMA SessionStep ==
  ASSUME WritersInv, NEW s \in EdgeIds, s =< born, NEW st \in State,
         edge' = [edge EXCEPT ![s] = st],
         Sound(st)', 
         \A f \in Held(st) : f \in Held(edge[s]) \/ f \notin writers,
         writers' = (writers \ Held(edge[s])) \cup Held(st),
         Held(st) \subseteq EdgeFiles,
         inodes' \in Nat, inFolder' \in [EdgeFiles -> 0 .. inodes'], OneName',
         \A t \in EdgeIds \ {s} : \A f \in Files(edge[t].handles) : inFolder'[f] = inFolder[f],
         UNCHANGED born, sessions' \in [EdgePeers -> 0 .. born]
  PROVE  WritersInv'
<1>1. edge'[s] = st /\ \A t \in EdgeIds \ {s} : edge'[t] = edge[t]
  BY DEF WritersInv, EdgeTypeOK
<1>2. EdgeTypeOK'
  BY DEF WritersInv, EdgeTypeOK
<1>3. Unborn'
  BY <1>1, EdgeAssumption DEF WritersInv, EdgeTypeOK, Unborn, EdgeIds
<1>4. ASSUME NEW t \in EdgeIds \ {s} PROVE Sound(edge[t])'
  <2>1. Sound(edge[t])
    BY DEF WritersInv
  <2> QED BY <1>1, <2>1 DEF Sound, AtItsRequest, HeldOnce, Marked, Linked, Files
<1>5. \A t \in EdgeIds : Sound(edge[t])'
  BY <1>1, <1>4
<1>6. \A t \in EdgeIds \ {s} : Held(st) \cap Held(edge[t]) = {}
  BY DEF WritersInv, Apart, AllHeld
<1>7. Apart'
  BY <1>1, <1>6 DEF WritersInv, Apart
<1>8. writers' = AllHeld'
  BY <1>1, <1>6 DEF WritersInv, Apart, AllHeld
<1> QED BY <1>2, <1>3, <1>5, <1>7, <1>8 DEF WritersInv

-----------------------------------------------------------------------------
\* The OPEN under way in st, if any, is under way in nt.
SameOpen(st, nt) == /\ st.at = "openfile" <=> nt.at = "openfile"
                    /\ st.at = "openfile" => nt.op = st.op

\* Closing handles of a session lets go of their files and of nothing else.
LEMMA ClosedFiles ==
  ASSUME NEW st \in State, Sound(st), NEW handles \in SUBSET st.handles, NEW nt \in State,
         nt.handles = st.handles \ handles, SameOpen(st, nt)
  PROVE  /\ Held(nt) = Held(st) \ Reserved(handles) /\ Held(st) \subseteq EdgeFiles
         /\ Reserved(handles) \subseteq Held(st)
<1>1. Reserved(handles) = Files(handles)
  BY ReservedFiles DEF State
<1>2. Files(st.handles \ handles) = Files(st.handles) \ Files(handles)
  BY DEF Sound, HeldOnce, Files
<1>3. Files(st.handles) \subseteq EdgeFiles
  <2>1. st.handles \in SUBSET Handle
    BY DEF State
  <2> QED BY <2>1 DEF Handle, Files
<1>4. Files(handles) \subseteq Files(st.handles)
  BY DEF Files
<1>5. st.at = "openfile" => st.op.file \in EdgeFiles /\ st.op.file \notin Files(handles)
  <2> SUFFICES ASSUME st.at = "openfile" PROVE st.op.file \in EdgeFiles /\ st.op.file \notin Files(handles)
    OBVIOUS
  <2>1. st.op \in EdgeRequests /\ st.op.kind \in {"open", "remove"}
    BY DEF Sound, AtItsRequest, Opening
  <2>2. st.op.file \in EdgeFiles
    BY <2>1 DEF EdgeRequests
  <2> QED BY <1>4, <2>2 DEF Sound, HeldOnce
<1> QED BY <1>1, <1>2, <1>3, <1>4, <1>5 DEF Held, SameOpen

\* A step that only closes handles of one session, or none.
LEMMA ClosingStep ==
  ASSUME WritersInv, NEW s \in EdgeIds, s =< born, NEW st \in State, NEW handles \in SUBSET edge[s].handles,
         edge' = [edge EXCEPT ![s] = st], writers' = Released(handles),
         SameOpen(edge[s], st), st.handles = edge[s].handles \ handles, AtItsRequest(st), Marked(st),
         sessions' \in [EdgePeers -> 0 .. born], UNCHANGED <<born, inFolder, inodes>>
  PROVE  WritersInv'
<1>1. edge[s] \in State /\ Sound(edge[s])
  BY DEF WritersInv, EdgeTypeOK
<1>2. Held(st) = Held(edge[s]) \ Reserved(handles) /\ Held(edge[s]) \subseteq EdgeFiles /\ Reserved(handles) \subseteq Held(edge[s])
  BY <1>1, ClosedFiles
<1>3. writers' = (writers \ Held(edge[s])) \cup Held(st)
  <2>1. Held(edge[s]) \subseteq writers
    BY DEF WritersInv, AllHeld
  <2> QED BY <1>2, <2>1 DEF Released
<1>4. Sound(st)'
  <2>1. HeldOnce(st) /\ Linked(st)
    BY <1>1 DEF Sound, HeldOnce, Linked, SameOpen, Files
  <2> QED BY <2>1 DEF Sound, AtItsRequest, HeldOnce, Marked, Linked
<1>5. OneName' /\ inodes' \in Nat /\ inFolder' \in [EdgeFiles -> 0 .. inodes']
  BY DEF WritersInv, OneName, EdgeTypeOK
<1> QED BY <1>1, <1>2, <1>3, <1>4, <1>5, SessionStep

\* A step of one session that touches no handle and no reservation.
LEMMA QuietStep ==
  ASSUME WritersInv, NEW s \in EdgeIds, s =< born, NEW st \in State,
         edge' = [edge EXCEPT ![s] = st], st.handles = edge[s].handles, 
         SameOpen(edge[s], st), AtItsRequest(st), Marked(st),
         sessions' \in [EdgePeers -> 0 .. born], UNCHANGED <<born, writers, inFolder, inodes>>
  PROVE  WritersInv'
<1>1. writers' = Released({})
  BY DEF Released, Reserved
<1>2. st.handles = edge[s].handles \ {}
  OBVIOUS
<1> QED BY <1>1, <1>2, ClosingStep

-----------------------------------------------------------------------------
LEMMA OfSession ==
  ASSUME WritersInv, NEW s \in 1 .. born
  PROVE  s \in EdgeIds /\ s =< born /\ edge[s] \in State /\ Sound(edge[s])
BY EdgeAssumption DEF WritersInv, EdgeTypeOK, EdgeIds

LEMMA LookUpFileInv ==
  ASSUME WritersInv, NEW s \in 1 .. born, LookUpFile(s) PROVE WritersInv'
<1> DEFINE st == edge'[s]
<1>1. s \in EdgeIds /\ s =< born /\ edge[s] \in State /\ Sound(edge[s])
  BY OfSession
<1>2. edge' = [edge EXCEPT ![s] = st]
  BY <1>1 DEF LookUpFile, WritersInv, EdgeTypeOK
<1>3. st \in State /\ st.handles = edge[s].handles /\ st.at \in {"select", "reserve"}
  BY <1>1 DEF LookUpFile, Replied, State, Points, Opening, Replies, WritersInv, EdgeTypeOK
<1>4. AtItsRequest(st) /\ Marked(st)
  BY <1>1 DEF LookUpFile, Replied, State, Opening, Removing, WritersInv, EdgeTypeOK, Sound, AtItsRequest, Marked
<1> QED BY <1>1, <1>2, <1>3, <1>4, QuietStep DEF LookUpFile, SameOpen, WritersInv, EdgeTypeOK

LEMMA LstatInv ==
  ASSUME WritersInv, NEW s \in 1 .. born, Lstat(s) PROVE WritersInv'
<1> DEFINE st == edge'[s]
<1>1. s \in EdgeIds /\ s =< born /\ edge[s] \in State /\ Sound(edge[s])
  BY OfSession
<1>2. edge' = [edge EXCEPT ![s] = st]
  BY <1>1 DEF Lstat, WritersInv, EdgeTypeOK
<1>3. st \in State /\ st.handles = edge[s].handles /\ st.at \in {"select", "unlink"}
  BY <1>1 DEF Lstat, Replied, State, Points, Removing, Replies, WritersInv, EdgeTypeOK
<1>4. AtItsRequest(st) /\ Marked(st)
  BY <1>1 DEF Lstat, Replied, State, Opening, Removing, WritersInv, EdgeTypeOK, Sound, AtItsRequest, Marked
<1> QED BY <1>1, <1>2, <1>3, <1>4, QuietStep DEF Lstat, SameOpen, WritersInv, EdgeTypeOK

LEMMA WorkerLeavesInv ==
  ASSUME WritersInv, NEW s \in 1 .. born, WorkerLeaves(s) PROVE WritersInv'
<1> DEFINE st == edge'[s]
<1>1. s \in EdgeIds /\ s =< born /\ edge[s] \in State /\ Sound(edge[s])
  BY OfSession
<1>2. edge' = [edge EXCEPT ![s] = st]
  BY <1>1 DEF WorkerLeaves, WritersInv, EdgeTypeOK
<1>3. st \in State /\ st.handles = edge[s].handles /\ st.at = "exited"
  BY <1>1 DEF WorkerLeaves, State, Points, WritersInv, EdgeTypeOK
<1>4. AtItsRequest(st) /\ Marked(st)
  BY <1>1, <1>3 DEF Opening, Removing, Sound, AtItsRequest, Marked
<1> QED BY <1>1, <1>2, <1>3, <1>4, QuietStep DEF WorkerLeaves, SameOpen, WritersInv, EdgeTypeOK

LEMMA HandleWriteRequestInv ==
  ASSUME WritersInv, NEW s \in 1 .. born, HandleWriteRequest(s) PROVE WritersInv'
<1> DEFINE st == edge'[s]
<1>1. s \in EdgeIds /\ s =< born /\ edge[s] \in State /\ Sound(edge[s])
  BY OfSession
<1>2. edge' = [edge EXCEPT ![s] = st]
  BY <1>1 DEF HandleWriteRequest, WritersInv, EdgeTypeOK
<1>3. st \in State /\ st.handles = edge[s].handles /\ st.at = "select"
  <2>1. PICK w \in Nat, result \in Replies : st = Replied([edge[s] EXCEPT !.write = w], result)
    <3>1. \A h \in edge[s].handles : h.id \in Nat
      BY <1>1 DEF State, Handle
    <3>2. {"none", "EBADF"} \subseteq Replies /\ [edge[s] EXCEPT !.write = 0].handles = edge[s].handles
      BY <1>1 DEF Replies, State
    <3>3. \A w : [[edge[s] EXCEPT !.write = 0] EXCEPT !.write = w] = [edge[s] EXCEPT !.write = w]
      BY <1>1 DEF State
    <3>4. CASE \E h \in edge[s].handles : st = Replied([[edge[s] EXCEPT !.write = 0] EXCEPT !.write = h.id], "none")
      BY <3>1, <3>2, <3>3, <3>4
    <3>5. CASE st = Replied([edge[s] EXCEPT !.write = 0], "EBADF")
      BY <3>2, <3>5
    <3>6. edge \in [EdgeIds -> State]
      BY DEF WritersInv, EdgeTypeOK
    <3> QED BY <1>1, <3>2, <3>4, <3>5, <3>6 DEF HandleWriteRequest
  <2> QED BY <1>1, <2>1 DEF Replied, State, Points
<1>4. AtItsRequest(st) /\ Marked(st)
  BY <1>1, <1>3 DEF Opening, Removing, Sound, AtItsRequest, Marked
<1>5. edge[s].at = "arm"
  BY <1>1 DEF HandleWriteRequest, State
<1> QED BY <1>1, <1>2, <1>3, <1>4, <1>5, QuietStep DEF HandleWriteRequest, SameOpen, WritersInv, EdgeTypeOK

LEMMA HandleWriteDataInv ==
  ASSUME WritersInv, NEW s \in 1 .. born, HandleWriteData(s) PROVE WritersInv'
<1> DEFINE st == edge'[s]
<1>1. s \in EdgeIds /\ s =< born /\ edge[s] \in State /\ Sound(edge[s])
  BY OfSession
<1>2. edge' = [edge EXCEPT ![s] = st]
  BY <1>1 DEF HandleWriteData, WritersInv, EdgeTypeOK
<1>3. st \in State /\ st.handles = edge[s].handles /\ st.at = "select"
  <2>1. PICK w \in Nat, result \in Replies : st = Replied([edge[s] EXCEPT !.write = w], result)
    <3>1. edge[s].write \in Nat /\ {"none", "EIO", "stored", "EBADF"} \subseteq Replies
      BY <1>1 DEF State, Replies
    <3>2. edge \in [EdgeIds -> State]
      BY DEF WritersInv, EdgeTypeOK
    <3>3. PICK outcome \in {"none", "EIO", "stored"} :
            st = Replied([edge[s] EXCEPT !.write = IF outcome = "none" THEN @ ELSE 0],
                         IF outcome = "stored" /\ \A h \in edge[s].handles : h.id # edge[s].write THEN "EBADF" ELSE outcome)
      BY <1>1, <3>2 DEF HandleWriteData
    <3> QED BY <3>1, <3>3
  <2> QED BY <1>1, <2>1 DEF Replied, State, Points
<1>4. AtItsRequest(st) /\ Marked(st)
  BY <1>1, <1>3 DEF Opening, Removing, Sound, AtItsRequest, Marked
<1> QED BY <1>1, <1>2, <1>3, <1>4, QuietStep DEF HandleWriteData, SameOpen, WritersInv, EdgeTypeOK

LEMMA CloseStateInv ==
  ASSUME WritersInv, NEW s \in 1 .. born, CloseState(s) PROVE WritersInv'
<1> DEFINE st == edge'[s]
<1>1. s \in EdgeIds /\ s =< born /\ edge[s] \in State /\ Sound(edge[s])
  BY OfSession
<1>2. edge' = [edge EXCEPT ![s] = st]
  BY <1>1 DEF CloseState, WritersInv, EdgeTypeOK
<1>3. st \in State /\ st.handles = edge[s].handles \ edge[s].handles /\ st.at = "closed"
  BY <1>1 DEF CloseState, Closed, State, Points, WritersInv, EdgeTypeOK
<1>4. AtItsRequest(st) /\ Marked(st)
  BY <1>3 DEF Opening, Removing, AtItsRequest, Marked
<1> QED BY <1>1, <1>2, <1>3, <1>4, ClosingStep DEF CloseState, SameOpen, WritersInv, EdgeTypeOK

LEMMA CloseHandleInv ==
  ASSUME WritersInv, NEW s \in 1 .. born, CloseHandle(s) PROVE WritersInv'
<1> DEFINE st == edge'[s]
<1>1. s \in EdgeIds /\ s =< born /\ edge[s] \in State /\ Sound(edge[s])
  BY OfSession
<1>2. edge' = [edge EXCEPT ![s] = st]
  BY <1>1 DEF CloseHandle, WritersInv, EdgeTypeOK
<1>3. PICK handles \in SUBSET edge[s].handles :
        /\ writers' = Released(handles)
        /\ edge'[s] = Replied(Without(edge[s], handles), "ok") \/ (handles = {} /\ edge'[s] = Replied(edge[s], "EBADF"))
  <2>1. writers = Released({})
    BY DEF Released, Reserved
  <2> QED BY <1>1, <2>1 DEF CloseHandle, WritersInv, EdgeTypeOK
<1>4. st \in State /\ st.handles = edge[s].handles \ handles /\ st.at = "select"
  <2>1. Without(edge[s], handles) \in State
    BY <1>1 DEF Without, State
  <2>2. Without(edge[s], handles).handles = edge[s].handles \ handles
    BY <1>1 DEF Without, State
  <2>3. \A x \in State, r \in Replies : Replied(x, r) \in State /\ Replied(x, r).handles = x.handles /\ Replied(x, r).at = "select"
    BY DEF Replied, State, Points
  <2> QED BY <1>1, <1>3, <2>1, <2>2, <2>3 DEF Replies
<1>5. AtItsRequest(st) /\ Marked(st)
  BY <1>1, <1>4 DEF Opening, Removing, Sound, AtItsRequest, Marked
<1> QED BY <1>1, <1>2, <1>3, <1>4, <1>5, ClosingStep DEF CloseHandle, SameOpen, WritersInv, EdgeTypeOK

\* A hand-over marks the handles and changes nothing else of them.
LEMMA ReplacedHandles ==
  ASSUME NEW st \in State
  PROVE  /\ Replaced(st) \in State
         /\ Replaced(st).handles = {[h EXCEPT !.own = FALSE, !.inherited = TRUE] : h \in st.handles}
         /\ Replaced(st).at = st.at /\ Replaced(st).op = st.op /\ Replaced(st).reply = st.reply /\ Replaced(st).taken = st.taken
<1> DEFINE marked == {[h EXCEPT !.own = FALSE, !.inherited = TRUE] : h \in st.handles}
<1>1. {[h EXCEPT !.inherited = TRUE] : h \in {[h EXCEPT !.own = FALSE] : h \in st.handles}} = marked
  OBVIOUS
<1>2. Replaced(st) = [st EXCEPT !.streaming = FALSE, !.write = 0, !.handles = marked]
  BY <1>1 DEF Replaced, HandOff, State
<1>3. marked \in SUBSET Handle
  <2>1. st.handles \in SUBSET Handle
    BY DEF State
  <2>2. \A h \in Handle : [h EXCEPT !.own = FALSE, !.inherited = TRUE] \in Handle
    BY DEF Handle
  <2> QED BY <2>1, <2>2
<1> HIDE DEF marked
<1>4. Replaced(st) \in State
  <2>1. \A m \in SUBSET Handle : [st EXCEPT !.streaming = FALSE, !.write = 0, !.handles = m] \in State
    BY DEF State
  <2> QED BY <1>2, <1>3, <2>1
<1>5. Replaced(st).handles = marked
  BY <1>2 DEF State
<1>6. Replaced(st).at = st.at /\ Replaced(st).op = st.op /\ Replaced(st).reply = st.reply /\ Replaced(st).taken = st.taken
  BY <1>2 DEF State
<1> QED BY <1>4, <1>5, <1>6 DEF marked

\* The session that has taken a request.
LEMMA TakenState ==
  ASSUME NEW x \in State, NEW req \in EdgeRequests
  PROVE  /\ Taken(x, req) \in State /\ Taken(x, req).handles = x.handles /\ Taken(x, req).at = Starts[req.kind]
         /\ Taken(x, req).op = req /\ Taken(x, req).reply = "none"
<1> DEFINE y == [x EXCEPT !.streaming = TRUE, !.taken = @ + 1]
           z == [y EXCEPT !.at = Starts[req.kind], !.op = req]
<1>1. Taken(x, req) = [z EXCEPT !.reply = "none"]
  BY DEF Taken
<1>2. y \in State /\ y.handles = x.handles
  <2>1. x.taken + 1 \in Nat
    BY DEF State
  <2>2. y \in State
    BY ONLY <2>1, x \in State DEF State
  <2> QED BY <2>2 DEF State
<1> HIDE DEF y
<1>3. Starts[req.kind] \in Points
  BY DEF EdgeRequests, Starts, Points, Opening, Removing
<1>4. z \in State /\ z.handles = y.handles /\ z.at = Starts[req.kind] /\ z.op = req
  BY <1>2, <1>3 DEF State
<1> HIDE DEF z
<1> QED BY <1>1, <1>2, <1>4 DEF State, Replies

LEMMA HandleDataInv ==
  ASSUME WritersInv, NEW s \in 1 .. born, HandleData(s) PROVE WritersInv'
<1>0. PICK st : st = edge'[s]
  OBVIOUS
<1>1. s \in EdgeIds /\ s =< born /\ edge[s] \in State /\ Sound(edge[s])
  BY OfSession
<1>2. edge' = [edge EXCEPT ![s] = st]
  BY <1>0, <1>1 DEF HandleData, WritersInv, EdgeTypeOK
<1>3. PICK nt \in {edge[s], Replaced(edge[s])} :
        \/ \E req \in EdgeRequests : st = Taken(nt, req)
        \/ st = [nt EXCEPT !.taken = @ + 1]
  BY <1>0, <1>1 DEF HandleData, WritersInv, EdgeTypeOK
<1>4. /\ nt \in State /\ nt.at = "select"
      /\ nt.handles \in {edge[s].handles, {[h EXCEPT !.own = FALSE, !.inherited = TRUE] : h \in edge[s].handles}}
  BY <1>1, ReplacedHandles DEF HandleData
<1>5. \A req \in EdgeRequests : Starts[req.kind] \in Points \ {"openfile", "again", "unlinkagain"} 
  BY DEF EdgeRequests, Starts, Points, Opening, Removing
<1>6. /\ st \in State /\ st.handles = nt.handles /\ st.at \notin {"openfile", "again", "unlinkagain"}
  <2>1. CASE st = [nt EXCEPT !.taken = @ + 1]
    <3>1. \A x \in State : LET y == [x EXCEPT !.taken = @ + 1] IN y \in State /\ y.handles = x.handles /\ y.at = x.at
      BY DEF State
    <3> QED BY <1>4, <2>1, <3>1
  <2>2. ASSUME NEW req \in EdgeRequests, st = Taken(nt, req)
        PROVE  /\ st \in State /\ st.handles = nt.handles /\ st.at \notin {"openfile", "again", "unlinkagain"}
    BY <1>4, <1>5, <2>2, TakenState
  <2> QED BY <1>3, <2>1, <2>2
<1>7. AtItsRequest(st)
  <2>1. CASE st = [nt EXCEPT !.taken = @ + 1]
    BY <1>4, <2>1 DEF State, AtItsRequest, Opening, Removing
  <2>2. ASSUME NEW req \in EdgeRequests, st = Taken(nt, req) PROVE AtItsRequest(st)
    <3>1. Starts[req.kind] \in Opening \cup Removing => req.kind \in {"open", "remove"}
      BY DEF EdgeRequests, Starts, Opening, Removing
    <3>2. st.at = Starts[req.kind] /\ st.op = req /\ st.reply = "none"
      BY <1>4, <2>2, TakenState
    <3> QED BY <3>1, <3>2 DEF AtItsRequest
  <2> QED BY <1>3, <2>1, <2>2
<1>8. Files(st.handles) = Files(edge[s].handles) /\ HeldOnce(st) /\ Linked(st) /\ Marked(st)
  <2>1. CASE nt.handles = edge[s].handles
    BY <1>1, <1>6, <2>1 DEF Sound, HeldOnce, Linked, Marked, Files
  <2>2. CASE nt.handles = {[h EXCEPT !.own = FALSE, !.inherited = TRUE] : h \in edge[s].handles}
    <3>1. edge[s].handles \in SUBSET Handle
      BY <1>1 DEF State
    <3>2. \A h \in edge[s].handles : LET g == [h EXCEPT !.own = FALSE, !.inherited = TRUE] IN
            g.file = h.file /\ g.inode = h.inode /\ g.inherited
      BY <3>1 DEF Handle
    <3> DEFINE mark(h) == [h EXCEPT !.own = FALSE, !.inherited = TRUE]
    <3>3. st.handles = {mark(h) : h \in edge[s].handles}
      BY <1>6, <2>2
    <3>4. \A h \in edge[s].handles : mark(h).file = h.file /\ mark(h).inode = h.inode /\ mark(h).inherited
      BY <3>2
    <3> HIDE DEF mark
    <3>5. Files(st.handles) = Files(edge[s].handles)
      BY <3>3, <3>4 DEF Files
    <3>6. HeldOnce(st)
      BY <1>1, <1>6, <3>3, <3>4 DEF Sound, HeldOnce
    <3>7. Linked(st) /\ Marked(st)
      BY <1>1, <1>6, <3>3, <3>4 DEF Sound, Linked, Marked
    <3> QED BY <3>5, <3>6, <3>7
  <2> QED BY <1>4, <2>1, <2>2
<1>9. Held(st) = Held(edge[s]) /\ Held(st) \subseteq EdgeFiles
  <2>1. edge[s].at = "select"
    BY DEF HandleData
  <2>2. Held(st) = Held(edge[s])
    BY <1>6, <1>8, <2>1 DEF Held
  <2> QED BY <1>1, <2>2 DEF WritersInv, EdgeTypeOK, AllHeld
<1>10. Sound(st)'
  BY <1>7, <1>8 DEF HandleData, Sound, AtItsRequest, HeldOnce, Linked, Marked
<1>11. writers' = (writers \ Held(edge[s])) \cup Held(st)
  BY <1>1, <1>9 DEF HandleData, WritersInv, AllHeld
<1>12. OneName' /\ inodes' \in Nat /\ inFolder' \in [EdgeFiles -> 0 .. inodes'] /\ sessions' \in [EdgePeers -> 0 .. born]
  BY DEF HandleData, WritersInv, OneName, EdgeTypeOK
<1> QED BY <1>1, <1>2, <1>6, <1>9, <1>10, <1>11, <1>12, SessionStep DEF HandleData

\* A discovery, an expiry or the server's end finds its session in the table.
LEMMA InTable ==
  ASSUME WritersInv, NEW p \in EdgePeers, sessions[p] # 0
  PROVE  sessions[p] \in 1 .. born
BY DEF WritersInv, EdgeTypeOK

LEMMA HandleDiscoveryInv ==
  ASSUME WritersInv, HandleDiscovery PROVE WritersInv'
<1>0. PICK s \in {sessions[p] : p \in EdgePeers} \ {0} :
        writers' = Released(edge[s].handles) /\ edge' = [edge EXCEPT ![s] = Closed(@)]
  BY DEF HandleDiscovery
<1>1. s \in EdgeIds /\ s =< born /\ edge[s] \in State /\ Sound(edge[s])
  BY InTable, OfSession
<1>2. Closed(edge[s]) \in State /\ Closed(edge[s]).handles = edge[s].handles \ edge[s].handles
  BY <1>1 DEF Closed, State
<1>3. Closed(edge[s]).at = edge[s].at /\ Closed(edge[s]).op = edge[s].op /\ Closed(edge[s]).reply = edge[s].reply
  BY <1>1 DEF Closed, State
<1>4. AtItsRequest(Closed(edge[s])) /\ Marked(Closed(edge[s]))
  BY <1>1, <1>2, <1>3 DEF Sound, AtItsRequest, Marked
<1> QED BY <1>0, <1>1, <1>2, <1>3, <1>4, ClosingStep DEF HandleDiscovery, SameOpen, WritersInv, EdgeTypeOK

LEMMA ExpireSessionsInv ==
  ASSUME WritersInv, ExpireSessions PROVE WritersInv'
<1>0. PICK p \in EdgePeers : /\ sessions[p] # 0 /\ sessions' = [sessions EXCEPT ![p] = 0]
                             /\ edge' = [edge EXCEPT ![sessions[p]].stopped = TRUE]
  BY DEF ExpireSessions
<1> DEFINE s == sessions[p]
           st == [edge[s] EXCEPT !.stopped = TRUE]
<1>1. s \in EdgeIds /\ s =< born /\ edge[s] \in State /\ Sound(edge[s])
  BY <1>0, InTable, OfSession
<1>2. /\ st \in State /\ st.handles = edge[s].handles /\ st.at = edge[s].at
      /\ st.op = edge[s].op /\ st.reply = edge[s].reply
  BY <1>1 DEF State
<1>3. edge' = [edge EXCEPT ![s] = st]
  BY <1>0
<1>4. sessions' \in [EdgePeers -> 0 .. born]
  BY <1>0 DEF WritersInv, EdgeTypeOK
<1> HIDE DEF st, s
<1>5. AtItsRequest(st) /\ Marked(st) /\ SameOpen(edge[s], st)
  BY <1>1, <1>2 DEF Sound, AtItsRequest, Marked, SameOpen
<1> QED BY <1>1, <1>2, <1>3, <1>4, <1>5, QuietStep DEF ExpireSessions

LEMMA GetWorkerInv ==
  ASSUME WritersInv, GetWorker PROVE WritersInv'
<1>1. born' = born + 1 /\ born' \in 0 .. MaxEdgeSessions /\ born + 1 \in EdgeIds
  BY EdgeAssumption DEF GetWorker, WritersInv, EdgeTypeOK, EdgeIds
<1>2. edge[born + 1] = NewState
  BY <1>1 DEF WritersInv, EdgeTypeOK, Unborn
<1>3. edge' = edge
  BY <1>1, <1>2 DEF GetWorker, WritersInv, EdgeTypeOK
<1>4. sessions' \in [EdgePeers -> 0 .. born']
  BY <1>1 DEF GetWorker, WritersInv, EdgeTypeOK
<1>5. EdgeTypeOK' /\ Unborn'
  BY <1>1, <1>3, <1>4, EdgeAssumption DEF GetWorker, WritersInv, EdgeTypeOK, Unborn, EdgeIds
<1> QED
  BY <1>3, <1>5 DEF GetWorker, WritersInv, Sound, AtItsRequest, HeldOnce, Marked, Linked, Apart, AllHeld, OneName

LEMMA CloseServerInv ==
  ASSUME WritersInv, CloseServer PROVE WritersInv'
<1> DEFINE ended(s) == [edge[s] EXCEPT !.stopped = @ \/ \E p \in EdgePeers : sessions[p] = s]
<1>1. edge' = [s \in EdgeIds |-> ended(s)]
  BY DEF CloseServer
<1>2. ASSUME NEW s \in EdgeIds
      PROVE  /\ ended(s) \in State /\ ended(s).handles = edge[s].handles /\ ended(s).at = edge[s].at
             /\ ended(s).op = edge[s].op /\ ended(s).reply = edge[s].reply
  <2>1. edge[s] \in State
    BY DEF WritersInv, EdgeTypeOK
  <2>2. \A b \in BOOLEAN : LET y == [edge[s] EXCEPT !.stopped = b] IN
          /\ y \in State /\ y.handles = edge[s].handles /\ y.at = edge[s].at
          /\ y.op = edge[s].op /\ y.reply = edge[s].reply
    BY <2>1 DEF State
  <2> QED BY <2>2
<1>3. /\ edge' \in [EdgeIds -> State]
      /\ \A s \in EdgeIds : /\ edge'[s].handles = edge[s].handles /\ edge'[s].at = edge[s].at
                            /\ edge'[s].op = edge[s].op /\ edge'[s].reply = edge[s].reply
  BY <1>1, <1>2
<1>4. Unborn'
  <2> SUFFICES ASSUME NEW s \in EdgeIds, s > born PROVE edge'[s] = NewState
    BY DEF CloseServer, Unborn
  <2>1. edge[s] = NewState /\ \A p \in EdgePeers : sessions[p] # s
    BY EdgeAssumption DEF WritersInv, Unborn, EdgeTypeOK, EdgeIds
  <2>2. (edge[s].stopped \/ \E p \in EdgePeers : sessions[p] = s) = FALSE
    BY <2>1 DEF NewState
  <2>3. ended(s) = [NewState EXCEPT !.stopped = FALSE]
    <3>1. \A b : b = FALSE => [edge[s] EXCEPT !.stopped = b] = [NewState EXCEPT !.stopped = FALSE]
      BY <2>1
    <3> QED BY <2>2, <3>1, Zenon
  <2>4. [NewState EXCEPT !.stopped = FALSE] = NewState
    <3>1. \A x \in State : [x EXCEPT !.stopped = x.stopped] = x
      BY DEF State
    <3>2. NewState.stopped = FALSE
      BY DEF NewState
    <3> QED BY <3>1, <3>2, NewStateSound
  <2> QED BY <1>1, <2>3, <2>4
<1>5. EdgeTypeOK'
  BY <1>3 DEF CloseServer, WritersInv, EdgeTypeOK
<1>6. \A s \in EdgeIds : Sound(edge[s])'
  BY <1>3 DEF CloseServer, WritersInv, Sound, AtItsRequest, HeldOnce, Marked, Linked
<1>7. \A s \in EdgeIds : Held(edge'[s]) = Held(edge[s])
  BY <1>3 DEF Held
<1>8. Apart' /\ AllHeld' = AllHeld
  BY <1>7 DEF WritersInv, Apart, AllHeld
<1> QED BY <1>4, <1>5, <1>6, <1>8 DEF CloseServer, WritersInv, OneName

LEMMA RepliedState ==
  ASSUME NEW st \in State, NEW r \in Replies
  PROVE  Replied(st, r) \in State /\ Replied(st, r).handles = st.handles /\ Replied(st, r).at = "select" /\ Replied(st, r).reply = r
BY DEF Replied, State, Points

\* A reply touches no handle, and ends the request.
LEMMA RepliedSound ==
  ASSUME NEW st \in State, Sound(st), NEW r \in Replies
  PROVE  AtItsRequest(Replied(st, r)) /\ Marked(Replied(st, r))
BY RepliedState DEF Sound, AtItsRequest, Marked, Opening, Removing

\* TakeOverWriter: the handles on the file that the running loader did not open are closed.
LEMMA TakeOverInv ==
  ASSUME WritersInv, NEW s \in 1 .. born, NEW again \in {"again", "unlinkagain"},
         edge[s].at \in {"reserve", "unlink"}, UNCHANGED <<sessions, born, inFolder, inodes>>,
         writers' = Released(Inherits(edge[s], edge[s].op.file)),
         edge' = [edge EXCEPT ![s] = [Without(edge[s], Inherits(edge[s], edge[s].op.file)) EXCEPT !.at = again]]
  PROVE  WritersInv'
<1> DEFINE f == edge[s].op.file
           handles == Inherits(edge[s], f)
           nt == Without(edge[s], handles)
           st == [nt EXCEPT !.at = again]
<1>1. s \in EdgeIds /\ s =< born /\ edge[s] \in State /\ Sound(edge[s])
  BY OfSession
<1>2. handles \in SUBSET edge[s].handles
  BY DEF Inherits
<1>3. /\ nt \in State /\ nt.handles = edge[s].handles \ handles
      /\ nt.op = edge[s].op /\ nt.reply = edge[s].reply
  BY <1>1 DEF Without, State
<1>4. \A h \in nt.handles : h.inherited => h.file # f
  BY <1>1, <1>3 DEF Inherits, State, Handle
<1> HIDE DEF nt
<1>5. st \in State /\ st.handles = nt.handles /\ st.op = nt.op /\ st.reply = nt.reply /\ st.at = again
  BY <1>3 DEF State, Points, Opening, Removing
<1>6. edge' = [edge EXCEPT ![s] = st]
  BY DEF nt
<1> HIDE DEF st, handles
<1>7. AtItsRequest(st)
  BY <1>1, <1>3, <1>5 DEF Sound, AtItsRequest, Opening, Removing
<1>8. Marked(st)
  BY <1>1, <1>3, <1>4, <1>5 DEF Sound, Marked
<1>9. SameOpen(edge[s], st)
  BY <1>5 DEF SameOpen
<1>10. writers' = Released(handles)
  BY DEF handles
<1> QED BY <1>1, <1>2, <1>3, <1>5, <1>6, <1>7, <1>8, <1>9, <1>10, ClosingStep DEF WritersInv, EdgeTypeOK

LEMMA ReserveWriterInv ==
  ASSUME WritersInv, NEW s \in 1 .. born, ReserveWriter(s) PROVE WritersInv'
<1> DEFINE f == edge[s].op.file
<1>1. s \in EdgeIds /\ s =< born /\ edge[s] \in State /\ Sound(edge[s]) /\ edge[s].at \in {"reserve", "again"}
  BY OfSession DEF ReserveWriter
<1>2. CASE f \notin writers
  <2>0. PICK st : st = [edge[s] EXCEPT !.at = "openfile"]
    OBVIOUS
  <2>1. writers' = writers \cup {f} /\ edge' = [edge EXCEPT ![s] = st]
    BY <1>2, <2>0 DEF ReserveWriter
  <2>2. st \in State /\ st.handles = edge[s].handles /\ st.at = "openfile" /\ st.op = edge[s].op /\ st.reply = edge[s].reply
    BY <1>1, <2>0 DEF State, Points, Opening
  <2>3. f \in EdgeFiles
    <3>1. edge[s].op \in EdgeRequests /\ edge[s].op.kind \in {"open", "remove"}
      BY <1>1 DEF Sound, AtItsRequest, Opening
    <3> QED BY <3>1 DEF EdgeRequests
  <2>4. Held(st) = Held(edge[s]) \cup {f}
    BY <1>1, <2>2 DEF Held
  <2>5. Held(edge[s]) \subseteq writers /\ Held(edge[s]) \subseteq EdgeFiles
    BY <1>1 DEF WritersInv, AllHeld, EdgeTypeOK
  <2>6. AtItsRequest(st) /\ Marked(st) /\ Linked(st)
    BY <1>1, <2>2 DEF Sound, AtItsRequest, Marked, Linked, Opening
  <2>7. HeldOnce(st)
    BY <1>1, <1>2, <2>2, <2>5 DEF Sound, HeldOnce, Held
  <2>8. Sound(st)'
    BY <2>6, <2>7 DEF ReserveWriter, Sound, AtItsRequest, HeldOnce, Marked, Linked
  <2>9. OneName' /\ inodes' \in Nat /\ inFolder' \in [EdgeFiles -> 0 .. inodes'] /\ sessions' \in [EdgePeers -> 0 .. born]
    BY DEF ReserveWriter, WritersInv, OneName, EdgeTypeOK
  <2> QED BY <1>1, <1>2, <2>1, <2>2, <2>3, <2>4, <2>5, <2>8, <2>9, SessionStep DEF ReserveWriter
<1>3. CASE f \in writers /\ edge[s].at = "reserve" /\ Inherits(edge[s], f) # {}
  BY <1>3, TakeOverInv DEF ReserveWriter
<1>4. CASE f \in writers /\ ~(edge[s].at = "reserve" /\ Inherits(edge[s], f) # {})
  <2>1. UNCHANGED writers /\ edge' = [edge EXCEPT ![s] = Replied(edge[s], "EBUSY")] /\ "EBUSY" \in Replies
    BY <1>4 DEF ReserveWriter, Replies
  <2> QED BY <1>1, <2>1, RepliedState, RepliedSound, QuietStep DEF ReserveWriter, SameOpen, WritersInv, EdgeTypeOK
<1> QED BY <1>2, <1>3, <1>4

\* os.OpenFile: the reservation is dropped, or becomes a handle on the file in the folder.
LEMMA OpenReservedInv ==
  ASSUME WritersInv, NEW s \in 1 .. born, OpenReserved(s) PROVE WritersInv'
<1> DEFINE f == edge[s].op.file
           r == Files(edge[s].handles)
<1>1. s \in EdgeIds /\ s =< born /\ edge[s] \in State /\ Sound(edge[s]) /\ edge[s].at = "openfile"
  BY OfSession DEF OpenReserved
<1>2. f \in EdgeFiles
  <2>1. edge[s].op \in EdgeRequests /\ edge[s].op.kind \in {"open", "remove"}
    BY <1>1 DEF Sound, AtItsRequest, Opening
  <2> QED BY <2>1 DEF EdgeRequests
<1>3. Held(edge[s]) = r \cup {f} /\ f \notin r /\ Held(edge[s]) \subseteq writers /\ writers \subseteq EdgeFiles
  BY <1>1 DEF Held, Sound, HeldOnce, WritersInv, AllHeld, EdgeTypeOK
<1>4. UNCHANGED <<sessions, born>> /\ sessions' \in [EdgePeers -> 0 .. born]
  BY DEF OpenReserved, WritersInv, EdgeTypeOK
<1>5. CASE edge' = [edge EXCEPT ![s] = Replied(edge[s], "error")] /\ writers' = writers \ {f} /\ UNCHANGED <<inFolder, inodes>>
  <2>0. PICK st : st = Replied(edge[s], "error")
    OBVIOUS
  <2>1. st \in State /\ st.handles = edge[s].handles /\ st.at = "select" /\ AtItsRequest(st) /\ Marked(st)
    BY <1>1, <2>0, RepliedState, RepliedSound DEF Replies
  <2>2. Held(st) = r
    BY <2>1 DEF Held
  <2>3. Sound(st)'
    BY <1>1, <1>5, <2>1 DEF Sound, AtItsRequest, HeldOnce, Marked, Linked
  <2>4. OneName' /\ inodes' \in Nat /\ inFolder' \in [EdgeFiles -> 0 .. inodes']
    BY <1>5 DEF WritersInv, OneName, EdgeTypeOK
  <2> QED BY <1>1, <1>3, <1>4, <1>5, <2>0, <2>1, <2>2, <2>3, <2>4, SessionStep
<1>6. ASSUME inodes' = (IF inFolder[f] = 0 THEN inodes + 1 ELSE inodes),
             inFolder' = (IF inFolder[f] = 0 THEN [inFolder EXCEPT ![f] = inodes + 1] ELSE inFolder),
             edge' = [edge EXCEPT ![s] = Replied([edge[s] EXCEPT !.handles = @ \cup {[id |-> edge[s].taken, own |-> TRUE, file |-> f,
                        inode |-> inFolder'[f], writer |-> TRUE, inherited |-> FALSE]}], "ok")],
             UNCHANGED writers
      PROVE  WritersInv'
  <2>1. inodes \in Nat /\ inFolder \in [EdgeFiles -> 0 .. inodes]
    BY DEF WritersInv, EdgeTypeOK
  <2>2. inodes' \in Nat /\ inFolder' \in [EdgeFiles -> 0 .. inodes'] /\ inFolder'[f] \in Nat \ {0}
    BY <1>2, <1>6, <2>1
  <2>3. \A g \in EdgeFiles \ {f} : inFolder'[g] = inFolder[g]
    BY <1>2, <1>6, <2>1
  <2>4. OneName'
    BY <1>2, <1>6, <2>1 DEF WritersInv, OneName
  <2>5. PICK h : h = [id |-> edge[s].taken, own |-> TRUE, file |-> f, inode |-> inFolder'[f], writer |-> TRUE, inherited |-> FALSE]
    OBVIOUS
  <2>6. h \in Handle /\ h.file = f /\ h.inode = inFolder'[f] /\ h.own
    BY <1>1, <1>2, <2>2, <2>5 DEF Handle, State
  <2>7. PICK nt : nt = [edge[s] EXCEPT !.handles = @ \cup {h}]
    OBVIOUS
  <2>8. nt \in State /\ nt.handles = edge[s].handles \cup {h}
    BY <1>1, <2>6, <2>7 DEF State
  <2>9. PICK st : st = Replied(nt, "ok")
    OBVIOUS
  <2>10. st \in State /\ st.handles = edge[s].handles \cup {h} /\ st.at = "select"
    BY <2>8, <2>9, RepliedState DEF Replies
  <2>11. edge' = [edge EXCEPT ![s] = st]
    BY <1>6, <2>5, <2>7, <2>9
  <2>12. Held(st) = r \cup {f}
    BY <2>6, <2>10 DEF Held, Files
  <2>13. \A g \in edge[s].handles : g.file \in r /\ g.file \in EdgeFiles \ {f}
    BY <1>3 DEF Files
  <2>14. HeldOnce(st) /\ AtItsRequest(st) /\ Marked(st)
    BY <1>1, <2>6, <2>10, <2>13 DEF Sound, HeldOnce, AtItsRequest, Marked, Opening, Removing
  <2>15. Linked(st)'
    BY <1>1, <2>2, <2>3, <2>6, <2>10, <2>13 DEF Sound, Linked
  <2>16. Sound(st)'
    BY <2>14, <2>15 DEF Sound, HeldOnce, AtItsRequest, Marked
  <2>17. \A t \in EdgeIds \ {s} : \A g \in Files(edge[t].handles) : inFolder'[g] = inFolder[g]
    <3> SUFFICES ASSUME NEW t \in EdgeIds \ {s}, NEW g \in Files(edge[t].handles) PROVE g \in EdgeFiles \ {f}
      BY <2>3
    <3>1. g \in Held(edge[t]) /\ Held(edge[t]) \subseteq writers
      BY DEF Held, WritersInv, AllHeld
    <3>2. f \notin Held(edge[t])
      BY <1>1, <1>3 DEF WritersInv, Apart
    <3> QED BY <1>3, <3>1, <3>2
  <2>18. writers' = (writers \ Held(edge[s])) \cup Held(st) /\ Held(st) \subseteq EdgeFiles
    BY <1>3, <1>6, <2>12
  <2> QED BY <1>1, <1>3, <1>4, <2>2, <2>4, <2>10, <2>11, <2>12, <2>16, <2>17, <2>18, SessionStep
<1> QED BY <1>5, <1>6 DEF OpenReserved

\* removeUnlessWriting: only a file nobody holds leaves the folder.
LEMMA RemoveUnlessWritingInv ==
  ASSUME WritersInv, NEW s \in 1 .. born, RemoveUnlessWriting(s) PROVE WritersInv'
<1> DEFINE f == edge[s].op.file
<1>1. /\ s \in EdgeIds /\ s =< born /\ edge[s] \in State /\ Sound(edge[s]) /\ edge[s].at \in {"unlink", "unlinkagain"}
      /\ UNCHANGED <<sessions, born, inodes>> /\ sessions' \in [EdgePeers -> 0 .. born]
  BY OfSession DEF RemoveUnlessWriting, WritersInv, EdgeTypeOK
<1>2. CASE f \notin writers
  <2>0. PICK st : st = Replied(edge[s], IF inFolder[f] = 0 THEN "ENOENT" ELSE "ok")
    OBVIOUS
  <2>1. inFolder' = [inFolder EXCEPT ![f] = 0] /\ writers' = writers /\ edge' = [edge EXCEPT ![s] = st]
    BY <1>2, <2>0 DEF RemoveUnlessWriting
  <2>2. st \in State /\ st.handles = edge[s].handles /\ st.at = "select" /\ AtItsRequest(st) /\ Marked(st)
    BY <1>1, <2>0, RepliedState, RepliedSound DEF Replies
  <2>3. inodes \in Nat /\ inFolder \in [EdgeFiles -> 0 .. inodes]
    BY DEF WritersInv, EdgeTypeOK
  <2>4. inodes' \in Nat /\ inFolder' \in [EdgeFiles -> 0 .. inodes'] /\ OneName'
    <3>0. inodes' = inodes /\ 0 \in 0 .. inodes
      BY <1>1, <2>3
    <3>1. inodes' \in Nat /\ inFolder' \in [EdgeFiles -> 0 .. inodes']
      BY <2>1, <2>3, <3>0
    <3>2. \A g \in EdgeFiles : inFolder'[g] # 0 => inFolder'[g] = inFolder[g]
      BY <2>1, <2>3
    <3> QED BY <3>1, <3>2 DEF WritersInv, OneName
  <2>5. \A t \in EdgeIds : Files(edge[t].handles) \subseteq writers
    BY DEF WritersInv, AllHeld, Held
  <2>6. \A t \in EdgeIds : \A g \in Files(edge[t].handles) : inFolder'[g] = inFolder[g]
    BY <1>2, <2>1, <2>3, <2>5 DEF WritersInv, EdgeTypeOK
  <2>7. Held(st) = Held(edge[s])
    BY <1>1, <2>2 DEF Held
  <2>8. Held(edge[s]) \subseteq writers /\ writers \subseteq EdgeFiles
    BY <1>1 DEF WritersInv, AllHeld, EdgeTypeOK
  <2>9. Linked(st)'
    <3>1. \A h \in edge[s].handles : h.file \in Files(edge[s].handles)
      BY DEF Files
    <3>2. \A h \in edge[s].handles : inFolder'[h.file] = h.inode /\ h.inode # 0
      BY <1>1, <2>6, <3>1 DEF Sound, Linked
    <3> QED BY <2>2, <3>2 DEF Linked
  <2>10. Sound(st)'
    <3>1. HeldOnce(st)
      BY <1>1, <2>2 DEF Sound, HeldOnce
    <3> QED BY <2>2, <2>9, <3>1 DEF Sound, HeldOnce, AtItsRequest, Marked
  <2> QED BY <1>1, <2>1, <2>2, <2>4, <2>6, <2>7, <2>8, <2>10, SessionStep
<1>3. CASE f \in writers /\ edge[s].at = "unlink" /\ Inherits(edge[s], f) # {}
  BY <1>1, <1>3, TakeOverInv DEF RemoveUnlessWriting
<1>4. CASE f \in writers /\ ~(edge[s].at = "unlink" /\ Inherits(edge[s], f) # {})
  <2>1. UNCHANGED <<writers, inFolder>> /\ edge' = [edge EXCEPT ![s] = Replied(edge[s], "EBUSY")] /\ "EBUSY" \in Replies
    BY <1>4 DEF RemoveUnlessWriting, Replies
  <2> QED BY <1>1, <2>1, RepliedState, RepliedSound, QuietStep DEF SameOpen
<1> QED BY <1>2, <1>3, <1>4

-----------------------------------------------------------------------------
LEMMA NextWritersInv == WritersInv /\ [EdgeNext]_edgeVars => WritersInv'
<1> SUFFICES ASSUME WritersInv, [EdgeNext]_edgeVars PROVE WritersInv'
  OBVIOUS
<1>1. CASE UNCHANGED edgeVars \/ CloseDone
  BY <1>1 DEF edgeVars, CloseDone, WritersInv, EdgeTypeOK, Unborn, Sound, AtItsRequest, HeldOnce, Marked, Linked,
              Apart, AllHeld, OneName
<1>2. CASE GetWorker
  BY <1>2, GetWorkerInv
<1>3. CASE HandleDiscovery
  BY <1>3, HandleDiscoveryInv
<1>4. CASE ExpireSessions
  BY <1>4, ExpireSessionsInv
<1>5. CASE CloseServer
  BY <1>5, CloseServerInv
<1>6. ASSUME NEW s \in 1 .. born, WorkerStep(s) PROVE WritersInv'
  BY <1>6, HandleDataInv, LookUpFileInv, ReserveWriterInv, OpenReservedInv, CloseHandleInv, HandleWriteRequestInv,
     HandleWriteDataInv, LstatInv, RemoveUnlessWritingInv, WorkerLeavesInv, CloseStateInv DEF WorkerStep
<1> QED BY <1>1, <1>2, <1>3, <1>4, <1>5, <1>6 DEF EdgeNext

THEOREM WritersInvariant == EdgeSpec => []WritersInv
BY InitWritersInv, NextWritersInv, PTL DEF EdgeSpec

\* reserveWriter, TakeOverWriter and removeUnlessWriting: whatever the consoles do, and
\* however sessions expire, a file is open for writing once, through the file that is in
\* the folder, and a name is reserved exactly while a handle or an OPEN under way has it.
THEOREM OneWriterPerFile == EdgeSpec => []SingleWriter
BY WritersInvariant, InvIsSingleWriter, PTL

-----------------------------------------------------------------------------
\* A worker changes its own session only.
LEMMA WorkerChangesItsOwn ==
  ASSUME WritersInv, NEW t \in EdgeIds, WorkerStep(t), NEW s \in EdgeIds, s # t
  PROVE  edge'[s] = edge[s]
<1>1. edge \in [EdgeIds -> State]
  BY DEF WritersInv, EdgeTypeOK
<1>2. CASE HandleData(t) \/ LookUpFile(t) \/ ReserveWriter(t) \/ OpenReserved(t)
  BY <1>1, <1>2 DEF HandleData, LookUpFile, ReserveWriter, OpenReserved
<1>3. CASE CloseHandle(t) \/ HandleWriteRequest(t) \/ HandleWriteData(t)
  BY <1>1, <1>3 DEF CloseHandle, HandleWriteRequest, HandleWriteData
<1>4. CASE Lstat(t) \/ RemoveUnlessWriting(t) \/ WorkerLeaves(t) \/ CloseState(t)
  BY <1>1, <1>4 DEF Lstat, RemoveUnlessWriting, WorkerLeaves, CloseState
<1> QED BY <1>2, <1>3, <1>4 DEF WorkerStep

\* The others leave the replies of a session alone.
LEMMA OthersReplyNothing ==
  ASSUME WritersInv, NEW s \in EdgeIds,
         GetWorker \/ HandleDiscovery \/ ExpireSessions \/ CloseServer \/ CloseDone \/ UNCHANGED edgeVars
  PROVE  edge'[s].reply = edge[s].reply
<1>1. edge \in [EdgeIds -> State] /\ edge[s] \in State
  BY DEF WritersInv, EdgeTypeOK
<1>2. CASE GetWorker
  <2>1. born + 1 > born
    BY DEF WritersInv, EdgeTypeOK
  <2>2. s = born + 1 => edge[s] = NewState
    BY <2>1 DEF WritersInv, Unborn
  <2>3. edge' = [edge EXCEPT ![born + 1] = NewState]
    BY <1>2 DEF GetWorker
  <2> QED BY <1>1, <2>2, <2>3
<1>3. CASE HandleDiscovery
  <2>1. PICK t : edge' = [edge EXCEPT ![t] = Closed(@)]
    BY <1>3 DEF HandleDiscovery
  <2>2. Closed(edge[s]).reply = edge[s].reply
    BY <1>1 DEF Closed, State
  <2> QED BY <1>1, <2>1, <2>2
<1>4. CASE ExpireSessions
  <2>1. PICK t : edge' = [edge EXCEPT ![t].stopped = TRUE]
    BY <1>4 DEF ExpireSessions
  <2>2. [edge[s] EXCEPT !.stopped = TRUE].reply = edge[s].reply
    BY <1>1 DEF State
  <2> QED BY <1>1, <2>1, <2>2
<1>5. CASE CloseServer
  <2>1. \A b : [edge[s] EXCEPT !.stopped = b].reply = edge[s].reply
    BY <1>1 DEF State
  <2> QED BY <1>5, <2>1 DEF CloseServer
<1>6. CASE CloseDone \/ UNCHANGED edgeVars
  BY <1>6 DEF CloseDone, edgeVars
<1> QED BY <1>2, <1>3, <1>4, <1>5, <1>6

\* A file is refused as busy only by reserveWriter or removeUnlessWriting, when it is
\* reserved and there was nothing to take over.
LEMMA BusyStep ==
  ASSUME WritersInv, [EdgeNext]_edgeVars, NEW s \in EdgeIds, edge'[s].reply = "EBUSY",
         edge[s].at \in {"reserve", "again", "unlink", "unlinkagain"}
  PROVE  /\ edge[s].op.file \in writers
         /\ edge[s].at \in {"reserve", "unlink"} => Inherits(edge[s], edge[s].op.file) = {}
<1>1. edge[s] \in State /\ Sound(edge[s]) /\ edge \in [EdgeIds -> State]
  BY DEF WritersInv, EdgeTypeOK
<1>2. edge[s].reply = "none"
  BY <1>1 DEF Sound, AtItsRequest, Opening, Removing
<1>3. PICK t \in 1 .. born : WorkerStep(t)
  BY <1>2, OthersReplyNothing DEF EdgeNext
<1>4. t = s
  BY <1>2, <1>3, OfSession, WorkerChangesItsOwn
<1>5. ReserveWriter(s) \/ RemoveUnlessWriting(s)
  <2>1. ~HandleData(s) /\ ~LookUpFile(s) /\ ~OpenReserved(s) /\ ~CloseHandle(s) /\ ~HandleWriteData(s)
    BY DEF HandleData, LookUpFile, OpenReserved, CloseHandle, HandleWriteData
  <2>2. ~Lstat(s) /\ ~WorkerLeaves(s) /\ ~CloseState(s)
    BY DEF Lstat, WorkerLeaves, CloseState
  <2>3. ~HandleWriteRequest(s)
    BY <1>1 DEF HandleWriteRequest, State
  <2> QED BY <1>3, <1>4, <2>1, <2>2, <2>3 DEF WorkerStep
<1> DEFINE f == edge[s].op.file
<1>6. \A nt, a : nt \in State => [nt EXCEPT !.at = a].reply = nt.reply
  BY DEF State
<1>7. \A handles : Without(edge[s], handles).reply = edge[s].reply /\ (handles \subseteq edge[s].handles => Without(edge[s], handles) \in State)
  BY <1>1 DEF Without, State
<1>8. \A a : [Without(edge[s], Inherits(edge[s], f)) EXCEPT !.at = a].reply = "none"
  <2>1. Inherits(edge[s], f) \subseteq edge[s].handles
    BY DEF Inherits
  <2> QED BY <1>2, <1>6, <1>7, <2>1
<1>9. [edge[s] EXCEPT !.at = "openfile"].reply = "none"
  BY <1>1, <1>2, <1>6
<1>10. CASE ReserveWriter(s)
  BY <1>1, <1>8, <1>9, <1>10 DEF ReserveWriter
<1>11. CASE RemoveUnlessWriting(s)
  <2>1. \A r \in Replies : Replied(edge[s], r).reply = r
    BY <1>1, RepliedState
  <2>2. {"ENOENT", "ok"} \subseteq Replies
    BY DEF Replies
  <2> QED BY <1>1, <1>8, <1>11, <2>1, <2>2 DEF RemoveUnlessWriting
<1> QED BY <1>5, <1>10, <1>11

\* openForWrite and handleRemove: a loader that replaced another is refused a file only if
\* it opened the file itself or another session has it.
THEOREM TakenOverNotRefused == EdgeSpec => BusyIsReal
<1>1. ASSUME WritersInv, [EdgeNext]_edgeVars, NEW s \in EdgeIds, edge'[s].reply = "EBUSY",
             edge[s].at \in {"reserve", "again", "unlink", "unlinkagain"}
      PROVE  LET f == edge[s].op.file IN
             \/ \E h \in edge[s].handles : h.file = f /\ h.own
             \/ \E t \in EdgeIds \ {s} : f \in Reserved(edge[t].handles) \/ (edge[t].at = "openfile" /\ edge[t].op.file = f)
  <2> DEFINE f == edge[s].op.file
  <2>1. /\ f \in writers
        /\ edge[s].at \in {"reserve", "unlink"} => Inherits(edge[s], f) = {}
    BY <1>1, BusyStep
  <2>2. PICK t \in EdgeIds : f \in Held(edge[t])
    BY <1>1, <2>1 DEF WritersInv, AllHeld
  <2>3. edge[t] \in State /\ edge[s] \in State /\ Sound(edge[s])
    BY <1>1, <2>2 DEF WritersInv, EdgeTypeOK
  <2>4. CASE t # s
    <3>1. Reserved(edge[t].handles) = Files(edge[t].handles)
      BY <2>3, ReservedFiles DEF State
    <3> QED BY <2>2, <2>4, <3>1 DEF Held
  <2>5. CASE t = s
    <3>1. PICK h \in edge[s].handles : h.file = f
      BY <1>1, <2>2, <2>5 DEF Held, Files
    <3>2. h \in Handle
      BY <2>3, <3>1 DEF State
    <3>3. ~h.inherited
      BY <1>1, <2>1, <2>3, <3>1, <3>2 DEF Inherits, Sound, Marked, Handle
    <3>4. h.own
      BY <2>3, <3>1, <3>3 DEF Sound, Marked
    <3> QED BY <3>1, <3>4
  <2> QED BY <2>4, <2>5
<1>2. WritersInv /\ [EdgeNext]_edgeVars =>
        [\A s \in EdgeIds : edge'[s].reply = "EBUSY" /\ edge[s].at \in {"reserve", "again", "unlink", "unlinkagain"} =>
           LET f == edge[s].op.file IN
           \/ \E h \in edge[s].handles : h.file = f /\ h.own
           \/ \E t \in EdgeIds \ {s} : f \in Reserved(edge[t].handles) \/ (edge[t].at = "openfile" /\ edge[t].op.file = f)]_edgeVars
  BY <1>1
<1> QED BY <1>2, WritersInvariant, PTL DEF EdgeSpec, BusyIsReal
=============================================================================
