---------------------------- MODULE Smb2Session ----------------------------
(***************************************************************************)
(* One TCP connection of the SMB2/SMB3 server (smb2_server.py): the dialect *)
(* negotiation, the NTLM exchange and the signing key it yields, the trees   *)
(* and handles of the session, the credits a client may spend, the srvsvc     *)
(* pipe of IPC$, and _dispatch_all, which serves a message of one or several  *)
(* chained requests and sends their replies together.                         *)
(*                                                                           *)
(* A handler is an operator that gives the set of its outcomes: the changed   *)
(* Connection, the status of the reply and the handle it opened. What file    *)
(* operations do to the files is the subject of Smb2Files; here they succeed  *)
(* or fail. The client is a correct one: it negotiates first, sends no        *)
(* request it lacks the credits for, and chains only CREATE, QUERY_INFO,      *)
(* CLOSE. Signatures are the number of the key they were made with.           *)
(***************************************************************************)
EXTENDS Integers, Sequences, Functions

CONSTANTS
  Ceilings,       \* dialect ceilings the server may run with
  CREDIT_LIMIT,   \* most credits a client may hold (512)
  MaxTrees, MaxHandles,
  MaxSetups,      \* bound on the NTLM exchanges of one connection
  MaxOutbox       \* bound on the pieces of answers a client lets wait in a pipe

ASSUME SessionAssumption ==
  /\ Ceilings \subseteq {210, 302} /\ Ceilings # {}
  /\ CREDIT_LIMIT \in Nat \ {0} /\ MaxTrees \in Nat /\ MaxHandles \in Nat /\ MaxSetups \in Nat /\ MaxOutbox \in Nat

VARIABLES
  conn,      \* the Connection, with the settings of its server
  sent,      \* of the last message: the signatures of its replies, the handle its CREATE opened
  smbClient  \* what the client knows: its credits, its key, the challenge it was given

sessionVars == <<conn, sent, smbClient>>

NoSig == 0
BadSig == -1
COMPOUND_FILE_ID == -1
SMB1 == 1          \* a dialect of the SMB1 family, offered in an SMB1 frame
WILDCARD == 767    \* 0x02FF, "SMB 2.???"
NoFile == [kind |-> "file", bound |-> FALSE, outbox |-> 0]
Larger(a, b) == IF a > b THEN a ELSE b
Smaller(a, b) == IF a < b THEN a ELSE b

-----------------------------------------------------------------------------
(* Outcomes.                                                                *)

Done(c, st) == {[c |-> c, st |-> st, fid |-> 0]}
Refused(c, st) == Done(c, st)
Opened(c, kind) ==
  {[c |-> [c EXCEPT !.handles = [f \in DOMAIN @ \cup {c.nextHandle} |->
                                   IF f = c.nextHandle THEN [NoFile EXCEPT !.kind = kind] ELSE @[f]],
                    !.nextHandle = @ + 1],
    st |-> "SUCCESS", fid |-> c.nextHandle]}

\* close_all
close_all(c) == [c EXCEPT !.handles = <<>>]

\* _tree: the session, then the tree, then whether it is of the right kind.
TreeError(c, r, ipc_ok) ==
  IF ~c.authenticated THEN "USER_SESSION_DELETED"
  ELSE IF r.tree \notin DOMAIN c.trees THEN "NETWORK_NAME_DELETED"
  ELSE IF c.trees[r.tree] = "ipc" /\ ~ipc_ok THEN "INVALID_DEVICE_REQUEST" ELSE "none"

\* handle_from: the placeholder of a related compound is the file its CREATE opened.
FileId(c, r) == IF r.fid = COMPOUND_FILE_ID /\ c.compound # 0 THEN c.compound ELSE r.fid
IsOpen(c, r) == FileId(c, r) \in DOMAIN c.handles
Handle(c, r) == c.handles[FileId(c, r)]

\* A handler that asks for the tree and the handle before it does anything else.
WithFile(c, r, ipc_ok, outcomes) ==
  IF TreeError(c, r, ipc_ok) # "none" THEN Refused(c, TreeError(c, r, ipc_ok))
  ELSE IF ~IsOpen(c, r) THEN Refused(c, "FILE_CLOSED") ELSE outcomes

-----------------------------------------------------------------------------
(* Negotiation and the session.                                              *)

\* pick_dialect: 3.1.1 is never chosen.
pick_dialect(offered, ceiling) ==
  LET usable == {d \in offered : d <= ceiling /\ d \in {202, 210, 300, 302}}
  IN  IF usable = {} THEN 0 ELSE CHOOSE d \in usable : \A e \in usable : e <= d

h_negotiate(c, r) ==
  LET d == pick_dialect(r.offer, c.ceiling)
      claimed == [c EXCEPT !.claims = r.offer]
  IN  IF d = 0 THEN Refused(claimed, "NOT_SUPPORTED") ELSE Done([claimed EXCEPT !.dialect = d], "SUCCESS")

\* _not_smb2: 0x02FF asks the client for a real NEGOTIATE and settles nothing.
NotSmb2(c, offered) ==
  CASE WILDCARD \in offered -> [c |-> [c EXCEPT !.credits = @ + 1], answered |-> TRUE]
    [] WILDCARD \notin offered /\ 202 \in offered ->
         [c |-> [c EXCEPT !.credits = @ + 1, !.dialect = 202], answered |-> TRUE]
    [] OTHER -> [c |-> c, answered |-> FALSE]

\* h_session_setup, first round: a new challenge; the key of an earlier exchange goes.
SetupNegotiate(c, r) ==
  Done([c EXCEPT !.challenge = c.challenges + 1, !.challenges = @ + 1,
                 !.key = 0, !.signing_required = FALSE], "MORE_PROCESSING_REQUIRED")

\* Authenticator.verify and verify_mic: an answer is a proof of the challenge it was made for.
Proves(c, r) == r.proof = c.challenge /\ r.arg = "good"

\* h_session_setup, second round.
SetupAuthenticate(c, r) ==
  LET in == [c EXCEPT !.authenticated = TRUE, !.challenge = 0]
  IN  IF c.challenge = 0 THEN Refused(c, "LOGON_FAILURE")
      ELSE IF r.arg = "anonymous" THEN IF c.isOpen THEN Done(in, "SUCCESS") ELSE Refused(c, "LOGON_FAILURE")
      ELSE IF c.isOpen THEN Done(in, "SUCCESS")
      ELSE IF ~Proves(c, r) THEN Refused(c, "LOGON_FAILURE")
      ELSE Done([in EXCEPT !.key = c.challenge, !.signing_required = r.required], "SUCCESS")

\* The key stays, for the reply is signed after the handler returned.
h_logoff(c, r) == Done([close_all(c) EXCEPT !.authenticated = FALSE, !.trees = <<>>], "SUCCESS")

h_tree_connect(c, r) ==
  IF ~c.authenticated THEN Refused(c, "USER_SESSION_DELETED")
  ELSE IF r.arg = "unknown" THEN Refused(c, "BAD_NETWORK_NAME")
  ELSE Done([c EXCEPT !.trees = [t \in DOMAIN @ \cup {c.nextTree} |-> IF t = c.nextTree THEN r.arg ELSE @[t]],
                      !.nextTree = @ + 1], "SUCCESS")

h_tree_disconnect(c, r) ==
  Done([c EXCEPT !.trees = [t \in DOMAIN @ \ {r.tree} |-> @[t]]], "SUCCESS")

-----------------------------------------------------------------------------
(* Files and the pipe.                                                       *)

\* h_create and _create_pipe
h_create(c, r) ==
  IF TreeError(c, r, TRUE) # "none" THEN Refused(c, TreeError(c, r, TRUE))
  ELSE Refused(c, "OBJECT_NAME_NOT_FOUND")
       \cup Opened(c, IF c.trees[r.tree] = "ipc" THEN "pipe" ELSE "file")

h_close(c, r) ==
  WithFile(c, r, TRUE,
    Done([c EXCEPT !.handles = [f \in DOMAIN @ \ {FileId(c, r)} |-> @[f]]], "SUCCESS"))

\* h_query_info, h_query_directory, h_set_info, h_flush: they leave the tables alone.
FileQuery(c, r) == WithFile(c, r, FALSE, Done(c, "SUCCESS") \cup Refused(c, "INVALID_PARAMETER"))

\* SrvsvcPipe.transact: what a request PDU does to the pipe, and the pieces of
\* its answer (the share list is longer than the client's buffer).
transact(p, pdu) ==
  CASE pdu = "bind" -> [p |-> [p EXCEPT !.bound = TRUE], n |-> 1]
    [] pdu = "share_enum" -> [p |-> p, n |-> IF p.bound THEN 2 ELSE 1]
    [] OTHER -> [p |-> p, n |-> 0]

SetPipe(c, r, p) == [c EXCEPT !.handles[FileId(c, r)] = p]

\* h_read: of the pipe, up to a buffer of what waits in it.
h_read(c, r) ==
  WithFile(c, r, TRUE,
    LET p == Handle(c, r)
    IN  IF p.kind # "pipe" THEN Done(c, "SUCCESS") \cup Refused(c, "END_OF_FILE")
        ELSE IF p.outbox = 0 THEN Refused(c, "PIPE_EMPTY")
        ELSE Done(SetPipe(c, r, [p EXCEPT !.outbox = @ - 1]),
                  IF p.outbox > 1 THEN "BUFFER_OVERFLOW" ELSE "SUCCESS"))

\* h_write: to the pipe, the answer waits for a READ. A PDU it cannot read is refused.
h_write(c, r) ==
  WithFile(c, r, TRUE,
    LET p == Handle(c, r)
        t == transact(p, r.arg)
    IN  IF p.kind # "pipe" THEN Done(c, "SUCCESS") \cup Refused(c, "MEDIA_WRITE_PROTECTED")
        ELSE IF t.n = 0 THEN Refused(c, "INVALID_PARAMETER")
        ELSE Done(SetPipe(c, r, [t.p EXCEPT !.outbox = @ + t.n]), "SUCCESS"))

\* h_ioctl with FSCTL_PIPE_TRANSCEIVE: one buffer at once, the rest waits.
Transceive(c, r) ==
  WithFile(c, r, TRUE,
    LET p == Handle(c, r)
        t == transact(p, r.arg)
    IN  IF p.kind # "pipe" THEN Refused(c, "INVALID_DEVICE_REQUEST")
        ELSE IF t.n = 0 THEN Refused(c, "INVALID_PARAMETER")
        ELSE Done(SetPipe(c, r, [t.p EXCEPT !.outbox = @ + t.n - 1]),
                  IF t.n > 1 THEN "BUFFER_OVERFLOW" ELSE "SUCCESS"))

\* h_ioctl with FSCTL_VALIDATE_NEGOTIATE_INFO: another NEGOTIATE than the one
\* that came ends the connection.
validate_negotiate_info(c, r) ==
  IF TreeError(c, r, TRUE) # "none" THEN Refused(c, TreeError(c, r, TRUE))
  ELSE IF c.claims = {} \/ r.offer # c.claims THEN Refused([c EXCEPT !.terminate = TRUE], "ACCESS_DENIED") ELSE Done(c, "SUCCESS")

\* _HANDLERS
Dispatch(c, r) ==
  CASE r.cmd = "NEGOTIATE" -> h_negotiate(c, r)
    [] r.cmd = "SETUP_NEGOTIATE" -> SetupNegotiate(c, r)
    [] r.cmd = "SETUP_AUTHENTICATE" -> SetupAuthenticate(c, r)
    [] r.cmd = "LOGOFF" -> h_logoff(c, r)
    [] r.cmd = "TREE_CONNECT" -> h_tree_connect(c, r)
    [] r.cmd = "TREE_DISCONNECT" -> h_tree_disconnect(c, r)
    [] r.cmd = "CREATE" -> h_create(c, r)
    [] r.cmd = "CLOSE" -> h_close(c, r)
    [] r.cmd = "QUERY" -> FileQuery(c, r)
    [] r.cmd = "READ" -> h_read(c, r)
    [] r.cmd = "WRITE" -> h_write(c, r)
    [] r.cmd = "TRANSCEIVE" -> Transceive(c, r)
    [] r.cmd = "VALIDATE" -> validate_negotiate_info(c, r)
    [] r.cmd = "ECHO" -> Done(c, "SUCCESS")
    [] r.cmd = "CANCEL" -> Done(c, "none")
    [] OTHER -> Refused(c, "NOT_SUPPORTED")

-----------------------------------------------------------------------------
(* _dispatch_all.                                                            *)

\* _signature_check: TRUE when the request may be served.
SignatureFits(c, r) ==
  \/ c.key = 0
  \/ r.sig = c.key
  \/ r.sig = NoSig /\ (~c.signing_required \/ r.cmd \in {"NEGOTIATE", "SETUP_NEGOTIATE", "SETUP_AUTHENTICATE", "CANCEL"})

\* _should_sign: the key a reply is signed with, when it is packed.
SigningKey(c, r, st) ==
  IF c.key # 0 /\ st # "MORE_PROCESSING_REQUIRED" /\ (c.signing_required \/ r.sig # NoSig) THEN c.key ELSE NoSig

\* Mutant: every request is taken for one credit.
SpendOne(c, r) == IF r.cmd = "NEGOTIATE" THEN c.credits ELSE Larger(0, c.credits - 1)

\* _grant_credits: a NEGOTIATE spends nothing, and there is always one for the reply.
Spend(c, r) == IF r.cmd = "NEGOTIATE" THEN c.credits ELSE Larger(0, c.credits - Larger(1, r.charge))
Grant(c, r) == Larger(1, Smaller(Larger(1, r.want), CREDIT_LIMIT - Spend(c, r)))

Failed(st) == st \notin {"none", "SUCCESS"}

\* What becomes of one request: the failure of the one it is related to, a
\* refused signature, or what its handler says.
Outcomes(c, r, prev) ==
  IF r.related /\ prev # "first" /\ Failed(prev) THEN Refused(c, prev)
  ELSE IF ~SignatureFits(c, r) THEN Refused(c, "ACCESS_DENIED")
  ELSE Dispatch(c, r)

\* One request: what it does, the credits it costs and is granted, its reply.
ServeOne(s, r) ==
  {LET c == [out.c EXCEPT !.compound = IF r.cmd = "CREATE" /\ out.st = "SUCCESS" THEN out.fid ELSE @]
       grant == Grant(c, r)
   IN  [c |-> [c EXCEPT !.credits = Spend(c, r) + grant], prev |-> out.st,
        list |-> IF out.st = "none" THEN s.list ELSE Append(s.list, [r |-> r, st |-> out.st, grant |-> grant])] :
     out \in Outcomes(s.c, r, s.prev)}

\* _dispatch_all: the requests of a message one after the other.
DispatchAll(c, m) ==
  LET upto[i \in 0 .. Len(m)] ==
        IF i = 0 THEN {[c |-> [c EXCEPT !.compound = 0], prev |-> "first", list |-> <<>>]}
        ELSE UNION {ServeOne(s, m[i]) : s \in upto[i - 1]}
  IN  upto[Len(m)]

\* What the client makes of the reply e: its credits, the challenge, its key (there is one when key is not 0).
Learn(k, e, key) ==
  LET paid == [k EXCEPT !.credits = @ + e.grant]
  IN  CASE e.r.cmd = "NEGOTIATE" -> [paid EXCEPT !.negotiated = IF e.st = "SUCCESS" THEN "yes" ELSE "refused"]
        [] e.r.cmd = "SETUP_NEGOTIATE" -> [paid EXCEPT !.challenge = @ + 1, !.key = 0, !.required = FALSE]
        [] e.r.cmd = "SETUP_AUTHENTICATE" /\ e.st = "SUCCESS" ->
             [paid EXCEPT !.key = IF key # 0 THEN e.r.proof ELSE 0, !.required = IF key # 0 THEN e.r.required ELSE FALSE]
        [] OTHER -> paid

\* What it makes of the replies to a message.
LearnAll(k, list, key) ==
  LET learnt[i \in 0 .. Len(list)] == IF i = 0 THEN k ELSE Learn(learnt[i - 1], list[i], key)
  IN  learnt[Len(list)]

-----------------------------------------------------------------------------
(* The client.                                                               *)

Req(cmd) == [cmd |-> cmd, arg |-> "none", offer |-> {}, tree |-> 0, fid |-> 0, proof |-> 0, required |-> FALSE,
             related |-> FALSE, sig |-> NoSig, charge |-> 1, want |-> 1]

Signatures == IF smbClient.key = 0 THEN {NoSig} ELSE {NoSig, smbClient.key, BadSig}

\* Requests of a session, signed or not, rightly or wrongly.
Sealed(cmds, args, trees, fids) ==
  [cmd : cmds, arg : args, offer : {{}}, tree : trees, fid : fids, proof : {0}, required : {FALSE},
   related : {FALSE}, sig : Signatures, charge : {1}, want : {1}]

Setups ==
  (IF conn.challenges < MaxSetups THEN {Req("SETUP_NEGOTIATE")} ELSE {})
  \cup [cmd : {"SETUP_AUTHENTICATE"}, arg : {"good", "bad", "anonymous"}, offer : {{}}, tree : {0}, fid : {0},
        proof : {smbClient.challenge}, required : BOOLEAN, related : {FALSE}, sig : {NoSig}, charge : {1}, want : {1}]

\* A CANCEL asks for nothing: whatever the server would grant it, no reply carries.
Cancels == {[Req("CANCEL") EXCEPT !.charge = 0, !.sig = s, !.want = 0] : s \in {NoSig, smbClient.key}}

Trees == 0 .. MaxTrees
FileIds == 1 .. MaxHandles

\* An ECHO asks for more credits, a READ costs two.
Requests ==
  Sealed({"LOGOFF", "LOCK"}, {"none"}, {0}, {0})
  \cup {[r EXCEPT !.want = 3] : r \in Sealed({"ECHO"}, {"none"}, {0}, {0})}
  \cup (IF conn.nextTree <= MaxTrees THEN Sealed({"TREE_CONNECT"}, {"ipc", "disk", "unknown"}, {0}, {0}) ELSE {})
  \cup Sealed({"TREE_DISCONNECT"}, {"none"}, Trees \ {0}, {0})
  \cup (IF conn.nextHandle <= MaxHandles THEN Sealed({"CREATE"}, {"none"}, Trees, {0}) ELSE {})
  \cup Sealed({"CLOSE", "QUERY"}, {"none"}, Trees, FileIds)
  \cup {[r EXCEPT !.charge = 2] : r \in Sealed({"READ"}, {"none"}, Trees \ {0}, FileIds)}
  \cup Sealed({"WRITE", "TRANSCEIVE"}, {"bind", "share_enum", "junk"}, Trees \ {0},
              {f \in FileIds : f \in DOMAIN conn.handles => conn.handles[f].outbox < MaxOutbox})
  \cup UNION {{[r EXCEPT !.offer = a] : r \in Sealed({"VALIDATE"}, {"none"}, Trees \ {0}, {0})} : a \in {conn.claims, {311}}}

\* How libsmb2 looks at a file: CREATE, QUERY_INFO, CLOSE in one message.
Stat(t, s) ==
  <<[Req("CREATE") EXCEPT !.tree = t, !.sig = s, !.want = 3],
    [Req("QUERY") EXCEPT !.tree = t, !.fid = COMPOUND_FILE_ID, !.sig = s, !.related = TRUE],
    [Req("CLOSE") EXCEPT !.tree = t, !.fid = COMPOUND_FILE_ID, !.sig = s, !.related = TRUE]>>
Compounds == UNION {{Stat(t, s) : s \in Signatures} : t \in Trees \ {0}}

\* The dialects a client may speak, and the credits it asks for.
Negotiates ==
  UNION {{[Req("NEGOTIATE") EXCEPT !.offer = o, !.want = w] : w \in {1, 4}} : o \in {{202, 210}, {300, 302, 311}, {311}}}

\* A client none of whose dialects is spoken here gives up.
Messages ==
  IF smbClient.negotiated = "refused" THEN {}
  ELSE IF smbClient.negotiated # "yes"
  THEN {<<r>> : r \in Negotiates}
  ELSE {<<r>> : r \in Requests \cup Setups \cup Cancels}
       \cup (IF conn.nextHandle <= MaxHandles THEN Compounds ELSE {})

\* What a message costs the client; a CANCEL is free.
Charge(m) ==
  LET of(r) == IF r.cmd = "CANCEL" THEN 0 ELSE Larger(1, r.charge)
      upto[i \in 0 .. Len(m)] == IF i = 0 THEN 0 ELSE upto[i - 1] + of(m[i])
  IN  upto[Len(m)]

-----------------------------------------------------------------------------
(* The connection.                                                           *)

\* A message is served and its replies leave together, each signed on its own
\* after the last request was served; a client that told another story about
\* its NEGOTIATE is hung up on.
ServeMessage ==
  /\ conn.up
  /\ \E m \in Messages : \E out \in DispatchAll(conn, m) :
       LET c == out.c
       IN  /\ Charge(m) <= smbClient.credits
           /\ smbClient' = LearnAll([smbClient EXCEPT !.credits = @ - Charge(m)], out.list, c.key)
           /\ sent' = [sigs |-> {SigningKey(c, e.r, e.st) : e \in {e \in Range(out.list) : e.st # "MORE_PROCESSING_REQUIRED"}},
                       opened |-> IF Len(m) > 1 THEN c.compound ELSE 0]
           /\ conn' = [(IF c.terminate THEN close_all(c) ELSE c) EXCEPT !.compound = 0, !.up = ~c.terminate]

\* A first frame that is not SMB2 is answered with an SMB2 NEGOTIATE, or not at all.
ServeSmb1 ==
  /\ conn.up /\ smbClient.negotiated = "no"
  /\ \E offered \in {{SMB1}, {SMB1, 202}, {SMB1, 202, WILDCARD}} :
       LET out == NotSmb2(conn, offered)
       IN  /\ conn' = out.c
           /\ smbClient' = [smbClient EXCEPT !.negotiated = IF ~out.answered THEN "refused"
                                                            ELSE IF out.c.dialect = 202 THEN "yes" ELSE "again"]
  /\ UNCHANGED sent

\* The client hangs up, resets the connection, or the server stops: the
\* finally clause of _serve_client.
Disconnect ==
  /\ conn.up
  /\ conn' = [close_all(conn) EXCEPT !.up = FALSE]
  /\ UNCHANGED <<sent, smbClient>>

-----------------------------------------------------------------------------
SessionInit ==
  /\ conn \in [ceiling : Ceilings, isOpen : BOOLEAN, dialect : {0}, claims : {{}}, challenge : {0}, challenges : {0},
               authenticated : {FALSE}, key : {0}, signing_required : {FALSE}, trees : {<<>>}, nextTree : {1},
               handles : {<<>>}, nextHandle : {1}, credits : {0}, compound : {0}, terminate : {FALSE}, up : {TRUE}]
  /\ sent = [sigs |-> {}, opened |-> 0]
  /\ smbClient = [credits |-> 1, negotiated |-> "no", challenge |-> 0, key |-> 0, required |-> FALSE]

SessionNext == ServeMessage \/ ServeSmb1 \/ Disconnect

SessionSpec == SessionInit /\ [][SessionNext]_sessionVars

-----------------------------------------------------------------------------
(* Properties.                                                              *)

\* _grant_credits keeps the books: between two messages the client holds what
\* the server believes it does (one less when it came with an SMB1 frame,
\* whose NEGOTIATE the server does not charge), never more than the limit, and
\* always enough for one more request: a client without credits says nothing
\* and hangs.
CreditsAgree ==
  (conn.up /\ smbClient.negotiated = "yes") =>
     /\ smbClient.credits \in {conn.credits, conn.credits - 1}
     /\ smbClient.credits \in 1 .. CREDIT_LIMIT

\* _should_sign and the key h_logoff leaves in place: a client that declared
\* signing required and has its key gets every reply signed with that key,
\* the refusals and the LOGOFF included.
SignedToTheClient ==
  (smbClient.required /\ smbClient.key # 0) => sent.sigs \subseteq {smbClient.key}

\* h_logoff and the guards of every handler: without a session there is no
\* tree and no open handle, and a connection that ended holds no handle.
NothingOutlivesTheSession ==
  /\ ~conn.authenticated => conn.trees = <<>> /\ conn.handles = <<>>
  /\ ~conn.up => conn.handles = <<>>

\* What the client of a connection counts on holds at every reply it reads: credits,
\* signatures and, once its session ended, nothing left open.
ClientInStep == CreditsAgree /\ SignedToTheClient /\ NothingOutlivesTheSession

-----------------------------------------------------------------------------
(* What the code or its comments lead one to expect and the code does not  *)
(* do (README, Observations). No run checks these.                          *)

\* The comment in _dispatch_all: a related request of a compound fails only when
\* the file it would act on was never opened. So a message that opens a file
\* and ends with its CLOSE leaves no handle behind.
CompoundLeavesNoHandle == sent.opened \notin DOMAIN conn.handles
=============================================================================
