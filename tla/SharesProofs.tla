---------------------------- MODULE SharesProofs ----------------------------
(***************************************************************************)
(* What the file servers promise for every number of connections, handles,     *)
(* names, threads and bytes: the stream of an HTTP connection, the index of    *)
(* the HTTP server and the rows it serves, the folders of UDPFS, the searches,  *)
(* listings and creations of the two SMB servers, what the client of an SMB2    *)
(* connection counts on, port 445 on its way back to Windows, and links among   *)
(* the files of UDPFS. Each has its own inductive invariant; they share no      *)
(* state.                                                                      *)
(***************************************************************************)
EXTENDS HttpHandler, HttpIndex, UdpfsDirectory, UdpfsPaths, Smb1Server, Smb2Files, Smb2Session, Port445, FiniteSetTheorems, WellFoundedInduction, TLAPS

-----------------------------------------------------------------------------
(* Sets of numbers, and sets as sequences.                                   *)

\* A set of numbers has a smallest one.
LEMMA SmallestOf ==
  ASSUME NEW S, S \subseteq Nat, S # {}
  PROVE  \E m \in S : \A k \in S : m <= k
<1>1. PICK m \in S : \A y \in S : ~(<<y, m>> \in OpToRel(<, Nat))
  BY WFMin, NatLessThanWellFounded
<1>2. ASSUME NEW k \in S PROVE m <= k
  <2>1. m \in Nat /\ k \in Nat
    OBVIOUS
  <2>2. <<k, m>> \notin OpToRel(<, Nat)
    BY <1>1
  <2>3. ~ (k < m)
    BY <2>1, <2>2 DEF OpToRel
  <2> QED BY <2>1, <2>3
<1> QED BY <1>2

\* A finite set as a sequence has every one of its elements, once.
LEMMA SequenceOfSet ==
  ASSUME NEW S, IsFiniteSet(S), NEW s, s = SetToSeq(S)
  PROVE  /\ s \in Seq(S) /\ (\A i, j \in DOMAIN s : i # j => s[i] # s[j])
         /\ (\A x \in S : \E i \in DOMAIN s : s[i] = x)
<1>1. Cardinality(S) \in Nat /\ ExistsBijection(1..Cardinality(S), S)
  BY FS_CardinalityType
<1>2. PICK f \in [1..Cardinality(S) -> S] : IsInjective(f)
  BY <1>1 DEF ExistsBijection, Bijection, Injection
<1>3. s \in [1..Cardinality(S) -> S] /\ IsInjective(s)
  BY <1>2 DEF SetToSeq
<1>4. s \in Seq(S)
  BY <1>1, <1>3
<1>5. \A i, j \in DOMAIN s : i # j => s[i] # s[j]
  BY <1>3 DEF IsInjective
<1>6. s \in Injection(1..Cardinality(S), S)
  BY <1>3, <1>5 DEF Injection, IsInjective
<1>7. Cardinality(1..Cardinality(S)) = Cardinality(S)
  BY <1>1, FS_Interval
<1>8. s \in Surjection(1..Cardinality(S), S)
  BY <1>6, <1>7, FS_Injection
<1>9. \A x \in S : \E i \in DOMAIN s : s[i] = x
  BY <1>3, <1>8 DEF Surjection
<1> QED BY <1>4, <1>5, <1>9

\* Numbers in order: every one of them, once.
HasEach(s, S) ==
  /\ s \in Seq(S) /\ (\A i, j \in DOMAIN s : i # j => s[i] # s[j])
  /\ (\A x \in S : \E i \in DOMAIN s : s[i] = x)
LEMMA SortedHasEach ==
  ASSUME NEW S, IsFiniteSet(S), S \subseteq Nat, NEW s, s = Sorted(S)
  PROVE  HasEach(s, S)
<1>1. PICK n \in Nat : n = Cardinality(S)
  BY FS_CardinalityType
<1> DEFINE Lower(x) == {m \in S : m < x}
<1>2. PICK rank : rank = [x \in S |-> Cardinality(Lower(x)) + 1]
  OBVIOUS
<1>3. \A x \in S : IsFiniteSet(Lower(x)) /\ Cardinality(Lower(x)) \in Nat /\ rank[x] = Cardinality(Lower(x)) + 1
  <2> TAKE x \in S
  <2>1. IsFiniteSet(Lower(x))
    BY FS_Subset
  <2> QED BY <1>2, <2>1, FS_CardinalityType
<1>4. \A x, y \in S : x < y => rank[x] < rank[y]
  <2> SUFFICES ASSUME NEW x \in S, NEW y \in S, x < y PROVE rank[x] < rank[y]
    OBVIOUS
  <2>1. x \in Nat /\ y \in Nat /\ \A m \in S : m \in Nat
    OBVIOUS
  <2>2. Lower(x) \in SUBSET Lower(y) /\ x \in Lower(y) /\ x \notin Lower(x)
    <3>1. \A m \in S : m < x => m < y
      BY <2>1
    <3>2. ~ (x < x)
      BY <2>1
    <3>3. Lower(x) \in SUBSET Lower(y)
      BY <3>1
    <3>4. x \in Lower(y)
      BY <2>1
    <3>5. x \notin Lower(x)
      BY <3>2
    <3> QED BY <3>3, <3>4, <3>5
  <2> HIDE DEF Lower
  <2>3. Cardinality(Lower(x)) <= Cardinality(Lower(y)) /\ Cardinality(Lower(x)) # Cardinality(Lower(y))
    BY <1>3, <2>2, FS_Subset
  <2> QED BY <1>3, <2>3
<1>5. \A x \in S : rank[x] \in 1 .. n
  <2> TAKE x \in S
  <2>1. IsFiniteSet(S \ {x}) /\ Cardinality(S \ {x}) = n - 1
    BY <1>1, FS_RemoveElement
  <2>2. Lower(x) \in SUBSET (S \ {x})
    OBVIOUS
  <2> HIDE DEF Lower
  <2>3. Cardinality(Lower(x)) <= n - 1
    BY <2>1, <2>2, FS_Subset
  <2> QED BY <1>3, <2>3
<1>6. rank \in Injection(S, 1 .. n)
  <2>1. \A x, y \in S : rank[x] = rank[y] => x = y
    <3> SUFFICES ASSUME NEW x \in S, NEW y \in S, rank[x] = rank[y], x # y PROVE FALSE
      OBVIOUS
    <3>1. x < y \/ y < x
      OBVIOUS
    <3> QED BY <1>4, <1>5, <3>1
  <2>2. rank \in [S -> 1 .. n]
    BY <1>2, <1>5
  <2> QED BY <2>1, <2>2 DEF Injection, IsInjective
<1>7. IsFiniteSet(1 .. n) /\ Cardinality(1 .. n) = n
  BY FS_Interval
<1>8. rank \in Surjection(S, 1 .. n)
  BY <1>1, <1>6, <1>7, FS_Injection
<1>9. s = [i \in 1 .. n |-> CHOOSE x \in S : Cardinality(Lower(x)) = i - 1]
  BY <1>1 DEF Sorted
<1> HIDE DEF Lower
<1>10. \A i \in 1 .. n : s[i] \in S /\ rank[s[i]] = i
  <2> TAKE i \in 1 .. n
  <2>1. \E x \in S : rank[x] = i
    BY <1>8 DEF Surjection
  <2>2. \E x \in S : Cardinality(Lower(x)) = i - 1
    BY <1>3, <2>1
  <2>3. s[i] \in S /\ Cardinality(Lower(s[i])) = i - 1
    BY <1>9, <2>2
  <2>4. PICK v \in S : v = s[i] /\ Cardinality(Lower(v)) = i - 1
    BY <2>3
  <2>5. rank[v] = Cardinality(Lower(v)) + 1
    BY <1>3
  <2>6. rank[v] = i
    BY ONLY <2>4, <2>5, i \in 1 .. n, n \in Nat
  <2> QED BY <2>4, <2>6
<1>11. s \in Seq(S) /\ DOMAIN s = 1 .. n
  <2>1. s \in [1 .. n -> S]
    BY <1>9, <1>10
  <2> QED BY <2>1
<1>12. \A i, j \in DOMAIN s : i # j => s[i] # s[j]
  BY <1>10, <1>11
<1>13. ASSUME NEW x \in S PROVE \E i \in DOMAIN s : s[i] = x
  <2>1. rank[x] \in 1 .. n /\ s[rank[x]] \in S /\ rank[s[rank[x]]] = rank[x]
    BY <1>5, <1>10
  <2>2. s[rank[x]] = x
    BY <1>6, <2>1 DEF Injection, IsInjective
  <2> QED BY <1>11, <2>1, <2>2
<1> QED BY <1>11, <1>12, <1>13 DEF HasEach

-----------------------------------------------------------------------------
(* HttpHandler: the stream of a keep-alive connection stays in step.         *)

StreamItems == [item : {"header", "byte"}, status : Nat, offset : Int]

HandlerOK(h) ==
  /\ DOMAIN h = {"pc", "offset", "left", "cached", "closing"}
  /\ h.pc \in {"idle", "dispatch", "open", "sendfile", "copy", "closed"}
  /\ h.offset \in Nat /\ h.left \in Nat
  /\ h.pc # "closed" => h.closing = FALSE
  /\ h.pc \in {"open", "sendfile", "copy"} => h.left >= 1

DriverOK(d) ==
  /\ DOMAIN d = {"pc", "kind", "offset", "count", "got"}
  /\ d.pc \in {"idle", "asked", "reading", "done", "failed"} /\ d.kind \in {"none", "range", "list", "head", "other"}
  /\ d.offset \in Nat /\ d.count \in Nat /\ d.got \in Seq(StreamItems)

\* What a connection that goes on holds for its driver: the header, and the bytes that with
\* those read and those to come are as many as were asked for.
InStep(h, d, s) ==
  CASE h.pc = "dispatch" -> d.pc = "asked" /\ d.kind # "none" /\ s = <<>> /\ d.got = <<>> /\ (d.kind = "range" => d.count >= 1)
    [] h.pc \in {"open", "sendfile", "copy"} ->
         /\ d.kind = "range" /\ d.pc \in {"asked", "reading"}
         /\ d.pc = "asked" => s # <<>> /\ Head(s) = Header(206) /\ d.got = <<>> /\ Len(s) - 1 + h.left = d.count
         /\ d.pc = "reading" => Len(d.got) + Len(s) + h.left = d.count
    [] h.pc = "idle" ->
         /\ d.pc \in {"idle", "done"} => s = <<>>
         /\ d.pc = "reading" => Len(d.got) + Len(s) = d.count /\ Len(d.got) < d.count
         /\ d.pc = "asked" => /\ s # <<>> /\ d.got = <<>>
                              /\ Head(s) = Header(206) /\ d.kind = "range" => Len(s) - 1 = d.count /\ d.count >= 1
                              /\ Head(s) = Header(200) => Len(s) = 1
    [] OTHER -> TRUE

HttpInv ==
  /\ gameFile \in Nat \ {0} /\ entrySize \in Nat
  /\ HandlerOK(handler) /\ DriverOK(driver) /\ stream \in Seq(StreamItems)
  /\ InStep(handler, driver, stream)

LEMMA ItemTypes == /\ \A st \in Nat : Header(st) \in StreamItems
                   /\ \A o \in Int : Byte(o) \in StreamItems
                   /\ Header(206) # Header(200) /\ Header(416) \notin {Header(206), Header(200)} /\ Header(404) \notin {Header(206), Header(200)}
BY DEF Header, Byte, StreamItems

LEMMA TextTypes == Text \in Seq(StreamItems)
BY HttpHandlerAssumption, ItemTypes DEF Text

LEMMA BytesTypes ==
  ASSUME NEW from \in Nat, NEW n \in Nat
  PROVE  Bytes(from, n) \in Seq(StreamItems) /\ Len(Bytes(from, n)) = n
BY ItemTypes DEF Bytes

LEMMA FinishedOK ==
  ASSUME NEW h, HandlerOK(h), NEW g, g = Finished(h)
  PROVE  HandlerOK(g) /\ g.pc = (IF h.closing THEN "closed" ELSE "idle") /\ g.left = 0
BY DEF Finished, HandlerOK

LEMMA DriverSteps ==
  ASSUME HttpInv, Ask \/ TakeHeader \/ TakeByte \/ NextRead \/ Reconnect
  PROVE  HttpInv'
<1>1. /\ gameFile \in Nat \ {0} /\ entrySize \in Nat
      /\ HandlerOK(handler) /\ DriverOK(driver) /\ stream \in Seq(StreamItems)
      /\ InStep(handler, driver, stream)
  BY DEF HttpInv
<1>2. CASE Ask
  <2>1. PICK kind \in {"range", "list", "head", "other"}, offset \in 0 .. MaxSize - 1, count \in 1 .. MaxSize :
          driver' = Request(kind, offset, count)
    BY <1>2 DEF Ask
  <2>2. /\ driver.pc = "idle" /\ handler.pc = "idle" /\ handler' = [handler EXCEPT !.pc = "dispatch"]
        /\ gameFile' = gameFile /\ entrySize' = entrySize /\ stream' = stream
    BY <1>2 DEF Ask
  <2>3. stream = <<>>
    BY <1>1, <2>2 DEF InStep
  <2>4. HandlerOK(handler') /\ handler'.pc = "dispatch"
    BY <1>1, <2>2 DEF HandlerOK
  <2>5. DriverOK(driver') /\ driver'.pc = "asked" /\ driver'.kind # "none" /\ driver'.got = <<>> /\ driver'.count >= 1
    BY <2>1, HttpHandlerAssumption DEF DriverOK, Request
  <2>6. InStep(handler', driver', <<>>)
    BY <2>4, <2>5 DEF InStep
  <2> QED BY <1>1, <2>2, <2>3, <2>4, <2>5, <2>6 DEF HttpInv
<1>3. CASE TakeHeader
  <2>1. /\ driver.pc = "asked" /\ stream # <<>> /\ stream' = Tail(stream) /\ handler' = handler
        /\ gameFile' = gameFile /\ entrySize' = entrySize
    BY <1>3 DEF TakeHeader
  <2>2. PICK p : /\ p = (IF Head(stream) = Header(206) /\ driver.kind = "range" THEN "reading"
                         ELSE IF Head(stream) = Header(200) /\ driver.kind \in {"list", "head"} THEN "done" ELSE "failed")
                 /\ driver' = [driver EXCEPT !.pc = p]
    BY <1>3 DEF TakeHeader
  <2>3. /\ DOMAIN driver' = DOMAIN driver /\ driver'.pc = p /\ driver'.kind = driver.kind /\ driver'.offset = driver.offset
        /\ driver'.count = driver.count /\ driver'.got = driver.got
    BY <1>1, <2>2 DEF DriverOK
  <2>4. DriverOK(driver')
    BY <1>1, <2>2, <2>3 DEF DriverOK
  <2>5. PICK s \in Seq(StreamItems) : s = stream
    BY <1>1
  <2>6. Tail(s) \in Seq(StreamItems) /\ Len(Tail(s)) = Len(s) - 1 /\ Len(s) \in Nat /\ Len(s) >= 1 /\ (Len(s) = 1 => Tail(s) = <<>>)
    BY <2>1, <2>5
  <2>7. InStep(handler, driver', Tail(s))
    <3>1. CASE handler.pc \in {"open", "sendfile", "copy"}
      BY <1>1, <2>1, <2>2, <2>3, <2>5, <2>6, <3>1 DEF InStep, HandlerOK
    <3>2. CASE handler.pc = "idle"
      <4>1. CASE Head(s) = Header(206) /\ driver.kind = "range"
        BY <1>1, <2>1, <2>2, <2>3, <2>5, <2>6, <3>2, <4>1 DEF InStep
      <4>2. CASE Head(s) = Header(200) /\ driver.kind \in {"list", "head"}
        BY <1>1, <2>1, <2>2, <2>3, <2>5, <2>6, <3>2, <4>2 DEF InStep
      <4>3. CASE p = "failed"
        BY <2>3, <3>2, <4>3 DEF InStep
      <4> QED BY <2>2, <2>5, <4>1, <4>2, <4>3
    <3>3. CASE handler.pc \in {"dispatch", "closed"}
      BY <1>1, <2>1, <3>3 DEF InStep
    <3> QED BY <1>1, <3>1, <3>2, <3>3 DEF HandlerOK
  <2> QED BY <1>1, <2>1, <2>4, <2>5, <2>6, <2>7 DEF HttpInv
<1>4. CASE TakeByte
  <2>1. /\ driver.pc = "reading" /\ stream # <<>> /\ stream' = Tail(stream) /\ handler' = handler
        /\ gameFile' = gameFile /\ entrySize' = entrySize
    BY <1>4 DEF TakeByte
  <2>2. PICK p, g : /\ p = (IF Len(driver.got) + 1 = driver.count THEN "done" ELSE "reading")
                    /\ g = Append(driver.got, Head(stream))
                    /\ driver' = [driver EXCEPT !.got = g, !.pc = p]
    BY <1>4 DEF TakeByte
  <2>3. /\ DOMAIN driver' = DOMAIN driver /\ driver'.pc = p /\ driver'.kind = driver.kind /\ driver'.offset = driver.offset
        /\ driver'.count = driver.count /\ driver'.got = g
    BY <1>1, <2>2 DEF DriverOK
  <2>4. PICK s \in Seq(StreamItems), o \in Seq(StreamItems) : s = stream /\ o = driver.got
    BY <1>1 DEF DriverOK
  <2>5. /\ Tail(s) \in Seq(StreamItems) /\ Len(Tail(s)) = Len(s) - 1 /\ Len(s) \in Nat /\ Len(s) >= 1 /\ (Len(s) = 1 => Tail(s) = <<>>)
        /\ g \in Seq(StreamItems) /\ Len(g) = Len(o) + 1 /\ Len(o) \in Nat
    BY <2>1, <2>2, <2>4
  <2>6. DriverOK(driver')
    BY <1>1, <2>2, <2>3, <2>5 DEF DriverOK
  <2>7. InStep(handler, driver', Tail(s))
    <3>1. CASE handler.pc \in {"open", "sendfile", "copy"}
      BY <1>1, <2>1, <2>2, <2>3, <2>4, <2>5, <3>1 DEF InStep, HandlerOK, DriverOK
    <3>2. CASE handler.pc = "idle"
      BY <1>1, <2>1, <2>2, <2>3, <2>4, <2>5, <3>2 DEF InStep, DriverOK
    <3>3. CASE handler.pc \in {"dispatch", "closed"}
      BY <1>1, <2>1, <3>3 DEF InStep
    <3> QED BY <1>1, <3>1, <3>2, <3>3 DEF HandlerOK
  <2> QED BY <1>1, <2>1, <2>6, <2>4, <2>5, <2>7 DEF HttpInv
<1>5. CASE NextRead
  <2>1. /\ driver.pc = "done" /\ handler.pc \in {"idle", "closed"} /\ driver' = NoRequest
        /\ handler' = handler /\ stream' = stream /\ gameFile' = gameFile /\ entrySize' = entrySize
    BY <1>5 DEF NextRead
  <2>2. DriverOK(driver') /\ driver'.pc = "idle"
    BY <2>1 DEF NoRequest, DriverOK
  <2>3. InStep(handler, driver', stream)
    BY <1>1, <2>1, <2>2 DEF InStep
  <2> QED BY <1>1, <2>1, <2>2, <2>3 DEF HttpInv
<1>6. CASE Reconnect
  <2>1. /\ driver' = NoRequest /\ handler' = Fresh /\ stream' = <<>> /\ gameFile' = gameFile /\ entrySize' = entrySize
    BY <1>6 DEF Reconnect
  <2>2. DriverOK(driver') /\ driver'.pc = "idle" /\ HandlerOK(handler') /\ handler'.pc = "idle"
    BY <2>1 DEF NoRequest, DriverOK, Fresh, HandlerOK
  <2>3. InStep(handler', driver', <<>>)
    BY <2>2 DEF InStep
  <2> QED BY <1>1, <2>1, <2>2, <2>3 DEF HttpInv
<1> QED BY <1>2, <1>3, <1>4, <1>5, <1>6

\* Bytes of the file: as many as the request is short of.
LEMMA SendsBytes ==
  ASSUME HttpInv, handler.pc \in {"sendfile", "copy"}, NEW n \in 0 .. Available,
         stream' = stream \o Bytes(handler.offset, n),
         \/ handler' = Finished([handler EXCEPT !.closing = TRUE])
         \/ n = handler.left /\ handler' = Finished(handler)
         \/ n < handler.left /\ handler'.pc = "copy" /\ handler'.left = handler.left - n /\ HandlerOK(handler'),
         UNCHANGED <<gameFile, entrySize, driver>>
  PROVE  HttpInv'
<1>1. /\ gameFile \in Nat \ {0} /\ entrySize \in Nat
      /\ HandlerOK(handler) /\ DriverOK(driver) /\ stream \in Seq(StreamItems)
      /\ InStep(handler, driver, stream)
  BY DEF HttpInv
<1>2. n \in Nat /\ n <= handler.left /\ handler.left \in Nat /\ handler.offset \in Nat
  BY <1>1 DEF HandlerOK, Available
<1>3. PICK b \in Seq(StreamItems) : b = Bytes(handler.offset, n) /\ Len(b) = n
  BY <1>2, BytesTypes
<1>4. PICK s, w : s \in Seq(StreamItems) /\ s = stream /\ w = s \o b
  BY <1>1
<1>5. /\ w \in Seq(StreamItems) /\ Len(w) = Len(s) + n /\ Len(s) \in Nat
      /\ s # <<>> => w # <<>> /\ Head(w) = Head(s) /\ Len(s) >= 1
  BY <1>2, <1>3, <1>4
<1>6. stream' = w /\ driver' = driver /\ gameFile' = gameFile /\ entrySize' = entrySize
  BY <1>3, <1>4
<1>7. /\ driver.kind = "range" /\ driver.pc \in {"asked", "reading"} /\ driver.count \in Nat /\ Len(driver.got) \in Nat
      /\ driver.pc = "asked" => s # <<>> /\ Head(s) = Header(206) /\ driver.got = <<>> /\ Len(s) - 1 + handler.left = driver.count
      /\ driver.pc = "reading" => Len(driver.got) + Len(s) + handler.left = driver.count
      /\ handler.left >= 1
  BY <1>1, <1>4 DEF InStep, HandlerOK, DriverOK
<1>8. PICK lw, ls, lg, left, count : lw = Len(w) /\ ls = Len(s) /\ lg = Len(driver.got) /\ left = handler.left /\ count = driver.count
  OBVIOUS
<1>9. /\ lw = ls + n /\ ls \in Nat /\ lg \in Nat /\ left \in Nat /\ left >= 1 /\ count \in Nat /\ n \in Nat
      /\ driver.pc = "asked" => ls >= 1 /\ ls - 1 + left = count
      /\ driver.pc = "reading" => lg + ls + left = count
      /\ driver.pc = "asked" => w # <<>> /\ Head(w) = Header(206) /\ driver.got = <<>>
  BY <1>2, <1>5, <1>7, <1>8
<1>10. CASE handler' = Finished([handler EXCEPT !.closing = TRUE])
  <2>1. PICK h : h = [handler EXCEPT !.closing = TRUE]
    OBVIOUS
  <2>2. HandlerOK(handler') /\ handler'.pc = "closed"
    <3>1. PICK g : g = Finished(h)
      OBVIOUS
    <3>2. HandlerOK(g) /\ g.pc = "closed"
      BY <1>1, <2>1, <3>1 DEF Finished, HandlerOK
    <3> QED BY <1>10, <2>1, <3>1, <3>2
  <2>3. InStep(handler', driver, w)
    BY <2>2 DEF InStep
  <2> QED BY <1>1, <1>5, <1>6, <2>2, <2>3 DEF HttpInv
<1>11. CASE n = handler.left /\ handler' = Finished(handler)
  <2>1. HandlerOK(handler') /\ handler'.pc = "idle"
    <3>1. PICK g : g = Finished(handler)
      OBVIOUS
    <3>2. HandlerOK(g) /\ g.pc = "idle"
      BY <1>1, <3>1 DEF Finished, HandlerOK
    <3> QED BY <1>11, <3>1, <3>2
  <2>2. n = handler.left
    BY <1>11
  <2>3. /\ driver.pc = "asked" => w # <<>> /\ Head(w) = Header(206) /\ driver.got = <<>> /\ Len(w) - 1 = driver.count /\ driver.count >= 1
        /\ driver.pc = "reading" => Len(driver.got) + Len(w) = driver.count /\ Len(driver.got) < driver.count
    <3>1. n = left
      BY <1>8, <2>2
    <3>2. /\ driver.pc = "asked" => lw - 1 = count /\ count >= 1
          /\ driver.pc = "reading" => lg + lw = count /\ lg < count
      BY ONLY <1>9, <3>1
    <3> QED BY ONLY <1>8, <1>9, <3>2
  <2>4. InStep(handler', driver, w)
    BY ONLY <1>7, <2>1, <2>3, ItemTypes DEF InStep
  <2> QED BY <1>1, <1>5, <1>6, <2>1, <2>4 DEF HttpInv
<1>12. CASE n < handler.left /\ handler'.pc = "copy" /\ handler'.left = handler.left - n /\ HandlerOK(handler')
  <2>1. handler'.pc = "copy" /\ handler'.left = handler.left - n
    BY <1>12
  <2>2. InStep(handler', driver, w)
    <3>1. /\ driver.pc = "asked" => w # <<>> /\ Head(w) = Header(206) /\ driver.got = <<>> /\ Len(w) - 1 + handler'.left = driver.count
          /\ driver.pc = "reading" => Len(driver.got) + Len(w) + handler'.left = driver.count
      <4>1. PICK l : l = handler'.left
        OBVIOUS
      <4>2. l = left - n
        BY <1>8, <2>1, <4>1
      <4>3. /\ driver.pc = "asked" => lw - 1 + l = count
            /\ driver.pc = "reading" => lg + lw + l = count
        BY ONLY <1>9, <4>2
      <4> QED BY ONLY <1>8, <1>9, <4>1, <4>3
    <3> QED BY ONLY <1>7, <2>1, <3>1 DEF InStep
  <2> QED BY <1>1, <1>5, <1>6, <1>12, <2>2 DEF HttpInv
<1> QED BY <1>10, <1>11, <1>12

\* A short answer: to a driver that will not take it for data, or the last of the connection.
LEMMA SendsShort ==
  ASSUME HttpInv, NEW st \in Nat, NEW h, DOMAIN h = DOMAIN handler, Short(st, h),
         h.closing = TRUE \/ (h.closing = FALSE /\ handler.pc = "dispatch" /\ st \in {404, 416}),
         UNCHANGED <<gameFile, entrySize, driver>>
  PROVE  HttpInv'
<1>1. /\ gameFile \in Nat \ {0} /\ entrySize \in Nat
      /\ HandlerOK(handler) /\ DriverOK(driver) /\ stream \in Seq(StreamItems)
      /\ InStep(handler, driver, stream)
  BY DEF HttpInv
<1>2. PICK t : t = IF driver.kind = "head" THEN <<>> ELSE Text
  OBVIOUS
<1>3. PICK s : s = stream
  OBVIOUS
<1>4. PICK w : w = Append(s, Header(st)) \o t
  BY Zenon
<1>5. Header(st) \in StreamItems /\ s \in Seq(StreamItems) /\ t \in Seq(StreamItems)
  <2>1. t \in Seq(StreamItems)
    BY <1>2, TextTypes
  <2> QED BY <1>1, <1>3, <2>1, ItemTypes
<1>6. w \in Seq(StreamItems) /\ w # <<>> /\ (s = <<>> => Head(w) = Header(st))
  BY <1>4, <1>5
<1>7. stream' = w /\ handler' = Finished(h)
  BY <1>2, <1>3, <1>4 DEF Short
<1>8. HandlerOK(handler') /\ (h.closing = TRUE => handler'.pc = "closed") /\ handler'.pc \in {"idle", "closed"}
  <2>1. PICK g : g = Finished(h)
    OBVIOUS
  <2>2. HandlerOK(g) /\ (h.closing = TRUE => g.pc = "closed") /\ g.pc \in {"idle", "closed"}
    BY <1>1, <2>1 DEF Finished, HandlerOK
  <2> QED BY <1>7, <2>1, <2>2
<1>9. InStep(handler', driver, w)
  <2>1. CASE handler'.pc = "closed"
    BY <2>1 DEF InStep
  <2>2. CASE handler'.pc = "idle"
    <3>1. s = <<>> /\ driver.pc = "asked" /\ driver.got = <<>> /\ st \in {404, 416}
      BY <1>1, <1>3, <1>8, <2>2 DEF InStep
    <3>2. Head(w) # Header(206) /\ Head(w) # Header(200)
      BY <1>6, <3>1, ItemTypes
    <3> QED BY <1>6, <2>2, <3>1, <3>2 DEF InStep
  <2> QED BY <1>8, <2>1, <2>2
<1> QED BY <1>1, <1>6, <1>7, <1>8, <1>9 DEF HttpInv

\* A header that answers a list or a HEAD, or begins the body of a read.
LEMMA SendsHeader ==
  ASSUME HttpInv, handler.pc = "dispatch", UNCHANGED <<gameFile, entrySize, driver>>,
         \/ driver.kind \in {"list", "head"} /\ stream' = Append(stream, Header(200)) /\ handler' = Finished(handler)
         \/ /\ driver.kind = "range" /\ stream' = Append(stream, Header(206))
            /\ handler' = [handler EXCEPT !.pc = "open", !.offset = driver.offset, !.left = driver.count]
  PROVE  HttpInv'
<1>1. /\ gameFile \in Nat \ {0} /\ entrySize \in Nat
      /\ HandlerOK(handler) /\ DriverOK(driver) /\ stream = <<>>
      /\ driver.pc = "asked" /\ driver.got = <<>> /\ (driver.kind = "range" => driver.count >= 1)
  BY DEF HttpInv, InStep
<1>2. CASE driver.kind \in {"list", "head"} /\ stream' = Append(stream, Header(200)) /\ handler' = Finished(handler)
  <2>1. HandlerOK(handler') /\ handler'.pc = "idle"
    <3>1. PICK g : g = Finished(handler)
      OBVIOUS
    <3>2. HandlerOK(g) /\ g.pc = "idle"
      BY <1>1, <3>1 DEF Finished, HandlerOK
    <3> QED BY <1>2, <3>1, <3>2
  <2>2. PICK w, x : w = stream' /\ x = Header(200) /\ w = Append(stream, x)
    BY <1>2
  <2>3. w \in Seq(StreamItems) /\ Len(w) = 1 /\ w # <<>> /\ Head(w) = Header(200)
    BY <1>1, <2>2, ItemTypes
  <2>4. InStep(handler', driver, w)
    BY <1>1, <2>1, <2>3, ItemTypes DEF InStep
  <2> QED BY <1>1, <1>2, <2>1, <2>2, <2>3, <2>4 DEF HttpInv
<1>3. CASE /\ driver.kind = "range" /\ stream' = Append(stream, Header(206))
           /\ handler' = [handler EXCEPT !.pc = "open", !.offset = driver.offset, !.left = driver.count]
  <2>1. HandlerOK(handler') /\ handler'.pc = "open" /\ handler'.left = driver.count
    BY <1>1, <1>3 DEF HandlerOK, DriverOK
  <2>2. PICK w, x : w = stream' /\ x = Header(206) /\ w = Append(stream, x)
    BY <1>3
  <2>3. w \in Seq(StreamItems) /\ Len(w) = 1 /\ w # <<>> /\ Head(w) = Header(206)
    BY <1>1, <2>2, ItemTypes
  <2>4. InStep(handler', driver, w)
    BY <1>1, <1>3, <2>1, <2>3 DEF InStep, DriverOK
  <2> QED BY <1>1, <1>3, <2>1, <2>2, <2>3, <2>4 DEF HttpInv
<1> QED BY <1>2, <1>3

LEMMA HandlerSteps ==
  ASSUME HttpInv, DispatchRequest \/ HandleFor \/ Sendfile \/ Copy
  PROVE  HttpInv'
<1>1. /\ gameFile \in Nat \ {0} /\ entrySize \in Nat
      /\ HandlerOK(handler) /\ DriverOK(driver) /\ stream \in Seq(StreamItems)
      /\ InStep(handler, driver, stream)
  BY DEF HttpInv
<1>2. CASE DispatchRequest
  <2>1. handler.pc = "dispatch" /\ UNCHANGED <<gameFile, entrySize, driver>>
    BY <1>2 DEF DispatchRequest
  <2>2. driver.kind # "none" => Short(404, handler) \/ Short(416, handler)
        \/ (driver.kind \in {"list", "head"} /\ stream' = Append(stream, Header(200)) /\ handler' = Finished(handler))
        \/ (/\ driver.kind = "range" /\ stream' = Append(stream, Header(206))
            /\ handler' = [handler EXCEPT !.pc = "open", !.offset = driver.offset, !.left = driver.count])
    BY <1>1, <1>2 DEF DispatchRequest, DriverOK
  <2>3. CASE Short(404, handler) \/ Short(416, handler)
    <3>1. handler.closing = FALSE
      BY <1>1, <2>1 DEF HandlerOK
    <3>2. PICK h : h = handler
      OBVIOUS
    <3>3. PICK st \in {404, 416} : Short(st, h)
      BY <2>3, <3>2, Zenon
    <3>4. DOMAIN h = DOMAIN handler /\ h.closing = FALSE /\ st \in Nat
      BY <3>2, <3>1, <3>3
    <3> QED BY <2>1, <3>3, <3>4, SendsShort, Zenon
  <2>4. CASE \/ driver.kind \in {"list", "head"} /\ stream' = Append(stream, Header(200)) /\ handler' = Finished(handler)
             \/ /\ driver.kind = "range" /\ stream' = Append(stream, Header(206))
                /\ handler' = [handler EXCEPT !.pc = "open", !.offset = driver.offset, !.left = driver.count]
    BY <2>1, <2>4, SendsHeader
  <2>5. driver.kind # "none"
    BY <1>1, <2>1 DEF InStep
  <2> QED BY <2>2, <2>3, <2>4, <2>5
<1>3. CASE HandleFor
  <2>1. /\ handler.pc = "open" /\ handler' = [handler EXCEPT !.pc = "sendfile", !.cached = TRUE] /\ stream' = stream
        /\ gameFile' = gameFile /\ entrySize' = entrySize /\ driver' = driver
    BY <1>1, <1>3 DEF HandleFor
  <2>2. HandlerOK(handler') /\ handler'.pc = "sendfile" /\ handler'.left = handler.left
    BY <1>1, <2>1 DEF HandlerOK
  <2>3. InStep(handler', driver, stream)
    BY <1>1, <2>1, <2>2 DEF InStep
  <2> QED BY <1>1, <2>1, <2>2, <2>3 DEF HttpInv
<1>4. ASSUME NEW n \in 0 .. Available, handler.pc \in {"sendfile", "copy"}, n # handler.left
      PROVE  /\ n < handler.left
             /\ \A g : g = [handler EXCEPT !.pc = "copy", !.offset = @ + n, !.left = @ - n] =>
                   HandlerOK(g) /\ g.pc = "copy" /\ g.left = handler.left - n
  <2>1. n \in Nat /\ n < handler.left /\ handler.left \in Nat /\ handler.offset \in Nat
    BY <1>1, <1>4 DEF HandlerOK, Available
  <2>2. ASSUME NEW g, g = [handler EXCEPT !.pc = "copy", !.offset = @ + n, !.left = @ - n]
        PROVE  HandlerOK(g) /\ g.pc = "copy" /\ g.left = handler.left - n
    <3>1. PICK o, l : o = handler.offset + n /\ l = handler.left - n
      OBVIOUS
    <3>2. o \in Nat /\ l \in Nat /\ l >= 1
      BY ONLY <2>1, <3>1
    <3>3. g = [handler EXCEPT !.pc = "copy", !.offset = o, !.left = l]
      BY ONLY <2>2, <3>1
    <3>4. HandlerOK(g) /\ g.pc = "copy" /\ g.left = l
      BY ONLY <1>1, <1>4, <3>2, <3>3 DEF HandlerOK
    <3> QED BY <3>1, <3>4
  <2> QED BY <2>1, <2>2
<1>5. CASE Sendfile
  <2>1. PICK n \in 0 .. Available :
          /\ stream' = stream \o Bytes(handler.offset, n)
          /\ \/ handler' = Finished([handler EXCEPT !.closing = TRUE])
             \/ handler' = IF n = handler.left THEN Finished(handler) ELSE [handler EXCEPT !.pc = "copy", !.offset = @ + n, !.left = @ - n]
    BY <1>5 DEF Sendfile
  <2>2. handler.pc = "sendfile" /\ UNCHANGED <<gameFile, entrySize, driver>>
    BY <1>5 DEF Sendfile
  <2>3. \/ handler' = Finished([handler EXCEPT !.closing = TRUE])
        \/ n = handler.left /\ handler' = Finished(handler)
        \/ n # handler.left /\ handler' = [handler EXCEPT !.pc = "copy", !.offset = @ + n, !.left = @ - n]
    BY <2>1
  <2>4. n # handler.left /\ handler' = [handler EXCEPT !.pc = "copy", !.offset = @ + n, !.left = @ - n]
        => n < handler.left /\ handler'.pc = "copy" /\ handler'.left = handler.left - n /\ HandlerOK(handler')
    BY <1>4, <2>2
  <2> QED BY <2>1, <2>2, <2>3, <2>4, SendsBytes
<1>6. CASE Copy
  <2>1. handler.pc = "copy" /\ UNCHANGED <<gameFile, entrySize, driver>>
    BY <1>6 DEF Copy
  <2>2. CASE Available = 0
    <3>1. PICK h : h = [handler EXCEPT !.closing = TRUE]
      OBVIOUS
    <3>2. Short(500, h)
      BY <1>6, <2>2, <3>1 DEF Copy
    <3>3. h.closing = TRUE /\ DOMAIN h = DOMAIN handler /\ h.pc = handler.pc /\ h.offset = handler.offset /\ h.left = handler.left
      BY <1>1, <3>1 DEF HandlerOK
    <3>4. PICK st \in Nat : Short(st, h)
      BY <3>2
    <3> QED BY <2>1, <3>3, <3>4, SendsShort, Zenon
  <2>3. CASE Available # 0
    <3>1. PICK n \in 1 .. Available :
            /\ stream' = stream \o Bytes(handler.offset, n)
            /\ handler' = IF n = handler.left THEN Finished(handler) ELSE [handler EXCEPT !.offset = @ + n, !.left = @ - n]
      BY <1>6, <2>3 DEF Copy
    <3>2. n \in 0 .. Available
      BY <1>1, <3>1 DEF Available, HandlerOK
    <3>3. n # handler.left => n < handler.left /\ handler'.pc = "copy" /\ handler'.left = handler.left - n /\ HandlerOK(handler')
      <4> SUFFICES ASSUME n # handler.left PROVE n < handler.left /\ handler'.pc = "copy" /\ handler'.left = handler.left - n /\ HandlerOK(handler')
        OBVIOUS
      <4>1. n < handler.left /\ n \in Nat
        BY <1>1, <2>1, <3>2 DEF HandlerOK, Available
      <4>2. handler' = [handler EXCEPT !.offset = @ + n, !.left = @ - n]
        BY <3>1
      <4> QED BY <1>1, <2>1, <4>1, <4>2 DEF HandlerOK
    <3> QED BY <2>1, <3>1, <3>2, <3>3, SendsBytes
  <2> QED BY <2>2, <2>3
<1> QED BY <1>2, <1>3, <1>5, <1>6

\* The HTTP server (http_server.py, _serve_game): what sendfile and the loop of reads put in the
\* stream is as many bytes as were asked for, or the connection is closed, for files and reads of
\* any size and whatever fails half way, so long as the game is not deleted between the header
\* and the opening of the file.
THEOREM ConnectionInStep ==
  ASSUME "vanish" \notin HttpDiskFaults PROVE HandlerSpec => []StreamInStep
<1>1. HandlerInit => HttpInv
  BY DEF HandlerInit, HttpInv, HandlerOK, DriverOK, InStep, Fresh, NoRequest
<1>2. HttpInv /\ [HandlerNext]_handlerVars => HttpInv'
  <2> SUFFICES ASSUME HttpInv, [HandlerNext]_handlerVars PROVE HttpInv'
    OBVIOUS
  <2>1. CASE FileChanges
    <3>1. handler' = handler /\ stream' = stream /\ driver' = driver /\ entrySize' = entrySize /\ gameFile' \in Nat \ {0}
      BY <2>1 DEF FileChanges, HttpInv
    <3> QED BY <3>1 DEF HttpInv
  <2>2. CASE IndexRescans
    BY <2>2 DEF IndexRescans, HttpInv
  <2>3. CASE UNCHANGED handlerVars
    BY <2>3 DEF handlerVars, HttpInv
  <2>4. \/ Ask \/ TakeHeader \/ TakeByte \/ NextRead \/ Reconnect
        \/ DispatchRequest \/ HandleFor \/ Sendfile \/ Copy
        \/ FileChanges \/ IndexRescans \/ UNCHANGED handlerVars
    BY DEF HandlerNext
  <2> QED BY <2>1, <2>2, <2>3, <2>4, DriverSteps, HandlerSteps
<1>3. HttpInv => StreamInStep
  BY DEF HttpInv, InStep, StreamInStep
<1> QED BY <1>1, <1>2, <1>3, PTL DEF HandlerSpec

-----------------------------------------------------------------------------
(* HttpIndex: the index catches up with the games folder.                    *)

OfRoot(files) == {f \in files : InRoot(f)}
OfSub(files) == {f \in files : ~InRoot(f)}
ScanStates == {"idle", "scanning", "scanned", "listing"}

LibraryOK(l) ==
  /\ DOMAIN l = {"files", "rootChanges", "subChanges"}
  /\ l.rootChanges \in Nat /\ l.subChanges \in Nat

\* A token is of a moment that has passed; what was read under it is still true of a folder
\* that has not changed since.
TokenOK(k, l) == k \in Int \X Int /\ k[1] <= l.rootChanges /\ k[2] <= l.subChanges

GameIndexOK(g, l) ==
  /\ DOMAIN g = {"flat", "files", "token", "lock", "building"}
  /\ TokenOK(g.token, l)
  /\ g.token[1] = l.rootChanges => OfRoot(g.files) = OfRoot(l.files)
  /\ g.token[2] = l.subChanges => OfSub(g.files) = OfSub(l.files)

ScanOK(t, s, g, l) ==
  /\ DOMAIN s = {"pc", "token"} /\ s.pc \in ScanStates /\ TokenOK(s.token, l)
  /\ s.pc = "listing" => /\ g.lock = t /\ \A f \in g.building : InRoot(f)
                         /\ s.token[1] = l.rootChanges => g.building = OfRoot(l.files)

IndexInv ==
  /\ LibraryOK(library) /\ GameIndexOK(gameIndex, library)
  /\ DOMAIN scans = HttpThreads /\ \A t \in HttpThreads : ScanOK(t, scans[t], gameIndex, library)

LEMMA FolderKeeps ==
  ASSUME IndexInv, FolderChanges
  PROVE  IndexInv'
<1>1. LibraryOK(library) /\ GameIndexOK(gameIndex, library) /\ gameIndex' = gameIndex /\ scans' = scans
  BY DEF IndexInv, FolderChanges
<1>2. PICK f \in HttpFiles :
        library' = [library EXCEPT !.files = IF f \in @ THEN @ \ {f} ELSE @ \cup {f},
                                  !.rootChanges = @ + (IF InRoot(f) THEN 1 ELSE 0),
                                  !.subChanges = @ + (IF InRoot(f) THEN 0 ELSE 1)]
  BY DEF FolderChanges
<1>3. PICK fs, r, s : /\ fs = IF f \in library.files THEN library.files \ {f} ELSE library.files \cup {f}
                      /\ r = library.rootChanges + (IF InRoot(f) THEN 1 ELSE 0)
                      /\ s = library.subChanges + (IF InRoot(f) THEN 0 ELSE 1)
  OBVIOUS
<1>4. library' = [library EXCEPT !.files = fs, !.rootChanges = r, !.subChanges = s]
  BY ONLY <1>2, <1>3
<1>5. DOMAIN library' = DOMAIN library /\ library'.files = fs /\ library'.rootChanges = r /\ library'.subChanges = s
  BY ONLY <1>1, <1>4 DEF LibraryOK
<1>6. /\ r \in Nat /\ s \in Nat /\ r >= library.rootChanges /\ s >= library.subChanges
      /\ r = library.rootChanges => OfRoot(fs) = OfRoot(library.files)
      /\ s = library.subChanges => OfSub(fs) = OfSub(library.files)
  BY <1>1, <1>3 DEF LibraryOK, OfRoot, OfSub
<1>7. ASSUME NEW k, TokenOK(k, library) PROVE TokenOK(k, library')
  BY <1>1, <1>5, <1>6, <1>7 DEF TokenOK, LibraryOK
<1>8. LibraryOK(library') /\ GameIndexOK(gameIndex, library')
  BY <1>1, <1>5, <1>6, <1>7 DEF LibraryOK, GameIndexOK, TokenOK
<1>9. ASSUME NEW t \in HttpThreads PROVE ScanOK(t, scans[t], gameIndex, library')
  <2>1. ScanOK(t, scans[t], gameIndex, library)
    BY DEF IndexInv
  <2> QED BY <1>1, <1>5, <1>6, <1>7, <2>1 DEF ScanOK, TokenOK, LibraryOK
<1> QED BY <1>1, <1>8, <1>9 DEF IndexInv

LEMMA ThreadKeeps ==
  ASSUME IndexInv, NEW t \in HttpThreads, ScanRoot(t) \/ ScanSub(t) \/ RebuildRoot(t) \/ RebuildSub(t)
  PROVE  IndexInv'
<1>1. /\ LibraryOK(library) /\ GameIndexOK(gameIndex, library) /\ library' = library
      /\ DOMAIN scans = HttpThreads /\ \A u \in HttpThreads : ScanOK(u, scans[u], gameIndex, library)
  BY DEF IndexInv, ScanRoot, ScanSub, RebuildRoot, RebuildSub
<1>2. ScanOK(t, scans[t], gameIndex, library) /\ TokenOK(scans[t].token, library)
  BY <1>1 DEF ScanOK
\* What a thread's own step has to show.
<1>3. ASSUME NEW s, scans' = [scans EXCEPT ![t] = s], GameIndexOK(gameIndex', library), ScanOK(t, s, gameIndex', library),
             \A u \in HttpThreads \ {t} : ScanOK(u, scans[u], gameIndex', library)
      PROVE  IndexInv'
  <2>1. DOMAIN scans' = HttpThreads /\ scans'[t] = s /\ \A u \in HttpThreads \ {t} : scans'[u] = scans[u]
    BY <1>1, <1>3
  <2> QED BY <1>1, <1>3, <2>1 DEF IndexInv
<1>4. CASE ScanRoot(t)
  <2>1. PICK s : s = [pc |-> "scanning", token |-> <<library.rootChanges, -1>>]
    OBVIOUS
  <2>2. scans' = [scans EXCEPT ![t] = s] /\ gameIndex' = gameIndex
    BY <1>4, <2>1 DEF ScanRoot
  <2>3. ScanOK(t, s, gameIndex, library)
    BY <1>1, <2>1 DEF ScanOK, TokenOK, LibraryOK, ScanStates
  <2> QED BY <1>1, <1>3, <2>2, <2>3
<1>5. CASE ScanSub(t)
  <2>1. PICK s : s = [pc |-> "scanned", token |-> <<scans[t].token[1], library.subChanges>>]
    OBVIOUS
  <2>2. scans' = [scans EXCEPT ![t] = s] /\ gameIndex' = gameIndex
    BY <1>1, <1>5, <2>1 DEF ScanSub
  <2>3. ScanOK(t, s, gameIndex, library)
    BY <1>1, <1>2, <2>1 DEF ScanOK, TokenOK, LibraryOK, ScanStates
  <2> QED BY <1>1, <1>3, <2>2, <2>3
<1>6. ASSUME NEW p \in ScanStates, scans' = [scans EXCEPT ![t].pc = p]
      PROVE  \E s : /\ scans' = [scans EXCEPT ![t] = s] /\ DOMAIN s = {"pc", "token"} /\ s.pc = p /\ s.token = scans[t].token
  <2>1. PICK s : s = [scans[t] EXCEPT !.pc = p]
    OBVIOUS
  <2>2. DOMAIN s = {"pc", "token"} /\ s.pc = p /\ s.token = scans[t].token
    BY <1>2, <2>1 DEF ScanOK
  <2>3. scans' = [scans EXCEPT ![t] = s]
    BY <1>1, <1>6, <2>1
  <2> QED BY <2>2, <2>3
<1>7. CASE RebuildRoot(t)
  <2>1. gameIndex.lock = "none" /\ \A u \in HttpThreads : scans[u].pc # "listing"
    BY <1>1, <1>7, HttpIndexAssumption DEF RebuildRoot, ScanOK
  <2>2. CASE scans' = [scans EXCEPT ![t].pc = "idle"] /\ gameIndex' = gameIndex
    <3>1. PICK s : scans' = [scans EXCEPT ![t] = s] /\ DOMAIN s = {"pc", "token"} /\ s.pc = "idle" /\ s.token = scans[t].token
      BY <1>6, <2>2 DEF ScanStates
    <3>2. ScanOK(t, s, gameIndex, library)
      BY <1>2, <3>1 DEF ScanOK, ScanStates
    <3> QED BY <1>1, <1>3, <2>2, <3>1, <3>2
  <2>3. CASE /\ scans' = [scans EXCEPT ![t].pc = "listing"]
             /\ gameIndex' = [gameIndex EXCEPT !.lock = t, !.building = {f \in library.files : InRoot(f)}]
    <3>1. PICK s : scans' = [scans EXCEPT ![t] = s] /\ DOMAIN s = {"pc", "token"} /\ s.pc = "listing" /\ s.token = scans[t].token
      BY <1>6, <2>3 DEF ScanStates
    <3>2. /\ DOMAIN gameIndex' = DOMAIN gameIndex /\ gameIndex'.files = gameIndex.files /\ gameIndex'.token = gameIndex.token
          /\ gameIndex'.lock = t /\ gameIndex'.building = OfRoot(library.files)
      BY <1>1, <2>3 DEF GameIndexOK, OfRoot
    <3>3. GameIndexOK(gameIndex', library)
      BY <1>1, <3>2 DEF GameIndexOK
    <3>4. ScanOK(t, s, gameIndex', library)
      BY <1>2, <3>1, <3>2 DEF ScanOK, ScanStates, OfRoot
    <3>5. \A u \in HttpThreads \ {t} : ScanOK(u, scans[u], gameIndex', library)
      BY <1>1, <2>1 DEF ScanOK
    <3> QED BY <1>3, <3>1, <3>3, <3>4, <3>5
  <2> QED BY <1>7, <2>2, <2>3 DEF RebuildRoot
<1>8. CASE RebuildSub(t)
  <2>1. PICK fs : fs = gameIndex.building \cup {f \in library.files : ~InRoot(f)}
    OBVIOUS
  <2>2. /\ scans[t].pc = "listing" /\ scans' = [scans EXCEPT ![t].pc = "idle"]
        /\ gameIndex' = [gameIndex EXCEPT !.lock = "none", !.building = {}, !.token = scans[t].token, !.files = fs]
    BY <1>8, <2>1 DEF RebuildSub
  <2>3. PICK s : scans' = [scans EXCEPT ![t] = s] /\ DOMAIN s = {"pc", "token"} /\ s.pc = "idle" /\ s.token = scans[t].token
    BY <1>6, <2>2 DEF ScanStates
  <2>4. DOMAIN gameIndex' = DOMAIN gameIndex /\ gameIndex'.files = fs /\ gameIndex'.token = scans[t].token
    BY <1>1, <2>2 DEF GameIndexOK
  <2>5. /\ gameIndex.lock = t /\ \A f \in gameIndex.building : InRoot(f)
        /\ scans[t].token[1] = library.rootChanges => gameIndex.building = OfRoot(library.files)
    BY <1>2, <2>2 DEF ScanOK
  <2>6. OfRoot(fs) = gameIndex.building /\ OfSub(fs) = OfSub(library.files)
    BY <2>1, <2>5 DEF OfRoot, OfSub
  <2>7. GameIndexOK(gameIndex', library)
    BY <1>1, <1>2, <2>4, <2>5, <2>6 DEF GameIndexOK
  <2>8. ScanOK(t, s, gameIndex', library)
    BY <1>2, <2>3 DEF ScanOK, ScanStates
  <2>9. \A u \in HttpThreads \ {t} : ScanOK(u, scans[u], gameIndex', library)
    BY <1>1, <2>5 DEF ScanOK
  <2> QED BY <1>3, <2>3, <2>7, <2>8, <2>9
<1> QED BY <1>4, <1>5, <1>7, <1>8

\* GameIndex.refresh (http_server.py): an index whose token is the folder's present one holds the
\* folder's files, for any number of request threads that scan and rebuild while games are copied
\* and deleted. So a change is never missed for good: the token is taken before the listing.
THEOREM IndexCatchesUp == IndexSpec => []IndexNeverStuck
<1>1. IndexInit => IndexInv
  <2> SUFFICES ASSUME IndexInit PROVE IndexInv
    OBVIOUS
  <2>1. PICK files \in SUBSET HttpFiles, flat \in BOOLEAN :
          /\ library = [files |-> files, rootChanges |-> 0, subChanges |-> 0]
          /\ gameIndex = [flat |-> flat, files |-> files, token |-> <<0, 0>>, lock |-> "none", building |-> {}]
    BY DEF IndexInit
  <2>2. scans = [t \in HttpThreads |-> [pc |-> "idle", token |-> <<-1, -1>>]]
    BY DEF IndexInit
  <2>3. LibraryOK(library) /\ GameIndexOK(gameIndex, library)
    BY <2>1 DEF LibraryOK, GameIndexOK, TokenOK
  <2>4. \A t \in HttpThreads : ScanOK(t, scans[t], gameIndex, library)
    BY <2>1, <2>2 DEF ScanOK, TokenOK, ScanStates
  <2> QED BY <2>2, <2>3, <2>4 DEF IndexInv
<1>2. IndexInv /\ [IndexNext]_indexVars => IndexInv'
  <2> SUFFICES ASSUME IndexInv, [IndexNext]_indexVars PROVE IndexInv'
    OBVIOUS
  <2>1. CASE UNCHANGED indexVars
    BY <2>1 DEF indexVars, IndexInv
  <2> QED BY <2>1, FolderKeeps, ThreadKeeps DEF IndexNext
<1>3. IndexInv => IndexNeverStuck
  <2> SUFFICES ASSUME IndexInv, gameIndex.token = Token PROVE gameIndex.files = library.files
    BY DEF IndexNeverStuck
  <2>1. OfRoot(gameIndex.files) = OfRoot(library.files) /\ OfSub(gameIndex.files) = OfSub(library.files)
    BY DEF IndexInv, GameIndexOK, Token
  <2> QED BY <2>1 DEF OfRoot, OfSub
<1> QED BY <1>1, <1>2, <1>3, PTL DEF IndexSpec

\* A path of one or two names.
ShortPath(s) == s \in Seq(0 .. 19) /\ Len(s) \in {1, 2}
Second(s) == IF Len(s) = 2 THEN s[2] + 1 ELSE 0
PathRank(s) == 25 * s[1] + Second(s)

LEMMA NamesOfPath ==
  ASSUME NEW s, ShortPath(s)
  PROVE  s[1] \in 0 .. 19 /\ Second(s) \in 0 .. 20 /\ (Len(s) = 2 <=> Second(s) # 0)
<1>1. s[1] \in 0 .. 19 /\ (Len(s) = 2 => s[2] \in 0 .. 19)
  BY DEF ShortPath
<1> QED BY <1>1 DEF Second

LEMMA PathRankType ==
  ASSUME NEW s, ShortPath(s)
  PROVE  PathRank(s) \in 0 .. 999
<1>1. PICK a \in 0 .. 19 : a = s[1]
  BY NamesOfPath
<1>2. PICK x \in 0 .. 20 : x = Second(s)
  BY NamesOfPath
<1>3. 25 * a + x \in 0 .. 999
  BY ONLY a \in 0 .. 19, x \in 0 .. 20
<1> QED BY <1>1, <1>2, <1>3 DEF PathRank

LEMMA PathRankLess ==
  ASSUME NEW s, NEW t, ShortPath(s), ShortPath(t), PathRank(s) < PathRank(t)
  PROVE  PathLess(s, t)
<1>1. s \in Seq(0 .. 19) /\ t \in Seq(0 .. 19) /\ Len(s) \in {1, 2} /\ Len(t) \in {1, 2}
  BY DEF ShortPath
<1>2. s[1] \in 0 .. 19 /\ t[1] \in 0 .. 19 /\ (Len(s) = 2 => s[2] \in 0 .. 19) /\ (Len(t) = 2 => t[2] \in 0 .. 19)
  <2>1. s[1] \in 0 .. 19 /\ (Len(s) = 2 => s[2] \in 0 .. 19)
    BY DEF ShortPath
  <2>2. t[1] \in 0 .. 19 /\ (Len(t) = 2 => t[2] \in 0 .. 19)
    BY DEF ShortPath
  <2> QED BY <2>1, <2>2
<1>3. CASE s[1] < t[1]
  <2>1. PICK n, m \in {1, 2} : n = Len(s) /\ m = Len(t)
    BY <1>1
  <2>2. 1 \in 1 .. n /\ 1 <= m
    BY ONLY <2>1
  <2>3. \A j \in 1 .. 1 - 1 : FALSE
    BY ONLY 1 \in Nat
  <2> QED BY <1>3, <2>1, <2>2, <2>3 DEF PathLess
<1>4. CASE s[1] = t[1] /\ Len(s) = 2 /\ Len(t) = 2
  <2>1. s[2] < t[2]
    BY <1>2, <1>4 DEF PathRank, Second
  <2>2. 2 \in 1 .. Len(s) /\ 2 <= Len(t) /\ \A j \in 1 .. 2 - 1 : s[j] = t[j]
    BY <1>4
  <2> QED BY <2>1, <2>2 DEF PathLess
<1>5. CASE s[1] = t[1] /\ Len(s) = 1 /\ Len(t) = 2
  <2>1. SubSeq(s, 1, 1) = SubSeq(t, 1, 1)
    <3>1. SubSeq(s, 1, 1) = [i \in 1 .. 1 |-> s[i]] /\ SubSeq(t, 1, 1) = [i \in 1 .. 1 |-> t[i]]
      BY <1>1, <1>5
    <3>2. \A i \in 1 .. 1 : i = 1
      BY ONLY 1 \in Nat
    <3> QED BY <1>5, <3>1, <3>2
  <2>2. s # t
    BY <1>5
  <2>3. IsPrefix(s, t)
    BY <1>5, <2>1 DEF IsPrefix
  <2> QED BY <2>2, <2>3 DEF PathLess
<1>6. s[1] < t[1] \/ (s[1] = t[1] /\ Len(t) = 2)
  <2>1. PICK a \in 0 .. 19 : a = s[1]
    BY NamesOfPath
  <2>2. PICK b \in 0 .. 19 : b = t[1]
    BY NamesOfPath
  <2>x. PICK x \in 0 .. 20 : x = Second(s)
    BY NamesOfPath
  <2>y. PICK y \in 0 .. 20 : y = Second(t)
    BY NamesOfPath
  <2>3. 25 * a + x < 25 * b + y
    BY <2>1, <2>2, <2>x, <2>y DEF PathRank
  <2>4. a < b \/ (a = b /\ y # 0)
    BY ONLY a \in 0 .. 19, b \in 0 .. 19, x \in 0 .. 20, y \in 0 .. 20, <2>3
  <2> QED BY <2>1, <2>2, <2>y, <2>4, NamesOfPath
<1> QED BY <1>1, <1>3, <1>4, <1>5, <1>6

LEMMA PathRankSame ==
  ASSUME NEW s, NEW t, ShortPath(s), ShortPath(t), PathRank(s) = PathRank(t)
  PROVE  s = t
<1>1. s \in Seq(0 .. 19) /\ t \in Seq(0 .. 19) /\ Len(s) \in {1, 2} /\ Len(t) \in {1, 2}
  BY DEF ShortPath
<1>2. s[1] \in 0 .. 19 /\ t[1] \in 0 .. 19 /\ (Len(s) = 2 => s[2] \in 0 .. 19) /\ (Len(t) = 2 => t[2] \in 0 .. 19)
  BY <1>1
<1>3. Len(s) = Len(t) /\ s[1] = t[1] /\ (Len(s) = 2 => s[2] = t[2])
  <2>1. PICK a \in 0 .. 19 : a = s[1]
    BY NamesOfPath
  <2>2. PICK b \in 0 .. 19 : b = t[1]
    BY NamesOfPath
  <2>x. PICK x \in 0 .. 20 : x = Second(s)
    BY NamesOfPath
  <2>y. PICK y \in 0 .. 20 : y = Second(t)
    BY NamesOfPath
  <2>3. 25 * a + x = 25 * b + y
    BY <2>1, <2>2, <2>x, <2>y DEF PathRank
  <2>4. a = b /\ x = y
    BY ONLY a \in 0 .. 19, b \in 0 .. 19, x \in 0 .. 20, y \in 0 .. 20, <2>3
  <2>5. s[1] = t[1] /\ Second(s) = Second(t)
    BY <2>1, <2>2, <2>x, <2>y, <2>4
  <2>6. Len(s) = 2 <=> Len(t) = 2
    BY <2>5, NamesOfPath
  <2>7. ASSUME Len(s) = 2 PROVE s[2] = t[2]
    BY <1>2, <2>5, <2>6, <2>7 DEF Second
  <2> QED BY <1>1, <2>5, <2>6, <2>7
<1> QED BY <1>1, <1>3

LEMMA FileIs ==
  ASSUME NEW f \in HttpFiles
  PROVE  ShortPath(f) /\ ShortPath(FoldPath(f)) /\ Len(FoldPath(f)) = Len(f) /\ f \in Seq(1 .. 19)
<1>1. f \in Seq(1 .. 19) /\ Len(f) \in {1, 2}
  BY HttpIndexAssumption
<1>2. \A i \in 1 .. Len(f) : f[i] \in 1 .. 19 /\ Fold(f[i]) \in 0 .. 19
  BY <1>1 DEF Fold
<1>3. FoldPath(f) \in Seq(0 .. 19) /\ Len(FoldPath(f)) = Len(f)
  BY <1>1, <1>2 DEF FoldPath
<1>4. f \in Seq(0 .. 19)
  BY <1>1, <1>2
<1> QED BY <1>1, <1>3, <1>4 DEF ShortPath

\* The order of the list is that of a number.
FileRank(f) == 1000 * PathRank(FoldPath(f)) + PathRank(f)
LEMMA RankedBefore ==
  ASSUME NEW f \in HttpFiles, NEW g \in HttpFiles
  PROVE  FileRank(f) \in Nat /\ (FileRank(f) <= FileRank(g) => f = g \/ Before(f, g))
<1>1. /\ ShortPath(f) /\ ShortPath(FoldPath(f)) /\ ShortPath(g) /\ ShortPath(FoldPath(g))
  BY FileIs
<1>a. PathRank(FoldPath(f)) \in 0 .. 999 /\ PathRank(f) \in 0 .. 999 /\ PathRank(FoldPath(g)) \in 0 .. 999 /\ PathRank(g) \in 0 .. 999
  BY <1>1, PathRankType
<1>b. PICK a \in 0 .. 999 : a = PathRank(FoldPath(f))
  BY <1>a
<1>c. PICK b \in 0 .. 999 : b = PathRank(f)
  BY <1>a
<1>d. PICK c \in 0 .. 999 : c = PathRank(FoldPath(g))
  BY <1>a
<1>e. PICK d \in 0 .. 999 : d = PathRank(g)
  BY <1>a
<1>2. a = PathRank(FoldPath(f)) /\ b = PathRank(f) /\ c = PathRank(FoldPath(g)) /\ d = PathRank(g)
  BY <1>b, <1>c, <1>d, <1>e
<1>3. FileRank(f) = 1000 * a + b /\ FileRank(g) = 1000 * c + d
  BY <1>2 DEF FileRank
<1>4. ASSUME FileRank(f) <= FileRank(g) PROVE f = g \/ Before(f, g)
  <2>1. a < c \/ (a = c /\ b < d) \/ (a = c /\ b = d)
    <3>1. 1000 * a + b <= 1000 * c + d
      BY <1>3, <1>4
    <3> QED BY ONLY a \in 0 .. 999, b \in 0 .. 999, c \in 0 .. 999, d \in 0 .. 999, <3>1
  <2>2. CASE a < c
    BY <1>1, <1>2, <2>2, PathRankLess DEF Before
  <2>3. CASE a = c /\ b < d
    <3>1. FoldPath(f) = FoldPath(g)
      BY <1>1, <1>2, <2>3, PathRankSame
    <3>2. PathLess(f, g)
      BY <1>1, <1>2, <2>3, PathRankLess
    <3> QED BY <3>1, <3>2 DEF Before
  <2>4. CASE a = c /\ b = d
    BY <1>1, <1>2, <2>4, PathRankSame
  <2> QED BY <2>1, <2>2, <2>3, <2>4
<1>5. 1000 * a + b \in Nat
  BY ONLY a \in 0 .. 999, b \in 0 .. 999
<1> QED BY <1>3, <1>4, <1>5

LEMMA FirstFile ==
  ASSUME NEW S, S \subseteq HttpFiles, S # {}
  PROVE  \E f \in S : \A g \in S : f = g \/ Before(f, g)
<1> DEFINE R == {FileRank(f) : f \in S}
<1>1. R \subseteq Nat /\ R # {}
  BY RankedBefore
<1>2. PICK m \in R : \A k \in R : m <= k
  BY <1>1, SmallestOf
<1>3. PICK f \in S : m = FileRank(f)
  BY <1>2
<1>4. \A g \in S : FileRank(f) <= FileRank(g)
  BY <1>2, <1>3
<1> QED BY <1>4, RankedBefore

LEMMA OwnerIs ==
  ASSUME NEW files, files \subseteq HttpFiles, NEW h \in files, NEW key, key = Fold(Startup(h)), NEW f, f = FlatOwner(files, key)
  PROVE  f \in files /\ Fold(Startup(f)) = key
<1> DEFINE same == {g \in files : Fold(Startup(g)) = key}
           root == {g \in same : InRoot(g)}
<1>1. h \in same /\ same \subseteq HttpFiles /\ root \subseteq HttpFiles /\ root \subseteq same
  OBVIOUS
<1>2. CASE \E g \in same : InRoot(g)
  <2>1. root # {}
    BY <1>2
  <2>2. PICK w \in root : \A g \in root : w = g \/ Before(w, g)
    BY <1>1, <2>1, FirstFile
  <2>3. w \in same /\ InRoot(w) /\ \A g \in same : InRoot(g) => w = g \/ Before(w, g)
    BY <2>2
  <2>4. f = CHOOSE w2 \in same : InRoot(w2) /\ \A g \in same : InRoot(g) => w2 = g \/ Before(w2, g)
    BY <1>2 DEF FlatOwner
  <2>5. f \in same
    BY <2>3, <2>4
  <2> QED BY <2>5
<1>3. CASE ~ \E g \in same : InRoot(g)
  <2>1. PICK w \in same : \A g \in same : w = g \/ Before(w, g)
    <3>1. same \subseteq HttpFiles /\ same # {}
      BY <1>1
    <3> HIDE DEF same
    <3> QED BY <3>1, FirstFile
  <2>2. f = CHOOSE w2 \in same : \A g \in same : w2 = g \/ Before(w2, g)
    BY <1>3 DEF FlatOwner
  <2>3. f \in same
    BY <2>1, <2>2
  <2> QED BY <2>3
<1> QED BY <1>2, <1>3

\* A name in the URL that is a file's: of the flat profile.
LEMMA FlatRowLeadsHome ==
  ASSUME NEW files, files \subseteq HttpFiles, NEW f \in Rows(TRUE, files), NEW got, got = LookupFlat(files, <<f[Len(f)]>>)
  PROVE  got = f \/ (got = <<>> /\ Fold(Startup(f)) \in AmbiguousNames(files))
<1>1. f \in {FlatOwner(files, Fold(Startup(h))) : h \in files}
  BY DEF Rows
<1>2. PICK h \in files : f = FlatOwner(files, Fold(Startup(h)))
  BY <1>1
<1>3. PICK key : key = Fold(Startup(h))
  OBVIOUS
<1>4. f \in files /\ Fold(Startup(f)) = key
  BY <1>2, <1>3, OwnerIs
<1>5. PICK path : path = <<f[Len(f)]>>
  OBVIOUS
<1>6. Len(path) = 1 /\ path[Len(path)] = Startup(f) /\ Len(FoldPath(path)) = 1
  BY <1>5 DEF Startup, FoldPath
<1>7. {g \in files : ~InRoot(g) /\ FoldPath(g) = FoldPath(path)} = {}
  BY <1>6, FileIs DEF InRoot
<1>8. got = IF key \in AmbiguousNames(files) \/ ~\E g \in files : Fold(Startup(g)) = key THEN <<>> ELSE FlatOwner(files, key)
  BY <1>4, <1>5, <1>6, <1>7 DEF LookupFlat
<1> QED BY <1>2, <1>3, <1>4, <1>8

\* The path of a file: of the path-aware profile.
LEMMA PathRowLeadsHome ==
  ASSUME NEW files, files \subseteq HttpFiles, NEW f \in Retained(files)
  PROVE  LookupPath(files, f) = f
<1>1. f \in HttpFiles
  BY DEF Retained, FirstOfStartup
<1>2. f \in Seq(1 .. 19) /\ Len(f) \in {1, 2}
  BY <1>1, FileIs DEF ShortPath
<1>3. SubSeq(f, 1, Len(f)) = f
  BY <1>2
<1> DEFINE listed == Retained(files)
           Folded(p) == {g \in listed : FoldPath(g) = FoldPath(p)}
           At(i) == LET p == SubSeq(f, i, Len(f)) IN IF p \in listed THEN {p} ELSE Folded(p)
           hits == {i \in 1 .. Len(f) : At(i) # {}}
<1>4. At(1) = {f}
  BY <1>3
<1>5. LookupPath(files, f) = IF hits = {} THEN <<>>
                             ELSE LET i == CHOOSE i \in hits : \A j \in hits : i <= j
                                  IN  IF Cardinality(At(i)) = 1 THEN CHOOSE g \in At(i) : TRUE ELSE <<>>
  BY DEF LookupPath
<1>6. 1 \in hits /\ \A j \in hits : j \in Int /\ 1 <= j
  <2>1. 1 \in 1 .. Len(f) /\ \A j \in 1 .. Len(f) : j \in Int /\ 1 <= j
    <3>1. PICK l \in {1, 2} : l = Len(f)
      BY <1>2
    <3>2. 1 \in 1 .. l /\ \A j \in 1 .. l : j \in Int /\ 1 <= j
      BY ONLY <3>1
    <3> QED BY <3>1, <3>2
  <2>2. At(1) # {}
    BY <1>4
  <2> HIDE DEF At
  <2> QED BY <2>1, <2>2
<1>7. PICK n : n = CHOOSE i \in hits : \A j \in hits : i <= j
  OBVIOUS
<1> HIDE DEF hits, At
<1>8. n = 1
  <2>1. n \in hits /\ \A j \in hits : n <= j
    BY <1>6, <1>7
  <2> QED BY <1>6, <2>1
<1>9. Cardinality({f}) = 1 /\ (CHOOSE g \in {f} : TRUE) = f
  BY FS_Singleton
<1>10. hits # {}
  BY <1>6
<1>11. LookupPath(files, f) = IF Cardinality(At(n)) = 1 THEN CHOOSE g \in At(n) : TRUE ELSE <<>>
  BY <1>5, <1>7, <1>10
<1> QED BY <1>4, <1>8, <1>9, <1>11

LEMMA RowsLead ==
  ASSUME gameIndex.files \subseteq HttpFiles, gameIndex.flat \in BOOLEAN
  PROVE  RowsLeadHome
<1> SUFFICES ASSUME NEW f \in Rows(gameIndex.flat, gameIndex.files), NEW got,
                    got = Lookup(gameIndex.flat, gameIndex.files, IF gameIndex.flat THEN <<f[Len(f)]>> ELSE f)
             PROVE  got = f \/ (gameIndex.flat /\ got = <<>> /\ Fold(Startup(f)) \in AmbiguousNames(gameIndex.files))
  BY DEF RowsLeadHome
<1>1. CASE gameIndex.flat = TRUE
  <2>1. got = LookupFlat(gameIndex.files, <<f[Len(f)]>>) /\ f \in Rows(TRUE, gameIndex.files)
    BY <1>1 DEF Lookup
  <2> QED BY <1>1, <2>1, FlatRowLeadsHome
<1>2. CASE gameIndex.flat = FALSE
  <2>1. got = LookupPath(gameIndex.files, f) /\ f \in Retained(gameIndex.files)
    BY <1>2 DEF Lookup, Rows
  <2> QED BY <2>1, PathRowLeadsHome
<1> QED BY <1>1, <1>2

\* The index holds files there can be.
IndexFiles ==
  /\ DOMAIN library = {"files", "rootChanges", "subChanges"} /\ DOMAIN gameIndex = {"flat", "files", "token", "lock", "building"}
  /\ library.files \subseteq HttpFiles /\ gameIndex.files \subseteq HttpFiles /\ gameIndex.building \subseteq HttpFiles
  /\ gameIndex.flat \in BOOLEAN

LEMMA IndexFilesStart ==
  ASSUME IndexInit
  PROVE  IndexFiles
<1>1. PICK files \in SUBSET HttpFiles, flat \in BOOLEAN :
        /\ library = [files |-> files, rootChanges |-> 0, subChanges |-> 0]
        /\ gameIndex = [flat |-> flat, files |-> files, token |-> <<0, 0>>, lock |-> "none", building |-> {}]
  BY DEF IndexInit
<1> QED BY <1>1 DEF IndexFiles

LEMMA IndexFilesStep ==
  ASSUME IndexFiles, [IndexNext]_indexVars
  PROVE  IndexFiles'
<1>1. CASE FolderChanges
  <2>1. PICK f \in HttpFiles :
          library' = [library EXCEPT !.files = IF f \in @ THEN @ \ {f} ELSE @ \cup {f},
                                    !.rootChanges = @ + (IF InRoot(f) THEN 1 ELSE 0),
                                    !.subChanges = @ + (IF InRoot(f) THEN 0 ELSE 1)]
    BY <1>1 DEF FolderChanges
  <2>2. DOMAIN library' = DOMAIN library /\ library'.files = IF f \in library.files THEN library.files \ {f} ELSE library.files \cup {f}
    BY <2>1 DEF IndexFiles
  <2>3. gameIndex' = gameIndex
    BY <1>1 DEF FolderChanges
  <2> QED BY <2>2, <2>3 DEF IndexFiles
<1>2. ASSUME NEW t \in HttpThreads, ScanRoot(t) \/ ScanSub(t) \/ RebuildRoot(t) \/ RebuildSub(t) PROVE IndexFiles'
  <2>1. library' = library
    BY <1>2 DEF ScanRoot, ScanSub, RebuildRoot, RebuildSub
  <2>2. CASE gameIndex' = gameIndex
    BY <2>1, <2>2 DEF IndexFiles
  <2>3. CASE gameIndex' = [gameIndex EXCEPT !.lock = t, !.building = {f \in library.files : InRoot(f)}]
    BY <2>1, <2>3 DEF IndexFiles
  <2>4. CASE gameIndex' = [gameIndex EXCEPT !.lock = "none", !.building = {}, !.token = scans[t].token,
                     !.files = gameIndex.building \cup {f \in library.files : ~InRoot(f)}]
    BY <2>1, <2>4 DEF IndexFiles
  <2> QED BY <1>2, <2>2, <2>3, <2>4 DEF ScanRoot, ScanSub, RebuildRoot, RebuildSub
<1>3. CASE UNCHANGED indexVars
  BY <1>3 DEF indexVars, IndexFiles
<1> QED BY <1>1, <1>2, <1>3 DEF IndexNext

\* GameIndex.refresh, _build_riptopl_csv, _rebuild_flat, lookup and _lookup_path (http_server.py): the
\* index the request threads share catches up with the folder, and every row of the games.csv it
\* serves leads back to the file the row was made for (with the flat profile to that file, or to
\* none when another file has its name), for any set of files, threads and limit of rows.
THEOREM IndexServesWhatItLists == IndexSpec => []IndexServes
<1>1. IndexInit => IndexFiles
  BY IndexFilesStart
<1>2. IndexFiles /\ [IndexNext]_indexVars => IndexFiles'
  BY IndexFilesStep
<1>3. IndexFiles => RowsLeadHome
  BY RowsLead DEF IndexFiles
<1>4. IndexNeverStuck /\ RowsLeadHome => IndexServes
  BY DEF IndexServes
<1> QED BY <1>1, <1>2, <1>3, <1>4, IndexCatchesUp, PTL DEF IndexSpec

-----------------------------------------------------------------------------
(* UdpfsDirectory: a folder as it is shown is the folder as it is served.    *)

\* The extensions of a name.
LEMMA ExtensionOf ==
  ASSUME NEW a, NEW b PROVE Ext(<<a, b>>) = b /\ Len(<<a, b>>) = 2 /\ Ext(<<a, b, "iso">>) = "iso" /\ Len(<<a, b, "iso">>) = 3
BY DEF Ext

LEMMA NamesOf ==
  ASSUME NEW n \in DirNames, Ext(n) # "iso" PROVE n = <<n[1], n[2]>>
<1>1. n = <<n[1], n[2]>> \/ n = <<n[1], n[2], "iso">>
  BY DirectoryAssumption DEF IsoName
<1>2. Ext(<<n[1], n[2], "iso">>) = "iso"
  BY ExtensionOf
<1> QED BY <1>1, <1>2

LEMMA ContainerNames ==
  ASSUME NEW n \in DirNames, IsContainer(n) PROVE n = <<n[1], n[2]>>
<1>1. n = <<n[1], n[2]>> \/ n = <<n[1], n[2], "iso">>
  BY DirectoryAssumption DEF IsoName
<1>2. Len(n) = 2
  BY DEF IsContainer
<1>3. Len(<<n[1], n[2], "iso">>) = 3
  BY ExtensionOf
<1> QED BY <1>1, <1>2, <1>3

\* The three kinds of entries.
LEMMA EntryKinds ==
  ASSUME NEW files \in SUBSET DirNames, NEW e \in Prepare(files)
  PROVE  /\ e = [name |-> e.name, source |-> e.source] /\ e.source \in files
         /\ \/ e.name = e.source /\ ~IsContainer(e.source)
            \/ /\ e.name = IsoName(e.source) /\ e.name \notin files
               /\ IsContainer(e.source) /\ Readable(e.source)
            \/ /\ e.source = <<e.name[1], "chd">> /\ Virtual(files, e.name[1])
               /\ e.name \in {<<e.name[1], "cue">>, <<e.name[1], "bin">>}
<1>1. CASE \E n \in {f \in files : ~IsContainer(f)} : e = [name |-> n, source |-> n]
  BY <1>1
<1>2. CASE \E n \in {f \in files : IsContainer(f) /\ Readable(f) /\ IsoName(f) \notin files} : e = [name |-> IsoName(n), source |-> n]
  BY <1>2
<1>3. CASE \E n \in {f \in files : Ext(f) = "chd" /\ Virtual(files, f[1])}, x \in {"cue", "bin"} : e = [name |-> <<n[1], x>>, source |-> n]
  <2>1. PICK n \in files, x \in {"cue", "bin"} : Ext(n) = "chd" /\ Virtual(files, n[1]) /\ e = [name |-> <<n[1], x>>, source |-> n]
    BY <1>3
  <2>2. n = <<n[1], n[2]>>
    BY <2>1, NamesOf
  <2>3. n[2] = "chd"
    <3>1. Ext(<<n[1], n[2]>>) = n[2]
      BY ExtensionOf
    <3> QED BY <2>1, <2>2, <3>1
  <2>4. e.name = <<n[1], x>> /\ e.source = n /\ e.name[1] = n[1]
    BY <2>1
  <2>5. e.source = <<e.name[1], "chd">>
    BY <2>2, <2>3, <2>4
  <2>6. e.name \in {<<e.name[1], "cue">>, <<e.name[1], "bin">>}
    BY <2>1, <2>4
  <2>7. Virtual(files, e.name[1]) /\ e.source \in files /\ e = [name |-> e.name, source |-> e.source]
    BY <2>1, <2>4
  <2> QED BY <2>5, <2>6, <2>7
<1> QED BY <1>1, <1>2, <1>3 DEF Prepare

\* Every advertised name leads back to the file it stands for, in OPEN and in GETSTAT.
LEMMA AdvertisedIsServed ==
  ASSUME NEW files \in SUBSET DirNames, NEW e \in Prepare(files)
  PROVE  OpenSource(files, e.name) = e.source /\ StatSource(files, e.name) = e.source
<1> PICK nm, src : nm = e.name /\ src = e.source
  OBVIOUS
<1>1. CASE nm = src /\ ~IsContainer(src)
  BY <1>1, EntryKinds DEF OpenSource, StatSource
<1>2. CASE nm = IsoName(src) /\ nm \notin files /\ IsContainer(src) /\ Readable(src)
  <2>1. src \in files /\ src = <<src[1], src[2]>>
    BY <1>2, EntryKinds, ContainerNames
  <2>2. Ext(nm) = "iso" /\ Len(nm) = 3 /\ <<nm[1], nm[2]>> = src
    BY <1>2, <2>1, ExtensionOf DEF IsoName
  <2>3. Sibling(files, nm) = src
    BY <2>1, <2>2 DEF Sibling
  <2>4. src # <<>>
    BY <2>1
  <2> QED BY <1>2, <2>3, <2>4 DEF OpenSource, StatSource
<1>3. CASE src = <<nm[1], "chd">> /\ Virtual(files, nm[1]) /\ nm \in {<<nm[1], "cue">>, <<nm[1], "bin">>}
  <2>1. nm \notin files
    BY <1>3 DEF Virtual
  <2>2. Ext(nm) \in {"cue", "bin"}
    <3>1. Ext(<<nm[1], "cue">>) = "cue" /\ Ext(<<nm[1], "bin">>) = "bin"
      BY ExtensionOf
    <3> QED BY <1>3, <3>1
  <2>3. Sibling(files, nm) = <<>>
    BY <2>2 DEF Sibling
  <2> QED BY <1>3, <2>1, <2>2, <2>3 DEF OpenSource, StatSource
<1> QED BY <1>1, <1>2, <1>3, EntryKinds

\* DREAD passes over no entry that a listing made now would have.
LEMMA CurrentNotSkipped ==
  ASSUME folder \in SUBSET DirNames, NEW e \in Prepare(folder)
  PROVE  ~Skips(e)
<1> PICK nm, src : nm = e.name /\ src = e.source
  OBVIOUS
<1>1. src \in folder
  BY EntryKinds
<1>2. CASE nm = src
  <2>1. ~(Ext(nm) \in {"cue", "bin"} /\ Ext(src) = "chd")
    BY <1>2
  <2> QED BY <1>1, <2>1 DEF Skips
<1>3. CASE nm = IsoName(src)
  <2>1. Ext(nm) = "iso"
    <3>1. Ext(<<src[1], src[2], "iso">>) = "iso"
      BY ExtensionOf
    <3> QED BY <1>3, <3>1 DEF IsoName
  <2> QED BY <1>1, <2>1 DEF Skips
<1>4. CASE Virtual(folder, nm[1])
  BY <1>1, <1>4 DEF Skips, Virtual
<1> QED BY <1>2, <1>3, <1>4, EntryKinds

\* A listing is finite.
LEMMA PrepareFinite ==
  ASSUME NEW files \in SUBSET DirNames PROVE IsFiniteSet(Prepare(files))
<1>1. IsFiniteSet(files)
  BY DirectoryAssumption, FS_Subset
<1>2. PICK plain : plain = {f \in files : ~IsContainer(f)}
  OBVIOUS
<1>3. PICK iso : iso = {f \in files : IsContainer(f) /\ Readable(f) /\ IsoName(f) \notin files}
  OBVIOUS
<1>4. PICK chd : chd = {f \in files : Ext(f) = "chd" /\ Virtual(files, f[1])}
  OBVIOUS
<1>5. IsFiniteSet(plain) /\ IsFiniteSet(iso) /\ IsFiniteSet(chd)
  BY <1>1, <1>2, <1>3, <1>4, FS_Subset
<1>6. IsFiniteSet({[name |-> n, source |-> n] : n \in plain})
  <2>1. PICK g : g = [n \in plain |-> [name |-> n, source |-> n]]
    OBVIOUS
  <2>2. {[name |-> n, source |-> n] : n \in plain} = {g[n] : n \in plain}
    BY <2>1
  <2>3. g \in Surjection(plain, {g[n] : n \in plain})
    BY <2>1 DEF Surjection
  <2> QED BY <1>5, <2>2, <2>3, FS_Surjection
<1>7. IsFiniteSet({[name |-> IsoName(n), source |-> n] : n \in iso})
  <2>1. PICK g : g = [n \in iso |-> [name |-> IsoName(n), source |-> n]]
    OBVIOUS
  <2>2. {[name |-> IsoName(n), source |-> n] : n \in iso} = {g[n] : n \in iso}
    BY <2>1
  <2>3. g \in Surjection(iso, {g[n] : n \in iso})
    BY <2>1 DEF Surjection
  <2> QED BY <1>5, <2>2, <2>3, FS_Surjection
<1>8. IsFiniteSet({[name |-> <<n[1], "cue">>, source |-> n] : n \in chd})
  <2>1. PICK g : g = [n \in chd |-> [name |-> <<n[1], "cue">>, source |-> n]]
    OBVIOUS
  <2>2. {[name |-> <<n[1], "cue">>, source |-> n] : n \in chd} = {g[n] : n \in chd}
    BY <2>1
  <2>3. g \in Surjection(chd, {g[n] : n \in chd})
    BY <2>1 DEF Surjection
  <2> QED BY <1>5, <2>2, <2>3, FS_Surjection
<1>9. IsFiniteSet({[name |-> <<n[1], "bin">>, source |-> n] : n \in chd})
  <2>1. PICK g : g = [n \in chd |-> [name |-> <<n[1], "bin">>, source |-> n]]
    OBVIOUS
  <2>2. {[name |-> <<n[1], "bin">>, source |-> n] : n \in chd} = {g[n] : n \in chd}
    BY <2>1
  <2>3. g \in Surjection(chd, {g[n] : n \in chd})
    BY <2>1 DEF Surjection
  <2> QED BY <1>5, <2>2, <2>3, FS_Surjection
<1>10. {[name |-> <<n[1], e>>, source |-> n] : n \in chd, e \in {"cue", "bin"}}
       = {[name |-> <<n[1], "cue">>, source |-> n] : n \in chd} \cup {[name |-> <<n[1], "bin">>, source |-> n] : n \in chd}
  OBVIOUS
<1>11. Prepare(files) = ({[name |-> n, source |-> n] : n \in plain} \cup {[name |-> IsoName(n), source |-> n] : n \in iso})
                        \cup {[name |-> <<n[1], e>>, source |-> n] : n \in chd, e \in {"cue", "bin"}}
  BY <1>2, <1>3, <1>4 DEF Prepare
<1>12. PICK a, b, c, d : /\ a = {[name |-> n, source |-> n] : n \in plain} /\ b = {[name |-> IsoName(n), source |-> n] : n \in iso}
                         /\ c = {[name |-> <<n[1], "cue">>, source |-> n] : n \in chd}
                         /\ d = {[name |-> <<n[1], "bin">>, source |-> n] : n \in chd}
  OBVIOUS
<1>13. IsFiniteSet(a) /\ IsFiniteSet(b) /\ IsFiniteSet(c) /\ IsFiniteSet(d)
  BY <1>6, <1>7, <1>8, <1>9, <1>12
<1>14. Prepare(files) = (a \cup b) \cup (c \cup d)
  BY <1>10, <1>11, <1>12
<1>15. IsFiniteSet(a \cup b) /\ IsFiniteSet(c \cup d)
  BY ONLY <1>13, FS_Union
<1>16. IsFiniteSet((a \cup b) \cup (c \cup d))
  BY ONLY <1>15, FS_Union
<1> QED BY <1>14, <1>16

\* An entry is told by its name.
LEMMA OneEntryPerName ==
  ASSUME NEW files \in SUBSET DirNames, NEW e \in Prepare(files), NEW f \in Prepare(files), e.name = f.name
  PROVE  e = f
<1>1. e.source = f.source
  BY AdvertisedIsServed
<1> QED BY <1>1, EntryKinds

\* What a directory handle holds: the entries of the folder as it was at DOPEN, those up to the
\* index that were passed on, and among them every one that has stood all the while.
Lists(entries, set) ==
  /\ entries \in Seq(set)
  /\ \A i, j \in 1 .. Len(entries) : entries[i] = entries[j] => i = j
  /\ \A e \in set : \E i \in 1 .. Len(entries) : entries[i] = e
ShownSoFar(entries, index, shown, steady) ==
  /\ \A j \in 1 .. Len(shown) : \E i \in 1 .. index : shown[j] = entries[i]
  /\ \A j, k \in 1 .. Len(shown) : shown[j].name = shown[k].name => j = k
  /\ \A i \in 1 .. index : entries[i] \in steady => \E j \in 1 .. Len(shown) : shown[j] = entries[i]
WalkOf(d, was, now) ==
  /\ Lists(d.entries, Prepare(was)) /\ d.index \in 0 .. Len(d.entries) /\ d.shown \in Seq(Prepare(was))
  /\ d.steady \subseteq Prepare(was) /\ d.steady \subseteq Prepare(now) /\ (d.unchanged = TRUE => was = now)
  /\ ShownSoFar(d.entries, d.index, d.shown, d.steady)
HandleFields == {"open", "told", "entries", "index", "shown", "steady", "unchanged"}
HandleOf(d, now) == d = NoDir \/ (DOMAIN d = HandleFields /\ d.open = TRUE /\ d.unchanged \in BOOLEAN /\ \E was \in SUBSET DirNames : WalkOf(d, was, now))
DirectoryInv ==
  /\ folder \in SUBSET DirNames
  /\ DOMAIN dirs = 1 .. DirHandles
  /\ \A h \in 1 .. DirHandles : HandleOf(dirs[h], folder)

\* A handle's walk gives what the console relies on.
LEMMA WalkServes ==
  ASSUME DirectoryInv PROVE FolderShown
<1>1. ASSUME NEW h \in OpenDirs
      PROVE  /\ \A i, j \in 1 .. Len(dirs[h].shown) : dirs[h].shown[i].name = dirs[h].shown[j].name => i = j
             /\ dirs[h].unchanged => \A i \in 1 .. Len(dirs[h].shown) :
                   /\ OpenSource(folder, dirs[h].shown[i].name) = dirs[h].shown[i].source
                   /\ StatSource(folder, dirs[h].shown[i].name) = dirs[h].shown[i].source
             /\ dirs[h].index = Len(dirs[h].entries) => dirs[h].steady \subseteq ToSet(dirs[h].shown)
  <2>1. PICK d : d = dirs[h]
    OBVIOUS
  <2>2. HandleOf(d, folder) /\ d # NoDir
    BY <1>1, <2>1 DEF DirectoryInv, OpenDirs, NoDir
  <2>3. PICK was \in SUBSET DirNames : WalkOf(d, was, folder)
    BY <2>2 DEF HandleOf
  <2>4. \A i, j \in 1 .. Len(d.shown) : d.shown[i].name = d.shown[j].name => i = j
    BY <2>3 DEF WalkOf, ShownSoFar
  <2>5. ASSUME d.unchanged, NEW i \in 1 .. Len(d.shown)
        PROVE  OpenSource(folder, d.shown[i].name) = d.shown[i].source /\ StatSource(folder, d.shown[i].name) = d.shown[i].source
    <3>1. d.unchanged = TRUE
      BY <2>2, <2>5 DEF HandleOf
    <3>2. was = folder /\ d.shown \in Seq(Prepare(was))
      BY <2>3, <3>1 DEF WalkOf
    <3>3. d.shown[i] \in Prepare(folder)
      BY <2>5, <3>2
    <3> QED BY <3>3, AdvertisedIsServed DEF DirectoryInv
  <2>6. ASSUME d.index = Len(d.entries), NEW e \in d.steady PROVE e \in ToSet(d.shown)
    <3>1. e \in Prepare(was)
      BY <2>3, <2>6 DEF WalkOf
    <3>2. PICK i \in 1 .. Len(d.entries) : d.entries[i] = e
      BY <2>3, <3>1 DEF WalkOf, Lists
    <3>3. PICK j \in 1 .. Len(d.shown) : d.shown[j] = e
      BY <2>3, <2>6, <3>2 DEF WalkOf, ShownSoFar
    <3>4. DOMAIN d.shown = 1 .. Len(d.shown)
      BY <2>3 DEF WalkOf
    <3> QED BY <3>3, <3>4 DEF ToSet
  <2> QED BY <2>1, <2>4, <2>5, <2>6
<1>2. ShownIsServed
  BY <1>1 DEF ShownIsServed
<1>3. DirectoryComplete
  BY <1>1 DEF DirectoryComplete
<1> QED BY <1>2, <1>3 DEF FolderShown

LEMMA DopenStep == ASSUME DirectoryInv, Dopen PROVE DirectoryInv'
<1>1. folder' = folder
  BY DEF Dopen
<1>2. PICK told \in BOOLEAN : dirs' = [dirs EXCEPT ![CHOOSE h \in 1 .. DirHandles : ~dirs[h].open] =
                  [open |-> TRUE, told |-> told, entries |-> Listing(folder), index |-> 0, shown |-> <<>>,
                   steady |-> Prepare(folder), unchanged |-> TRUE]]
  BY DEF Dopen
<1>3. PICK g : g = (CHOOSE h \in 1 .. DirHandles : ~dirs[h].open)
  OBVIOUS
<1>4. PICK d : d = [open |-> TRUE, told |-> told, entries |-> Listing(folder), index |-> 0, shown |-> <<>>,
                   steady |-> Prepare(folder), unchanged |-> TRUE]
  OBVIOUS
<1>5. dirs' = [dirs EXCEPT ![g] = d]
  BY <1>2, <1>3, <1>4
<1>6. PICK all : all = Prepare(folder)
  OBVIOUS
<1>7. folder \in SUBSET DirNames /\ IsFiniteSet(all)
  BY <1>6, PrepareFinite DEF DirectoryInv
<1>8. PICK l : l = SetToSeq(all)
  OBVIOUS
<1>9. l \in Seq(all) /\ (\A i, j \in DOMAIN l : i # j => l[i] # l[j]) /\ (\A x \in all : \E i \in DOMAIN l : l[i] = x)
  BY <1>7, <1>8, SequenceOfSet
<1>10. Lists(l, all)
  BY <1>9 DEF Lists
<1>11. /\ d.open = TRUE /\ d.entries = l /\ d.index = 0 /\ d.shown = <<>> /\ d.steady = all /\ d.unchanged = TRUE
  BY <1>4, <1>6, <1>8 DEF Listing
<1>12. WalkOf(d, folder, folder)
  <2>1. ShownSoFar(d.entries, d.index, d.shown, d.steady)
    BY <1>11 DEF ShownSoFar
  <2>2. Len(l) \in Nat
    BY <1>9
  <2> QED BY <1>6, <1>10, <1>11, <2>1, <2>2 DEF WalkOf
<1>13. HandleOf(d, folder)
  <2>1. DOMAIN d = HandleFields
    BY <1>4 DEF HandleFields
  <2> QED BY <1>7, <1>11, <1>12, <2>1 DEF HandleOf
<1>14. DOMAIN dirs' = 1 .. DirHandles /\ \A h \in 1 .. DirHandles : dirs'[h] = IF h = g THEN d ELSE dirs[h]
  BY <1>5 DEF DirectoryInv
<1> QED BY <1>1, <1>13, <1>14 DEF DirectoryInv

LEMMA DreadStep == ASSUME DirectoryInv, NEW h \in 1 .. DirHandles, Dread(h) PROVE DirectoryInv'
<1>1. folder' = folder /\ folder \in SUBSET DirNames
  BY DEF Dread, DirectoryInv
<1>2. PICK d : d = dirs[h]
  OBVIOUS
<1>3. HandleOf(d, folder) /\ d # NoDir
  BY <1>2 DEF DirectoryInv, Dread, NoDir
<1>4. PICK was \in SUBSET DirNames : WalkOf(d, was, folder)
  BY <1>3 DEF HandleOf
<1>5. Len(d.entries) \in Nat /\ d.index \in 0 .. Len(d.entries) /\ d.index < Len(d.entries)
  BY <1>2, <1>4 DEF WalkOf, Lists, Dread
<1>6. PICK n \in Nat : n = Len(d.entries)
  BY <1>5
<1>7. PICK k \in Nat : k = d.index /\ k < n
  BY <1>5, <1>6
<1>8. PICK e : e = Advanced(d)
  OBVIOUS
<1>9. dirs' = [dirs EXCEPT ![h] = e]
  BY <1>2, <1>8 DEF Dread
<1>10. PICK rest : rest = Ahead(d) /\ rest = {i \in k + 1 .. n : ~Skips(d.entries[i])}
  BY <1>6, <1>7 DEF Ahead
<1>11. /\ d.entries \in Seq(Prepare(was)) /\ d.shown \in Seq(Prepare(was)) /\ d.steady \subseteq Prepare(folder)
       /\ ShownSoFar(d.entries, k, d.shown, d.steady) /\ Lists(d.entries, Prepare(was)) /\ DOMAIN d = HandleFields
  BY <1>3, <1>4, <1>7 DEF WalkOf, Lists, HandleOf
<1>12. ASSUME NEW i \in k + 1 .. n, d.entries[i] \in d.steady PROVE i \in rest
  BY <1>1, <1>10, <1>11, <1>12, CurrentNotSkipped
<1>13. ASSUME WalkOf(e, was, folder), e.open = d.open, e.unchanged = d.unchanged, DOMAIN e = HandleFields PROVE DirectoryInv'
  <2>1. HandleOf(e, folder)
    BY <1>3, <1>13 DEF HandleOf
  <2>2. DOMAIN dirs' = 1 .. DirHandles /\ \A g \in 1 .. DirHandles : dirs'[g] = IF g = h THEN e ELSE dirs[g]
    BY <1>9 DEF DirectoryInv
  <2> QED BY <1>1, <2>1, <2>2 DEF DirectoryInv
<1>14. CASE rest = {}
  <2>1. e = [d EXCEPT !.index = n]
    BY <1>6, <1>8, <1>10, <1>14 DEF Advanced
  <2>2. /\ e.entries = d.entries /\ e.shown = d.shown /\ e.steady = d.steady /\ e.unchanged = d.unchanged /\ e.open = d.open
        /\ e.index = n /\ DOMAIN e = HandleFields
    BY <1>11, <2>1 DEF HandleFields
  <2>3. \A i \in 1 .. n : d.entries[i] \in d.steady => i \in 1 .. k
    BY <1>12, <1>14
  <2>4. ShownSoFar(d.entries, n, d.shown, d.steady)
    BY <1>7, <1>11, <2>3 DEF ShownSoFar
  <2>5. WalkOf(e, was, folder)
    BY <1>4, <1>6, <2>2, <2>4 DEF WalkOf
  <2> QED BY <1>13, <2>2, <2>5
<1>15. CASE rest # {}
  <2>1. \E m \in rest : \A j \in rest : m <= j
    <3>1. rest \subseteq Nat
      BY <1>10
    <3> QED BY <1>15, <3>1, SmallestOf
  <2>2. PICK m : m = (CHOOSE i \in rest : \A j \in rest : i <= j)
    OBVIOUS
  <2>3. m \in rest /\ \A j \in rest : m <= j
    BY <2>1, <2>2
  <2>4. PICK w : w = Append(d.shown, d.entries[m])
    OBVIOUS
  <2>5. e = [d EXCEPT !.index = m, !.shown = w]
    BY <1>8, <1>10, <1>15, <2>2, <2>4 DEF Advanced
  <2>6. /\ e.entries = d.entries /\ e.shown = w /\ e.steady = d.steady /\ e.unchanged = d.unchanged /\ e.open = d.open
        /\ e.index = m /\ DOMAIN e = HandleFields
    BY <1>11, <2>5 DEF HandleFields
  <2>7. m \in k + 1 .. n
    BY <1>10, <2>3
  <2>8. PICK l \in Nat : l = Len(d.shown)
    BY <1>11
  <2>9. PICK x \in Prepare(was) : x = d.entries[m]
    BY <1>6, <1>11, <2>7
  <2>10. /\ w \in Seq(Prepare(was)) /\ Len(w) = l + 1 /\ w[l + 1] = x /\ \A j \in 1 .. l : w[j] = d.shown[j]
    BY <1>11, <2>4, <2>8, <2>9
  <2>11. \A j \in 1 .. l + 1 : \E i \in 1 .. m : w[j] = d.entries[i]
    <3> TAKE j \in 1 .. l + 1
    <3>1. CASE j = l + 1
      BY <2>7, <2>9, <2>10, <3>1
    <3>2. CASE j \in 1 .. l
      <4>1. PICK i \in 1 .. k : d.shown[j] = d.entries[i]
        BY <1>11, <2>8, <3>2 DEF ShownSoFar
      <4> QED BY <2>7, <2>10, <3>2, <4>1
    <3> QED BY <3>1, <3>2
  <2>12. \A j \in 1 .. l : d.shown[j].name # x.name
    <3> SUFFICES ASSUME NEW j \in 1 .. l, d.shown[j].name = x.name PROVE FALSE
      OBVIOUS
    <3>1. PICK i \in 1 .. k : d.shown[j] = d.entries[i]
      BY <1>11, <2>8 DEF ShownSoFar
    <3>2. d.shown[j] \in Prepare(was)
      BY <1>11, <2>8
    <3>3. d.shown[j] = x
      BY <3>2, OneEntryPerName
    <3>4. i = m
      <4>1. i \in 1 .. n /\ m \in 1 .. n
        BY <1>7, <2>7
      <4>2. d.entries[i] = d.entries[m]
        BY <2>9, <3>1, <3>3
      <4>3. \A a, b \in 1 .. n : d.entries[a] = d.entries[b] => a = b
        BY <1>6, <1>11 DEF Lists
      <4> QED BY <4>1, <4>2, <4>3
    <3> QED BY <2>7, <3>4
  <2>13. \A j, i \in 1 .. l + 1 : w[j].name = w[i].name => j = i
    <3> SUFFICES ASSUME NEW j \in 1 .. l + 1, NEW i \in 1 .. l + 1, w[j].name = w[i].name PROVE j = i
      OBVIOUS
    <3>1. CASE j \in 1 .. l /\ i \in 1 .. l
      BY <1>11, <2>8, <2>10, <3>1 DEF ShownSoFar
    <3>2. CASE j \in 1 .. l /\ i = l + 1
      BY <2>10, <2>12, <3>2
    <3>3. CASE j = l + 1 /\ i \in 1 .. l
      BY <2>10, <2>12, <3>3
    <3> QED BY <3>1, <3>2, <3>3
  <2>14. \A i \in 1 .. m : d.entries[i] \in d.steady => \E j \in 1 .. l + 1 : w[j] = d.entries[i]
    <3> SUFFICES ASSUME NEW i \in 1 .. m, d.entries[i] \in d.steady PROVE \E j \in 1 .. l + 1 : w[j] = d.entries[i]
      OBVIOUS
    <3>1. CASE i = m
      BY <2>9, <2>10, <3>1
    <3>2. CASE i \in 1 .. k
      <4>1. PICK j \in 1 .. l : d.shown[j] = d.entries[i]
        BY <1>11, <2>8, <3>2 DEF ShownSoFar
      <4> QED BY <2>10, <4>1
    <3>3. i \in k + 1 .. n => m <= i
      BY <1>12, <2>3
    <3> QED BY <2>7, <3>1, <3>2, <3>3
  <2>15. ShownSoFar(d.entries, m, w, d.steady)
    BY <2>10, <2>11, <2>13, <2>14 DEF ShownSoFar
  <2>16. WalkOf(e, was, folder)
    BY <1>4, <1>6, <1>7, <2>6, <2>7, <2>10, <2>15 DEF WalkOf
  <2> QED BY <1>13, <2>6, <2>16
<1> QED BY <1>14, <1>15

LEMMA NameChangesStep == ASSUME DirectoryInv, NEW n \in DirNames, NameChanges(n) PROVE DirectoryInv'
<1>1. PICK now \in SUBSET DirNames : folder' = now
  BY DEF NameChanges, DirectoryInv
<1>2. dirs' = [h \in 1 .. DirHandles |->
               IF dirs[h].open THEN [dirs[h] EXCEPT !.unchanged = FALSE, !.steady = dirs[h].steady \cap Prepare(now)] ELSE NoDir]
  BY <1>1 DEF NameChanges
<1>3. ASSUME NEW h \in 1 .. DirHandles PROVE HandleOf(dirs'[h], now)
  <2>1. PICK d : d = dirs[h] /\ HandleOf(d, folder)
    BY DEF DirectoryInv
  <2>2. CASE d = NoDir
    <3>1. ~d.open
      BY <2>2 DEF NoDir
    <3> QED BY <1>2, <2>1, <3>1 DEF HandleOf
  <2>3. CASE d # NoDir
    <3>1. DOMAIN d = HandleFields /\ d.open = TRUE
      BY <2>1, <2>3 DEF HandleOf
    <3>2. PICK was \in SUBSET DirNames : WalkOf(d, was, folder)
      BY <2>1, <2>3 DEF HandleOf
    <3>3. PICK st : st = d.steady \cap Prepare(now)
      OBVIOUS
    <3>4. PICK e : e = [d EXCEPT !.unchanged = FALSE, !.steady = st]
      OBVIOUS
    <3>5. dirs'[h] = e
      BY <1>2, <2>1, <3>1, <3>3, <3>4
    <3>6. /\ e.entries = d.entries /\ e.shown = d.shown /\ e.steady = st /\ e.unchanged = FALSE /\ e.open = TRUE
          /\ e.index = d.index /\ DOMAIN e = HandleFields
      BY <3>1, <3>4 DEF HandleFields
    <3>7. ShownSoFar(d.entries, d.index, d.shown, st)
      BY <3>2, <3>3 DEF WalkOf, ShownSoFar
    <3>8. WalkOf(e, was, now)
      BY <3>2, <3>3, <3>6, <3>7 DEF WalkOf
    <3> QED BY <3>5, <3>6, <3>8 DEF HandleOf
  <2> QED BY <2>2, <2>3
<1> QED BY <1>1, <1>2, <1>3 DEF DirectoryInv

LEMMA DirectoryStep == ASSUME DirectoryInv, [DirectoryNext]_directoryVars PROVE DirectoryInv'
<1>1. CASE Dopen
  BY <1>1, DopenStep
<1>2. ASSUME NEW h \in 1 .. DirHandles, Dread(h) PROVE DirectoryInv'
  BY <1>2, DreadStep
<1>3. ASSUME NEW h \in 1 .. DirHandles, CloseDir(h) PROVE DirectoryInv'
  <2>1. folder' = folder /\ dirs' = [dirs EXCEPT ![h] = NoDir]
    BY <1>3 DEF CloseDir
  <2>2. HandleOf(NoDir, folder)
    BY DEF HandleOf
  <2> QED BY <2>1, <2>2 DEF DirectoryInv
<1>4. ASSUME NEW n \in DirNames, NameChanges(n) PROVE DirectoryInv'
  BY <1>4, NameChangesStep
<1>5. CASE UNCHANGED directoryVars
  BY <1>5 DEF directoryVars, DirectoryInv, HandleOf, WalkOf
<1> QED BY <1>1, <1>2, <1>3, <1>4, <1>5 DEF DirectoryNext

\* The folders of UDPFS (udpfs_server.py, _handle_dread, _handle_open, _handle_getstat), for any names
\* and any number of handles: no name is shown twice, none that stands all the while is left out, and
\* each opens the file it was shown for as long as the folder has not changed.
THEOREM FolderAsShown == DirectorySpec => []FolderShown
<1>1. DirectoryInit => DirectoryInv
  BY DEF DirectoryInit, DirectoryInv, HandleOf
<1>2. DirectoryInv /\ [DirectoryNext]_directoryVars => DirectoryInv'
  BY DirectoryStep
<1>3. DirectoryInv => FolderShown
  BY WalkServes
<1> QED BY <1>1, <1>2, <1>3, PTL DEF DirectorySpec

-----------------------------------------------------------------------------
(* Smb1Server: searches are complete, and creating destroys nothing.         *)

\* What a search holds: the entries as they were at FIND_FIRST2, and those heard up to the cursor.
Walks(entries, names) ==
  /\ entries \in Seq(Int)
  /\ \A i, j \in 1 .. Len(entries) : entries[i] = entries[j] => i = j
  /\ \A n \in names \cup {0, -1} : \E i \in 1 .. Len(entries) : entries[i] = n
SearchOf(s, names) ==
  /\ Walks(s.entries, names) /\ s.cursor \in 1 .. Len(s.entries) /\ s.steady \subseteq names
  /\ s.heard \in Seq(Int) /\ Len(s.heard) = s.cursor /\ (\A i \in 1 .. s.cursor : s.heard[i] = s.entries[i])
  /\ s.eos \in BOOLEAN /\ (s.eos = TRUE => s.cursor = Len(s.entries))
SearchFields == {"open", "entries", "cursor", "heard", "steady", "eos"}
SearchOk(s) == s = NoSearch \/ (DOMAIN s = SearchFields /\ s.open = TRUE /\ \E names \in SUBSET Smb1Names : SearchOf(s, names))
ConnFields == {"tree", "file", "searches", "op"}
ConnOk(k) ==
  /\ DOMAIN k = ConnFields /\ DOMAIN k.searches = 1 .. MaxSearches
  /\ \A i \in 1 .. MaxSearches : SearchOk(k.searches[i])
Smb1Inv ==
  /\ DOMAIN disk1 = Smb1Names
  /\ DOMAIN conn1 = Smb1Consoles /\ \A c \in Smb1Consoles : ConnOk(conn1[c])

\* A search that is kept gives the console what it relies on.
LEMMA WalkComplete == ASSUME Smb1Inv PROVE SearchComplete
<1> SUFFICES ASSUME NEW c \in Smb1Consoles, NEW i \in 1 .. MaxSearches, NEW s, s = conn1[c].searches[i], s.open
             PROVE  (s.eos => s.steady \cup {0, -1} \subseteq ToSet(s.heard)) /\ IsInjective(s.heard)
  BY DEF SearchComplete
<1>1. SearchOk(s) /\ s # NoSearch
  BY DEF Smb1Inv, ConnOk, NoSearch
<1>2. PICK names \in SUBSET Smb1Names : SearchOf(s, names)
  BY <1>1 DEF SearchOk
<1>3. PICK n \in Nat : n = Len(s.entries)
  BY <1>2 DEF SearchOf, Walks
<1>4. PICK k \in 1 .. n : k = s.cursor
  BY <1>2, <1>3 DEF SearchOf
<1>5. DOMAIN s.heard = 1 .. k /\ \A j \in 1 .. k : s.heard[j] = s.entries[j]
  BY <1>2, <1>4 DEF SearchOf
<1>6. \A a, b \in 1 .. n : s.entries[a] = s.entries[b] => a = b
  BY <1>2, <1>3 DEF SearchOf, Walks
<1>7. IsInjective(s.heard)
  <2> SUFFICES ASSUME NEW a \in 1 .. k, NEW b \in 1 .. k, s.heard[a] = s.heard[b] PROVE a = b
    BY <1>5 DEF IsInjective
  <2>1. s.entries[a] = s.entries[b] /\ a \in 1 .. n /\ b \in 1 .. n
    BY <1>5
  <2> QED BY <1>6, <2>1
<1>8. ASSUME s.eos, NEW x \in s.steady \cup {0, -1} PROVE x \in ToSet(s.heard)
  <2>1. s.eos = TRUE
    BY <1>2, <1>8 DEF SearchOf
  <2>2. k = n
    BY <1>2, <1>3, <1>4, <2>1 DEF SearchOf
  <2>3. x \in names \cup {0, -1}
    BY <1>2, <1>8 DEF SearchOf
  <2>4. PICK a \in 1 .. n : s.entries[a] = x
    BY <1>2, <1>3, <2>3 DEF SearchOf, Walks
  <2>5. s.heard[a] = x /\ a \in DOMAIN s.heard
    BY <1>5, <2>2, <2>4
  <2> QED BY <2>5 DEF ToSet
<1> QED BY <1>7, <1>8

\* One connection changes.
LEMMA OneConn ==
  ASSUME Smb1Inv, NEW c \in Smb1Consoles, NEW k, ConnOk(k), conn1' = [conn1 EXCEPT ![c] = k], disk1' = disk1
  PROVE  Smb1Inv'
<1>1. DOMAIN conn1' = Smb1Consoles /\ \A b \in Smb1Consoles : conn1'[b] = IF b = c THEN k ELSE conn1[b]
  BY DEF Smb1Inv
<1> QED BY <1>1 DEF Smb1Inv, ConnOk

\* A connection with other files, trees or requests, and the same searches.
LEMMA SameSearches ==
  ASSUME NEW k, ConnOk(k), NEW m, DOMAIN m = ConnFields, m.searches = k.searches PROVE ConnOk(m)
BY DEF ConnOk

\* What another disk leaves of a search.
LEMMA SeenSearchOk == ASSUME NEW s, SearchOk(s), NEW d PROVE SearchOk(SeenSearch(s, d))
<1>1. CASE s = NoSearch
  BY <1>1 DEF SeenSearch, SearchOk, NoSearch
<1>2. CASE s # NoSearch
  <2>1. DOMAIN s = SearchFields /\ s.open = TRUE
    BY <1>2 DEF SearchOk
  <2>2. PICK names \in SUBSET Smb1Names : SearchOf(s, names)
    BY <1>2 DEF SearchOk
  <2>3. PICK st : st = {n \in s.steady : d[n] # Missing}
    OBVIOUS
  <2>4. PICK t : t = [s EXCEPT !.steady = st]
    OBVIOUS
  <2>5. SeenSearch(s, d) = t
    BY <2>1, <2>3, <2>4 DEF SeenSearch
  <2>6. /\ DOMAIN t = SearchFields /\ t.open = TRUE /\ t.entries = s.entries /\ t.cursor = s.cursor /\ t.heard = s.heard
        /\ t.eos = s.eos /\ t.steady = st
    BY <2>1, <2>4 DEF SearchFields
  <2>7. SearchOf(t, names)
    BY <2>2, <2>3, <2>6 DEF SearchOf
  <2> QED BY <2>5, <2>6, <2>7 DEF SearchOk
<1> QED BY <1>1, <1>2

LEMMA SeenOk ==
  ASSUME NEW conns, NEW d, \A c \in Smb1Consoles : ConnOk(conns[c]), NEW m, m = Seen(conns, d)
  PROVE  DOMAIN m = Smb1Consoles /\ \A c \in Smb1Consoles : ConnOk(m[c]) /\ m[c].op = conns[c].op
<1>1. DOMAIN m = Smb1Consoles
  BY DEF Seen
<1>2. ASSUME NEW c \in Smb1Consoles PROVE ConnOk(m[c]) /\ m[c].op = conns[c].op
  <2>1. PICK k : k = conns[c] /\ ConnOk(k)
    OBVIOUS
  <2>2. PICK ss : ss = [s \in 1 .. MaxSearches |-> SeenSearch(k.searches[s], d)]
    OBVIOUS
  <2>3. PICK f : f = SeenFile(k.file, d)
    OBVIOUS
  <2>4. m[c] = [k EXCEPT !.searches = ss, !.file = f]
    BY <2>1, <2>2, <2>3 DEF Seen
  <2>5. DOMAIN m[c] = ConnFields /\ m[c].searches = ss /\ m[c].op = k.op
    BY <2>1, <2>4 DEF ConnOk, ConnFields
  <2>6. \A i \in 1 .. MaxSearches : SearchOk(ss[i])
    BY <2>1, <2>2, SeenSearchOk DEF ConnOk
  <2> QED BY <2>1, <2>2, <2>5, <2>6 DEF ConnOk
<1> QED BY <1>1, <1>2

\* One search of a connection changes.
LEMMA OneSearch ==
  ASSUME Smb1Inv, NEW c \in Smb1Consoles, NEW i \in 1 .. MaxSearches, NEW t, SearchOk(t),
         conn1' = [conn1 EXCEPT ![c].searches[i] = t], disk1' = disk1
  PROVE  Smb1Inv'
<1>1. PICK k : k = conn1[c] /\ ConnOk(k)
  BY DEF Smb1Inv
<1>2. PICK ss : ss = [k.searches EXCEPT ![i] = t]
  OBVIOUS
<1>3. PICK m : m = [k EXCEPT !.searches = ss]
  OBVIOUS
<1>4. conn1' = [conn1 EXCEPT ![c] = m]
  BY <1>1, <1>2, <1>3
<1>5. DOMAIN m = ConnFields /\ m.searches = ss
  BY <1>1, <1>3 DEF ConnOk, ConnFields
<1>6. DOMAIN ss = 1 .. MaxSearches /\ \A j \in 1 .. MaxSearches : SearchOk(ss[j])
  BY <1>1, <1>2 DEF ConnOk
<1>7. ConnOk(m)
  BY <1>5, <1>6 DEF ConnOk
<1> QED BY <1>4, <1>7, OneConn

\* The entries of FIND_FIRST2.
LEMMA EntriesWalk ==
  ASSUME NEW names \in SUBSET Smb1Names, NEW l, l = <<0, -1>> \o Sorted(names)
  PROVE  Walks(l, names) /\ l[1] = 0 /\ Len(l) >= 2
<1>1. IsFiniteSet(names) /\ names \subseteq Nat /\ 0 \notin names
  BY Smb1Assumption, FS_Subset
<1>2. PICK t : t = Sorted(names)
  OBVIOUS
<1>3. t \in Seq(names) /\ (\A i, j \in DOMAIN t : i # j => t[i] # t[j]) /\ (\A x \in names : \E i \in DOMAIN t : t[i] = x)
  <2>1. HasEach(t, names)
    BY ONLY <1>1, <1>2, SortedHasEach
  <2> QED BY <2>1 DEF HasEach
<1>4. PICK n \in Nat : n = Len(t)
  BY <1>3
<1>5. \A i \in 1 .. n : t[i] \in names /\ t[i] \in Nat /\ t[i] # 0
  <2>1. \A i \in 1 .. n : t[i] \in names
    BY ONLY <1>3, <1>4
  <2> QED BY ONLY <1>1, <2>1
<1>6. t \in Seq(Int)
  <2>1. t = [i \in 1 .. n |-> t[i]]
    BY ONLY <1>3, <1>4
  <2> QED BY ONLY <1>5, <2>1, n \in Nat
<1>7. /\ l \in Seq(Int) /\ Len(l) = n + 2 /\ l[1] = 0 /\ l[2] = -1
      /\ \A i \in 1 .. n : l[i + 2] = t[i]
  BY <1>2, <1>6, <1>4
<1>8. ASSUME NEW i \in 1 .. n + 2, NEW j \in 1 .. n + 2, l[i] = l[j], i < j PROVE FALSE
  <2>1. CASE i = 1 /\ j = 2
    BY <1>7, <1>8, <2>1
  <2>2. CASE i \in {1, 2} /\ j \in 3 .. n + 2
    <3>1. j - 2 \in 1 .. n /\ l[j] = t[j - 2]
      <4>1. PICK q \in 1 .. n : q = j - 2
        BY <2>2
      <4>2. q + 2 = j
        BY <4>1
      <4> QED BY <1>7, <4>1, <4>2
    <3>2. l[j] \in Nat /\ l[j] # 0
      BY <1>5, <3>1
    <3> QED BY <1>7, <1>8, <2>2, <3>2
  <2>3. CASE i \in 3 .. n + 2 /\ j \in 3 .. n + 2
    <3>1. PICK p \in 1 .. n : p = i - 2 /\ p + 2 = i
      BY <2>3
    <3>2. PICK q \in 1 .. n : q = j - 2 /\ q + 2 = j
      BY <2>3
    <3>3. l[i] = t[p] /\ l[j] = t[q] /\ p # q
      BY <1>7, <1>8, <3>1, <3>2
    <3>4. DOMAIN t = 1 .. n
      BY ONLY <1>3, <1>4
    <3>5. t[p] # t[q]
      BY ONLY <1>3, <3>3, <3>4, p \in 1 .. n, q \in 1 .. n
    <3> QED BY <1>8, <3>3, <3>5
  <2> QED BY <1>8, <2>1, <2>2, <2>3
<1>9. \A i, j \in 1 .. Len(l) : l[i] = l[j] => i = j
  <2> SUFFICES ASSUME NEW i \in 1 .. n + 2, NEW j \in 1 .. n + 2, l[i] = l[j], i # j PROVE FALSE
    BY <1>7
  <2>1. i < j \/ j < i
    OBVIOUS
  <2> QED BY <1>8, <2>1
<1>10. ASSUME NEW x \in names \cup {0, -1} PROVE \E i \in 1 .. Len(l) : l[i] = x
  <2>1. CASE x = 0 \/ x = -1
    BY <1>7, <2>1
  <2>2. CASE x \in names
    <3>1. PICK i \in 1 .. n : t[i] = x
      BY <1>3, <1>4, <2>2
    <3>2. i + 2 \in 1 .. n + 2 /\ l[i + 2] = x
      BY <1>7, <3>1
    <3> QED BY <1>7, <3>2
  <2> QED BY <1>10, <2>1, <2>2
<1> QED BY <1>7, <1>9, <1>10 DEF Walks

LEMMA FindFirst2Step == ASSUME Smb1Inv, NEW c \in Smb1Consoles, FindFirst2(c) PROVE Smb1Inv'
<1>1. PICK names \in SUBSET Smb1Names : names = {n \in Smb1Names : There(n)}
  OBVIOUS
<1>2. PICK l : l = <<0, -1>> \o Sorted(names)
  OBVIOUS
<1>3. PICK t : t = [open |-> TRUE, entries |-> l, cursor |-> 1, heard |-> <<0>>, steady |-> names, eos |-> FALSE]
  OBVIOUS
<1>4. disk1' = disk1 /\ \E i \in 1 .. MaxSearches : conn1' = [conn1 EXCEPT ![c].searches[i] = t]
  BY <1>1, <1>2, <1>3 DEF FindFirst2
<1>5. PICK i \in 1 .. MaxSearches : conn1' = [conn1 EXCEPT ![c].searches[i] = t]
  BY <1>4
<1>6. Walks(l, names) /\ l[1] = 0 /\ Len(l) >= 2
  BY <1>2, EntriesWalk
<1>7. /\ t.open = TRUE /\ t.entries = l /\ t.cursor = 1 /\ t.heard = <<0>> /\ t.steady = names /\ t.eos = FALSE
      /\ DOMAIN t = SearchFields
  BY <1>3 DEF SearchFields
<1>8. SearchOf(t, names)
  <2>1. PICK n \in Nat : n = Len(l) /\ n >= 2
    BY <1>6 DEF Walks
  <2>2. t.cursor \in 1 .. Len(t.entries)
    BY <1>7, <2>1
  <2>3. t.heard \in Seq(Int) /\ Len(t.heard) = 1 /\ t.heard[1] = 0
    BY <1>7
  <2>4. \A j \in 1 .. t.cursor : t.heard[j] = t.entries[j]
    BY <1>6, <1>7, <2>3
  <2>5. t.eos \in BOOLEAN /\ (t.eos = TRUE => t.cursor = Len(t.entries))
    BY <1>7
  <2> QED BY <1>6, <1>7, <2>2, <2>3, <2>4, <2>5 DEF SearchOf
<1>9. SearchOk(t)
  BY <1>7, <1>8 DEF SearchOk
<1> QED BY <1>4, <1>5, <1>9, OneSearch

LEMMA FindNext2Step == ASSUME Smb1Inv, NEW c \in Smb1Consoles, FindNext2(c) PROVE Smb1Inv'
<1>1. PICK i \in 1 .. MaxSearches :
        /\ conn1[c].searches[i].open
        /\ conn1' = [conn1 EXCEPT ![c].searches[i] = Advance(conn1[c].searches[i])]
  BY DEF FindNext2
<1>2. PICK s : s = conn1[c].searches[i]
  OBVIOUS
<1>3. SearchOk(s) /\ s # NoSearch /\ disk1' = disk1
  BY <1>1, <1>2 DEF Smb1Inv, ConnOk, NoSearch, FindNext2
<1>4. PICK names \in SUBSET Smb1Names : SearchOf(s, names)
  BY <1>3 DEF SearchOk
<1>5. PICK n \in Nat : n = Len(s.entries)
  BY <1>4 DEF SearchOf, Walks
<1>6. PICK k \in 1 .. n : k = s.cursor
  BY <1>4, <1>5 DEF SearchOf
<1>7. PICK t : t = Advance(s)
  OBVIOUS
<1>8. CASE k >= n
  <2>1. t = NoSearch
    BY <1>5, <1>6, <1>7, <1>8 DEF Advance
  <2>2. SearchOk(t)
    BY <2>1 DEF SearchOk
  <2> QED BY <1>1, <1>2, <1>3, <1>7, <2>2, OneSearch
<1>9. CASE k < n
  <2>1. PICK w : w = Append(s.heard, s.entries[k + 1])
    OBVIOUS
  <2>2. PICK e \in BOOLEAN : e = (k = n - 1)
    OBVIOUS
  <2>3. t = [s EXCEPT !.cursor = k + 1, !.heard = w, !.eos = e]
    BY <1>5, <1>6, <1>7, <1>9, <2>1, <2>2 DEF Advance
  <2>4. DOMAIN s = SearchFields /\ s.open = TRUE
    BY <1>3 DEF SearchOk
  <2>5. /\ DOMAIN t = SearchFields /\ t.open = TRUE /\ t.entries = s.entries /\ t.cursor = k + 1 /\ t.heard = w
        /\ t.eos = e /\ t.steady = s.steady
    BY <2>3, <2>4 DEF SearchFields
  <2>6. s.heard \in Seq(Int) /\ Len(s.heard) = k /\ s.entries \in Seq(Int) /\ \A j \in 1 .. k : s.heard[j] = s.entries[j]
    BY <1>4, <1>6 DEF SearchOf, Walks
  <2>7. PICK x \in Int : x = s.entries[k + 1]
    BY <1>5, <1>9, <2>6
  <2>8. w \in Seq(Int) /\ Len(w) = k + 1 /\ w[k + 1] = x /\ \A j \in 1 .. k : w[j] = s.heard[j]
    BY <2>1, <2>6, <2>7
  <2>9. \A j \in 1 .. k + 1 : w[j] = s.entries[j]
    BY <2>6, <2>7, <2>8
  <2>10. k + 1 \in 1 .. n /\ (e = TRUE => k + 1 = n)
    <3>1. e = TRUE => k = n - 1
      BY <2>2, Zenon
    <3>2. k \in Nat
      BY <1>6
    <3> QED BY <1>9, <3>1, <3>2
  <2>11. SearchOf(t, names)
    BY <1>4, <1>5, <2>5, <2>8, <2>9, <2>10 DEF SearchOf
  <2>12. SearchOk(t)
    BY <2>5, <2>11 DEF SearchOk
  <2> QED BY <1>1, <1>2, <1>3, <1>7, <2>12, OneSearch
<1> QED BY <1>8, <1>9

LEMMA OtherConnSteps ==
  ASSUME Smb1Inv, NEW c \in Smb1Consoles,
         \/ TreeConnect1(c) \/ TreeDisconnect1(c) \/ OpenAndX(c) \/ NtCreateLook(c) \/ NtCreateOpen(c)
         \/ ReadAndX(c) \/ Close1(c)
  PROVE  Smb1Inv'
<1>1. PICK k : k = conn1[c] /\ ConnOk(k)
  BY DEF Smb1Inv
<1>2. DOMAIN k = ConnFields
  BY <1>1 DEF ConnOk
<1>3. ASSUME NEW m, conn1' = [conn1 EXCEPT ![c] = m], DOMAIN m = ConnFields, m.searches = k.searches, disk1' = disk1 PROVE Smb1Inv'
  BY <1>1, <1>3, SameSearches, OneConn
<1>4. ASSUME NEW v, conn1' = [conn1 EXCEPT ![c].tree = v], disk1' = disk1 PROVE Smb1Inv'
  <2>1. PICK m : m = [k EXCEPT !.tree = v]
    OBVIOUS
  <2>2. conn1' = [conn1 EXCEPT ![c] = m]
    BY <1>1, <1>4, <2>1
  <2>3. DOMAIN m = ConnFields /\ m.searches = k.searches
    BY <1>2, <2>1 DEF ConnFields
  <2> QED BY <1>3, <1>4, <2>2, <2>3
<1>5. ASSUME NEW v, conn1' = [conn1 EXCEPT ![c].file = v], disk1' = disk1 PROVE Smb1Inv'
  <2>1. PICK m : m = [k EXCEPT !.file = v]
    OBVIOUS
  <2>2. conn1' = [conn1 EXCEPT ![c] = m]
    BY <1>1, <1>5, <2>1
  <2>3. DOMAIN m = ConnFields /\ m.searches = k.searches
    BY <1>2, <2>1 DEF ConnFields
  <2> QED BY <1>3, <1>5, <2>2, <2>3
<1>6. ASSUME NEW v, conn1' = [conn1 EXCEPT ![c].op = v], disk1' = disk1 PROVE Smb1Inv'
  <2>1. PICK m : m = [k EXCEPT !.op = v]
    OBVIOUS
  <2>2. conn1' = [conn1 EXCEPT ![c] = m]
    BY <1>1, <1>6, <2>1
  <2>3. DOMAIN m = ConnFields /\ m.searches = k.searches
    BY <1>2, <2>1 DEF ConnFields
  <2> QED BY <1>3, <1>6, <2>2, <2>3
<1>7. CASE TreeConnect1(c) \/ TreeDisconnect1(c)
  BY <1>4, <1>7 DEF TreeConnect1, TreeDisconnect1
<1>8. CASE OpenAndX(c)
  BY <1>5, <1>8 DEF OpenAndX
<1>9. CASE NtCreateLook(c)
  BY <1>6, <1>9 DEF NtCreateLook
<1>10. CASE NtCreateOpen(c)
  <2>1. PICK f : conn1' = [conn1 EXCEPT ![c].op = Conn.op, ![c].file = f]
    BY <1>10 DEF NtCreateOpen
  <2>2. PICK m : m = [k EXCEPT !.op = Conn.op, !.file = f]
    OBVIOUS
  <2>3. conn1' = [conn1 EXCEPT ![c] = m]
    <3>1. PICK o : o = Conn.op
      OBVIOUS
    <3> QED BY <1>1, <2>1, <2>2, <3>1 DEF Smb1Inv
  <2>4. DOMAIN m = ConnFields /\ m.searches = k.searches
    BY <1>2, <2>2 DEF ConnFields
  <2>5. disk1' = disk1
    BY <1>10 DEF NtCreateOpen
  <2> QED BY <1>3, <2>3, <2>4, <2>5
<1>11. CASE ReadAndX(c)
  <2>1. disk1' = disk1 /\ \E v : conn1' = [conn1 EXCEPT ![c].file.buffer = v]
    BY <1>11 DEF ReadAndX
  <2>2. PICK v : conn1' = [conn1 EXCEPT ![c].file.buffer = v]
    BY <2>1
  <2>3. PICK f : f = [k.file EXCEPT !.buffer = v]
    OBVIOUS
  <2>4. conn1' = [conn1 EXCEPT ![c].file = f]
    BY <1>1, <2>2, <2>3
  <2> QED BY <1>5, <2>1, <2>4
<1>12. CASE Close1(c)
  BY <1>5, <1>12 DEF Close1
<1> QED BY <1>7, <1>8, <1>9, <1>10, <1>11, <1>12

\* A step that changes the disk, and what the connections make of it.
LEMMA DiskStep ==
  ASSUME Smb1Inv, NEW n, NEW v, disk1' = [disk1 EXCEPT ![n] = v],
         NEW conns, \A c \in Smb1Consoles : ConnOk(conns[c]), conn1' = Seen(conns, disk1')
  PROVE  Smb1Inv' /\ \A c \in Smb1Consoles : conn1'[c].op = conns[c].op
<1>1. PICK d : d = disk1'
  OBVIOUS
<1>2. PICK m : m = conn1'
  OBVIOUS
<1>3. m = Seen(conns, d)
  BY <1>1, <1>2
<1>4. DOMAIN m = Smb1Consoles /\ \A c \in Smb1Consoles : ConnOk(m[c]) /\ m[c].op = conns[c].op
  BY <1>3, SeenOk
<1>5. DOMAIN disk1' = Smb1Names
  BY DEF Smb1Inv
<1> QED BY <1>2, <1>4, <1>5 DEF Smb1Inv

LEMMA NtCreateActStep == ASSUME Smb1Inv, NEW c \in Smb1Consoles, NtCreateAct(c) PROVE Smb1Inv' /\ conn1'[c].op.kind # "create"
<1>1. PICK o : o = conn1[c].op
  OBVIOUS
<1>2. PICK r : r = CreateCall(o)
  OBVIOUS
<1>3. PICK p : p = IF r.did THEN [kind |-> "opening", name |-> o.name] ELSE Conn.op
  OBVIOUS
<1>4. PICK conns : conns = [conn1 EXCEPT ![c].op = p]
  OBVIOUS
<1>5. disk1' = [disk1 EXCEPT ![o.name] = r.disk] /\ conn1' = Seen(conns, [disk1 EXCEPT ![o.name] = r.disk])
  BY <1>1, <1>2, <1>3, <1>4 DEF NtCreateAct, Disk
<1>6. PICK v : v = r.disk
  OBVIOUS
<1>7. disk1' = [disk1 EXCEPT ![o.name] = v] /\ conn1' = Seen(conns, disk1')
  BY <1>5, <1>6
<1>8. ASSUME NEW b \in Smb1Consoles PROVE ConnOk(conns[b]) /\ (b = c => conns[b].op = p)
  <2>1. PICK k : k = conn1[b] /\ ConnOk(k)
    BY DEF Smb1Inv
  <2>2. CASE b = c
    <3>1. PICK m : m = [k EXCEPT !.op = p]
      OBVIOUS
    <3>2. conns[b] = m
      BY <1>4, <2>1, <2>2, <3>1 DEF Smb1Inv
    <3>3. DOMAIN m = ConnFields /\ m.searches = k.searches /\ m.op = p
      BY <2>1, <3>1 DEF ConnOk, ConnFields
    <3> QED BY <2>1, <3>2, <3>3, SameSearches
  <2>3. CASE b # c
    BY <1>4, <2>1, <2>3 DEF Smb1Inv
  <2> QED BY <2>2, <2>3
<1>9. Smb1Inv' /\ conn1'[c].op = conns[c].op
  BY <1>7, <1>8, DiskStep
<1>10. p.kind # "create"
  BY <1>3 DEF Conn
<1> QED BY <1>8, <1>9, <1>10

LEMMA WriteAndXStep == ASSUME Smb1Inv, NEW c \in Smb1Consoles, WriteAndX(c) PROVE Smb1Inv'
<1>1. PICK f : f = conn1[c].file
  OBVIOUS
<1>2. PICK v \in 1 .. MaxBlock :
         /\ disk1' = [disk1 EXCEPT ![f.name] = v]
         /\ conn1' = [Seen(conn1, [disk1 EXCEPT ![f.name] = v]) EXCEPT ![c].file.wrote = IF f.unlinked THEN -1 ELSE v]
  BY <1>1 DEF WriteAndX
<1>3. PICK d : d = [disk1 EXCEPT ![f.name] = v]
  OBVIOUS
<1>4. PICK x : x = IF f.unlinked THEN -1 ELSE v
  OBVIOUS
<1>5. PICK m : m = Seen(conn1, d)
  OBVIOUS
<1>6. conn1' = [m EXCEPT ![c].file.wrote = x]
  BY <1>2, <1>3, <1>4, <1>5
<1>7. DOMAIN m = Smb1Consoles /\ \A b \in Smb1Consoles : ConnOk(m[b])
  BY <1>5, SeenOk DEF Smb1Inv
<1>8. PICK k : k = m[c] /\ ConnOk(k)
  BY <1>7
<1>9. PICK g : g = [k.file EXCEPT !.wrote = x]
  OBVIOUS
<1>10. PICK e : e = [k EXCEPT !.file = g]
  OBVIOUS
<1>11. conn1' = [m EXCEPT ![c] = e]
  BY <1>6, <1>8, <1>9, <1>10
<1>12. DOMAIN e = ConnFields /\ e.searches = k.searches
  BY <1>8, <1>10 DEF ConnOk, ConnFields
<1>13. ConnOk(e)
  BY <1>8, <1>12, SameSearches
<1>14. DOMAIN conn1' = Smb1Consoles /\ \A b \in Smb1Consoles : conn1'[b] = IF b = c THEN e ELSE m[b]
  BY <1>7, <1>11
<1>15. \A b \in Smb1Consoles : ConnOk(conn1'[b])
  BY <1>7, <1>13, <1>14
<1>16. DOMAIN disk1' = Smb1Names
  BY <1>2 DEF Smb1Inv
<1> QED BY <1>14, <1>15, <1>16 DEF Smb1Inv

LEMMA HostRemovesStep == ASSUME Smb1Inv, NEW n \in Smb1Names, HostRemoves(n) PROVE Smb1Inv'
<1>1. PICK conns : conns = [c \in Smb1Consoles |->
          IF conn1[c].file.open /\ conn1[c].file.name = n /\ ~conn1[c].file.dir /\ ~conn1[c].file.unlinked
          THEN [conn1[c] EXCEPT !.file = [conn1[c].file EXCEPT !.unlinked = TRUE, !.buffer = disk1[n]]] ELSE conn1[c]]
  OBVIOUS
<1>2. disk1' = [disk1 EXCEPT ![n] = Missing] /\ conn1' = Seen(conns, disk1')
  BY <1>1 DEF HostRemoves, Disk
<1>3. ASSUME NEW c \in Smb1Consoles PROVE ConnOk(conns[c])
  <2>1. PICK k : k = conn1[c] /\ ConnOk(k)
    BY DEF Smb1Inv
  <2>2. PICK g : g = [k.file EXCEPT !.unlinked = TRUE, !.buffer = disk1[n]]
    OBVIOUS
  <2>3. PICK e : e = [k EXCEPT !.file = g]
    OBVIOUS
  <2>4. conns[c] = e \/ conns[c] = k
    BY <1>1, <2>1, <2>2, <2>3
  <2>5. DOMAIN e = ConnFields /\ e.searches = k.searches
    BY <2>1, <2>3 DEF ConnOk, ConnFields
  <2> QED BY <2>1, <2>4, <2>5, SameSearches
<1> QED BY <1>2, <1>3, DiskStep

LEMMA CreateDirectoryStep == ASSUME Smb1Inv, NEW c \in Smb1Consoles, CreateDirectory(c) PROVE Smb1Inv'
<1>1. PICK n \in Smb1Names : disk1' = [disk1 EXCEPT ![n] = Directory] /\ conn1' = Seen(conn1, disk1')
  BY DEF CreateDirectory, Disk
<1>2. \A b \in Smb1Consoles : ConnOk(conn1[b])
  BY DEF Smb1Inv
<1> QED BY <1>1, <1>2, DiskStep

\* A connection that begins.
LEMMA ConnBegins == ConnOk(Conn)
<1>1. DOMAIN Conn = ConnFields /\ Conn.searches = [s \in 1 .. MaxSearches |-> NoSearch]
  BY DEF Conn, ConnFields
<1> QED BY <1>1 DEF ConnOk, SearchOk

LEMMA Smb1Step == ASSUME Smb1Inv, [Smb1Next]_smb1Vars PROVE Smb1Inv'
<1>1. ASSUME NEW c \in Smb1Consoles,
             \/ TreeConnect1(c) \/ TreeDisconnect1(c) \/ OpenAndX(c) \/ NtCreateLook(c) \/ NtCreateOpen(c)
             \/ ReadAndX(c) \/ Close1(c)
      PROVE  Smb1Inv'
  BY <1>1, OtherConnSteps
<1>2. ASSUME NEW c \in Smb1Consoles, NtCreateAct(c) PROVE Smb1Inv'
  BY <1>2, NtCreateActStep
<1>3. ASSUME NEW c \in Smb1Consoles, WriteAndX(c) PROVE Smb1Inv'
  BY <1>3, WriteAndXStep
<1>4. ASSUME NEW c \in Smb1Consoles, CreateDirectory(c) PROVE Smb1Inv'
  BY <1>4, CreateDirectoryStep
<1>5. ASSUME NEW c \in Smb1Consoles, FindFirst2(c) PROVE Smb1Inv'
  BY <1>5, FindFirst2Step
<1>6. ASSUME NEW c \in Smb1Consoles, FindNext2(c) PROVE Smb1Inv'
  BY <1>6, FindNext2Step
<1>7. ASSUME NEW c \in Smb1Consoles, Disconnect1(c) PROVE Smb1Inv'
  BY <1>7, ConnBegins, OneConn DEF Disconnect1
<1>8. ASSUME NEW n \in Smb1Names, HostRemoves(n) PROVE Smb1Inv'
  BY <1>8, HostRemovesStep
<1>9. CASE UNCHANGED smb1Vars
  BY <1>9 DEF smb1Vars, Smb1Inv
<1> QED BY <1>1, <1>2, <1>3, <1>4, <1>5, <1>6, <1>7, <1>8, <1>9 DEF Smb1Next

\* The SMBv1 server (smbserver_opl.py, h_trans2_find_first2 and h_trans2_find_next2), for any number of
\* connections, names and searches: a console that stops at EndOfSearch has heard every name that was
\* there all the while, and nothing twice, whatever is created and deleted meanwhile.
THEOREM SearchesComplete == Smb1Spec => []SearchComplete
<1>1. Smb1Init => Smb1Inv
  BY ConnBegins DEF Smb1Init, Smb1Inv
<1>2. Smb1Inv /\ [Smb1Next]_smb1Vars => Smb1Inv'
  BY Smb1Step
<1>3. Smb1Inv => SearchComplete
  BY WalkComplete
<1> QED BY <1>1, <1>2, <1>3, PTL DEF Smb1Spec

\* The step of CreateDestroysNothing.
Overwrites(c, n) ==
  /\ conn1[c].op.kind = "create" /\ conn1[c].op.name = n /\ conn1[c].op.existed
  /\ conn1[c].op.disp = "OVERWRITE_IF" /\ conn1'[c].op # conn1[c].op

LEMMA EmptiedByOverwrite ==
  ASSUME Smb1Inv, Smb1Next, NEW n \in Smb1Names, disk1[n] \in 1 .. MaxBlock, disk1'[n] = 0
  PROVE  \E c \in Smb1Consoles : Overwrites(c, n)
<1>1. disk1' # disk1 /\ DOMAIN disk1 = Smb1Names /\ disk1[n] \in Int /\ disk1[n] > 0
  BY Smb1Assumption DEF Smb1Inv
<1>2. ASSUME NEW c \in Smb1Consoles, NtCreateAct(c) PROVE Overwrites(c, n)
  <2>1. PICK o : o = conn1[c].op
    OBVIOUS
  <2>2. o.kind = "create" /\ disk1' = [disk1 EXCEPT ![o.name] = CreateCall(o).disk]
    BY <1>2, <2>1 DEF NtCreateAct, Disk
  <2>3. o.name = n /\ CreateCall(o).disk = 0
    BY <1>1, <2>2
  <2>4. disk1[o.name] # Missing /\ disk1[o.name] # 0
    BY <1>1, <2>3 DEF Missing
  <2>5. o.existed /\ o.disp = "OVERWRITE_IF"
    BY <2>3, <2>4 DEF CreateCall
  <2>6. conn1'[c].op.kind # "create"
    BY <1>2, NtCreateActStep
  <2> QED BY <2>1, <2>2, <2>3, <2>5, <2>6 DEF Overwrites
<1>3. ASSUME NEW c \in Smb1Consoles, WriteAndX(c) PROVE FALSE
  <2>1. PICK v \in 1 .. MaxBlock : disk1' = [disk1 EXCEPT ![conn1[c].file.name] = v]
    BY <1>3 DEF WriteAndX
  <2>2. v \in Int /\ v > 0
    BY Smb1Assumption
  <2> QED BY <1>1, <2>1, <2>2
<1>4. ASSUME NEW c \in Smb1Consoles, CreateDirectory(c) PROVE FALSE
  <2>1. PICK m \in Smb1Names : disk1' = [disk1 EXCEPT ![m] = -1]
    BY <1>4 DEF CreateDirectory, Disk, Directory
  <2> QED BY <1>1, <2>1
<1>5. ASSUME NEW m \in Smb1Names, HostRemoves(m) PROVE FALSE
  <2>1. disk1' = [disk1 EXCEPT ![m] = -2]
    BY <1>5 DEF HostRemoves, Disk, Missing
  <2> QED BY <1>1, <2>1
<1>6. ASSUME NEW c \in Smb1Consoles,
             \/ TreeConnect1(c) \/ TreeDisconnect1(c) \/ OpenAndX(c) \/ NtCreateLook(c) \/ NtCreateOpen(c)
             \/ ReadAndX(c) \/ Close1(c) \/ FindFirst2(c) \/ FindNext2(c) \/ Disconnect1(c)
      PROVE  FALSE
  <2>1. disk1' = disk1
    BY <1>6 DEF TreeConnect1, TreeDisconnect1, OpenAndX, NtCreateLook, NtCreateOpen, ReadAndX, Close1, FindFirst2, FindNext2, Disconnect1
  <2> QED BY <1>1, <2>1
<1> QED BY <1>2, <1>3, <1>4, <1>5, <1>6 DEF Smb1Next

\* h_nt_create_andx (smbserver_opl.py): between the look at the file system and the call others may do
\* what they like, and still only a console that asked to overwrite a file empties it.
THEOREM NothingDestroyed == Smb1Spec => CreateDestroysNothing
<1>1. Smb1Init => Smb1Inv
  BY ConnBegins DEF Smb1Init, Smb1Inv
<1>2. Smb1Inv /\ [Smb1Next]_smb1Vars => Smb1Inv'
  BY Smb1Step
<1>3. Smb1Inv /\ [Smb1Next]_smb1Vars =>
       [\A n \in Smb1Names : (disk1[n] \in 1 .. MaxBlock /\ disk1'[n] = 0) =>
         \E c \in Smb1Consoles : conn1[c].op.kind = "create" /\ conn1[c].op.name = n /\ conn1[c].op.existed
                               /\ conn1[c].op.disp = "OVERWRITE_IF" /\ conn1'[c].op # conn1[c].op]_smb1Vars
  BY EmptiedByOverwrite DEF Overwrites
<1> QED BY <1>1, <1>2, <1>3, PTL DEF Smb1Spec, CreateDestroysNothing

-----------------------------------------------------------------------------
(* Smb2Files: listings are complete.                                         *)

\* What a handle's listing holds: the names as they were when it was read, those returned up to
\* the cursor, and among them every one that has been there all the while.
Returns(listing, cursor, listed, steady) ==
  /\ \A j \in 1 .. Len(listed) : \E i \in 1 .. cursor : listed[j] = listing[i]
  /\ \A j, k \in 1 .. Len(listed) : listed[j] = listed[k] => j = k
  /\ \A i \in 1 .. cursor : listing[i] \in steady => \E j \in 1 .. Len(listed) : listed[j] = listing[i]
ListingOf(h, names) ==
  /\ HasEach(h.listing, names) /\ h.cursor \in 0 .. Len(h.listing) /\ h.listed \in Seq(names) /\ h.steady \subseteq names
  /\ Returns(h.listing, h.cursor, h.listed, h.steady)
SmbFields == {"open", "path", "isDir", "canWrite", "deleteOnClose", "fh", "mode", "walking", "listing", "cursor", "listed", "steady"}
HandleOk(h) == h = NoHandle \/ (DOMAIN h = SmbFields /\ h.open = TRUE /\ \E names \in SUBSET SmbNames : ListingOf(h, names))
HandleNow(h, fs) == h # NoHandle => \A n \in h.steady : fs[n] # 0
AllOk(handles) ==
  DOMAIN handles = SmbConns /\ \A c \in SmbConns : DOMAIN handles[c] = 1 .. MaxFids /\ \A f \in 1 .. MaxFids : HandleOk(handles[c][f])
Smb2Inv == AllOk(smbHandles) /\ \A c \in SmbConns, f \in 1 .. MaxFids : HandleNow(smbHandles[c][f], smbFs)

LEMMA ListingServes == ASSUME Smb2Inv PROVE ListingComplete
<1> SUFFICES ASSUME NEW c \in SmbConns, NEW f \in OpenFids(c), NEW h, h = smbHandles[c][f]
             PROVE  /\ h.cursor = Len(h.listing) => h.steady \subseteq ToSet(h.listed)
                    /\ IsInjective(h.listed)
  BY DEF ListingComplete
<1>1. HandleOk(h) /\ h # NoHandle
  BY DEF Smb2Inv, AllOk, OpenFids, NoHandle
<1>2. PICK names \in SUBSET SmbNames : ListingOf(h, names)
  BY <1>1 DEF HandleOk
<1>3. DOMAIN h.listed = 1 .. Len(h.listed) /\ DOMAIN h.listing = 1 .. Len(h.listing)
  BY <1>2 DEF ListingOf, HasEach
<1>4. IsInjective(h.listed)
  BY <1>2, <1>3 DEF ListingOf, Returns, IsInjective
<1>5. ASSUME h.cursor = Len(h.listing), NEW x \in h.steady PROVE x \in ToSet(h.listed)
  <2>1. x \in names
    BY <1>2, <1>5 DEF ListingOf
  <2>2. PICK i \in 1 .. Len(h.listing) : h.listing[i] = x
    BY <1>2, <1>3, <2>1 DEF ListingOf, HasEach
  <2>3. PICK j \in 1 .. Len(h.listed) : h.listed[j] = x
    BY <1>2, <1>5, <2>2 DEF ListingOf, Returns
  <2> QED BY <1>3, <2>3 DEF ToSet
<1> QED BY <1>4, <1>5

\* A handle with another path, file object or flag, and the same listing.
LEMMA SameListing ==
  ASSUME NEW h, HandleOk(h), h # NoHandle, NEW g, DOMAIN g = SmbFields, g.open = TRUE,
         g.listing = h.listing, g.cursor = h.cursor, g.listed = h.listed, g.steady = h.steady
  PROVE  HandleOk(g)
<1>1. PICK names \in SUBSET SmbNames : ListingOf(h, names)
  BY DEF HandleOk
<1>2. ListingOf(g, names)
  BY <1>1 DEF ListingOf
<1> QED BY <1>2 DEF HandleOk

\* A handle as CREATE makes it.
LEMMA NewHandleOk ==
  ASSUME NEW p, NEW d, NEW w, NEW x, NEW h, h = [SmbHandle(p, d, w) EXCEPT !.deleteOnClose = x]
  PROVE  HandleOk(h) /\ h # NoHandle /\ h.steady = {}
<1>1. /\ DOMAIN h = SmbFields /\ h.open = TRUE /\ h.listing = <<>> /\ h.cursor = 0 /\ h.listed = <<>> /\ h.steady = {}
  BY DEF SmbHandle, SmbFields
<1>2. HasEach(<<>>, {})
  BY DEF HasEach
<1>3. Returns(h.listing, h.cursor, h.listed, h.steady)
  BY <1>1 DEF Returns
<1>4. ListingOf(h, {})
  <2>1. h.cursor \in 0 .. Len(h.listing)
    BY <1>1
  <2>2. HasEach(h.listing, {}) /\ h.steady \subseteq {}
    BY ONLY <1>1, <1>2
  <2>3. <<>> \in Seq({})
    BY ONLY TRUE
  <2>4. h.listed \in Seq({})
    BY ONLY <1>1, <2>3
  <2> QED BY <1>3, <2>1, <2>2, <2>4 DEF ListingOf
<1>5. h # NoHandle
  BY <1>1 DEF NoHandle
<1> QED BY <1>1, <1>4, <1>5 DEF HandleOk

\* A change of the file system: what has gone is no longer expected of a listing.
LEMMA CommitStep ==
  ASSUME NEW handles, AllOk(handles), NEW fs, NEW m, m = Watch(handles, fs)
  PROVE  AllOk(m) /\ \A c \in SmbConns, f \in 1 .. MaxFids : HandleNow(m[c][f], fs)
<1>1. DOMAIN m = SmbConns /\ \A c \in SmbConns : DOMAIN m[c] = 1 .. MaxFids
  BY DEF Watch
<1>2. ASSUME NEW c \in SmbConns, NEW f \in 1 .. MaxFids PROVE HandleOk(m[c][f]) /\ HandleNow(m[c][f], fs)
  <2>1. PICK h : h = handles[c][f] /\ HandleOk(h)
    BY DEF AllOk
  <2>2. CASE h = NoHandle
    <3>1. m[c][f] = NoHandle
      BY <2>1, <2>2 DEF Watch, NoHandle
    <3> QED BY <3>1 DEF HandleOk, HandleNow
  <2>3. CASE h # NoHandle
    <3>1. DOMAIN h = SmbFields /\ h.open = TRUE
      BY <2>1, <2>3 DEF HandleOk
    <3>2. PICK names \in SUBSET SmbNames : ListingOf(h, names)
      BY <2>1, <2>3 DEF HandleOk
    <3>3. PICK st : st = {n \in h.steady : fs[n] # 0}
      OBVIOUS
    <3>4. PICK g : g = [h EXCEPT !.steady = st]
      OBVIOUS
    <3>5. m[c][f] = g
      BY <2>1, <3>1, <3>3, <3>4 DEF Watch
    <3>6. /\ DOMAIN g = SmbFields /\ g.open = TRUE /\ g.listing = h.listing /\ g.cursor = h.cursor /\ g.listed = h.listed
          /\ g.steady = st
      BY <3>1, <3>4 DEF SmbFields
    <3>7. Returns(g.listing, g.cursor, g.listed, g.steady)
      BY <3>2, <3>3, <3>6 DEF ListingOf, Returns
    <3>8. ListingOf(g, names)
      BY <3>2, <3>3, <3>6, <3>7 DEF ListingOf
    <3> QED BY <3>3, <3>5, <3>6, <3>8 DEF HandleOk, HandleNow
  <2> QED BY <2>2, <2>3
<1> QED BY <1>1, <1>2 DEF AllOk

\* One handle of the table changes.
OnlyAt(m, handles, c, f, h) == \A b \in SmbConns, g \in 1 .. MaxFids : m[b][g] = IF b = c /\ g = f THEN h ELSE handles[b][g]
LEMMA OneHandle ==
  ASSUME NEW handles, AllOk(handles), NEW c \in SmbConns, NEW f \in 1 .. MaxFids, NEW h, HandleOk(h),
         NEW m, m = [handles EXCEPT ![c][f] = h]
  PROVE  AllOk(m) /\ OnlyAt(m, handles, c, f, h)
<1>1. PICK t : t = [handles[c] EXCEPT ![f] = h]
  OBVIOUS
<1>2. m = [handles EXCEPT ![c] = t]
  BY <1>1
<1>3. DOMAIN t = 1 .. MaxFids /\ \A g \in 1 .. MaxFids : t[g] = IF g = f THEN h ELSE handles[c][g]
  BY <1>1 DEF AllOk
<1>4. DOMAIN m = SmbConns /\ \A b \in SmbConns : m[b] = IF b = c THEN t ELSE handles[b]
  BY <1>2 DEF AllOk
<1>5. ASSUME NEW b \in SmbConns PROVE DOMAIN m[b] = 1 .. MaxFids /\ \A g \in 1 .. MaxFids : HandleOk(m[b][g])
  BY <1>3, <1>4 DEF AllOk
<1> QED BY <1>3, <1>4, <1>5 DEF AllOk, OnlyAt

\* The same for a number that may not be that of a handle.
LEMMA AnyHandle ==
  ASSUME NEW handles, AllOk(handles), NEW c \in SmbConns, NEW f, NEW h, f \in 1 .. MaxFids => HandleOk(h),
         NEW m, m = [handles EXCEPT ![c][f] = h]
  PROVE  AllOk(m)
<1>1. CASE f \in 1 .. MaxFids
  BY <1>1, OneHandle
<1>2. CASE f \notin 1 .. MaxFids
  <2>1. PICK t : t = [handles[c] EXCEPT ![f] = h]
    OBVIOUS
  <2>2. m = [handles EXCEPT ![c] = t]
    BY <2>1
  <2>3. DOMAIN t = 1 .. MaxFids /\ \A g \in 1 .. MaxFids : t[g] = handles[c][g]
    BY <1>2, <2>1 DEF AllOk
  <2>4. DOMAIN m = SmbConns /\ \A b \in SmbConns : m[b] = IF b = c THEN t ELSE handles[b]
    BY <2>2 DEF AllOk
  <2>5. ASSUME NEW b \in SmbConns PROVE DOMAIN m[b] = 1 .. MaxFids /\ \A g \in 1 .. MaxFids : HandleOk(m[b][g])
    BY <2>3, <2>4 DEF AllOk
  <2> QED BY <2>4, <2>5 DEF AllOk
<1> QED BY <1>1, <1>2

\* A step that changes the file system.
LEMMA Committed ==
  ASSUME NEW handles, AllOk(handles), NEW fs, smbFs' = fs, smbHandles' = Watch(handles, fs) PROVE Smb2Inv'
<1>1. PICK m : m = smbHandles' /\ m = Watch(handles, fs)
  OBVIOUS
<1>2. AllOk(m) /\ \A c \in SmbConns, f \in 1 .. MaxFids : HandleNow(m[c][f], fs)
  BY <1>1, CommitStep
<1> QED BY <1>1, <1>2 DEF Smb2Inv, AllOk

\* A step that changes one handle and nothing of the file system.
LEMMA OneHandleNow ==
  ASSUME Smb2Inv, NEW c \in SmbConns, NEW f \in 1 .. MaxFids, NEW g, HandleOk(g), \A x \in g.steady : smbFs[x] # 0,
         smbHandles' = SetHandle(c, f, g), smbFs' = smbFs
  PROVE  Smb2Inv'
<1>1. PICK m : m = smbHandles' /\ m = [smbHandles EXCEPT ![c][f] = g]
  BY DEF SetHandle
<1>2. AllOk(m) /\ \A b \in SmbConns, e \in 1 .. MaxFids : m[b][e] = IF b = c /\ e = f THEN g ELSE smbHandles[b][e]
  <2>1. PICK old : old = smbHandles /\ AllOk(old)
    BY DEF Smb2Inv
  <2>2. m = [old EXCEPT ![c][f] = g]
    BY <1>1, <2>1
  <2>3. AllOk(m) /\ OnlyAt(m, old, c, f, g)
    BY ONLY HandleOk(g), c \in SmbConns, f \in 1 .. MaxFids, <2>1, <2>2, OneHandle
  <2> QED BY <2>1, <2>3 DEF OnlyAt
<1>3. \A b \in SmbConns, e \in 1 .. MaxFids : HandleNow(m[b][e], smbFs)
  BY <1>2 DEF Smb2Inv, HandleNow
<1> QED BY <1>1, <1>2, <1>3 DEF Smb2Inv, AllOk

\* A bounded set of numbers has a largest one.
LEMMA LargestOf ==
  ASSUME NEW n \in Nat, NEW S, S \subseteq 1 .. n, S # {}
  PROVE  \E m \in S : \A k \in S : k <= m
<1>1. PICK T : T = {n - k : k \in S}
  OBVIOUS
<1>2. T \subseteq Nat /\ T # {}
  <2>1. ASSUME NEW k \in S PROVE n - k \in Nat
    <3>1. k \in 1 .. n
      OBVIOUS
    <3> QED BY <3>1
  <2> QED BY <1>1, <2>1
<1>3. PICK t \in T : \A u \in T : t <= u
  BY <1>2, SmallestOf
<1>4. PICK m \in S : t = n - m
  BY <1>1
<1>5. ASSUME NEW k \in S PROVE k <= m
  <2>1. n - k \in T
    BY <1>1
  <2>2. n - m <= n - k
    BY <1>3, <1>4, <2>1
  <2>3. k \in Int /\ m \in Int
    OBVIOUS
  <2> QED BY <2>2, <2>3
<1> QED BY <1>5

\* The first of the numbers of a set, as many as there is room for: the cut leaves no gap.
FirstOnes(L, room) == {i \in L : Cardinality({j \in L : j < i}) < room}
NoGap(R, L, room) ==
  /\ IsFiniteSet(R) /\ Cardinality(R) \in Nat /\ R \subseteq L
  /\ Cardinality(R) < room => L \subseteq R
  /\ ~(Cardinality(R) < room) => R # {}
  /\ \A m \in R : \A i \in L : i <= m => i \in R
LEMMA FirstOf ==
  ASSUME NEW n \in Nat, NEW L, L \subseteq 1 .. n, NEW room \in Nat \ {0}, NEW R, R = FirstOnes(L, room)
  PROVE  NoGap(R, L, room)
<1> USE DEF FirstOnes
<1>1. IsFiniteSet(L)
  <2>1. IsFiniteSet(1 .. n)
    BY ONLY n \in Nat, FS_Interval
  <2>2. L \in SUBSET (1 .. n)
    OBVIOUS
  <2> QED BY ONLY <2>1, <2>2, FS_Subset
<1>2. IsFiniteSet(R) /\ R \subseteq L /\ Cardinality(R) \in Nat
  BY <1>1, FS_Subset, FS_CardinalityType
<1> DEFINE Lower(x) == {j \in L : j < x}
<1>3. \A x \in L : IsFiniteSet(Lower(x)) /\ Cardinality(Lower(x)) \in Nat
  <2> TAKE x \in L
  <2>1. IsFiniteSet(Lower(x))
    BY <1>1, FS_Subset
  <2> QED BY <2>1, FS_CardinalityType
<1>4. ASSUME Cardinality(R) < room, ~(L \subseteq R) PROVE FALSE
  <2>1. L \ R \subseteq Nat /\ L \ R # {}
    <3>1. L \ R # {}
      BY ONLY <1>4
    <3>2. \A x \in L : x \in Nat
      OBVIOUS
    <3> QED BY ONLY <3>1, <3>2
  <2>2. PICK i \in L \ R : \A j \in L \ R : i <= j
    BY <2>1, SmallestOf
  <2>3. Lower(i) \in SUBSET R
    <3> SUFFICES ASSUME NEW j \in L, j < i, j \notin R PROVE FALSE
      OBVIOUS
    <3>1. i <= j /\ i \in Int /\ j \in Int
      BY <2>2
    <3> QED BY <3>1
  <2>4. ~(Cardinality(Lower(i)) < room)
    BY <2>2
  <2> HIDE DEF Lower
  <2>5. Cardinality(Lower(i)) <= Cardinality(R)
    BY <1>2, <2>3, FS_Subset
  <2> QED BY <1>2, <1>3, <1>4, <2>2, <2>4, <2>5
<1>5. ASSUME R = {} PROVE Cardinality(R) < room
  <2>1. Cardinality(R) = 0
    BY ONLY <1>5, FS_EmptySet
  <2> QED BY <2>1
<1>6. ASSUME NEW m \in R, NEW i \in L, i <= m PROVE i \in R
  <2>1. i \in Int /\ m \in Int /\ m \in L
    BY <1>2
  <2>2. Lower(i) \in SUBSET Lower(m)
    <3> SUFFICES ASSUME NEW j \in L, j < i PROVE j < m
      OBVIOUS
    <3>1. j \in Int
      OBVIOUS
    <3> QED BY <1>6, <2>1, <3>1
  <2>3. Cardinality(Lower(m)) < room
    OBVIOUS
  <2>4. Cardinality(Lower(i)) < room => i \in R
    OBVIOUS
  <2> HIDE DEF Lower
  <2>5. Cardinality(Lower(i)) <= Cardinality(Lower(m))
    BY <1>3, <2>1, <2>2, FS_Subset
  <2> QED BY <1>3, <2>1, <2>3, <2>4, <2>5
<1> QED BY <1>2, <1>4, <1>5, <1>6 DEF NoGap

\* One QUERY_DIRECTORY: what it returns and how far the cursor gets.
LEMMA WalkedOk ==
  ASSUME NEW h, DOMAIN h = SmbFields, h.open = TRUE, NEW names \in SUBSET SmbNames, ListingOf(h, names),
         \A x \in h.steady : smbFs[x] # 0, NEW room \in {1, 2}, NEW g, g = Walked(h, room)
  PROVE  HandleOk(g) /\ g # NoHandle /\ g.steady = h.steady
<1>1. PICK l : l = h.listing /\ l \in Seq(names) /\ DOMAIN l = 1 .. Len(l) /\ \A i, j \in DOMAIN l : i # j => l[i] # l[j]
  BY DEF ListingOf, HasEach
<1>2. PICK n \in Nat : n = Len(l)
  BY <1>1
<1>3. PICK k \in 0 .. n : k = h.cursor
  BY <1>1, <1>2 DEF ListingOf
<1>4. PICK L : L = Listable(h) /\ L = {i \in k + 1 .. n : smbFs[l[i]] # 0}
  BY <1>1, <1>2, <1>3 DEF Listable
<1>5. PICK R : R = Returned(h, room) /\ R = {i \in L : Cardinality({j \in L : j < i}) < room}
  BY <1>4 DEF Returned
<1>6. L \subseteq 1 .. n /\ L \subseteq k + 1 .. n
  BY <1>3, <1>4
<1>7. /\ IsFiniteSet(R) /\ R \subseteq L /\ Cardinality(R) \in Nat
      /\ Cardinality(R) < room => L \subseteq R
      /\ ~(Cardinality(R) < room) => R # {}
      /\ \A m \in R : \A i \in L : i <= m => i \in R
  <2>1. room \in Nat \ {0}
    OBVIOUS
  <2>2. R = FirstOnes(L, room)
    BY <1>5 DEF FirstOnes
  <2>3. NoGap(R, L, room)
    BY ONLY <1>6, <2>1, <2>2, n \in Nat, FirstOf
  <2> QED BY <2>3 DEF NoGap
<1>8. PICK e : e = CursorAfter(h, room)
  OBVIOUS
<1>9. /\ e \in k .. n /\ (\A i \in R : i <= e) /\ \A i \in L : i <= e => i \in R
  <2>1. CASE Cardinality(R) < room
    <3>1. e = n
      BY <1>1, <1>2, <1>5, <1>8, <2>1 DEF CursorAfter
    <3> QED BY <1>3, <1>6, <1>7, <2>1, <3>1
  <2>2. CASE ~(Cardinality(R) < room)
    <3>1. \E m \in R : \A j \in R : j <= m
      <4>1. R \subseteq 1 .. n /\ R # {}
        BY <1>6, <1>7, <2>2
      <4> QED BY ONLY <4>1, n \in Nat, LargestOf
    <3>2. e = CHOOSE i \in R : \A j \in R : j <= i
      BY <1>5, <1>8, <2>2 DEF CursorAfter
    <3>3. e \in R /\ \A j \in R : j <= e
      BY <3>1, <3>2
    <3>4. e \in k + 1 .. n
      BY <1>6, <1>7, <3>3
    <3> QED BY <1>3, <1>7, <3>3, <3>4
  <2> QED BY <2>1, <2>2
<1>10. PICK at : at = Sorted(R)
  OBVIOUS
<1>11. HasEach(at, R)
  <2>1. R \subseteq Nat
    BY <1>6, <1>7
  <2> QED BY ONLY <1>7, <1>10, <2>1, SortedHasEach
<1>12. PICK q \in Nat : q = Len(at) /\ DOMAIN at = 1 .. q
  BY <1>11 DEF HasEach
<1>13. /\ \A i \in 1 .. q : at[i] \in R
       /\ \A i, j \in 1 .. q : at[i] = at[j] => i = j
       /\ \A x \in R : \E i \in 1 .. q : at[i] = x
  BY <1>11, <1>12 DEF HasEach
<1>14. PICK new : new = [i \in 1 .. q |-> l[at[i]]]
  OBVIOUS
<1>15. Entries(h, room) = new
  BY <1>1, <1>5, <1>10, <1>12, <1>14 DEF Entries
<1>16. \A i \in 1 .. n : l[i] \in names
  BY <1>1, <1>2
<1>17. /\ new \in Seq(names) /\ Len(new) = q /\ \A i \in 1 .. q : new[i] = l[at[i]] /\ at[i] \in k + 1 .. n /\ at[i] \in 1 .. n
  <2>1. \A i \in 1 .. q : at[i] \in k + 1 .. n /\ at[i] \in 1 .. n
    BY <1>6, <1>7, <1>13
  <2>2. new \in [1 .. q -> names]
    BY <1>14, <1>16, <2>1
  <2> QED BY <1>14, <2>1, <2>2
<1>18. PICK p \in Nat : p = Len(h.listed)
  BY DEF ListingOf
<1>19. PICK w : w = h.listed \o new
  OBVIOUS
<1>20. /\ w \in Seq(names) /\ Len(w) = p + q /\ (\A i \in 1 .. p : w[i] = h.listed[i]) /\ \A i \in 1 .. q : w[p + i] = new[i]
  <2>1. h.listed \in Seq(names)
    BY DEF ListingOf
  <2>2. new \in Seq(names) /\ Len(new) = q
    BY <1>17
  <2>3. w \in Seq(names) /\ Len(w) = p + q
    <3>1. w \in Seq(names)
      BY ONLY <1>19, <2>1, <2>2
    <3>2. Len(w) = Len(h.listed) + Len(new)
      <4>1. PICK a \in Seq(names) : a = h.listed
        BY <2>1
      <4>2. PICK b \in Seq(names) : b = new
        BY <2>2
      <4>3. Len(a \o b) = Len(a) + Len(b)
        BY ONLY a \in Seq(names), b \in Seq(names)
      <4> QED BY <1>19, <4>1, <4>2, <4>3
    <3> QED BY ONLY <1>18, <2>2, <3>1, <3>2
  <2>4. \A i \in 1 .. p : w[i] = h.listed[i]
    BY ONLY <1>18, <1>19, <2>1, <2>2, p \in Nat, q \in Nat
  <2>5. \A i \in 1 .. q : w[p + i] = new[i]
    BY ONLY <1>18, <1>19, <2>1, <2>2, p \in Nat, q \in Nat
  <2> QED BY <2>3, <2>4, <2>5
<1>21. g = [h EXCEPT !.cursor = e, !.listed = w]
  BY <1>8, <1>15, <1>19 DEF Walked
<1>22. /\ DOMAIN g = SmbFields /\ g.open = TRUE /\ g.listing = l /\ g.cursor = e /\ g.listed = w /\ g.steady = h.steady
  BY <1>1, <1>21 DEF SmbFields
<1>23. /\ \A j \in 1 .. p : \E i \in 1 .. k : h.listed[j] = l[i]
       /\ \A j, i \in 1 .. p : h.listed[j] = h.listed[i] => j = i
       /\ \A i \in 1 .. k : l[i] \in h.steady => \E j \in 1 .. p : h.listed[j] = l[i]
  BY <1>1, <1>3, <1>18 DEF ListingOf, Returns
<1>24. \A j \in 1 .. p + q : j \in 1 .. p \/ \E i \in 1 .. q : j = p + i
  <2> SUFFICES ASSUME NEW j \in 1 .. p + q, j \notin 1 .. p PROVE \E i \in 1 .. q : j = p + i
    OBVIOUS
  <2>1. j - p \in 1 .. q /\ j = p + (j - p)
    OBVIOUS
  <2> QED BY <2>1
<1>25. \A j \in 1 .. p + q : \E i \in 1 .. e : w[j] = l[i]
  <2> TAKE j \in 1 .. p + q
  <2>1. CASE j \in 1 .. p
    <3>1. PICK i \in 1 .. k : h.listed[j] = l[i]
      BY <1>23, <2>1
    <3>2. i \in 1 .. e
      BY <1>9
    <3> QED BY <1>20, <2>1, <3>1, <3>2
  <2>2. ASSUME NEW i \in 1 .. q, j = p + i PROVE \E x \in 1 .. e : w[j] = l[x]
    <3>1. at[i] \in R /\ at[i] \in 1 .. n /\ at[i] <= e
      BY <1>9, <1>13, <1>17
    <3>2. at[i] \in 1 .. e
      BY <1>9, <3>1
    <3> QED BY <1>17, <1>20, <2>2, <3>2
  <2> QED BY <1>24, <2>1, <2>2
<1>26. ASSUME NEW i \in 1 .. n, NEW j \in 1 .. n, l[i] = l[j] PROVE i = j
  BY <1>1, <1>2, <1>26
<1>27. \A j, i \in 1 .. p + q : w[j] = w[i] => j = i
  <2> SUFFICES ASSUME NEW j \in 1 .. p + q, NEW i \in 1 .. p + q, w[j] = w[i] PROVE j = i
    OBVIOUS
  <2>1. ASSUME NEW x \in 1 .. p, NEW y \in 1 .. q, w[x] = w[p + y] PROVE FALSE
    <3>1. PICK z \in 1 .. k : h.listed[x] = l[z]
      BY <1>23
    <3>2. l[z] = l[at[y]] /\ z \in 1 .. n /\ at[y] \in 1 .. n /\ at[y] \in k + 1 .. n
      <4>1. w[x] = l[z] /\ w[p + y] = new[y]
        BY <1>20, <3>1
      <4>2. new[y] = l[at[y]] /\ at[y] \in k + 1 .. n /\ at[y] \in 1 .. n
        BY <1>17
      <4>3. z \in 1 .. n
        BY <1>3
      <4> QED BY <2>1, <4>1, <4>2, <4>3
    <3>3. z = at[y]
      BY <1>26, <3>2
    <3> QED BY <3>2, <3>3
  <2>2. CASE j \in 1 .. p /\ i \in 1 .. p
    BY <1>20, <1>23, <2>2
  <2>3. ASSUME NEW x \in 1 .. q, NEW y \in 1 .. q, j = p + x, i = p + y PROVE j = i
    <3>1. l[at[x]] = l[at[y]] /\ at[x] \in 1 .. n /\ at[y] \in 1 .. n
      BY <1>17, <1>20, <2>3
    <3>2. at[x] = at[y]
      BY <1>26, <3>1
    <3> QED BY <1>13, <2>3, <3>2
  <2> QED BY <1>24, <2>1, <2>2, <2>3
<1>28. \A i \in 1 .. e : l[i] \in h.steady => \E j \in 1 .. p + q : w[j] = l[i]
  <2> SUFFICES ASSUME NEW i \in 1 .. e, l[i] \in h.steady PROVE \E j \in 1 .. p + q : w[j] = l[i]
    OBVIOUS
  <2>1. CASE i \in 1 .. k
    <3>1. PICK j \in 1 .. p : h.listed[j] = l[i]
      BY <1>23, <2>1
    <3> QED BY <1>20, <3>1
  <2>2. CASE i \in k + 1 .. e
    <3>1. i \in L
      BY <1>4, <1>9, <2>2
    <3>2. i \in R
      BY <1>9, <3>1
    <3>3. PICK y \in 1 .. q : at[y] = i
      BY <1>13, <3>2
    <3>4. w[p + y] = l[i] /\ p + y \in 1 .. p + q
      <4>1. w[p + y] = new[y] /\ new[y] = l[at[y]]
        BY <1>17, <1>20
      <4>2. p + y \in 1 .. p + q
        BY ONLY p \in Nat, q \in Nat, y \in 1 .. q
      <4> QED BY <3>3, <4>1, <4>2
    <3> QED BY <3>4
  <2> QED BY <1>3, <1>9, <2>1, <2>2
<1>29. Returns(l, e, w, h.steady)
  BY <1>20, <1>25, <1>27, <1>28 DEF Returns
<1>30. ListingOf(g, names)
  <2>1. HasEach(l, names) /\ h.steady \subseteq names
    BY <1>1 DEF ListingOf
  <2>2. e \in 0 .. Len(l)
    BY <1>2, <1>3, <1>9
  <2> QED BY <1>20, <1>22, <1>29, <2>1, <2>2 DEF ListingOf
<1>31. g # NoHandle
  BY <1>22 DEF NoHandle, SmbFields
<1> QED BY <1>22, <1>30, <1>31 DEF HandleOk

LEMMA QueryDirectoryStep ==
  ASSUME Smb2Inv, NEW c \in SmbConns, NEW f \in 1 .. MaxFids, QueryDirectory(c, f) PROVE Smb2Inv'
<1>1. PICK was : was = smbHandles[c][f] /\ HandleOk(was) /\ was # NoHandle
  BY DEF Smb2Inv, AllOk, QueryDirectory, OpenFids, NoHandle
<1>2. smbFs' = smbFs /\ \E room \in {1, 2}, restart \in BOOLEAN :
        smbHandles' = SetHandle(c, f, Walked(IF ~was.walking \/ restart THEN Snapshot(was) ELSE was, room))
  BY <1>1 DEF QueryDirectory
<1>3. PICK room, h : room \in {1, 2} /\ (h = was \/ h = Snapshot(was)) /\ smbHandles' = SetHandle(c, f, Walked(h, room))
  BY <1>2
<1>4. DOMAIN was = SmbFields /\ was.open = TRUE
  BY <1>1 DEF HandleOk
<1>5. CASE h = was
  <2>1. PICK names \in SUBSET SmbNames : ListingOf(was, names)
    BY <1>1 DEF HandleOk
  <2>2. \A x \in was.steady : smbFs[x] # 0
    BY <1>1 DEF Smb2Inv, HandleNow
  <2>3. PICK g : g = Walked(was, room)
    OBVIOUS
  <2>4. HandleOk(g) /\ g # NoHandle /\ g.steady = was.steady
    BY <1>3, <1>4, <2>1, <2>2, <2>3, WalkedOk
  <2> QED BY <1>2, <1>3, <1>5, <2>2, <2>3, <2>4, OneHandleNow
<1>6. CASE h = Snapshot(was)
  <2>1. PICK names \in SUBSET SmbNames : names = {n \in SmbNames : smbFs[n] # 0}
    OBVIOUS
  <2>2. PICK l : l = Sorted(names)
    OBVIOUS
  <2>3. h = [was EXCEPT !.walking = TRUE, !.listing = l, !.cursor = 0, !.listed = <<>>, !.steady = names]
    BY <1>6, <2>1, <2>2 DEF Snapshot
  <2>4. DOMAIN h = SmbFields /\ h.open = TRUE /\ h.listing = l /\ h.cursor = 0 /\ h.listed = <<>> /\ h.steady = names
    BY <1>4, <2>3 DEF SmbFields
  <2>5. HasEach(l, names)
    <3>1. IsFiniteSet(names) /\ names \subseteq Nat
      BY SmbFilesAssumption, FS_Subset
    <3> QED BY ONLY <2>2, <3>1, SortedHasEach
  <2>6. Returns(h.listing, h.cursor, h.listed, h.steady)
    BY <2>4 DEF Returns
  <2>7. h.cursor \in 0 .. Len(h.listing)
    <3>1. Len(l) \in Nat
      BY <2>5 DEF HasEach
    <3> QED BY <2>4, <3>1
  <2>8. h.listed \in Seq(names)
    BY <2>4
  <2>9. ListingOf(h, names)
    BY <2>4, <2>5, <2>6, <2>7, <2>8 DEF ListingOf
  <2>10. \A x \in h.steady : smbFs[x] # 0
    BY <2>1, <2>4
  <2>11. PICK g : g = Walked(h, room)
    OBVIOUS
  <2>12. HandleOk(g) /\ g # NoHandle /\ g.steady = h.steady
    BY <1>3, <2>4, <2>9, <2>10, <2>11, WalkedOk
  <2> QED BY <1>2, <1>3, <2>10, <2>11, <2>12, OneHandleNow
<1> QED BY <1>3, <1>5, <1>6

\* _open_file leaves the listing alone.
LEMMA OpenFileOk == ASSUME NEW h, HandleOk(h), h # NoHandle, NEW w \in BOOLEAN, NEW g, g = OpenFile(h, w) PROVE HandleOk(g)
<1>1. DOMAIN h = SmbFields /\ h.open = TRUE
  BY DEF HandleOk
<1>2. ASSUME NEW x, NEW y, NEW e, e = [h EXCEPT !.fh = x, !.mode = y] PROVE HandleOk(e)
  <2>1. /\ DOMAIN e = SmbFields /\ e.open = TRUE /\ e.listing = h.listing /\ e.cursor = h.cursor
        /\ e.listed = h.listed /\ e.steady = h.steady
    BY <1>1, <1>2 DEF SmbFields
  <2> QED BY <2>1, SameListing
<1>3. g = h \/ \E x, y : g = [h EXCEPT !.fh = x, !.mode = y]
  BY DEF OpenFile
<1> QED BY <1>2, <1>3

LEMMA HandleSteps ==
  ASSUME Smb2Inv, NEW c \in SmbConns, NEW f \in 1 .. MaxFids, CloseFile(c, f) \/ ReadFile(c, f) \/ WriteFile(c, f)
  PROVE  Smb2Inv'
<1>1. PICK h : h = smbHandles[c][f] /\ HandleOk(h) /\ h # NoHandle
  <2>1. f \in OpenFids(c)
    BY DEF CloseFile, ReadFile, WriteFile
  <2> QED BY <2>1 DEF Smb2Inv, AllOk, OpenFids, NoHandle
<1>2. ASSUME NEW fs, NEW nodes, NEW g, HandleOk(g), Commit(fs, nodes, SetHandle(c, f, g)) PROVE Smb2Inv'
  <2>1. PICK t : t = [smbHandles EXCEPT ![c][f] = g]
    OBVIOUS
  <2>2. AllOk(t)
    BY <1>2, <2>1, OneHandle DEF Smb2Inv
  <2>3. smbFs' = fs /\ smbHandles' = Watch(t, fs)
    BY <1>2, <2>1 DEF Commit, SetHandle
  <2> QED BY <2>2, <2>3, Committed
<1>3. CASE CloseFile(c, f)
  <2>1. HandleOk(NoHandle)
    BY DEF HandleOk
  <2>2. \E fs, nodes : Commit(fs, nodes, SetHandle(c, f, NoHandle))
    BY <1>3 DEF CloseFile
  <2> QED BY <1>2, <2>1, <2>2
<1>4. CASE ReadFile(c, f)
  <2>1. HandleOk(OpenFile(h, FALSE))
    BY <1>1, OpenFileOk
  <2>2. Commit(smbFs, inode, SetHandle(c, f, OpenFile(h, FALSE)))
    BY <1>1, <1>4 DEF ReadFile
  <2> QED BY <1>2, <2>1, <2>2
<1>5. CASE WriteFile(c, f)
  <2>1. HandleOk(OpenFile(h, TRUE))
    BY <1>1, OpenFileOk
  <2>2. \E nodes : Commit(smbFs, nodes, SetHandle(c, f, OpenFile(h, TRUE)))
    BY <1>1, <1>5 DEF WriteFile
  <2> QED BY <1>2, <2>1, <2>2
<1> QED BY <1>3, <1>4, <1>5

LEMMA SetDispositionStep ==
  ASSUME Smb2Inv, NEW c \in SmbConns, NEW f \in 1 .. MaxFids, SetDisposition(c, f) PROVE Smb2Inv'
<1>1. PICK h : h = smbHandles[c][f] /\ HandleOk(h) /\ h # NoHandle
  BY DEF Smb2Inv, AllOk, SetDisposition, OpenFids, NoHandle
<1>2. PICK d \in BOOLEAN : smbHandles' = [smbHandles EXCEPT ![c][f].deleteOnClose = d]
  BY DEF SetDisposition
<1>3. PICK g : g = [h EXCEPT !.deleteOnClose = d]
  OBVIOUS
<1>4. smbHandles' = SetHandle(c, f, g)
  BY <1>1, <1>2, <1>3 DEF SetHandle
<1>5. DOMAIN h = SmbFields /\ h.open = TRUE
  BY <1>1 DEF HandleOk
<1>6. /\ DOMAIN g = SmbFields /\ g.open = TRUE /\ g.listing = h.listing /\ g.cursor = h.cursor
      /\ g.listed = h.listed /\ g.steady = h.steady
  BY <1>3, <1>5 DEF SmbFields
<1>7. HandleOk(g)
  BY <1>1, <1>6, SameListing
<1>8. smbFs' = smbFs
  BY DEF SetDisposition
<1>9. \A x \in g.steady : smbFs[x] # 0
  BY <1>1, <1>6 DEF Smb2Inv, HandleNow
<1> QED BY <1>4, <1>7, <1>8, <1>9, OneHandleNow

LEMMA CreateActStep == ASSUME Smb2Inv, NEW c \in SmbConns, CreateAct(c) PROVE Smb2Inv'
<1>1. PICK f : f = (CHOOSE g \in 1 .. MaxFids : ~smbHandles[c][g].open)
  OBVIOUS
<1>2. \E fs, nodes, p, d, w, x :
        \/ Commit(fs, nodes, smbHandles)
        \/ Commit(fs, nodes, SetHandle(c, f, [SmbHandle(p, d, w) EXCEPT !.deleteOnClose = x]))
  BY <1>1 DEF CreateAct
<1>3. PICK fs, nodes, p, d, w, x :
        \/ Commit(fs, nodes, smbHandles)
        \/ Commit(fs, nodes, SetHandle(c, f, [SmbHandle(p, d, w) EXCEPT !.deleteOnClose = x]))
  BY <1>2
<1>4. CASE Commit(fs, nodes, smbHandles)
  BY <1>4, Committed DEF Commit, Smb2Inv
<1>5. CASE Commit(fs, nodes, SetHandle(c, f, [SmbHandle(p, d, w) EXCEPT !.deleteOnClose = x]))
  <2>1. PICK h : h = [SmbHandle(p, d, w) EXCEPT !.deleteOnClose = x]
    OBVIOUS
  <2>2. HandleOk(h)
    BY <2>1, NewHandleOk
  <2>3. PICK t : t = [smbHandles EXCEPT ![c][f] = h]
    OBVIOUS
  <2>4. AllOk(t)
    BY <2>2, <2>3, AnyHandle DEF Smb2Inv
  <2>5. smbFs' = fs /\ smbHandles' = Watch(t, fs)
    BY <1>5, <2>1, <2>3 DEF Commit, SetHandle
  <2> QED BY <2>4, <2>5, Committed
<1> QED BY <1>3, <1>4, <1>5

LEMMA RenameActStep == ASSUME Smb2Inv, NEW c \in SmbConns, RenameAct(c) PROVE Smb2Inv'
<1>1. PICK f : f = smbOp[c].fid
  OBVIOUS
<1>2. \E fs, nodes, p : Commit(fs, nodes, smbHandles) \/ Commit(fs, nodes, [smbHandles EXCEPT ![c][f].path = p])
  BY <1>1 DEF RenameAct
<1>3. PICK fs, nodes, p : Commit(fs, nodes, smbHandles) \/ Commit(fs, nodes, [smbHandles EXCEPT ![c][f].path = p])
  BY <1>2
<1>4. CASE Commit(fs, nodes, smbHandles)
  BY <1>4, Committed DEF Commit, Smb2Inv
<1>5. CASE Commit(fs, nodes, [smbHandles EXCEPT ![c][f].path = p])
  <2>1. PICK h : h = smbHandles[c][f]
    OBVIOUS
  <2>2. PICK g : g = [h EXCEPT !.path = p]
    OBVIOUS
  <2>3. PICK t : t = [smbHandles EXCEPT ![c][f] = g]
    OBVIOUS
  <2>4. smbFs' = fs /\ smbHandles' = Watch(t, fs)
    BY <1>5, <2>1, <2>2, <2>3 DEF Commit
  <2>5. f \in 1 .. MaxFids => HandleOk(g)
    <3> SUFFICES ASSUME f \in 1 .. MaxFids PROVE HandleOk(g)
      OBVIOUS
    <3>1. HandleOk(h)
      BY <2>1 DEF Smb2Inv, AllOk
    <3>2. CASE h = NoHandle
      <4>1. g = h
        BY <2>2, <3>2 DEF NoHandle
      <4> QED BY <3>1, <4>1
    <3>3. CASE h # NoHandle
      <4>1. DOMAIN h = SmbFields /\ h.open = TRUE
        BY <3>1, <3>3 DEF HandleOk
      <4>2. /\ DOMAIN g = SmbFields /\ g.open = TRUE /\ g.listing = h.listing /\ g.cursor = h.cursor
            /\ g.listed = h.listed /\ g.steady = h.steady
        BY <2>2, <4>1 DEF SmbFields
      <4> QED BY <3>1, <3>3, <4>2, SameListing
    <3> QED BY <3>2, <3>3
  <2>6. AllOk(t)
    BY <2>3, <2>5, AnyHandle DEF Smb2Inv
  <2> QED BY <2>4, <2>6, Committed
<1> QED BY <1>3, <1>4, <1>5

LEMMA CloseAllStep == ASSUME Smb2Inv, NEW c \in SmbConns, CloseAll(c) PROVE Smb2Inv'
<1>1. PICK t : t = [smbHandles EXCEPT ![c] = [f \in 1 .. MaxFids |-> NoHandle]]
  OBVIOUS
<1>2. smbFs' = smbFs /\ smbHandles' = Watch(t, smbFs)
  BY <1>1 DEF CloseAll, Commit
<1>3. AllOk(t)
  <2>1. HandleOk(NoHandle)
    BY DEF HandleOk
  <2> QED BY <1>1, <2>1 DEF Smb2Inv, AllOk
<1> QED BY <1>2, <1>3, Committed

LEMMA FilesStep == ASSUME Smb2Inv, [FilesNext]_filesVars PROVE Smb2Inv'
<1>1. ASSUME NEW c \in SmbConns, CreateLook(c) \/ (\E f \in 1 .. MaxFids : RenameLook(c, f)) PROVE Smb2Inv'
  <2>1. smbHandles' = smbHandles /\ smbFs' = smbFs
    BY <1>1 DEF CreateLook, RenameLook
  <2> QED BY <2>1 DEF Smb2Inv
<1>2. ASSUME NEW c \in SmbConns, CreateAct(c) PROVE Smb2Inv'
  BY <1>2, CreateActStep
<1>3. ASSUME NEW c \in SmbConns, RenameAct(c) PROVE Smb2Inv'
  BY <1>3, RenameActStep
<1>4. ASSUME NEW c \in SmbConns, CloseAll(c) PROVE Smb2Inv'
  BY <1>4, CloseAllStep
<1>5. ASSUME NEW c \in SmbConns, NEW f \in 1 .. MaxFids, CloseFile(c, f) \/ ReadFile(c, f) \/ WriteFile(c, f) PROVE Smb2Inv'
  BY <1>5, HandleSteps
<1>6. ASSUME NEW c \in SmbConns, NEW f \in 1 .. MaxFids, SetDisposition(c, f) PROVE Smb2Inv'
  BY <1>6, SetDispositionStep
<1>7. ASSUME NEW c \in SmbConns, NEW f \in 1 .. MaxFids, QueryDirectory(c, f) PROVE Smb2Inv'
  BY <1>7, QueryDirectoryStep
<1>8. CASE UNCHANGED filesVars
  BY <1>8 DEF filesVars, Smb2Inv
<1> QED BY <1>1, <1>2, <1>3, <1>4, <1>5, <1>6, <1>7, <1>8 DEF FilesNext

\* The SMB2 server (smb2_server.py, h_query_directory), for any number of connections, handles and
\* names: a client that asks on to the end has been given every name that was there all the while, and
\* none twice, while others create, rename and delete.
THEOREM ListingsComplete == Smb2FilesSpec => []ListingComplete
<1>1. FilesInit => Smb2Inv
  BY DEF FilesInit, Smb2Inv, AllOk, HandleOk, HandleNow
<1>2. Smb2Inv /\ [FilesNext]_filesVars => Smb2Inv'
  BY FilesStep
<1>3. Smb2Inv => ListingComplete
  BY ListingServes
<1> QED BY <1>1, <1>2, <1>3, PTL DEF Smb2FilesSpec

-----------------------------------------------------------------------------
(* Smb2Session: what the client of a connection counts on.                  *)

SessionFields == {"ceiling", "isOpen", "dialect", "claims", "challenge", "challenges", "authenticated", "key", "signing_required",
               "trees", "nextTree", "handles", "nextHandle", "credits", "compound", "terminate", "up"}
ClientFields == {"credits", "negotiated", "challenge", "key", "required"}
ConnOK(c) ==
  /\ DOMAIN c = SessionFields /\ c.authenticated \in BOOLEAN /\ c.isOpen \in BOOLEAN /\ c.terminate \in BOOLEAN /\ c.up \in BOOLEAN
  /\ c.signing_required \in BOOLEAN /\ c.credits \in Nat
  /\ (c.authenticated = FALSE => c.trees = <<>> /\ c.handles = <<>>)
SameKeys(c, d) ==
  /\ d.key = c.key /\ d.challenge = c.challenge /\ d.challenges = c.challenges /\ d.signing_required = c.signing_required
SameBooks(c, d) == d.credits = c.credits /\ d.isOpen = c.isOpen /\ d.up = c.up

\* An outcome of a handler: a connection in good order, the books untouched, a reply.
Outcome(c, out) == ConnOK(out.c) /\ SameBooks(c, out.c) /\ SameKeys(c, out.c) /\ out.st # "none"

LEMMA EmptyKept ==
  ASSUME NEW S
  PROVE  [t \in (DOMAIN <<>>) \ S |-> (<<>>)[t]] = <<>>
OBVIOUS

LEMMA OutDone ==
  ASSUME NEW c, ConnOK(c), NEW d, ConnOK(d), SameBooks(c, d), SameKeys(c, d), NEW st, st # "none", NEW out \in Done(d, st)
  PROVE  Outcome(c, out)
BY DEF Done, Outcome

LEMMA OutSame ==
  ASSUME NEW c, ConnOK(c), NEW st, st # "none", NEW out \in Done(c, st)
  PROVE  Outcome(c, out)
BY DEF Done, Outcome, SameBooks, SameKeys

LEMMA TreeErrorIs ==
  ASSUME NEW c, NEW r, NEW ipc_ok
  PROVE  TreeError(c, r, ipc_ok) # "none" \/ c.authenticated = TRUE
BY DEF TreeError

\* What a handler may do to the connection of a session: everything but books and keys.
LEMMA OutIn ==
  ASSUME NEW c, ConnOK(c), NEW d, DOMAIN d = SessionFields, d.authenticated = TRUE, d.terminate \in BOOLEAN,
         SameBooks(c, d), SameKeys(c, d), NEW st, st # "none", NEW out \in Done(d, st)
  PROVE  Outcome(c, out)
<1>1. ConnOK(d)
  BY DEF ConnOK, SameBooks, SameKeys
<1> QED BY <1>1, OutDone

\* The status a handler refuses with is a reply.
LEMMA TreeErrorReplies ==
  ASSUME NEW c, NEW r, NEW ipc_ok, TreeError(c, r, ipc_ok) # "none", ConnOK(c), NEW out \in Refused(c, TreeError(c, r, ipc_ok))
  PROVE  Outcome(c, out)
BY OutSame DEF Refused

LEMMA NegotiateServes ==
  ASSUME NEW c, ConnOK(c), NEW r, NEW out \in h_negotiate(c, r)
  PROVE  Outcome(c, out)
<1> DEFINE d == pick_dialect(r.offer, c.ceiling)
           claimed == [c EXCEPT !.claims = r.offer]
<1>1. ConnOK(claimed) /\ SameBooks(c, claimed) /\ SameKeys(c, claimed)
  BY DEF ConnOK, SessionFields, SameBooks, SameKeys
<1>2. \A x : ConnOK([claimed EXCEPT !.dialect = x]) /\ SameBooks(c, [claimed EXCEPT !.dialect = x]) /\ SameKeys(c, [claimed EXCEPT !.dialect = x])
  BY <1>1 DEF ConnOK, SessionFields, SameBooks, SameKeys
<1>3. out \in Refused(claimed, "NOT_SUPPORTED") \/ out \in Done([claimed EXCEPT !.dialect = d], "SUCCESS")
  BY DEF h_negotiate
<1> QED BY <1>1, <1>2, <1>3, OutDone DEF Refused

LEMMA LogoffServes ==
  ASSUME NEW c, ConnOK(c), NEW r, NEW out \in h_logoff(c, r)
  PROVE  Outcome(c, out)
<1> DEFINE d == [close_all(c) EXCEPT !.authenticated = FALSE, !.trees = <<>>]
<1>1. ConnOK(d) /\ SameBooks(c, d) /\ SameKeys(c, d)
  BY DEF close_all, ConnOK, SessionFields, SameBooks, SameKeys
<1>2. out \in Done(d, "SUCCESS")
  BY DEF h_logoff
<1> QED BY <1>1, <1>2, OutDone

LEMMA TreeConnectServes ==
  ASSUME NEW c, ConnOK(c), NEW r, NEW out \in h_tree_connect(c, r)
  PROVE  Outcome(c, out)
<1> DEFINE d == [c EXCEPT !.trees = [t \in DOMAIN c.trees \cup {c.nextTree} |-> IF t = c.nextTree THEN r.arg ELSE c.trees[t]],
                          !.nextTree = c.nextTree + 1]
<1>1. CASE out \in Refused(c, "USER_SESSION_DELETED") \/ out \in Refused(c, "BAD_NETWORK_NAME")
  BY <1>1, OutSame DEF Refused
<1>2. CASE c.authenticated /\ out \in Done(d, "SUCCESS")
  <2>1. DOMAIN d = SessionFields /\ d.authenticated = TRUE /\ d.terminate \in BOOLEAN /\ SameBooks(c, d) /\ SameKeys(c, d)
    BY <1>2 DEF ConnOK, SessionFields, SameBooks, SameKeys
  <2> QED BY <1>2, <2>1, OutIn
<1> QED BY <1>1, <1>2 DEF h_tree_connect

LEMMA TreeDisconnectServes ==
  ASSUME NEW c, ConnOK(c), NEW r, NEW out \in h_tree_disconnect(c, r)
  PROVE  Outcome(c, out)
<1> DEFINE d == [c EXCEPT !.trees = [t \in DOMAIN c.trees \ {r.tree} |-> c.trees[t]]]
<1>1. out \in Done(d, "SUCCESS")
  BY DEF h_tree_disconnect
<1>2. DOMAIN d = SessionFields /\ SameBooks(c, d) /\ SameKeys(c, d) /\ d.authenticated = c.authenticated /\ d.handles = c.handles
      /\ d.terminate = c.terminate
  BY DEF ConnOK, SessionFields, SameBooks, SameKeys
<1>3. d.trees = [t \in DOMAIN c.trees \ {r.tree} |-> c.trees[t]]
  BY DEF ConnOK, SessionFields
<1>4. c.trees = <<>> => d.trees = <<>>
  BY <1>3, EmptyKept
<1>5. ConnOK(d)
  BY <1>2, <1>4 DEF ConnOK, SameBooks, SameKeys
<1> QED BY <1>1, <1>2, <1>5, OutDone

LEMMA CreateServes ==
  ASSUME NEW c, ConnOK(c), NEW r, NEW out \in h_create(c, r)
  PROVE  Outcome(c, out)
<1>1. CASE TreeError(c, r, TRUE) # "none"
  BY <1>1, TreeErrorReplies DEF h_create
<1>2. CASE TreeError(c, r, TRUE) = "none"
  <2>1. c.authenticated = TRUE
    BY <1>2, TreeErrorIs
  <2>2. CASE out \in Refused(c, "OBJECT_NAME_NOT_FOUND")
    BY <2>2, OutSame DEF Refused
  <2>3. ASSUME NEW kind, out \in Opened(c, kind) PROVE Outcome(c, out)
    <3>1. PICK h : out = [c |-> [c EXCEPT !.handles = h, !.nextHandle = c.nextHandle + 1], st |-> "SUCCESS", fid |-> c.nextHandle]
      BY <2>3 DEF Opened, ConnOK, SessionFields
    <3> DEFINE d == [c EXCEPT !.handles = h, !.nextHandle = c.nextHandle + 1]
    <3>2. out.c = d /\ out.st = "SUCCESS"
      BY <3>1
    <3>3. DOMAIN d = SessionFields /\ d.authenticated = TRUE /\ d.terminate \in BOOLEAN /\ SameBooks(c, d) /\ SameKeys(c, d)
      BY <2>1 DEF ConnOK, SessionFields, SameBooks, SameKeys
    <3>4. ConnOK(d)
      BY <3>3 DEF ConnOK, SameBooks, SameKeys
    <3> QED BY <3>2, <3>3, <3>4 DEF Outcome
  <2> QED BY <1>2, <2>2, <2>3 DEF h_create
<1> QED BY <1>1, <1>2

\* A handler that asks for the tree and the handle first.
LEMMA WithFileServes ==
  ASSUME NEW c, ConnOK(c), NEW r, NEW ipc_ok, NEW outcomes, NEW out \in WithFile(c, r, ipc_ok, outcomes)
  PROVE  Outcome(c, out) \/ (c.authenticated = TRUE /\ out \in outcomes)
<1>1. CASE TreeError(c, r, ipc_ok) # "none"
  BY <1>1, TreeErrorReplies DEF WithFile
<1>2. CASE TreeError(c, r, ipc_ok) = "none"
  <2>1. c.authenticated = TRUE
    BY <1>2, TreeErrorIs
  <2>2. CASE out \in Refused(c, "FILE_CLOSED")
    BY <2>2, OutSame DEF Refused
  <2> QED BY <1>2, <2>1, <2>2 DEF WithFile
<1> QED BY <1>1, <1>2

\* What a handler does to the handles of a session.
LEMMA HandlesServe ==
  ASSUME NEW c, ConnOK(c), c.authenticated = TRUE, NEW h, NEW st, st # "none", NEW out \in Done([c EXCEPT !.handles = h], st)
  PROVE  Outcome(c, out)
<1> DEFINE d == [c EXCEPT !.handles = h]
<1>1. DOMAIN d = SessionFields /\ d.authenticated = TRUE /\ d.terminate \in BOOLEAN /\ SameBooks(c, d) /\ SameKeys(c, d)
  BY DEF ConnOK, SessionFields, SameBooks, SameKeys
<1> QED BY <1>1, OutIn

LEMMA PipeServes ==
  ASSUME NEW c, ConnOK(c), c.authenticated = TRUE, NEW r, NEW p, NEW st, st # "none", NEW out \in Done(SetPipe(c, r, p), st)
  PROVE  Outcome(c, out)
<1>1. PICK d : d = SetPipe(c, r, p)
  OBVIOUS
<1>2. DOMAIN d = SessionFields /\ d.authenticated = TRUE /\ d.terminate \in BOOLEAN /\ SameBooks(c, d) /\ SameKeys(c, d)
  BY <1>1 DEF SetPipe, ConnOK, SessionFields, SameBooks, SameKeys
<1> QED BY <1>1, <1>2, OutIn

LEMMA CloseServes ==
  ASSUME NEW c, ConnOK(c), NEW r, NEW out \in h_close(c, r)
  PROVE  Outcome(c, out)
<1>1. PICK h : [c EXCEPT !.handles = [f \in DOMAIN @ \ {FileId(c, r)} |-> @[f]]] = [c EXCEPT !.handles = h]
  BY DEF ConnOK, SessionFields
<1>2. Outcome(c, out) \/ (c.authenticated = TRUE /\ out \in Done([c EXCEPT !.handles = h], "SUCCESS"))
  BY <1>1, WithFileServes DEF h_close
<1> QED BY <1>2, HandlesServe

LEMMA QueryServes ==
  ASSUME NEW c, ConnOK(c), NEW r, NEW out \in FileQuery(c, r)
  PROVE  Outcome(c, out)
<1>1. Outcome(c, out) \/ out \in Done(c, "SUCCESS") \cup Refused(c, "INVALID_PARAMETER")
  BY WithFileServes DEF FileQuery
<1> QED BY <1>1, OutSame DEF Refused

LEMMA ReadServes ==
  ASSUME NEW c, ConnOK(c), NEW r, NEW out \in h_read(c, r)
  PROVE  Outcome(c, out)
<1> DEFINE p == Handle(c, r)
           q == [p EXCEPT !.outbox = @ - 1]
           st == IF p.outbox > 1 THEN "BUFFER_OVERFLOW" ELSE "SUCCESS"
           O == IF p.kind # "pipe" THEN Done(c, "SUCCESS") \cup Refused(c, "END_OF_FILE")
                ELSE IF p.outbox = 0 THEN Refused(c, "PIPE_EMPTY") ELSE Done(SetPipe(c, r, q), st)
<1>1. h_read(c, r) = WithFile(c, r, TRUE, O)
  BY Zenon DEF h_read
<1>2. out \in O => \/ out \in Done(c, "SUCCESS") \/ out \in Refused(c, "END_OF_FILE") \/ out \in Refused(c, "PIPE_EMPTY")
                   \/ out \in Done(SetPipe(c, r, q), st)
  OBVIOUS
<1>3. st # "none"
  OBVIOUS
<1> HIDE DEF O, st, q
<1>4. Outcome(c, out) \/ (c.authenticated = TRUE /\ out \in O)
  BY <1>1, WithFileServes
<1> QED BY <1>2, <1>3, <1>4, OutSame, PipeServes DEF Refused

LEMMA WriteServes ==
  ASSUME NEW c, ConnOK(c), NEW r, NEW out \in h_write(c, r)
  PROVE  Outcome(c, out)
<1> DEFINE p == Handle(c, r)
           t == transact(p, r.arg)
           q == [t.p EXCEPT !.outbox = @ + t.n]
           O == IF p.kind # "pipe" THEN Done(c, "SUCCESS") \cup Refused(c, "MEDIA_WRITE_PROTECTED")
                ELSE IF t.n = 0 THEN Refused(c, "INVALID_PARAMETER") ELSE Done(SetPipe(c, r, q), "SUCCESS")
<1>1. h_write(c, r) = WithFile(c, r, TRUE, O)
  BY Zenon DEF h_write
<1>2. out \in O => \/ out \in Done(c, "SUCCESS") \/ out \in Refused(c, "MEDIA_WRITE_PROTECTED")
                   \/ out \in Refused(c, "INVALID_PARAMETER") \/ out \in Done(SetPipe(c, r, q), "SUCCESS")
  OBVIOUS
<1> HIDE DEF O, q
<1>3. Outcome(c, out) \/ (c.authenticated = TRUE /\ out \in O)
  BY <1>1, WithFileServes
<1> QED BY <1>2, <1>3, OutSame, PipeServes DEF Refused

LEMMA TransceiveServes ==
  ASSUME NEW c, ConnOK(c), NEW r, NEW out \in Transceive(c, r)
  PROVE  Outcome(c, out)
<1> DEFINE p == Handle(c, r)
           t == transact(p, r.arg)
           q == [t.p EXCEPT !.outbox = @ + t.n - 1]
           st == IF t.n > 1 THEN "BUFFER_OVERFLOW" ELSE "SUCCESS"
           O == IF p.kind # "pipe" THEN Refused(c, "INVALID_DEVICE_REQUEST")
                ELSE IF t.n = 0 THEN Refused(c, "INVALID_PARAMETER") ELSE Done(SetPipe(c, r, q), st)
<1>1. Transceive(c, r) = WithFile(c, r, TRUE, O)
  BY Zenon DEF Transceive
<1>2. out \in O => \/ out \in Refused(c, "INVALID_DEVICE_REQUEST") \/ out \in Refused(c, "INVALID_PARAMETER")
                   \/ out \in Done(SetPipe(c, r, q), st)
  OBVIOUS
<1>3. st # "none"
  OBVIOUS
<1> HIDE DEF O, q, st
<1>4. Outcome(c, out) \/ (c.authenticated = TRUE /\ out \in O)
  BY <1>1, WithFileServes
<1> QED BY <1>2, <1>3, <1>4, OutSame, PipeServes DEF Refused

LEMMA ValidateServes ==
  ASSUME NEW c, ConnOK(c), NEW r, NEW out \in validate_negotiate_info(c, r)
  PROVE  Outcome(c, out)
<1>1. CASE TreeError(c, r, TRUE) # "none"
  BY <1>1, TreeErrorReplies DEF validate_negotiate_info
<1>2. CASE TreeError(c, r, TRUE) = "none"
  <2> DEFINE d == [c EXCEPT !.terminate = TRUE]
  <2>1. c.authenticated = TRUE
    BY <1>2, TreeErrorIs
  <2>2. DOMAIN d = SessionFields /\ d.authenticated = TRUE /\ d.terminate \in BOOLEAN /\ SameBooks(c, d) /\ SameKeys(c, d)
    BY <2>1 DEF ConnOK, SessionFields, SameBooks, SameKeys
  <2>3. out \in Refused(d, "ACCESS_DENIED") \/ out \in Done(c, "SUCCESS")
    BY <1>2 DEF validate_negotiate_info
  <2> QED BY <2>2, <2>3, OutIn, OutSame DEF Refused
<1> QED BY <1>1, <1>2

\* Every request but those of an exchange and a CANCEL leaves the keys alone and is answered.
Plain == {"NEGOTIATE", "LOGOFF", "LOCK", "ECHO", "TREE_CONNECT", "TREE_DISCONNECT", "CREATE", "CLOSE", "QUERY", "READ", "WRITE",
          "TRANSCEIVE", "VALIDATE"}
LEMMA PlainServes ==
  ASSUME NEW c, ConnOK(c), NEW r, r.cmd \in Plain, NEW out \in Dispatch(c, r)
  PROVE  Outcome(c, out)
<1>1. \/ out \in h_negotiate(c, r) \/ out \in h_logoff(c, r) \/ out \in h_tree_connect(c, r) \/ out \in h_tree_disconnect(c, r)
      \/ out \in h_create(c, r) \/ out \in h_close(c, r) \/ out \in FileQuery(c, r) \/ out \in h_read(c, r) \/ out \in h_write(c, r)
      \/ out \in Transceive(c, r) \/ out \in validate_negotiate_info(c, r) \/ out \in Done(c, "SUCCESS") \/ out \in Refused(c, "NOT_SUPPORTED")
  BY DEF Dispatch, Plain
<1>2. CASE out \in Done(c, "SUCCESS") \/ out \in Refused(c, "NOT_SUPPORTED")
  BY <1>2, OutSame DEF Refused
<1> QED BY <1>1, <1>2, NegotiateServes, LogoffServes, TreeConnectServes, TreeDisconnectServes, CreateServes, CloseServes, QueryServes,
           ReadServes, WriteServes, TransceiveServes, ValidateServes

LEMMA PlainOutcome ==
  ASSUME NEW c, ConnOK(c), NEW r, r.cmd \in Plain, NEW prev, NEW out \in Outcomes(c, r, prev)
  PROVE  Outcome(c, out)
<1>1. CASE Failed(prev) /\ out \in Refused(c, prev)
  BY <1>1, OutSame DEF Refused, Failed
<1>2. CASE out \in Refused(c, "ACCESS_DENIED")
  BY <1>2, OutSame DEF Refused
<1> QED BY <1>1, <1>2, PlainServes DEF Outcomes

\* One request that is answered: its reply, its credits, a connection in good order.
Entry(r, st, g) == [r |-> r, st |-> st, grant |-> g]
Served(s, t, r, st, g) ==
  /\ st # "none" /\ t.list = Append(s.list, Entry(r, st, g)) /\ ConnOK(t.c) /\ t.c.isOpen = s.c.isOpen /\ t.c.up = s.c.up
  /\ g = Grant(s.c, r) /\ t.c.credits = Spend(s.c, r) + g

LEMMA Amounts ==
  ASSUME NEW c, c.credits \in Nat, NEW r, r.charge \in Nat, r.want \in Nat
  PROVE  Spend(c, r) \in Nat /\ Grant(c, r) \in Nat \ {0}
BY SessionAssumption DEF Spend, Grant, Larger, Smaller

\* What a request leaves, whatever its outcome did.
LEMMA ServeOneIs ==
  ASSUME NEW s, NEW r, r.charge \in Nat, r.want \in Nat, NEW t \in ServeOne(s, r)
  PROVE  \E out \in Outcomes(s.c, r, s.prev) :
           (ConnOK(out.c) /\ out.c.credits = s.c.credits) =>
              /\ ConnOK(t.c) /\ SameKeys(out.c, t.c) /\ t.c.isOpen = out.c.isOpen /\ t.c.up = out.c.up
              /\ t.c.credits = Spend(s.c, r) + Grant(s.c, r)
              /\ t.list = IF out.st = "none" THEN s.list ELSE Append(s.list, Entry(r, out.st, Grant(s.c, r)))
<1>1. PICK out \in Outcomes(s.c, r, s.prev) :
        t = LET c == [out.c EXCEPT !.compound = IF r.cmd = "CREATE" /\ out.st = "SUCCESS" THEN out.fid ELSE @]
                grant == Grant(c, r)
            IN  [c |-> [c EXCEPT !.credits = Spend(c, r) + grant], prev |-> out.st,
                 list |-> IF out.st = "none" THEN s.list ELSE Append(s.list, [r |-> r, st |-> out.st, grant |-> grant])]
  BY DEF ServeOne
<1>2. PICK c : c = [out.c EXCEPT !.compound = IF r.cmd = "CREATE" /\ out.st = "SUCCESS" THEN out.fid ELSE @]
  OBVIOUS
<1>3. PICK d : d = [c EXCEPT !.credits = Spend(c, r) + Grant(c, r)]
  OBVIOUS
<1>4. t.c = d /\ t.list = IF out.st = "none" THEN s.list ELSE Append(s.list, Entry(r, out.st, Grant(c, r)))
  BY <1>1, <1>2, <1>3 DEF Entry
<1>5. ASSUME ConnOK(out.c), out.c.credits = s.c.credits
      PROVE  /\ ConnOK(t.c) /\ SameKeys(out.c, t.c) /\ t.c.isOpen = out.c.isOpen /\ t.c.up = out.c.up
             /\ t.c.credits = Spend(s.c, r) + Grant(s.c, r)
             /\ t.list = IF out.st = "none" THEN s.list ELSE Append(s.list, Entry(r, out.st, Grant(s.c, r)))
  <2>1. ConnOK(c) /\ SameKeys(out.c, c) /\ c.isOpen = out.c.isOpen /\ c.up = out.c.up /\ c.credits = out.c.credits
    BY <1>2, <1>5 DEF ConnOK, SessionFields, SameKeys
  <2>2. Spend(c, r) = Spend(s.c, r) /\ Grant(c, r) = Grant(s.c, r)
    BY <1>5, <2>1 DEF Spend, Grant
  <2>3. Spend(c, r) \in Nat /\ Grant(c, r) \in Nat
    BY <2>1, Amounts DEF ConnOK
  <2>4. ConnOK(d) /\ SameKeys(c, d) /\ d.isOpen = c.isOpen /\ d.up = c.up /\ d.credits = Spend(c, r) + Grant(c, r)
    BY <1>3, <2>1, <2>3 DEF ConnOK, SessionFields, SameKeys
  <2>5. SameKeys(out.c, d)
    BY <2>1, <2>4 DEF SameKeys
  <2> QED BY <1>4, <2>1, <2>2, <2>4, <2>5
<1> QED BY <1>5

LEMMA ServePlain ==
  ASSUME NEW s, ConnOK(s.c), NEW r, r.cmd \in Plain, r.charge \in Nat, r.want \in Nat, NEW t \in ServeOne(s, r)
  PROVE  SameKeys(s.c, t.c) /\ \E st, g : Served(s, t, r, st, g)
<1>1. PICK out \in Outcomes(s.c, r, s.prev) :
           (ConnOK(out.c) /\ out.c.credits = s.c.credits) =>
              /\ ConnOK(t.c) /\ SameKeys(out.c, t.c) /\ t.c.isOpen = out.c.isOpen /\ t.c.up = out.c.up
              /\ t.c.credits = Spend(s.c, r) + Grant(s.c, r)
              /\ t.list = IF out.st = "none" THEN s.list ELSE Append(s.list, Entry(r, out.st, Grant(s.c, r)))
  BY ServeOneIs
<1>2. Outcome(s.c, out)
  BY PlainOutcome
<1>3. ConnOK(out.c) /\ out.c.credits = s.c.credits /\ out.c.isOpen = s.c.isOpen /\ out.c.up = s.c.up /\ SameKeys(s.c, out.c) /\ out.st # "none"
  BY <1>2 DEF Outcome, SameBooks
<1>4. SameKeys(s.c, t.c)
  BY <1>1, <1>3 DEF SameKeys
<1>5. Served(s, t, r, out.st, Grant(s.c, r))
  BY <1>1, <1>3 DEF Served
<1> QED BY <1>4, <1>5

\* What a charge takes and a grant gives back, on both sides.
LEMMA PaidAndGranted ==
  ASSUME NEW c, c.credits \in Nat, NEW r, r.cmd # "NEGOTIATE", r.charge \in 1..2, r.want \in Nat,
         NEW v \in 1 .. CREDIT_LIMIT, v \in {c.credits, c.credits - 1}, r.charge <= v
  PROVE  LET v2 == v - r.charge + Grant(c, r)
             e2 == Spend(c, r) + Grant(c, r)
         IN  v2 \in {e2, e2 - 1} /\ v2 \in 1 .. CREDIT_LIMIT
BY SessionAssumption DEF Spend, Grant, Larger, Smaller

LEMMA SetupNegotiateServes ==
  ASSUME NEW s, ConnOK(s.c), NEW r, r.cmd = "SETUP_NEGOTIATE", r.sig = NoSig, r.related = FALSE, r.charge \in Nat, r.want \in Nat,
         NEW t \in ServeOne(s, r)
  PROVE  /\ \E g : Served(s, t, r, "MORE_PROCESSING_REQUIRED", g)
         /\ t.c.key = 0 /\ t.c.challenge = s.c.challenges + 1 /\ t.c.challenges = s.c.challenges + 1 /\ t.c.signing_required = FALSE
<1>1. PICK out \in Outcomes(s.c, r, s.prev) :
           (ConnOK(out.c) /\ out.c.credits = s.c.credits) =>
              /\ ConnOK(t.c) /\ SameKeys(out.c, t.c) /\ t.c.isOpen = out.c.isOpen /\ t.c.up = out.c.up
              /\ t.c.credits = Spend(s.c, r) + Grant(s.c, r)
              /\ t.list = IF out.st = "none" THEN s.list ELSE Append(s.list, Entry(r, out.st, Grant(s.c, r)))
  BY ServeOneIs
<1>2. SignatureFits(s.c, r)
  BY DEF SignatureFits
<1>3. out \in SetupNegotiate(s.c, r)
  BY <1>1, <1>2 DEF Outcomes, Dispatch
<1>4. PICK d : d = [s.c EXCEPT !.challenge = s.c.challenges + 1, !.challenges = s.c.challenges + 1, !.key = 0, !.signing_required = FALSE]
  OBVIOUS
<1>5. out.c = d /\ out.st = "MORE_PROCESSING_REQUIRED"
  BY <1>3, <1>4 DEF SetupNegotiate, Done, ConnOK, SessionFields
<1>6. ConnOK(d) /\ SameBooks(s.c, d) /\ d.key = 0 /\ d.challenge = s.c.challenges + 1 /\ d.challenges = s.c.challenges + 1 /\ d.signing_required = FALSE
  BY <1>4 DEF ConnOK, SessionFields, SameBooks
<1>7. Served(s, t, r, "MORE_PROCESSING_REQUIRED", Grant(s.c, r)) /\ SameKeys(d, t.c)
  BY <1>1, <1>5, <1>6 DEF Served, SameBooks
<1> QED BY <1>6, <1>7 DEF SameKeys

\* The second round of an exchange: refused, open to all, or a key for the challenge that was answered.
Authenticated(s, t, r, st, g) ==
  /\ Served(s, t, r, st, g) /\ t.c.challenges = s.c.challenges
  /\ \/ st = "LOGON_FAILURE" /\ SameKeys(s.c, t.c)
     \/ st = "SUCCESS" /\ s.c.isOpen = TRUE /\ t.c.challenge = 0 /\ t.c.key = s.c.key /\ t.c.signing_required = s.c.signing_required
     \/ st = "SUCCESS" /\ s.c.isOpen = FALSE /\ s.c.challenge # 0 /\ r.proof = s.c.challenge /\ t.c.challenge = 0
        /\ t.c.key = s.c.challenge /\ t.c.signing_required = r.required

LEMMA SetupAuthenticateServes ==
  ASSUME NEW s, ConnOK(s.c), NEW r, r.cmd = "SETUP_AUTHENTICATE", r.sig = NoSig, r.related = FALSE, r.required \in BOOLEAN,
         r.charge \in Nat, r.want \in Nat, NEW t \in ServeOne(s, r)
  PROVE  \E st, g : Authenticated(s, t, r, st, g)
<1>1. PICK out \in Outcomes(s.c, r, s.prev) :
           (ConnOK(out.c) /\ out.c.credits = s.c.credits) =>
              /\ ConnOK(t.c) /\ SameKeys(out.c, t.c) /\ t.c.isOpen = out.c.isOpen /\ t.c.up = out.c.up
              /\ t.c.credits = Spend(s.c, r) + Grant(s.c, r)
              /\ t.list = IF out.st = "none" THEN s.list ELSE Append(s.list, Entry(r, out.st, Grant(s.c, r)))
  BY ServeOneIs
<1>2. SignatureFits(s.c, r)
  BY DEF SignatureFits
<1>3. out \in SetupAuthenticate(s.c, r)
  BY <1>1, <1>2 DEF Outcomes, Dispatch
<1>4. PICK in : in = [s.c EXCEPT !.authenticated = TRUE, !.challenge = 0]
  OBVIOUS
<1>5. PICK d : d = [in EXCEPT !.key = s.c.challenge, !.signing_required = r.required]
  OBVIOUS
<1>6. \/ out \in Done(s.c, "LOGON_FAILURE")
      \/ s.c.isOpen = TRUE /\ out \in Done(in, "SUCCESS")
      \/ s.c.isOpen = FALSE /\ s.c.challenge # 0 /\ r.proof = s.c.challenge /\ out \in Done(d, "SUCCESS")
  BY <1>3, <1>4, <1>5 DEF SetupAuthenticate, Refused, Proves, ConnOK
<1>7. ConnOK(in) /\ SameBooks(s.c, in) /\ in.challenge = 0 /\ in.key = s.c.key /\ in.signing_required = s.c.signing_required
      /\ in.challenges = s.c.challenges
  BY <1>4 DEF ConnOK, SessionFields, SameBooks
<1>8. ConnOK(d) /\ SameBooks(s.c, d) /\ d.challenge = 0 /\ d.key = s.c.challenge /\ d.signing_required = r.required
      /\ d.challenges = s.c.challenges
  BY <1>5, <1>7 DEF ConnOK, SessionFields, SameBooks
<1>9. CASE out \in Done(s.c, "LOGON_FAILURE")
  <2>1. out.c = s.c /\ out.st = "LOGON_FAILURE"
    BY <1>9 DEF Done
  <2>2. Served(s, t, r, "LOGON_FAILURE", Grant(s.c, r)) /\ SameKeys(s.c, t.c)
    BY <1>1, <2>1 DEF Served
  <2> QED BY <2>2 DEF SameKeys, Authenticated
<1>10. CASE s.c.isOpen = TRUE /\ out \in Done(in, "SUCCESS")
  <2>1. out.c = in /\ out.st = "SUCCESS"
    BY <1>10 DEF Done
  <2>2. Served(s, t, r, "SUCCESS", Grant(s.c, r)) /\ SameKeys(in, t.c)
    BY <1>1, <1>7, <2>1 DEF Served, SameBooks
  <2> QED BY <1>7, <1>10, <2>2 DEF SameKeys, Authenticated
<1>11. CASE s.c.isOpen = FALSE /\ s.c.challenge # 0 /\ r.proof = s.c.challenge /\ out \in Done(d, "SUCCESS")
  <2>1. out.c = d /\ out.st = "SUCCESS"
    BY <1>11 DEF Done
  <2>2. Served(s, t, r, "SUCCESS", Grant(s.c, r)) /\ SameKeys(d, t.c)
    BY <1>1, <1>8, <2>1 DEF Served, SameBooks
  <2> QED BY <1>8, <1>11, <2>2 DEF SameKeys, Authenticated
<1> QED BY <1>6, <1>9, <1>10, <1>11

\* A CANCEL that is unsigned, or signed with the key of the session, says nothing and costs nothing.
LEMMA CancelServes ==
  ASSUME NEW s, ConnOK(s.c), s.c.credits # 0, NEW r, r.cmd = "CANCEL", r.sig \in {NoSig, s.c.key}, r.related = FALSE,
         r.charge = 0, r.want = 0, NEW t \in ServeOne(s, r)
  PROVE  /\ t.list = s.list /\ ConnOK(t.c) /\ SameKeys(s.c, t.c) /\ t.c.credits = s.c.credits
         /\ t.c.isOpen = s.c.isOpen /\ t.c.up = s.c.up
<1>1. PICK out \in Outcomes(s.c, r, s.prev) :
           (ConnOK(out.c) /\ out.c.credits = s.c.credits) =>
              /\ ConnOK(t.c) /\ SameKeys(out.c, t.c) /\ t.c.isOpen = out.c.isOpen /\ t.c.up = out.c.up
              /\ t.c.credits = Spend(s.c, r) + Grant(s.c, r)
              /\ t.list = IF out.st = "none" THEN s.list ELSE Append(s.list, Entry(r, out.st, Grant(s.c, r)))
  BY ServeOneIs
<1>2. SignatureFits(s.c, r)
  BY DEF SignatureFits
<1>3. out.c = s.c /\ out.st = "none"
  BY <1>1, <1>2 DEF Outcomes, Dispatch, Done
<1>4. s.c.credits \in Nat
  BY DEF ConnOK
<1>5. Spend(s.c, r) + Grant(s.c, r) = s.c.credits
  BY <1>4, SessionAssumption DEF Spend, Grant, Larger, Smaller
<1> QED BY <1>1, <1>3, <1>5

-----------------------------------------------------------------------------
(* Messages of one and of three requests.                                    *)

Start(c) == [c |-> [c EXCEPT !.compound = 0], prev |-> "first", list |-> <<>>]

LEMMA DispatchOne ==
  ASSUME NEW c, NEW r, NEW out \in DispatchAll(c, <<r>>)
  PROVE  out \in ServeOne(Start(c), r)
<1> DEFINE m == <<r>>
           G(S, x) == UNION {ServeOne(s, x) : s \in S}
           Z == {Start(c)}
           U == CHOOSE u : u = [i \in 0 .. Len(m) |-> IF i = 0 THEN Z ELSE G(u[i - 1], m[i])]
           W == [i \in 0 .. Len(m) |-> IF i = 0 THEN Z ELSE G(Z, r)]
<1>1. Len(m) = 1 /\ m[1] = r
  OBVIOUS
<1>2. DispatchAll(c, m) = U[Len(m)]
  BY DEF DispatchAll, Start
<1>3. out \in G(Z, r) => out \in ServeOne(Start(c), r)
  OBVIOUS
<1> HIDE DEF G, Z, m
<1>4. W = [i \in 0 .. Len(m) |-> IF i = 0 THEN Z ELSE G(W[i - 1], m[i])]
  BY <1>1
<1>5. U = [i \in 0 .. Len(m) |-> IF i = 0 THEN Z ELSE G(U[i - 1], m[i])]
  BY <1>4
<1> HIDE DEF U
<1>6. U[0] = Z
  BY <1>1, <1>5
<1>7. U[1] = G(Z, r)
  BY <1>1, <1>5, <1>6
<1> QED BY <1>1, <1>2, <1>3, <1>7 DEF m

LEMMA DispatchThree ==
  ASSUME NEW c, NEW r1, NEW r2, NEW r3, NEW out \in DispatchAll(c, <<r1, r2, r3>>)
  PROVE  \E s1 \in ServeOne(Start(c), r1) : \E s2 \in ServeOne(s1, r2) : out \in ServeOne(s2, r3)
<1> DEFINE m == <<r1, r2, r3>>
           G(S, x) == UNION {ServeOne(s, x) : s \in S}
           Z == {Start(c)}
           U == CHOOSE u : u = [i \in 0 .. Len(m) |-> IF i = 0 THEN Z ELSE G(u[i - 1], m[i])]
           W == [i \in 0 .. Len(m) |-> IF i = 0 THEN Z ELSE IF i = 1 THEN G(Z, r1) ELSE IF i = 2 THEN G(G(Z, r1), r2)
                                       ELSE G(G(G(Z, r1), r2), r3)]
<1>1. Len(m) = 3 /\ m[1] = r1 /\ m[2] = r2 /\ m[3] = r3
  OBVIOUS
<1>2. DispatchAll(c, m) = U[Len(m)]
  BY DEF DispatchAll, Start
<1>3. \A S, x : \A y \in G(S, x) : \E s \in S : y \in ServeOne(s, x)
  OBVIOUS
<1>z. \A x : x \in Z => x = Start(c)
  OBVIOUS
<1> HIDE DEF G, Z, m
<1>4. W = [i \in 0 .. Len(m) |-> IF i = 0 THEN Z ELSE G(W[i - 1], m[i])]
  <2>1. W[0] = Z /\ W[1] = G(Z, r1) /\ W[2] = G(G(Z, r1), r2)
    BY <1>1
  <2>2. \A i \in 0 .. 3 : W[i] = IF i = 0 THEN Z ELSE G(W[i - 1], m[i])
    BY <1>1, <2>1
  <2> QED BY <1>1, <2>2
<1>5. U = [i \in 0 .. Len(m) |-> IF i = 0 THEN Z ELSE G(U[i - 1], m[i])]
  BY <1>4
<1> HIDE DEF U
<1>6. U[0] = Z
  BY <1>1, <1>5
<1>7. U[1] = G(Z, r1)
  BY <1>1, <1>5, <1>6
<1>8. U[2] = G(U[1], r2)
  BY <1>1, <1>5
<1>9. U[3] = G(U[2], r3)
  BY <1>1, <1>5
<1>10. out \in U[3]
  BY <1>1, <1>2 DEF m
<1>11. PICK s2 \in U[2] : out \in ServeOne(s2, r3)
  BY <1>3, <1>9, <1>10
<1>12. PICK s1 \in U[1] : s2 \in ServeOne(s1, r2)
  BY <1>3, <1>8, <1>11
<1>13. PICK s0 \in Z : s1 \in ServeOne(s0, r1)
  BY <1>3, <1>7, <1>12
<1> QED BY <1>z, <1>11, <1>12, <1>13

\* What a message costs.
Cost(r) == IF r.cmd = "CANCEL" THEN 0 ELSE Larger(1, r.charge)
LEMMA ChargeOne ==
  ASSUME NEW r, Cost(r) \in Nat
  PROVE  Charge(<<r>>) = Cost(r)
<1> DEFINE m == <<r>>
           U == CHOOSE u : u = [i \in 0 .. Len(m) |-> IF i = 0 THEN 0 ELSE u[i - 1] + Cost(m[i])]
           W == [i \in 0 .. Len(m) |-> IF i = 0 THEN 0 ELSE Cost(r)]
<1>1. Len(m) = 1 /\ m[1] = r
  OBVIOUS
<1>2. Charge(m) = U[Len(m)]
  BY DEF Charge, Cost
<1> HIDE DEF m
<1>4. W = [i \in 0 .. Len(m) |-> IF i = 0 THEN 0 ELSE W[i - 1] + Cost(m[i])]
  BY <1>1
<1>5. U = [i \in 0 .. Len(m) |-> IF i = 0 THEN 0 ELSE U[i - 1] + Cost(m[i])]
  BY <1>4
<1> HIDE DEF U
<1>6. U[0] = 0
  BY <1>1, <1>5
<1>7. U[1] = Cost(r)
  BY <1>1, <1>5, <1>6
<1> QED BY <1>1, <1>2, <1>7 DEF m

LEMMA ChargeThree ==
  ASSUME NEW r1, NEW r2, NEW r3, Cost(r1) = 1, Cost(r2) = 1, Cost(r3) = 1
  PROVE  Charge(<<r1, r2, r3>>) = 3
<1> DEFINE m == <<r1, r2, r3>>
           U == CHOOSE u : u = [i \in 0 .. Len(m) |-> IF i = 0 THEN 0 ELSE u[i - 1] + Cost(m[i])]
           W == [i \in 0 .. Len(m) |-> i]
<1>1. Len(m) = 3 /\ \A i \in 1..3 : Cost(m[i]) = 1
  OBVIOUS
<1>2. Charge(m) = U[Len(m)]
  BY DEF Charge, Cost
<1> HIDE DEF m
<1>4. W = [i \in 0 .. Len(m) |-> IF i = 0 THEN 0 ELSE W[i - 1] + Cost(m[i])]
  BY <1>1
<1>5. U = [i \in 0 .. Len(m) |-> IF i = 0 THEN 0 ELSE U[i - 1] + Cost(m[i])]
  BY <1>4
<1> HIDE DEF U
<1>6. U[0] = 0
  BY <1>1, <1>5
<1>7. U[1] = 1
  BY <1>1, <1>5, <1>6
<1>8. U[2] = 2
  BY <1>1, <1>5, <1>7
<1>9. U[3] = 3
  BY <1>1, <1>5, <1>8
<1> QED BY <1>1, <1>2, <1>9 DEF m

LEMMA LearnNone ==
  ASSUME NEW k, NEW key
  PROVE  LearnAll(k, <<>>, key) = k
<1> DEFINE U == CHOOSE u : u = [i \in 0 .. Len(<<>>) |-> IF i = 0 THEN k ELSE Learn(u[i - 1], (<<>>)[i], key)]
           W == [i \in 0 .. 0 |-> k]
<1>1. LearnAll(k, <<>>, key) = U[Len(<<>>)]
  BY DEF LearnAll
<1>2. Len(<<>>) = 0
  OBVIOUS
<1>3. W = [i \in 0 .. Len(<<>>) |-> IF i = 0 THEN k ELSE Learn(W[i - 1], (<<>>)[i], key)]
  BY <1>2
<1>4. U = [i \in 0 .. Len(<<>>) |-> IF i = 0 THEN k ELSE Learn(U[i - 1], (<<>>)[i], key)]
  BY <1>3
<1> HIDE DEF U
<1>5. U[0] = k
  BY <1>2, <1>4
<1> QED BY <1>1, <1>2, <1>5

LEMMA LearnOne ==
  ASSUME NEW k, NEW e, NEW key
  PROVE  LearnAll(k, <<e>>, key) = Learn(k, e, key)
<1> DEFINE m == <<e>>
           U == CHOOSE u : u = [i \in 0 .. Len(m) |-> IF i = 0 THEN k ELSE Learn(u[i - 1], m[i], key)]
           W == [i \in 0 .. Len(m) |-> IF i = 0 THEN k ELSE Learn(k, e, key)]
<1>1. Len(m) = 1 /\ m[1] = e
  OBVIOUS
<1>2. LearnAll(k, m, key) = U[Len(m)]
  BY DEF LearnAll
<1> HIDE DEF m
<1>3. W = [i \in 0 .. Len(m) |-> IF i = 0 THEN k ELSE Learn(W[i - 1], m[i], key)]
  BY <1>1
<1>4. U = [i \in 0 .. Len(m) |-> IF i = 0 THEN k ELSE Learn(U[i - 1], m[i], key)]
  BY <1>3
<1> HIDE DEF U
<1>5. U[0] = k
  BY <1>1, <1>4
<1>6. U[1] = Learn(k, e, key)
  BY <1>1, <1>4, <1>5
<1> QED BY <1>1, <1>2, <1>6 DEF m

LEMMA LearnThree ==
  ASSUME NEW k, NEW e1, NEW e2, NEW e3, NEW key
  PROVE  LearnAll(k, <<e1, e2, e3>>, key) = Learn(Learn(Learn(k, e1, key), e2, key), e3, key)
<1> DEFINE m == <<e1, e2, e3>>
           U == CHOOSE u : u = [i \in 0 .. Len(m) |-> IF i = 0 THEN k ELSE Learn(u[i - 1], m[i], key)]
           W == [i \in 0 .. Len(m) |-> IF i = 0 THEN k ELSE IF i = 1 THEN Learn(k, e1, key)
                                       ELSE IF i = 2 THEN Learn(Learn(k, e1, key), e2, key)
                                       ELSE Learn(Learn(Learn(k, e1, key), e2, key), e3, key)]
<1>1. Len(m) = 3 /\ m[1] = e1 /\ m[2] = e2 /\ m[3] = e3
  OBVIOUS
<1>2. LearnAll(k, m, key) = U[Len(m)]
  BY DEF LearnAll
<1> HIDE DEF m
<1>3. W = [i \in 0 .. Len(m) |-> IF i = 0 THEN k ELSE Learn(W[i - 1], m[i], key)]
  <2>1. W[0] = k /\ W[1] = Learn(k, e1, key) /\ W[2] = Learn(Learn(k, e1, key), e2, key)
    BY <1>1
  <2>2. \A i \in 0 .. 3 : W[i] = IF i = 0 THEN k ELSE Learn(W[i - 1], m[i], key)
    BY <1>1, <2>1
  <2> QED BY <1>1, <2>2
<1>4. U = [i \in 0 .. Len(m) |-> IF i = 0 THEN k ELSE Learn(U[i - 1], m[i], key)]
  BY <1>3
<1> HIDE DEF U
<1>5. U[0] = k
  BY <1>1, <1>4
<1>6. U[1] = Learn(k, e1, key)
  BY <1>1, <1>4, <1>5
<1>7. U[2] = Learn(U[1], e2, key)
  BY <1>1, <1>4
<1>8. U[3] = Learn(U[2], e3, key)
  BY <1>1, <1>4
<1> QED BY <1>1, <1>2, <1>6, <1>7, <1>8 DEF m

\* The client's view and the connection: the same key, the same challenge, the same books.
KeysAgree(c, k) ==
  /\ k.key = c.key /\ k.challenge = c.challenges /\ k.required = c.signing_required
  /\ c.challenge \in {0, c.challenges} /\ (c.isOpen = TRUE => c.key = 0 /\ c.signing_required = FALSE)
BooksAgree(c, k) ==
  /\ k.negotiated = "no" => k.credits = 1 /\ c.credits = 0
  /\ k.negotiated = "again" => k.credits = 1 /\ c.credits = 1
  /\ k.negotiated = "yes" => k.credits \in {c.credits, c.credits - 1} /\ k.credits \in 1 .. CREDIT_LIMIT
ClientOK(k) == DOMAIN k = ClientFields /\ k.negotiated \in {"no", "again", "yes", "refused"} /\ k.credits \in Int

\* What holds between two messages.
SessionInv ==
  /\ ConnOK(conn) /\ ClientOK(smbClient) /\ KeysAgree(conn, smbClient)
  /\ (conn.up = TRUE => BooksAgree(conn, smbClient))
  /\ (conn.up = FALSE => conn.handles = <<>>)
  /\ SignedToTheClient

LEMMA SessionInvImplies ==
  ASSUME SessionInv
  PROVE  ClientInStep
<1>1. CreditsAgree
  BY DEF SessionInv, CreditsAgree, BooksAgree, ConnOK
<1>2. NothingOutlivesTheSession
  BY DEF SessionInv, ConnOK, NothingOutlivesTheSession
<1> QED BY <1>1, <1>2 DEF ClientInStep, SessionInv

\* The requests a client may send, by what they do to the books and the keys.
Ordinary(r) == r.cmd \in Plain \ {"NEGOTIATE"} /\ r.charge \in 1..2 /\ r.want \in Nat
LEMMA MessageCases ==
  ASSUME ClientOK(smbClient), SessionAssumption, NEW m \in Messages
  PROVE  \/ /\ smbClient.negotiated \in {"no", "again"}
            /\ \E r : m = <<r>> /\ r.cmd = "NEGOTIATE" /\ r.sig = NoSig /\ r.related = FALSE /\ r.charge = 1 /\ r.want \in {1, 4}
         \/ /\ smbClient.negotiated = "yes"
            /\ \/ \E r : m = <<r>> /\ Ordinary(r)
               \/ \E r : /\ m = <<r>> /\ r.cmd = "SETUP_NEGOTIATE" /\ r.sig = NoSig /\ r.related = FALSE /\ r.charge = 1 /\ r.want = 1
               \/ \E r : /\ m = <<r>> /\ r.cmd = "SETUP_AUTHENTICATE" /\ r.sig = NoSig /\ r.related = FALSE /\ r.charge = 1 /\ r.want = 1
                         /\ r.required \in BOOLEAN /\ r.proof = smbClient.challenge
               \/ \E r : /\ m = <<r>> /\ r.cmd = "CANCEL" /\ r.sig \in {NoSig, smbClient.key} /\ r.related = FALSE /\ r.charge = 0 /\ r.want = 0
               \/ \E r1, r2, r3 : /\ m = <<r1, r2, r3>> /\ Ordinary(r1) /\ Ordinary(r2) /\ Ordinary(r3)
                                  /\ r1.charge = 1 /\ r2.charge = 1 /\ r3.charge = 1
<1>1. CASE smbClient.negotiated = "refused"
  BY <1>1 DEF Messages
<1>2. CASE smbClient.negotiated \in {"no", "again"}
  <2>1. PICK r \in Negotiates : m = <<r>>
    BY <1>2 DEF Messages
  <2>2. PICK o \in {{202, 210}, {300, 302, 311}, {311}} : \E w \in {1, 4} : r = [Req("NEGOTIATE") EXCEPT !.offer = o, !.want = w]
    BY <2>1 DEF Negotiates
  <2>3. PICK w \in {1, 4} : r = [Req("NEGOTIATE") EXCEPT !.offer = o, !.want = w]
    BY <2>2
  <2>4. r.cmd = "NEGOTIATE" /\ r.sig = NoSig /\ r.related = FALSE /\ r.charge = 1 /\ r.want \in {1, 4}
    BY <2>3 DEF Req
  <2> QED BY <1>2, <2>1, <2>4
<1>3. CASE smbClient.negotiated = "yes"
  <2>1. (m \in Compounds) \/ \E r \in Requests \cup Setups \cup Cancels : m = <<r>>
    BY <1>3 DEF Messages
  <2>2. ASSUME NEW r \in Requests PROVE Ordinary(r)
    <3>1. ASSUME NEW cmds \in SUBSET (Plain \ {"NEGOTIATE"}), NEW args, NEW trees, NEW fids, NEW x \in Sealed(cmds, args, trees, fids)
          PROVE  Ordinary(x)
      BY <3>1 DEF Sealed, Ordinary
    <3>2. CASE r \in {[x EXCEPT !.want = 3] : x \in Sealed({"ECHO"}, {"none"}, {0}, {0})}
      <4>1. PICK x \in Sealed({"ECHO"}, {"none"}, {0}, {0}) : r = [x EXCEPT !.want = 3]
        BY <3>2
      <4> QED BY <4>1 DEF Sealed, Ordinary, Plain
    <3>3. CASE r \in {[x EXCEPT !.charge = 2] : x \in Sealed({"READ"}, {"none"}, Trees \ {0}, FileIds)}
      <4>1. PICK x \in Sealed({"READ"}, {"none"}, Trees \ {0}, FileIds) : r = [x EXCEPT !.charge = 2]
        BY <3>3
      <4> QED BY <4>1 DEF Sealed, Ordinary, Plain
    <3>4. CASE r \in UNION {{[x EXCEPT !.offer = a] : x \in Sealed({"VALIDATE"}, {"none"}, Trees \ {0}, {0})} : a \in {conn.claims, {311}}}
      <4> DEFINE V(a) == {[x EXCEPT !.offer = a] : x \in Sealed({"VALIDATE"}, {"none"}, Trees \ {0}, {0})}
      <4>1. r \in UNION {V(a) : a \in {conn.claims, {311}}}
        BY <3>4
      <4> HIDE DEF V
      <4>2. PICK a \in {conn.claims, {311}} : r \in V(a)
        BY <4>1
      <4> USE DEF V
      <4>3. PICK x \in Sealed({"VALIDATE"}, {"none"}, Trees \ {0}, {0}) : r = [x EXCEPT !.offer = a]
        BY <4>2
      <4> QED BY <4>3 DEF Sealed, Ordinary, Plain
    <3>5. CASE r \in Sealed({"LOGOFF", "LOCK"}, {"none"}, {0}, {0}) \cup Sealed({"TREE_CONNECT"}, {"ipc", "disk", "unknown"}, {0}, {0})
      <4>1. {"LOGOFF", "LOCK"} \in SUBSET (Plain \ {"NEGOTIATE"}) /\ {"TREE_CONNECT"} \in SUBSET (Plain \ {"NEGOTIATE"})
        BY DEF Plain
      <4> QED BY <3>1, <3>5, <4>1
    <3>6. CASE r \in Sealed({"TREE_DISCONNECT"}, {"none"}, Trees \ {0}, {0}) \cup Sealed({"CREATE"}, {"none"}, Trees, {0})
      <4>1. {"TREE_DISCONNECT"} \in SUBSET (Plain \ {"NEGOTIATE"}) /\ {"CREATE"} \in SUBSET (Plain \ {"NEGOTIATE"})
        BY DEF Plain
      <4> QED BY <3>1, <3>6, <4>1
    <3> DEFINE open == {f \in FileIds : f \in DOMAIN conn.handles => conn.handles[f].outbox < MaxOutbox}
    <3>7. CASE r \in Sealed({"CLOSE", "QUERY"}, {"none"}, Trees, FileIds) \cup Sealed({"WRITE", "TRANSCEIVE"}, {"bind", "share_enum", "junk"}, Trees \ {0}, open)
      <4>1. {"CLOSE", "QUERY"} \in SUBSET (Plain \ {"NEGOTIATE"}) /\ {"WRITE", "TRANSCEIVE"} \in SUBSET (Plain \ {"NEGOTIATE"})
        BY DEF Plain
      <4> HIDE DEF open
      <4> QED BY <3>1, <3>7, <4>1
    <3>8. \/ r \in Sealed({"LOGOFF", "LOCK"}, {"none"}, {0}, {0}) \cup Sealed({"TREE_CONNECT"}, {"ipc", "disk", "unknown"}, {0}, {0})
          \/ r \in {[x EXCEPT !.want = 3] : x \in Sealed({"ECHO"}, {"none"}, {0}, {0})}
          \/ r \in Sealed({"TREE_DISCONNECT"}, {"none"}, Trees \ {0}, {0}) \cup Sealed({"CREATE"}, {"none"}, Trees, {0})
          \/ r \in {[x EXCEPT !.charge = 2] : x \in Sealed({"READ"}, {"none"}, Trees \ {0}, FileIds)}
          \/ r \in Sealed({"CLOSE", "QUERY"}, {"none"}, Trees, FileIds) \cup Sealed({"WRITE", "TRANSCEIVE"}, {"bind", "share_enum", "junk"}, Trees \ {0}, open)
          \/ r \in UNION {{[x EXCEPT !.offer = a] : x \in Sealed({"VALIDATE"}, {"none"}, Trees \ {0}, {0})} : a \in {conn.claims, {311}}}
      BY Zenon DEF Requests
    <3> QED BY <3>2, <3>3, <3>4, <3>5, <3>6, <3>7, <3>8
  <2>3. ASSUME NEW r \in Setups
        PROVE  r.sig = NoSig /\ r.related = FALSE /\ r.charge = 1 /\ r.want = 1 /\
               (r.cmd = "SETUP_NEGOTIATE" \/ (r.cmd = "SETUP_AUTHENTICATE" /\ r.required \in BOOLEAN /\ r.proof = smbClient.challenge))
    <3>1. CASE r = Req("SETUP_NEGOTIATE")
      BY <3>1 DEF Req
    <3>2. CASE r \in [cmd : {"SETUP_AUTHENTICATE"}, arg : {"good", "bad", "anonymous"}, offer : {{}}, tree : {0}, fid : {0},
                      proof : {smbClient.challenge}, required : BOOLEAN, related : {FALSE}, sig : {NoSig}, charge : {1}, want : {1}]
      BY <3>2
    <3> QED BY <2>3, <3>1, <3>2 DEF Setups
  <2>4. ASSUME NEW r \in Cancels
        PROVE  r.cmd = "CANCEL" /\ r.sig \in {NoSig, smbClient.key} /\ r.related = FALSE /\ r.charge = 0 /\ r.want = 0
    <3>1. PICK s \in {NoSig, smbClient.key} : r = [Req("CANCEL") EXCEPT !.charge = 0, !.sig = s, !.want = 0]
      BY <2>4 DEF Cancels
    <3> QED BY <3>1 DEF Req
  <2>5. ASSUME m \in Compounds
        PROVE  \E r1, r2, r3 : /\ m = <<r1, r2, r3>> /\ Ordinary(r1) /\ Ordinary(r2) /\ Ordinary(r3)
                               /\ r1.charge = 1 /\ r2.charge = 1 /\ r3.charge = 1
    <3>1. PICK t \in Trees \ {0} : \E s \in Signatures : m = Stat(t, s)
      BY <2>5 DEF Compounds
    <3>2. PICK s \in Signatures : m = Stat(t, s)
      BY <3>1
    <3>3. PICK r1 : r1 = [Req("CREATE") EXCEPT !.tree = t, !.sig = s, !.want = 3]
      OBVIOUS
    <3>4. PICK r2 : r2 = [Req("QUERY") EXCEPT !.tree = t, !.fid = COMPOUND_FILE_ID, !.sig = s, !.related = TRUE]
      OBVIOUS
    <3>5. PICK r3 : r3 = [Req("CLOSE") EXCEPT !.tree = t, !.fid = COMPOUND_FILE_ID, !.sig = s, !.related = TRUE]
      OBVIOUS
    <3>6. m = <<r1, r2, r3>>
      BY <3>2, <3>3, <3>4, <3>5 DEF Stat
    <3>7. Ordinary(r1) /\ r1.charge = 1
      BY <3>3 DEF Req, Ordinary, Plain
    <3>8. Ordinary(r2) /\ r2.charge = 1
      BY <3>4 DEF Req, Ordinary, Plain
    <3>9. Ordinary(r3) /\ r3.charge = 1
      BY <3>5 DEF Req, Ordinary, Plain
    <3> QED BY <3>6, <3>7, <3>8, <3>9
  <2>6. CASE m \in Compounds
    BY <1>3, <2>5, <2>6
  <2>7. CASE \E r \in Requests \cup Setups \cup Cancels : m = <<r>>
    <3>1. PICK r \in Requests \cup Setups \cup Cancels : m = <<r>>
      BY <2>7
    <3>2. CASE r \in Requests
      BY <1>3, <2>2, <3>1, <3>2
    <3>3. CASE r \in Setups
      BY <1>3, <2>3, <3>1, <3>3
    <3>4. CASE r \in Cancels
      BY <1>3, <2>4, <3>1, <3>4
    <3> QED BY <3>1, <3>2, <3>3, <3>4
  <2> QED BY <2>1, <2>6, <2>7
<1> QED BY <1>1, <1>2, <1>3 DEF ClientOK

\* A client that has paid for d credits' worth of requests the server has not come to.
BooksDue(c, k, d) ==
  k.negotiated = "yes" /\ (k.credits + d) \in {c.credits, c.credits - 1} /\ (k.credits + d) \in 1 .. CREDIT_LIMIT

LEMMA LearnPlain ==
  ASSUME NEW k, ClientOK(k), NEW r, r.cmd \in Plain \ {"NEGOTIATE"}, NEW st, NEW g \in Nat, NEW key, NEW j, j = Learn(k, Entry(r, st, g), key)
  PROVE  /\ ClientOK(j) /\ j.credits = k.credits + g /\ j.negotiated = k.negotiated /\ j.key = k.key /\ j.challenge = k.challenge
         /\ j.required = k.required
<1>1. PICK e : e = Entry(r, st, g)
  OBVIOUS
<1>2. e.r = r /\ e.grant = g
  BY <1>1 DEF Entry
<1>3. r.cmd \notin {"NEGOTIATE", "SETUP_NEGOTIATE", "SETUP_AUTHENTICATE"}
  BY DEF Plain
<1>4. j = [k EXCEPT !.credits = k.credits + g]
  BY <1>1, <1>2, <1>3 DEF Learn, ClientOK, ClientFields
<1> QED BY <1>4 DEF ClientOK, ClientFields

\* A connection and a client in step, but for d credits the client has paid in advance.
ClientKeepsStep(c, k, d) == ConnOK(c) /\ ClientOK(k) /\ KeysAgree(c, k) /\ BooksDue(c, k, d)

\* A request was answered: whatever key the client is told of, it learns what keeps it in step.
Stepped(s, t, k, d, r, e) ==
  t.list = Append(s.list, e) /\ \A key, j : j = Learn(k, e, key) => ClientKeepsStep(t.c, j, d - r.charge)

LEMMA OrdinaryStep ==
  ASSUME NEW s, NEW k, NEW d \in Nat, ClientKeepsStep(s.c, k, d), NEW r, Ordinary(r), r.charge <= k.credits + d, NEW t \in ServeOne(s, r)
  PROVE  \E e : Stepped(s, t, k, d, r, e)
<1>a. ConnOK(s.c) /\ ClientOK(k) /\ KeysAgree(s.c, k) /\ BooksDue(s.c, k, d)
  BY DEF ClientKeepsStep
<1>0. r.cmd \in Plain /\ r.cmd # "NEGOTIATE" /\ r.charge \in 1..2 /\ r.charge \in Nat /\ r.want \in Nat
  BY DEF Ordinary
<1>1. PICK st, g : Served(s, t, r, st, g)
  BY <1>a, <1>0, ServePlain
<1>2. SameKeys(s.c, t.c)
  BY <1>a, <1>0, ServePlain
<1>3. t.list = Append(s.list, Entry(r, st, g)) /\ ConnOK(t.c) /\ g = Grant(s.c, r) /\ t.c.credits = Spend(s.c, r) + g /\ t.c.isOpen = s.c.isOpen
  BY <1>1 DEF Served
<1>4. s.c.credits \in Nat /\ k.credits \in Int
  BY <1>a DEF ConnOK, ClientOK
<1>5. Spend(s.c, r) \in Nat /\ g \in Nat
  BY <1>0, <1>3, <1>4, Amounts
<1>6. (k.credits + d) \in {s.c.credits, s.c.credits - 1} /\ (k.credits + d) \in 1 .. CREDIT_LIMIT /\ k.negotiated = "yes"
  BY <1>a DEF BooksDue
<1>7. PICK v : v = k.credits + d
  OBVIOUS
<1>8. v - r.charge + g \in {t.c.credits, t.c.credits - 1} /\ v - r.charge + g \in 1 .. CREDIT_LIMIT
  BY <1>0, <1>3, <1>4, <1>6, <1>7, PaidAndGranted
<1>9. ASSUME NEW key, NEW j, j = Learn(k, Entry(r, st, g), key)
      PROVE  ClientKeepsStep(t.c, j, d - r.charge)
  <2>1. /\ ClientOK(j) /\ j.credits = k.credits + g /\ j.negotiated = k.negotiated /\ j.key = k.key /\ j.challenge = k.challenge
        /\ j.required = k.required
    BY <1>a, <1>0, <1>5, <1>9, LearnPlain
  <2>2. KeysAgree(t.c, j)
    BY <1>a, <1>2, <1>3, <2>1 DEF KeysAgree, SameKeys
  <2>3. j.credits + (d - r.charge) = v - r.charge + g
    BY ONLY <1>0, <1>4, <1>5, <1>7, <2>1, d \in Nat
  <2>4. BooksDue(t.c, j, d - r.charge)
    BY <1>6, <1>8, <2>1, <2>3 DEF BooksDue
  <2> QED BY <1>3, <2>1, <2>2, <2>4 DEF ClientKeepsStep
<1>10. Stepped(s, t, k, d, r, Entry(r, st, g))
  BY <1>3, <1>9 DEF Stepped
<1> QED BY <1>10

LEMMA InStepAfter ==
  ASSUME NEW c, NEW k, ClientKeepsStep(c, k, 0)
  PROVE  ConnOK(c) /\ ClientOK(k) /\ KeysAgree(c, k) /\ BooksAgree(c, k)
<1>1. k.credits \in Int /\ c.credits \in Nat
  BY DEF ClientKeepsStep, ConnOK, ClientOK
<1>2. BooksAgree(c, k)
  BY <1>1 DEF ClientKeepsStep, BooksDue, BooksAgree
<1> QED BY <1>2 DEF ClientKeepsStep

\* After a message: what the client learnt from the replies fits the connection.
After(c, k) == ConnOK(c) /\ ClientOK(k) /\ KeysAgree(c, k) /\ BooksAgree(c, k)

LEMMA StartIs ==
  ASSUME ConnOK(conn)
  PROVE  /\ ConnOK(Start(conn).c) /\ SameKeys(conn, Start(conn).c) /\ SameBooks(conn, Start(conn).c)
         /\ Start(conn).list = <<>> /\ Start(conn).prev = "first"
<1>1. PICK c : c = [conn EXCEPT !.compound = 0]
  OBVIOUS
<1>2. Start(conn).c = c /\ Start(conn).list = <<>> /\ Start(conn).prev = "first"
  BY <1>1 DEF Start
<1>3. ConnOK(c) /\ SameKeys(conn, c) /\ SameBooks(conn, c)
  BY <1>1 DEF ConnOK, SessionFields, SameKeys, SameBooks
<1> QED BY <1>2, <1>3

LEMMA PaidIs ==
  ASSUME ClientOK(smbClient), NEW n \in Nat, NEW k, k = [smbClient EXCEPT !.credits = @ - n]
  PROVE  ClientOK(k) /\ k.credits = smbClient.credits - n /\ k.negotiated = smbClient.negotiated /\ k.key = smbClient.key
         /\ k.challenge = smbClient.challenge /\ k.required = smbClient.required
BY DEF ClientOK, ClientFields

LEMMA AppendHas ==
  ASSUME NEW S, NEW s \in Seq(S), NEW e \in S, NEW n \in Nat, n = Len(s), NEW w, w = Append(s, e)
  PROVE  w \in Seq(S) /\ Len(w) = n + 1 /\ w[n + 1] = e /\ \A j \in 1 .. n : w[j] = s[j]
OBVIOUS

LEMMA AppendIs ==
  ASSUME NEW e1, NEW e2, NEW e3
  PROVE  Append(<<>>, e1) = <<e1>> /\ Append(<<e1>>, e2) = <<e1, e2>> /\ Append(<<e1, e2>>, e3) = <<e1, e2, e3>>
<1>0. PICK S : e1 \in S /\ e2 \in S /\ e3 \in S
  <2>1. e1 \in {e1, e2, e3} /\ e2 \in {e1, e2, e3} /\ e3 \in {e1, e2, e3}
    OBVIOUS
  <2> QED BY <2>1
<1>1. Append(<<>>, e1) = <<e1>>
  OBVIOUS
<1>2. PICK a : a = <<e1>>
  OBVIOUS
<1>3. a \in Seq(S) /\ Len(a) = 1 /\ a[1] = e1
  BY <1>0, <1>2
<1>4. PICK w : w = Append(a, e2)
  OBVIOUS
<1>5. w \in Seq(S) /\ Len(w) = 2 /\ w[1] = a[1] /\ w[2] = e2
  <2>1. w \in Seq(S) /\ Len(w) = 1 + 1 /\ w[1 + 1] = e2 /\ \A j \in 1 .. 1 : w[j] = a[j]
    BY <1>0, <1>3, <1>4, AppendHas
  <2> QED BY <2>1
<1>6. PICK b : b = <<e1, e2>>
  OBVIOUS
<1>7. b \in Seq(S) /\ Len(b) = 2 /\ b[1] = e1 /\ b[2] = e2
  BY <1>0, <1>6
<1>8. w = b
  BY <1>3, <1>5, <1>7
<1>9. PICK x : x = Append(b, e3)
  OBVIOUS
<1>10. x \in Seq(S) /\ Len(x) = 3 /\ x[1] = b[1] /\ x[2] = b[2] /\ x[3] = e3
  <2>1. x \in Seq(S) /\ Len(x) = 2 + 1 /\ x[2 + 1] = e3 /\ \A j \in 1 .. 2 : x[j] = b[j]
    BY <1>0, <1>7, <1>9, AppendHas
  <2> QED BY <2>1
<1>11. PICK c : c = <<e1, e2, e3>>
  OBVIOUS
<1>12. c \in Seq(S) /\ Len(c) = 3 /\ c[1] = e1 /\ c[2] = e2 /\ c[3] = e3
  BY <1>0, <1>11
<1>13. x = c
  BY <1>7, <1>10, <1>12
<1> QED BY <1>1, <1>2, <1>4, <1>6, <1>8, <1>9, <1>11, <1>13

LEMMA OrdinaryMessage ==
  ASSUME SessionInv, conn.up = TRUE, smbClient.negotiated = "yes", NEW r, Ordinary(r), NEW out \in DispatchAll(conn, <<r>>),
         Charge(<<r>>) <= smbClient.credits, NEW k0, k0 = [smbClient EXCEPT !.credits = @ - Charge(<<r>>)],
         NEW k, k = LearnAll(k0, out.list, out.c.key)
  PROVE  After(out.c, k)
<1>1. ConnOK(conn) /\ ClientOK(smbClient) /\ KeysAgree(conn, smbClient) /\ BooksAgree(conn, smbClient)
  BY DEF SessionInv
<1>2. PICK s : s = Start(conn)
  OBVIOUS
<1>3. ConnOK(s.c) /\ SameKeys(conn, s.c) /\ SameBooks(conn, s.c) /\ s.list = <<>>
  BY <1>1, <1>2, StartIs
<1>4. out \in ServeOne(s, r)
  BY <1>2, DispatchOne
<1>5. r.charge \in 1..2 /\ Cost(r) = r.charge
  BY DEF Ordinary, Cost, Larger, Plain
<1>6. Charge(<<r>>) = r.charge
  BY <1>5, ChargeOne
<1>8. ClientOK(k0) /\ k0.credits = smbClient.credits - r.charge /\ k0.negotiated = smbClient.negotiated /\ k0.key = smbClient.key
         /\ k0.challenge = smbClient.challenge /\ k0.required = smbClient.required
  BY <1>1, <1>5, <1>6, PaidIs
<1>9. KeysAgree(s.c, k0)
  BY <1>1, <1>3, <1>8 DEF KeysAgree, SameKeys, SameBooks
<1>10. smbClient.credits \in Int /\ k0.credits + r.charge = smbClient.credits
  BY <1>1, <1>5, <1>8 DEF ClientOK
<1>11. BooksDue(s.c, k0, r.charge)
  BY <1>1, <1>3, <1>8, <1>10 DEF BooksDue, BooksAgree, SameBooks
<1>12. r.charge <= k0.credits + r.charge
  BY <1>6, <1>10
<1>13. r.charge \in Nat /\ ClientKeepsStep(s.c, k0, r.charge)
  BY <1>3, <1>5, <1>8, <1>9, <1>11 DEF ClientKeepsStep
<1>14. PICK e : Stepped(s, out, k0, r.charge, r, e)
  BY <1>4, <1>12, <1>13, OrdinaryStep
<1>15. out.list = <<e>>
  BY <1>3, <1>14, AppendIs DEF Stepped
<1>16. k = LearnAll(k0, <<e>>, out.c.key)
  BY <1>15
<1>17. k = Learn(k0, e, out.c.key)
  BY <1>16, LearnOne
<1>18. ClientKeepsStep(out.c, k, r.charge - r.charge)
  BY <1>14, <1>17 DEF Stepped
<1>19. r.charge - r.charge = 0
  BY <1>5
<1> QED BY <1>18, <1>19, InStepAfter DEF After

LEMMA CompoundMessage ==
  ASSUME SessionInv, conn.up = TRUE, smbClient.negotiated = "yes", NEW r1, NEW r2, NEW r3, Ordinary(r1), Ordinary(r2), Ordinary(r3),
         r1.charge = 1, r2.charge = 1, r3.charge = 1, NEW out \in DispatchAll(conn, <<r1, r2, r3>>),
         Charge(<<r1, r2, r3>>) <= smbClient.credits,
         NEW k0, k0 = [smbClient EXCEPT !.credits = @ - Charge(<<r1, r2, r3>>)], NEW k, k = LearnAll(k0, out.list, out.c.key)
  PROVE  After(out.c, k)
<1>1. ConnOK(conn) /\ ClientOK(smbClient) /\ KeysAgree(conn, smbClient) /\ BooksAgree(conn, smbClient)
  BY DEF SessionInv
<1>2. PICK s : s = Start(conn)
  OBVIOUS
<1>3. ConnOK(s.c) /\ SameKeys(conn, s.c) /\ SameBooks(conn, s.c) /\ s.list = <<>>
  BY <1>1, <1>2, StartIs
<1>4. PICK s1 \in ServeOne(s, r1) : \E s2 \in ServeOne(s1, r2) : out \in ServeOne(s2, r3)
  BY <1>2, DispatchThree
<1>5. PICK s2 \in ServeOne(s1, r2) : out \in ServeOne(s2, r3)
  BY <1>4
<1>6. Cost(r1) = 1 /\ Cost(r2) = 1 /\ Cost(r3) = 1
  BY DEF Ordinary, Cost, Larger, Plain
<1>7. Charge(<<r1, r2, r3>>) = 3
  BY <1>6, ChargeThree
<1>9. ClientOK(k0) /\ k0.credits = smbClient.credits - 3 /\ k0.negotiated = smbClient.negotiated /\ k0.key = smbClient.key
         /\ k0.challenge = smbClient.challenge /\ k0.required = smbClient.required
  BY <1>1, <1>7, PaidIs
<1>10. KeysAgree(s.c, k0)
  BY <1>1, <1>3, <1>9 DEF KeysAgree, SameKeys, SameBooks
<1>11. smbClient.credits \in Int /\ k0.credits + 3 = smbClient.credits
  BY <1>1, <1>9 DEF ClientOK
<1>12. BooksDue(s.c, k0, 3)
  BY <1>1, <1>3, <1>9, <1>11 DEF BooksDue, BooksAgree, SameBooks
<1>13. r1.charge <= k0.credits + 3
  BY <1>7, <1>11
<1>14. ClientKeepsStep(s.c, k0, 3)
  BY <1>3, <1>9, <1>10, <1>12 DEF ClientKeepsStep
<1>15. PICK e1 : Stepped(s, s1, k0, 3, r1, e1)
  BY <1>4, <1>13, <1>14, OrdinaryStep
<1>16. PICK k1 : k1 = Learn(k0, e1, out.c.key)
  OBVIOUS
<1>17. ClientKeepsStep(s1.c, k1, 2)
  <2>1. ClientKeepsStep(s1.c, k1, 3 - r1.charge)
    BY <1>15, <1>16 DEF Stepped
  <2>2. 3 - r1.charge = 2
    OBVIOUS
  <2> QED BY <2>1, <2>2
<1>18. r2.charge <= k1.credits + 2
  BY <1>17 DEF ClientKeepsStep, BooksDue, ClientOK
<1>19. PICK e2 : Stepped(s1, s2, k1, 2, r2, e2)
  BY <1>5, <1>17, <1>18, OrdinaryStep
<1>20. PICK k2 : k2 = Learn(k1, e2, out.c.key)
  OBVIOUS
<1>21. ClientKeepsStep(s2.c, k2, 1)
  <2>1. ClientKeepsStep(s2.c, k2, 2 - r2.charge)
    BY <1>19, <1>20 DEF Stepped
  <2>2. 2 - r2.charge = 1
    OBVIOUS
  <2> QED BY <2>1, <2>2
<1>22. r3.charge <= k2.credits + 1
  BY <1>21 DEF ClientKeepsStep, BooksDue, ClientOK
<1>23. PICK e3 : Stepped(s2, out, k2, 1, r3, e3)
  BY <1>5, <1>21, <1>22, OrdinaryStep
<1>24. s1.list = Append(<<>>, e1) /\ s2.list = Append(s1.list, e2) /\ out.list = Append(s2.list, e3)
  BY <1>3, <1>15, <1>19, <1>23 DEF Stepped
<1>25. out.list = <<e1, e2, e3>>
  <2>1. s1.list = <<e1>>
    BY <1>24, AppendIs
  <2>2. s2.list = <<e1, e2>>
    BY <1>24, <2>1, AppendIs
  <2>3. Append(<<e1, e2>>, e3) = <<e1, e2, e3>>
    BY AppendIs
  <2> QED BY <1>24, <2>2, <2>3
<1>26. k = LearnAll(k0, <<e1, e2, e3>>, out.c.key)
  BY <1>25
<1>27. k = Learn(k2, e3, out.c.key)
  BY <1>16, <1>20, <1>26, LearnThree
<1>28. ClientKeepsStep(out.c, k, 1 - r3.charge)
  BY <1>23, <1>27 DEF Stepped
<1>29. 1 - r3.charge = 0
  OBVIOUS
<1> QED BY <1>28, <1>29, InStepAfter DEF After

\* A message of one request: where the server starts, and what the client has paid.
OneStart(s, k0, r, n) ==
  /\ ConnOK(s.c) /\ SameKeys(conn, s.c) /\ SameBooks(conn, s.c) /\ s.list = <<>>
  /\ ClientOK(k0) /\ k0.credits = smbClient.credits - n /\ k0.negotiated = smbClient.negotiated /\ k0.key = smbClient.key
  /\ k0.challenge = smbClient.challenge /\ k0.required = smbClient.required
LEMMA OneMessage ==
  ASSUME SessionInv, NEW r, NEW n \in Nat, Cost(r) = n, NEW out \in DispatchAll(conn, <<r>>),
         NEW k0, k0 = [smbClient EXCEPT !.credits = @ - Charge(<<r>>)]
  PROVE  OneStart(Start(conn), k0, r, n) /\ out \in ServeOne(Start(conn), r)
<1>1. ConnOK(conn) /\ ClientOK(smbClient)
  BY DEF SessionInv
<1>2. Charge(<<r>>) = n
  BY ChargeOne
<1>3. ClientOK(k0) /\ k0.credits = smbClient.credits - n /\ k0.negotiated = smbClient.negotiated /\ k0.key = smbClient.key
         /\ k0.challenge = smbClient.challenge /\ k0.required = smbClient.required
  BY <1>1, <1>2, PaidIs
<1> QED BY <1>1, <1>3, StartIs, DispatchOne DEF OneStart

LEMMA NegotiateMessage ==
  ASSUME SessionInv, conn.up = TRUE, smbClient.negotiated \in {"no", "again"},
         NEW r, r.cmd = "NEGOTIATE", r.charge = 1, r.want \in {1, 4}, NEW out \in DispatchAll(conn, <<r>>),
         NEW k0, k0 = [smbClient EXCEPT !.credits = @ - Charge(<<r>>)], NEW k, k = LearnAll(k0, out.list, out.c.key)
  PROVE  After(out.c, k)
<1>1. KeysAgree(conn, smbClient) /\ BooksAgree(conn, smbClient) /\ conn.credits \in Nat
  BY DEF SessionInv, ConnOK
<1>2. Cost(r) = 1
  BY DEF Cost, Larger
<1>3. PICK s : s = Start(conn)
  OBVIOUS
<1>4. OneStart(s, k0, r, 1) /\ out \in ServeOne(s, r)
  BY <1>2, <1>3, OneMessage
<1>5. ConnOK(s.c) /\ r.cmd \in Plain /\ r.charge \in Nat /\ r.want \in Nat /\ s.list = <<>>
  BY <1>4 DEF OneStart, Plain
<1>6. PICK st, g : Served(s, out, r, st, g)
  BY <1>4, <1>5, ServePlain
<1>7. SameKeys(s.c, out.c)
  BY <1>4, <1>5, ServePlain
<1>8. k = Learn(k0, Entry(r, st, g), out.c.key)
  <2>1. PICK x : x = Entry(r, st, g)
    OBVIOUS
  <2>2. out.list = Append(<<>>, x)
    BY <1>5, <1>6, <2>1 DEF Served
  <2>3. out.list = <<x>>
    BY <2>2, AppendIs
  <2>4. k = LearnAll(k0, <<x>>, out.c.key)
    BY <2>3
  <2> QED BY <2>1, <2>4, LearnOne
<1>9. s.c.credits = conn.credits /\ smbClient.credits = 1 /\ conn.credits \in {0, 1}
  BY <1>1, <1>4 DEF OneStart, SameBooks, BooksAgree
<1>10. g = Grant(s.c, r) /\ out.c.credits = Spend(s.c, r) + g /\ ConnOK(out.c) /\ out.c.isOpen = s.c.isOpen
  BY <1>6 DEF Served
<1>11. out.c.credits = conn.credits + g /\ g \in 1 .. CREDIT_LIMIT
  BY <1>1, <1>9, <1>10, SessionAssumption DEF Grant, Spend, Larger, Smaller
<1>12. PICK e : e = Entry(r, st, g)
  OBVIOUS
<1>13. e.r = r /\ e.st = st /\ e.grant = g
  BY <1>12 DEF Entry
<1>14. DOMAIN k0 = ClientFields /\ k0.credits = 0 /\ k0.key = smbClient.key /\ k0.challenge = smbClient.challenge /\ k0.required = smbClient.required
  BY <1>4, <1>9 DEF OneStart, ClientOK
<1>15. PICK paid : paid = [k0 EXCEPT !.credits = @ + g]
  OBVIOUS
<1>16. DOMAIN paid = ClientFields /\ paid.credits = g /\ paid.key = smbClient.key /\ paid.challenge = smbClient.challenge /\ paid.required = smbClient.required
  BY <1>11, <1>14, <1>15, SessionAssumption DEF ClientFields
<1>17. k = [paid EXCEPT !.negotiated = IF st = "SUCCESS" THEN "yes" ELSE "refused"]
  BY <1>8, <1>12, <1>13, <1>15 DEF Learn
<1>18. DOMAIN k = ClientFields /\ k.credits = g /\ k.key = smbClient.key /\ k.challenge = smbClient.challenge /\ k.required = smbClient.required
       /\ k.negotiated \in {"yes", "refused"}
  BY <1>16, <1>17 DEF ClientFields
<1>19. ClientOK(k)
  BY <1>11, <1>18, SessionAssumption DEF ClientOK
<1>20. SameKeys(conn, out.c) /\ out.c.isOpen = conn.isOpen
  BY <1>4, <1>7, <1>10 DEF OneStart, SameKeys, SameBooks
<1>21. KeysAgree(out.c, k)
  BY <1>1, <1>18, <1>20 DEF KeysAgree, SameKeys
<1>22. BooksAgree(out.c, k)
  BY <1>9, <1>11, <1>18, SessionAssumption DEF BooksAgree
<1> QED BY <1>10, <1>19, <1>21, <1>22 DEF After

\* What a reply to a message of one request that costs one does to the books.
OneAnswer(s, k0, r, g, c, k) ==
  /\ g = Grant(s.c, r) /\ c.credits = Spend(s.c, r) + g /\ k.credits = k0.credits + g /\ k.negotiated = k0.negotiated
  /\ r.cmd # "NEGOTIATE" /\ r.charge = 1 /\ r.want \in Nat
LEMMA OneBooks ==
  ASSUME BooksAgree(conn, smbClient), smbClient.negotiated = "yes", ClientOK(smbClient), ConnOK(conn),
         NEW s, NEW k0, NEW r, OneStart(s, k0, r, 1), NEW g, NEW c, NEW k, OneAnswer(s, k0, r, g, c, k)
  PROVE  BooksAgree(c, k) /\ k.credits \in Int
<1>2. g = Grant(s.c, r) /\ c.credits = Spend(s.c, r) + g /\ k.credits = k0.credits + g /\ k.negotiated = k0.negotiated
      /\ r.cmd # "NEGOTIATE" /\ r.charge = 1 /\ r.want \in Nat
  BY DEF OneAnswer
<1>1. s.c.credits = conn.credits /\ k0.credits = smbClient.credits - 1 /\ k0.negotiated = "yes"
  BY DEF OneStart, SameBooks
<1>3. conn.credits \in Nat /\ smbClient.credits \in Int /\ smbClient.credits \in {conn.credits, conn.credits - 1} /\ smbClient.credits \in 1 .. CREDIT_LIMIT
  BY DEF BooksAgree, ClientOK, ConnOK
<1>4. r.charge \in 1..2 /\ r.charge <= smbClient.credits
  BY <1>2, <1>3, SessionAssumption
<1>5. Spend(s.c, r) \in Nat /\ g \in Nat
  BY <1>1, <1>2, <1>3, <1>4, Amounts
<1>6. PICK v \in 1 .. CREDIT_LIMIT : v = smbClient.credits
  BY <1>3
<1>7. v - r.charge + g \in {c.credits, c.credits - 1} /\ v - r.charge + g \in 1 .. CREDIT_LIMIT
  BY <1>1, <1>2, <1>3, <1>4, <1>6, PaidAndGranted
<1>8. k.credits = v - r.charge + g /\ k.credits \in Int
  BY <1>1, <1>2, <1>3, <1>5, <1>6
<1> QED BY <1>1, <1>2, <1>7, <1>8 DEF BooksAgree

LEMMA SetupNegotiateMessage ==
  ASSUME SessionInv, conn.up = TRUE, smbClient.negotiated = "yes",
         NEW r, r.cmd = "SETUP_NEGOTIATE", r.sig = NoSig, r.related = FALSE, r.charge = 1, r.want = 1, NEW out \in DispatchAll(conn, <<r>>),
         NEW k0, k0 = [smbClient EXCEPT !.credits = @ - Charge(<<r>>)], NEW k, k = LearnAll(k0, out.list, out.c.key)
  PROVE  After(out.c, k)
<1>1. KeysAgree(conn, smbClient) /\ BooksAgree(conn, smbClient) /\ ConnOK(conn) /\ ClientOK(smbClient)
  BY DEF SessionInv
<1>2. Cost(r) = 1
  BY DEF Cost, Larger
<1>3. PICK s : s = Start(conn)
  OBVIOUS
<1>4. OneStart(s, k0, r, 1) /\ out \in ServeOne(s, r)
  BY <1>2, <1>3, OneMessage
<1>5. ConnOK(s.c) /\ r.charge \in Nat /\ r.want \in Nat /\ s.list = <<>>
  BY <1>4 DEF OneStart
<1>6. PICK g : Served(s, out, r, "MORE_PROCESSING_REQUIRED", g)
  BY <1>4, <1>5, SetupNegotiateServes
<1>7. out.c.key = 0 /\ out.c.challenge = s.c.challenges + 1 /\ out.c.challenges = s.c.challenges + 1 /\ out.c.signing_required = FALSE
  BY <1>4, <1>5, SetupNegotiateServes
<1>8. k = Learn(k0, Entry(r, "MORE_PROCESSING_REQUIRED", g), out.c.key)
  <2>1. PICK x : x = Entry(r, "MORE_PROCESSING_REQUIRED", g)
    OBVIOUS
  <2>2. out.list = Append(<<>>, x)
    BY <1>5, <1>6, <2>1 DEF Served
  <2>3. out.list = <<x>>
    BY <2>2, AppendIs
  <2>4. k = LearnAll(k0, <<x>>, out.c.key)
    BY <2>3
  <2> QED BY <2>1, <2>4, LearnOne
<1>9. DOMAIN k0 = ClientFields /\ k0.negotiated = "yes" /\ k0.challenge = smbClient.challenge
  BY <1>4 DEF OneStart, ClientOK
<1>10. PICK e : e = Entry(r, "MORE_PROCESSING_REQUIRED", g)
  OBVIOUS
<1>11. e.r = r /\ e.grant = g
  BY <1>10 DEF Entry
<1>12. PICK paid : paid = [k0 EXCEPT !.credits = @ + g]
  OBVIOUS
<1>13. DOMAIN paid = ClientFields /\ paid.credits = k0.credits + g /\ paid.negotiated = "yes" /\ paid.challenge = smbClient.challenge
  BY <1>9, <1>12 DEF ClientFields
<1>14. k = [paid EXCEPT !.challenge = @ + 1, !.key = 0, !.required = FALSE]
  BY <1>8, <1>10, <1>11, <1>12 DEF Learn
<1>15. DOMAIN k = ClientFields /\ k.credits = k0.credits + g /\ k.negotiated = "yes" /\ k.challenge = smbClient.challenge + 1 /\ k.key = 0
       /\ k.required = FALSE
  BY <1>13, <1>14 DEF ClientFields
<1>16. BooksAgree(out.c, k) /\ k.credits \in Int
  <2>1. g = Grant(s.c, r) /\ out.c.credits = Spend(s.c, r) + g
    BY <1>6 DEF Served
  <2>2. k.credits = k0.credits + g /\ k.negotiated = k0.negotiated /\ r.cmd # "NEGOTIATE" /\ r.want \in Nat
    BY <1>5, <1>9, <1>15
  <2>3. OneAnswer(s, k0, r, g, out.c, k)
    BY <2>1, <2>2 DEF OneAnswer
  <2> QED BY <1>1, <1>4, <2>3, OneBooks
<1>17. ClientOK(k)
  BY <1>15, <1>16 DEF ClientOK
<1>18. s.c.challenges = conn.challenges
  BY <1>4 DEF OneStart, SameKeys
<1>19. KeysAgree(out.c, k)
  BY <1>1, <1>7, <1>15, <1>18 DEF KeysAgree
<1> QED BY <1>6, <1>16, <1>17, <1>19 DEF After, Served

LEMMA SetupAuthenticateMessage ==
  ASSUME SessionInv, conn.up = TRUE, smbClient.negotiated = "yes",
         NEW r, r.cmd = "SETUP_AUTHENTICATE", r.sig = NoSig, r.related = FALSE, r.charge = 1, r.want = 1, r.required \in BOOLEAN,
         r.proof = smbClient.challenge, NEW out \in DispatchAll(conn, <<r>>),
         NEW k0, k0 = [smbClient EXCEPT !.credits = @ - Charge(<<r>>)], NEW k, k = LearnAll(k0, out.list, out.c.key)
  PROVE  After(out.c, k)
<1>1. KeysAgree(conn, smbClient) /\ BooksAgree(conn, smbClient) /\ ConnOK(conn) /\ ClientOK(smbClient)
  BY DEF SessionInv
<1>2. Cost(r) = 1
  BY DEF Cost, Larger
<1>3. PICK s : s = Start(conn)
  OBVIOUS
<1>4. OneStart(s, k0, r, 1) /\ out \in ServeOne(s, r)
  BY <1>2, <1>3, OneMessage
<1>5. ConnOK(s.c) /\ r.charge \in Nat /\ r.want \in Nat /\ s.list = <<>>
  BY <1>4 DEF OneStart
<1>6. PICK st, g : Authenticated(s, out, r, st, g)
  BY <1>4, <1>5, SetupAuthenticateServes
<1>7. k = Learn(k0, Entry(r, st, g), out.c.key)
  <2>1. PICK x : x = Entry(r, st, g)
    OBVIOUS
  <2>2. out.list = Append(<<>>, x)
    BY <1>5, <1>6, <2>1 DEF Served, Authenticated
  <2>3. out.list = <<x>>
    BY <2>2, AppendIs
  <2>4. k = LearnAll(k0, <<x>>, out.c.key)
    BY <2>3
  <2> QED BY <2>1, <2>4, LearnOne
<1>8. DOMAIN k0 = ClientFields /\ k0.negotiated = "yes" /\ k0.challenge = smbClient.challenge /\ k0.key = smbClient.key /\ k0.required = smbClient.required
  BY <1>4 DEF OneStart, ClientOK
<1>9. PICK e : e = Entry(r, st, g)
  OBVIOUS
<1>10. e.r = r /\ e.st = st /\ e.grant = g
  BY <1>9 DEF Entry
<1>11. PICK paid : paid = [k0 EXCEPT !.credits = @ + g]
  OBVIOUS
<1>12. DOMAIN paid = ClientFields /\ paid.credits = k0.credits + g /\ paid.negotiated = "yes" /\ paid.challenge = smbClient.challenge
       /\ paid.key = smbClient.key /\ paid.required = smbClient.required
  BY <1>8, <1>11 DEF ClientFields
<1>13. /\ st # "SUCCESS" => k = paid
       /\ st = "SUCCESS" => k = [paid EXCEPT !.key = IF out.c.key # 0 THEN r.proof ELSE 0, !.required = IF out.c.key # 0 THEN r.required ELSE FALSE]
  <2>1. k = Learn(k0, e, out.c.key) /\ e.r.cmd = "SETUP_AUTHENTICATE" /\ paid = [k0 EXCEPT !.credits = @ + e.grant]
    BY <1>7, <1>9, <1>10, <1>11
  <2>2. CASE st # "SUCCESS"
    BY <1>10, <2>1, <2>2 DEF Learn
  <2>3. CASE st = "SUCCESS"
    <3>1. k = [paid EXCEPT !.key = IF out.c.key # 0 THEN e.r.proof ELSE 0, !.required = IF out.c.key # 0 THEN e.r.required ELSE FALSE]
      BY <1>10, <2>1, <2>3 DEF Learn
    <3> QED BY <1>10, <2>3, <3>1
  <2> QED BY <2>2, <2>3
<1>14. /\ DOMAIN k = ClientFields /\ k.credits = k0.credits + g /\ k.negotiated = "yes" /\ k.challenge = smbClient.challenge
       /\ st # "SUCCESS" => k.key = smbClient.key /\ k.required = smbClient.required
       /\ st = "SUCCESS" => k.key = (IF out.c.key # 0 THEN r.proof ELSE 0) /\ k.required = (IF out.c.key # 0 THEN r.required ELSE FALSE)
  BY <1>12, <1>13 DEF ClientFields
<1>15. BooksAgree(out.c, k) /\ k.credits \in Int
  <2>1. g = Grant(s.c, r) /\ out.c.credits = Spend(s.c, r) + g
    BY <1>6 DEF Served, Authenticated
  <2>2. k.credits = k0.credits + g /\ k.negotiated = k0.negotiated /\ r.cmd # "NEGOTIATE" /\ r.want \in Nat
    BY <1>5, <1>8, <1>14
  <2>3. OneAnswer(s, k0, r, g, out.c, k)
    BY <2>1, <2>2 DEF OneAnswer
  <2> QED BY <1>1, <1>4, <2>3, OneBooks
<1>16. ClientOK(k)
  BY <1>14, <1>15 DEF ClientOK
<1>17. SameKeys(conn, s.c) /\ s.c.isOpen = conn.isOpen
  BY <1>4 DEF OneStart, SameBooks
<1>18. out.c.isOpen = s.c.isOpen /\ ConnOK(out.c) /\ out.c.challenges = s.c.challenges
  BY <1>6 DEF Served, Authenticated
<1>19. CASE st = "LOGON_FAILURE" /\ SameKeys(s.c, out.c)
  <2>1. KeysAgree(out.c, k)
    BY <1>1, <1>14, <1>17, <1>18, <1>19 DEF KeysAgree, SameKeys
  <2> QED BY <1>15, <1>16, <1>18, <2>1 DEF After
<1>20. CASE st = "SUCCESS" /\ s.c.isOpen = TRUE /\ out.c.challenge = 0 /\ out.c.key = s.c.key /\ out.c.signing_required = s.c.signing_required
  <2>1. KeysAgree(out.c, k)
    BY <1>1, <1>6, <1>14, <1>17, <1>18, <1>20 DEF KeysAgree, SameKeys
  <2> QED BY <1>15, <1>16, <1>18, <2>1 DEF After
<1>21. CASE st = "SUCCESS" /\ s.c.isOpen = FALSE /\ s.c.challenge # 0 /\ r.proof = s.c.challenge /\ out.c.challenge = 0
               /\ out.c.key = s.c.challenge /\ out.c.signing_required = r.required
  <2>1. KeysAgree(out.c, k)
    BY <1>1, <1>6, <1>14, <1>17, <1>18, <1>21 DEF KeysAgree, SameKeys
  <2> QED BY <1>15, <1>16, <1>18, <2>1 DEF After
<1> QED BY <1>6, <1>19, <1>20, <1>21 DEF Authenticated

LEMMA CancelMessage ==
  ASSUME SessionInv, conn.up = TRUE, smbClient.negotiated = "yes",
         NEW r, r.cmd = "CANCEL", r.sig \in {NoSig, smbClient.key}, r.related = FALSE, r.charge = 0, r.want = 0, NEW out \in DispatchAll(conn, <<r>>),
         NEW k0, k0 = [smbClient EXCEPT !.credits = @ - Charge(<<r>>)], NEW k, k = LearnAll(k0, out.list, out.c.key)
  PROVE  After(out.c, k)
<1>1. KeysAgree(conn, smbClient) /\ BooksAgree(conn, smbClient) /\ ConnOK(conn) /\ ClientOK(smbClient)
  BY DEF SessionInv
<1>2. Cost(r) = 0
  BY DEF Cost
<1>3. PICK s : s = Start(conn)
  OBVIOUS
<1>4. OneStart(s, k0, r, 0) /\ out \in ServeOne(s, r)
  BY <1>2, <1>3, OneMessage
<1>5. ConnOK(s.c) /\ s.list = <<>> /\ s.c.credits = conn.credits /\ s.c.key = smbClient.key /\ SameKeys(conn, s.c) /\ s.c.isOpen = conn.isOpen
  BY <1>1, <1>4 DEF OneStart, SameBooks, SameKeys, KeysAgree
<1>6. conn.credits \in Nat /\ conn.credits # 0 /\ smbClient.credits \in Int
  BY <1>1, SessionAssumption DEF BooksAgree, ConnOK, ClientOK
<1>7. /\ out.list = s.list /\ ConnOK(out.c) /\ SameKeys(s.c, out.c) /\ out.c.credits = s.c.credits /\ out.c.isOpen = s.c.isOpen
  BY <1>4, <1>5, <1>6, CancelServes
<1>8. k = k0
  BY <1>5, <1>7, LearnNone
<1>9. ClientOK(k) /\ k.credits = smbClient.credits /\ k.negotiated = smbClient.negotiated /\ k.key = smbClient.key
      /\ k.challenge = smbClient.challenge /\ k.required = smbClient.required
  <2>1. k.credits = smbClient.credits - 0
    BY <1>4, <1>8 DEF OneStart
  <2>2. k.credits = smbClient.credits
    BY ONLY <1>6, <2>1
  <2>3. ClientOK(k) /\ k.negotiated = smbClient.negotiated /\ k.key = smbClient.key
        /\ k.challenge = smbClient.challenge /\ k.required = smbClient.required
    BY <1>4, <1>8 DEF OneStart
  <2> QED BY <2>2, <2>3
<1>10. KeysAgree(out.c, k)
  BY <1>1, <1>5, <1>7, <1>9 DEF KeysAgree, SameKeys
<1>11. BooksAgree(out.c, k)
  BY <1>1, <1>5, <1>7, <1>9 DEF BooksAgree
<1> QED BY <1>7, <1>9, <1>10, <1>11 DEF After

LEMMA AfterMessage ==
  ASSUME SessionInv, conn.up = TRUE, NEW m \in Messages, NEW out \in DispatchAll(conn, m), Charge(m) <= smbClient.credits,
         NEW k0, k0 = [smbClient EXCEPT !.credits = @ - Charge(m)], NEW k, k = LearnAll(k0, out.list, out.c.key)
  PROVE  After(out.c, k)
<1>1. ClientOK(smbClient)
  BY DEF SessionInv
<1>2. CASE /\ smbClient.negotiated \in {"no", "again"}
           /\ \E r : m = <<r>> /\ r.cmd = "NEGOTIATE" /\ r.sig = NoSig /\ r.related = FALSE /\ r.charge = 1 /\ r.want \in {1, 4}
  BY <1>2, NegotiateMessage
<1>3. CASE smbClient.negotiated = "yes" /\ \E r : m = <<r>> /\ Ordinary(r)
  BY <1>3, OrdinaryMessage
<1>4. CASE smbClient.negotiated = "yes" /\ \E r : /\ m = <<r>> /\ r.cmd = "SETUP_NEGOTIATE" /\ r.sig = NoSig /\ r.related = FALSE
                                                  /\ r.charge = 1 /\ r.want = 1
  BY <1>4, SetupNegotiateMessage
<1>5. CASE smbClient.negotiated = "yes" /\ \E r : /\ m = <<r>> /\ r.cmd = "SETUP_AUTHENTICATE" /\ r.sig = NoSig /\ r.related = FALSE
                                                  /\ r.charge = 1 /\ r.want = 1 /\ r.required \in BOOLEAN /\ r.proof = smbClient.challenge
  BY <1>5, SetupAuthenticateMessage
<1>6. CASE smbClient.negotiated = "yes" /\ \E r : /\ m = <<r>> /\ r.cmd = "CANCEL" /\ r.sig \in {NoSig, smbClient.key} /\ r.related = FALSE
                                                  /\ r.charge = 0 /\ r.want = 0
  BY <1>6, CancelMessage
<1>7. CASE smbClient.negotiated = "yes" /\ \E r1, r2, r3 : /\ m = <<r1, r2, r3>> /\ Ordinary(r1) /\ Ordinary(r2) /\ Ordinary(r3)
                                                           /\ r1.charge = 1 /\ r2.charge = 1 /\ r3.charge = 1
  <2>1. PICK r1, r2, r3 : /\ m = <<r1, r2, r3>> /\ Ordinary(r1) /\ Ordinary(r2) /\ Ordinary(r3)
                          /\ r1.charge = 1 /\ r2.charge = 1 /\ r3.charge = 1
    BY <1>7
  <2> QED BY <1>7, <2>1, CompoundMessage
<1>8. \/ /\ smbClient.negotiated \in {"no", "again"}
         /\ \E r : m = <<r>> /\ r.cmd = "NEGOTIATE" /\ r.sig = NoSig /\ r.related = FALSE /\ r.charge = 1 /\ r.want \in {1, 4}
      \/ /\ smbClient.negotiated = "yes"
         /\ \/ \E r : m = <<r>> /\ Ordinary(r)
            \/ \E r : /\ m = <<r>> /\ r.cmd = "SETUP_NEGOTIATE" /\ r.sig = NoSig /\ r.related = FALSE /\ r.charge = 1 /\ r.want = 1
            \/ \E r : /\ m = <<r>> /\ r.cmd = "SETUP_AUTHENTICATE" /\ r.sig = NoSig /\ r.related = FALSE /\ r.charge = 1 /\ r.want = 1
                      /\ r.required \in BOOLEAN /\ r.proof = smbClient.challenge
            \/ \E r : /\ m = <<r>> /\ r.cmd = "CANCEL" /\ r.sig \in {NoSig, smbClient.key} /\ r.related = FALSE /\ r.charge = 0 /\ r.want = 0
            \/ \E r1, r2, r3 : /\ m = <<r1, r2, r3>> /\ Ordinary(r1) /\ Ordinary(r2) /\ Ordinary(r3)
                               /\ r1.charge = 1 /\ r2.charge = 1 /\ r3.charge = 1
  BY <1>1, MessageCases, SessionAssumption
<1> QED BY <1>2, <1>3, <1>4, <1>5, <1>6, <1>7, <1>8

LEMMA ServeMessageKeeps ==
  ASSUME SessionInv, ServeMessage
  PROVE  SessionInv'
<1>1. PICK m \in Messages : \E out \in DispatchAll(conn, m) :
        /\ Charge(m) <= smbClient.credits
        /\ smbClient' = LearnAll([smbClient EXCEPT !.credits = @ - Charge(m)], out.list, out.c.key)
        /\ sent' = [sigs |-> {SigningKey(out.c, e.r, e.st) : e \in {e \in Range(out.list) : e.st # "MORE_PROCESSING_REQUIRED"}},
                    opened |-> IF Len(m) > 1 THEN out.c.compound ELSE 0]
        /\ conn' = [(IF out.c.terminate THEN close_all(out.c) ELSE out.c) EXCEPT !.compound = 0, !.up = ~out.c.terminate]
  BY DEF ServeMessage
<1>2. PICK out \in DispatchAll(conn, m) :
        /\ Charge(m) <= smbClient.credits
        /\ smbClient' = LearnAll([smbClient EXCEPT !.credits = @ - Charge(m)], out.list, out.c.key)
        /\ sent' = [sigs |-> {SigningKey(out.c, e.r, e.st) : e \in {e \in Range(out.list) : e.st # "MORE_PROCESSING_REQUIRED"}},
                    opened |-> IF Len(m) > 1 THEN out.c.compound ELSE 0]
        /\ conn' = [(IF out.c.terminate THEN close_all(out.c) ELSE out.c) EXCEPT !.compound = 0, !.up = ~out.c.terminate]
  BY <1>1
<1>3. conn.up = TRUE
  BY DEF ServeMessage, SessionInv, ConnOK
<1>4. PICK k : k = smbClient'
  OBVIOUS
<1>5. PICK c : c = out.c
  OBVIOUS
<1>6. After(c, k)
  <2>1. PICK k0 : k0 = [smbClient EXCEPT !.credits = @ - Charge(m)]
    OBVIOUS
  <2>2. k = LearnAll(k0, out.list, out.c.key)
    BY <1>2, <1>4, <2>1
  <2> QED BY <1>2, <1>3, <1>5, <2>1, <2>2, AfterMessage
<1>7. ConnOK(c) /\ ClientOK(k) /\ KeysAgree(c, k) /\ BooksAgree(c, k)
  BY <1>6 DEF After
<1>8. PICK d : d = IF c.terminate THEN close_all(c) ELSE c
  OBVIOUS
<1>9. ConnOK(d) /\ SameKeys(c, d) /\ SameBooks(c, d) /\ (c.terminate = TRUE => d.handles = <<>>) /\ d.terminate = c.terminate
  BY <1>7, <1>8 DEF close_all, ConnOK, SessionFields, SameKeys, SameBooks
<1>10. PICK b \in BOOLEAN : b = ~c.terminate
  OBVIOUS
<1>11. conn' = [d EXCEPT !.compound = 0, !.up = b]
  BY <1>2, <1>5, <1>8, <1>10
<1>12. PICK n : n = conn'
  OBVIOUS
<1>13. n.up = b /\ ConnOK(n) /\ SameKeys(d, n) /\ n.credits = d.credits /\ n.isOpen = d.isOpen /\ n.handles = d.handles
  BY <1>9, <1>11, <1>12 DEF ConnOK, SessionFields, SameKeys
<1>14. KeysAgree(n, k)
  BY <1>7, <1>9, <1>13 DEF KeysAgree, SameKeys, SameBooks
<1>15. BooksAgree(n, k)
  BY <1>7, <1>9, <1>13 DEF BooksAgree, SameBooks
<1>16. n.up = FALSE => n.handles = <<>>
  BY <1>7, <1>9, <1>10, <1>13 DEF ConnOK
<1>17. SignedToTheClient'
  <2>1. sent'.sigs = {SigningKey(out.c, e.r, e.st) : e \in {e \in Range(out.list) : e.st # "MORE_PROCESSING_REQUIRED"}}
    BY <1>2
  <2>2. ASSUME k.required = TRUE, k.key # 0, NEW r, NEW st, st # "MORE_PROCESSING_REQUIRED"
        PROVE  SigningKey(c, r, st) = k.key
    BY <1>7, <2>2 DEF KeysAgree, SigningKey
  <2>3. ASSUME k.required = TRUE, k.key # 0 PROVE sent'.sigs \subseteq {k.key}
    BY <1>5, <2>1, <2>2, <2>3
  <2>4. k.required \in BOOLEAN
    BY <1>7 DEF KeysAgree, ConnOK
  <2> QED BY <1>4, <2>3, <2>4 DEF SignedToTheClient
<1> QED BY <1>4, <1>7, <1>12, <1>13, <1>14, <1>15, <1>16, <1>17 DEF SessionInv

LEMMA ServeSmb1Keeps ==
  ASSUME SessionInv, ServeSmb1
  PROVE  SessionInv'
<1>1. PICK offered : /\ conn' = NotSmb2(conn, offered).c
                     /\ smbClient' = [smbClient EXCEPT !.negotiated = IF ~NotSmb2(conn, offered).answered THEN "refused"
                                                          ELSE IF NotSmb2(conn, offered).c.dialect = 202 THEN "yes" ELSE "again"]
  BY DEF ServeSmb1
<1>2. smbClient.negotiated = "no" /\ conn.up = TRUE /\ sent' = sent
  BY DEF ServeSmb1, SessionInv, ConnOK
<1>3. ConnOK(conn) /\ ClientOK(smbClient) /\ KeysAgree(conn, smbClient) /\ BooksAgree(conn, smbClient) /\ SignedToTheClient
  BY <1>2 DEF SessionInv
<1>4. PICK out : out = NotSmb2(conn, offered)
  OBVIOUS
<1>5. PICK c1 : c1 = [conn EXCEPT !.credits = @ + 1]
  OBVIOUS
<1>6. PICK c2 : c2 = [conn EXCEPT !.credits = @ + 1, !.dialect = 202]
  OBVIOUS
<1>7. \/ out.c = c1 /\ out.answered = TRUE
      \/ out.c = c2 /\ out.answered = TRUE
      \/ out.c = conn /\ out.answered = FALSE
  BY <1>4, <1>5, <1>6 DEF NotSmb2
<1>8. /\ ConnOK(c1) /\ SameKeys(conn, c1) /\ c1.credits = conn.credits + 1 /\ c1.isOpen = conn.isOpen /\ c1.up = TRUE
      /\ ConnOK(c2) /\ SameKeys(conn, c2) /\ c2.credits = conn.credits + 1 /\ c2.isOpen = conn.isOpen /\ c2.up = TRUE
  BY <1>2, <1>3, <1>5, <1>6 DEF ConnOK, SessionFields, SameKeys
<1>9. PICK n, k : n = conn' /\ k = smbClient'
  OBVIOUS
<1>10. PICK w : w = IF ~out.answered THEN "refused" ELSE IF out.c.dialect = 202 THEN "yes" ELSE "again"
  OBVIOUS
<1>11. n = out.c /\ k = [smbClient EXCEPT !.negotiated = w]
  BY <1>1, <1>4, <1>9, <1>10
<1>12. w \in {"refused", "yes", "again"} /\ (out.answered = FALSE => w = "refused")
  BY <1>7, <1>10
<1>13. ClientOK(k) /\ k.negotiated = w /\ k.credits = smbClient.credits /\ k.key = smbClient.key /\ k.challenge = smbClient.challenge
       /\ k.required = smbClient.required
  BY <1>3, <1>11, <1>12 DEF ClientOK, ClientFields
<1>14. ConnOK(n) /\ SameKeys(conn, n) /\ n.isOpen = conn.isOpen /\ n.up = TRUE
  BY <1>2, <1>3, <1>7, <1>8, <1>11 DEF SameKeys
<1>15. KeysAgree(n, k)
  BY <1>3, <1>13, <1>14 DEF KeysAgree, SameKeys
<1>16. smbClient.credits = 1 /\ conn.credits = 0
  BY <1>2, <1>3 DEF BooksAgree
<1>17. BooksAgree(n, k)
  BY <1>7, <1>8, <1>11, <1>12, <1>13, <1>16, SessionAssumption DEF BooksAgree
<1>18. SignedToTheClient'
  BY <1>2, <1>3, <1>9, <1>13 DEF SignedToTheClient
<1> QED BY <1>9, <1>13, <1>14, <1>15, <1>17, <1>18 DEF SessionInv

LEMMA DisconnectKeeps ==
  ASSUME SessionInv, Disconnect
  PROVE  SessionInv'
<1>1. sent' = sent /\ smbClient' = smbClient /\ conn' = [close_all(conn) EXCEPT !.up = FALSE]
  BY DEF Disconnect
<1>2. PICK n : n = conn'
  OBVIOUS
<1>3. ConnOK(conn) /\ ClientOK(smbClient) /\ KeysAgree(conn, smbClient) /\ SignedToTheClient
  BY DEF SessionInv
<1>4. ConnOK(n) /\ SameKeys(conn, n) /\ n.isOpen = conn.isOpen /\ n.up = FALSE /\ n.handles = <<>>
  BY <1>1, <1>2, <1>3 DEF close_all, ConnOK, SessionFields, SameKeys
<1>5. KeysAgree(n, smbClient)
  BY <1>3, <1>4 DEF KeysAgree, SameKeys
<1>6. SignedToTheClient'
  BY <1>1, <1>3 DEF SignedToTheClient
<1> QED BY <1>1, <1>2, <1>3, <1>4, <1>5, <1>6 DEF SessionInv

LEMMA SessionStarts ==
  ASSUME SessionInit
  PROVE  SessionInv
<1>1. ConnOK(conn) /\ conn.up = TRUE /\ conn.key = 0 /\ conn.challenge = 0 /\ conn.challenges = 0 /\ conn.signing_required = FALSE /\ conn.credits = 0
  <2>1. /\ DOMAIN conn = SessionFields /\ conn.isOpen \in BOOLEAN /\ conn.challenge = 0 /\ conn.challenges = 0 /\ conn.authenticated \in {FALSE}
        /\ conn.key = 0 /\ conn.signing_required \in {FALSE} /\ conn.trees = <<>> /\ conn.handles = <<>> /\ conn.credits = 0
        /\ conn.terminate \in {FALSE} /\ conn.up \in {TRUE}
    BY DEF SessionInit, SessionFields
  <2>2. conn.authenticated = FALSE /\ conn.signing_required = FALSE /\ conn.terminate = FALSE /\ conn.up = TRUE
    BY <2>1
  <2>3. conn.credits \in Nat
    BY <2>1
  <2>4. ConnOK(conn)
    BY Zenon, <2>1, <2>2, <2>3 DEF ConnOK
  <2> QED BY <2>1, <2>2, <2>4
<1>2. ClientOK(smbClient) /\ smbClient.key = 0 /\ smbClient.challenge = 0 /\ smbClient.required = FALSE /\ smbClient.credits = 1 /\ smbClient.negotiated = "no"
  BY DEF SessionInit, ClientOK, ClientFields
<1>3. KeysAgree(conn, smbClient) /\ BooksAgree(conn, smbClient)
  BY <1>1, <1>2 DEF KeysAgree, BooksAgree
<1>4. SignedToTheClient
  BY <1>2 DEF SignedToTheClient
<1> QED BY <1>1, <1>2, <1>3, <1>4 DEF SessionInv

LEMMA SessionStep ==
  ASSUME SessionInv, [SessionNext]_sessionVars
  PROVE  SessionInv'
<1>1. CASE ServeMessage
  BY <1>1, ServeMessageKeeps
<1>2. CASE ServeSmb1
  BY <1>2, ServeSmb1Keeps
<1>3. CASE Disconnect
  BY <1>3, DisconnectKeeps
<1>4. CASE UNCHANGED sessionVars
  BY <1>4 DEF sessionVars, SessionInv, SignedToTheClient
<1> QED BY <1>1, <1>2, <1>3, <1>4 DEF SessionNext

\* _grant_credits, _should_sign, h_session_setup and h_logoff: for every credit limit, number of
\* trees, handles and exchanges, at every reply of an SMB2 connection a client's books are the
\* server's (or one credit behind), within the limit and never empty; a client that requires signing gets every
\* reply signed with its key; and a session that ended has left no tree or handle.
THEOREM ClientStaysInStep == SessionSpec => []ClientInStep
<1>1. SessionInit => SessionInv
  BY SessionStarts
<1>2. SessionInv /\ [SessionNext]_sessionVars => SessionInv'
  BY SessionStep
<1>3. SessionInv => ClientInStep
  BY SessionInvImplies
<1> QED BY <1>1, <1>2, <1>3, PTL DEF SessionSpec

-----------------------------------------------------------------------------
(* Port445: Windows file sharing gets port 445 back.                         *)

LEMMA ServiceNames ==
  /\ ToSet(Drivers) = {"srv", "srv2", "srvnet"} /\ SvcNames = {"srv", "srv2", "srvnet", "LanmanServer", "Browser"}
  /\ Len(Drivers) = 3 /\ \A i \in 1 .. 3 : Drivers[i] \in ToSet(Drivers)
<1>1. DOMAIN Drivers = 1 .. 3 /\ Drivers[1] = "srv" /\ Drivers[2] = "srv2" /\ Drivers[3] = "srvnet" /\ Len(Drivers) = 3
  BY DEF Drivers
<1>2. ToSet(Drivers) = {"srv", "srv2", "srvnet"}
  <2>1. \A i \in 1 .. 3 : i = 1 \/ i = 2 \/ i = 3
    OBVIOUS
  <2>2. 1 \in 1 .. 3 /\ 2 \in 1 .. 3 /\ 3 \in 1 .. 3
    OBVIOUS
  <2>3. ToSet(Drivers) = {Drivers[i] : i \in 1 .. 3}
    BY <1>1 DEF ToSet
  <2> QED BY <1>1, <2>1, <2>2, <2>3
<1>3. \A i \in 1 .. 3 : Drivers[i] \in ToSet(Drivers)
  BY <1>1 DEF ToSet
<1> QED BY <1>1, <1>2, <1>3 DEF SvcNames

\* What runs on what, service by service.
LEMMA ServicesNeed ==
  /\ DependsOn["Browser"] = {"LanmanServer"} /\ DependsOn["LanmanServer"] = {"srv2"} /\ DependsOn["srv"] = {"srv2"}
  /\ DependsOn["srv2"] = {"srvnet"} /\ DependsOn["srvnet"] = {}
BY ServiceNames DEF DependsOn

LEMMA BeneathIs ==
  /\ \A d \in ToSet(Drivers) : Beneath(d) \subseteq ToSet(Drivers)
  /\ Beneath("LanmanServer") \subseteq ToSet(Drivers)
  /\ Beneath("Browser") \subseteq ToSet(Drivers) \cup {"LanmanServer"}
<1>1. Beneath("srvnet") = {}
  BY ServicesNeed DEF Beneath
<1>2. Beneath("srv2") = {"srvnet"}
  BY ServicesNeed DEF Beneath
<1>3. Beneath("srv") = {"srv2", "srvnet"} /\ Beneath("LanmanServer") = {"srv2", "srvnet"}
  BY ServicesNeed DEF Beneath
<1>4. Beneath("Browser") = {"LanmanServer", "srv2", "srvnet"}
  BY ServicesNeed DEF Beneath
<1> QED BY <1>1, <1>2, <1>3, <1>4, ServiceNames

\* Services run on services that run.
Upright(f) ==
  /\ f \in [SvcNames -> {"Running", "Stopped"}]
  /\ \A s \in SvcNames : f[s] = "Running" => \A d \in DependsOn[s] : f[d] = "Running"

LEMMA BeneathRuns ==
  ASSUME NEW f, Upright(f), NEW s \in SvcNames, f[s] = "Running", NEW x \in {s} \cup Beneath(s)
  PROVE  x \in SvcNames /\ f[x] = "Running"
<1>1. \A u \in SvcNames : DependsOn[u] \subseteq SvcNames
  BY ServiceNames, ServicesNeed
<1>2. \A u \in SvcNames : f[u] = "Running" => \A d \in DependsOn[u] : d \in SvcNames /\ f[d] = "Running"
  BY <1>1 DEF Upright
<1>3. CASE x = s
  BY <1>3
<1>4. CASE x \in DependsOn[s]
  BY <1>2, <1>4
<1>5. CASE x \in UNION {DependsOn[d] : d \in DependsOn[s]}
  BY <1>2, <1>5
<1>6. CASE x \in UNION {UNION {DependsOn[e] : e \in DependsOn[d]} : d \in DependsOn[s]}
  <2>1. PICK d \in DependsOn[s] : x \in UNION {DependsOn[e] : e \in DependsOn[d]}
    BY <1>6
  <2>2. PICK e \in DependsOn[d] : x \in DependsOn[e]
    BY <2>1
  <2> QED BY <1>2, <2>1, <2>2
<1> QED BY <1>3, <1>4, <1>5, <1>6 DEF Beneath

TakerFields == {"ver", "pc", "was", "browser", "i", "drivers", "sticky"}
DriverNames == ToSet(Drivers)

\* What the SMB2 server remembers of file sharing, and what it has done to it: a driver is as it was
\* found, or it is noted and was running; LanmanServer and Browser change only if they ran.
Sharing(t, sv, ex) ==
  /\ DOMAIN t = TakerFields /\ ex \in BOOLEAN /\ sv \in [SvcNames -> SvcStates]
  /\ t.i \in 1 .. 4 /\ (t.pc = "waitDriver" => t.i \in 1 .. 3)
  /\ t.drivers \in Seq(DriverNames) /\ \A n \in 1 .. Len(t.drivers) : found[t.drivers[n]] = "Running"
  /\ (t.pc = "survey" => sv = found)
  /\ (t.pc \notin {"survey", "ended"} => t.was = found["LanmanServer"] /\ t.browser = found["Browser"])
  /\ (t.pc = "stop" => found["LanmanServer"] = "Running")
  /\ (\A d \in DriverNames : ex = TRUE \/ sv[d] = found[d] \/ \E n \in 1 .. Len(t.drivers) : t.drivers[n] = d)
  /\ (\A x \in SvcNames : sv[x] = "Running" => found[x] = "Running")
  /\ sv["Browser"] \in {found["Browser"], "Stopped"}
  /\ (found["LanmanServer"] # "Running" => sv["LanmanServer"] = found["LanmanServer"])
  /\ (t.pc = "browser" => t.drivers = <<>> /\ found["LanmanServer"] = "Running" /\ (ex = TRUE \/ sv["LanmanServer"] = "Running"))
  /\ (t.pc = "ended" => ex = TRUE \/ sv = found)

Port445Inv ==
  /\ Upright(found) /\ DOMAIN taker = TakerFields
  /\ taker.ver = 2 => Sharing(taker, svc, excused)

LEMMA FoundIs ==
  ASSUME Upright(found)
  PROVE  /\ found \in [SvcNames -> SvcStates] /\ "LanmanServer" \in SvcNames /\ "Browser" \in SvcNames /\ DriverNames \subseteq SvcNames
         /\ \A s \in SvcNames : found[s] = "Running" \/ found[s] = "Stopped"
         /\ (found["Browser"] = "Running" => found["LanmanServer"] = "Running")
         /\ "LanmanServer" \notin DriverNames /\ "Browser" \notin DriverNames /\ SvcNames = DriverNames \cup {"LanmanServer", "Browser"}
BY ServiceNames, ServicesNeed DEF Upright, SvcStates, DriverNames

\* The server goes on to a place where nothing more is asked of it.
LEMMA SharingMovesOn ==
  ASSUME NEW t, NEW sv, NEW ex, Sharing(t, sv, ex), t.pc \notin {"survey", "ended"},
         NEW p \in {"wait", "port", "driver", "serving", "refused", "restoring"}, NEW t2, t2 = [t EXCEPT !.pc = p]
  PROVE  Sharing(t2, sv, ex) /\ t2.pc = p
<1>1. DOMAIN t2 = TakerFields /\ t2.pc = p /\ t2.was = t.was /\ t2.browser = t.browser /\ t2.i = t.i /\ t2.drivers = t.drivers
  BY DEF Sharing, TakerFields
<1> QED BY <1>1 DEF Sharing

\* LanmanServer goes down, and what runs on it.
LEMMA SharingStopsLanman ==
  ASSUME NEW t, NEW sv, NEW ex, Upright(found), Sharing(t, sv, ex), t.pc = "stop", NEW state \in {"StopPending", "Stopped"},
         NEW sv2, sv2 \in [SvcNames -> SvcStates], sv2["LanmanServer"] = state, sv2["Browser"] \in {sv["Browser"], "Stopped"},
         \A d \in DriverNames : sv2[d] = sv[d], 
         NEW p \in {"wait", "refused"}, NEW t2, t2 = [t EXCEPT !.pc = p]
  PROVE  Sharing(t2, sv2, ex)
<1>1. DOMAIN t2 = TakerFields /\ t2.pc = p /\ t2.was = t.was /\ t2.browser = t.browser /\ t2.i = t.i /\ t2.drivers = t.drivers
  BY DEF Sharing, TakerFields
<1>2. sv2["Browser"] \in {found["Browser"], "Stopped"}
  BY DEF Sharing
<1>3. found["LanmanServer"] = "Running"
  BY DEF Sharing
<1>4. \A x \in SvcNames : sv2[x] = "Running" => found[x] = "Running"
  BY FoundIs DEF Sharing
<1> QED BY <1>1, <1>2, <1>3, <1>4 DEF Sharing

\* A driver is noted, and stopped or not.
LEMMA SharingNotes ==
  ASSUME NEW t, NEW sv, NEW ex, Upright(found), Sharing(t, sv, ex), t.pc = "driver", t.i \in 1 .. 3, sv[Drivers[t.i]] = "Running",
         NEW sv2, sv2 \in [SvcNames -> SvcStates], \A x \in SvcNames \ {Drivers[t.i]} : sv2[x] = sv[x],
         NEW p \in {"waitDriver", "refused"}, NEW t1, t1 = [t EXCEPT !.drivers = Append(@, Drivers[t.i])], NEW t2, t2 = [t1 EXCEPT !.pc = p]
  PROVE  Sharing(t2, sv2, ex)
<1>1. PICK d : d = Drivers[t.i]
  OBVIOUS
<1>2. d \in DriverNames
  BY <1>1, ServiceNames DEF DriverNames
<1>3. PICK ds : ds = Append(t.drivers, d)
  OBVIOUS
<1>4. DOMAIN t2 = TakerFields /\ t2.pc = p /\ t2.was = t.was /\ t2.browser = t.browser /\ t2.i = t.i /\ t2.drivers = ds
  <2>1. DOMAIN t1 = TakerFields /\ t1.was = t.was /\ t1.browser = t.browser /\ t1.i = t.i /\ t1.drivers = ds
    BY <1>1, <1>3 DEF Sharing, TakerFields
  <2> QED BY <2>1 DEF TakerFields
<1>5. PICK n \in Nat : n = Len(t.drivers)
  BY DEF Sharing
<1>6. /\ ds \in Seq(DriverNames) /\ Len(ds) = n + 1 /\ ds[n + 1] = d /\ \A k \in 1 .. n : ds[k] = t.drivers[k]
  BY <1>2, <1>3, <1>5 DEF Sharing
<1>7. /\ 1 .. (n + 1) = (1 .. n) \cup {n + 1}
  BY ONLY <1>5
<1>8. found[d] = "Running" /\ d \in SvcNames
  BY <1>1, <1>2, FoundIs DEF Sharing
<1>9. \A k \in 1 .. (n + 1) : found[ds[k]] = "Running"
  BY <1>5, <1>6, <1>7, <1>8 DEF Sharing
<1>10. \A x \in DriverNames : ex = TRUE \/ sv2[x] = found[x] \/ \E k \in 1 .. (n + 1) : ds[k] = x
  <2> TAKE x \in DriverNames
  <2>1. CASE x = d
    BY <1>6, <1>7, <2>1
  <2>2. CASE x # d
    BY <1>1, <1>5, <1>6, <1>7, <2>2, FoundIs DEF Sharing
  <2> QED BY <2>1, <2>2
<1>11. \A x \in SvcNames : sv2[x] = "Running" => found[x] = "Running"
  BY <1>1, <1>8 DEF Sharing
<1>12. d # "LanmanServer" /\ d # "Browser"
  BY <1>2, FoundIs
<1>13. sv2["LanmanServer"] = sv["LanmanServer"] /\ sv2["Browser"] = sv["Browser"]
  BY <1>1, <1>12, FoundIs
<1>14. t2.was = found["LanmanServer"] /\ t2.browser = found["Browser"] /\ t2.i \in 1 .. 3 /\ t2.i \in 1 .. 4
  BY <1>4 DEF Sharing
<1>15. t2.pc # "survey" /\ t2.pc # "stop" /\ t2.pc # "browser" /\ t2.pc # "ended"
  BY <1>4
<1>16. /\ \A k \in 1 .. Len(t2.drivers) : found[t2.drivers[k]] = "Running"
       /\ \A x \in DriverNames : ex = TRUE \/ sv2[x] = found[x] \/ \E k \in 1 .. Len(t2.drivers) : t2.drivers[k] = x
  BY <1>4, <1>6, <1>9, <1>10
<1>17. DOMAIN t2 = TakerFields /\ t2.drivers \in Seq(DriverNames)
  BY <1>4, <1>6
<1>18. ex \in BOOLEAN /\ sv2["Browser"] \in {found["Browser"], "Stopped"} /\ (found["LanmanServer"] # "Running" => sv2["LanmanServer"] = found["LanmanServer"])
  BY <1>13 DEF Sharing
<1> QED BY <1>11, <1>14, <1>15, <1>16, <1>17, <1>18 DEF Sharing

\* A pending stop completes.
LEMMA SharingStopCompletes ==
  ASSUME NEW t, NEW sv, NEW ex, Upright(found), Sharing(t, sv, ex), NEW s \in SvcNames, sv[s] = "StopPending",
         NEW sv2, sv2 = [sv EXCEPT ![s] = "Stopped"]
  PROVE  Sharing(t, sv2, ex)
<1>1. found[s] # "StopPending"
  BY FoundIs
<1>2. sv2 \in [SvcNames -> SvcStates] /\ sv2[s] = "Stopped" /\ \A x \in SvcNames \ {s} : sv2[x] = sv[x]
  BY DEF Sharing, SvcStates
<1>3. t.pc # "survey"
  BY <1>1 DEF Sharing
<1>4. t.pc = "ended" => ex = TRUE
  BY <1>1 DEF Sharing
<1>5. \A d \in DriverNames : ex = TRUE \/ sv2[d] = found[d] \/ \E n \in 1 .. Len(t.drivers) : t.drivers[n] = d
  BY <1>1, <1>2, FoundIs DEF Sharing
<1>6. sv2["Browser"] \in {found["Browser"], "Stopped"} /\ (found["LanmanServer"] # "Running" => sv2["LanmanServer"] = found["LanmanServer"])
  BY <1>1, <1>2, FoundIs DEF Sharing
<1>7. \A x \in SvcNames : sv2[x] = "Running" => found[x] = "Running"
  BY <1>2 DEF Sharing
<1>8. t.pc = "browser" => ex = TRUE \/ sv2["LanmanServer"] = "Running"
  BY <1>1, <1>2, FoundIs DEF Sharing
<1> QED BY <1>2, <1>3, <1>4, <1>5, <1>6, <1>7, <1>8 DEF Sharing

\* start_service: what it touches ran before, and it runs again unless Windows is to blame.
LEMMA StartServiceStarts ==
  ASSUME Upright(found), NEW s \in SvcNames, found[s] = "Running", NEW next, StartService(s, next),
         svc \in [SvcNames -> SvcStates], excused \in BOOLEAN
  PROVE  /\ taker' = next /\ svc' \in [SvcNames -> SvcStates] /\ excused' \in BOOLEAN /\ (excused = TRUE => excused' = TRUE)
         /\ (excused' = TRUE \/ svc'[s] = "Running")
         /\ \A x \in SvcNames : svc'[x] = svc[x] \/ (svc'[x] = "Running" /\ found[x] = "Running" /\ x \in {s} \cup Beneath(s))
<1>1. CASE svc[s] = "Running" /\ svc' = svc /\ excused' = excused /\ taker' = next
  BY <1>1
<1>2. CASE svc' = Started(s) /\ excused' = excused /\ taker' = next
  <2>1. svc' = [x \in SvcNames |-> IF x \in {s} \cup Beneath(s) THEN "Running" ELSE svc[x]]
    BY <1>2 DEF Started
  <2>2. \A x \in SvcNames : svc'[x] = IF x \in {s} \cup Beneath(s) THEN "Running" ELSE svc[x]
    BY <2>1
  <2>3. svc' \in [SvcNames -> SvcStates]
    BY <2>1 DEF SvcStates
  <2>4. \A x \in SvcNames : svc'[x] = svc[x] \/ (svc'[x] = "Running" /\ found[x] = "Running" /\ x \in {s} \cup Beneath(s))
    BY <2>2, BeneathRuns
  <2> QED BY <1>2, <2>2, <2>3, <2>4
<1>3. CASE svc' = svc /\ excused' = TRUE /\ taker' = next
  BY <1>3
<1> QED BY <1>1, <1>2, <1>3 DEF StartService

\* What a step of the restore leaves as it should be, whatever the service.
LEMMA StartKeeps ==
  ASSUME Upright(found), Sharing(taker, svc, excused), NEW s \in SvcNames, found[s] = "Running", NEW next, StartService(s, next)
  PROVE  /\ taker' = next /\ svc' \in [SvcNames -> SvcStates] /\ excused' \in BOOLEAN /\ (excused = TRUE => excused' = TRUE)
         /\ (excused' = TRUE \/ svc'[s] = "Running")
         /\ (\A x \in SvcNames : svc'[x] = "Running" => found[x] = "Running")
         /\ (\A x \in SvcNames : svc[x] = found[x] => svc'[x] = found[x])
         /\ svc'["Browser"] \in {found["Browser"], "Stopped"}
         /\ (found["LanmanServer"] # "Running" => svc'["LanmanServer"] = found["LanmanServer"])
         /\ (svc["LanmanServer"] = "Running" => svc'["LanmanServer"] = "Running")
<1>1. svc \in [SvcNames -> SvcStates] /\ excused \in BOOLEAN
  BY DEF Sharing
<1>2. /\ taker' = next /\ svc' \in [SvcNames -> SvcStates] /\ excused' \in BOOLEAN /\ (excused = TRUE => excused' = TRUE)
      /\ (excused' = TRUE \/ svc'[s] = "Running")
      /\ \A x \in SvcNames : svc'[x] = svc[x] \/ (svc'[x] = "Running" /\ found[x] = "Running" /\ x \in {s} \cup Beneath(s))
  BY <1>1, StartServiceStarts
<1>3. (\A x \in SvcNames : svc'[x] = "Running" => found[x] = "Running") /\ (\A x \in SvcNames : svc[x] = found[x] => svc'[x] = found[x])
  BY <1>2 DEF Sharing
<1>4. /\ svc'["Browser"] \in {found["Browser"], "Stopped"}
      /\ (found["LanmanServer"] # "Running" => svc'["LanmanServer"] = found["LanmanServer"])
      /\ (svc["LanmanServer"] = "Running" => svc'["LanmanServer"] = "Running")
  BY <1>2, FoundIs DEF Sharing
<1> QED BY <1>2, <1>3, <1>4

\* The last of a sequence is taken off.
LEMMA FrontOf ==
  ASSUME NEW S, NEW s \in Seq(S), NEW n \in Nat \ {0}, n = Len(s), NEW f, f = Front(s)
  PROVE  f \in Seq(S) /\ Len(f) = n - 1 /\ \A i \in 1 .. n - 1 : f[i] = s[i]
<1>1. f = SubSeq(s, 1, n - 1)
  BY DEF Front
<1>2. n - 1 \in Nat /\ 1 .. n - 1 \subseteq 1 .. n
  BY ONLY n \in Nat \ {0}
<1>3. f = [i \in 1 .. n - 1 |-> s[i]]
  BY <1>1, <1>2
<1>4. \A i \in 1 .. n - 1 : s[i] \in S
  BY <1>2
<1> QED BY <1>2, <1>3, <1>4

\* restore: a driver.
LEMMA SharingDriver ==
  ASSUME Upright(found), Sharing(taker, svc, excused), taker.pc = "restoring", NEW n, n = Len(taker.drivers), n > 0,
         StartService(taker.drivers[n], [taker EXCEPT !.drivers = Front(@)])
  PROVE  Sharing(taker', svc', excused')
<1>1. taker.drivers \in Seq(DriverNames) /\ n \in Nat \ {0} /\ taker.drivers[n] \in DriverNames /\ found[taker.drivers[n]] = "Running"
  BY DEF Sharing
<1>2. PICK s : s = taker.drivers[n]
  OBVIOUS
<1>3. s \in SvcNames /\ s \in DriverNames /\ found[s] = "Running"
  BY <1>1, <1>2, FoundIs
<1>4. PICK f : f = Front(taker.drivers)
  OBVIOUS
<1>5. PICK t : t = [taker EXCEPT !.drivers = f]
  OBVIOUS
<1>6. DOMAIN t = TakerFields /\ t.pc = "restoring" /\ t.was = taker.was /\ t.browser = taker.browser /\ t.i = taker.i /\ t.drivers = f
  BY <1>5 DEF Sharing, TakerFields
<1>7. StartService(s, t)
  BY <1>2, <1>4, <1>5
<1>8. /\ taker' = t /\ svc' \in [SvcNames -> SvcStates] /\ excused' \in BOOLEAN /\ (excused = TRUE => excused' = TRUE)
      /\ (excused' = TRUE \/ svc'[s] = "Running")
      /\ (\A x \in SvcNames : svc'[x] = "Running" => found[x] = "Running")
      /\ (\A x \in SvcNames : svc[x] = found[x] => svc'[x] = found[x])
      /\ svc'["Browser"] \in {found["Browser"], "Stopped"}
      /\ (found["LanmanServer"] # "Running" => svc'["LanmanServer"] = found["LanmanServer"])
  BY <1>3, <1>7, StartKeeps
<1>9. f \in Seq(DriverNames) /\ Len(f) = n - 1 /\ \A k \in 1 .. n - 1 : f[k] = taker.drivers[k]
  <2>1. PICK ds \in Seq(DriverNames) : ds = taker.drivers
    BY <1>1
  <2>2. n \in Nat \ {0} /\ n = Len(ds) /\ f = Front(ds)
    BY <1>1, <1>4, <2>1
  <2>3. f \in Seq(DriverNames) /\ Len(f) = n - 1 /\ \A k \in 1 .. n - 1 : f[k] = ds[k]
    BY ONLY <2>1, <2>2, FrontOf
  <2> QED BY <2>1, <2>3
<1>10. 1 .. n = (1 .. n - 1) \cup {n}
  <2>1. n \in Nat \ {0}
    BY <1>1
  <2> QED BY ONLY <2>1
<1>11. \A k \in 1 .. n - 1 : found[f[k]] = "Running"
  BY <1>9, <1>10 DEF Sharing
<1>12. \A d \in DriverNames : excused' = TRUE \/ svc'[d] = found[d] \/ \E k \in 1 .. n - 1 : f[k] = d
  <2> TAKE d \in DriverNames
  <2>1. CASE d = s
    BY <1>3, <1>8, <2>1
  <2>2. CASE d # s
    <3>1. excused = TRUE \/ svc[d] = found[d] \/ \E k \in 1 .. n : taker.drivers[k] = d
      BY DEF Sharing
    <3>2. d \in SvcNames
      BY FoundIs
    <3> QED BY <1>2, <1>8, <1>9, <1>10, <2>2, <3>1, <3>2
  <2> QED BY <2>1, <2>2
<1>13. t.was = found["LanmanServer"] /\ t.browser = found["Browser"] /\ t.i \in 1 .. 4
  BY <1>6 DEF Sharing
<1>14. PICK sv, ex : sv = svc' /\ ex = excused'
  OBVIOUS
<1>15. t.pc # "waitDriver" /\ t.pc # "survey" /\ t.pc # "stop" /\ t.pc # "browser" /\ t.pc # "ended" /\ DOMAIN t = TakerFields
  BY <1>6
<1>16. /\ t.drivers \in Seq(DriverNames) /\ \A k \in 1 .. Len(t.drivers) : found[t.drivers[k]] = "Running"
       /\ \A d \in DriverNames : ex = TRUE \/ sv[d] = found[d] \/ \E k \in 1 .. Len(t.drivers) : t.drivers[k] = d
  BY <1>6, <1>9, <1>11, <1>12, <1>14
<1>17. Sharing(t, sv, ex)
  BY <1>8, <1>13, <1>14, <1>15, <1>16 DEF Sharing
<1> QED BY <1>8, <1>14, <1>17

\* restore: every driver is back, and LanmanServer did not run.
LEMMA SharingWithoutLanman ==
  ASSUME Upright(found), Sharing(taker, svc, excused), taker.pc = "restoring", Len(taker.drivers) = 0, taker.was # "Running",
         NEW t2, t2 = [taker EXCEPT !.pc = "ended"]
  PROVE  Sharing(t2, svc, excused)
<1>1. DOMAIN t2 = TakerFields /\ t2.pc = "ended" /\ t2.was = taker.was /\ t2.browser = taker.browser /\ t2.i = taker.i /\ t2.drivers = taker.drivers
  BY DEF Sharing, TakerFields
<1>2. \A d \in DriverNames : excused = TRUE \/ svc[d] = found[d]
  BY DEF Sharing
<1>3. found["LanmanServer"] = "Stopped" /\ svc["LanmanServer"] = "Stopped" /\ found["Browser"] = "Stopped" /\ svc["Browser"] = "Stopped"
  BY FoundIs DEF Sharing
<1>4. excused = TRUE \/ \A x \in SvcNames : svc[x] = found[x]
  BY <1>2, <1>3, FoundIs
<1>5. excused = TRUE \/ svc = found
  BY <1>4, FoundIs DEF Sharing
<1> QED BY <1>1, <1>5 DEF Sharing

\* restore: LanmanServer.
LEMMA SharingLanman ==
  ASSUME Upright(found), Sharing(taker, svc, excused), taker.pc = "restoring", Len(taker.drivers) = 0, taker.was = "Running",
         StartService("LanmanServer", [taker EXCEPT !.pc = "browser"])
  PROVE  Sharing(taker', svc', excused')
<1>1. PICK t : t = [taker EXCEPT !.pc = "browser"]
  OBVIOUS
<1>2. DOMAIN t = TakerFields /\ t.pc = "browser" /\ t.was = taker.was /\ t.browser = taker.browser /\ t.i = taker.i /\ t.drivers = taker.drivers
  BY <1>1 DEF Sharing, TakerFields
<1>3. found["LanmanServer"] = "Running" /\ "LanmanServer" \in SvcNames /\ taker.drivers = <<>>
  BY FoundIs DEF Sharing
<1>4. StartService("LanmanServer", t)
  BY <1>1
<1>5. /\ taker' = t /\ svc' \in [SvcNames -> SvcStates] /\ excused' \in BOOLEAN /\ (excused = TRUE => excused' = TRUE)
      /\ (excused' = TRUE \/ svc'["LanmanServer"] = "Running")
      /\ (\A x \in SvcNames : svc'[x] = "Running" => found[x] = "Running")
      /\ (\A x \in SvcNames : svc[x] = found[x] => svc'[x] = found[x])
      /\ svc'["Browser"] \in {found["Browser"], "Stopped"}
      /\ (found["LanmanServer"] # "Running" => svc'["LanmanServer"] = found["LanmanServer"])
  BY <1>3, <1>4, StartKeeps
<1>6. \A d \in DriverNames : excused' = TRUE \/ svc'[d] = found[d]
  BY <1>3, <1>5, FoundIs DEF Sharing
<1>7. t.was = found["LanmanServer"] /\ t.browser = found["Browser"] /\ t.i \in 1 .. 4
  BY <1>2 DEF Sharing
<1>8. t.drivers = <<>> /\ t.drivers \in Seq(DriverNames) /\ Len(t.drivers) = 0
  BY <1>2, <1>3
<1> QED BY <1>2, <1>3, <1>5, <1>6, <1>7, <1>8 DEF Sharing

\* restore: Browser.
LEMMA SharingBrowser ==
  ASSUME Upright(found), Sharing(taker, svc, excused), taker.pc = "browser", RestoreBrowser
  PROVE  Sharing(taker', svc', excused')
<1>1. PICK t : t = [taker EXCEPT !.pc = "ended"]
  OBVIOUS
<1>2. DOMAIN t = TakerFields /\ t.pc = "ended" /\ t.was = taker.was /\ t.browser = taker.browser /\ t.i = taker.i /\ t.drivers = taker.drivers
  BY <1>1 DEF Sharing, TakerFields
<1>3. /\ t.was = found["LanmanServer"] /\ t.browser = found["Browser"] /\ t.i \in 1 .. 4 /\ taker.browser = found["Browser"]
      /\ t.drivers = <<>> /\ t.drivers \in Seq(DriverNames) /\ Len(t.drivers) = 0
      /\ found["LanmanServer"] = "Running" /\ (excused = TRUE \/ svc["LanmanServer"] = "Running")
  BY <1>2 DEF Sharing
<1>4. \A d \in DriverNames : excused = TRUE \/ svc[d] = found[d]
  BY <1>2, <1>3 DEF Sharing
<1>5. CASE taker.browser = "Running" /\ svc["LanmanServer"] = "Running"
  <2>1. StartService("Browser", t)
    BY <1>1, <1>5 DEF RestoreBrowser
  <2>2. "Browser" \in SvcNames /\ found["Browser"] = "Running"
    BY <1>3, <1>5, FoundIs
  <2>3. /\ taker' = t /\ svc' \in [SvcNames -> SvcStates] /\ excused' \in BOOLEAN /\ (excused = TRUE => excused' = TRUE)
        /\ (excused' = TRUE \/ svc'["Browser"] = "Running")
        /\ (\A x \in SvcNames : svc'[x] = "Running" => found[x] = "Running")
        /\ (\A x \in SvcNames : svc[x] = found[x] => svc'[x] = found[x])
        /\ svc'["Browser"] \in {found["Browser"], "Stopped"}
        /\ (found["LanmanServer"] # "Running" => svc'["LanmanServer"] = found["LanmanServer"])
    BY <2>1, <2>2, StartKeeps
  <2>4. \A x \in SvcNames : excused' = TRUE \/ svc'[x] = found[x]
    BY <1>3, <1>4, <1>5, <2>2, <2>3, FoundIs
  <2>5. excused' = TRUE \/ svc' = found
    BY <2>3, <2>4, FoundIs
  <2>6. \A d \in DriverNames : excused' = TRUE \/ svc'[d] = found[d]
    BY <2>4, FoundIs
  <2>7. PICK sv, ex : sv = svc' /\ ex = excused'
    OBVIOUS
  <2>8. \A k \in 1 .. Len(t.drivers) : FALSE
    BY <1>3
  <2>9. t.pc # "waitDriver" /\ t.pc # "survey" /\ t.pc # "stop" /\ t.pc # "browser" /\ DOMAIN t = TakerFields
    BY <1>2
  <2>10. Sharing(t, sv, ex)
    BY <1>3, <2>3, <2>5, <2>6, <2>7, <2>8, <2>9 DEF Sharing
  <2> QED BY <2>3, <2>7, <2>10
<1>6. CASE ~ (taker.browser = "Running" /\ svc["LanmanServer"] = "Running")
  <2>1. taker' = t /\ svc' = svc /\ excused' = excused
    BY <1>1, <1>6 DEF RestoreBrowser, Goes
  <2>2. excused = TRUE \/ (svc["LanmanServer"] = found["LanmanServer"] /\ svc["Browser"] = found["Browser"])
    BY <1>3, <1>6, FoundIs DEF Sharing
  <2>3. excused = TRUE \/ \A x \in SvcNames : svc[x] = found[x]
    BY <1>4, <2>2, FoundIs
  <2>4. excused = TRUE \/ svc = found
    BY <2>3, FoundIs DEF Sharing
  <2>5. Sharing(t, svc, excused)
    BY <1>2, <1>3, <1>4, <2>4 DEF Sharing
  <2> QED BY <2>1, <2>5
<1> QED BY <1>5, <1>6

\* One step per action of the SMB2 server, and the stop that completes.
LEMMA SharingStep ==
  ASSUME Upright(found), taker.ver = 2, Sharing(taker, svc, excused), Port445Next
  PROVE  Sharing(taker', svc', excused')
<1>1. CASE Survey
  <2>1. PICK p : p = IF taker.ver = 1 \/ svc["LanmanServer"] = "Running" THEN "stop" ELSE IF svc["LanmanServer"] = "Stopped" THEN "port" ELSE "ended"
    OBVIOUS
  <2>2. /\ taker.pc = "survey" /\ svc' = svc /\ excused' = excused
        /\ taker' = [taker EXCEPT !.was = svc["LanmanServer"], !.browser = svc["Browser"], !.pc = p]
    BY <1>1, <2>1 DEF Survey
  <2>3. /\ DOMAIN taker' = TakerFields /\ taker'.was = svc["LanmanServer"] /\ taker'.browser = svc["Browser"] /\ taker'.pc = p
        /\ taker'.i = taker.i /\ taker'.drivers = taker.drivers
    BY <2>2 DEF Sharing, TakerFields
  <2>4. svc = found /\ (p = "stop" \/ p = "port") /\ (p = "stop" => found["LanmanServer"] = "Running")
    BY <2>1, <2>2, FoundIs DEF Sharing
  <2> QED BY <2>2, <2>3, <2>4 DEF Sharing
<1>2. CASE StopLanman
  <2>1. taker.pc = "stop" /\ excused' = excused
    BY <1>2 DEF StopLanman
  <2>2. PICK p \in {"wait", "refused"} : taker' = [taker EXCEPT !.pc = p]
    BY <1>2 DEF StopLanman, Goes
  <2>3. CASE svc' = svc
    BY <2>1, <2>2, <2>3, SharingMovesOn
  <2>4. CASE Stopping("LanmanServer", TRUE)
    <3>1. PICK state \in {"StopPending", "Stopped"} :
            svc' = [x \in SvcNames |-> IF x = "LanmanServer" THEN state ELSE IF x \in Dependents("LanmanServer") THEN "Stopped" ELSE svc[x]]
      BY <2>4 DEF Stopping
    <3>2. \A d \in DriverNames : d \notin Dependents("LanmanServer")
      BY ServiceNames, ServicesNeed DEF Dependents, DriverNames
    <3>3. svc \in [SvcNames -> SvcStates]
      BY DEF Sharing
    <3>4. /\ svc' \in [SvcNames -> SvcStates] /\ svc'["LanmanServer"] = state /\ svc'["Browser"] \in {svc["Browser"], "Stopped"}
          /\ \A d \in DriverNames : svc'[d] = svc[d]
      BY <3>1, <3>2, <3>3, FoundIs DEF SvcStates
    <3>5. PICK sv2, t2 : sv2 = svc' /\ t2 = taker'
      OBVIOUS
    <3>6. Sharing(t2, sv2, excused)
      BY <2>1, <2>2, <3>4, <3>5, SharingStopsLanman
    <3> QED BY <2>1, <3>5, <3>6
  <2> QED BY <1>2, <2>3, <2>4 DEF StopLanman
<1>3. CASE WaitLanman
  <2>1. taker.pc = "wait" /\ svc' = svc /\ excused' = excused
    BY <1>3 DEF WaitLanman
  <2>2. PICK p \in {"port", "refused"} : taker' = [taker EXCEPT !.pc = p]
    BY <1>3 DEF WaitLanman, Goes
  <2> QED BY <2>1, <2>2, SharingMovesOn
<1>4. CASE LookAtPort
  <2>1. taker.pc = "port" /\ svc' = svc /\ excused' = excused
    BY <1>4 DEF LookAtPort
  <2>2. PICK p \in {"serving", "driver", "refused"} : taker' = [taker EXCEPT !.pc = p]
    BY <1>4 DEF LookAtPort, Goes
  <2> QED BY <2>1, <2>2, SharingMovesOn
<1>5. CASE StopDriver
  <2>1. taker.pc = "driver" /\ excused' = excused /\ taker.i \in 1 .. 4 /\ svc \in [SvcNames -> SvcStates]
    BY <1>5 DEF StopDriver, Sharing
  <2>2. CASE taker.i > Len(Drivers)
    <3>1. taker' = [taker EXCEPT !.pc = "serving"] /\ svc' = svc
      BY <1>5, <2>2 DEF StopDriver, Goes
    <3> QED BY <2>1, <3>1, SharingMovesOn
  <2>3. CASE ~ (taker.i > Len(Drivers))
    <3>1. taker.i \in 1 .. 3
      BY <2>1, <2>3, ServiceNames
    <3>2. PICK d : d = Drivers[taker.i]
      OBVIOUS
    <3>3. PICK t1 : t1 = [taker EXCEPT !.drivers = Append(@, Drivers[taker.i])]
      OBVIOUS
    <3>4. \/ svc[d] # "Running" /\ taker' = [taker EXCEPT !.i = @ + 1] /\ svc' = svc
          \/ Goes("refused") /\ svc' = svc
          \/ svc[d] = "Running" /\ Stopping(d, FALSE) /\ \E pc \in {"waitDriver", "refused"} : taker' = [t1 EXCEPT !.pc = pc]
          \/ svc[d] = "Running" /\ svc' = svc /\ taker' = [t1 EXCEPT !.pc = "refused"]
      BY <1>5, <2>3, <3>2, <3>3 DEF StopDriver
    <3>5. CASE taker' = [taker EXCEPT !.i = @ + 1] /\ svc' = svc
      <4>1. /\ DOMAIN taker' = TakerFields /\ taker'.was = taker.was /\ taker'.browser = taker.browser /\ taker'.pc = taker.pc
            /\ taker'.i = taker.i + 1 /\ taker'.drivers = taker.drivers
        BY <3>5 DEF Sharing, TakerFields
      <4>2. PICK k \in 1 .. 3 : k = taker.i
        BY <3>1
      <4>3. k + 1 \in 1 .. 4
        BY ONLY <4>2
      <4>4. taker'.i \in 1 .. 4
        BY <4>1, <4>2, <4>3
      <4> QED BY <2>1, <3>5, <4>1, <4>4 DEF Sharing
    <3>6. CASE Goes("refused") /\ svc' = svc
      BY <2>1, <3>6, SharingMovesOn DEF Goes
    <3>7. ASSUME svc[d] = "Running", svc' \in [SvcNames -> SvcStates], \A x \in SvcNames \ {d} : svc'[x] = svc[x],
                 NEW p \in {"waitDriver", "refused"}, taker' = [t1 EXCEPT !.pc = p]
          PROVE  Sharing(taker', svc', excused')
      <4>1. PICK sv2, t2 : sv2 = svc' /\ t2 = taker'
        OBVIOUS
      <4>2. sv2 \in [SvcNames -> SvcStates] /\ svc[Drivers[taker.i]] = "Running" /\ \A x \in SvcNames \ {Drivers[taker.i]} : sv2[x] = svc[x]
        BY <3>2, <3>7, <4>1
      <4>3. t2 = [t1 EXCEPT !.pc = p]
        BY <3>7, <4>1
      <4>4. Sharing(t2, sv2, excused)
        BY <2>1, <3>1, <3>3, <4>2, <4>3, SharingNotes
      <4> QED BY <2>1, <4>1, <4>4
    <3>8. CASE svc[d] = "Running" /\ Stopping(d, FALSE) /\ \E pc \in {"waitDriver", "refused"} : taker' = [t1 EXCEPT !.pc = pc]
      <4>1. PICK state \in {"StopPending", "Stopped"} : svc' = [x \in SvcNames |-> IF x = d THEN state ELSE svc[x]]
        BY <3>8 DEF Stopping
      <4>2. svc' \in [SvcNames -> SvcStates] /\ \A x \in SvcNames \ {d} : svc'[x] = svc[x]
        BY <2>1, <4>1 DEF SvcStates
      <4> QED BY <3>7, <3>8, <4>2
    <3>9. CASE svc[d] = "Running" /\ svc' = svc /\ taker' = [t1 EXCEPT !.pc = "refused"]
      BY <2>1, <3>7, <3>9
    <3> QED BY <3>4, <3>5, <3>6, <3>8, <3>9
  <2> QED BY <2>2, <2>3
<1>6. CASE WaitDriver
  <2>1. taker.pc = "waitDriver" /\ svc' = svc /\ excused' = excused
    BY <1>6 DEF WaitDriver
  <2>2. CASE taker' = [taker EXCEPT !.pc = "driver", !.i = @ + 1]
    <3>1. /\ DOMAIN taker' = TakerFields /\ taker'.was = taker.was /\ taker'.browser = taker.browser /\ taker'.pc = "driver"
          /\ taker'.i = taker.i + 1 /\ taker'.drivers = taker.drivers
      BY <2>2 DEF Sharing, TakerFields
    <3>2. PICK k \in 1 .. 3 : k = taker.i
      BY <2>1 DEF Sharing
    <3>3. k + 1 \in 1 .. 4
      BY ONLY <3>2
    <3>4. taker'.i \in 1 .. 4
      BY <3>1, <3>2, <3>3
    <3> QED BY <2>1, <3>1, <3>4 DEF Sharing
  <2>3. CASE taker' = [taker EXCEPT !.pc = "refused"]
    BY <2>1, <2>3, SharingMovesOn
  <2> QED BY <1>6, <2>2, <2>3 DEF WaitDriver
<1>7. CASE Ends
  <2>1. svc' = svc /\ excused' = excused
    BY <1>7 DEF Ends
  <2>2. CASE taker.pc = "survey"
    <3>1. taker' = [taker EXCEPT !.pc = "ended"]
      BY <1>7, <2>2 DEF Ends, Goes
    <3>2. /\ DOMAIN taker' = TakerFields /\ taker'.was = taker.was /\ taker'.browser = taker.browser /\ taker'.pc = "ended"
          /\ taker'.i = taker.i /\ taker'.drivers = taker.drivers
      BY <3>1 DEF Sharing, TakerFields
    <3>3. svc = found
      BY <2>2 DEF Sharing
    <3> QED BY <2>1, <3>2, <3>3 DEF Sharing
  <2>3. CASE taker.pc # "survey"
    <3>1. taker' = [taker EXCEPT !.pc = "restoring"] /\ taker.pc \notin {"survey", "ended"}
      BY <1>7, <2>3 DEF Ends, Goes
    <3> QED BY <2>1, <2>3, <3>1, SharingMovesOn
  <2> QED BY <2>2, <2>3
<1>8. CASE RestoreNext
  <2>1. PICK n : n = Len(taker.drivers)
    OBVIOUS
  <2>2. n \in Nat /\ taker.pc = "restoring"
    BY <1>8, <2>1 DEF Sharing, RestoreNext
  <2>3. CASE n > 0
    <3>1. StartService(taker.drivers[n], [taker EXCEPT !.drivers = Front(@)])
      BY <1>8, <2>1, <2>3 DEF RestoreNext
    <3> QED BY <2>1, <2>2, <2>3, <3>1, SharingDriver
  <2>4. CASE ~ (n > 0)
    <3>1. Len(taker.drivers) = 0
      BY <2>1, <2>2, <2>4
    <3>2. CASE taker.was # "Running"
      <4>1. taker' = [taker EXCEPT !.pc = "ended"] /\ svc' = svc /\ excused' = excused
        BY <1>8, <2>1, <2>4, <3>2 DEF RestoreNext, Goes
      <4> QED BY <2>2, <3>1, <3>2, <4>1, SharingWithoutLanman
    <3>3. CASE taker.was = "Running"
      <4>1. StartService("LanmanServer", [taker EXCEPT !.pc = "browser"])
        BY <1>8, <2>1, <2>4, <3>3 DEF RestoreNext
      <4> QED BY <2>2, <3>1, <3>3, <4>1, SharingLanman
    <3> QED BY <3>2, <3>3
  <2> QED BY <2>3, <2>4
<1>9. CASE RestoreBrowser
  <2>1. taker.pc = "browser"
    BY <1>9 DEF RestoreBrowser
  <2> QED BY <1>9, <2>1, SharingBrowser
<1>10. CASE RestoreAtOnce
  BY <1>10 DEF RestoreAtOnce
<1>11. CASE \E s \in SvcNames : StopCompletes(s)
  <2>1. PICK s \in SvcNames : svc[s] = "StopPending" /\ svc' = [svc EXCEPT ![s] = "Stopped"] /\ taker' = taker /\ excused' = excused
    BY <1>11 DEF StopCompletes
  <2> QED BY <2>1, SharingStopCompletes
<1> QED BY <1>1, <1>2, <1>3, <1>4, <1>5, <1>6, <1>7, <1>8, <1>9, <1>10, <1>11 DEF Port445Next

\* Which server it is, and what was found, never changes.
LEMMA TakerStays ==
  ASSUME DOMAIN taker = TakerFields, Port445Next
  PROVE  DOMAIN taker' = TakerFields /\ taker'.ver = taker.ver /\ found' = found
<1>1. ASSUME NEW p, Goes(p) PROVE DOMAIN taker' = TakerFields /\ taker'.ver = taker.ver
  BY <1>1 DEF Goes, TakerFields
<1>2. ASSUME NEW s, NEW next, StartService(s, next) PROVE taker' = next
  BY <1>2 DEF StartService
<1>3. ASSUME NEW next, NEW ds, next = [taker EXCEPT !.drivers = ds] PROVE DOMAIN next = TakerFields /\ next.ver = taker.ver
  BY <1>3 DEF TakerFields
<1>4. ASSUME NEW next, NEW p, next = [taker EXCEPT !.pc = p] PROVE DOMAIN next = TakerFields /\ next.ver = taker.ver
  BY <1>4 DEF TakerFields
<1>5. CASE Survey
  BY <1>5 DEF Survey, TakerFields
<1>6. CASE StopLanman
  BY <1>1, <1>6 DEF StopLanman
<1>7. CASE WaitLanman
  BY <1>1, <1>7 DEF WaitLanman
<1>8. CASE LookAtPort
  BY <1>1, <1>8 DEF LookAtPort
<1>9. CASE StopDriver
  <2>1. PICK t1 : t1 = [taker EXCEPT !.drivers = Append(@, Drivers[taker.i])]
    OBVIOUS
  <2>2. \/ \E p : Goes(p)
        \/ taker' = [taker EXCEPT !.i = @ + 1]
        \/ \E p : taker' = [t1 EXCEPT !.pc = p]
    BY <1>9, <2>1 DEF StopDriver
  <2>3. DOMAIN t1 = TakerFields /\ t1.ver = taker.ver
    BY <2>1 DEF TakerFields
  <2>4. found' = found
    BY <1>9 DEF StopDriver
  <2>5. CASE \E p : taker' = [t1 EXCEPT !.pc = p]
    <3>1. PICK p : taker' = [t1 EXCEPT !.pc = p]
      BY <2>5
    <3>2. PICK t2 : t2 = [t1 EXCEPT !.pc = p]
      OBVIOUS
    <3>3. DOMAIN t2 = TakerFields /\ t2.ver = t1.ver
      BY <2>3, <3>2 DEF TakerFields
    <3> QED BY <2>3, <2>4, <3>1, <3>2, <3>3
  <2>6. CASE taker' = [taker EXCEPT !.i = @ + 1]
    <3>1. PICK n : n = taker.i + 1
      OBVIOUS
    <3>2. PICK t2 : t2 = [taker EXCEPT !.i = n]
      OBVIOUS
    <3>3. DOMAIN t2 = TakerFields /\ t2.ver = taker.ver
      BY <3>2 DEF TakerFields
    <3> QED BY <2>6, <2>4, <3>1, <3>2, <3>3
  <2> QED BY <1>1, <2>2, <2>5, <2>6, <2>4
<1>10. CASE WaitDriver
  BY <1>10 DEF WaitDriver, TakerFields
<1>11. CASE Ends
  BY <1>1, <1>11 DEF Ends
<1>12. CASE RestoreNext
  <2>1. PICK a, b : a = [taker EXCEPT !.drivers = Front(@)] /\ b = [taker EXCEPT !.pc = "browser"]
    OBVIOUS
  <2>2. taker' = a \/ taker' = b \/ Goes("ended")
    BY <1>2, <1>12, <2>1 DEF RestoreNext
  <2>3. DOMAIN a = TakerFields /\ a.ver = taker.ver /\ DOMAIN b = TakerFields /\ b.ver = taker.ver
    BY <2>1 DEF TakerFields
  <2>4. found' = found
    BY <1>12 DEF RestoreNext
  <2> QED BY <1>1, <2>2, <2>3, <2>4
<1>13. CASE RestoreBrowser
  <2>1. PICK b : b = [taker EXCEPT !.pc = "ended"]
    OBVIOUS
  <2>2. taker' = b
    BY <1>2, <1>13, <2>1 DEF RestoreBrowser, Goes
  <2>3. found' = found
    BY <1>13 DEF RestoreBrowser
  <2> QED BY <1>4, <2>1, <2>2, <2>3
<1>14. CASE RestoreAtOnce
  BY <1>1, <1>14 DEF RestoreAtOnce
<1>15. CASE \E s \in SvcNames : StopCompletes(s)
  BY <1>15 DEF StopCompletes
<1> QED BY <1>5, <1>6, <1>7, <1>8, <1>9, <1>10, <1>11, <1>12, <1>13, <1>14, <1>15 DEF Port445Next

LEMMA SharingStarts ==
  ASSUME Port445Init
  PROVE  Port445Inv
<1>1. Upright(found) /\ svc = found
  BY DEF Port445Init, Upright
<1>2. DOMAIN taker = TakerFields /\ taker.pc = "survey" /\ taker.i = 1 /\ taker.drivers = <<>>
  BY DEF Port445Init, TakerFields
<1>3. excused \in BOOLEAN /\ Len(taker.drivers) = 0 /\ taker.drivers \in Seq(DriverNames)
  <2>1. excused \in BOOLEAN
    BY DEF Port445Init
  <2>2. Len(taker.drivers) = 0 /\ taker.drivers \in Seq(DriverNames)
    BY <1>2
  <2> QED BY <2>1, <2>2
<1>4. found \in [SvcNames -> SvcStates]
  BY <1>1, FoundIs
<1> QED BY <1>1, <1>2, <1>3, <1>4 DEF Port445Inv, Sharing

\* take_445 and its restore (smb2_server.py): when the SMB2 server has ended, however and wherever it
\* was refused or interrupted, every service and driver of Windows file sharing is as it was found,
\* unless Windows refused or outlasted a start: a driver is noted before it is stopped, what was
\* noted ran, and a start brings back only what ran.
THEOREM SharingIsRestored == Port445Spec => []SharingRestored
<1>1. Port445Init => Port445Inv
  BY SharingStarts
<1>2. Port445Inv /\ [Port445Next]_port445Vars => Port445Inv'
  <2> SUFFICES ASSUME Port445Inv, [Port445Next]_port445Vars PROVE Port445Inv'
    OBVIOUS
  <2>1. Upright(found) /\ DOMAIN taker = TakerFields /\ (taker.ver = 2 => Sharing(taker, svc, excused))
    BY DEF Port445Inv
  <2>2. CASE Port445Next
    <3>1. DOMAIN taker' = TakerFields /\ taker'.ver = taker.ver /\ found' = found
      BY <2>1, <2>2, TakerStays
    <3>2. taker.ver = 2 => Sharing(taker', svc', excused')
      BY <2>1, <2>2, SharingStep
    <3>3. taker'.ver = 2 => Sharing(taker, svc, excused)'
      BY <3>1, <3>2 DEF Sharing
    <3>4. Upright(found)'
      BY <2>1, <3>1 DEF Upright
    <3> QED BY <3>1, <3>3, <3>4 DEF Port445Inv
  <2>3. CASE UNCHANGED port445Vars
    BY <2>1, <2>3 DEF Port445Inv, port445Vars, Sharing, Upright
  <2> QED BY <2>2, <2>3
<1>3. Port445Inv => SharingRestored
  BY DEF Port445Inv, Sharing, SharingRestored
<1> QED BY <1>1, <1>2, <1>3, PTL DEF Port445Spec

-----------------------------------------------------------------------------
(* UdpfsPaths: a link is deleted as itself.                                  *)

PathsFields == {"home", "keep", "link"}
PathsType == tree \in [PathsFields -> BOOLEAN]

\* Only the paths that lead to an entry without a link have one that can be deleted.
LEMMA EntriesOf ==
  ASSUME NEW p \in Requested
  PROVE  /\ p \in {<<"home">>, <<"link">>, <<"home", "keep">>, <<>>} \/ Through(p) # "no"
         /\ p \in {<<"home">>, <<"link">>, <<"home", "keep">>, <<>>} => EntryOf(p) = p
<1>1. CASE p \in {<<"home">>, <<"link">>, <<>>}
  <2>1. Len(p) <= 1
    BY <1>1
  <2> QED BY <1>1, <2>1 DEF EntryOf
<1>2. CASE p = <<"home", "keep">>
  <2>1. Len(p) = 2 /\ p[1] = "home" /\ ~(Len(p) <= 1)
    BY <1>2
  <2> QED BY <1>2, <2>1 DEF EntryOf
<1>3. CASE p = <<"link", "keep">>
  <2>1. Len(p) = 2 /\ p[1] = "link" /\ ~(Len(p) <= 1) /\ p[1] # "home"
    BY <1>3
  <2>2. Through(p) # "no"
    BY <2>1 DEF Through
  <2>3. p \notin {<<"home">>, <<"link">>, <<"home", "keep">>, <<>>}
    BY <1>3
  <2> QED BY <2>2, <2>3
<1>4. CASE p = <<"gone", "..", "link", "keep">>
  <2>1. Len(p) = 4 /\ p[1] = "gone" /\ ~(Len(p) <= 1) /\ p[1] # "home" /\ p[1] # "link"
    BY <1>4
  <2>2. Through(p) # "no"
    BY <2>1 DEF Through
  <2>3. p \notin {<<"home">>, <<"link">>, <<"home", "keep">>, <<>>}
    BY <1>4
  <2> QED BY <2>2, <2>3
<1> QED BY <1>1, <1>2, <1>3, <1>4 DEF Requested

LEMMA PathsApart ==
  /\ <<"home">> # <<"link">> /\ <<"home">> # <<"home", "keep">> /\ <<"home">> # <<>> /\ <<"link">> # <<"home", "keep">>
  /\ <<"link">> # <<>> /\ <<"home", "keep">> # <<>>
OBVIOUS

\* What a step deletes is what its request names.
DeletesNamed ==
  /\ (tree.keep /\ ~tree'.keep => dirAsked' = [op |-> "remove", path |-> <<"home", "keep">>])
  /\ (tree.link /\ ~tree'.link => dirAsked' = [op |-> "remove", path |-> <<"link">>])
  /\ (tree.home /\ ~tree'.home => dirAsked' = [op |-> "rmdir", path |-> <<"home">>])

LEMMA PathsStep ==
  ASSUME PathsType, PathsNext
  PROVE  PathsType' /\ DeletesNamed
<1>1. DOMAIN tree = PathsFields /\ \A x \in PathsFields : tree[x] \in BOOLEAN
  BY DEF PathsType
<1>2. ASSUME NEW x \in PathsFields, NEW b \in BOOLEAN, tree' = [tree EXCEPT ![x] = b]
      PROVE  PathsType' /\ tree'[x] = b /\ \A y \in PathsFields \ {x} : tree'[y] = tree[y]
  BY <1>1, <1>2 DEF PathsType
<1>3. CASE tree' = tree
  BY <1>3 DEF DeletesNamed, PathsType
<1>4. CASE UserRestores
  <2>1. PICK x \in PathsFields : tree' = [tree EXCEPT ![x] = TRUE]
    BY <1>4 DEF UserRestores, PathsFields
  <2> QED BY <1>2, <2>1 DEF DeletesNamed, PathsFields
<1>5. ASSUME NEW p \in Requested, RemovePath(p), tree' # tree PROVE PathsType' /\ DeletesNamed
  <2>1. Through(p) = "no" /\ EntryOf(p) \notin {<<>>, <<"home">>} /\ dirAsked' = [op |-> "remove", path |-> p]
    BY <1>5 DEF RemovePath
  <2>2. EntryOf(p) = p /\ p \in {<<"link">>, <<"home", "keep">>}
    BY <2>1, EntriesOf
  <2>3. CASE p = <<"link">>
    <3>1. tree' = [tree EXCEPT !["link"] = FALSE]
      BY <1>5, <2>2, <2>3 DEF RemovePath
    <3> QED BY <1>2, <2>1, <2>3, <3>1 DEF DeletesNamed, PathsFields
  <2>4. CASE p = <<"home", "keep">>
    <3>1. tree' = [tree EXCEPT !["keep"] = FALSE]
      BY <1>5, <2>2, <2>4, PathsApart DEF RemovePath
    <3> QED BY <1>2, <2>1, <2>4, <3>1 DEF DeletesNamed, PathsFields
  <2> QED BY <2>2, <2>3, <2>4
<1>6. ASSUME NEW p \in Requested, RmdirPath(p), tree' # tree PROVE PathsType' /\ DeletesNamed
  <2>1. Through(p) = "no" /\ EntryOf(p) = <<"home">> /\ dirAsked' = [op |-> "rmdir", path |-> p] /\ tree' = [tree EXCEPT !["home"] = FALSE]
    BY <1>6 DEF RmdirPath
  <2>2. p = <<"home">>
    BY <2>1, EntriesOf
  <2> QED BY <1>2, <2>1, <2>2 DEF DeletesNamed, PathsFields
<1>7. ASSUME NEW p \in Requested, MkdirPath(p), tree' # tree PROVE PathsType' /\ DeletesNamed
  <2>1. tree' = [tree EXCEPT !["home"] = TRUE]
    BY <1>7 DEF MkdirPath
  <2> QED BY <1>2, <2>1 DEF DeletesNamed, PathsFields
<1> QED BY <1>3, <1>4, <1>5, <1>6, <1>7 DEF PathsNext

\* _resolve_entry, _through_linked_folder, _handle_remove and _handle_rmdir (udpfs_server.py): whatever
\* MKDIR, REMOVE and RMDIR a console sends and whatever the user puts back in between, a file, a
\* folder or a link goes away only by a request whose path names it, never through a link.
THEOREM LinksStayLinks == PathsSpec => LinksNotFollowed
<1>1. PathsInit => PathsType
  <2> SUFFICES ASSUME PathsInit PROVE PathsType
    OBVIOUS
  <2>1. PICK r : r = [x \in PathsFields |-> TRUE]
    OBVIOUS
  <2>2. tree = r
    BY <2>1 DEF PathsInit, PathsFields
  <2> QED BY <2>1, <2>2 DEF PathsType
<1>2. PathsType /\ [PathsNext]_pathsVars => PathsType' /\ [DeletesNamed]_pathsVars
  <2> SUFFICES ASSUME PathsType, [PathsNext]_pathsVars PROVE PathsType' /\ [DeletesNamed]_pathsVars
    OBVIOUS
  <2>1. CASE PathsNext
    BY <2>1, PathsStep
  <2>2. CASE UNCHANGED pathsVars
    BY <2>2 DEF pathsVars, PathsType
  <2> QED BY <2>1, <2>2
<1> QED BY <1>1, <1>2, PTL DEF PathsSpec, LinksNotFollowed, DeletesNamed
=============================================================================
