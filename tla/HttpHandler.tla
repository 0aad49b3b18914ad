---------------------------- MODULE HttpHandler ----------------------------
(***************************************************************************)
(* One keep-alive connection of http_server.py and the console's disc driver  *)
(* at its other end. The driver writes a Range request, reads a header, and    *)
(* then exactly as many bytes as it asked for, whatever the header says; the   *)
(* handler writes the header before it opens and reads the file. In between   *)
(* the network may fail a sendfile half way, and the file may change on disk.  *)
(*                                                                           *)
(* The stream to the driver is a sequence of items: a header with its status,  *)
(* a byte of the file with its offset, or (offset -1) a byte of the text of a   *)
(* short answer, which is TextLen bytes long. The index entry of the one game   *)
(* keeps the size it was scanned with.                                          *)
(***************************************************************************)
EXTENDS Integers, Sequences

CONSTANTS
  MaxSize,       \* bytes of the game: 1 .. MaxSize
  TextLen,       \* bytes a driver would read as data from "HTTP/1.1 500 ..." sent inside a body
  HttpDiskFaults \* what happens to the file: "grow", "shrink", "vanish"

ASSUME HttpHandlerAssumption ==
  MaxSize \in Nat \ {0} /\ TextLen \in Nat \ {0} /\ HttpDiskFaults \subseteq {"grow", "shrink", "vanish"}

VARIABLES
  gameFile,  \* the size of the file on disk, 0 when it is gone
  entrySize, \* GameEntry.size
  handler,   \* the request in hand: state, next offset, bytes left; the cached handle; close_connection
  stream,    \* what was written and not yet read by the driver
  driver     \* the driver: state, offset and count of the read, bytes read; what it took for data

handlerVars == <<gameFile, entrySize, handler, stream, driver>>

Header(status) == [item |-> "header", status |-> status, offset |-> -1]
Byte(offset) == [item |-> "byte", status |-> 0, offset |-> offset]
Bytes(from, n) == [i \in 1 .. n |-> Byte(from + i - 1)]
Text == [i \in 1 .. TextLen |-> Byte(-1)]

Fresh == [pc |-> "idle", offset |-> 0, left |-> 0, cached |-> FALSE, closing |-> FALSE]
Request(kind, offset, count) == [pc |-> "asked", kind |-> kind, offset |-> offset, count |-> count, got |-> <<>>]
NoRequest == [pc |-> "idle", kind |-> "none", offset |-> 0, count |-> 0, got |-> <<>>]

\* How a request ends: the connection stays, or is closed when close_connection is set.
Finished(h) == [h EXCEPT !.pc = IF h.closing THEN "closed" ELSE "idle", !.offset = 0, !.left = 0]

-----------------------------------------------------------------------------
(* The driver.                                                               *)

\* A read of the disc, the list of games, or the HEAD and the whole GET of a browser.
Ask ==
  /\ driver.pc = "idle" /\ handler.pc = "idle"
  /\ \E kind \in {"range", "list", "head", "other"}, offset \in 0 .. MaxSize - 1, count \in 1 .. MaxSize :
       /\ kind # "range" => offset = 0 /\ count = 1
       /\ driver' = Request(kind, offset, count)
  /\ handler' = [handler EXCEPT !.pc = "dispatch"]
  /\ UNCHANGED <<gameFile, entrySize, stream>>

\* The header arrives. Anything but 206 fails a read: the driver drops the connection.
TakeHeader ==
  /\ driver.pc = "asked" /\ stream # <<>>
  /\ stream' = Tail(stream)
  /\ driver' = [driver EXCEPT !.pc = IF Head(stream) = Header(206) /\ driver.kind = "range" THEN "reading"
                                     ELSE IF Head(stream) = Header(200) /\ driver.kind \in {"list", "head"} THEN "done" ELSE "failed"]
  /\ UNCHANGED <<gameFile, entrySize, handler>>

\* The bytes, until the driver has as many as it asked for.
TakeByte ==
  /\ driver.pc = "reading" /\ stream # <<>>
  /\ stream' = Tail(stream)
  /\ driver' = [driver EXCEPT !.got = Append(@, Head(stream)), !.pc = IF Len(driver.got) + 1 = driver.count THEN "done" ELSE "reading"]
  /\ UNCHANGED <<gameFile, entrySize, handler>>

\* A read that succeeded leaves the connection for the next; the handler is through by then.
NextRead ==
  /\ driver.pc = "done" /\ handler.pc \in {"idle", "closed"}
  /\ driver' = NoRequest
  /\ UNCHANGED <<gameFile, entrySize, handler, stream>>

\* After a failure, or when the server has closed and all was read, the driver connects again.
Reconnect ==
  /\ driver.pc = "failed" \/ (handler.pc = "closed" /\ stream = <<>>)
  /\ driver' = NoRequest /\ handler' = Fresh /\ stream' = <<>>
  /\ UNCHANGED <<gameFile, entrySize>>

-----------------------------------------------------------------------------
(* The handler.                                                              *)

\* _send_short
Short(status, h) == stream' = Append(stream, Header(status)) \o (IF driver.kind = "head" THEN <<>> ELSE Text) /\ handler' = Finished(h)

\* _dispatch and _serve_game up to the header: 404, games.csv, the range check, 206.
DispatchRequest ==
  /\ handler.pc = "dispatch"
  /\ LET end == driver.offset + driver.count - 1
     IN  CASE driver.kind = "other" -> Short(404, handler)
           [] driver.kind = "list" -> stream' = Append(stream, Header(200)) /\ handler' = Finished(handler)
           [] driver.kind = "head" -> stream' = Append(stream, Header(200)) /\ handler' = Finished(handler)
           [] driver.kind = "range" ->
                IF driver.offset >= entrySize \/ end >= entrySize THEN Short(416, handler)
                ELSE /\ stream' = Append(stream, Header(206))
                     /\ handler' = [handler EXCEPT !.pc = "open", !.offset = driver.offset, !.left = driver.count]
  /\ UNCHANGED <<gameFile, entrySize, driver>>

\* _handle_for: the open file is kept with the connection. An error is answered with 500
\* (the header is out already).
HandleFor ==
  /\ handler.pc = "open"
  /\ IF handler.cached \/ gameFile # 0
     THEN handler' = [handler EXCEPT !.pc = "sendfile", !.cached = TRUE] /\ UNCHANGED stream
     ELSE Short(500, handler)
  /\ UNCHANGED <<gameFile, entrySize, driver>>

\* What a read at the handler's offset can return.
Available == IF handler.offset >= gameFile THEN 0 ELSE IF gameFile - handler.offset < handler.left THEN gameFile - handler.offset ELSE handler.left

\* Mutant: after an error the manual loop starts again from the original offset.
SendfileResends ==
  /\ handler.pc = "sendfile"
  /\ \E n \in 0 .. Available :
       /\ stream' = stream \o Bytes(handler.offset, n)
       /\ \/ handler' = [handler EXCEPT !.pc = "copy"]
          \/ handler' = IF n = handler.left THEN Finished(handler) ELSE [handler EXCEPT !.pc = "copy", !.offset = @ + n, !.left = @ - n]
  /\ UNCHANGED <<gameFile, entrySize, driver>>

\* connection.sendfile: everything, less than that (the file is shorter, or sendfile is not
\* to be had), or an error after some bytes, which closes the connection.
Sendfile ==
  /\ handler.pc = "sendfile"
  /\ \E n \in 0 .. Available :
       /\ stream' = stream \o Bytes(handler.offset, n)
       /\ \/ handler' = Finished([handler EXCEPT !.closing = TRUE])
          \/ handler' = IF n = handler.left THEN Finished(handler) ELSE [handler EXCEPT !.pc = "copy", !.offset = @ + n, !.left = @ - n]
  /\ UNCHANGED <<gameFile, entrySize, driver>>

\* The loop of reads. At the end of the file close_connection is set and OSError raised:
\* _dispatch answers it with 500 before the connection closes.
Copy ==
  /\ handler.pc = "copy"
  /\ IF Available = 0 THEN Short(500, [handler EXCEPT !.closing = TRUE])
     ELSE \E n \in 1 .. Available :
            /\ stream' = stream \o Bytes(handler.offset, n)
            /\ handler' = IF n = handler.left THEN Finished(handler) ELSE [handler EXCEPT !.offset = @ + n, !.left = @ - n]
  /\ UNCHANGED <<gameFile, entrySize, driver>>

\* The user replaces, shortens or deletes the game; games.csv makes the index look again.
FileChanges ==
  /\ \/ "grow" \in HttpDiskFaults /\ gameFile \in 1 .. MaxSize - 1 /\ gameFile' = gameFile + 1
     \/ "shrink" \in HttpDiskFaults /\ gameFile > 1 /\ gameFile' = gameFile - 1
     \/ "vanish" \in HttpDiskFaults /\ gameFile > 0 /\ ~handler.cached /\ gameFile' = 0
  /\ UNCHANGED <<entrySize, handler, stream, driver>>

IndexRescans ==
  /\ gameFile # 0 /\ entrySize # gameFile
  /\ entrySize' = gameFile
  /\ UNCHANGED <<gameFile, handler, stream, driver>>

HandlerInit == gameFile = 1 /\ entrySize = 1 /\ handler = Fresh /\ stream = <<>> /\ driver = NoRequest

HandlerNext ==
  \/ Ask \/ TakeHeader \/ TakeByte \/ NextRead \/ Reconnect
  \/ DispatchRequest \/ HandleFor \/ Sendfile \/ Copy \/ FileChanges \/ IndexRescans

HandlerSpec == HandlerInit /\ [][HandlerNext]_handlerVars

-----------------------------------------------------------------------------
(* Properties.                                                              *)

\* Nothing is left in the stream of a keep-alive connection that the driver will use for its
\* next read.
StreamInStep == driver.pc = "idle" /\ handler.pc = "idle" => stream = <<>>

-----------------------------------------------------------------------------
(* What the code or its comments lead one to expect and the code does not  *)
(* do (README, Observations). No run checks these.                          *)

\* The rule of the module's docstring: the body is exactly the bytes that were asked for. What
\* the driver takes for data is the file's, in order, from the offset it named.
DataIsTheDiscs ==
  \A i \in 1 .. Len(driver.got) : driver.got[i] = Byte(driver.offset + i - 1)

=============================================================================
