---------------------------- MODULE RequestReply ----------------------------
(***************************************************************************)
(* What a UDPFS session promises the console it serves, with no network, no  *)
(* sequence numbers and no retransmission in sight: the console has one      *)
(* request outstanding, a request is executed at most once and never unasked, *)
(* it counts as arrived only once executed, and what the console is handed is *)
(* the reply to the request it waits for, piece after piece until it is whole. *)
(* A console may boot again and forget what it waited for; the request it     *)
(* forgot may still be executed, once. UdpfsTransport implements this.        *)
(***************************************************************************)
EXTENDS Naturals, Sequences

CONSTANTS
  Calls,    \* the numbers of the requests a console may make
  Lengths   \* the possible lengths of a reply, in pieces

VARIABLES
  current,  \* the last request made, 0 for none
  length,   \* the length of its reply
  waiting,  \* the console waits for it
  told,     \* the console was told that it arrived, and will not send it again
  reply,    \* the pieces it was handed: <<request, index>>
  runs      \* how often each request was executed

promise == <<current, length, waiting, told, reply, runs>>

Init ==
  /\ current = 0 /\ length = 1 /\ waiting = FALSE /\ told = FALSE /\ reply = <<>>
  /\ runs = [r \in Calls |-> 0]

Ask ==
  /\ ~waiting /\ current + 1 \in Calls
  /\ current' = current + 1 /\ length' \in Lengths
  /\ waiting' = TRUE /\ told' = FALSE /\ reply' = <<>>
  /\ UNCHANGED runs

Execute ==
  /\ \E r \in Calls : 0 < r /\ r <= current /\ runs[r] = 0 /\ runs' = [runs EXCEPT ![r] = 1]
  /\ UNCHANGED <<current, length, waiting, told, reply>>

\* Only a request that was executed may be taken for arrived: it is not sent again.
Acknowledge ==
  /\ waiting /\ runs[current] = 1 /\ told' = TRUE
  /\ UNCHANGED <<current, length, waiting, reply, runs>>

\* The next piece of the reply; the last one ends the wait.
Deliver ==
  /\ waiting /\ runs[current] = 1
  /\ reply' = Append(reply, <<current, Len(reply) + 1>>)
  /\ waiting' = (Len(reply') < length)
  /\ UNCHANGED <<current, length, told, runs>>

BootAgain ==
  /\ waiting' = FALSE /\ told' = FALSE /\ reply' = <<>>
  /\ UNCHANGED <<current, length, runs>>

Next == Ask \/ Execute \/ Acknowledge \/ Deliver \/ BootAgain

Spec == Init /\ [][Next]_promise

=============================================================================
