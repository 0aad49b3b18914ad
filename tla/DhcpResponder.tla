--------------------------- MODULE DhcpResponder ---------------------------
(***************************************************************************)
(* The helper behind the direct link (launcher/directlink.py): one process     *)
(* that checks the port, on Unix gives it the address, waits for the link,     *)
(* looks for another DHCP server, and then answers the one console on the       *)
(* cable. The cable may be pulled and plugged into something else at any time.  *)
(*                                                                           *)
(* An address is a network and a host number, a device its MAC. What the cable  *)
(* leads to is one of Wires. A probe hears every server that is there (it is     *)
(* sent again each second). Timers are left to chance: a check that is due may    *)
(* come after any other step.                                                  *)
(***************************************************************************)
EXTENDS Naturals, FiniteSets

CONSTANTS
  HelperOS,       \* "windows", "unix"
  REPLY_BURST,    \* tokens of the bucket
  MaxMoves,       \* bound: how often the cable is moved
  HelperRisks     \* "early": a signal before the address is noted; "port68": the probe cannot be sent

ASSUME HelperAssumption ==
  /\ HelperOS \subseteq {"windows", "unix"} /\ REPLY_BURST \in Nat \ {0} /\ MaxMoves \in Nat
  /\ HelperRisks \subseteq {"early", "port68"}

VARIABLES
  helper,    \* the process
  wire,      \* what the cable leads to now, and how often it was moved
  heldIp     \* the adapter carries the server's address

helperVars == <<helper, wire, heldIp>>

Hosts == 1 .. 3
OurNet == 1
Server == [net |-> OurNet, host |-> 1]
Client == [net |-> OurNet, host |-> 2]

\* A cable with nothing on it, the console as it should be, consoles with an old static address
\* (ours, the client's, one of another network), and a real network whose DHCP server may go
\* by our own address; moved n times.
Wire(n, devices, neighbors, foreign, sameId, gateway) ==
  [moves |-> n, up |-> devices # {}, devices |-> devices, neighbors |-> neighbors, foreign |-> foreign, sameId |-> sameId, gateway |-> gateway]
Wires(n) ==
  {Wire(n, {}, {}, FALSE, FALSE, FALSE), Wire(n, {"ps2"}, {}, FALSE, FALSE, FALSE),
   Wire(n, {"ps2"}, {Server}, FALSE, FALSE, FALSE), Wire(n, {"ps2"}, {Client}, FALSE, FALSE, FALSE),
   Wire(n, {"ps2"}, {[net |-> 2, host |-> 1]}, FALSE, FALSE, FALSE)}
  \cup {Wire(n, {"pc", "tv"}, {}, TRUE, lan[1], lan[2]) : lan \in BOOLEAN \X BOOLEAN}

-----------------------------------------------------------------------------
(* Moving out of a console's way.                                            *)

\* _free_host
FreeHost(net, avoid) == LET free == {h \in Hosts : [net |-> net, host |-> h] \notin avoid}
                        IN  IF free = {} THEN 0 ELSE CHOOSE h \in free : \A k \in free : h <= k

Plans(net, h1, h2) == IF h1 = 0 \/ h2 = 0 THEN {} ELSE {[server |-> [net |-> net, host |-> h1], client |-> [net |-> net, host |-> h2]]}

\* Mutant: the address in dispute is free again as soon as nobody is heard on it.
PlanRehomeBack(server, client, neighbors, present) ==
  LET same == {n \in neighbors : n.net = server.net}
      s == FreeHost(server.net, neighbors)
      taken == neighbors \cup {server, [net |-> server.net, host |-> s]}
  IN  IF same = {} \/ (present /\ server \notin neighbors) THEN {}
      ELSE Plans(server.net, s, IF client \in neighbors \/ client.host = s THEN FreeHost(server.net, taken) ELSE client.host)

\* plan_rehome: adopt the network of a device that is in another one, else step aside in our own.
PlanRehome(server, client, neighbors, present) ==
  LET off == {n \in neighbors : n.net # server.net}
      adopt == UNION {LET s == FreeHost(n.net, neighbors)
                      IN  Plans(n.net, s, FreeHost(n.net, neighbors \cup {[net |-> n.net, host |-> s]})) : n \in off}
      same == {n \in neighbors : n.net = server.net}
      s == FreeHost(server.net, neighbors \cup {server})
      taken == neighbors \cup {server, [net |-> server.net, host |-> s]}
  IN  IF adopt # {} THEN adopt
      ELSE IF same = {} \/ (present /\ server \notin neighbors) THEN {}
      ELSE Plans(server.net, s, IF client \in neighbors \/ client.host = s THEN FreeHost(server.net, taken) ELSE client.host)

\* interface_neighbors: known on Windows only, without our own address while we hold it.
Neighbors(present) == IF helper.os = "unix" THEN {} ELSE wire.neighbors \ (IF present THEN {Server} ELSE {})

\* _plan_rehome_now
PlanNow(present) == IF wire.up THEN PlanRehome(Server, Client, Neighbors(present), present) ELSE {}

-----------------------------------------------------------------------------
(* The process.                                                              *)

\* The way out: run_responder's exit codes, after the finally clause of _run_responder_unix.
Exit(h, code) == [h EXCEPT !.pc = IF h.configured THEN "restoring" ELSE "exited", !.code = code]
AskRehome(h, plan, present) == [Exit(h, "rehome") EXCEPT !.plan = plan, !.among = Neighbors(present)]

\* classify_adapter, for a port that may be down
Classify(w) == ~w.gateway

\* _startup_adapter_check, _verify_unix_adapter
Verify ==
  /\ helper.pc = "verify"
  /\ helper' = IF ~Classify(wire) \/ (helper.os = "windows" /\ ~heldIp) THEN Exit(helper, "refused")
               ELSE [helper EXCEPT !.pc = IF helper.os = "unix" THEN "configure" ELSE "binding"]
  /\ UNCHANGED <<wire, heldIp>>

\* apply_local_ip: the command that adds the address, or a refusal.
ApplyLocalIp ==
  /\ helper.pc = "configure"
  /\ \/ helper' = [helper EXCEPT !.pc = "applied"] /\ heldIp' = TRUE
     \/ helper' = Exit(helper, "refused") /\ UNCHANGED heldIp
  /\ UNCHANGED wire

\* configured = True
Configured ==
  /\ helper.pc = "applied"
  /\ helper' = [helper EXCEPT !.pc = "binding", !.configured = TRUE]
  /\ UNCHANGED <<wire, heldIp>>

\* One round of open_socket: bound, refused (port 67 is taken), or the address is not ready: after two
\* rounds a console in the way is looked for, then the stop requests, then another round.
OpenSocket ==
  /\ helper.pc = "binding"
  /\ \/ heldIp /\ (helper' = [helper EXCEPT !.pc = "probing"] \/ helper' = Exit(helper, "refused"))
     \/ /\ ~heldIp
        /\ LET h == [helper EXCEPT !.waits = IF @ < 2 THEN @ + 1 ELSE @]
               plans == IF h.waits >= 2 THEN PlanNow(FALSE) ELSE {}
           IN  IF plans # {} THEN \E p \in plans : helper' = AskRehome(h, p, FALSE)
               ELSE helper' = IF h.stop THEN Exit(h, "stopped") ELSE h
  /\ UNCHANGED <<wire, heldIp>>

\* _foreign_offer_server_id: any answer to the probe counts.
Hears(w) == w.foreign

\* probe_for_foreign_dhcp_server and check_for_foreign_dhcp_server; a probe that cannot be sent lets pass.
Probe(h, next) ==
  \/ helper' = IF Hears(wire) THEN Exit(h, "refused") ELSE [h EXCEPT !.pc = next, !.probed = TRUE]
  \/ "port68" \in HelperRisks /\ helper' = [h EXCEPT !.pc = next]

FirstProbe ==
  /\ helper.pc = "probing"
  /\ Probe(helper, "serving")
  /\ UNCHANGED <<wire, heldIp>>

-----------------------------------------------------------------------------
(* serve_forever.                                                            *)

\* The head of the loop: a stop file, or the launcher is gone.
StopCheck ==
  /\ helper.pc = "serving"
  /\ helper' = IF helper.stop THEN Exit(helper, "stopped") ELSE [helper EXCEPT !.pc = "checked"]
  /\ UNCHANGED <<wire, heldIp>>

\* The address is checked, or the time to look at the wire has come.
Recheck ==
  /\ helper.pc = "checked"
  /\ \E present \in {TRUE, heldIp} :
       LET plans == PlanNow(present)
       IN  IF plans # {} THEN \E p \in plans : helper' = AskRehome(helper, p, present)
           ELSE helper' = IF present \/ ~wire.up THEN [helper EXCEPT !.pc = "serving"] ELSE Exit(helper, "refused")
  /\ UNCHANGED <<wire, heldIp>>

Reprobe ==
  /\ helper.pc = "checked"
  /\ Probe(helper, "serving")
  /\ UNCHANGED <<wire, heldIp>>

\* _track_mac, and what is left of handle_packet: [h: the process, reply: it answered]
HandlePacket(h, mac, type, ours) ==
  LET seen == [h EXCEPT !.macs = @ \cup {mac}]
      spent == [seen EXCEPT !.tokens = @ - 1]
      silent(x) == [h |-> x, reply |-> FALSE]
  IN  CASE Cardinality(seen.macs) > 1 -> silent(Exit(seen, "refused"))
        [] Cardinality(seen.macs) <= 1 /\ type = "DECLINE" -> silent([seen EXCEPT !.lease = "none"])
        [] Cardinality(seen.macs) <= 1 /\ type = "RELEASE" -> silent([seen EXCEPT !.lease = IF mac = @ THEN "none" ELSE @])
        [] Cardinality(seen.macs) <= 1 /\ type = "INFORM" -> silent(seen)
        [] OTHER -> IF seen.tokens = 0 THEN silent(seen)
                    ELSE IF type = "REQUEST" /\ ~ours THEN silent(spent)
                    ELSE [h |-> [spent EXCEPT !.lease = mac], reply |-> TRUE]

\* A packet of a device on the cable, or of the helper's own probe; or a timeout.
Receive ==
  /\ helper.pc = "checked"
  /\ LET back == [helper EXCEPT !.pc = "serving"]
     IN  \/ helper' = back
         \/ \E mac \in wire.devices, type \in {"DISCOVER", "REQUEST", "DECLINE", "RELEASE", "INFORM"}, ours \in BOOLEAN :
              LET r == HandlePacket(back, mac, type, ours)
              IN  helper' = IF r.reply THEN [r.h EXCEPT !.answered = @ \cup {mac}, !.onLan = @ \/ (wire.foreign /\ helper.probed)] ELSE r.h
  /\ UNCHANGED <<wire, heldIp>>

\* restore_local_ip
RestoreLocalIp ==
  /\ helper.pc = "restoring"
  /\ helper' = [helper EXCEPT !.pc = "exited"] /\ heldIp' = FALSE
  /\ UNCHANGED wire

HelperStep ==
  Verify \/ ApplyLocalIp \/ Configured \/ OpenSocket \/ FirstProbe \/ StopCheck \/ Recheck \/ Reprobe \/ Receive \/ RestoreLocalIp

-----------------------------------------------------------------------------
(* The world.                                                                *)

\* The launcher writes the stop file, or is gone.
AskToStop ==
  /\ helper.os = "unix" /\ ~helper.stop
  /\ helper' = [helper EXCEPT !.stop = TRUE]
  /\ UNCHANGED <<wire, heldIp>>

\* SIGTERM and SIGHUP become _StopResponder, wherever the process is; before configured = True
\* the finally clause restores nothing.
Signal ==
  /\ helper.os = "unix"
  /\ helper.pc \in {"binding", "probing", "serving", "checked"} \cup (IF "early" \in HelperRisks THEN {"applied"} ELSE {})
  /\ helper' = Exit(helper, "stopped")
  /\ UNCHANGED <<wire, heldIp>>

\* The cable is pulled or plugged into something else.
CableMoves ==
  /\ wire.moves < MaxMoves
  /\ wire' \in Wires(wire.moves + 1)
  /\ helper' = [helper EXCEPT !.probed = FALSE]
  /\ UNCHANGED heldIp

\* Windows parks the address while the link is down, and takes it away when a device answers for it.
\* On Unix the network manager may flush it.
SystemMinds ==
  /\ heldIp' = (helper.os = "windows" /\ wire.up /\ Server \notin wire.neighbors) /\ heldIp' # heldIp
  /\ helper.os = "unix" => helper.configured
  /\ UNCHANGED <<helper, wire>>

\* The token bucket fills.
Refill ==
  /\ helper.tokens < REPLY_BURST
  /\ helper' = [helper EXCEPT !.tokens = @ + 1]
  /\ UNCHANGED <<wire, heldIp>>

HelperInit ==
  /\ \E os \in HelperOS :
       /\ helper = [os |-> os, pc |-> "verify", code |-> "none", configured |-> FALSE, waits |-> 0, stop |-> FALSE, macs |-> {},
                    lease |-> "none", tokens |-> REPLY_BURST, plan |-> [server |-> Server, client |-> Client], among |-> {},
                    probed |-> FALSE, answered |-> {}, onLan |-> FALSE]
       /\ heldIp = (os = "windows")
  /\ wire \in Wires(0)

HelperNext == HelperStep \/ AskToStop \/ Signal \/ CableMoves \/ SystemMinds \/ Refill

HelperSpec == HelperInit /\ [][HelperNext]_helperVars

-----------------------------------------------------------------------------
(* Properties.                                                              *)

\* "so a real network is never disrupted": on a network with a DHCP server nobody is answered
\* unless the cable was moved there after the last probe, and never more than one device.
LanLeftAlone == ~helper.onLan /\ Cardinality(helper.answered) <= 1

\* plan_rehome: the PC moves to an address no device was heard on, keeps another for the client,
\* and once there it stays: with the same devices around there is no further plan.
RehomeSettles ==
  helper.code = "rehome" =>
    LET p == helper.plan
    IN  /\ p.server \notin helper.among /\ p.client \notin helper.among /\ p.server # p.client /\ p.server.net = p.client.net
        /\ p.server # Server
        /\ PlanRehome(p.server, p.client, helper.among, TRUE) = {}

\* The finally clause of _run_responder_unix: however the helper ends, the port is as it was.
UnixPortRestored == helper.os = "unix" /\ helper.pc = "exited" => ~heldIp

\* The helper leaves networks as it found them: no answer on somebody's LAN, a move to a free
\* address that does not move on, and its address gone from the port with it.
LinkLeftClean == LanLeftAlone /\ RehomeSettles /\ UnixPortRestored

=============================================================================
