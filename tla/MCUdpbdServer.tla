--------------------------- MODULE MCUdpbdServer ---------------------------
(* Instances of UdpbdServer for TLC.                                        *)
EXTENDS UdpbdServer, TLC

\* The consoles are interchangeable.
ConsoleSymmetry == Permutations(Clients)
=============================================================================
