---------------------------- MODULE MCUdpfsFiles ----------------------------
(* Instances of UdpfsFiles for TLC.                                         *)
EXTENDS UdpfsFiles, TLC

\* The consoles are interchangeable.
ConsoleSymmetry == Permutations(Clients)
=============================================================================
