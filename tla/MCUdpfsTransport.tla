-------------------------- MODULE MCUdpfsTransport --------------------------
(* Instances of UdpfsTransport for TLC.                                     *)
EXTENDS UdpfsTransport

NoStarts == {}
\* Both rings wrap within the run; and a place away from the wrap.
WrapStarts == {<<14, 14>>}
MidStarts == {<<5, 9>>}
=============================================================================
