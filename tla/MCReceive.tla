------------------------------ MODULE MCReceive ------------------------------
(* Instances of the receive half.  Safety: two services and two tunnels, so  *)
(* that a capability could go astray and a session could inherit the files   *)
(* of the one before; three operation identifiers, so that they wrap within  *)
(* a session.  Files: one tunnel of two files, so that a snapshot can be     *)
(* mixed and one download can follow another.                                *)
EXTENDS Receive

CONSTANTS o1, o2, t1, t2

WideStartFrom == {"idle", "complete", "failed_without_session"}
WideRefreshFrom == {"pairing", "transferring", "failed_with_session"}
NarrowStartFrom == {"idle", "complete"}
NarrowRefreshFrom == {"pairing", "transferring"}
TwoOrigins == {o1, o2}
OneOrigin == {o1}
TwoTunnels == {t1, t2}
OneTunnel == {t1}
OneSlot == {1}
TwoSlots == {1, 2}
=============================================================================
