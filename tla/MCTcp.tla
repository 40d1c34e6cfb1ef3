------------------------------- MODULE MCTcp -------------------------------
(* Instances of Tcp for TLC: a connection that carries data, and one that  *)
(* carries none, whose child meets an RST, a device that refuses frames    *)
(* and a second child.                                                     *)
EXTENDS Tcp

VARIABLE part       (* which of the two                                    *)

(* The connecting program sends two units, or none, and may half-close.    *)
NoUnits == [x \in Parties |-> 0]
TwoUnits == [x \in Parties |-> IF x = "cli" THEN 2 ELSE 0]
OneAttempt == [x \in Parties |-> IF x = "cli" THEN <<0>> ELSE <<8>>]
OneAttemptTwoChildren == [OneAttempt EXCEPT !["srv"] = <<8, 12>>]
HalfClose == {<<"cli", FALSE, TRUE, 1>>, <<"srv", TRUE, FALSE, 0>>}
QuietHalfClose == {<<"cli", FALSE, TRUE, 0>>, <<"srv", TRUE, FALSE, 0>>}

Quiet == INSTANCE Tcp WITH
    Units <- NoUnits, Isns <- OneAttemptTwoChildren, Resets <- {"srv"}, DeviceOk <- BOOLEAN,
    Shutdowns <- QuietHalfClose

PartInit == part \in {"data", "quiet"} /\ TcpInit
PartNext ==
    /\ \/ part = "data" /\ TcpNext
       \/ part = "quiet" /\ Quiet!TcpNext
    /\ UNCHANGED part
PartSpec == PartInit /\ [][PartNext]_<<tcp_vars, part>>

(* The first part alone.                                                   *)
DataSpec == part = "data" /\ TcpInit /\ [][PartNext]_<<tcp_vars, part>>
=============================================================================
