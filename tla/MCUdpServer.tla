---------------------------- MODULE MCUdpServer ----------------------------
(***************************************************************************)
(* UdpServer on a small instance: a join that just fits the read buffer,   *)
(* and one that does not.                                                  *)
(***************************************************************************)
EXTENDS UdpServer

CONSTANTS ana, ben

TwoClients == {ana, ben}
OneClient  == {ana}
Sizes      == [c \in TwoClients |-> IF c = ana THEN 2044 ELSE 2045]
OneSize    == [c \in OneClient |-> 2044]
=============================================================================
