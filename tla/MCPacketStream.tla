--------------------------- MODULE MCPacketStream ---------------------------
(* PacketStream with the values TLC runs, both directions in one run.        *)
EXTENDS PacketStream, TLC

CONSTANTS t1, t2

BothWays == {"toServer", "toClient"}
TwoThreads == {t1, t2}
SmallSizes == {2, 4}
=============================================================================
