------------------------------- MODULE MCWire -------------------------------
(* Every kind of command, with the slots, addresses and data at which a     *)
(* packed parameter could run into its neighbour.                           *)
EXTENDS Wire

MCRequests ==
  {[op |-> "info"], [op |-> "random"],
   [op |-> "lock", what |-> "config", slot |-> 0], [op |-> "lock", what |-> "data", slot |-> 0],
   [op |-> "verify", sig |-> Data(64, 7), pub |-> Data(64, 200)]}
  \cup [op : {"lock"}, what : {"slot"}, slot : 0..15]
  \cup [op : {"read"}, zone : {"config", "otp", "data"}, addr : {0, 21, 255, 888}, block : BOOLEAN]
  \cup [op : {"write"}, zone : {"config", "data"}, addr : {2, 888}, data : {Data(4, 1), Data(32, 9)}]
  \cup [op : {"genkey"}, new : BOOLEAN, slot : {0, 15}]
  \cup [op : {"sign"}, slot : {0, 15}]
  \cup [op : {"load"}, data : {Data(20, 5), Data(32, 5), Data(64, 5)}]
  \cup [op : {"extra"}, byte : {"UserExtra", "UserExtraAdd"}, value : {0, 255}]

MCFills == {0, 90}
MCStatuses == {15}
\* The last of these is not noticed across the border of an info command.
MCBursts == {<<1, 0>>, <<128, 1>>, <<0, 128>>, <<255, 255>>, <<5, 128>>, <<12, 160>>}
MCSizes == {0, 1, 3, 4, 7, 35, 255}
=============================================================================
