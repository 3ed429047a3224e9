------------------------------- MODULE MCKit -------------------------------
(* A command whose request takes three packets, with a short answer, and   *)
(* one the other way round; boards with the wanted device, and others      *)
(* before it, or without it.                                               *)
EXTENDS Kit

MCOps == {"Write", "GenKey"}
MCPackets == [o \in MCOps |-> IF o = "Write" THEN 3 ELSE 1]
MCReports == [o \in MCOps |-> IF o = "GenKey" THEN 3 ELSE 1]

\* A device of another type, one on an interface the driver does not know, and
\* the device it drives.
Foreign == [id |-> "ATSHA204A", iface |-> "TWI", address |-> 3]
Strange == [id |-> "ECC608A", iface |-> "UART", address |-> 2]
Ecc(iface, address) == [id |-> "ECC608A", iface |-> iface, address |-> address]

Board(d0, d1, d2) ==
  [i \in Indexes |-> CASE i = 0 -> d0 [] i = 1 -> d1 [] i = 2 -> d2 [] OTHER -> NoDevice]

MCBoards ==
  {Board(NoDevice, Ecc("SWI", 1), Ecc("TWI", 2)), Board(Foreign, Ecc("TWI", 2), NoDevice),
   Board(Ecc("TWI", 1), Strange, Ecc("TWI", 2))}
MCConfigs == [devIndex : {0, 2}, devIdentity : {0, 2}, kitType : {"auto", "i2c"}]

MCOneBoard == {Board(Ecc("TWI", 1), NoDevice, NoDevice)}
MCDefaultConfig == {[devIndex |-> 0, devIdentity |-> 0, kitType |-> "auto"]}
=============================================================================
