---------------------------- MODULE MCDeviceGroups ----------------------------
(* Two groups of devices, and the lists an operator may pass.                *)
EXTENDS DeviceGroups

Straight == << [t \in Types |-> <<1, t>>], [t \in Types |-> <<2, t>>] >>
Swapped  == << Straight[2], Straight[1] >>
Short    == << Straight[1] >>
Crossed  == << [Straight[1] EXCEPT !["wal"] = <<2, "wal">>],
               [Straight[2] EXCEPT !["wal"] = <<1, "wal">>] >>
Mistaken == << [Straight[1] EXCEPT !["wal"] = <<1, "data">>, !["data"] = <<1, "wal">>],
               Straight[2] >>

AllLists == {Straight, Swapped, Short, Crossed, Mistaken}
NewOnes  == {Straight, Short}

==============================================================================
