------------------------------- MODULE MCEreports -------------------------------
(* Instances of Ereports and ErrorMap for TLC.                              *)
EXTENDS ErrorMap

MCFields == {"path", "offset"}

Full(c) == [class |-> c, rows |-> MCFields]
Bare(c) == [class |-> c, rows |-> {}]

\* Events of interest only: what is shown, and when.
KeptOnly == {Full("io")}
\* What a reader may meet: rows missing, classes dropped, a broken line.
Few == {Full("checksum"), Bare("io"), Full("other"), Bare("garbled")}
Mixed == Few \cup {Bare("none")}

\* The third device never reports; one path is not that of a device.
MCDevices == <<"sda", "sdb", "sdc">>
MCPathOf == [b \in Blocks |-> CASE b % 3 = 1 -> "sdb" [] b % 3 = 2 -> "sda" [] OTHER -> "/dev/sda"]
\* The first and the last offset of a word, and one between them.
MCOffsetOf == [b \in Blocks |-> CASE b % 3 = 1 -> 0 [] b % 3 = 2 -> WordMax [] OTHER -> 2]
MCColumns == {0, 3}
MCWidths == {0, 6, 7, 27, 28, 43, 44, 69, 70, 79, 80, 120}
=================================================================================
