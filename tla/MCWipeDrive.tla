------------------------------ MODULE MCWipeDrive ------------------------------
(***************************************************************************)
(* Instances of WipeDrive for TLC.                                         *)
(***************************************************************************)
EXTENDS WipeDrive

CONSTANTS tool, other

Drive(proto, trim, ws, hasSct, phys) ==
  [proto |-> proto, trim |-> trim, ws |-> ws, sct |-> hasSct, smart |-> trim, phys |-> phys]

\* Drives that can do all, drives that can do a part, physical sectors of two.
SomeDrives ==
  {Drive("ATA", TRUE, TRUE, TRUE, 1), Drive("ATA", TRUE, FALSE, TRUE, 2),
   Drive("ATA", FALSE, TRUE, TRUE, 1), Drive("ATA", FALSE, TRUE, FALSE, 1),
   Drive("SCSI", TRUE, TRUE, FALSE, 1),
   Drive("SCSI", FALSE, FALSE, FALSE, 1)}
ScsiDrive == {Drive("SCSI", FALSE, TRUE, FALSE, 1)}

Areas == {Ask(0, 0), Ask(1, 0), Ask(2, 2), Ask(0, 5), Ask(3, 9), Ask(8, 0), Ask(7, 0), Ask(6, 0)}
Chunked == {[a EXCEPT !.chunk = c] : a \in {Ask(0, 0), Ask(1, 5), Ask(3, 9)}, c \in {2, 3}}
Wipes ==
  Areas \cup Chunked \cup {[a EXCEPT !.trim = TRUE] : a \in Areas \cup Chunked}
    \cup {[Ask(0, 0) EXCEPT !.zero = TRUE], [Ask(0, 3) EXCEPT !.wait = FALSE]}
Others ==
  {[Ask(0, 0) EXCEPT !.op = o] : o \in {"status", "cancel", "check"}}
    \cup {Ask(0, 3), [Ask(2, 2) EXCEPT !.trim = TRUE],
          [Ask(0, 0) EXCEPT !.op = "cancel", !.trim = TRUE]}

SomeJobs == [p \in Procs |-> IF p = tool THEN Wipes ELSE Others]
\* What the disk wipe of boot sectors asks for.
BootSector == [p \in Procs |-> {Ask(0, 1)}]
=============================================================================
