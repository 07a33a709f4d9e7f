------------------------------- MODULE MCConfig -------------------------------
(***************************************************************************)
(* Config with one template: a in its first version, b in its second, and  *)
(* there a once more when Contractor has values.                           *)
(***************************************************************************)
EXTENDS Config

CONSTANTS hosts, a, b

ProducesValue ==
  [p \in Templates |-> [v \in Versions |-> [x \in Values |->
     IF v = 0 THEN {a} ELSE IF x = 0 THEN {b} ELSE {a, b}]]]

Plain == [force |-> FALSE, dry_run |-> FALSE, no_backups |-> FALSE,
          re_generate |-> FALSE, dest_rootdir |-> FALSE]

\* config -c, -c -f, -c -n -f, -d and what the installer does
CallsValue ==
  {Plain,
   [Plain EXCEPT !.force = TRUE],
   [Plain EXCEPT !.force = TRUE, !.dry_run = TRUE],
   [Plain EXCEPT !.force = TRUE, !.no_backups = TRUE, !.re_generate = TRUE, !.dest_rootdir = TRUE],
   [Plain EXCEPT !.force = TRUE, !.no_backups = TRUE, !.re_generate = TRUE]}
===============================================================================
