------------------------------- MODULE MCBootTask -------------------------------
(***************************************************************************)
(* Instances of BootTask for TLC.                                          *)
(***************************************************************************)
EXTENDS BootTask

Default ==
  [interface |-> NoName, mac |-> FALSE, no_ip |-> FALSE, static |-> FALSE,
   config |-> "remote", media |-> FALSE, net_debug |-> FALSE]

\* The options that lead to the search for an interface.
SearchOptions ==
  {Default, [Default EXCEPT !.config = "local", !.media = TRUE],
   [Default EXCEPT !.interface = 1]}

OtherOptions ==
  {[Default EXCEPT !.net_debug = TRUE],
   [Default EXCEPT !.mac = TRUE],
   [Default EXCEPT !.static = TRUE],
   [Default EXCEPT !.static = TRUE, !.interface = 0, !.media = TRUE],
   [Default EXCEPT !.no_ip = TRUE, !.config = "none"],
   [Default EXCEPT !.no_ip = TRUE]}

DefaultOnly == {Default}
AllOptions == SearchOptions \cup OtherOptions

Net(carrier, dhcp, reach) == [carrier |-> carrier, dhcp |-> dhcp, reach |-> reach]

\* No link on one interface, a link without a way to Contractor, a link without
\* a DHCP server, nothing at all.
SomeNetworks ==
  {Net({0, 1, 2}, {0, 1, 2}, {1}), Net({1, 2}, {1, 2}, {2}),
   Net({0, 1, 2}, {1, 2}, {1, 2}), Net({}, {}, {}),
   Net({0, 1, 2}, {0, 1, 2}, {1, 2})}
=============================================================================
