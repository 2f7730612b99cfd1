------------------------- MODULE MCCodeIntelDaemon -------------------------
(* One session of the server CLI and clients; daemons that crash or are          *)
(* signalled from outside and whose pids are given away; tools of another        *)
(* protocol version, and of the first one again.                                  *)
EXTENDS CodeIntelDaemon

MCPids == 1..2
One == <<1>>
ThereAndBack == <<1, 2, 1>>
=============================================================================
