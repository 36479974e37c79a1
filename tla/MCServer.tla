------------------------------ MODULE MCServer ------------------------------
(* Small instances of module Server.  Summaries and the shutdown of the    *)
(* producers multiply each other's states and share only the clock, so a   *)
(* Tor server, with users or anonymous, runs without the summary and a     *)
(* server in front of an upstream proxy runs with it.                      *)
EXTENDS Server

TorWithUsers == [egress : {"tor"}, auth : {TRUE}, summary : {FALSE}]
AllModes ==
    [egress : {"tor"}, auth : BOOLEAN, summary : {FALSE}] \cup [egress : {"upstream"}, auth : BOOLEAN, summary : {TRUE}]

=============================================================================
