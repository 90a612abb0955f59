---------------------------- MODULE MCMgmtSocket ----------------------------
(* An instance of MgmtSocket for TLC. *)
EXTENDS MgmtSocket

CONSTANTS c1, c2

MCClients == {c1, c2}

\* The first pid is used again.
MCRuns == [c \in MCClients |-> IF c = c1 THEN 2 ELSE 1]

\* It asks for two different things; the other one asks the program to stop.
MCCmd == [r \in Requests |-> IF r[1] = c2 THEN "shutdown"
                             ELSE IF r[2] = 1 THEN "ping" ELSE "metrics"]
=============================================================================
