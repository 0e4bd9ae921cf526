------------------------------ MODULE MCSetup -------------------------------
(* A host with one terminal, two process numbers and two ports.             *)
EXTENDS Setup, TLC

CONSTANTS w

MCClients == {w}
MCPids == 1..2

=============================================================================
