------------------------------ MODULE Clients ------------------------------
(***************************************************************************)
(* The connection ids shared by the modules about peers.  server.ts draws  *)
(* one random UUID per WebSocket, so an id names one connection and is     *)
(* never used again.                                                       *)
(***************************************************************************)
EXTENDS Naturals, FiniteSets

CONSTANTS Client,    \* the connection ids
          NoClient   \* the absence of one

ASSUME ClientsAssumption == /\ IsFiniteSet(Client)
                            /\ NoClient \notin Client
=============================================================================
