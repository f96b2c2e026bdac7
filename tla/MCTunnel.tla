------------------------------ MODULE MCTunnel ------------------------------
(* Model of Tunnel for TLC, with the bounds of MCRelay.                   *)
EXTENDS TunnelProofs

MCMaxBytes == 2
MCBufSize == 2
=============================================================================
