------------------------------- MODULE Tunnel -------------------------------
(***************************************************************************)
(* DialAndRun of src/tunnel/tunnel.go (lines 41-54) composed with the      *)
(* relay.  DialAndRun marshals the appInfo map and asks the fabric         *)
(* provider to tunnel the accepted client connection; on failure it       *)
(* closes the client connection.  On success the provider dials the       *)
(* circuit and runs the relay (Run) on the pair.  The provider is outside  *)
(* src/ and is modelled from spec.md section 4.2: it either fails without *)
(* leaving a circuit open, or hands both connections to Run.  While the   *)
(* dial is in progress the client's remote end may already send, close or *)
(* reset; the circuit's remote end exists only once the dial succeeded.   *)
(***************************************************************************)
EXTENDS Relay

VARIABLE phase   \* "marshal", "tunnel", "relay" or "failed"

tvars == <<vars, phase>>

TInit == Init /\ phase = "marshal"

(* json.Marshal of a map[string]string (line 43) cannot fail: strings are *)
(* always encodable, so the error branch of lines 44-48 is never taken.   *)
DialAndRunMarshal ==
    /\ phase = "marshal"
    /\ phase' = "tunnel"
    /\ UNCHANGED vars

\* Mutant of DialAndRunTunnelFailed: the client connection is not closed
\* when the tunnel fails.
DialAndRunTunnelFailedNoClose ==
    /\ phase = "tunnel"
    /\ phase' = "failed"
    /\ UNCHANGED vars

\* TunnelService returns an error (line 50): DialAndRun closes the client
\* connection (line 52); no relay is started.
DialAndRunTunnelFailed ==
    /\ phase = "tunnel"
    /\ closed' = [closed EXCEPT ![Client] = TRUE]
    /\ phase' = "failed"
    /\ UNCHANGED <<config, wclosed, delivered, peer, pump, run>>

\* The provider dials the circuit and hands both connections to Run.
TunnelServiceRun ==
    /\ phase = "tunnel"
    /\ phase' = "relay"
    /\ UNCHANGED vars

\* The relay's own steps, and the circuit's remote end, once the circuit
\* exists.
RelayStep ==
    /\ phase = "relay"
    /\ \/ \E c \in Conns : myCopy(c)
       \/ RunClose
       \/ Peer(Circuit)
    /\ UNCHANGED phase

\* The client's remote end acts in every phase.
ClientPeer ==
    /\ Peer(Client)
    /\ UNCHANGED phase

\* DialAndRun returned after a failed dial, or the relay ended.
TTerminated ==
    /\ \/ phase = "failed"
       \/ phase = "relay" /\ rpc = "done" /\ \A c \in Conns : pc[c] = "done"
    /\ UNCHANGED tvars

TNext ==
    \/ DialAndRunMarshal
    \/ DialAndRunTunnelFailed
    \/ TunnelServiceRun
    \/ RelayStep
    \/ ClientPeer
    \/ TTerminated

\* DialAndRun runs on one goroutine per accepted connection, and the
\* provider is required to return (spec.md section 6): weak fairness for
\* both of its steps, and for the relay's goroutines as in Relay.
TFairness ==
    /\ WF_tvars(DialAndRunMarshal)
    /\ WF_tvars(DialAndRunTunnelFailed \/ TunnelServiceRun)
    /\ \A c \in Conns : WF_tvars(phase = "relay" /\ myCopy(c) /\ UNCHANGED phase)
    /\ WF_tvars(phase = "relay" /\ RunClose /\ UNCHANGED phase)

TSpec == TInit /\ [][TNext]_tvars /\ TFairness

-----------------------------------------------------------------------------
TTypeOK ==
    /\ TypeOK
    /\ phase \in {"marshal", "tunnel", "relay", "failed"}

(* No leaked client connection: whether the dial fails or the relay runs, *)
(* the accepted client connection is eventually closed by our side, as    *)
(* long as, once relaying, both remote ends eventually stop.              *)
ClientReleased ==
    (\A c \in Conns : <>(PeerEnds(c) \/ phase = "failed")) => <>closed[Client]
=============================================================================
