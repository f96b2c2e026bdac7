---------------------------- MODULE TunnelProofs ----------------------------
(***************************************************************************)
(* TTypeOK and NoDataLoss of Tunnel, DialAndRun composed with the relay,   *)
(* for every MaxBytes and BufSize.  The relay's steps and the client's     *)
(* remote end are steps of Relay, so RelayProofs' invariants carry over;   *)
(* the dial's steps leave the relay alone except for the close of the      *)
(* client connection on a failed dial, after which Run never runs.        *)
(***************************************************************************)
EXTENDS Tunnel, RelayProofs

Phases == {"marshal", "tunnel", "relay", "failed"}

\* Run has not returned unless the provider handed it the connections,
\* and the half-close invariant holds unless the dial failed.
TInv ==
  /\ IInv
  /\ phase \in Phases
  /\ phase # "relay" => rpc = "wait"
  /\ phase # "failed" => LossInv

-----------------------------------------------------------------------------
LEMMA InitTInv == TInit => TInv
BY InitIInv, InitLossInv DEF TInit, TInv, Phases, Init

\* The relay's steps and the client's remote end are steps of Relay.
LEMMA RelayStepIsNext == RelayStep \/ ClientPeer => Next
BY DEF RelayStep, ClientPeer, Next, Conns

LEMMA NextTInv == TInv /\ [TNext]_tvars => TInv'
<1> SUFFICES ASSUME TInv, [TNext]_tvars PROVE TInv'
    OBVIOUS
<1>1. CASE RelayStep \/ ClientPeer
    <2>1. Next /\ phase' = phase
        BY <1>1, RelayStepIsNext DEF RelayStep, ClientPeer
    <2>2. IInv'
        BY <2>1, NextIInv DEF TInv
    <2>3. phase # "relay" => rpc' = rpc
        BY <1>1 DEF RelayStep, ClientPeer, Peer, PeerSend, PeerCloseWrite,
                    PeerReset, run
    <2>4. phase # "failed" => LossInv'
        BY <2>1, NextLossInv DEF TInv
    <2>5. QED
        BY <2>1, <2>2, <2>3, <2>4 DEF TInv
<1>2. CASE DialAndRunMarshal \/ TunnelServiceRun \/ TTerminated \/ UNCHANGED tvars
    <2>1. UNCHANGED vars /\ phase' \in Phases
        BY <1>2 DEF DialAndRunMarshal, TunnelServiceRun, TTerminated, tvars,
                    TInv, Phases
    <2>2. IInv' /\ LossInv' = LossInv
        BY <2>1, NextIInv DEF TInv, LossInv, Kept, Active, vars, config, conn,
                                peer, pump, run
    <2>3. \/ phase' = phase
          \/ phase = "marshal" /\ phase' = "tunnel"
          \/ phase = "tunnel" /\ phase' = "relay"
        BY <1>2 DEF DialAndRunMarshal, TunnelServiceRun, TTerminated, tvars
    <2>4. rpc' = rpc
        BY <2>1 DEF vars, run
    <2>5. QED
        BY <2>1, <2>2, <2>3, <2>4 DEF TInv
<1>3. CASE DialAndRunTunnelFailed
    <2>1. /\ closed' = [closed EXCEPT ![Client] = TRUE]
          /\ phase = "tunnel" /\ phase' = "failed"
          /\ UNCHANGED <<config, wclosed, delivered, peer, pump, run>>
        BY <1>3 DEF DialAndRunTunnelFailed
    <2>2. IInv'
        BY <2>1, ConnsAssumption
        DEF TInv, IInv, TypeOK, CountInv, FlowInv, ReportInv, Active, config,
            peer, pump, run, Conns
    <2>3. QED
        BY <2>1, <2>2 DEF TInv, Phases, run
<1>4. QED
    BY <1>1, <1>2, <1>3 DEF TNext

-----------------------------------------------------------------------------
(* Every variable of DialAndRun and of the relay keeps its type whatever   *)
(* the dial does: a failed dial's close of the client connection (line 52) *)
(* and the client's remote end acting during the dial break no count.     *)
THEOREM TunnelTypeCorrect == TSpec => []TTypeOK
<1>1. TInv => TTypeOK
    BY DEF TInv, IInv, TTypeOK, Phases
<1>2. QED
    BY <1>1, InitTInv, NextTInv, PTL DEF TSpec

(* No data loss under half-close holds for the relay DialAndRun starts:    *)
(* bytes the client sent while the circuit was being dialled are          *)
(* delivered too, and a failed dial never lets Run return.                 *)
THEOREM TunnelNoDataLoss == TSpec => []NoDataLoss
<1>1. TInv => NoDataLoss
    <2> SUFFICES ASSUME TInv PROVE NoDataLoss
        OBVIOUS
    <2>1. CASE phase = "failed"
        BY <2>1 DEF TInv, NoDataLoss
    <2>2. CASE phase # "failed"
        BY <2>2, LossImpliesNoDataLoss DEF TInv
    <2>3. QED
        BY <2>1, <2>2
<1>2. QED
    BY <1>1, InitTInv, NextTInv, PTL DEF TSpec


(* The dial-and-relay invariant holds in every reachable state, for every *)
(* bound: Run stays blocked until the provider hands it the connections   *)
(* (lines 47-53), and the relay's half-close invariant survives the dial. *)
THEOREM TunnelInductive == TSpec => []TInv
BY InitTInv, NextTInv, PTL DEF TSpec

=============================================================================
