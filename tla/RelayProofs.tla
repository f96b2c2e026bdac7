---------------------------- MODULE RelayProofs ----------------------------
(***************************************************************************)
(* Proofs about the relay of Relay.tla for every value of the constants:   *)
(* type correctness, the accuracy of the summary counts, and that with    *)
(* half-close no byte is lost.                                            *)
(***************************************************************************)
EXTENDS Relay, TLAPS

\* A pump that has not yet delivered its count to Run.
Active(c) == pc[c] \in {"read", "write", "report"}

\* Run's loop counter is the number of pumps still to report, and Run
\* waits exactly while one is left.
CountInv ==
    /\ count = (IF Active(Client) THEN 1 ELSE 0) + (IF Active(Circuit) THEN 1 ELSE 0)
    /\ rpc = "wait" <=> count > 0

\* Byte accounting of pump c: every byte the remote end of c sent is
\* still buffered in c, held by the pump, or delivered to Other(c); the
\* pump's count is what it delivered; it holds nothing while reading.
FlowInv ==
    \A c \in Conns :
        /\ delivered[Other(c)] + buf[c] + inbuf[c] <= sent[c]
        /\ copied[c] = delivered[Other(c)]
        /\ pc[c] # "write" => buf[c] = 0

\* A count recorded by Run is the final count of its pump.
ReportInv ==
    /\ ~Active(DoneSendPump) => n1 = copied[DoneSendPump]
    /\ ~Active(Other(DoneSendPump)) => n2 = copied[Other(DoneSendPump)]

IInv == TypeOK /\ CountInv /\ FlowInv /\ ReportInv

\* The premise of NoDataLoss for the direction read from c.
Kept(c) == halfClose /\ closeWriter[c] /\ ~rst[c] /\ ~rst[Other(c)]

\* Under that premise pump c never fails: nothing of what the remote end of
\* c sent is dropped; once the pump stops reading it has seen EOF with
\* nothing left; c is fully closed only by Run's final close; and Other(c)
\* is closed or write-closed only after pump c has reported.
LossInv ==
    \A c \in Conns : Kept(c) =>
        /\ ~failed[c]
        /\ delivered[Other(c)] + buf[c] + inbuf[c] = sent[c]
        /\ pc[c] \in {"report", "close", "done"} => fin[c] /\ inbuf[c] = 0
        /\ closed[c] => rpc = "done"
        /\ closed[Other(c)] \/ wclosed[Other(c)] => ~Active(c)
-----------------------------------------------------------------------------
LEMMA OtherLemma ==
    ASSUME NEW c \in Conns
    PROVE  /\ Other(c) \in Conns
           /\ Other(c) # c
           /\ Other(Other(c)) = c
           /\ \A x \in Conns : x = c \/ x = Other(c)
BY ConnsAssumption DEF Other, Conns

LEMMA InitIInv == Init => IInv
<1> SUFFICES ASSUME Init PROVE IInv
    OBVIOUS
<1> USE ConnsAssumption, MaxBytesAssumption, BufSizeAssumption DEF Init
<1>1. TypeOK
    <2>1. 0 \in Bytes
        BY DEF Bytes
    <2>2. /\ closed \in [Conns -> BOOLEAN]
          /\ wclosed \in [Conns -> BOOLEAN]
          /\ fin \in [Conns -> BOOLEAN]
          /\ rst \in [Conns -> BOOLEAN]
          /\ failed \in [Conns -> BOOLEAN]
        OBVIOUS
    <2>3. /\ sent \in [Conns -> Bytes]
          /\ inbuf \in [Conns -> Bytes]
          /\ delivered \in [Conns -> Bytes]
          /\ copied \in [Conns -> Bytes]
          /\ n1 \in Bytes
          /\ n2 \in Bytes
        BY <2>1
    <2>4. /\ pc \in [Conns -> PumpPC]
          /\ buf \in [Conns -> 0..BufSize]
          /\ rpc \in RunPC
          /\ count \in 0..2
        BY DEF PumpPC, RunPC, LoopCount
    <2>5. QED
        BY <2>2, <2>3, <2>4 DEF TypeOK
<1>2. CountInv
    BY DEF CountInv, Active, Conns, LoopCount
<1>3. FlowInv
    BY DEF FlowInv, Conns, Other
<1>4. ReportInv
    <2>1. /\ ~Active(DoneSendPump) = FALSE
          /\ ~Active(Other(DoneSendPump)) = FALSE
        BY DEF Active, DoneSendPump, Conns, Other
    <2>2. QED
        BY <2>1 DEF ReportInv
<1>5. QED
    BY <1>1, <1>2, <1>3, <1>4 DEF IInv

\* Each step of Next preserves IInv: one step per action of Next.
LEMMA NextIInv == IInv /\ [Next]_vars => IInv'
<1> SUFFICES ASSUME IInv, [Next]_vars PROVE IInv'
    OBVIOUS
<1> USE ConnsAssumption, MaxBytesAssumption, BufSizeAssumption
<1> USE DEF IInv, TypeOK, CountInv, FlowInv, ReportInv, Active, Bytes,
            PumpPC, RunPC, Conns, Other, DoneSendPump
<1>1. ASSUME NEW c \in Conns, myCopyReadError(c) PROVE IInv'
    BY <1>1 DEF myCopyReadError, config, conn, peer, run
<1>2. ASSUME NEW c \in Conns, myCopyReadData(c) PROVE IInv'
    BY <1>2 DEF myCopyReadData, config, conn, run
<1>3. ASSUME NEW c \in Conns, myCopyReadEOF(c) PROVE IInv'
    BY <1>3 DEF myCopyReadEOF, config, conn, peer, run
<1>4. ASSUME NEW c \in Conns, myCopyWriteError(c) PROVE IInv'
    BY <1>4 DEF myCopyWriteError, config, conn, peer, run
<1>5. ASSUME NEW c \in Conns, myCopyWriteOK(c) PROVE IInv'
    BY <1>5 DEF myCopyWriteOK, config, peer, run
<1>6. ASSUME NEW c \in Conns, myCopyReport(c) PROVE IInv'
    BY <1>6 DEF myCopyReport, config, conn, peer
<1>7. ASSUME NEW c \in Conns, myCopyClose(c) PROVE IInv'
    <2>1. /\ pc[c] = "close" /\ pc' = [pc EXCEPT ![c] = "done"]
          /\ closed' \in [Conns -> BOOLEAN] /\ wclosed' \in [Conns -> BOOLEAN]
          /\ UNCHANGED <<halfClose, closeWriter, delivered, buf, copied, failed>>
          /\ UNCHANGED <<sent, inbuf, fin, rst, rpc, count, n1, n2>>
        BY <1>7 DEF myCopyClose, config, peer, run
    <2>2. \A x \in Conns : Active(x)' = Active(x)
        BY <2>1
    <2>3. TypeOK'
        BY <2>1
    <2>4. CountInv'
        BY <2>1, <2>2
    <2>5. FlowInv'
        BY <2>1
    <2>6. ReportInv'
        BY <2>1, <2>2
    <2>7. QED
        BY <2>3, <2>4, <2>5, <2>6
<1>8. ASSUME NEW c \in Conns, Peer(c) PROVE IInv'
    <2>1. CASE PeerSend(c)
        BY <2>1 DEF PeerSend, config, conn, pump, run
    <2>2. CASE PeerCloseWrite(c)
        BY <2>2 DEF PeerCloseWrite, config, conn, pump, run
    <2>3. CASE PeerReset(c)
        BY <2>3 DEF PeerReset, config, conn, pump, run
    <2>4. QED
        BY <1>8, <2>1, <2>2, <2>3 DEF Peer
<1>9. CASE RunClose
    BY <1>9 DEF RunClose, config, peer, pump
<1>10. CASE Terminated \/ UNCHANGED vars
    BY <1>10 DEF Terminated, vars, config, conn, peer, pump, run
<1>11. QED
    BY <1>1, <1>2, <1>3, <1>4, <1>5, <1>6, <1>7, <1>8, <1>9, <1>10
    DEF Next, myCopy

(* Type correctness of the relay: every variable keeps its type in every *)
(* reachable state, in particular no byte count of myCopy or of Run's    *)
(* summary exceeds what the remote ends sent.                            *)
THEOREM TypeCorrect == Spec => []TypeOK
<1>1. Init => IInv
    BY InitIInv
<1>2. IInv /\ [Next]_vars => IInv'
    BY NextIInv
<1>3. IInv => TypeOK
    BY DEF IInv
<1>4. QED
    BY <1>1, <1>2, <1>3, PTL DEF Spec

(* The summary line of Run reports as sent exactly the bytes written into *)
(* the circuit and as received exactly the bytes written into the client *)
(* connection, whichever pump finishes first.                            *)
THEOREM SummaryCorrect == Spec => []SummaryAccurate
<1>1. IInv => SummaryAccurate
    BY ConnsAssumption
    DEF IInv, TypeOK, CountInv, FlowInv, ReportInv, Active, SummaryAccurate,
        Conns, Other, DoneSendPump, PumpPC
<1>2. QED
    BY <1>1, InitIInv, NextIInv, PTL DEF Spec
-----------------------------------------------------------------------------
\* No step resets a broken connection or changes the configuration.
LEMMA KeptStable ==
    ASSUME NEW c \in Conns, TypeOK, [Next]_vars, Kept(c)'
    PROVE  Kept(c)
<1> USE ConnsAssumption DEF Kept, TypeOK, Conns, Other
<1>1. halfClose' = halfClose /\ closeWriter' = closeWriter
    BY DEF Next, myCopy, myCopyReadError, myCopyReadData, myCopyReadEOF,
           myCopyWriteError, myCopyWriteOK, myCopyReport, myCopyClose, RunClose,
           Peer, PeerSend, PeerCloseWrite, PeerReset, Terminated, vars, config
<1>2. \A x \in Conns : ~rst'[x] => ~rst[x]
    BY DEF Next, myCopy, myCopyReadError, myCopyReadData, myCopyReadEOF,
           myCopyWriteError, myCopyWriteOK, myCopyReport, myCopyClose, RunClose,
           Peer, PeerSend, PeerCloseWrite, PeerReset, Terminated, vars, peer
<1>3. QED
    BY <1>1, <1>2

LEMMA InitLossInv == Init => LossInv
BY ConnsAssumption DEF Init, LossInv, Kept, Conns, Other

\* Each step preserves LossInv, given IInv: one step per action of Next.
LEMMA NextLossInv == IInv /\ LossInv /\ [Next]_vars => LossInv'
<1> SUFFICES ASSUME IInv, LossInv, [Next]_vars,
                    NEW c \in Conns, Kept(c)'
             PROVE  /\ ~failed'[c]
                    /\ delivered'[Other(c)] + buf'[c] + inbuf'[c] = sent'[c]
                    /\ pc'[c] \in {"report", "close", "done"} => fin'[c] /\ inbuf'[c] = 0
                    /\ closed'[c] => rpc' = "done"
                    /\ closed'[Other(c)] \/ wclosed'[Other(c)] => ~Active(c)'
    BY DEF LossInv
<1>1. Kept(c)
    BY KeptStable DEF IInv
<1> USE ConnsAssumption, MaxBytesAssumption, BufSizeAssumption, <1>1
<1> USE DEF IInv, LossInv, Kept, TypeOK, CountInv, FlowInv, Active, Bytes,
            PumpPC, RunPC, Conns, Other
<1>2. CASE \E x \in Conns : myCopyReadError(x)
    BY <1>2 DEF myCopyReadError, config, conn, peer, run
<1>3. CASE \E x \in Conns : myCopyReadData(x)
    BY <1>3 DEF myCopyReadData, config, conn, run
<1>4. CASE \E x \in Conns : myCopyReadEOF(x)
    BY <1>4 DEF myCopyReadEOF, config, conn, peer, run
<1>5. CASE \E x \in Conns : myCopyWriteError(x)
    BY <1>5 DEF myCopyWriteError, config, conn, peer, run
<1>6. CASE \E x \in Conns : myCopyWriteOK(x)
    BY <1>6 DEF myCopyWriteOK, config, peer, run
<1>7. CASE \E x \in Conns : myCopyReport(x)
    BY <1>7 DEF myCopyReport, config, conn, peer
<1>8. CASE \E x \in Conns : myCopyClose(x)
    BY <1>8 DEF myCopyClose, HalfCloses, config, peer, run
<1>9. CASE \E x \in Conns : Peer(x)
    BY <1>9 DEF Peer, PeerSend, PeerCloseWrite, PeerReset, config, conn, pump, run
<1>10. CASE RunClose
    BY <1>10 DEF RunClose, config, peer, pump
<1>11. CASE Terminated \/ UNCHANGED vars
    BY <1>11 DEF Terminated, vars, config, conn, peer, pump, run
<1>12. QED
    BY <1>2, <1>3, <1>4, <1>5, <1>6, <1>7, <1>8, <1>9, <1>10, <1>11
    DEF Next, myCopy

\* The two invariants give NoDataLoss: a kept direction whose pump has
\* reported has seen EOF with nothing left in flight.
LEMMA LossImpliesNoDataLoss == IInv /\ LossInv => NoDataLoss
<1> SUFFICES ASSUME IInv, LossInv, rpc = "done", NEW c \in Conns, Kept(c)
             PROVE  delivered[Other(c)] = sent[c]
    BY DEF NoDataLoss, Kept
<1> USE ConnsAssumption DEF Conns, Other
<1>1. pc[c] \in {"close", "done"}
    BY DEF IInv, TypeOK, CountInv, Active, PumpPC
<1>2. fin[c] /\ inbuf[c] = 0 /\ buf[c] = 0
    BY <1>1 DEF IInv, LossInv, FlowInv
<1>3. QED
    BY <1>2 DEF IInv, LossInv, TypeOK, Bytes

(* No data loss under half-close: when halfClose is set and a connection *)
(* implements CloseWriter, and neither connection breaks, every byte its *)
(* remote end sent has been delivered to the other connection by the     *)
(* time Run returns.                                                      *)
THEOREM HalfCloseNoDataLoss == Spec => []NoDataLoss
BY LossImpliesNoDataLoss, InitIInv, NextIInv, InitLossInv, NextLossInv, PTL
DEF Spec

(* The relay's inductive invariant holds in every state: Run's loop       *)
(* counter counts the pumps that have not sent on doneSend/doneRecv,      *)
(* every byte sent is delivered, held in a pump's buffer or waiting in    *)
(* the connection, and a reported count is the pump's final one.          *)
THEOREM RelayInductive == Spec => []IInv
BY InitIInv, NextIInv, PTL DEF Spec

(* While halfClose holds on a CloseWriter connection that is not reset,   *)
(* its pump never fails, loses nothing, stops reading only at EOF with an *)
(* empty buffer, and the other connection is shut only after the pump's   *)
(* count was reported (the deferred close of myCopy, lines 119-137).      *)
THEOREM LossInductive == Spec => []LossInv
<1>1. Init => IInv /\ LossInv
    BY InitIInv, InitLossInv
<1>2. IInv /\ LossInv /\ [Next]_vars => IInv' /\ LossInv'
    BY NextIInv, NextLossInv
<1>3. QED
    BY <1>1, <1>2, PTL DEF Spec
=============================================================================
