--------------------------- MODULE RelayRefinement ---------------------------
(***************************************************************************)
(* Relay implements RelayAbstract: the goroutines, buffers, channels and  *)
(* Run's counter are hidden, a direction copies while its pump reads or   *)
(* writes, has ended from the copy's return until its deferred close, and *)
(* is shut afterwards; Run's summary appears when Run returns.            *)
(***************************************************************************)
EXTENDS RelayProofs

\* The state of the direction read from c, seen from its myCopy goroutine.
DirOf ==
    [c \in Conns |-> IF pc[c] \in {"read", "write"} THEN "copy"
                     ELSE IF pc[c] = "done" THEN "shut" ELSE "ended"]

\* Run's summary line (line 116), once Run has returned.
SummaryOf == IF rpc = "done" THEN <<n1, n2>> ELSE <<>>

A == INSTANCE RelayAbstract WITH dir <- DirOf, summary <- SummaryOf

(* Run keeps every promise of RelayAbstract, fairness included: bytes are *)
(* forwarded, never invented; a copy that ends without an error has        *)
(* forwarded everything (myCopy, line 141); the deferred close follows the *)
(* halfClose policy (line 127); and Run returns, with the delivered counts, *)
(* only after both goroutines have reported (lines 107-116).               *)
AbstractSpec == A!ASpec

\* A pump that has not failed has dropped nothing: what its remote end sent
\* is buffered, held or delivered.
NoFailLoss ==
    \A c \in Conns :
        ~failed[c] => delivered[Other(c)] + buf[c] + inbuf[c] = sent[c]

\* A pump about to write holds at least one byte, and a pump still
\* copying has not failed.
CopyInv ==
    \A c \in Conns :
        /\ pc[c] = "write" => buf[c] > 0
        /\ pc[c] \in {"read", "write"} => ~failed[c]

RInv == IInv /\ NoFailLoss /\ CopyInv
-----------------------------------------------------------------------------
LEMMA InitRInv == Init => RInv
<1> SUFFICES ASSUME Init PROVE RInv
    OBVIOUS
<1>1. IInv
    BY InitIInv
<1>2. NoFailLoss /\ CopyInv
    BY ConnsAssumption DEF Init, NoFailLoss, CopyInv, Conns, Other
<1>3. QED
    BY <1>1, <1>2 DEF RInv

\* Each step preserves RInv: IInv by NextIInv, the rest one action at a time.
LEMMA NextRInv == RInv /\ [Next]_vars => RInv'
<1> SUFFICES ASSUME RInv, [Next]_vars PROVE RInv'
    OBVIOUS
<1>1. IInv'
    BY NextIInv DEF RInv
<1> USE ConnsAssumption, MaxBytesAssumption, BufSizeAssumption
<1> USE DEF RInv, IInv, TypeOK, FlowInv, NoFailLoss, CopyInv, Bytes, PumpPC,
            Conns, Other
<1>2. ASSUME NEW c \in Conns, myCopyReadError(c) PROVE (NoFailLoss /\ CopyInv)'
    BY <1>2 DEF myCopyReadError, config, conn, peer, run
<1>3. ASSUME NEW c \in Conns, myCopyReadData(c) PROVE (NoFailLoss /\ CopyInv)'
    BY <1>3 DEF myCopyReadData, config, conn, run
<1>4. ASSUME NEW c \in Conns, myCopyReadEOF(c) PROVE (NoFailLoss /\ CopyInv)'
    BY <1>4 DEF myCopyReadEOF, config, conn, peer, run
<1>5. ASSUME NEW c \in Conns, myCopyWriteError(c) PROVE (NoFailLoss /\ CopyInv)'
    BY <1>5 DEF myCopyWriteError, config, conn, peer, run
<1>6. ASSUME NEW c \in Conns, myCopyWriteOK(c) PROVE (NoFailLoss /\ CopyInv)'
    BY <1>6 DEF myCopyWriteOK, config, peer, run
<1>7. ASSUME NEW c \in Conns, myCopyReport(c) PROVE (NoFailLoss /\ CopyInv)'
    BY <1>7 DEF myCopyReport, config, conn, peer
<1>8. ASSUME NEW c \in Conns, myCopyClose(c) PROVE (NoFailLoss /\ CopyInv)'
    BY <1>8 DEF myCopyClose, config, peer, run
<1>9. ASSUME NEW c \in Conns, Peer(c) PROVE (NoFailLoss /\ CopyInv)'
    BY <1>9 DEF Peer, PeerSend, PeerCloseWrite, PeerReset, config, conn, pump, run
<1>10. ASSUME RunClose PROVE (NoFailLoss /\ CopyInv)'
    BY <1>10 DEF RunClose, config, peer, pump
<1>11. ASSUME Terminated \/ UNCHANGED vars PROVE (NoFailLoss /\ CopyInv)'
    BY <1>11 DEF Terminated, vars, config, conn, peer, pump, run
<1>12. (NoFailLoss /\ CopyInv)'
    BY <1>2, <1>3, <1>4, <1>5, <1>6, <1>7, <1>8, <1>9, <1>10, <1>11
    DEF Next, myCopy
<1>13. QED
    BY <1>1, <1>12

-----------------------------------------------------------------------------
\* The initial state of Run is the initial state of the abstract relay.
LEMMA InitRefines == Init => A!AInit
BY ConnsAssumption
DEF Init, A!AInit, DirOf, SummaryOf, Conns, A!Conns

\* Every step of Relay is a step of RelayAbstract or leaves its variables
\* unchanged: one step per action of Next, naming the abstract action.
LEMMA NextRefines == RInv /\ [Next]_vars => [A!ANext]_A!avars
<1> SUFFICES ASSUME RInv, [Next]_vars PROVE [A!ANext]_A!avars
    OBVIOUS
<1> USE ConnsAssumption, MaxBytesAssumption, BufSizeAssumption
<1> USE DEF RInv, IInv, TypeOK, FlowInv, NoFailLoss, CopyInv, Bytes, PumpPC,
            Conns, Other, A!Conns, A!Other, DirOf, SummaryOf, A!avars
<1>1. ASSUME NEW c \in Conns, myCopyReadError(c) PROVE A!EndError(c)
    BY <1>1 DEF myCopyReadError, A!EndError, A!Writable, config, conn, peer, run
<1>2. ASSUME NEW c \in Conns, myCopyReadData(c) PROVE UNCHANGED A!avars
    BY <1>2 DEF myCopyReadData, config, conn, run
<1>3. ASSUME NEW c \in Conns, myCopyReadEOF(c) PROVE A!EndClean(c)
    <2>1. delivered[Other(c)] = sent[c]
        <3>1. ~failed[c] /\ buf[c] = 0 /\ inbuf[c] = 0
            BY <1>3 DEF myCopyReadEOF
        <3>2. QED
            BY <3>1
    <2>2. DirOf[c] = "copy" /\ DirOf' = [DirOf EXCEPT ![c] = "ended"]
        BY <1>3 DEF myCopyReadEOF
    <2>3. QED
        BY <1>3, <2>1, <2>2 DEF myCopyReadEOF, A!EndClean, config, conn, peer, run
<1>4. ASSUME NEW c \in Conns, myCopyWriteError(c) PROVE A!EndError(c)
    <2>1. delivered[Other(c)] < sent[c]
        <3>1. buf[c] > 0 /\ delivered[Other(c)] + buf[c] + inbuf[c] <= sent[c]
            BY <1>4 DEF myCopyWriteError
        <3>2. QED
            BY <3>1
    <2>2. DirOf[c] = "copy" /\ DirOf' = [DirOf EXCEPT ![c] = "ended"]
        BY <1>4 DEF myCopyWriteError
    <2>3. ~A!Writable(Other(c))
        BY <1>4 DEF myCopyWriteError, A!Writable
    <2>4. QED
        BY <1>4, <2>1, <2>2, <2>3 DEF myCopyWriteError, A!EndError, config, conn, peer, run
<1>5. ASSUME NEW c \in Conns, myCopyWriteOK(c) PROVE A!Forward(c)
    <2>1. buf[c] \in 1..(sent[c] - delivered[Other(c)])
        BY <1>5 DEF myCopyWriteOK
    <2>2. QED
        BY <1>5, <2>1 DEF myCopyWriteOK, A!Forward, A!Writable, config, peer, run
<1>6. ASSUME NEW c \in Conns, myCopyReport(c) PROVE UNCHANGED A!avars
    BY <1>6 DEF myCopyReport, config, conn, peer
<1>7. ASSUME NEW c \in Conns, myCopyClose(c) PROVE A!Shut(c)
    BY <1>7 DEF myCopyClose, HalfCloses, A!Shut, config, peer, run
<1>8. ASSUME NEW c \in Conns, PeerSend(c) PROVE A!Send(c)
    BY <1>8 DEF PeerSend, A!Send, config, conn, pump, run
<1>9. ASSUME NEW c \in Conns, PeerCloseWrite(c) PROVE A!CloseWrite(c)
    BY <1>9 DEF PeerCloseWrite, A!CloseWrite, config, conn, pump, run
<1>10. ASSUME NEW c \in Conns, PeerReset(c) PROVE A!Reset(c)
    BY <1>10 DEF PeerReset, A!Reset, config, conn, pump, run
<1>11. ASSUME RunClose PROVE A!Return
    <2>1. \A c \in Conns : pc[c] \in {"close", "done"}
        BY <1>11 DEF RunClose, CountInv, Active
    <2>2. n1 = delivered[Client] /\ n2 = delivered[Circuit]
        BY <1>11 DEF RunClose, CountInv, ReportInv, Active, DoneSendPump
    <2>3. QED
        BY <1>11, <2>1, <2>2 DEF RunClose, A!Return, config, peer, pump
<1>12. ASSUME Terminated \/ UNCHANGED vars PROVE UNCHANGED A!avars
    BY <1>12 DEF Terminated, vars, config, conn, peer, pump, run
<1>13. QED
    BY <1>1, <1>2, <1>3, <1>4, <1>5, <1>6, <1>7, <1>8, <1>9, <1>10, <1>11, <1>12
    DEF Next, myCopy, Peer, A!ANext, A!Direction

(* Relay implements the safety part of RelayAbstract, for every MaxBytes  *)
(* and BufSize: under the mapping that hides the goroutines' buffers and  *)
(* Run's counter, every behaviour of Run and its two myCopy goroutines is *)
(* a behaviour of the abstract relay, so no copy invents a byte, a copy   *)
(* that ends without error has forwarded everything, the deferred closes  *)
(* follow the halfClose policy, and Run returns with the delivered counts *)
(* only after both copies ended.                                          *)
THEOREM Refinement == Spec => A!SafeSpec
<1>1. Init => RInv
    BY InitRInv
<1>2. RInv /\ [Next]_vars => RInv'
    BY NextRInv
<1>3. Init => A!AInit
    BY InitRefines
<1>4. RInv /\ [Next]_vars => [A!ANext]_A!avars
    BY NextRefines
<1>5. QED
    BY <1>1, <1>2, <1>3, <1>4, PTL DEF Spec, A!SafeSpec

(* The invariant the refinement rests on holds in every state: besides    *)
(* IInv, a pump whose io.CopyBuffer has not failed has dropped no byte,   *)
(* and a pump about to write holds at least one.                          *)
THEOREM RefinementInvariant == Spec => []RInv
BY InitRInv, NextRInv, PTL DEF Spec

====
