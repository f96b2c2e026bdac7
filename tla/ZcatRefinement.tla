--------------------------- MODULE ZcatRefinement ---------------------------
(***************************************************************************)
(* zcat.go's run implements ZcatAbstract.  The stdin copy's read of EOF,   *)
(* its ending on a reset, and the dial are stutters; the other steps of    *)
(* Zcat map to the abstract step of the same name.  A fatal dial leaves    *)
(* the abstract process live with nothing to do.                           *)
(***************************************************************************)
EXTENDS ZcatProofs

A == INSTANCE ZcatAbstract WITH inLen <- stdinLen, written <- inPos,
       fin <- ourFin, sent <- remoteSent, printed <- outGot,
       eof <- remoteFin, reset <- rst, exited <- (phase = "exited")

(* zcat keeps every promise of ZcatAbstract, fairness included: it writes  *)
(* all of stdin before CloseWrite (lines 149 and 160-164), prints only     *)
(* what the remote end sent, and the copy of line 150 returns only at EOF  *)
(* with everything printed, or on a reset.                                 *)
ZcatAbstractSpec == A!ASpec

\* The stdin copy leaves its loop with all of stdin written unless the
\* connection was reset, and CloseWrite comes after it.
StdinInv ==
  /\ ipc # "run" /\ ~rst => inPos = stdinLen
  /\ ourFin => ipc = "done" /\ inPos = stdinLen

\* The invariant the refinement rests on.
ZRInv == ZInv /\ StdinInv

-----------------------------------------------------------------------------
LEMMA InitZRInv == Init => ZRInv
BY InitZInv DEF Init, ZRInv, StdinInv

LEMMA NextZRInv == ZRInv /\ [Next]_vars => ZRInv'
<1> SUFFICES ASSUME ZRInv, [Next]_vars PROVE ZRInv'
    OBVIOUS
<1>1. ZInv'
    BY NextZInv DEF ZRInv
<1>2. StdinInv'
    <2> USE DEF ZRInv, ZInv, ZTypeOK, FlagsInv, StdinInv, Copying
    <2>1. CASE InCopyByte
        BY <2>1 DEF InCopyByte, StdinHasData
    <2>2. CASE InCopyEOF
        BY <2>2 DEF InCopyEOF
    <2>3. CASE InCloseWrite
        BY <2>3 DEF InCloseWrite
    <2>4. CASE RemoteReset
        BY <2>4 DEF RemoteReset
    <2>5. CASE Dial \/ OutCopyByte \/ OutCopyEnd \/ RemoteSend \/ RemoteClose
        BY <2>5 DEF Dial, OutCopyByte, OutCopyEnd, RemoteSend, RemoteClose
    <2>6. CASE Exited \/ UNCHANGED vars
        BY <2>6 DEF Exited, vars
    <2>7. QED
        BY <2>1, <2>2, <2>3, <2>4, <2>5, <2>6 DEF Next, Main, StdinCopy
<1>3. QED
    BY <1>1, <1>2 DEF ZRInv

LEMMA InitRefines == Init => A!AInit
BY DEF Init, A!AInit

\* One step per action of Zcat, naming the abstract step it maps to.
LEMMA NextRefines == ZRInv /\ [Next]_vars => [A!ANext]_A!avars
<1> SUFFICES ASSUME ZRInv, [Next]_vars PROVE [A!ANext]_A!avars
    OBVIOUS
<1> USE DEF ZRInv, ZInv, ZTypeOK, FlagsInv, StdinInv, Copying, A!Live
<1>1. CASE InCopyByte
    <2>1. CASE rst
        BY <1>1, <2>1 DEF InCopyByte, A!avars
    <2>2. CASE ~rst
        BY <1>1, <2>2 DEF InCopyByte, StdinHasData, A!ANext, A!Write
    <2>3. QED
        BY <2>1, <2>2
<1>2. CASE InCopyEOF
    BY <1>2 DEF InCopyEOF, A!avars
<1>3. CASE InCloseWrite
    <2>1. CASE IsEdgeConn(network) /\ ~rst /\ ~ourFin
        BY <1>3, <2>1 DEF InCloseWrite, A!ANext, A!SignalFin
    <2>2. CASE ~(IsEdgeConn(network) /\ ~rst /\ ~ourFin)
        BY <1>3, <2>2 DEF InCloseWrite, A!avars
    <2>3. QED
        BY <2>1, <2>2
<1>4. CASE OutCopyByte
    BY <1>4 DEF OutCopyByte, A!ANext, A!Output
<1>5. CASE OutCopyEnd
    BY <1>5 DEF OutCopyEnd, ReadEOF, A!ANext, A!Exit
<1>6. CASE RemoteSend
    BY <1>6 DEF RemoteSend, A!ANext, A!Send
<1>7. CASE RemoteClose
    BY <1>7 DEF RemoteClose, A!ANext, A!Close
<1>8. CASE RemoteReset
    BY <1>8 DEF RemoteReset, A!ANext, A!Reset
<1>9. CASE Dial \/ Exited \/ UNCHANGED vars
    BY <1>9 DEF Dial, Exited, vars, A!avars
<1>10. QED
    BY <1>1, <1>2, <1>3, <1>4, <1>5, <1>6, <1>7, <1>8, <1>9
    DEF Next, Main, StdinCopy

-----------------------------------------------------------------------------
(* zcat implements the safety part of ZcatAbstract for every MaxBytes:    *)
(* CloseWrite (lines 160-164) follows the whole of stdin, the stdout copy *)
(* prints only bytes the remote end sent and never after a reset, and the *)
(* process exits only at EOF with everything printed or on a reset.       *)
THEOREM ZcatRefines == Spec => A!SafeSpec
<1>1. []ZRInv /\ [][Next]_vars => [][A!ANext]_A!avars
    BY NextRefines, PTL
<1>2. QED
    BY <1>1, InitZRInv, NextZRInv, InitRefines, PTL DEF Spec, A!SafeSpec


(* The invariant behind the refinement holds in every state: the stdin    *)
(* copy leaves its loop of line 149 with all of stdin written unless the  *)
(* connection was reset, and CloseWrite (line 161) only follows that.     *)
THEOREM ZcatRefinementInvariant == Spec => []ZRInv
BY InitZRInv, NextZRInv, PTL DEF Spec

====
