----------------------------- MODULE ZcatProofs -----------------------------
(***************************************************************************)
(* ZTypeOK and OutputComplete of Zcat for every MaxBytes.                  *)
(***************************************************************************)
EXTENDS Zcat, TLAPS

\* A process that exited on the remote end's close, not on a reset, read
\* conn to its EOF: nothing the remote end sent was left unread.
ExitInv == phase = "exited" /\ ~rst => fromRemote = 0

\* The variables ZTypeOK leaves untyped.
FlagsInv ==
  /\ outGot \in Nat
  /\ ourFin \in BOOLEAN /\ remoteFin \in BOOLEAN /\ rst \in BOOLEAN

ZInv == ZTypeOK /\ FlagsInv /\ ExitInv

-----------------------------------------------------------------------------
LEMMA InitZInv == Init => ZInv
<1> SUFFICES ASSUME Init PROVE ZInv
    OBVIOUS
<1>1. ZTypeOK
    BY MaxBytesAssumption DEF Init, ZTypeOK
<1>2. FlagsInv /\ ExitInv
    BY DEF Init, FlagsInv, ExitInv
<1>3. QED
    BY <1>1, <1>2 DEF ZInv

\* Only the stdout copy ends the process, and every step that moves a byte
\* or changes the connection needs the process to be copying.
LEMMA NextZInv == ZInv /\ [Next]_vars => ZInv'
<1> SUFFICES ASSUME ZInv, [Next]_vars PROVE ZInv'
    OBVIOUS
<1> USE MaxBytesAssumption DEF ZInv, ZTypeOK, FlagsInv, ExitInv, Copying
<1>1. CASE Dial
    BY <1>1 DEF Dial
<1>2. CASE OutCopyByte
    BY <1>2 DEF OutCopyByte
<1>3. CASE OutCopyEnd
    BY <1>3 DEF OutCopyEnd, ReadEOF
<1>4. CASE InCopyByte
    BY <1>4 DEF InCopyByte, StdinHasData
<1>5. CASE InCopyEOF
    BY <1>5 DEF InCopyEOF
<1>6. CASE InCloseWrite
    BY <1>6 DEF InCloseWrite
<1>7. CASE RemoteSend
    BY <1>7 DEF RemoteSend
<1>8. CASE RemoteClose
    BY <1>8 DEF RemoteClose
<1>9. CASE RemoteReset
    BY <1>9 DEF RemoteReset
<1>10. CASE Exited \/ UNCHANGED vars
    BY <1>10 DEF Exited, vars
<1>11. QED
    BY <1>1, <1>2, <1>3, <1>4, <1>5, <1>6, <1>7, <1>8, <1>9, <1>10
    DEF Next, Main, StdinCopy

-----------------------------------------------------------------------------
(* The counts of zcat stay in range for every MaxBytes: the stdin copy     *)
(* never writes past the end of stdin, and every byte the remote end sent  *)
(* is either written to stdout or still unread in conn.                    *)
THEOREM ZTypeCorrect == Spec => []ZTypeOK
<1>1. ZInv => ZTypeOK
    BY DEF ZInv
<1>2. QED
    BY <1>1, InitZInv, NextZInv, PTL DEF Spec

(* A zcat that exits because copy(os.Stdout, conn) returned at EOF, not on *)
(* a reset, has printed every byte the remote end sent (line 150).         *)
THEOREM OutputIsComplete == Spec => []OutputComplete
<1>1. ZInv => OutputComplete
    BY DEF ZInv, ZTypeOK, FlagsInv, ExitInv, OutputComplete
<1>2. QED
    BY <1>1, InitZInv, NextZInv, PTL DEF Spec


(* zcat's invariant holds in every reachable state, for every MaxBytes:   *)
(* the flags keep their type and a process that exited without a reset    *)
(* had read conn to its EOF (lines 149-150).                               *)
THEOREM ZcatInductive == Spec => []ZInv
BY InitZInv, NextZInv, PTL DEF Spec

=============================================================================
