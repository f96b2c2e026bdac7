------------------------------- MODULE Relay -------------------------------
(***************************************************************************)
(* The relay engine of src/tunnel/tunnel.go: Run starts two myCopy         *)
(* goroutines, one per direction, joins them on two unbuffered channels    *)
(* (doneSend, doneRecv) and then closes both connections in a deferred     *)
(* function.  Each myCopy runs io.CopyBuffer from its source to its        *)
(* destination, sends the byte count on its channel, and then, in its     *)
(* deferred function, half-closes the destination (when halfClose is set   *)
(* and the destination implements edge.CloseWriter) or fully closes it.    *)
(*                                                                         *)
(* A pump is named by its source connection: pump c reads c and writes     *)
(* Other(c).  The remote ends of the two connections are the environment:  *)
(* each may send bytes, half-close its side (EOF for our reader) or break  *)
(* the connection (a reset: reads and writes fail).  Bytes are counted,    *)
(* not named: the properties are about how many arrive, not which.         *)
(***************************************************************************)
EXTENDS Naturals

CONSTANTS
    Client,     \* clientConn, the accepted local connection
    Circuit,    \* ztConn, the circuit dialled through the fabric
    MaxBytes,   \* bound on the bytes each remote end sends
    BufSize     \* the copy buffer of myCopy (0x4000-17 in the code)

ASSUME ConnsAssumption == Client # Circuit
ASSUME MaxBytesAssumption == MaxBytes \in Nat
ASSUME BufSizeAssumption == BufSize \in Nat \ {0}

Conns == {Client, Circuit}

Other(c) == IF c = Client THEN Circuit ELSE Client

Bytes == 0..MaxBytes

\* The steps of a myCopy goroutine: the read and the write of one
\* io.CopyBuffer iteration, "done <- n", the deferred close, and return.
PumpPC == {"read", "write", "report", "close", "done"}

\* The steps of Run: the select loop, the deferred closes, return.
RunPC == {"wait", "teardown", "done"}

VARIABLES
    halfClose,    \* the halfClose argument of Run
    closeWriter,  \* closeWriter[c]: c implements edge.CloseWriter
    closed,       \* closed[c]: Close() has been called on c
    wclosed,      \* wclosed[c]: CloseWrite() has been called on c
    sent,         \* sent[c]: bytes the remote end of c has written into c
    inbuf,        \* inbuf[c]: of those, the bytes not yet read by pump c
    fin,          \* fin[c]: the remote end of c has closed its write side
    rst,          \* rst[c]: c is broken (reset); reads and writes fail
    delivered,    \* delivered[c]: bytes written into c by our side
    pc,           \* pc[c]: where the myCopy goroutine reading c is
    buf,          \* buf[c]: bytes that goroutine holds between read and write
    copied,       \* copied[c]: the n that io.CopyBuffer will return
    failed,       \* failed[c]: io.CopyBuffer returned a non-nil error
    rpc,          \* where Run is
    count,        \* the loop counter of Run's select loop
    n1,           \* Run's n1, received on doneSend
    n2            \* Run's n2, received on doneRecv

config == <<halfClose, closeWriter>>
conn == <<closed, wclosed, delivered>>
peer == <<sent, inbuf, fin, rst>>
pump == <<pc, buf, copied, failed>>
run == <<rpc, count, n1, n2>>
vars == <<config, conn, peer, pump, run>>

-----------------------------------------------------------------------------
\* Mutant of DoneSendPump: the goroutines are started with each other's
\* channel, so n1 and n2 are swapped.
DoneSendPumpSwapped == Client

\* The pump started with doneSend (line 98) reads ztConn; the other one,
\* started with doneRecv (line 100), reads clientConn.
DoneSendPump == Circuit

\* Mutant of LoopCount: the join loop starts at 1 (an off-by-one).
LoopCountOne == 1

\* Run's join loop receives this many counts (line 108).
LoopCount == 2

(* Run, lines 95-114: both channels are created, both goroutines started,  *)
(* count = LoopCount.  halfClose and which connections implement           *)
(* CloseWriter are inputs.                                                 *)
Init ==
    /\ halfClose \in BOOLEAN
    /\ closeWriter \in [Conns -> BOOLEAN]
    /\ closed = [c \in Conns |-> FALSE]
    /\ wclosed = [c \in Conns |-> FALSE]
    /\ sent = [c \in Conns |-> 0]
    /\ inbuf = [c \in Conns |-> 0]
    /\ fin = [c \in Conns |-> FALSE]
    /\ rst = [c \in Conns |-> FALSE]
    /\ delivered = [c \in Conns |-> 0]
    /\ pc = [c \in Conns |-> "read"]
    /\ buf = [c \in Conns |-> 0]
    /\ copied = [c \in Conns |-> 0]
    /\ failed = [c \in Conns |-> FALSE]
    /\ rpc = "wait"
    /\ count = LoopCount
    /\ n1 = 0
    /\ n2 = 0

(* The read of io.CopyBuffer (line 141) in its three outcomes.  A read of *)
(* a closed or broken connection fails, and CopyBuffer returns the error. *)
myCopyReadError(c) ==
    /\ pc[c] = "read"
    /\ closed[c] \/ rst[c]
    /\ pc' = [pc EXCEPT ![c] = "report"]
    /\ failed' = [failed EXCEPT ![c] = TRUE]
    /\ UNCHANGED <<config, conn, peer, buf, copied, run>>

\* Otherwise it returns up to BufSize of the buffered bytes; with nothing
\* buffered and no EOF it blocks (the action is not enabled).
myCopyReadData(c) ==
    /\ pc[c] = "read"
    /\ ~closed[c] /\ ~rst[c]
    /\ \E k \in 1..BufSize :
          /\ k <= inbuf[c]
          /\ buf' = [buf EXCEPT ![c] = k]
          /\ inbuf' = [inbuf EXCEPT ![c] = @ - k]
    /\ pc' = [pc EXCEPT ![c] = "write"]
    /\ UNCHANGED <<config, conn, sent, fin, rst, copied, failed, run>>

\* Mutant of myCopyReadEOF: the copy loop does not stop at EOF and reads
\* again.
myCopyReadEOFLoops(c) ==
    /\ pc[c] = "read"
    /\ ~closed[c] /\ ~rst[c]
    /\ inbuf[c] = 0 /\ fin[c]
    /\ pc' = [pc EXCEPT ![c] = "read"]
    /\ UNCHANGED <<config, conn, peer, buf, copied, failed, run>>

\* EOF once the remote end has half-closed and everything was read:
\* CopyBuffer returns a nil error.
myCopyReadEOF(c) ==
    /\ pc[c] = "read"
    /\ ~closed[c] /\ ~rst[c]
    /\ inbuf[c] = 0 /\ fin[c]
    /\ pc' = [pc EXCEPT ![c] = "report"]
    /\ UNCHANGED <<config, conn, peer, buf, copied, failed, run>>

\* The write of io.CopyBuffer (line 141) fails on a destination that is
\* closed, write-closed or broken; CopyBuffer then returns the bytes
\* written so far and the error.
myCopyWriteError(c) ==
    LET d == Other(c) IN
    /\ pc[c] = "write"
    /\ closed[d] \/ wclosed[d] \/ rst[d]
    /\ pc' = [pc EXCEPT ![c] = "report"]
    /\ failed' = [failed EXCEPT ![c] = TRUE]
    /\ buf' = [buf EXCEPT ![c] = 0]
    /\ UNCHANGED <<config, conn, peer, copied, run>>

\* Mutant of myCopyWriteOK: the count grows by the buffer size instead of
\* the bytes read into it.
myCopyWriteOKCountsBuffer(c) ==
    LET d == Other(c) IN
    /\ pc[c] = "write"
    /\ ~closed[d] /\ ~wclosed[d] /\ ~rst[d]
    /\ delivered' = [delivered EXCEPT ![d] = @ + buf[c]]
    /\ copied' = [copied EXCEPT ![c] = @ + BufSize]
    /\ buf' = [buf EXCEPT ![c] = 0]
    /\ pc' = [pc EXCEPT ![c] = "read"]
    /\ UNCHANGED <<config, closed, wclosed, peer, failed, run>>

\* Otherwise the chunk is delivered and counted, and the loop reads again.
myCopyWriteOK(c) ==
    LET d == Other(c) IN
    /\ pc[c] = "write"
    /\ ~closed[d] /\ ~wclosed[d] /\ ~rst[d]
    /\ delivered' = [delivered EXCEPT ![d] = @ + buf[c]]
    /\ copied' = [copied EXCEPT ![c] = @ + buf[c]]
    /\ buf' = [buf EXCEPT ![c] = 0]
    /\ pc' = [pc EXCEPT ![c] = "read"]
    /\ UNCHANGED <<config, closed, wclosed, peer, failed, run>>

(* "done <- n" (line 142) meets Run's select (lines 109-113) on an         *)
(* unbuffered channel: the count received on doneSend goes to n1, the one *)
(* on doneRecv to n2, and the loop leaves when count reaches 0.           *)
myCopyReport(c) ==
    /\ pc[c] = "report"
    /\ rpc = "wait"
    /\ pc' = [pc EXCEPT ![c] = "close"]
    /\ n1' = IF c = DoneSendPump THEN copied[c] ELSE n1
    /\ n2' = IF c # DoneSendPump THEN copied[c] ELSE n2
    /\ count' = count - 1
    /\ rpc' = IF count - 1 > 0 THEN "wait" ELSE "teardown"
    /\ UNCHANGED <<config, conn, peer, buf, copied, failed>>

\* Mutant of HalfCloses: the halfClose flag is not consulted.
HalfClosesIgnoringFlag(d) == closeWriter[d]

\* The test of line 127: CloseWrite is used on d when halfClose is set and
\* d implements edge.CloseWriter.
HalfCloses(d) == halfClose /\ closeWriter[d]

\* The deferred close of myCopy (lines 126-135): CloseWrite or Close on the
\* destination; errors of either call are ignored.
myCopyClose(c) ==
    LET d == Other(c) IN
    /\ pc[c] = "close"
    /\ IF HalfCloses(d)
          THEN /\ wclosed' = [wclosed EXCEPT ![d] = TRUE]
               /\ UNCHANGED closed
          ELSE /\ closed' = [closed EXCEPT ![d] = TRUE]
               /\ UNCHANGED wclosed
    /\ pc' = [pc EXCEPT ![c] = "done"]
    /\ UNCHANGED <<config, delivered, peer, buf, copied, failed, run>>

\* The deferred function of Run (lines 102-105), run after the loop and the
\* summary log line (line 116): both connections are closed.
RunClose ==
    /\ rpc = "teardown"
    /\ closed' = [c \in Conns |-> TRUE]
    /\ rpc' = "done"
    /\ UNCHANGED <<config, wclosed, delivered, peer, pump, count, n1, n2>>

-----------------------------------------------------------------------------
(* The remote ends.  A remote end writes only while our side of the       *)
(* connection is open and it has not half-closed itself.                    *)
PeerSend(c) ==
    /\ ~closed[c] /\ ~fin[c] /\ ~rst[c]
    /\ sent[c] < MaxBytes
    /\ sent' = [sent EXCEPT ![c] = @ + 1]
    /\ inbuf' = [inbuf EXCEPT ![c] = @ + 1]
    /\ UNCHANGED <<config, conn, fin, rst, pump, run>>

PeerCloseWrite(c) ==
    /\ ~closed[c] /\ ~fin[c] /\ ~rst[c]
    /\ fin' = [fin EXCEPT ![c] = TRUE]
    /\ UNCHANGED <<config, conn, sent, inbuf, rst, pump, run>>

PeerReset(c) ==
    /\ ~closed[c] /\ ~rst[c]
    /\ rst' = [rst EXCEPT ![c] = TRUE]
    /\ UNCHANGED <<config, conn, sent, inbuf, fin, pump, run>>

Peer(c) == PeerSend(c) \/ PeerCloseWrite(c) \/ PeerReset(c)

myCopy(c) ==
    \/ myCopyReadError(c) \/ myCopyReadData(c) \/ myCopyReadEOF(c)
    \/ myCopyWriteError(c) \/ myCopyWriteOK(c)
    \/ myCopyReport(c)
    \/ myCopyClose(c)

\* Run has returned and both goroutines have exited.
Terminated ==
    /\ rpc = "done"
    /\ \A c \in Conns : pc[c] = "done"
    /\ UNCHANGED vars

Next ==
    \/ \E c \in Conns : myCopy(c) \/ Peer(c)
    \/ RunClose
    \/ Terminated

\* Go schedules every runnable goroutine eventually, and a goroutine
\* blocked in a read, a channel send or a select stays blocked only while
\* its operation is not enabled: weak fairness for both pumps and for Run.
\* The remote ends get no fairness: they may stay silent forever.
Fairness ==
    /\ \A c \in Conns : WF_vars(myCopy(c))
    /\ WF_vars(RunClose)

Spec == Init /\ [][Next]_vars /\ Fairness

-----------------------------------------------------------------------------
TypeOK ==
    /\ halfClose \in BOOLEAN
    /\ closeWriter \in [Conns -> BOOLEAN]
    /\ closed \in [Conns -> BOOLEAN]
    /\ wclosed \in [Conns -> BOOLEAN]
    /\ sent \in [Conns -> Bytes]
    /\ inbuf \in [Conns -> Bytes]
    /\ fin \in [Conns -> BOOLEAN]
    /\ rst \in [Conns -> BOOLEAN]
    /\ delivered \in [Conns -> Bytes]
    /\ pc \in [Conns -> PumpPC]
    /\ buf \in [Conns -> 0..BufSize]
    /\ copied \in [Conns -> Bytes]
    /\ failed \in [Conns -> BOOLEAN]
    /\ rpc \in RunPC
    /\ count \in 0..2
    /\ n1 \in Bytes
    /\ n2 \in Bytes

(* Half-close correctness (tunnel.go lines 126-135 with the join of lines *)
(* 107-114): when halfClose is set and connection c implements            *)
(* CloseWriter, the pump that finishes writing into c only half-closes it, *)
(* so the pump still reading c is not cut off.  Hence, unless a connection *)
(* breaks, by the time Run has closed everything every byte the remote end *)
(* of c sent has been delivered to the other connection.                   *)
NoDataLoss ==
    rpc = "done" =>
        \A c \in Conns :
            (halfClose /\ closeWriter[c] /\ ~rst[c] /\ ~rst[Other(c)])
                => delivered[Other(c)] = sent[c]

(* The summary line of Run (line 116) reports n2 as bytes sent and n1 as  *)
(* bytes received although n1 comes from doneSend and n2 from doneRecv:   *)
(* once Run returns, n2 is the number of bytes written into the circuit   *)
(* and n1 the number written into the client connection.                  *)
SummaryAccurate ==
    rpc = "done" => n2 = delivered[Circuit] /\ n1 = delivered[Client]

\* The remote end of c has stopped: it half-closed or the connection broke.
PeerEnds(c) == fin[c] \/ rst[c]

(* Completion: if both remote ends eventually stop, both pumps report    *)
(* their counts on the channels, Run's loop ends and Run closes both     *)
(* connections, whatever the order of the two ends.                     *)
RelayTerminates ==
    (\A c \in Conns : <>PeerEnds(c)) => <>(rpc = "done")

(* One-sided teardown: when the pump that finishes first fully closes   *)
(* its destination (halfClose is off, or the destination does not       *)
(* implement CloseWriter), the other pump's read fails and the relay     *)
(* ends, even if the other remote end never stops.                      *)
OneSidedTeardown ==
    \A c \in Conns :
        (<>PeerEnds(c) /\ ~(halfClose /\ closeWriter[Other(c)]))
            => <>(rpc = "done")

(* What spec.md section 1 promises: teardown of both endpoints           *)
(* "regardless of which side errors".  If one connection breaks, Run     *)
(* eventually closes both connections.                                   *)
ErrorTearsDown ==
    (\E c \in Conns : <>rst[c]) => <>(rpc = "done")
=============================================================================
