-------------------------------- MODULE Zcat --------------------------------
(***************************************************************************)
(* The zcat demo command, src/zt/cmd/demo/zcat.go 84-165.                  *)
(*                                                                         *)
(* run dials network:addr (tcp, udp or zt; anything else, or a failed dial *)
(* or identity load, is log.Fatalf), then starts `go copy(conn, stdin)`    *)
(* and runs `copy(stdout, conn)` itself.  When that copy returns, run      *)
(* returns and the process exits, whatever the stdin copy is doing.  copy  *)
(* half-closes its writer only when the writer is an edge.Conn, i.e. only  *)
(* for a zt connection.  Bytes are counted; stdin holds `stdinLen` bytes.  *)
(* The remote end is the environment: it may send, close its write side    *)
(* or reset the connection at any time.                                    *)
(***************************************************************************)
EXTENDS Naturals

CONSTANTS Networks, MaxBytes

ASSUME MaxBytesAssumption == MaxBytes \in Nat

\* The networks of line 101 and 106 that run accepts.
Dialable == {"tcp", "udp", "zt"}

VARIABLES
  network,      \* parts[0] of the destination
  phase,        \* "dial", "copying", "exited" (run returned) or "fatal"
  stdinLen,     \* the bytes stdin holds before its EOF
  inPos,        \* bytes the stdin copy has written to conn
  ipc,          \* the stdin copy: "run", "closewrite" or "done"
  ourFin,       \* our write side of conn is closed (CloseWrite)
  remoteSent,   \* bytes the remote end has sent
  fromRemote,   \* of these, bytes not yet read by the stdout copy
  remoteFin,    \* the remote end closed its write side
  rst,          \* the connection was reset
  outGot        \* bytes written to stdout

vars == <<network, phase, stdinLen, inPos, ipc, ourFin, remoteSent,
          fromRemote, remoteFin, rst, outGot>>

\* `writer.(edge.Conn)` of line 160: only a zt connection is an edge.Conn.
IsEdgeConnNever(n) == FALSE
IsEdgeConn(n) == n = "zt"

\* io.CopyBuffer's read of stdin returns data, not EOF.
StdinHasDataOffByOne == inPos <= stdinLen
StdinHasData == inPos < stdinLen

\* io.CopyBuffer's end of stream on conn: its buffered bytes are read,
\* then EOF once the remote end closed its write side.
ReadEOFEarly == remoteFin
ReadEOF == fromRemote = 0 /\ remoteFin

Init ==
  /\ network \in Networks
  /\ phase = "dial"
  /\ stdinLen \in 0..MaxBytes
  /\ inPos = 0 /\ ipc = "run" /\ ourFin = FALSE
  /\ remoteSent = 0 /\ fromRemote = 0 /\ remoteFin = FALSE /\ rst = FALSE
  /\ outGot = 0

\* Lines 89-147: parse and dial.  An unknown network, an unreadable
\* identity or a failed dial ends in log.Fatalf (os.Exit).
Dial ==
  /\ phase = "dial"
  /\ \/ network \in Dialable /\ phase' \in {"copying", "fatal"}
     \/ network \notin Dialable /\ phase' = "fatal"
  /\ UNCHANGED <<network, stdinLen, inPos, ipc, ourFin, remoteSent,
                 fromRemote, remoteFin, rst, outGot>>

Copying == phase = "copying"

\* Line 149, copy(conn, os.Stdin): one byte read from stdin and written to
\* conn; a write on a reset connection fails and ends the copy.
InCopyByte ==
  /\ Copying /\ ipc = "run"
  /\ StdinHasData
  /\ IF rst THEN ipc' = "closewrite" /\ inPos' = inPos
            ELSE inPos' = inPos + 1 /\ ipc' = "run"
  /\ UNCHANGED <<network, phase, stdinLen, ourFin, remoteSent, fromRemote,
                 remoteFin, rst, outGot>>

InCopyEOF ==
  /\ Copying /\ ipc = "run"
  /\ inPos = stdinLen
  /\ ipc' = "closewrite"
  /\ UNCHANGED <<network, phase, stdinLen, inPos, ourFin, remoteSent,
                 fromRemote, remoteFin, rst, outGot>>

\* Lines 160-164: CloseWrite on an edge.Conn (it fails, and is only logged,
\* on a reset connection).
InCloseWrite ==
  /\ Copying /\ ipc = "closewrite"
  /\ ourFin' = (ourFin \/ (IsEdgeConn(network) /\ ~rst))
  /\ ipc' = "done"
  /\ UNCHANGED <<network, phase, stdinLen, inPos, remoteSent, fromRemote,
                 remoteFin, rst, outGot>>

\* Line 150, copy(os.Stdout, conn): one byte from conn to stdout.
OutCopyByte ==
  /\ Copying /\ ~rst
  /\ fromRemote > 0
  /\ fromRemote' = fromRemote - 1 /\ outGot' = outGot + 1
  /\ UNCHANGED <<network, phase, stdinLen, inPos, ipc, ourFin, remoteSent,
                 remoteFin, rst>>

\* The copy ends at EOF or on the read error of a reset connection;
\* stdout is no edge.Conn, so run returns and the process exits.
OutCopyEnd ==
  /\ Copying
  /\ ReadEOF \/ rst
  /\ phase' = "exited"
  /\ UNCHANGED <<network, stdinLen, inPos, ipc, ourFin, remoteSent,
                 fromRemote, remoteFin, rst, outGot>>

RemoteSend ==
  /\ Copying /\ ~remoteFin /\ ~rst /\ remoteSent < MaxBytes
  /\ remoteSent' = remoteSent + 1 /\ fromRemote' = fromRemote + 1
  /\ UNCHANGED <<network, phase, stdinLen, inPos, ipc, ourFin, remoteFin, rst, outGot>>

RemoteClose ==
  /\ Copying /\ ~remoteFin /\ ~rst
  /\ remoteFin' = TRUE
  /\ UNCHANGED <<network, phase, stdinLen, inPos, ipc, ourFin, remoteSent,
                 fromRemote, rst, outGot>>

RemoteReset ==
  /\ Copying /\ ~rst
  /\ rst' = TRUE
  /\ UNCHANGED <<network, phase, stdinLen, inPos, ipc, ourFin, remoteSent,
                 fromRemote, remoteFin, outGot>>

\* The process has exited; nothing more happens.
Exited == phase \in {"exited", "fatal"} /\ UNCHANGED vars

\* The main goroutine (run, then the stdout copy) and the stdin copy.
Main == Dial \/ OutCopyByte \/ OutCopyEnd
StdinCopy == InCopyByte \/ InCopyEOF \/ InCloseWrite

Next == Main \/ StdinCopy \/ RemoteSend \/ RemoteClose \/ RemoteReset \/ Exited

\* Go runs both goroutines; the remote end gets no fairness.
Spec == Init /\ [][Next]_vars /\ WF_vars(Main) /\ WF_vars(StdinCopy)

-----------------------------------------------------------------------------

ZTypeOK ==
  /\ phase \in {"dial", "copying", "exited", "fatal"}
  /\ ipc \in {"run", "closewrite", "done"}
  /\ inPos \in 0..stdinLen /\ stdinLen \in 0..MaxBytes
  /\ fromRemote \in 0..remoteSent /\ remoteSent \in 0..MaxBytes
  /\ outGot + fromRemote = remoteSent

\* zcat exits after stdin ends, provided the remote end closes its side
\* once it has seen our end of stream (an echo or request/response server):
\* the stdin copy must pass its EOF on with CloseWrite (line 160).
ZcatExits ==
  (ourFin ~> remoteFin) => <>(phase \in {"exited", "fatal"})

\* A zcat that exits on the remote end's close, without a reset, has
\* printed every byte the remote end sent (line 150 reads to EOF).
OutputComplete ==
  phase = "exited" /\ ~rst => outGot = remoteSent

====
