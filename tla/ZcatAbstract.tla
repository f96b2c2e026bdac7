----------------------------- MODULE ZcatAbstract -----------------------------
(***************************************************************************)
(* What the zcat demo command promises, without its goroutines and its    *)
(* copy loops.  Stdin is written to the connection, never more than it     *)
(* holds, and our end of stream is signalled only once all of it was       *)
(* written.  What the remote end sends is printed, never more than it      *)
(* sent, and nothing is printed after a reset.  zcat exits only once the   *)
(* remote end closed and everything it sent was printed, or on a reset.    *)
(* The remote end acts as in Zcat.                                         *)
(***************************************************************************)
EXTENDS Naturals

CONSTANTS MaxBytes

VARIABLES
  inLen,     \* the bytes stdin holds
  written,   \* bytes of stdin written to the connection
  fin,       \* our end of stream was signalled
  sent,      \* bytes the remote end sent
  printed,   \* bytes printed on stdout
  eof,       \* the remote end closed its write side
  reset,     \* the connection was reset
  exited     \* zcat has exited

avars == <<inLen, written, fin, sent, printed, eof, reset, exited>>

AInit ==
  /\ inLen \in 0..MaxBytes
  /\ written = 0 /\ fin = FALSE
  /\ sent = 0 /\ printed = 0 /\ eof = FALSE /\ reset = FALSE
  /\ exited = FALSE

Live == ~exited

Write ==
  /\ Live /\ ~reset /\ ~fin /\ written < inLen
  /\ written' = written + 1
  /\ UNCHANGED <<inLen, fin, sent, printed, eof, reset, exited>>

SignalFin ==
  /\ Live /\ ~reset /\ ~fin /\ written = inLen
  /\ fin' = TRUE
  /\ UNCHANGED <<inLen, written, sent, printed, eof, reset, exited>>

Output ==
  /\ Live /\ ~reset /\ printed < sent
  /\ printed' = printed + 1
  /\ UNCHANGED <<inLen, written, fin, sent, eof, reset, exited>>

Exit ==
  /\ Live
  /\ (eof /\ printed = sent) \/ reset
  /\ exited' = TRUE
  /\ UNCHANGED <<inLen, written, fin, sent, printed, eof, reset>>

Send ==
  /\ Live /\ ~eof /\ ~reset /\ sent < MaxBytes
  /\ sent' = sent + 1
  /\ UNCHANGED <<inLen, written, fin, printed, eof, reset, exited>>

Close ==
  /\ Live /\ ~eof /\ ~reset
  /\ eof' = TRUE
  /\ UNCHANGED <<inLen, written, fin, sent, printed, reset, exited>>

Reset ==
  /\ Live /\ ~reset
  /\ reset' = TRUE
  /\ UNCHANGED <<inLen, written, fin, sent, printed, eof, exited>>

ANext == Write \/ SignalFin \/ Output \/ Exit \/ Send \/ Close \/ Reset

SafeSpec == AInit /\ [][ANext]_avars

\* What arrives is printed, and zcat exits once it can; writing stdin may
\* be cut short by the exit.
ASpec == SafeSpec /\ WF_avars(Output) /\ WF_avars(Exit)

====
