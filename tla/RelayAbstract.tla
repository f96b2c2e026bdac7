---------------------------- MODULE RelayAbstract ----------------------------
(***************************************************************************)
(* What Run of src/tunnel/tunnel.go promises, without its goroutines,     *)
(* buffers, channels and counters.  Each direction, named by the           *)
(* connection it reads, forwards bytes to the other connection, never     *)
(* more than were sent.  It ends cleanly only at the remote end's EOF once *)
(* everything was forwarded; otherwise only on a broken or closed source,  *)
(* or on a destination it has bytes for.  An ended direction shuts its     *)
(* destination, half or fully as halfClose and edge.CloseWriter decide.    *)
(* Run returns once both directions have ended, closes both connections   *)
(* and reports what was delivered each way.  The remote ends act as in    *)
(* Relay.                                                                  *)
(***************************************************************************)
EXTENDS Naturals

CONSTANTS Client, Circuit, MaxBytes

Conns == {Client, Circuit}

Other(c) == IF c = Client THEN Circuit ELSE Client

VARIABLES
    halfClose,    \* the halfClose argument of Run
    closeWriter,  \* closeWriter[c]: c implements edge.CloseWriter
    sent,         \* sent[c]: bytes the remote end of c has sent
    fin,          \* fin[c]: the remote end of c has closed its write side
    rst,          \* rst[c]: c is broken
    delivered,    \* delivered[c]: bytes written into c by the relay
    closed,       \* closed[c]: c is closed
    wclosed,      \* wclosed[c]: our write side of c is closed
    dir,          \* dir[c]: the direction reading c: "copy", "ended", "shut"
    summary       \* <<>> until Run returns, then <<received, sent>>

avars == <<halfClose, closeWriter, sent, fin, rst, delivered, closed, wclosed,
           dir, summary>>

AInit ==
    /\ halfClose \in BOOLEAN
    /\ closeWriter \in [Conns -> BOOLEAN]
    /\ sent = [c \in Conns |-> 0]
    /\ fin = [c \in Conns |-> FALSE]
    /\ rst = [c \in Conns |-> FALSE]
    /\ delivered = [c \in Conns |-> 0]
    /\ closed = [c \in Conns |-> FALSE]
    /\ wclosed = [c \in Conns |-> FALSE]
    /\ dir = [c \in Conns |-> "copy"]
    /\ summary = <<>>

\* The destination of direction c accepts writes.
Writable(d) == ~closed[d] /\ ~wclosed[d] /\ ~rst[d]

\* io.CopyBuffer writes some of the bytes not yet forwarded (line 141).
Forward(c) ==
    /\ dir[c] = "copy"
    /\ Writable(Other(c))
    /\ \E k \in 1..(sent[c] - delivered[Other(c)]) :
          delivered' = [delivered EXCEPT ![Other(c)] = @ + k]
    /\ UNCHANGED <<halfClose, closeWriter, sent, fin, rst, closed, wclosed,
                   dir, summary>>

\* The copy returns at EOF, with everything the remote end sent forwarded.
EndClean(c) ==
    /\ dir[c] = "copy"
    /\ ~closed[c] /\ ~rst[c] /\ fin[c]
    /\ delivered[Other(c)] = sent[c]
    /\ dir' = [dir EXCEPT ![c] = "ended"]
    /\ UNCHANGED <<halfClose, closeWriter, sent, fin, rst, delivered, closed,
                   wclosed, summary>>

\* The copy returns an error: its source is unusable, or its destination
\* is and a byte waits to be written there (a copy blocked in its read
\* does not notice a broken destination).
EndError(c) ==
    /\ dir[c] = "copy"
    /\ \/ closed[c] \/ rst[c]
       \/ ~Writable(Other(c)) /\ delivered[Other(c)] < sent[c]
    /\ dir' = [dir EXCEPT ![c] = "ended"]
    /\ UNCHANGED <<halfClose, closeWriter, sent, fin, rst, delivered, closed,
                   wclosed, summary>>

\* The ended direction shuts its destination (lines 119-137).
Shut(c) ==
    /\ dir[c] = "ended"
    /\ IF halfClose /\ closeWriter[Other(c)]
          THEN /\ wclosed' = [wclosed EXCEPT ![Other(c)] = TRUE]
               /\ UNCHANGED closed
          ELSE /\ closed' = [closed EXCEPT ![Other(c)] = TRUE]
               /\ UNCHANGED wclosed
    /\ dir' = [dir EXCEPT ![c] = "shut"]
    /\ UNCHANGED <<halfClose, closeWriter, sent, fin, rst, delivered, summary>>

\* Run returns once neither direction copies (lines 102-116).
Return ==
    /\ summary = <<>>
    /\ \A c \in Conns : dir[c] # "copy"
    /\ closed' = [c \in Conns |-> TRUE]
    /\ summary' = <<delivered[Client], delivered[Circuit]>>
    /\ UNCHANGED <<halfClose, closeWriter, sent, fin, rst, delivered, wclosed, dir>>

\* The remote ends, as in Relay.
Send(c) ==
    /\ ~closed[c] /\ ~fin[c] /\ ~rst[c]
    /\ sent[c] < MaxBytes
    /\ sent' = [sent EXCEPT ![c] = @ + 1]
    /\ UNCHANGED <<halfClose, closeWriter, fin, rst, delivered, closed, wclosed,
                   dir, summary>>

CloseWrite(c) ==
    /\ ~closed[c] /\ ~fin[c] /\ ~rst[c]
    /\ fin' = [fin EXCEPT ![c] = TRUE]
    /\ UNCHANGED <<halfClose, closeWriter, sent, rst, delivered, closed, wclosed,
                   dir, summary>>

Reset(c) ==
    /\ ~closed[c] /\ ~rst[c]
    /\ rst' = [rst EXCEPT ![c] = TRUE]
    /\ UNCHANGED <<halfClose, closeWriter, sent, fin, delivered, closed, wclosed,
                   dir, summary>>

Direction(c) == Forward(c) \/ EndClean(c) \/ EndError(c) \/ Shut(c)

ANext ==
    \/ \E c \in Conns : Direction(c) \/ Send(c) \/ CloseWrite(c) \/ Reset(c)
    \/ Return

\* The safety part, which TLAPS proves Relay implements.
SafeSpec == AInit /\ [][ANext]_avars

\* Each direction and Run make progress when they can; the remote ends
\* need not.
ASpec == SafeSpec /\ \A c \in Conns : WF_avars(Direction(c)) /\ WF_avars(Return)

====
