---------------------------- MODULE CtrlClients ----------------------------
(***************************************************************************)
(* The controller client pool of the test harness,                         *)
(* src/zttest/ztlab/models/ctrls.go.                                       *)
(*                                                                         *)
(* Several goroutines (Callers) may call Init and then take a client with  *)
(* GetRandomCtrl or GetCtrl.  Init is guarded by a CompareAndSwap on       *)
(* `initialized`; the caller that wins starts one login goroutine per      *)
(* selected controller (Ctrls), each sending its result on a channel       *)
(* buffered to len(ctrls), and receives len(ctrls) results, returning the  *)
(* first error it meets.  A caller that loses the CAS returns nil at once. *)
(* A client is named by its controller's id; a failed login has none.      *)
(***************************************************************************)
EXTENDS Naturals, Sequences, FiniteSets, Functions

CONSTANTS Callers, Ctrls, NoCaller

\* The selector of line 25 may select no controller at all.
ASSUME CtrlsAssumption == IsFiniteSet(Ctrls)
ASSUME NoCallerAssumption == NoCaller \notin Callers
\* A controller's client is a non-nil pointer, distinct from what a lookup
\* returns otherwise.
ASSUME CtrlsAreClients == Ctrls \cap {"none", "nil", "panic"} = {}

CallerPC == {"call", "recv", "ready", "failed", "done"}
LoginPC  == {"idle", "login", "sent"}
Result   == [err : BOOLEAN, id : Ctrls, clients : Ctrls \cup {"nil"}]
\* What a caller got from GetRandomCtrl or GetCtrl: a client, a nil client,
\* or the panic of rand.IntN(0).
Got      == Ctrls \cup {"none", "nil", "panic"}

VARIABLES
  initialized,  \* the atomic.Bool
  ctrls,        \* the slice self.ctrls, in append order
  ctrlMap,      \* the ids that are keys of self.ctrlMap
  lpc,          \* lpc[c]: the login goroutine of controller c
  resultC,      \* the buffered channel, oldest result first
  cpc,          \* cpc[p]: where caller p is
  recvd,        \* recvd[p]: the loop index i of Init's receive loop
  got,          \* got[p]: what caller p's lookup returned
  winner,       \* history: the caller whose CAS succeeded
  erred         \* history: the callers to which Init returned an error

vars == <<initialized, ctrls, ctrlMap, lpc, resultC, cpc, recvd, got, winner, erred>>

\* make(chan ..., len(ctrls)) (lines 26-30).
ResultCapUnbuffered == 0
ResultCap == Cardinality(Ctrls)

\* The CompareAndSwap(false, true) of line 20 succeeds.
CASAlwaysWins == TRUE
CASWins == ~initialized

\* The test `result.err != nil` of line 49.
RecvErrIgnored(r) == FALSE
RecvErr(r) == r.err

\* The bound of the receive loop of line 47.
LoopBoundShort == Cardinality(Ctrls) - 1
LoopBound == Cardinality(Ctrls)

Init ==
  /\ initialized = FALSE
  /\ ctrls = <<>>
  /\ ctrlMap = {}
  /\ lpc = [c \in Ctrls |-> "idle"]
  /\ resultC = <<>>
  /\ cpc = [p \in Callers |-> "call"]
  /\ recvd = [p \in Callers |-> 0]
  /\ got = [p \in Callers |-> "none"]
  /\ winner = NoCaller
  /\ erred = {}

\* Lines 19-45.  The loser of the CAS returns nil; the winner resets the
\* map, makes the channel and starts one login goroutine per controller.
InitCAS(p) ==
  /\ cpc[p] = "call"
  /\ IF CASWins
       THEN /\ initialized' = TRUE
            /\ ctrlMap' = {}
            /\ resultC' = <<>>
            /\ lpc' = [c \in Ctrls |-> "login"]
            /\ recvd' = [recvd EXCEPT ![p] = 0]
            /\ winner' = p
            /\ cpc' = [cpc EXCEPT ![p] = IF LoopBound > 0 THEN "recv" ELSE "ready"]
       ELSE /\ cpc' = [cpc EXCEPT ![p] = "ready"]
            /\ UNCHANGED <<initialized, ctrlMap, resultC, lpc, recvd, winner>>
  /\ UNCHANGED <<ctrls, got, erred>>

\* Lines 33-44: EnsureLoggedIntoCtrl succeeds or fails, and the result is
\* sent.  The send blocks while the buffer is full; on an unbuffered
\* channel it needs a receiver waiting at line 48.
LoginSend(c) ==
  /\ lpc[c] = "login"
  /\ \/ Len(resultC) < ResultCap
     \/ Len(resultC) = 0 /\ \E p \in Callers : cpc[p] = "recv"
  /\ \E err \in BOOLEAN :
       resultC' = Append(resultC, [err |-> err, id |-> c,
                                   clients |-> IF err THEN "nil" ELSE c])
  /\ lpc' = [lpc EXCEPT ![c] = "sent"]
  /\ UNCHANGED <<initialized, ctrls, ctrlMap, cpc, recvd, got, winner, erred>>

\* Lines 47-55: one iteration of the receive loop.  An error returns at
\* once (line 50); otherwise the client is appended and mapped, and the
\* loop ends after len(ctrls) results.
InitRecv(p) ==
  /\ cpc[p] = "recv"
  /\ resultC # <<>>
  /\ LET r == Head(resultC) IN
       IF RecvErr(r)
         THEN /\ cpc' = [cpc EXCEPT ![p] = "failed"]
              /\ erred' = erred \cup {p}
              /\ UNCHANGED <<ctrls, ctrlMap, recvd>>
         ELSE /\ ctrls' = Append(ctrls, r.clients)
              /\ ctrlMap' = ctrlMap \cup {r.id}
              /\ recvd' = [recvd EXCEPT ![p] = recvd[p] + 1]
              /\ UNCHANGED erred
              /\ cpc' = [cpc EXCEPT ![p] = IF recvd[p] + 1 < LoopBound
                                             THEN "recv" ELSE "ready"]
  /\ resultC' = Tail(resultC)
  /\ UNCHANGED <<initialized, lpc, got, winner>>

\* Lines 58-60: rand.IntN(len(self.ctrls)) panics when the slice is empty.
GetRandomCtrl(p) ==
  /\ cpc[p] = "ready"
  /\ \/ ctrls = <<>> /\ got' = [got EXCEPT ![p] = "panic"]
     \/ \E k \in 1..Len(ctrls) : got' = [got EXCEPT ![p] = ctrls[k]]
  /\ cpc' = [cpc EXCEPT ![p] = "done"]
  /\ UNCHANGED <<initialized, ctrls, ctrlMap, lpc, resultC, recvd, winner, erred>>

\* Lines 62-64: a missing key of the map gives a nil client.
GetCtrl(p, c) ==
  /\ cpc[p] = "ready"
  /\ got' = [got EXCEPT ![p] = IF c \in ctrlMap THEN c ELSE "nil"]
  /\ cpc' = [cpc EXCEPT ![p] = "done"]
  /\ UNCHANGED <<initialized, ctrls, ctrlMap, lpc, resultC, recvd, winner, erred>>

\* A caller whose Init failed may call Init again (not code of ctrls.go:
\* the harness's choice).
Retry(p) ==
  /\ cpc[p] = "failed"
  /\ cpc' = [cpc EXCEPT ![p] = "call"]
  /\ UNCHANGED <<initialized, ctrls, ctrlMap, lpc, resultC, recvd, got, winner, erred>>

\* Every caller has finished; the program goes on with its other work while
\* a login goroutine may still be blocked in its send.
Finished ==
  /\ \A p \in Callers : cpc[p] \in {"failed", "done"}
  /\ UNCHANGED vars

Caller(p) ==
  \/ InitCAS(p)
  \/ InitRecv(p)
  \/ GetRandomCtrl(p)
  \/ \E c \in Ctrls : GetCtrl(p, c)

Next ==
  \/ \E p \in Callers : Caller(p) \/ Retry(p)
  \/ \E c \in Ctrls : LoginSend(c)
  \/ Finished

\* Go's scheduler runs every runnable goroutine: the callers and the login
\* goroutines.  Retrying is the caller's choice and gets no fairness.
Fairness ==
  /\ \A p \in Callers : WF_vars(Caller(p))
  /\ \A c \in Ctrls : WF_vars(LoginSend(c))

Spec == Init /\ [][Next]_vars /\ Fairness

-----------------------------------------------------------------------------

CTypeOK ==
  /\ initialized \in BOOLEAN
  /\ ctrls \in Seq(Ctrls) /\ Len(ctrls) <= Cardinality(Ctrls)
  /\ ctrlMap \subseteq Ctrls
  /\ lpc \in [Ctrls -> LoginPC]
  /\ resultC \in Seq(Result)
  /\ cpc \in [Callers -> CallerPC]
  /\ recvd \in [Callers -> Nat]
  /\ got \in [Callers -> Got]
  /\ winner \in Callers \cup {NoCaller}
  /\ erred \subseteq Callers

\* Init runs the logins once: the slice holds each controller's client at
\* most once and agrees with the map (the CAS of line 20 keeps a second
\* caller from starting logins and resetting the map of line 24 again).
OnceOnly == IsInjective(ctrls) /\ Range(ctrls) = ctrlMap

\* The caller that ran the logins and got nil from them never gets a nil
\* client from GetCtrl or GetRandomCtrl, and gets the panic of
\* rand.IntN(0) (line 59) only when the selector of line 25 selected no
\* controller: the loop of line 47 waits for a result from every
\* controller, whatever their order.
WinnerGetsClient ==
  winner \in Callers \ erred =>
    /\ got[winner] # "nil"
    /\ got[winner] = "panic" => Ctrls = {}

\* The pool only grows: the map of line 24 is never cleared and no client
\* of the slice is dropped or moved once a caller may have taken it, however
\* many callers call Init (a second Init resetting the map while the slice
\* keeps its clients would let GetCtrl return nil for a listed controller).
PoolStep ==
  /\ ctrlMap \subseteq ctrlMap'
  /\ Len(ctrls) <= Len(ctrls')
  /\ \A i \in 1..Len(ctrls) : ctrls'[i] = ctrls[i]

PoolGrows == [][PoolStep]_<<ctrls, ctrlMap>>

\* Every login goroutine Init starts eventually sends its result, even when
\* Init has returned on an error (the channel is buffered to len(ctrls)).
LoginsFinish == \A c \in Ctrls : lpc[c] = "login" ~> lpc[c] = "sent"

\* Every caller that got nil from Init gets a usable client from GetCtrl or
\* GetRandomCtrl: what a nil error from Init is taken to mean.
ClientUsable == \A p \in Callers : got[p] \notin {"nil", "panic"}

====
