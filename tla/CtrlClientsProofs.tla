------------------------- MODULE CtrlClientsProofs -------------------------
(***************************************************************************)
(* CTypeOK, OnceOnly and WinnerGetsClient of CtrlClients for every finite *)
(* set of controllers and every set of callers.                           *)
(***************************************************************************)
EXTENDS CtrlClients, FiniteSetTheorems, TLAPS

\* The controllers whose result waits in the channel.
Pending == {resultC[i].id : i \in 1..Len(resultC)}

\* Before the CAS is won nothing has happened; after it, every login
\* goroutine has started.
CasInv ==
  /\ ~initialized =>
       /\ winner = NoCaller /\ erred = {}
       /\ lpc = [c \in Ctrls |-> "idle"]
       /\ ctrls = <<>> /\ ctrlMap = {} /\ resultC = <<>>
       /\ \A p \in Callers : cpc[p] = "call"
  /\ initialized => winner \in Callers /\ \A c \in Ctrls : lpc[c] # "idle"

\* Each login goroutine sends once: a result in the channel carries the
\* client of a successful login, no controller's result is in the channel
\* twice, and a result is in the channel or in the slice, never both.
ChanInv ==
  /\ \A i \in 1..Len(resultC) :
       resultC[i].clients = IF resultC[i].err THEN "nil" ELSE resultC[i].id
  /\ \A i, j \in 1..Len(resultC) : resultC[i].id = resultC[j].id => i = j
  /\ Pending \cap Range(ctrls) = {}
  /\ \A c \in Pending \cup Range(ctrls) : lpc[c] = "sent"

\* Only the winner receives; its loop index is the length of the slice, and
\* a winner that got no error has left the loop only after len(ctrls)
\* results; a lookup is made once, from "ready".
LoopInv ==
  /\ initialized => Len(ctrls) = recvd[winner]
  /\ \A p \in Callers :
       /\ cpc[p] = "recv" => p = winner /\ p \notin erred
                              /\ recvd[p] < Cardinality(Ctrls)
       /\ cpc[p] = "failed" => p \in erred
       /\ cpc[p] # "done" => got[p] = "none"
  /\ winner \in Callers \ erred =>
       /\ cpc[winner] \in {"recv", "ready", "done"}
       /\ cpc[winner] \in {"ready", "done"} => Len(ctrls) = Cardinality(Ctrls)
       /\ cpc[winner] = "done" =>
            \/ got[winner] \in Ctrls
            \/ Ctrls = {} /\ got[winner] = "panic"

CInv == CTypeOK /\ CasInv /\ ChanInv /\ OnceOnly /\ LoopInv

\* The refinement mapping onto CtrlPool: the pool is self.ctrlMap, and a
\* caller in the receive loop of lines 47-55 is inside Init.
AbsPC(s) == IF s = "recv" THEN "init" ELSE s

P == INSTANCE CtrlPool WITH started <- initialized, pool <- ctrlMap,
       apc <- [p \in Callers |-> AbsPC(cpc[p])]

(* Init and the lookups keep every promise of CtrlPool, fairness included: *)
(* the login goroutines and the channel of lines 26-45 add each            *)
(* controller's client to the pool at most once, the first caller returns  *)
(* nil only with every controller in it, and every call returns.           *)
PoolSpec == P!ASpec

-----------------------------------------------------------------------------
\* An injective sequence over a finite set S is no longer than S, and one
\* as long as S holds every element of S.
LEMMA InjectiveSeqCard ==
  ASSUME NEW S, IsFiniteSet(S), NEW s \in Seq(S), IsInjective(s)
  PROVE  /\ Len(s) <= Cardinality(S)
         /\ Len(s) = Cardinality(S) => Range(s) = S
<1>1. s \in Injection(1..Len(s), S)
    BY DEF Injection, IsInjective
<1>2. Cardinality(1..Len(s)) = Len(s)
    <2>1. Len(s) \in Nat
        OBVIOUS
    <2>2. \A a, b \in Int : Cardinality(a..b) = IF a > b THEN 0 ELSE b - a + 1
        BY FS_Interval
    <2>3. 1 \in Int /\ Len(s) \in Int
        BY <2>1
    <2>4. Cardinality(1..Len(s)) = IF 1 > Len(s) THEN 0 ELSE Len(s) - 1 + 1
        BY ONLY <2>2, <2>3, Zenon
    <2>5. QED
        BY <2>1, <2>4
<1>3. /\ Cardinality(1..Len(s)) <= Cardinality(S)
      /\ Cardinality(1..Len(s)) = Cardinality(S) => s \in Surjection(1..Len(s), S)
    BY <1>1, FS_Injection
<1>4. s \in Surjection(1..Len(s), S) => Range(s) = S
    BY DEF Surjection, Range
<1>5. QED
    BY <1>2, <1>3, <1>4

\* Appending an element that is not yet in an injective sequence keeps it
\* injective and adds the element to its range.
LEMMA AppendFresh ==
  ASSUME NEW S, NEW s \in Seq(S), IsInjective(s), NEW x \in S, x \notin Range(s)
  PROVE  /\ IsInjective(Append(s, x))
         /\ Range(Append(s, x)) = Range(s) \cup {x}
<1>1. /\ Append(s, x) \in Seq(S)
      /\ Len(Append(s, x)) = Len(s) + 1
      /\ DOMAIN Append(s, x) = 1..(Len(s) + 1)
      /\ \A i \in 1..Len(s) : Append(s, x)[i] = s[i]
      /\ Append(s, x)[Len(s) + 1] = x
    OBVIOUS
<1>2. \A i \in 1..Len(s) : s[i] # x
    BY DEF Range
<1>3. IsInjective(Append(s, x))
    BY <1>1, <1>2 DEF IsInjective
<1>4. Range(Append(s, x)) = Range(s) \cup {x}
    BY <1>1 DEF Range
<1>5. QED
    BY <1>3, <1>4

\* Removing the head of a sequence of results without repeated ids removes
\* the head's id from the ids, and appending a result with a new id adds it.
LEMMA PendingTail ==
  ASSUME NEW q \in Seq(Result), q # <<>>,
         \A i, j \in 1..Len(q) : q[i].id = q[j].id => i = j
  PROVE  /\ {Tail(q)[i].id : i \in 1..Len(Tail(q))}
              = {q[i].id : i \in 1..Len(q)} \ {Head(q).id}
         /\ \A i, j \in 1..Len(Tail(q)) : Tail(q)[i].id = Tail(q)[j].id => i = j
  BY DEF Result

LEMMA PendingAppend ==
  ASSUME NEW q \in Seq(Result), NEW r \in Result,
         \A i \in 1..Len(q) : q[i].id # r.id,
         \A i, j \in 1..Len(q) : q[i].id = q[j].id => i = j
  PROVE  /\ {Append(q, r)[i].id : i \in 1..Len(Append(q, r))}
              = {q[i].id : i \in 1..Len(q)} \cup {r.id}
         /\ \A i, j \in 1..Len(Append(q, r)) :
              Append(q, r)[i].id = Append(q, r)[j].id => i = j
<1>1. /\ Len(Append(q, r)) = Len(q) + 1
      /\ \A i \in 1..Len(q) : Append(q, r)[i] = q[i]
      /\ Append(q, r)[Len(q) + 1] = r
    OBVIOUS
<1>2. {Append(q, r)[i].id : i \in 1..Len(Append(q, r))}
        = {q[i].id : i \in 1..Len(q)} \cup {r.id}
    BY <1>1
<1>3. \A i, j \in 1..Len(Append(q, r)) :
        Append(q, r)[i].id = Append(q, r)[j].id => i = j
    BY <1>1
<1>4. QED
    BY <1>2, <1>3

-----------------------------------------------------------------------------
\* The receive loop of line 47 runs once per selected controller, and not
\* at all when the selector selects none.
LEMMA CtrlsCard ==
  /\ Cardinality(Ctrls) \in Nat
  /\ Cardinality(Ctrls) = 0 <=> Ctrls = {}
<1>1. Cardinality(Ctrls) \in Nat
    BY CtrlsAssumption, FS_CardinalityType
<1>2. Cardinality(Ctrls) = 0 <=> Ctrls = {}
    BY CtrlsAssumption, FS_EmptySet
<1>3. QED
    BY <1>1, <1>2

LEMMA InitCInv == Init => CInv
<1> SUFFICES ASSUME Init PROVE CInv
    OBVIOUS
<1>1. CTypeOK
    <2>1. ctrls \in Seq(Ctrls) /\ Len(ctrls) <= Cardinality(Ctrls)
        BY CtrlsCard DEF Init
    <2>2. resultC \in Seq(Result)
        BY DEF Init
    <2>3. QED
        BY <2>1, <2>2 DEF Init, CTypeOK, LoginPC, CallerPC, Got
<1>2. CasInv /\ ChanInv
    BY DEF Init, CasInv, ChanInv, Pending, Range
<1>3. LoopInv
    BY NoCallerAssumption DEF Init, LoopInv
<1>4. OnceOnly
    BY DEF Init, OnceOnly, IsInjective, Range
<1>5. QED
    BY <1>1, <1>2, <1>3, <1>4 DEF CInv

-----------------------------------------------------------------------------
\* Lines 19-45: the CAS.  The winner starts from the empty state CasInv
\* describes; a loser is not the winner, or the winner after an error.
LEMMA InitCASStep ==
  ASSUME CInv, NEW p \in Callers, InitCAS(p)
  PROVE  CInv'
<1> USE DEF CInv, CTypeOK, CasInv, ChanInv, OnceOnly, LoopInv, CASWins, LoopBound
<1>1. CASE ~initialized
    <2>1. /\ winner' = p /\ erred' = {} /\ initialized'
          /\ lpc' = [c \in Ctrls |-> "login"]
          /\ ctrls' = <<>> /\ ctrlMap' = {} /\ resultC' = <<>>
          /\ recvd' = [recvd EXCEPT ![p] = 0]
          /\ cpc' = [cpc EXCEPT ![p] = IF Cardinality(Ctrls) > 0 THEN "recv" ELSE "ready"]
          /\ got' = got
        BY <1>1 DEF InitCAS
    <2>2. \A q \in Callers : q # p => cpc[q] = "call" /\ got[q] = "none"
        BY <1>1
    <2>3. CTypeOK'
        BY <2>1, CtrlsCard DEF LoginPC, CallerPC
    <2>4. (CasInv /\ ChanInv /\ OnceOnly)'
        BY <2>1 DEF Pending, Range, IsInjective
    <2>5. LoopInv'
        <3>1. cpc[p] = "call" /\ got[p] = "none"
            BY DEF InitCAS
        <3>2. Len(ctrls') = recvd'[winner'] /\ recvd'[p] = 0
            BY <2>1
        <3>3. /\ cpc'[p] = "recv" => recvd'[p] < Cardinality(Ctrls)
              /\ cpc'[p] \in {"recv", "ready"}
              /\ cpc'[p] = "ready" => Len(ctrls') = Cardinality(Ctrls)
              /\ \A q \in Callers \ {p} : cpc'[q] = "call"
            BY <2>1, <2>2, CtrlsCard
        <3>4. \A q \in Callers : got'[q] = "none"
            BY <2>1, <2>2, <3>1
        <3>5. QED
            BY <2>1, <3>2, <3>3, <3>4, CtrlsCard
    <2>6. QED
        BY <2>3, <2>4, <2>5
<1>2. CASE initialized
    <2>1. /\ cpc' = [cpc EXCEPT ![p] = "ready"]
          /\ UNCHANGED <<initialized, ctrls, ctrlMap, resultC, lpc, recvd,
                         winner, got, erred>>
        BY <1>2 DEF InitCAS
    <2>2. cpc[p] = "call" /\ got[p] = "none"
        BY DEF InitCAS
    <2>3. p = winner => winner \in erred
        BY <2>2
    <2>4. CTypeOK'
        BY <2>1 DEF CallerPC
    <2>5. CasInv'
        BY <1>2, <2>1
    <2>6. ChanInv' /\ OnceOnly'
        BY <2>1 DEF Pending
    <2>7. LoopInv'
        BY <1>2, <2>1, <2>2, <2>3
    <2>8. QED
        BY <2>4, <2>5, <2>6, <2>7
<1>3. QED
    BY <1>1, <1>2


\* Lines 33-44: a login goroutine sends its one result; it was not yet in
\* the channel or the slice.
LEMMA LoginSendStep ==
  ASSUME CInv, NEW c \in Ctrls, LoginSend(c)
  PROVE  CInv'
<1> USE DEF CInv, CTypeOK, CasInv, ChanInv, OnceOnly, LoopInv
<1>1. PICK err \in BOOLEAN :
        resultC' = Append(resultC, [err |-> err, id |-> c,
                                    clients |-> IF err THEN "nil" ELSE c])
    BY DEF LoginSend
<1> DEFINE r == [err |-> err, id |-> c, clients |-> IF err THEN "nil" ELSE c]
<1>2. /\ lpc' = [lpc EXCEPT ![c] = "sent"]
      /\ UNCHANGED <<initialized, ctrls, ctrlMap, cpc, recvd, got, winner, erred>>
    BY DEF LoginSend
<1>3. r \in Result /\ lpc[c] = "login" /\ initialized
    BY DEF LoginSend, Result
<1>4. c \notin Pending /\ c \notin Range(ctrls)
    BY <1>3
<1>5. /\ Pending' = Pending \cup {c}
      /\ \A i, j \in 1..Len(resultC') : resultC'[i].id = resultC'[j].id => i = j
    <2>1. \A i \in 1..Len(resultC) : resultC[i].id # r.id
        BY <1>4 DEF Pending
    <2>2. QED
        BY <1>1, <1>3, <2>1, PendingAppend DEF Pending
<1>6. \A i \in 1..Len(resultC') :
        resultC'[i].clients = IF resultC'[i].err THEN "nil" ELSE resultC'[i].id
    BY <1>1
<1>7. CTypeOK'
    BY <1>1, <1>2, <1>3 DEF LoginPC
<1>8. CasInv'
    BY <1>2, <1>3
<1>9. ChanInv'
    BY <1>2, <1>4, <1>5, <1>6
<1>10. (OnceOnly /\ LoopInv)'
    BY <1>2
<1>11. QED
    BY <1>7, <1>8, <1>9, <1>10


\* Lines 47-55: only the winner receives.  An error ends its loop; a client
\* moves from the channel to the slice and the map, and the loop ends with
\* the len(ctrls)-th.
LEMMA InitRecvStep ==
  ASSUME CInv, NEW p \in Callers, InitRecv(p)
  PROVE  CInv'
<1> USE DEF CInv, CTypeOK, CasInv, ChanInv, OnceOnly, LoopInv
<1> DEFINE r == Head(resultC)
<1>1. /\ cpc[p] = "recv" /\ resultC # <<>>
      /\ p = winner /\ p \notin erred /\ recvd[p] < Cardinality(Ctrls)
      /\ initialized
    BY DEF InitRecv
<1>2. /\ r \in Result /\ r.id \in Pending
      /\ r.clients = IF r.err THEN "nil" ELSE r.id
    <2>1. 1 \in 1..Len(resultC) /\ r = resultC[1]
        BY <1>1
    <2>2. QED
        BY <2>1 DEF Pending
<1>3. /\ resultC' = Tail(resultC) /\ resultC' \in Seq(Result)
      /\ Pending' = Pending \ {r.id}
      /\ \A i, j \in 1..Len(resultC') : resultC'[i].id = resultC'[j].id => i = j
      /\ \A i \in 1..Len(resultC') :
           resultC'[i].clients = IF resultC'[i].err THEN "nil" ELSE resultC'[i].id
    <2>1. resultC' = Tail(resultC)
        BY DEF InitRecv
    <2>2. /\ {Tail(resultC)[i].id : i \in 1..Len(Tail(resultC))}
              = {resultC[i].id : i \in 1..Len(resultC)} \ {r.id}
          /\ \A i, j \in 1..Len(Tail(resultC)) :
              Tail(resultC)[i].id = Tail(resultC)[j].id => i = j
        BY <1>1, PendingTail
    <2>3. \A i \in 1..Len(Tail(resultC)) :
            Tail(resultC)[i].clients
              = IF Tail(resultC)[i].err THEN "nil" ELSE Tail(resultC)[i].id
        BY <1>1
    <2>4. Tail(resultC) \in Seq(Result)
        BY <1>1
    <2>5. QED
        BY ONLY <2>1, <2>2, <2>3, <2>4 DEF Pending
<1>4. UNCHANGED <<initialized, lpc, got, winner>>
    BY DEF InitRecv
<1>5. CASE r.err
    <2>1. /\ cpc' = [cpc EXCEPT ![p] = "failed"] /\ erred' = erred \cup {p}
          /\ UNCHANGED <<ctrls, ctrlMap, recvd>>
        BY <1>5 DEF InitRecv, RecvErr
    <2>2. CTypeOK'
        BY <1>3, <1>4, <2>1 DEF CallerPC
    <2>3. (CasInv /\ ChanInv /\ OnceOnly)'
        BY <1>1, <1>3, <1>4, <2>1
    <2>4. LoopInv'
        BY <1>1, <1>4, <2>1
    <2>5. QED
        BY <2>2, <2>3, <2>4
<1>6. CASE ~r.err
    <2>1. /\ ctrls' = Append(ctrls, r.id) /\ ctrlMap' = ctrlMap \cup {r.id}
          /\ recvd' = [recvd EXCEPT ![p] = recvd[p] + 1] /\ erred' = erred
          /\ cpc' = [cpc EXCEPT ![p] = IF recvd[p] + 1 < Cardinality(Ctrls)
                                         THEN "recv" ELSE "ready"]
        BY <1>2, <1>6 DEF InitRecv, RecvErr, LoopBound
    <2>2. r.id \in Ctrls /\ r.id \notin Range(ctrls)
        BY <1>2 DEF Result
    <2>3. IsInjective(ctrls') /\ Range(ctrls') = Range(ctrls) \cup {r.id}
        BY <2>1, <2>2, AppendFresh
    <2>4. ctrls' \in Seq(Ctrls) /\ Len(ctrls') = recvd[p] + 1
        BY <1>1, <2>1, <2>2
    <2>5. Len(ctrls') <= Cardinality(Ctrls)
        BY <2>3, <2>4, CtrlsAssumption, InjectiveSeqCard
    <2>6. CTypeOK'
        BY <1>3, <1>4, <2>1, <2>4, <2>5 DEF CallerPC
    <2>7. CasInv'
        BY <1>1, <1>4
    <2>8. ChanInv' /\ OnceOnly'
        <3>1. lpc[r.id] = "sent"
            BY <1>2
        <3>2. QED
            BY <1>3, <1>4, <2>1, <2>3, <3>1
    <2>9. LoopInv'
        <3>1. Len(ctrls') = recvd'[winner']
            BY <1>1, <1>4, <2>1, <2>4
        <3>2. cpc'[p] = "ready" => Len(ctrls') = Cardinality(Ctrls)
            BY <1>1, <2>1, <2>4, CtrlsCard
        <3>3. QED
            BY <1>1, <1>4, <2>1, <3>1, <3>2
    <2>10. QED
        BY <2>6, <2>7, <2>8, <2>9
<1>7. QED
    BY <1>5, <1>6


\* Lines 58-64: a lookup by a winner without error finds the slice and the
\* map holding every controller.
LEMMA LookupStep ==
  ASSUME CInv, NEW p \in Callers,
         GetRandomCtrl(p) \/ \E c \in Ctrls : GetCtrl(p, c)
  PROVE  CInv'
<1> USE DEF CInv, CTypeOK, CasInv, ChanInv, OnceOnly, LoopInv
<1>1. /\ cpc[p] = "ready" /\ cpc' = [cpc EXCEPT ![p] = "done"]
      /\ \E g \in Got : got' = [got EXCEPT ![p] = g]
      /\ UNCHANGED <<initialized, ctrls, ctrlMap, lpc, resultC, recvd, winner, erred>>
    BY DEF GetRandomCtrl, GetCtrl, Got
<1>2. p = winner /\ winner \notin erred =>
        \/ got'[p] \in Ctrls
        \/ Ctrls = {} /\ got'[p] = "panic"
    <2> SUFFICES ASSUME p = winner, winner \notin erred
                 PROVE  \/ got'[p] \in Ctrls
                        \/ Ctrls = {} /\ got'[p] = "panic"
        OBVIOUS
    <2>1. Len(ctrls) = Cardinality(Ctrls) /\ winner \in Callers
        BY <1>1
    <2>2. CASE Ctrls # {}
        <3>1. Range(ctrls) = Ctrls /\ ctrls # <<>>
            BY <2>1, <2>2, CtrlsAssumption, CtrlsCard, InjectiveSeqCard
        <3>2. CASE GetRandomCtrl(p)
            BY <3>1, <3>2 DEF GetRandomCtrl
        <3>3. CASE \E c \in Ctrls : GetCtrl(p, c)
            BY <3>1, <3>3 DEF GetCtrl
        <3>4. QED
            BY <3>2, <3>3
    <2>3. CASE Ctrls = {}
        <3>1. ctrls = <<>>
            BY <2>1, <2>3, CtrlsCard
        <3>2. GetRandomCtrl(p)
            BY <2>3
        <3>3. QED
            BY <2>3, <3>1, <3>2 DEF GetRandomCtrl
    <2>4. QED
        BY <2>2, <2>3
<1>3. PICK g \in Got : got' = [got EXCEPT ![p] = g]
    BY <1>1
<1>4. CTypeOK'
    BY <1>1, <1>3 DEF CallerPC
<1>5. (CasInv /\ ChanInv /\ OnceOnly)'
    BY <1>1 DEF Pending
<1>6. LoopInv'
    <2>1. \A q \in Callers : cpc'[q] # "done" => got'[q] = "none"
        BY <1>1, <1>3
    <2>2. \A q \in Callers : cpc'[q] = "recv" => cpc[q] = "recv" /\ recvd'[q] = recvd[q]
        BY <1>1
    <2>3. \A q \in Callers : cpc'[q] = "failed" => cpc[q] = "failed"
        BY <1>1
    <2>4. winner \in Callers \ erred =>
            /\ cpc'[winner] \in {"recv", "ready", "done"}
            /\ cpc'[winner] \in {"ready", "done"} => Len(ctrls) = Cardinality(Ctrls)
            /\ cpc'[winner] = "done" =>
                 \/ got'[winner] \in Ctrls
                 \/ Ctrls = {} /\ got'[winner] = "panic"
        BY <1>1, <1>2, <1>3
    <2>5. QED
        BY <1>1, <2>1, <2>2, <2>3, <2>4
<1>7. QED
    BY <1>4, <1>5, <1>6

\* A caller whose Init failed calls it again, and the steps that change
\* nothing.
LEMMA RetryStep ==
  ASSUME CInv, NEW p \in Callers, Retry(p)
  PROVE  CInv'
<1> USE DEF CInv, CTypeOK, CasInv, ChanInv, OnceOnly, LoopInv
<1>1. /\ cpc[p] = "failed" /\ cpc' = [cpc EXCEPT ![p] = "call"]
      /\ UNCHANGED <<initialized, ctrls, ctrlMap, lpc, resultC, recvd, got, winner, erred>>
    BY DEF Retry
<1>2. p \in erred /\ got[p] = "none"
    BY <1>1
<1>3. CTypeOK'
    BY <1>1 DEF CallerPC
<1>4. (CasInv /\ ChanInv /\ OnceOnly)'
    BY <1>1 DEF Pending
<1>5. LoopInv'
    BY <1>1, <1>2
<1>6. QED
    BY <1>3, <1>4, <1>5

LEMMA NextCInv == CInv /\ [Next]_vars => CInv'
<1> SUFFICES ASSUME CInv, [Next]_vars PROVE CInv'
    OBVIOUS
<1>1. ASSUME NEW p \in Callers, Caller(p) PROVE CInv'
    BY <1>1, InitCASStep, InitRecvStep, LookupStep DEF Caller
<1>2. ASSUME Finished \/ UNCHANGED vars PROVE CInv'
    BY <1>2 DEF Finished, vars, CInv, CTypeOK, CasInv, ChanInv, OnceOnly,
                LoopInv, Pending
<1>3. QED
    BY <1>1, <1>2, RetryStep, LoginSendStep DEF Next

-----------------------------------------------------------------------------
(* Init runs the logins once, for any number of controllers and callers:  *)
(* self.ctrls never holds a controller's client twice and always agrees   *)
(* with self.ctrlMap, however the CAS of line 20 and the login goroutines  *)
(* interleave and whichever results are errors.                           *)
THEOREM LoginsOnce == Spec => []OnceOnly
<1>1. CInv => OnceOnly
    BY DEF CInv
<1>2. QED
    BY InitCInv, NextCInv, <1>1, PTL DEF Spec

(* The caller that won the CAS and got nil from Init never gets a nil    *)
(* client from GetCtrl or GetRandomCtrl, for any finite number of         *)
(* controllers, none included: the loop of lines 47-55 leaves only after  *)
(* a client from every controller.  It gets the panic of rand.IntN(0)     *)
(* only when the selector selected no controller.                         *)
THEOREM WinnerServed == Spec => []WinnerGetsClient
<1>1. CInv => WinnerGetsClient
    BY CtrlsAreClients DEF CInv, LoopInv, WinnerGetsClient
<1>2. QED
    BY InitCInv, NextCInv, <1>1, PTL DEF Spec

(* Every variable of the pool keeps its type, and the slice never holds   *)
(* more clients than there are controllers.                              *)
THEOREM CTypeCorrect == Spec => []CTypeOK
<1>1. CInv => CTypeOK
    BY DEF CInv
<1>2. QED
    BY InitCInv, NextCInv, <1>1, PTL DEF Spec


-----------------------------------------------------------------------------
\* A step leaves the pool alone or grows it: only the CAS winner's first
\* InitCAS resets the map, when it is still empty, and InitRecv appends.
LEMMA NextPoolStep == CInv /\ [Next]_vars => [PoolStep]_<<ctrls, ctrlMap>>
<1> SUFFICES ASSUME CInv, [Next]_vars PROVE [PoolStep]_<<ctrls, ctrlMap>>
    OBVIOUS
<1> USE DEF PoolStep
<1>1. ASSUME NEW p \in Callers, InitCAS(p) PROVE PoolStep
    <2>1. CASE CASWins
        BY <1>1, <2>1 DEF InitCAS, CASWins, CInv, CasInv
    <2>2. CASE ~CASWins
        BY <1>1, <2>2 DEF InitCAS
    <2>3. QED
        BY <2>1, <2>2
<1>2. ASSUME NEW p \in Callers, InitRecv(p) PROVE PoolStep
    <2>1. ctrls \in Seq(Ctrls)
        BY DEF CInv, CTypeOK
    <2>2. CASE RecvErr(Head(resultC))
        BY <1>2, <2>2 DEF InitRecv
    <2>3. CASE ~RecvErr(Head(resultC))
        <3>1. /\ ctrls' = Append(ctrls, Head(resultC).clients)
              /\ ctrlMap' = ctrlMap \cup {Head(resultC).id}
            BY <1>2, <2>3 DEF InitRecv
        <3>2. QED
            BY <2>1, <3>1
    <2>4. QED
        BY <2>2, <2>3
<1>3. ASSUME NEW p \in Callers,
             \/ GetRandomCtrl(p) \/ \E c \in Ctrls : GetCtrl(p, c)
             \/ Retry(p)
      PROVE  UNCHANGED <<ctrls, ctrlMap>>
    BY <1>3 DEF GetRandomCtrl, GetCtrl, Retry
<1>4. ASSUME NEW c \in Ctrls, LoginSend(c) PROVE UNCHANGED <<ctrls, ctrlMap>>
    BY <1>4 DEF LoginSend
<1>5. ASSUME Finished \/ UNCHANGED vars PROVE UNCHANGED <<ctrls, ctrlMap>>
    BY <1>5 DEF Finished, vars
<1>6. QED
    BY <1>1, <1>2, <1>3, <1>4, <1>5 DEF Next, Caller

(* The strengthened invariant of the pool holds in every reachable state, *)
(* for any number of callers and controllers: the CAS of line 20 splits   *)
(* the pool's life in two, the channel holds each login's result once,    *)
(* and the receive loop of lines 47-55 counts the slice.                   *)
THEOREM PoolInductive == Spec => []CInv
BY InitCInv, NextCInv, PTL DEF Spec

(* The pool only grows, for any number of callers and controllers: no     *)
(* later Init clears the map of line 24 or drops a client of the slice    *)
(* once the first Init has started filling them.                          *)
THEOREM PoolOnlyGrows == Spec => PoolGrows
<1>1. []CInv /\ [][Next]_vars => [][PoolStep]_<<ctrls, ctrlMap>>
    BY NextPoolStep, PTL
<1>2. QED
    BY <1>1, PoolInductive, PTL DEF Spec, PoolGrows

-----------------------------------------------------------------------------
\* An injective sequence has as many distinct elements as it is long.
LEMMA InjectiveSeqRange ==
  ASSUME NEW S, NEW s \in Seq(S), IsInjective(s)
  PROVE  Cardinality(Range(s)) = Len(s)
<1>1. s \in Bijection(1..Len(s), Range(s))
    BY DEF Bijection, Injection, Surjection, IsInjective, Range
<1>2. ExistsBijection(1..Len(s), Range(s))
    BY <1>1 DEF ExistsBijection
<1>3. QED
    BY <1>2, FS_CountingElements

LEMMA InitPoolRefines == Init => P!AInit
BY DEF Init, P!AInit, AbsPC

\* The CAS of line 20: its winner starts the pool, which is still empty;
\* a loser skips.
LEMMA InitCASRefines ==
  ASSUME CInv, NEW p \in Callers, InitCAS(p)
  PROVE  P!Start(p) \/ P!Skip(p)
<1> USE DEF P!Start, P!Skip, AbsPC
<1>1. CASE CASWins
    <2>1. LoopBound > 0 <=> Ctrls # {}
        BY CtrlsCard DEF LoopBound
    <2>2. /\ ~initialized /\ initialized' /\ ctrlMap = {} /\ ctrlMap' = {}
          /\ cpc[p] = "call"
          /\ cpc' = [cpc EXCEPT ![p] = IF Ctrls = {} THEN "ready" ELSE "recv"]
          /\ got' = got
        BY <1>1, <2>1 DEF InitCAS, CASWins, CInv, CasInv
    <2>3. cpc \in [Callers -> CallerPC]
        BY DEF CInv, CTypeOK
    <2>4. QED
        BY <2>2, <2>3
<1>2. CASE ~CASWins
    <2>1. /\ initialized /\ UNCHANGED <<initialized, ctrlMap, got>>
          /\ cpc[p] = "call" /\ cpc' = [cpc EXCEPT ![p] = "ready"]
        BY <1>2 DEF InitCAS, CASWins
    <2>2. cpc \in [Callers -> CallerPC]
        BY DEF CInv, CTypeOK
    <2>3. QED
        BY <2>1, <2>2
<1>3. QED
    BY <1>1, <1>2

\* One iteration of the receive loop of lines 47-55: an error fails Init;
\* a client adds its controller, which the pool did not hold, and the loop
\* ends exactly when the pool holds every controller.
LEMMA InitRecvRefines ==
  ASSUME CInv, NEW p \in Callers, InitRecv(p)
  PROVE  P!Fail(p) \/ \E c \in Ctrls : P!Add(p, c)
<1> USE DEF AbsPC
<1> DEFINE r == Head(resultC)
<1>1. /\ cpc[p] = "recv" /\ resultC # <<>>
      /\ p = winner /\ recvd[p] < Cardinality(Ctrls)
      /\ Len(ctrls) = recvd[p] /\ recvd[p] \in Nat
      /\ cpc \in [Callers -> CallerPC]
      /\ UNCHANGED <<initialized, got>>
    BY DEF InitRecv, CInv, CTypeOK, CasInv, LoopInv
<1>2. /\ r \in Result /\ r.id \in Pending
      /\ r.clients = IF r.err THEN "nil" ELSE r.id
    <2>1. 1 \in 1..Len(resultC) /\ r = resultC[1] /\ resultC \in Seq(Result)
        BY <1>1 DEF CInv, CTypeOK
    <2>2. r \in Result
        BY ONLY <2>1
    <2>3. r.id \in Pending
        BY ONLY <2>1 DEF Pending
    <2>4. \A i \in 1..Len(resultC) :
            resultC[i].clients = IF resultC[i].err THEN "nil" ELSE resultC[i].id
        BY DEF CInv, ChanInv
    <2>5. r.clients = IF r.err THEN "nil" ELSE r.id
        BY ONLY <2>1, <2>4
    <2>6. QED
        BY ONLY <2>2, <2>3, <2>5
<1>3. CASE r.err
    <2>1. /\ cpc' = [cpc EXCEPT ![p] = "failed"] /\ ctrlMap' = ctrlMap
        BY <1>3 DEF InitRecv, RecvErr
    <2>2. QED
        BY <1>1, <2>1 DEF P!Fail
<1>4. CASE ~r.err
    <2>1. /\ ctrls' = Append(ctrls, r.id) /\ ctrlMap' = ctrlMap \cup {r.id}
          /\ cpc' = [cpc EXCEPT ![p] = IF recvd[p] + 1 < Cardinality(Ctrls)
                                         THEN "recv" ELSE "ready"]
        BY <1>2, <1>4 DEF InitRecv, RecvErr, LoopBound
    <2>2. /\ r.id \in Ctrls /\ r.id \notin Range(ctrls)
          /\ ctrls \in Seq(Ctrls) /\ IsInjective(ctrls) /\ Range(ctrls) = ctrlMap
        BY <1>2 DEF Result, CInv, CTypeOK, ChanInv, OnceOnly
    <2>3. /\ IsInjective(ctrls') /\ ctrls' \in Seq(Ctrls)
          /\ Range(ctrls') = ctrlMap'
          /\ Len(ctrls') = recvd[p] + 1
        BY <1>1, <2>1, <2>2, AppendFresh
    <2>4. ctrlMap' = Ctrls <=> ~(recvd[p] + 1 < Cardinality(Ctrls))
        <3>1. Cardinality(ctrlMap') = recvd[p] + 1
            BY <2>3, InjectiveSeqRange
        <3>2. Cardinality(Ctrls) \in Nat
            BY CtrlsCard
        <3>3. ~(recvd[p] + 1 < Cardinality(Ctrls)) => ctrlMap' = Ctrls
            BY <1>1, <2>3, <3>2, CtrlsAssumption, InjectiveSeqCard
        <3>4. ctrlMap' = Ctrls => ~(recvd[p] + 1 < Cardinality(Ctrls))
            BY <1>1, <3>1, <3>2
        <3>5. QED
            BY <3>3, <3>4
    <2>5. r.id \notin ctrlMap
        BY <2>2
    <2>6. \E c \in Ctrls : P!Add(p, c)
        BY <1>1, <2>1, <2>2, <2>4, <2>5 DEF P!Add
    <2>7. QED
        BY <2>6
<1>5. QED
    BY <1>3, <1>4

\* Lines 58-64: the slice and the map hold the same clients, so a random
\* pick from the slice is a pick from the pool, and it panics exactly when
\* the pool is empty.
LEMMA LookupRefines ==
  ASSUME CInv, NEW p \in Callers,
         GetRandomCtrl(p) \/ \E c \in Ctrls : GetCtrl(p, c)
  PROVE  P!RandomLookup(p) \/ \E c \in Ctrls : P!Lookup(p, c)
<1> USE DEF AbsPC
<1>1. /\ cpc \in [Callers -> CallerPC] /\ ctrls \in Seq(Ctrls)
      /\ Range(ctrls) = ctrlMap
    BY DEF CInv, CTypeOK, OnceOnly
<1>2. CASE GetRandomCtrl(p)
    <2>1. ctrls = <<>> <=> ctrlMap = {}
        <3>1. ctrls # <<>> => ctrls[1] \in Range(ctrls)
            BY <1>1 DEF Range
        <3>2. ctrls = <<>> => Range(ctrls) = {}
            BY DEF Range
        <3>3. QED
            BY <1>1, <3>1, <3>2
    <2>2. \A k \in 1..Len(ctrls) : ctrls[k] \in ctrlMap
        BY <1>1 DEF Range
    <2>3. P!RandomLookup(p)
        BY <1>1, <1>2, <2>1, <2>2 DEF GetRandomCtrl, P!RandomLookup
    <2>4. QED
        BY <2>3
<1>3. CASE \E c \in Ctrls : GetCtrl(p, c)
    <2>1. PICK c \in Ctrls : GetCtrl(p, c)
        BY <1>3
    <2>2. /\ cpc[p] = "ready" /\ cpc' = [cpc EXCEPT ![p] = "done"]
          /\ got' = [got EXCEPT ![p] = IF c \in ctrlMap THEN c ELSE "nil"]
          /\ UNCHANGED <<initialized, ctrlMap>>
        BY <2>1 DEF GetCtrl
    <2>3. [q \in Callers |-> AbsPC(cpc'[q])]
            = [[q \in Callers |-> AbsPC(cpc[q])] EXCEPT ![p] = "done"]
        BY <1>1, <2>2
    <2>4. P!Lookup(p, c)
        BY <2>2, <2>3 DEF P!Lookup
    <2>5. QED
        BY <2>4
<1>4. QED
    BY <1>2, <1>3

LEMMA NextPoolRefines == CInv /\ [Next]_vars => [P!ANext]_P!avars
<1> SUFFICES ASSUME CInv, [Next]_vars PROVE [P!ANext]_P!avars
    OBVIOUS
<1>1. ASSUME NEW p \in Callers, Caller(p) PROVE P!ANext
    <2>1. P!ACaller(p)
        BY <1>1, InitCASRefines, InitRecvRefines, LookupRefines DEF Caller, P!ACaller
    <2>2. QED
        BY <2>1 DEF P!ANext
<1>2. ASSUME NEW p \in Callers, Retry(p) PROVE P!ANext
    <2>1. cpc \in [Callers -> CallerPC]
        BY DEF CInv, CTypeOK
    <2>2. P!Again(p)
        BY <1>2, <2>1 DEF Retry, P!Again, AbsPC
    <2>3. QED
        BY <2>2 DEF P!ANext
<1>3. ASSUME NEW c \in Ctrls, LoginSend(c) PROVE UNCHANGED P!avars
    BY <1>3 DEF LoginSend, P!avars
<1>4. ASSUME Finished \/ UNCHANGED vars PROVE UNCHANGED P!avars
    BY <1>4 DEF Finished, vars, P!avars
<1>5. QED
    BY <1>1, <1>2, <1>3, <1>4 DEF Next

(* Init and the lookups implement the safety part of CtrlPool for any     *)
(* number of callers and controllers: the login goroutines and the        *)
(* buffered channel of lines 26-45, whatever order the results come in,  *)
(* only ever add a controller the pool lacks; the first caller returns    *)
(* nil exactly when the pool holds every controller; a lookup answers     *)
(* from the pool.                                                         *)
THEOREM PoolRefines == Spec => P!SafeSpec
<1>1. []CInv /\ [][Next]_vars => [][P!ANext]_P!avars
    BY NextPoolRefines, PTL
<1>2. QED
    BY <1>1, PoolInductive, InitPoolRefines, PTL DEF Spec, P!SafeSpec

====
