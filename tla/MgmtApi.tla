------------------------------- MODULE MgmtApi -------------------------------
(***************************************************************************)
(* The management-API helpers of the test harness,                         *)
(* src/zttest/ztlab/models/api.go, and the controller they call.           *)
(*                                                                         *)
(* Every helper builds a context.WithTimeout, sends one REST request and   *)
(* returns when the reply arrives or the deadline passes.  The controller  *)
(* (the environment) applies a request when it gets to it, which may be    *)
(* after the caller's deadline; its reply to an abandoned call is dropped. *)
(* An entity of a kind is named by its (unique) name and holds a value per *)
(* field.  *FromDetail sends back a whole detail read earlier with one     *)
(* field changed; PatchIdentity sends only the fields it changes.  Which   *)
(* helpers a kind has, and what its create returns, is the table Api.      *)
(***************************************************************************)
EXTENDS Naturals, FiniteSets

CONSTANTS Callers, Kinds, Names, Fields, MaxCalls, Absent

\* MaxCalls is a natural number; Absent is no Value; Kinds are rows of Api.

Value == [Fields -> 0..1]
Zero == [f \in Fields |-> 0]

\* One row per block of api.go: does the kind have Delete, what its Create
\* returns ("id": the id, dereferencing the payload; "idOrEmpty":
\* "" and err when the payload is missing; "err": the error only), how
\* *FromDetail behaves ("maybeUnhandled": a type switch with an error
\* default), and whether it has a Patch.
ServiceApi ==
  [delete |-> TRUE, create |-> "id", fromDetail |-> "always", patch |-> FALSE]
IdentityApi ==
  [delete |-> TRUE, create |-> "err", fromDetail |-> "always", patch |-> TRUE]
ServicePolicyApi ==
  [delete |-> TRUE, create |-> "err", fromDetail |-> "always", patch |-> FALSE]
ConfigApi ==
  [delete |-> TRUE, create |-> "err", fromDetail |-> "always", patch |-> FALSE]
ConfigTypeApi ==
  [delete |-> TRUE, create |-> "err", fromDetail |-> "always", patch |-> FALSE]
PostureCheckApi ==
  [delete |-> TRUE, create |-> "err", fromDetail |-> "maybeUnhandled", patch |-> FALSE]
EdgeRouterApi ==
  [delete |-> FALSE, create |-> "idOrEmpty", fromDetail |-> "none", patch |-> FALSE]

Api == [service |-> ServiceApi, identity |-> IdentityApi,
        servicePolicy |-> ServicePolicyApi, config |-> ConfigApi,
        configType |-> ConfigTypeApi, postureCheck |-> PostureCheckApi,
        edgeRouter |-> EdgeRouterApi]

Ops == {"list", "create", "delete", "update", "patch"}
Request == [caller : Callers, seq : Nat, kind : Kinds, op : Ops, name : Names,
            val : Value, changed : SUBSET Fields]
Reply == [caller : Callers, seq : Nat, ok : BOOLEAN, data : Value \cup {Absent}]
\* What a helper returned to its caller: nothing yet, an error, success
\* (with a listed value, an id, or the empty id ""), or a panic.
Outcome == [res : {"none", "err", "ok", "emptyId", "panic"}, op : Ops \cup {"none"}]

VARIABLES
  store,     \* store[k][n]: the controller's entity k/n, or Absent
  net,       \* requests sent and not yet applied (abandoned ones included)
  replies,   \* replies on their way back
  cpc,       \* cpc[p]: "idle", "wait" (in a helper) or "crashed"
  seq,       \* seq[p]: the number of calls p has made
  detail,    \* detail[p]: the entity p last listed, for *FromDetail
  outcome,   \* outcome[p]: what p's last helper returned
  applied    \* history: the requests the controller has applied

vars == <<store, net, replies, cpc, seq, detail, outcome, applied>>

NoDetail == [kind |-> "none", name |-> "none", val |-> Absent]

Init ==
  /\ store \in [Kinds -> [Names -> {Absent, Zero}]]
  /\ net = {} /\ replies = {} /\ applied = {}
  /\ cpc = [p \in Callers |-> "idle"]
  /\ seq = [p \in Callers |-> 0]
  /\ detail = [p \in Callers |-> NoDetail]
  /\ outcome = [p \in Callers |-> [res |-> "none", op |-> "none"]]

\* Lines 20-26 and their like in every helper: a new context with a
\* deadline, and the request sent.
Send(p, k, op, n, v, ch) ==
  /\ cpc[p] = "idle" /\ seq[p] < MaxCalls
  /\ net' = net \cup {[caller |-> p, seq |-> seq[p] + 1, kind |-> k, op |-> op,
                       name |-> n, val |-> v, changed |-> ch]}
  /\ seq' = [seq EXCEPT ![p] = seq[p] + 1]
  /\ cpc' = [cpc EXCEPT ![p] = "wait"]
  /\ UNCHANGED <<store, replies, detail, outcome, applied>>

\* List*, Get*Id (lines 19-43), Create* and Delete* of a kind that has them.
CallList(p, k, n) == Send(p, k, "list", n, Zero, {})
CallCreate(p, k, n) == Send(p, k, "create", n, Zero, {})
CallDelete(p, k, n) == Api[k].delete /\ Send(p, k, "delete", n, Zero, {})

\* Update*FromDetail (lines 73-84): the update carries every field of the
\* detail p listed, one of them changed, and overwrites every field.  A posture check of a
\* type the switch does not handle returns an error before any request.
CallUpdateFromDetail(p, f) ==
  LET d == detail[p] IN
  /\ d.val # Absent
  /\ Api[d.kind].fromDetail # "none"
  /\ \/ Send(p, d.kind, "update", d.name, [d.val EXCEPT ![f] = 1], Fields)
     \/ /\ Api[d.kind].fromDetail = "maybeUnhandled"
        /\ cpc[p] = "idle" /\ seq[p] < MaxCalls
        /\ seq' = [seq EXCEPT ![p] = seq[p] + 1]
        /\ outcome' = [outcome EXCEPT ![p] = [res |-> "err", op |-> "update"]]
        /\ UNCHANGED <<store, net, replies, cpc, detail, applied>>

\* PatchIdentity (lines 181-192): only the changed field is sent.
CallPatch(p, k, n, f) ==
  Api[k].patch /\ Send(p, k, "patch", n, [Zero EXCEPT ![f] = 1], {f})

\* The controller applies request r and replies.  A list reports the entity
\* (Absent: an empty list); create fails on a name in use; delete, update
\* and patch fail on a missing entity.  A create's reply may carry no data.
Apply(r) ==
  LET e == store[r.kind][r.name]
      ok == CASE r.op = "list"   -> TRUE
              [] r.op = "create" -> e = Absent
              [] OTHER           -> e # Absent
      new == CASE ~ok             -> e
               [] r.op = "create" -> Zero
               [] r.op = "delete" -> Absent
               [] r.op = "update" -> r.val
               [] r.op = "patch"  -> [f \in Fields |-> IF f \in r.changed THEN r.val[f] ELSE e[f]]
               [] OTHER           -> e
  IN
  /\ r \in net
  /\ net' = net \ {r}
  /\ store' = [store EXCEPT ![r.kind][r.name] = new]
  /\ \E data \in IF r.op = "create" /\ ok THEN {new, Absent} ELSE {new} :
       replies' = replies \cup {[caller |-> r.caller, seq |-> r.seq, ok |-> ok, data |-> data]}
  /\ applied' = applied \cup {r}
  /\ UNCHANGED <<cpc, seq, detail, outcome>>

\* What a create returns: CreateService (54-58) dereferences
\* resp.Payload.Data; CreateEdgeRouter (517-521) returns ("", err), with a
\* nil err, when Payload or Data is nil.
CreateOutcome(k, data) ==
  CASE Api[k].create = "id" /\ data = Absent        -> "panic"
    [] Api[k].create = "idOrEmpty" /\ data = Absent -> "emptyId"
    [] OTHER                                        -> "ok"

\* The helper returns with the reply to its current call (lines 28-31,
\* 36-42, 54-58, 70, 517-521).
Receive(p) ==
  \E m \in replies :
    /\ m.caller = p /\ m.seq = seq[p] /\ cpc[p] = "wait"
    /\ LET r == CHOOSE q \in applied : q.caller = p /\ q.seq = seq[p]
           res == CASE ~m.ok            -> "err"
                    [] r.op = "create" -> CreateOutcome(r.kind, m.data)
                    [] OTHER            -> "ok"
       IN /\ outcome' = [outcome EXCEPT ![p] = [res |-> res, op |-> r.op]]
          /\ cpc' = IF res = "panic" THEN [q \in Callers |-> "crashed"]
                                      ELSE [cpc EXCEPT ![p] = "idle"]
          /\ detail' = [detail EXCEPT ![p] =
                          IF r.op = "list" /\ m.ok /\ m.data # Absent
                            THEN [kind |-> r.kind, name |-> r.name, val |-> m.data]
                            ELSE detail[p]]
    /\ replies' = replies \ {m}
    /\ UNCHANGED <<store, net, seq, applied>>

\* ctx's deadline passes first: the helper returns the context's error.
\* The request may still be applied later.
Timeout(p) ==
  /\ cpc[p] = "wait"
  /\ cpc' = [cpc EXCEPT ![p] = "idle"]
  /\ outcome' = [outcome EXCEPT ![p] = [res |-> "err", op |-> "none"]]
  /\ UNCHANGED <<store, net, replies, seq, detail, applied>>

\* A reply that no call waits for any more is dropped.
DropReply(m) ==
  /\ m \in replies /\ (m.seq # seq[m.caller] \/ cpc[m.caller] # "wait")
  /\ replies' = replies \ {m}
  /\ UNCHANGED <<store, net, cpc, seq, detail, outcome, applied>>

Caller(p) ==
  \/ \E k \in Kinds, n \in Names :
       CallList(p, k, n) \/ CallCreate(p, k, n) \/ CallDelete(p, k, n)
         \/ \E f \in Fields : CallPatch(p, k, n, f)
  \/ \E f \in Fields : CallUpdateFromDetail(p, f)
  \/ Receive(p) \/ Timeout(p)

\* Every caller has made its calls and returned (or crashed).
Quiet ==
  /\ \A p \in Callers : cpc[p] = "crashed" \/ (cpc[p] = "idle" /\ seq[p] = MaxCalls)
  /\ net = {} /\ replies = {}
  /\ UNCHANGED vars

Next ==
  \/ \E p \in Callers : Caller(p)
  \/ \E r \in net : Apply(r)
  \/ \E m \in replies : DropReply(m)
  \/ Quiet

Spec == Init /\ [][Next]_vars

-----------------------------------------------------------------------------

\* A create that returns a nil error returns the id of the entity it
\* created: never the empty id (line 517).
CreateReturnsId == \A p \in Callers : outcome[p].res # "emptyId"

====
