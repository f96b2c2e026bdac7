------------------------------- MODULE CtrlPool -------------------------------
(***************************************************************************)
(* What the controller client pool of ctrls.go promises, without its       *)
(* login goroutines, its result channel and its slice.  The first caller   *)
(* of Init starts the pool; it adds the client of each controller at most  *)
(* once and returns nil only once the pool holds every controller (at once *)
(* when none is selected), or returns an error.  A later caller returns    *)
(* nil at once, whatever the pool holds.  A lookup returns a client of the *)
(* pool, nil for a missing controller, or the panic of a random pick from  *)
(* an empty pool.                                                          *)
(***************************************************************************)
EXTENDS FiniteSets

CONSTANTS Callers, Ctrls

VARIABLES
  started,  \* Init has been entered by a first caller
  pool,     \* the controllers whose client is in the pool
  apc,      \* apc[p]: "call", "init", "ready", "failed" or "done"
  got       \* got[p]: what caller p's lookup returned

avars == <<started, pool, apc, got>>

AInit ==
  /\ started = FALSE /\ pool = {}
  /\ apc = [p \in Callers |-> "call"]
  /\ got = [p \in Callers |-> "none"]

Start(p) ==
  /\ apc[p] = "call" /\ ~started
  /\ started' = TRUE
  /\ apc' = [apc EXCEPT ![p] = IF Ctrls = {} THEN "ready" ELSE "init"]
  /\ UNCHANGED <<pool, got>>

Skip(p) ==
  /\ apc[p] = "call" /\ started
  /\ apc' = [apc EXCEPT ![p] = "ready"]
  /\ UNCHANGED <<started, pool, got>>

Add(p, c) ==
  /\ apc[p] = "init" /\ c \notin pool
  /\ pool' = pool \cup {c}
  /\ apc' = [apc EXCEPT ![p] = IF pool' = Ctrls THEN "ready" ELSE "init"]
  /\ UNCHANGED <<started, got>>

Fail(p) ==
  /\ apc[p] = "init"
  /\ apc' = [apc EXCEPT ![p] = "failed"]
  /\ UNCHANGED <<started, pool, got>>

RandomLookup(p) ==
  /\ apc[p] = "ready"
  /\ \/ pool = {} /\ got' = [got EXCEPT ![p] = "panic"]
     \/ \E c \in pool : got' = [got EXCEPT ![p] = c]
  /\ apc' = [apc EXCEPT ![p] = "done"]
  /\ UNCHANGED <<started, pool>>

Lookup(p, c) ==
  /\ apc[p] = "ready"
  /\ got' = [got EXCEPT ![p] = IF c \in pool THEN c ELSE "nil"]
  /\ apc' = [apc EXCEPT ![p] = "done"]
  /\ UNCHANGED <<started, pool>>

Again(p) ==
  /\ apc[p] = "failed"
  /\ apc' = [apc EXCEPT ![p] = "call"]
  /\ UNCHANGED <<started, pool, got>>

ACaller(p) ==
  \/ Start(p) \/ Skip(p) \/ Fail(p) \/ RandomLookup(p)
  \/ \E c \in Ctrls : Add(p, c) \/ Lookup(p, c)

ANext == \E p \in Callers : ACaller(p) \/ Again(p)

SafeSpec == AInit /\ [][ANext]_avars

\* Every call of Init returns and every lookup is made.
ASpec == SafeSpec /\ \A p \in Callers : WF_avars(ACaller(p))

====
