# Formal models of hanzoai/zt

This directory holds TLA+ models of the Go code under `src/`, the TLC configurations that
check them, and TLAPS proofs about them. PROJECT.json lists the components, the runs, one
mutant per checked property, the line map, the findings and the hazards.

## 1. The system and its parts

| Component | Source | Module(s) | Status |
|---|---|---|---|
| Relay engine | `tunnel/tunnel.go` `Run`, `myCopy` (86-147) | `Relay`, `RelayProofs`, `RelayAbstract`, `RelayRefinement` | modelled |
| Circuit dialer | `tunnel/tunnel.go` `DialAndRun` (41-54) | `Tunnel`, `TunnelProofs` | modelled |
| Address / metadata helpers | `tunnel/tunnel.go` `GetIpAndPort`, `GetAppInfo` (56-84) | `AddrInfo` | partly |
| Controller client pool | `zttest/ztlab/models/ctrls.go` | `CtrlClients`, `CtrlClientsProofs`, `CtrlPool` | modelled |
| Management API helpers | `zttest/ztlab/models/api.go` | `MgmtApi` | partly |
| Binary staging | `zttest/ztlab/stagezt/stagezt.go` | `StageZt`, `StageZtProofs` | modelled |
| zcat demo | `zt/cmd/demo/zcat.go` (84-165) | `Zcat`, `ZcatProofs`, `ZcatAbstract`, `ZcatRefinement` | modelled |
| Fabric interface, echo client, CLI, enrolment actions, harness topologies | the rest of `src/` | none | not modelled (see 7) |

How they interact:

- A listener accepts a client connection and calls `DialAndRun`. `DialAndRun` marshals the
  appInfo map (built by `GetAppInfo`, from the address split by `GetIpAndPort`) and asks the
  fabric provider for a circuit. On failure it closes the client. On success the provider
  runs `Run(ztConn, clientConn, halfClose)`.
- `Run` starts two `myCopy` goroutines, one per direction. They share no memory: they
  interact through the connections (the deferred close of one acts on the connection the
  other reads) and hand their counts to Run over two unbuffered channels.
- `zcat` is a second, independent copier with its own half-close policy.
- The test harness logs in to controllers once (`CtrlClients.Init`, racing callers), drives
  them through the management API helpers (timed REST calls on a shared store), and stages
  binaries into a bin directory that persists between runs.

## 2. What is hard in this code

- Goroutines interleaving with remote ends that may send, half-close or reset at any moment
  (`Run`/`myCopy`, `zcat`).
- A close policy chosen at run time (`halfClose`, `edge.CloseWriter`); a full close of a
  connection the other goroutine still reads cuts it off.
- Unbuffered joins: every goroutine must send exactly once or Run blocks forever.
- A compare-and-swap that lets a losing caller return before the winner has finished.
- Read-modify-write REST updates and timeouts racing late replies.
- State on disk (the bin directory) surviving a crash half-way through a staging.

The hazards, each at the line where it bites and with the properties that cover it, are in
PROJECT.json.

## 3. The models

### Relay.tla (src/tunnel/tunnel.go 86-147)

A pump is named by the connection it reads. Pump `Circuit` is
`myCopy(clientConn, ztConn, doneSend)`, which fills `n1`. Pump `Client` fills `n2`.

| Code | Model |
|---|---|
| `halfClose`, `dst.(edge.CloseWriter)` | `halfClose`, `closeWriter[c]` (chosen in Init) |
| `Close()`, `CloseWrite()` on a connection | `closed[c]`, `wclosed[c]` |
| io.CopyBuffer read: error / data / EOF | `myCopyReadError`, `myCopyReadData`, `myCopyReadEOF` |
| io.CopyBuffer write: error / success | `myCopyWriteError`, `myCopyWriteOK` (`copied`, `delivered`) |
| `done <- n` meeting Run's `select` (unbuffered) | `myCopyReport` (one step: a rendezvous) |
| deferred close of myCopy, test of line 127 | `myCopyClose`, `HalfCloses` |
| deferred close of Run | `RunClose` |
| the remote ends (environment) | `PeerSend`, `PeerCloseWrite`, `PeerReset` |

Semantics of the connection, taken from Go's `net`:

- A read of a closed or reset connection fails.
- A write to a closed, write-closed or reset connection fails.
- A read returns buffered bytes first, then EOF after the remote end's FIN.
- Bytes are counted, not named: every property is about how many arrive.
- Log lines are left out. The summary line is kept as the values `n1` and `n2`.
- The remote ends write only while our side of the connection is open.

### Tunnel.tla (src/tunnel/tunnel.go 41-54)

`phase` goes from `marshal` to `tunnel`, then to `relay` or `failed`.

- `json.Marshal` of a `map[string]string` cannot fail, so the error branch (44-48) is
  dead code. `DialAndRunMarshal` always succeeds.
- The provider is not under `src/`. It is modelled from spec.md §4.2 (`TunnelServiceRun`,
  spec_modelled): it either fails, leaving no circuit open, or runs the relay.
- The client's remote end acts in every phase. The circuit's remote end acts only once the
  circuit exists.

### RelayAbstract.tla and RelayRefinement.tla

`RelayAbstract` is what `Run` promises, without goroutines, buffers, channels or counters.
Each direction (named by the connection it reads) is `"copy"`, `"ended"` or `"shut"`:

- `Forward(c)` delivers 1..k of the bytes sent and not yet delivered;
- `EndClean(c)` ends at the remote FIN once everything was delivered;
- `EndError(c)` ends on a closed or broken source, or on an unwritable destination while a
  byte waits for it;
- `Shut(c)` half- or fully closes the destination, as `halfClose` and CloseWriter decide;
- `Return` needs both directions ended, closes both connections and publishes the summary.

`RelayRefinement` maps `Relay` onto it: `dir` is `"copy"` while the pump reads or writes,
`"ended"` from the copy's return to its deferred close, `"shut"` after; `summary` is
`<<n1, n2>>` once Run returned. The remote ends' variables map to themselves. `buf`, `inbuf`,
`copied`, `failed`, `count`, the channels and the pcs are hidden. `AbstractSpec == A!ASpec`
(fairness included) is a PROPERTY of the `relay` run; the safety part is proved (section 6).

### AddrInfo.tla (tunnel.go 56-84)

Strings are sequences over a two-letter alphabet `{a, :}`. `LastIndexByte` and the
`idx > 0` test are translated from `GetIpAndPort`'s fallback; `GetAppInfo` is a function
whose domain is the keys it sets. Both are checked against reference definitions for every
address of up to 4 characters. The `TCPAddr`/`UDPAddr` branches only read struct fields.

### CtrlClients.tla (ctrls.go)

Callers race on `Init`'s `CompareAndSwap`. The winner appends the selected controllers,
starts one login goroutine each (`LoginSend`), which sends a result on a channel buffered to
`len(ctrls)`, and receives (`InitRecv`) until it has them all or meets the first error.
`GetRandomCtrl` (with `rand.IntN(0)` panicking on an empty slice) and `GetCtrl` follow, and a
caller whose Init failed may call it again (`Retry`).

`CtrlPool.tla` is what the pool promises, with the channel, the goroutines and the slice
hidden. The pool is a set. The first caller `Start`s it, then `Add`s controllers it lacks,
and becomes ready exactly when the pool is full; it may `Fail` instead. Later callers
`Skip`. Lookups answer from the pool. The mapping (in `CtrlClientsProofs`) takes the pool
to `ctrlMap` and a caller in the receive loop to `"init"`.

### MgmtApi.tla (api.go)

Every helper is one `Send` of a request with a deadline, a `Receive` of its reply or a
`Timeout`. The controller (`Apply`) applies a request whenever it gets to it, possibly after
the deadline; replies to abandoned calls are dropped. The table `Api` records, per kind,
which helpers exist and how `Create*` and `*FromDetail` behave. `*FromDetail` sends back a
whole detail read earlier, one field changed, and overwrites every field; `PatchIdentity`
sends only the field it changes. `Get*Id` is modelled as a list: its not-found error and the
`*l[0].ID` dereference are left out.

### StageZt.tla (stagezt.go)

A file is `<<executable, version>>`; a binary records the run that wrote it and its source.
`StageBegin` is a `Stage*Once` wrapper whose DoOnce key has not run, plus the removal of a
`""` or `"latest"` target (lines 103-105). `StageLocal` copies from the source argument, the
`<EXEC>_PATH` variable or `PATH`, or fails (a `CopyFile` that fails half-way may leave its
partial file). `StageVersion` keeps a file the kit has, downloads a missing one, or fails.
`Restart` ends or crashes the run at any step; the next run keeps the directory and starts
with fresh DoOnce keys.

### Zcat.tla (zcat.go 84-165)

`ZcatAbstract.tla` is what zcat promises for both directions. Stdin is `Write`n, and
`SignalFin` comes only after all of it. What the remote end sent goes to stdout (`Output`), never after
a reset. `Exit` happens only at EOF with everything printed, or on a reset.
`ZcatRefinement` maps `Zcat` onto it; the dial and the stdin copy's EOF are stutters.

`Dial` covers the network switch and the fatal exits. The stdin copy (`InCopyByte`,
`InCopyEOF`, `InCloseWrite`) and the stdout copy (`OutCopyByte`, `OutCopyEnd`) move one byte
per step. `IsEdgeConn` is the `writer.(edge.Conn)` test of line 160. When the stdout copy
ends, the process exits whatever the stdin copy is doing.

## 4. Runs

| Run | Expect | Checks | Shows |
|---|---|---|---|
| `relay` | pass | `TypeOK`, `NoDataLoss`, `SummaryAccurate`, `IInv`, `LossInv`, `RInv`, `RelayTerminates`, `OneSidedTeardown`, `AbstractSpec` | all interleavings of both pumps, Run and the two remote ends, both `halfClose` values, all CloseWriter pairs; the proofs' invariants hold; Run refines RelayAbstract with its fairness |
| `relay_error_teardown` | violation | `ErrorTearsDown` | see Findings |
| `tunnel` | pass | `TTypeOK`, `NoDataLoss`, `TInv`, `ClientReleased` | DialAndRun composed with the relay: bytes sent during the dial are relayed and the client is always released |
| `addr_info` | pass | `SplitCorrect` | the string fallback splits at the right colon for every short address |
| `addr_info_spec` | violation | `SplitMatchesSpec` | see Findings |
| `ctrl_clients` | pass | `CTypeOK`, `OnceOnly`, `WinnerGetsClient`, `CInv`, `LoginsFinish`, `PoolGrows`, `PoolSpec` | two callers, three controllers: logins run once, the winner never gets a nil client, no login goroutine stays blocked, the pool only grows, and Init refines CtrlPool with its fairness |
| `ctrl_clients_concurrent` | violation | `ClientUsable` | see Findings |
| `zcat` | pass | `ZTypeOK`, `OutputComplete`, `ZRInv`, `ZcatExits`, `ZcatAbstractSpec` | output complete on a clean exit; exit over zt once the remote answers our FIN; zcat refines ZcatAbstract with its fairness |
| `zcat_tcp` | violation | `ZcatExits` | see Findings |
| `mgmt_api_empty_id` | violation | `CreateReturnsId` | see Findings |
| `stage_zt` | pass | `StagedIsFresh`, `SInv` | three runs sharing the bin directory, each possibly stopping half-way: a successful local or latest staging never serves an earlier run's binary |

Bounds and why they suffice:

- Relay: `MaxBytes = 2`, `BufSize = 2`. A direction can be cut off with a byte buffered
  after one was delivered, and reads of one and of two bytes both happen. About 166 000
  states, under a minute. No symmetry: `n1` and `n2` are not interchangeable.
- CtrlClients: two callers (enough to race the CAS), three controllers (so an error can
  arrive before, between or after successes).
- Zcat: `MaxBytes = 2` on each side, networks `zt` and an unknown one (pass), `tcp`
  (violation).
- MgmtApi: one caller, one edge-router name, two calls: a create whose reply carries no
  data.
- StageZt: one executable, versions `""`, `"latest"`, `"v1"`, three runs: a binary of run 1
  can outlive a crash and be seen by run 2 or 3.

Deadlock is checked in every run; a finished system stutters through an explicit final
action (`Terminated`, `Finished`, `Quiet`, `Exited`) that models the program returning.

Fairness: weak fairness for each goroutine (Go's scheduler runs every runnable goroutine; a
goroutine blocked on a read, send or select waits only for its step to become enabled, and it
stays enabled). No fairness for remote ends, controllers or operators: each liveness
property states what it assumes of them.

Every property of a passing run has a mutant in PROJECT.json, a plausible bug in the mapped
code (a dropped guard, an off-by-one, swapped channels, an unbuffered channel, a CAS that
always wins, a removal limited to local builds...) under which TLC finds it violated.

## 5. Findings

**Error in one direction does not tear the relay down under half-close** (`relay_error_teardown`).

The scenario, with `halfClose` set and the circuit implementing CloseWriter:

1. The client connection is reset.
2. The pump reading it fails, reports, and only half-closes the circuit.
3. The pump reading the circuit blocks until the service closes its side.
4. Until then Run never reaches its deferred close, so neither connection is closed, not
   even the broken one.

spec.md §1 promises teardown of both endpoints "regardless of which side errors". §7 says
an error in one direction does not abort the other, and the code follows §7. Without
half-close (`OneSidedTeardown`), the first pump's full close makes the other pump's read
fail, and the relay ends.

**`GetIpAndPort` drops an address that starts with its only colon**
(`addr_info_spec`, tunnel.go:65). The code tests `idx > 0`, so `":a"` gives `("", "")`;
spec.md 4.2 says empty strings only when there is no separator.

**A losing `Init` caller can panic in `GetRandomCtrl`** (`ctrl_clients_concurrent`,
ctrls.go:20). It returns nil while the winner is still logging in; `rand.IntN(0)` on the
empty slice panics.

**zcat over tcp never exits** (`zcat_tcp`, zcat.go:160). Only an `edge.Conn` is
half-closed, so a tcp peer never sees the end of stdin.

**`CreateEdgeRouter` reports success with an empty id** (`mgmt_api_empty_id`, api.go:517)
when the reply has no payload data.

Two further behaviours were seen in TLC but are not kept as runs: a failed `Init` cannot be
retried (the CAS flag stays set, ctrls.go:20-22), and zcat exits with stdin partly unsent
when the remote end closes first (zcat.go:150). The hazards in PROJECT.json describe both.

## 6. Proofs (checked by tlapm)

Assumptions: in `Relay`, `Client # Circuit`, `MaxBytes \in Nat`, `BufSize \in Nat \ {0}`;
in `StageZt`, `""` and `"latest"` are versions, `Execs # {}`, `MaxRuns \in Nat \ {0}` and
`Absent` is no binary; in `CtrlClients`, `Ctrls` is finite (possibly empty: the selector of ctrls.go:25 may select no controller), `NoCaller` is no caller, and no controller client
is one of the tags `"none"`, `"nil"`, `"panic"` (`CtrlsAreClients`: a client is a non-nil
pointer); in `Zcat`, `MaxBytes \in Nat`.

`RelayProofs`: `TypeCorrect` (`Spec => []TypeOK`), `SummaryCorrect`
(`Spec => []SummaryAccurate`), `HalfCloseNoDataLoss` (`Spec => []NoDataLoss`), and the
invariants behind them, `RelayInductive` (`Spec => []IInv`) and `LossInductive`
(`Spec => []LossInv`).

`TypeOK` is not inductive. The byte counts stay within `0..MaxBytes` only because
`delivered + buf + inbuf <= sent`, and `count - 1` stays natural only because `count`
counts the pumps still to report. The strengthening is `IInv`:

- `CountInv`: `count` is the number of active pumps, and Run waits exactly while it is
  positive.
- `FlowInv`: byte conservation per direction; `copied` equals what was delivered; the
  buffer is empty outside a write.
- `ReportInv`: a reported count is the pump's final count.

`NoDataLoss` needs `LossInv`. Under the premise `Kept(c)` (half-close on `c`, no reset):

- pump `c` never fails;
- conservation holds with equality;
- a pump that stopped reading saw EOF with nothing buffered;
- `c` is fully closed only by Run's final close;
- `Other(c)` is closed or write-closed only after pump `c` reported.

`KeptStable` shows the premise is never regained: resets are permanent and the
configuration is constant. Each preservation lemma has one step per action of `Next`.

`RelayRefinement`: `Refinement` (`Spec => A!SafeSpec`) and `RefinementInvariant`
(`Spec => []RInv`). It rests on `RInv`, which adds
to `IInv`:

- `NoFailLoss`: a pump that has not failed has dropped nothing (conservation with
  equality), so a clean EOF means everything was delivered (`EndClean`'s guard);
- `CopyInv`: a pump about to write holds a byte (so a write error is `EndError` with a byte
  waiting), and a copying pump has not failed.

`InitRefines` maps the initial state; `NextRefines` has one step per action of `Relay`,
naming the abstract action it maps to (the reads of data and the reports are stutters).

`StageZtProofs`: `FreshStaging` (`Spec => []StagedIsFresh`). `StagedIsFresh` alone is not
inductive: a `StageVersion` of `"latest"` that finds the file would keep an old binary. The
strengthening `OnceInv` says a file with a result, or being staged, had its DoOnce key run in
this run, that the file being staged has no result yet, and that a `""` or `"latest"` target
stays absent from its removal to its copy. `NextSInv` has one step per action. `StageInductive` states `Spec => []SInv`.

`TunnelProofs`: `TunnelTypeCorrect` (`TSpec => []TTypeOK`), `TunnelNoDataLoss`
(`TSpec => []NoDataLoss`). The invariant `TInv` is `IInv`, plus: Run's process stays at
`"wait"` until the provider hands it the connections, and `LossInv` holds unless the dial
failed. The relay's steps and the client's remote end are steps of `Relay` (lemma
`RelayStepIsNext`), so `NextIInv` and `NextLossInv` are reused. The dial's steps leave the
relay alone, except the failed dial's close of the client connection. After that close
Run never runs, so only `IInv` has to survive it, and `NoDataLoss` holds vacuously. `TunnelInductive` states `TSpec => []TInv`.

`CtrlClientsProofs`: `LoginsOnce` (`Spec => []OnceOnly`), `WinnerServed`
(`Spec => []WinnerGetsClient`), `CTypeCorrect` (`Spec => []CTypeOK`). The strengthening
`CInv` has three parts:

- `CasInv`: before the CompareAndSwap nothing has started. After it there is one winner
  and every login goroutine has been started.
- `ChanInv`: the results in the channel match the login outcomes and name distinct
  controllers. No controller is both in the channel and in the collected list, and each
  of them has sent its result.
- `LoopInv`: the collected list has exactly as many entries as the winner's loop has
  received. A winner with no error is ready only with one client per controller, and
  returns a controller client, or the panic of `rand.IntN(0)` when no controller was
  selected.

`WinnerGetsClient` says that the winner never gets a nil client, and gets the panic only
when `Ctrls = {}`. That case is real code behaviour: with no controller selected the loop of
line 47 runs zero times, `Init` returns nil, and `GetRandomCtrl` panics on the empty slice.
No assumption rules it out, and `CtrlPool`'s `Start` makes the caller ready at once when
there is no controller.

Cardinality lemmas (`InjectiveSeqCard`, `InjectiveSeqRange`, `PendingAppend`, `CtrlsCard`)
bound the loop by the number of controllers. They use `FS_Injection`, `FS_Interval` and
`FS_CountingElements` of FiniteSetTheorems. `PoolInductive` states `Spec => []CInv`.

`PoolOnlyGrows` (`Spec => PoolGrows`) is an action property. No step shrinks `ctrlMap` or
changes a client already in the slice. The only step that resets the map is the CAS
winner's, and `CasInv` says the map is still empty then.

`PoolRefines` (`Spec => P!SafeSpec`) shows that `CtrlClients` implements `CtrlPool`. It
rests on `CInv` and has one lemma per kind of step:

- `InitCASRefines`: the winner's CAS is `Start`; a lost CAS is `Skip`.
- `InitRecvRefines`: an error is `Fail`; a client is `Add` of a controller the pool lacks
  (`ChanInv`). The loop ends exactly when the pool is full, because the slice is injective
  and as long as the loop counter (`InjectiveSeqRange`, `InjectiveSeqCard`).
- `LookupRefines`: the slice and the map hold the same clients (`OnceOnly`), so a random
  pick from the slice is a pick from the pool, and it panics exactly when the pool is empty.
- `LoginSend` and `Finished` are stutters.

`ZcatProofs`: `ZTypeCorrect` (`Spec => []ZTypeOK`), `OutputIsComplete`
(`Spec => []OutputComplete`), both from the inductive invariant `ZInv`, which types the
flags and says that a process that exited without a reset has no unread bytes from the
remote end (`ZcatInductive`).

`ZcatRefinement`: `ZcatRefines` (`Spec => A!SafeSpec`) and `ZcatRefinementInvariant`
(`Spec => []ZRInv`). `ZRInv` adds `StdinInv` to `ZInv`: the stdin copy leaves its loop with
all of stdin written unless the connection was reset, and CloseWrite comes only after that.
`NextRefines` has one step per action of `Zcat`, naming the abstract step it maps to.

What stays with TLC:

- liveness (`RelayTerminates`, `OneSidedTeardown`, `ClientReleased`, `LoginsFinish`,
  `ZcatExits`) and the fairness parts of `AbstractSpec`, `PoolSpec` and
  `ZcatAbstractSpec`: they need ENABLED and fairness;
- `AddrInfo`: recursive string operators, checked over bounded inputs only;
- the violation runs (`ErrorTearsDown`, `SplitMatchesSpec`, `ClientUsable`, `ZcatExits`
  over tcp, `CreateReturnsId`): they are findings, not theorems.

## 7. Not modelled

- The fabric's dialing, routing and encryption, and the `xgress_sdk.Fabric` interface (no
  code; the provider is modelled from spec.md in `Tunnel`).
- `GetIpAndPort`'s `TCPAddr`/`UDPAddr` branches: field reads with no control.
- `ListConfigsOfConfigTypes` (api.go 357-370) and the plain `Update*` helpers: the same
  request shape as the modelled helpers, with caller-built payloads.
- zcat's identity loading and the dial itself: a success or a fatal exit, both modelled
  as outcomes of `Dial`.
- The download inside `getzt.Install*`: modelled as one step that succeeds or fails; a
  partially written download is not modelled.
- Logging and its formats; buffer contents (only counts matter to the properties).
- The echo client, the CLI commands, the enrolment actions and the harness topologies:
  flag wiring and configuration for an external orchestrator, no behaviour of their own.
