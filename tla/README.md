# A TLA+ verification of terraform-provider-tunnel

The provider opens network tunnels for the time of a terraform run: through an
SSH bastion, AWS SSM, a Kubernetes port-forward or Azure Bastion. A data source
or ephemeral resource forks the provider's own binary as a background process
(`internal/libs/fork.go`), waits until that process says its local listener is
ready, and hands the local port to the rest of the configuration. The forked
process watches terraform and ends with it.

What can go wrong lies between goroutines, processes and a network, and this is
what the modules here are about. File and line references are to the repository
(`src/` in `PROJECT.json`).

## 1. Inventory

| Component | State | Operations | Hard because | Correct when |
| --- | --- | --- | --- | --- |
| SSH client pool, `ssh/client.go`, with its caller `dialTarget`, `ssh/forward.go` | `client`, `inflight`, `closed` under `mu`; one `handshake` per attempt | `get`, `tend`, `keepalive`, `discard`, `close`; a dial retried once | the handshake runs outside the lock; losses, discards, cancellation and close overlap | one handshake and one connection at a time, none orphaned, none cut while it works; a finished handshake, whatever its result, lets its waiters go |
| Connection server, `libs/server.go` | `closed`, `conns` under `mu`; `wg` | `Serve`, `run`, `forget`, `Close` | accept, registration, close and the context's hook race | `Serve` returns only over finished handlers; `Close` reaches every connection |
| Relay, `libs/relay.go`; `wsStream`, `azurebastion/session.go` | two copying goroutines, two streams, a grace timer | `RelayDrain`, `pipe`, `HalfClose` | half-close, errors, an end that stops reading | nothing lost, no direction cut by the other, the handler ends when a transport breaks |
| Forked tunnel, `libs/fork.go`, `libs/watch.go`, `main.go`, `runner/` | marker files, child processes, the local port | `ForkTunnel`, `WaitForReadyFile`, `SignalReady*`, `WatchProcess`, `Interrupt` | three kinds of process that die at any moment, and a port anybody may take | readiness is the child's own, failures leave nothing, tunnels end with terraform |
| Azure Bastion session, `azurebastion/session.go` | `authToken`, `nodeID` under `mu`; `cachedToken` under `credMu` | `open`, `accessToken`, `negotiate`, `close`, `deleteToken` | mutexes held across HTTP calls whose response may be lost | a linear token chain, nothing left at the data plane, no burst of credential commands |
| SSH tunnel process, `ssh/tunnel.go` | the deferred calls, one context | `runTunnel` | the order of authenticate, listen, probe, signal, serve, close, with the pool's and the server's goroutines running through it | ready means usable; shutdown cuts no relay and leaves no connection; an interrupt ends it, as far as relays and the agent let it |
| SSH dial and authentication, `dialSSH`, `ssh/auth.go` | a transport, its `AfterFunc` hook, the credentials | `clientConfig`, `authMethods`, `agentKeys`, `agentSigner`, `dialSSH` | the timeout races the handshake's end and the deferred `cancel`; the agent changes between two connections, or hangs | a client returned stays usable, a failure leaves nothing; no credential is shown, or withheld, against the configuration |
| Azure Bastion tunnel process, `azurebastion/tunnel.go`, `provider/azure_bastion.go` | the deferred calls, one context, the signal handler | `resolve`, `discoverBastion`, `validateBastion`, `StartRemoteTunnel` | signals before, during and after `NotifyContext`; the session's mutexes under the server's handlers | ready implies the documented rules; no session is left at the data plane; an interrupt ends it |
| Kubernetes, `kubernetes/forward.go`, `tunnel.go`, `endpoints.go`, `config.go` | `ready`, `stop`, `done` channels | `run`, `resolveEndpoint` | readiness, end and cancellation race in a select | no readiness after cancellation; a forwarder that got through its dial ends |
| SSM, `ssm/session.go`, `ssm/tunnel.go` | the started session | `ForkRemoteTunnel`, `startTunnelSession`, `terminateTunnelSession` | a fork that fails or is cancelled after the session started | no session without a tunnel |
| Provider, `provider/*.go` | `tunnel_pid` in private data | `Read`, `Open`, `Close`, validation | partial failure after the fork | every tunnel has an owner |
| Free port and logs, `libs/port.go`, `log.go` | none | I/O | the port is free only until somebody takes it | |

How they interact: the provider calls `ForkTunnel`; the child's `main` calls the
tunnel type's `StartRemoteTunnel`. An SSH tunnel calls `clientPool.get` once to
authenticate, listens, probes the target, signals readiness through the marker
file and runs `ConnServer.Serve`, whose handlers call `dialTarget` on the pool
and then `Relay`. An Azure Bastion tunnel does the same with
`sessionClient.open` and `RelayDrain`. An SSM tunnel runs a library that blocks,
so a goroutine dials the local port and signals from outside. Cancellation comes
as SIGINT from the watcher or from an ephemeral resource's `Close`.

`PROJECT.json` lists the hazards, each at its line and with the properties that
cover it, or why none does.

## 2. The modules

| Module | Models | Role |
| --- | --- | --- |
| `ClientPool` | `ssh/client.go`, `dialTarget` | detailed specification |
| `SharedConnection` | what the pool promises | abstract specification, implemented by `ClientPool` |
| `ClientPoolProof` | | theorems about `ClientPool` |
| `ConnServer` | `libs/server.go` | detailed specification |
| `ConnServerProof` | | theorems about `ConnServer` |
| `Relay` | `libs/relay.go`, `forwarder.handle`, `azurebastion/server.go`, `wsStream` | detailed specification |
| `SSHDial` | `dialSSH`, `ssh/auth.go`, and the handshake they rely on | detailed specification |
| `Tunnel` | what any tunnel process promises whoever started it | abstract specification, implemented by `SSHTunnel` and `BastionTunnel` |
| `SSHTunnel` | `ssh/tunnel.go`: `ClientPool` and `ConnServer` put together | composition |
| `BastionTunnel` | `azurebastion/tunnel.go`, `provider/azure_bastion.go`: `BastionSession` and `ConnServer` put together | composition |
| `SSHTunnelProof`, `BastionTunnelProof` | | theorems about the compositions |
| `MCSSHTunnel`, `MCBastionTunnel` | | bounds; the configurations and the bastions |
| `ForkTunnel` | `libs/fork.go`, `libs/watch.go` and their callers | detailed specification |
| `PartsProof` | | theorems about `ForkTunnel`, `Relay` and `SSHDial` |
| `BastionSession` | `azurebastion/session.go` | detailed specification |
| `MCBastionSession` | | symmetry |
| `BastionSessionProof` | | theorems about `BastionSession` |
| `KubernetesTunnel` | `kubernetes/endpoints.go`, `forward.go`, `tunnel.go`, the port range of `provider/kubernetes.go` | detailed specification |
| `MCKubernetesTunnel` | | the answers of the API |
| `KubernetesTunnelProof` | | theorems about `KubernetesTunnel` |
| `TunnelResource` | `provider/*.go`, `ssm/session.go`, `ssm/tunnel.go`, and `ForkTunnel` as its start and its ends | detailed specification |
| `TunnelResourceProof` | | theorems about `TunnelResource` |

Definitions introduced by a comment `Mutation:` are wrong variants of the
operator that follows them; no specification uses them. Each property of each
passing run is known to be violated when the operator named in
`PROJECT.json` is replaced by such a variant.

**ClientPool.** A handler is one goroutine in `dialTarget`; `pc[h]` is its place
in it. Each critical section of `p.mu` is one action: `GetClosed`, `GetCached`,
`GetJoin`, `GetLead` are the four ways through the first section of `get`;
`PublishErr`, `PublishClosed`, `PublishClient` the second. `Announce` is
`close(attempt.done)`; `WaitDone` and `WaitCancelled` are the two cases of a
waiter's `select`. `Discard` and `Drop` are `discard` before and after its
unlock. A handshake, its `handshake` struct and the `ssh.Client` it yields are
named by the pair of handler and try that led it, since a handler leads at most
most
one handshake per try. A handshake led by one of `Silent` may meet an ssh-agent
that never answers. `Lose` `keepalive` only turns a silent
loss into one that is noticed.

**ConnServer.** `Serve` is the sequence `Arm`, then `Accept` with `Register` or
`Refuse`, then `Stop` (the deferred `stop()`) and `Return` (the deferred
`wg.Wait()`), in the order Go runs deferred calls. `HookFires` and `HookCloses`
are the goroutine of `context.AfterFunc`. A handler's own work is a contract:
it ends when it pleases, and after its connection is closed unless it is one of
`Deaf`, which wait for somebody else: `Relay` and `SSHDial` show that such handlers
exist.

**Relay.** `pipe[s]` copies from `s` to the other end; `main` is where
`RelayDrain` is. `kind` chooses the caller: over SSH both ends can half-close
and there is no grace period; over Azure Bastion the remote cannot half-close.
A broken remote reads as the end of file for both: `wsStream` drops the error,
and the SSH package ends a channel's buffer when its transport goes. Writes are
counted, not described.

**SSHDial.** `pc` follows one process from `clientConfig` through `dialSSH`; the
steps between `Exchange` and `Concludes` are the handshake of the SSH package,
external, modelled by what the code relies on: credentials are tried by method
name, one source per name, and a source that returns an error is remembered. The
`AfterFunc` is `HookFires` and `HookCloses`, `stopClose()` and the receive from
`closeDone` are `StopClose`, the deferred `cancel()` is `Return`. The agent is
dialled by `List` and again by `AgentSigns`, and may change in between or fall
silent for ever. `shown` remembers what the server has been offered.

**SSHTunnel.** `main` is where `runTunnel` is, the deferred calls included. The
pool's callers (`ClientPool`'s `Handlers`) are `runTunnel` itself, twice, and the
handlers of the server; `DialTarget(c)` is only possible while handler `c` runs,
and `HandlerEnds(c)` only when its `dialTarget` has returned. `cancelled` is one
variable of both parts: they share `runCtx`. The steps of the parts are used
through `INSTANCE`, unchanged.

**BastionTunnel.** The same for `StartRemoteTunnel`, preceded by the decisions on
the configuration (`Resolves`) and on the bastion (`ValidBastion`). The provider
and the child it forks resolve the same configuration, so `Configure` stands for
both. `Notified` are the places where SIGINT cancels the context; elsewhere it
kills the process (`Kill`), and `Issue` may follow the death.

**Tunnel.** Four variables: the phase, whether the far side has been found able
to serve, the local connections being served, and whether anything is held at
the far side. `SSHTunnel` reads `vetted` as "the probe's channel was opened" and
`upstream` as "an SSH connection is up"; `BastionTunnel` as "what the documentation
asks of SKU, tunneling, IP Connect and ports holds" and "a session token is held
or being deleted".

**ForkTunnel.** `fork[t]` is the place in `ForkTunnel` and `WaitForReadyFile`,
`child[t]` the process it started. The marker's path is `Path(t)`. `Observed`
are the tunnels that dial the port to see whether they serve (SSM); the others
signal after listening. What a tunnel does in between is reduced to taking the
port. `Other` is any process that wants the same port.

**BastionSession.** A handler opens once, so it also names its request and the
token it is issued. `mu` and `credMu` are held across the calls exactly as in
the code. The data plane (`Issue`) serves a request at any time after it was
sent, also after the client has given up, and continues the session the request
names or starts one. `close` may be called at any time and repeatedly, as
`session_test.go` does; the tunnel itself calls it once, after `Serve`.

**KubernetesTunnel.** `pc` is where the tunnel is: in `kubernetesConfig`
(`Configure`), in `resolveEndpoint` (`GetService`, `ListPods`, then the loop over
the sorted pods as `Skip`, `Unresolved`, `Select`, `Exhausted`), in
`portForward.run` (the rest), or ended. `FindServicePort`, `PodReady`,
`ResolvePodPort` and `Int32` are the functions of those names. `forwarder` is
client-go's `ForwardPorts` with the goroutine that sends its result: an external
library, modelled from what `run` relies on (it dials, listens, closes `ready`,
and ends when `stop` is closed). The service and the pods come from two requests
and are arbitrary.

**TunnelResource.** `pc[c]` follows one call from `Read` or `Open` to `Close`;
`pid[c]` is the id it remembers, at first `cmd.Process.Pid` and then `tunnel_pid`
in the private data. `proc` says who has an id and `running` whether that process
still runs: one that has ended keeps its id, as a zombie, until its parent waits
for it or ends. `ForkTunnel`, which has its own module, is here `Fork`, `Forked`,
and `Kill` with `Reap`. An SSM call starts its session before it forks and goes
through `Terminate` when the fork fails.

## 3. The runs

| Run | Instance | Shows |
| --- | --- | --- |
| `ClientPool` | 2 handlers with two tries each, one of them with a silent agent, fairness | the properties of the pool, and that it implements `SharedConnection` |
| `ConnServer` | 3 connections, one of them deaf, fairness | safety and liveness of the server |
| `SSHDial` | 2 keys, every choice of key, password, home and agent keys, every server and agent, fairness | a clean outcome, what is shown, that the dial ends |
| `SSHTunnel` | 2 connections, one of them deaf once it relays, a silent agent for the other and for the start-up, 2 SSH connections, 1 retry before the interrupt, fairness | that the process implements `Tunnel`, cuts no relay and ends when interrupted |
| `BastionTunnel` | 11 configurations, 7 bastions, 2 connections, one of them deaf, fairness | the same with the session: implements `Tunnel`, deletes its session, ends when interrupted |
| `ForkTunnel` | 2 tunnels, one observed, one port, one stranger, fairness | readiness, failure, return, and that tunnels learn of terraform's end |
| `ForkTunnel_foreign` | 1 observed tunnel | violation, see section 5 |
| `Relay` | both kinds, 2 writes each way, fairness | delivery, closing, the grace period |
| `Relay_stuck` | 1 write each way | violation, see section 5 |
| `BastionSession` | 3 opens, 2 closes, 2 nodes, 1 expiry, up to symmetry | the token chain, cleanup, the credential cache |
| `KubernetesTunnel` | 3 pods of 6 kinds, 5 services, 5 target ports, with and without a credential command, ports up to 3, 8 values of int32, fairness | the endpoint chosen, honest readiness, shutdown |
| `TunnelResource` | 3 calls (an open, an SSM open, an SSM read), 2 process ids | whom signals reach, what becomes of sessions |

Deadlock is not checked: in all of these the system stops when its work is done.

Bounds. Two handlers with their retries make up to four handshakes, which is enough
for a handshake, a loss and a discard to overlap in different hands; the theorems are
for any number. In `SSHTunnel` four goroutines call the pool (two of them `runTunnel`
itself), so `FewConnections` cuts off, before an interrupt, behaviours with a third
SSH connection or a second caller on its retry: what is left has every failure of the
start-up, a connection lost at any point and replaced, and a second handler that meets
the replacement. Nothing is cut off after an interrupt, which sends every caller that
is opening a channel to its second try. `BastionTunnel`'s configurations and bastions
lie on both sides of each rule (ports 0 and 65536, no port and a given one, each SKU
class, each feature off). Three connections let one be accepted while one ends and one
is idle. Two forks are the least that can confuse their markers. Two writes each way
let one be in a goroutine's hands while another waits to be read. Three opens are the
least in which two can present the same token (the first issues it), and two closes
the least that can delete one twice. `MaxExpiries` (1) lets the cached credential
expire between two opens. Three pods let the loop skip one, fail to resolve one and
select one, in any order of their names; the pods and services are one representative
of each case the code tells apart, and `Requested` holds the ports on both sides of
both ends of the range and 9, which wraps to port 1 in an `int32` of 8 values. Two
process ids for three calls and a stranger make ids scarce, so that they are used
again. The theorems of section 4 hold without these bounds.

Fairness. Goroutines that can run do. Beyond that, what is fair is what the code
bounds: dials, handshakes and the Azure Bastion session's HTTP requests have timeouts,
or end with the context; Go's mutexes do not starve a waiter (strong fairness of the
lock actions in `BastionSession`); the 30 seconds of `WaitForReadyFile` pass (strong
fairness of `GiveUp`: once its context is done every `select` is ready for it, while
the ticker is ready every 500 ms). Three things look bounded and are not, and no
fairness is assumed of them. A handshake waits for an ssh-agent on sockets that
neither the timeout nor the cancellation reaches (`auth.go:134`, `169`): the
handshakes of `Silent` need not end, in `ClientPool` and in `SSHTunnel`. A handler may
wait for the remote after its local connection is closed (`relay.go:46`): those of
`Deaf` need not end, in `ConnServer` and in the compositions. A Kubernetes request
ends when its context does, but not while client-go runs a credential command
(`config.go:94`), which has no context: where `credential` is `"exec"`, no request
need end. A silent agent, a deaf handler and a command may still answer at any time;
they are only not forced to. The forwarder of client-go ends some time after `stop` is
closed, but the API need not answer and the dial of a pod need not end.
`TunnelResource` states no fairness: its properties are of safety. Nothing is assumed
of clients, targets, far ends that read, or of a channel open that nobody answers:
`OpenOk` and `OpenRejected`, `Accept`, `Send` and `Write` to an end that does not read
are never forced. In `SSHDial` the server need not answer: only the timeout is fair.
`Relay` itself takes one answer for granted: over SSH a read pending on a channel that
is closed returns with the bastion's own close, so that a bastion that hangs counts as
`stuck`. In the compositions what is fair of a relay is what `Relay` shows: it ends
after its local connection is closed, unless it is one of `Deaf`, which over SSH only
the loss of the connection ends. A child of `ForkTunnel` owes nothing when it is
interrupted: that is what `InterruptEnds` of the compositions is about.

## 4. What is proved

`tlapm` checks the following for every value of the constants.

*ClientPoolProof*, for any set of handlers, from `NoneAssumption`. The
properties are not inductive by themselves: that two connections are never up
together depends on who may still close or publish one. `IInv` adds that the
handshake in progress has exactly one leader (`Leader`), that an attempt not yet
led has no trace (`Unstarted`), what is true between dial and announcement
(`Unannounced`), what a published client implies (`Published`) and what a
discarded one does (`Dropped`). From it: `TypeCorrect`, `HandshakesAreShared`
(`SingleFlight`), `ConnectionsAreOwned` (`LiveIsOwned`), `ConnectionIsShared`
(`OneConnection`), and the action properties `WorkingConnectionKept`
(`ChannelsSurvive`) and `RetryGetsAnother` (`RetryIsFresh`).
`PoolImplementsLink` proves that initial states and steps of the pool map to
those of `SharedConnection`; that its attempts end outside a hang
(`AttemptsEnd`) is checked by the run `ClientPool` only.

*ConnServerProof*, for any finite set of connections, from `ConnsAssumption`.
`IInv` says that `wg` is the number of handlers still to count themselves out
(the link between a counter and a set that needs the finite-set theorems), that
an accepted connection not yet registered is the only unowned one, and that
listed connections are closed once the server is. From it: `TypeCorrect`
(including that the wait group never goes negative), `ServeWaits`,
`CloseIsComplete`, and `HandlersAreListed` (every handler that may still use its
connection is one `Close` finds), which no run repeats.

*BastionSessionProof*, for any handlers, closers and nodes, from
`ConstantsAssumption`. `IInv` says who holds which mutex (`Locks`), what a
handler has done by where it is (`Progress`), that every token in use comes from
a negotiation that succeeded (`Tokens`), that the client's token was consumed by
the request in progress at most (`Chain`), what `close` has detached
(`Detached`) and what the data plane still keeps (`Plane`). From it:
`TypeCorrect`, `NegotiationIsAtomic`, `NodesAgree`, `SessionsAccountedFor`,
`CloseIsIdempotent`, `CredentialAskedOnce`.

*KubernetesTunnelProof*, for any pods, pod states, services and ports, from
`ConstantsAssumption` (ports fit twice into an `int32`). `IInv` says what is
known before the list (`Unlisted`), that the loop leaves nothing usable behind
and remembers whether it met a ready pod (`Passed`), what an error says of the
loop (`Reported`) and what each place on the way to the signal knows of readiness
(`Checked`). `PortIsInt32` is the lemma that the conversion keeps a port. From it:
`TypeCorrect`, `EndpointIsRight` (`EndpointIsMeant`), `ReadinessIsReal`
(`ReadyIsReal`).

*TunnelResourceProof*, for any calls and process ids, from
`ConstantsAssumption`. `OnlyOwnTunnelsHit` is not inductive: `IdsAreKept` adds
that while the provider lives the id a call remembers belongs to its tunnel or to
what is left of it, and `SessionsKnown` which calls have sessions and processes.
From it: `TypeCorrect`, `SignalsAreOwn` (`OnlyOwnTunnelsHit`),
`SessionsAreTerminated` (`NoOrphanSession`).

*PartsProof* has the theorems of three modules, whose definitions carry the
module's name where they would collide.

`ForkTunnel`, for any tunnels, any of them observed, from `TunnelsAssumption`.
`ForkIInv` says what has become of the child by where `ForkTunnel` is
(`Offspring`), that only a running tunnel holds the port (`HeldByRunning`), and
that the decision to signal, the marker and the success of the call each come
after the listener (`Vouched`): that last chain is what the per-fork path of the
marker keeps from crossing over. From it: `ForkTypeCorrect`, `ReadinessIsOwn`
(`ReadyMeansServing`), `FailureIsClean` (`FailedLeavesNothing`).

`Relay`, for any number of writes, from `MaxDataAssumption`. `RelayIInv` says that
a copy has at most one write in its hands (`InHand`), what an end of file passed
on stands for (`Ended`), and that while nothing breaks over SSH a copy ends only
by delivering all and closing comes last (`Graceful`). From it:
`NothingInvented` (`RelayTypeOK`), `HalfClosePreserved` (`GracefulDelivery`),
`EndOfFileIsHonest` (`EofIsHonest`).

`SSHDial`, for any keys. The transport and the credentials do not meet, so there
are two invariants. `Transport` says in which state hook, context and socket can
be at each place of `dialSSH`; from it `DialIsClean` (`OutcomeIsClean`).
`Credentials` says that the sources are those allowed (`Allowed`), what the source
in use has left and has shown (`InUse`), that no key is shown before a source of
keys is in use (`Unshown`, which is what makes the agent's late list safe), and
what a failed method name has shown (`Exhausted`); from it `NothingElseShown`
(`OnlyConfiguredShown`) and `NothingWithheld` (`EveryCredentialShown`).

*SSHTunnelProof* and *BastionTunnelProof*, for any finite set of connections, deaf
or not, and for any configurations, bastions and nodes, from `CallersAssumption`
and `ConnsAssumption`. The argument is compositional. Every step of the tunnel is
a step of one part, or of both when the context is cancelled, and leaves the other
alone (`PoolSteps`, `SessionSteps`, `ServerSteps`), so that the inductive
invariants of the parts hold of the tunnel: the proof modules of the parts are
instantiated with the tunnel's variables and their lemmas cited. The exception is
the deferred `Close` of the server, which after a failed start-up runs before
`Serve` has; `CloseIInv` of `ConnServerProof` covers it. What the compositions
add to `IInv` is where the goroutines are while the main one is at each of its
places:

* `Waited`: handlers are counted only while it serves, and a call of the pool or
  the session is under way only in a running handler (or, in an SSH tunnel, where
  `runTunnel` itself waits for it). That the wait group is what is waited for
  comes from `ConnServer`'s `WgCounts` (`NoneServed`).
* `ProbedFirst` and `PoolLast`: it serves what it has probed, and the pool is open
  until the end. `RelaysSurvive` follows with `WorkingKept` of `ClientPoolProof`.
* `Vetting`: what is known of the configuration and the bastion at each step of
  the start-up; it ends in `Documented`.
* `ClosedLast` and `KilledOutside`: `session.close` comes after the last handler,
  and once it has taken the token there is no other; an interrupt kills nobody
  while `NotifyContext` is in force. With `Plane` of `BastionSessionProof` this
  leaves, of the sessions at the data plane, those lost with a request or a DELETE.

From it, in both: `TunnelIsImplemented` (`ImplementsTunnel`: every initial state is
one of `Tunnel`, every step a step of `Tunnel` or none) and `ServerKeepsItsWord`.
In the SSH tunnel `ShutdownCutsNoRelay` (`RelaysSurvive`), and `PoolIsClientPool`
(the tunnel's pool is a behaviour of `ClientPool`, so that every safety property
of that module holds of it) with `PoolKeepsItsWord`; in the Azure Bastion tunnel
`NoSessionLeftBehind` (`SessionIsDeleted`) and `SessionIsBastionSession`. The
inductive invariants were model-checked on the instances of the two runs before
they were proved.

The type invariants that are theorems are not checked again by the runs, that of
`Relay` excepted, which also counts. The types of `SSHDial` are part of its two
invariants; `SSHTunnel` and `BastionTunnel` have the state of their parts.

Every invariant, action property and refinement of a safety specification that a
run checks is also a theorem. Only model-checked: the liveness properties
(`LostIsForgotten`, `CancelReturns`, `ForkReturns`, `TunnelsFollowTerraform`,
`BreakEnds`, `DrainBounded`, `ForwarderStops`, `CancelEnds`, `DialEnds`,
`InterruptEnds` of both compositions) and `AttemptsEnd` in `ImplementsShared`, since
fairness and ENABLED are out of the prover's reach.

## 5. Where the code and its words differ

* `Relay_stuck`. A handler does not always end when its local connection is
  closed, which is what the tunnel's teardown rests on. Over SSH it is enough that the local
  client has finished sending and the remote neither answers nor closes: the copy
  from the client is done, the other one reads the remote, and closing the local
  connection wakes nobody. With both callers it also happens to a copy blocked in
  a write to a remote that has stopped reading. `Serve` then never returns, the
  SSH client or session that would break the tie is closed only after it, and
  `NotifyContext` swallows further interrupts: the tunnel outlives terraform.
  `Deaf` carries this case into `ConnServer` and the compositions, whose
  `CancelReturns` and `InterruptEnds` except it.
* `ForkTunnel_foreign`. `SignalReadyWhenServing` takes whoever answers on the
  port for the tunnel's listener. For tunnels that signal inline
  `ReadyMeansServing` holds with the same stranger around.

Without a sentence in the repository to contradict, but worth knowing (each is an
exception written into a property):

* In `Serve` the deferred `stop()` runs before the deferred `wg.Wait()`
  (`server.go:28-30`). When `Accept` fails for another reason than `Close`, the
  hook that would close the connections is gone while `Serve` waits for them: one
  idle local client keeps the process alive after SIGINT (`hook = "stopped"` in
  `CancelReturns` and `InterruptEnds`).
* The loss of the SSH connection ends a relay's remote as a clean end of file,
  like every error of a WebSocket: a response cut off looks complete to the local
  client (`EofIsHonest`), and the relay then waits for that client (`BreakEnds`).
* Keys in `~/.ssh` hide the agent: both are the method `publickey`, and the SSH
  package tries one source per method name (`EveryCredentialShown`).
* An agent that accepts a connection and never answers blocks the dial for ever:
  its sockets know nothing of the context (`DialEnds`). Every caller of the pool
  waits behind that handshake (`ImplementsShared`), except those whose context ends,
  and an interrupt does not end the process while the handshake lasts
  (`InterruptEnds` of `SSHTunnel`).
* With `kubernetes.exec` client-go runs the credential command inside a request,
  without its context (`config.go:94`): an interrupt does not end a tunnel whose
  command hangs (`CancelEnds`).
* In an Azure Bastion tunnel the deferred `cancel()` restores SIGINT's default
  before `session.close` runs (`tunnel.go:220`, `233`): a second interrupt kills the
  process before the DELETE (`SessionIsDeleted`).

## 6. What is not modelled

Process ids are not reused in `ForkTunnel`; in `TunnelResource` they are, but the
watcher of `libs/watch.go`, which compares creation times from `NewProcess` on, is not
in it. `TunnelResource` assumes that `Close` reaches the provider process that opened:
it is that process, the parent, that keeps the ids. Time is the order of events:
intervals and timeouts fire at any moment, so how long things take (the keepalive
interval, the age of an access token queued behind slow requests) is not expressed.
The handlers of `ClientPool` share one context, as they do under `Serve`. The pool may
be closed at any time in `ClientPool`; in `SSHTunnel` it is closed only after `Serve`
has returned, so `GetClosed` and `PublishClosed` are never taken there. Windows, where
`terminate` is not a signal, is left aside. Schemas, model conversion, kubeconfig and
AWS configuration loading, log wording and URLs are not modelled; the fake SSH server
in `ssh/sshtest` is test code. `SSHDial` leaves out partial success (several methods
required at once) and servers that change the methods they take along the way; host
keys are accepted as the code does, without a check.

A property's exceptions are the model's, and deliberate: `TunnelsFollowTerraform`
excepts a tunnel whose parent pid was read after terraform had died (it watches
init); `EofIsHonest` excepts the end of file a WebSocket error is turned into;
`GracefulDelivery` is claimed for SSH, whose channels half-close; `BreakEnds` and
`DrainBounded` except far ends that stop reading, and `BreakEnds` what section 5
says of SSH; `CancelReturns` and `InterruptEnds` except an accept error and a deaf
handler or relay; `DialEnds`, `ImplementsShared` and `InterruptEnds` of `SSHTunnel` a
silent agent; `CancelEnds` a credential command; `EveryCredentialShown` the agent's
keys behind keys in `~/.ssh`; `SessionIsDeleted` a process killed inside `session.close`.

## 7. Plan

Done: the pool, the server, the relay, the fork, the dial with its credentials,
the bastion session, the Kubernetes tunnel, the provider's calls, and the two
compositions with the abstract tunnel they implement, checked and proved. The
project has the dozen runs, the forty properties and the eight proof modules it
set itself as a limit, so what follows replaces something weaker.

1. `TunnelResource` refined by `ForkTunnel`: its `Fork`, `Forked`, `Kill` and
   `Reap` are the visible steps of that module.
2. `DialOk` and `DialErr` of `ClientPool` as the outcomes of `SSHDial`
   (`INSTANCE ... WITH`), so that `Silent` follows from the agent instead of being
   a constant.
3. The processes of SSM and Kubernetes tunnels as further implementations of
   `Tunnel`.
4. The validation rules of the SSH, SSM and Kubernetes resources as operators;
   last, since they are tables that unit tests already cover.
