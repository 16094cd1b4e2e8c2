------------------------------ MODULE SSHTunnel ------------------------------
(***************************************************************************)
(* The process of an SSH tunnel: runTunnel (internal/ssh/tunnel.go) puts   *)
(* the client pool and the connection server together.  The pool's callers *)
(* are runTunnel itself, twice, and the server's handlers, one per local   *)
(* connection; all of them share one context.  The steps of the parts are  *)
(* those of ClientPool and ConnServer, here in the order, and with the     *)
(* callers, that this program gives them.                                  *)
(***************************************************************************)
EXTENDS FiniteSets

CONSTANTS
    Conns,      \* the local connections
    Auth,       \* runTunnel's clients.get
    Probe,      \* runTunnel's fwd.dialTarget
    Deaf,       \* the connections whose relays no longer look at the local end
    Silent,     \* the callers whose handshakes may meet a silent ssh-agent
    None

VARIABLES
    main,       \* where runTunnel is
    cancelled,  \* runCtx is done: SIGINT
    client, inflight, poolClosed, dropping,                 \* clientPool
    conn, outcome, done, tend,                              \* its handshakes
    pc, try, at,                                            \* its callers
    hook, srvClosed, conns, wg, sock, handler, serve, accepted  \* ConnServer

poolVars == <<client, inflight, poolClosed, dropping, conn, outcome, done, tend,
              pc, try, at>>
serverVars == <<hook, srvClosed, conns, wg, sock, handler, serve, accepted>>
vars == <<main, cancelled, poolVars, serverVars>>

Callers == Conns \cup {Auth, Probe}

Pool == INSTANCE ClientPool WITH Handlers <- Callers, closed <- poolClosed
Server == INSTANCE ConnServer WITH closed <- srvClosed

ASSUME CallersAssumption ==
    /\ IsFiniteSet(Conns) /\ None \notin Conns \cup Pool!Attempts
    /\ Auth # Probe /\ {Auth, Probe} \cap Conns = {}
    /\ Deaf \subseteq Conns /\ Silent \subseteq Callers

Init == main = "auth" /\ Pool!Init /\ Server!Init

-----------------------------------------------------------------------------
(* runTunnel: start-up.  An error goes to the deferred calls that have been *)
(* set up by then, the last one first.                                      *)

Goto(l) == main' = l /\ UNCHANGED <<cancelled, poolVars, serverVars>>

\* clients.get(runCtx): the steps of get, without those of dialTarget.
Authenticate ==
    /\ main = "auth"
    /\ \/ Pool!Get(Auth) \/ Pool!Wait(Auth) \/ Pool!Dial(Auth)
       \/ Pool!Publish(Auth) \/ Pool!Announce(Auth)
    /\ UNCHANGED <<main, serverVars>>

Authenticated == main = "auth" /\ pc[Auth] = "open" /\ Goto("listen")
AuthFailed == main = "auth" /\ pc[Auth] = "failed" /\ Goto("closePool")

\* Mutation: the connection is forgotten when the port is taken.
ListenEnds == main = "listen" /\ \E l \in {"probe", "ended"} : Goto(l)

\* The port may be taken.
Listen == main = "listen" /\ \E l \in {"probe", "closePool"} : Goto(l)

ProbeTarget ==
    /\ main = "probe"
    /\ Pool!Handler(Probe)
    /\ UNCHANGED <<main, serverVars>>

Probed == main = "probe" /\ pc[Probe] = "relay" /\ Goto("signal")
ProbeFailed == main = "probe" /\ pc[Probe] = "failed" /\ Goto("closeServer")

\* SignalReadyIfRequested, which may fail.
Signal == main = "signal" /\ \E l \in {"serve", "closeServer"} : Goto(l)

-----------------------------------------------------------------------------
(* Serving                                                                 *)

Serve ==
    /\ main = "serve"
    /\ Server!Serving \/ Server!HookFires \/ Server!HookCloses
    /\ UNCHANGED <<main, poolVars>>

\* forwarder.handle: dialTarget, then the relay.
DialTarget(c) ==
    /\ handler[c] = "running"
    /\ Pool!Handler(c)
    /\ UNCHANGED <<main, serverVars>>

\* The target was not reached, or the relay has ended.
HandlerEnds(c) ==
    /\ Pool!Returned(c)
    /\ Server!HandlerEnds(c)
    /\ UNCHANGED <<main, poolVars>>

Leave(c) ==
    /\ Server!RunClose(c) \/ Server!Forget(c) \/ Server!Done(c)
    /\ UNCHANGED <<main, poolVars>>

\* Mutation: Serve is not waited for once the accept loop has ended.
ServedEarly == main = "serve" /\ serve = "wait" /\ Goto("closeServer")

Served == main = "serve" /\ serve = "returned" /\ Goto("closeServer")

-----------------------------------------------------------------------------
(* The deferred calls: fwd.Close, clients.close, then stop and the end of  *)
(* the process.                                                            *)

CloseServer ==
    /\ main = "closeServer"
    /\ Server!CloseAll
    /\ main' = "closePool"
    /\ UNCHANGED <<cancelled, poolVars, hook, conns, wg, handler, serve, accepted>>

ClosePool ==
    /\ main = "closePool"
    /\ Pool!PoolClose
    /\ main' = "dropClient"
    /\ UNCHANGED serverVars

DropClient ==
    /\ main = "dropClient"
    /\ Pool!PoolDrop
    /\ UNCHANGED <<main, serverVars>>

End == main = "dropClient" /\ dropping = None /\ Goto("ended")

-----------------------------------------------------------------------------
(* Around it, until the process ends                                       *)

Tend ==
    /\ main # "ended"
    /\ \E a \in Pool!Attempts : Pool!Tend(a)
    /\ UNCHANGED <<main, serverVars>>

Lose ==
    /\ main # "ended"
    /\ \E a \in Pool!Attempts : Pool!Lose(a)
    /\ UNCHANGED <<main, serverVars>>

\* SIGINT, from the watcher or from Close.  NotifyContext swallows the next
\* ones: stop() is the last of the deferred calls.
Interrupt ==
    /\ main # "ended" /\ ~cancelled
    /\ cancelled' = TRUE
    /\ UNCHANGED <<main, poolVars, serverVars>>

Start == Authenticate \/ Authenticated \/ AuthFailed \/ Listen
            \/ ProbeTarget \/ Probed \/ ProbeFailed \/ Signal
Shutdown == Served \/ CloseServer \/ ClosePool \/ DropClient \/ End
Handle(c) == DialTarget(c) \/ HandlerEnds(c) \/ Leave(c)

Next ==
    \/ Start \/ Serve \/ Shutdown
    \/ \E c \in Conns : Handle(c)
    \/ Tend \/ Lose \/ Interrupt

\* What of a caller's dialTarget happens by itself, as in ClientPool.
Moves(h) ==
    \/ h \notin Silent /\ Pool!Dial(h)
    \/ Pool!Get(h) \/ Pool!Wait(h) \/ Pool!Publish(h) \/ Pool!Announce(h)
    \/ Pool!OpenStart(h) \/ Pool!OpenFailed(h) \/ Pool!Discard(h) \/ Pool!Drop(h)

\* As in ConnServer: no client need come and accept need not fail.
Winds ==
    \/ Server!Arm \/ Server!AcceptClosed \/ Server!Refuse \/ Server!Register
    \/ Server!Stop \/ Server!Return

\* What Relay says of a relay, over SSH: it ends some time after its local
\* connection is closed, unless the local client has finished sending or the
\* remote, or the bastion itself, has stopped reading.  Then only the remote can
\* end it, at the latest with the loss of the SSH connection.
RelayMustEnd(c) ==
    IF c \in Deaf THEN conn[at[c]] # "live" ELSE sock[c] = "closed"

\* Every goroutine that can move does, and no more is asked of the network
\* than in ClientPool.
Fairness ==
    /\ WF_vars(Authenticate /\ Moves(Auth)) /\ WF_vars(ProbeTarget /\ Moves(Probe))
    /\ WF_vars(Start /\ main' # main) /\ WF_vars(Shutdown)
    /\ WF_vars(Serve /\ Winds)
    /\ WF_vars(Serve /\ Server!HookFires) /\ WF_vars(Serve /\ Server!HookCloses)
    /\ \A c \in Conns :
          /\ WF_vars(DialTarget(c) /\ Moves(c)) /\ WF_vars(Leave(c))
          /\ WF_vars(HandlerEnds(c) /\ (pc[c] = "failed" \/ RelayMustEnd(c)))
    /\ WF_vars(Tend)

Spec == Init /\ [][Next]_vars
FairSpec == Spec /\ Fairness

-----------------------------------------------------------------------------
(* Properties                                                              *)

Phase ==
    CASE main \in {"auth", "listen", "probe", "signal"} -> "starting"
      [] main = "serve" -> "ready"
      [] main \in {"closeServer", "closePool", "dropClient"} -> "stopping"
      [] main = "ended" -> "ended"

Promise == INSTANCE Tunnel WITH
    phase <- Phase,
    vetted <- pc[Probe] = "relay",
    served <- Server!Counted,
    upstream <- \E a \in Pool!Attempts : conn[a] = "live"

\* runTunnel implements Tunnel: "the local listener is only useful once the
\* bastion can also open a channel to the configured target" (tunnel.go:97),
\* nobody is served outside readiness, no SSH connection is made once the
\* tunnel stops and none is up when it has ended, whichever step of the
\* start-up failed and whatever the handlers and handshakes were doing.
ImplementsTunnel == Promise!Spec

\* Unless the tunnel is interrupted, no step of any goroutine, the tunnel's
\* own shutdown included, closes a working connection under a relay.
RelaysSurvive ==
    [][ \A c \in Conns :
          handler[c] = "running" /\ pc[c] = "relay" /\ ~cancelled
             /\ conn[at[c]] = "live" => conn'[at[c]] # "shut" ]_vars

\* An interrupt ends the process, whatever it was doing: authenticating,
\* probing, waiting for another's handshake, opening channels for several
\* connections or relaying.  It fails in three cases: after an accept error,
\* which has disarmed the hook (server.go:28-30); over a deaf relay, whose SSH
\* connection runTunnel would close only after Serve has returned; and in a
\* handshake that an ssh-agent does not answer (auth.go:134, 169), whoever
\* leads it.
InterruptEnds ==
    cancelled ~> \/ main = "ended" \/ hook = "stopped"
                 \/ \E c \in Deaf : handler[c] = "running" /\ pc[c] = "relay"
                 \/ Pool!AgentSilent
=============================================================================
