---------------------------- MODULE BastionTunnel ----------------------------
(***************************************************************************)
(* The process of an Azure Bastion tunnel (internal/azurebastion/tunnel.go) *)
(* from its configuration to the DELETE of its session: the decisions      *)
(* about the configuration and the bastion, then BastionSession and        *)
(* ConnServer put together, then the deferred calls.  SIGINT cancels the   *)
(* tunnel while signal.NotifyContext is in force and kills it at any other *)
(* time.                                                                   *)
(***************************************************************************)
EXTENDS Naturals, FiniteSets

CONSTANTS
    Configs,    \* what a user may configure
    Infos,      \* what the Azure Resource Manager may say of the bastion
    FreePort,   \* the port GetFreePort finds
    Conns,      \* the local connections
    Main,       \* the one call of session.close
    Deaf,       \* the connections whose relays no longer look at the local end
    Nodes, MaxExpiries,     \* as in BastionSession
    None

Targets == {"unset", "valid", "invalid"}
ASSUME ConfigsAssumption ==
    /\ Configs \subseteq [bastion : BOOLEAN, resource : Targets, ip : Targets,
                          port : Nat, localPort : Nat]
    /\ Infos \subseteq [sku : STRING, tunneling : BOOLEAN, ipConnect : BOOLEAN,
                        dns : Targets]
    /\ FreePort \in 1..65535
ASSUME ConnsAssumption ==
    /\ IsFiniteSet(Conns) /\ Deaf \subseteq Conns
    /\ None \notin Conns \cup Nodes \cup Infos
    /\ MaxExpiries \in Nat

VARIABLES
    main,       \* where azureBastionConfig, then StartRemoteTunnel is
    alive,      \* the process runs
    cfg,        \* TunnelConfig
    info,       \* bastionInfo
    cancelled,  \* runCtx is done
    cached, credMu, obtained, expiries, auth, node, mu,         \* sessionClient
    pc, uses, reqNode, reply, dialled, closer, taken,           \* its callers
    request, origin, live,                                      \* the data plane
    hook, srvClosed, conns, wg, sock, handler, serve, accepted  \* ConnServer

sessionVars == <<cached, credMu, obtained, expiries, auth, node, mu, pc, uses,
                 reqNode, reply, dialled, closer, taken, request, origin, live>>
serverVars == <<hook, srvClosed, conns, wg, sock, handler, serve, accepted>>
vars == <<main, alive, cfg, info, cancelled, sessionVars, serverVars>>

Session == INSTANCE BastionSession WITH Handlers <- Conns, Closers <- {Main}
Server == INSTANCE ConnServer WITH closed <- srvClosed

Init ==
    /\ main = "configure" /\ alive = TRUE
    /\ cfg \in Configs /\ info = None
    /\ Session!Init /\ Server!Init

-----------------------------------------------------------------------------
(* Start-up                                                                *)

Ports == 1..65535

\* resolve: one target, well-formed; Bastion reaches an address only by SSH
\* and RDP.
Resolves(c) ==
    /\ c.bastion
    /\ (c.resource = "unset") # (c.ip = "unset")
    /\ "invalid" \notin {c.resource, c.ip}
    /\ c.port \in Ports /\ c.localPort \in Ports
    /\ c.ip # "unset" => c.port \in {22, 3389}

\* Mutation: IP Connect is not asked for.
ValidHost(i, c) ==
    i.sku \in {"Standard", "Premium"} /\ i.tunneling /\ i.dns # "unset"

\* validateBastion
ValidBastion(i, c) ==
    /\ i.sku \in {"Standard", "Premium"} /\ i.tunneling
    /\ c.ip # "unset" => i.ipConnect
    /\ i.dns # "unset"

Goto(l) == main' = l
Parts == <<cancelled, sessionVars, serverVars>>

\* The provider fills in the port and refuses what does not resolve; the
\* process it forks resolves the same configuration.
Configure ==
    /\ main = "configure"
    /\ cfg' = IF cfg.localPort = 0 THEN [cfg EXCEPT !.localPort = FreePort] ELSE cfg
    /\ Goto(IF Resolves(cfg') THEN "discover" ELSE "return")
    /\ UNCHANGED <<alive, info, Parts>>

Discover ==
    /\ main = "discover"
    /\ info' \in Infos
    /\ Goto("validate")
    /\ UNCHANGED <<alive, cfg, Parts>>

DiscoverFails ==
    /\ main = "discover"
    /\ Goto("return")
    /\ UNCHANGED <<alive, cfg, info, Parts>>

\* validateBastion, and newSessionClient, which parses the DNS name.
Validate ==
    /\ main = "validate"
    /\ Goto(IF ValidBastion(info, cfg) /\ info.dns = "valid" THEN "listen" ELSE "return")
    /\ UNCHANGED <<alive, cfg, info, Parts>>

\* The port may be taken; from here on session.close is deferred.
Listen ==
    /\ main = "listen"
    /\ \E l \in {"notify", "closeSession"} : Goto(l)
    /\ UNCHANGED <<alive, cfg, info, Parts>>

Notify ==
    /\ main = "notify"
    /\ Goto("signal")
    /\ UNCHANGED <<alive, cfg, info, Parts>>

\* SignalReadyIfRequested, which may fail.
Signal ==
    /\ main = "signal"
    /\ \E l \in {"serve", "closeServer"} : Goto(l)
    /\ UNCHANGED <<alive, cfg, info, Parts>>

-----------------------------------------------------------------------------
(* Serving                                                                 *)

Serve ==
    /\ main = "serve"
    /\ Server!Serving \/ Server!HookFires \/ Server!HookCloses
    /\ UNCHANGED <<main, alive, cfg, info, sessionVars>>

\* server.handle: session.open, then the relay.
Open(c) ==
    /\ handler[c] = "running"
    /\ Session!Open(c)
    /\ UNCHANGED <<main, alive, cfg, info, serverVars>>

HandlerEnds(c) ==
    /\ Session!Returned(c)
    /\ Server!HandlerEnds(c)
    /\ UNCHANGED <<main, alive, cfg, info, sessionVars>>

Leave(c) ==
    /\ Server!RunClose(c) \/ Server!Forget(c) \/ Server!Done(c)
    /\ UNCHANGED <<main, alive, cfg, info, sessionVars>>

\* Mutation: Serve is not waited for once the accept loop has ended.
ServedEarly ==
    /\ main = "serve" /\ serve = "wait"
    /\ Goto("closeServer")
    /\ UNCHANGED <<alive, cfg, info, Parts>>

Served ==
    /\ main = "serve" /\ serve = "returned"
    /\ Goto("closeServer")
    /\ UNCHANGED <<alive, cfg, info, Parts>>

-----------------------------------------------------------------------------
(* The deferred calls: server.Close, cancel, listener.Close (which finds   *)
(* it closed), session.close.                                              *)

CloseServer ==
    /\ main = "closeServer"
    /\ Server!CloseAll
    /\ Goto("stopNotify")
    /\ UNCHANGED <<alive, cfg, info, cancelled, sessionVars,
                   hook, conns, wg, handler, serve, accepted>>

StopNotify ==
    /\ main = "stopNotify"
    /\ Goto("closeSession")
    /\ UNCHANGED <<alive, cfg, info, Parts>>

CloseSession ==
    /\ main = "closeSession"
    /\ Session!CloseSession(Main)
    /\ UNCHANGED <<main, alive, cfg, info, serverVars>>

SessionClosed ==
    /\ main = "closeSession" /\ closer[Main] \in {"closed", "failed"}
    /\ Goto("return")
    /\ UNCHANGED <<alive, cfg, info, Parts>>

End ==
    /\ main = "return"
    /\ Goto("ended") /\ alive' = FALSE
    /\ UNCHANGED <<cfg, info, Parts>>

-----------------------------------------------------------------------------
(* Signals                                                                 *)

Notified == {"signal", "serve", "closeServer", "stopNotify"}

\* SIGINT: from the watcher, from Close, from a terminal.
Interrupt ==
    /\ main \in Notified /\ ~cancelled
    /\ cancelled' = TRUE
    /\ UNCHANGED <<main, alive, cfg, info, sessionVars, serverVars>>

Kill ==
    /\ main \notin Notified \cup {"configure"}
    /\ alive' = FALSE
    /\ UNCHANGED <<main, cfg, info, Parts>>

Start == Configure \/ Discover \/ DiscoverFails \/ Validate \/ Listen \/ Notify \/ Signal
Shutdown == Served \/ CloseServer \/ StopNotify \/ CloseSession \/ SessionClosed \/ End
Handle(c) == Open(c) \/ HandlerEnds(c) \/ Leave(c)

\* The data plane may serve a request the process has given up.
Issue ==
    /\ \E c \in Conns : Session!Issue(c)
    /\ UNCHANGED <<main, alive, cfg, info, serverVars>>

Expire ==
    /\ Session!Expire
    /\ UNCHANGED <<main, alive, cfg, info, serverVars>>

Next ==
    \/ alive /\ (Start \/ Serve \/ Shutdown \/ Expire \/ Interrupt \/ Kill)
    \/ alive /\ \E c \in Conns : Handle(c)
    \/ Issue

\* As in ConnServer and BastionSession.  A handler opens once, so that a mutex
\* is free for good in the end and needs no strong fairness.  A relay whose
\* remote has stopped reading may not notice that its connection is closed.
Moves(c) ==
    \/ Session!CredentialCached(c) \/ Session!CredentialAsk(c)
    \/ (cancelled /\ Session!CredentialRefused(c))
    \/ Session!Negotiate(c) \/ Session!NegotiateOk(c) \/ Session!NegotiateFails(c)
    \/ Session!Dial(c)

Winds ==
    \/ Server!Arm \/ Server!AcceptClosed \/ Server!Refuse \/ Server!Register
    \/ Server!Stop \/ Server!Return

Fairness ==
    /\ WF_vars(alive /\ Signal) /\ WF_vars(alive /\ Shutdown)
    /\ WF_vars(alive /\ Serve /\ Winds)
    /\ WF_vars(Serve /\ Server!HookFires) /\ WF_vars(Serve /\ Server!HookCloses)
    /\ \A c \in Conns :
          /\ WF_vars(Open(c) /\ Moves(c)) /\ WF_vars(Leave(c))
          /\ WF_vars(HandlerEnds(c) /\ (pc[c] = "failed" \/ (c \notin Deaf /\ sock[c] = "closed")))

Spec == Init /\ [][Next]_vars
FairSpec == Spec /\ Fairness

-----------------------------------------------------------------------------
(* Properties                                                              *)

Phase ==
    CASE main \in {"configure", "discover", "validate", "listen", "notify", "signal"}
           -> "starting"
      [] main = "serve" -> "ready"
      [] main \in {"closeServer", "stopNotify", "closeSession", "return"} -> "stopping"
      [] main = "ended" -> "ended"

\* The SKUs without native-client tunnels.
NoTunnels == {"", "Basic", "Developer"}

\* docs/index.md:121 and the description of target_ip_address.
Documented ==
    /\ info # None
    /\ info.sku \notin NoTunnels /\ info.tunneling
    /\ cfg.ip = "valid" => info.ipConnect /\ cfg.port \in {22, 3389}

Promise == INSTANCE Tunnel WITH
    phase <- Phase,
    vetted <- Documented,
    served <- Server!Counted,
    upstream <- auth # None \/ closer[Main] = "delete"

\* StartRemoteTunnel implements Tunnel: it is ready only for a configuration
\* and a bastion the documentation allows, nobody is served outside readiness,
\* no session is opened once it stops and none is held when it has ended.  A
\* killed process takes no further step.
ImplementsTunnel == Promise!Spec

\* When the process is gone the data plane keeps no session but those whose
\* request or DELETE failed.  The exception is a process killed while it closes
\* the session: the deferred cancel() runs before session.close (tunnel.go:220, 233), so the
\* second of two interrupts kills the process before the DELETE.
SessionIsDeleted ==
    ~alive /\ main # "closeSession" =>
        \A t \in live : Session!Failed(t) \/ closer[Main] = "failed"

\* An interrupt ends the process, whatever its handlers wait for: a mutex, a
\* response, a WebSocket or a client.  It fails twice: after an accept error,
\* which has disarmed the hook (server.go:28-30), and over a relay blocked in a
\* write to the WebSocket.
InterruptEnds ==
    cancelled ~> \/ ~alive \/ hook = "stopped"
                 \/ \E c \in Deaf : handler[c] = "running" /\ pc[c] = "open"
=============================================================================
