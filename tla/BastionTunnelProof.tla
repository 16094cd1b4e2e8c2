------------------------- MODULE BastionTunnelProof -------------------------
(***************************************************************************)
(* Proofs about BastionTunnel for any configurations, bastions, nodes and  *)
(* finite set of local connections: it implements Tunnel, and leaves no    *)
(* session at the data plane but those it failed to get or to delete.  A   *)
(* step of the tunnel is a step of its session client and a step of its    *)
(* server, so that their inductive invariants hold of it; what it adds is  *)
(* where the handlers and session.close are while StartRemoteTunnel is at  *)
(* each of its places.                                                     *)
(***************************************************************************)
EXTENDS BastionTunnel, TLAPS

SessionProof == INSTANCE BastionSessionProof WITH Handlers <- Conns, Closers <- {Main}
ServerProof == INSTANCE ConnServerProof WITH closed <- srvClosed

Starting == {"configure", "discover", "validate", "listen", "notify", "signal"}
Places == Starting \cup
          {"serve", "closeServer", "stopNotify", "closeSession", "return", "ended"}

\* The configuration resolves, the bastion is asked for it, and what it says
\* is looked at, in this order.
Vetting ==
    /\ main \in {"configure", "discover"} => info = None
    /\ main \in {"discover", "validate"} => Resolves(cfg)
    /\ main = "validate" => info \in Infos
    /\ main \in {"listen", "notify", "signal", "serve"} => Documented

\* Handlers are waited for before it stops serving.
Waited ==
    /\ Server!Counted # {} => main = "serve"
    /\ main \in Starting => \A c \in Conns : handler[c] = "none"
    /\ \A c \in Conns : handler[c] = "none" => pc[c] = "credential"
    /\ \A c \in Conns :
          pc[c] \notin {"credential", "open", "failed"} => handler[c] = "running"

\* Nobody has opened a session, nor closed one.
Unopened == closer[Main] = "idle" /\ \A c \in Conns : pc[c] = "credential"

\* session.close is called last, and once it has been the client has no token.
ClosedLast ==
    /\ closer[Main] # "idle" => main \in {"closeSession", "return", "ended"}
    /\ closer[Main] \in {"delete", "closed", "failed"} => auth = None
    /\ main \in {"return", "ended"} => Unopened \/ closer[Main] \in {"closed", "failed"}

\* An interrupt kills nobody while NotifyContext is in force.
KilledOutside == ~alive => main \notin Notified

Ordered == main \in Places /\ Vetting /\ Waited /\ ClosedLast /\ KilledOutside

IInv == SessionProof!IInv /\ ServerProof!IInv /\ Ordered

-----------------------------------------------------------------------------
(* The parts                                                               *)

\* BastionSessionProof's session client is this one.
LEMMA SameSession ==
    /\ Session!Init <=> SessionProof!Init
    /\ Session!Next <=> SessionProof!Next
    /\ Session!vars = SessionProof!vars
  BY DEF Session!Init, SessionProof!Init, Session!Next, SessionProof!Next,
         Session!vars, SessionProof!vars, Session!Nothing, SessionProof!Nothing,
         Session!Open, SessionProof!Open, Session!Issue, SessionProof!Issue,
         Session!CloseSession, SessionProof!CloseSession, Session!Expire,
         SessionProof!Expire, Session!Cancel, SessionProof!Cancel,
         Session!credVars, SessionProof!credVars, Session!stateVars,
         SessionProof!stateVars, Session!openVars, SessionProof!openVars,
         Session!planeVars, SessionProof!planeVars, Session!closeVars,
         SessionProof!closeVars, Session!AccessToken, SessionProof!AccessToken,
         Session!Negotiate, SessionProof!Negotiate, Session!NegotiateOk,
         SessionProof!NegotiateOk, Session!NegotiateFails,
         SessionProof!NegotiateFails, Session!Dial, SessionProof!Dial,
         Session!CloseCall, SessionProof!CloseCall, Session!Detach,
         SessionProof!Detach, Session!Delete, SessionProof!Delete,
         Session!DeleteFails, SessionProof!DeleteFails, Session!CredentialCached,
         SessionProof!CredentialCached, Session!CredentialAsk,
         SessionProof!CredentialAsk, Session!CredentialGiven,
         SessionProof!CredentialGiven, Session!CredentialRefused,
         SessionProof!CredentialRefused, Session!Goto, SessionProof!Goto

\* ConnServerProof's server is this one.
LEMMA SameServer ==
    /\ Server!Init <=> ServerProof!Init
    /\ Server!Next <=> ServerProof!Next
    /\ Server!vars = ServerProof!vars
  BY DEF Server!Init, ServerProof!Init, Server!Next, ServerProof!Next, Server!vars,
         ServerProof!vars, Server!Serving, ServerProof!Serving, Server!Run,
         ServerProof!Run, Server!HookFires, ServerProof!HookFires,
         Server!HookCloses, ServerProof!HookCloses, Server!OwnerCloses,
         ServerProof!OwnerCloses, Server!Cancel, ServerProof!Cancel, Server!Arm,
         ServerProof!Arm, Server!AcceptClosed, ServerProof!AcceptClosed,
         Server!AcceptError, ServerProof!AcceptError, Server!Refuse,
         ServerProof!Refuse, Server!Register, ServerProof!Register, Server!Stop,
         ServerProof!Stop, Server!Return, ServerProof!Return, Server!Accept,
         ServerProof!Accept, Server!HandlerEnds, ServerProof!HandlerEnds,
         Server!RunClose, ServerProof!RunClose, Server!Forget, ServerProof!Forget,
         Server!Done, ServerProof!Done, Server!CloseAll, ServerProof!CloseAll

\* The tunnel's session client starts as one, and each of its steps keeps the
\* client's inductive invariant.
LEMMA SessionStarts == Session!Init => SessionProof!IInv
  BY ConnsAssumption, SameSession, SessionProof!InvariantInit

LEMMA SessionKeeps ==
    SessionProof!IInv /\ (Session!Next \/ UNCHANGED Session!vars) => SessionProof!IInv'
  BY ConnsAssumption, SameSession, SessionProof!InvariantStep
     DEF Session!vars, SessionProof!vars, Session!credVars, SessionProof!credVars,
         Session!stateVars, SessionProof!stateVars, Session!openVars,
         SessionProof!openVars, Session!planeVars, SessionProof!planeVars,
         Session!closeVars, SessionProof!closeVars

\* What ConnServerProof assumes of the connections.
LEMMA FiniteConns == ServerProof!IsFiniteSet(Conns) /\ None \notin Conns
  BY ConnsAssumption DEF IsFiniteSet, ServerProof!IsFiniteSet

\* The same of the tunnel's server.
LEMMA ServerStarts == Server!Init => ServerProof!IInv
  BY FiniteConns, SameServer, ServerProof!InitIInv

LEMMA ServerKeeps ==
    ServerProof!IInv /\ (Server!Next \/ UNCHANGED Server!vars) => ServerProof!IInv'
  BY FiniteConns, SameServer, ServerProof!NextIInv DEF Server!vars, ServerProof!vars

\* The deferred server.Close is a Close, whether or not Serve has run.
LEMMA ServerClosed == ServerProof!IInv /\ CloseServer => ServerProof!IInv'
<1> SUFFICES ASSUME ServerProof!IInv, CloseServer PROVE ServerProof!IInv'
  OBVIOUS
<1>1. ServerProof!CloseAll
  BY DEF CloseServer, Server!CloseAll, ServerProof!CloseAll
<1>2. UNCHANGED <<cancelled, hook, conns, wg, handler, serve, accepted>>
  BY DEF CloseServer
<1>3. QED
  BY <1>1, <1>2, FiniteConns, ServerProof!CloseIInv

\* What the tunnel needs of the session client's invariant.
LEMMA SessionFacts ==
    SessionProof!IInv =>
        /\ Session!TypeOK
        /\ auth # None => auth \in Conns /\ pc[auth] \in {"dial", "open", "failed"}
        /\ \A t \in live : pc[t] \in {"post", "dial", "open", "failed"}
        /\ \A t \in live : pc[t] \in {"dial", "open"} => Session!Succeeded(t)
        /\ \A t \in live : Session!Succeeded(t) =>
              t = auth \/ closer[Main] \in {"delete", "failed"}
  BY DEF SessionProof!IInv, SessionProof!TypeOK, Session!TypeOK, SessionProof!Progress,
         SessionProof!Tokens, SessionProof!Plane, SessionProof!Succeeded,
         Session!Succeeded

\* And of the server's.
LEMMA ServerFacts ==
    ServerProof!IInv =>
        /\ Server!TypeOK
        /\ serve = "register" => accepted \in Conns /\ handler[accepted] = "none"
  BY DEF ServerProof!IInv, ServerProof!TypeOK, Server!TypeOK, ServerProof!InHand,
         ServerProof!Hooks, Server!Hooks, ServerProof!Handlers, Server!Handlers,
         ServerProof!Serves, Server!Serves

LEMMA ServedIsEmpty == ServerProof!IInv /\ serve = "returned" => Server!Counted = {}
  BY FiniteConns, ServerProof!NoneServed DEF Server!Counted, ServerProof!Counted

-----------------------------------------------------------------------------
(* The composition                                                         *)

\* The steps of StartRemoteTunnel that call into neither part, and those that
\* happen around it.
Moving ==
    \/ Configure \/ Discover \/ DiscoverFails \/ Validate \/ Listen \/ Notify \/ Signal
    \/ Served \/ StopNotify \/ SessionClosed \/ End
    \/ Kill

\* They leave both parts alone.
LEMMA MovingMoves == Moving => UNCHANGED <<cancelled, sessionVars, serverVars>>
  BY DEF Moving, Configure, Discover, DiscoverFails, Validate, Listen, Notify, Signal,
         Served, StopNotify, SessionClosed, End, Kill, Parts

\* A handler's steps in session.open.
LEMMA OpenMoves ==
    ASSUME Session!TypeOK, NEW h \in Conns, Session!Open(h)
    PROVE  /\ \A g \in Conns \ {h} : pc'[g] = pc[g]
           /\ ~Session!Returned(h)
           /\ UNCHANGED <<closer, taken, cancelled>>
  BY DEF Session!TypeOK, Session!Returned, Session!Open, Session!AccessToken,
         Session!CredentialCached, Session!CredentialAsk, Session!CredentialGiven,
         Session!CredentialRefused, Session!Negotiate, Session!NegotiateOk,
         Session!NegotiateFails, Session!Dial, Session!Goto, Session!closeVars,
         Session!planeVars

\* And those of session.close.
LEMMA CloseMoves ==
    ASSUME Session!TypeOK, Session!CloseSession(Main)
    PROVE  /\ UNCHANGED <<pc, cancelled>>
           /\ \/ closer[Main] = "idle" /\ closer'[Main] = "called" /\ UNCHANGED auth
              \/ /\ closer[Main] = "called" /\ auth' = None
                 /\ closer'[Main] = IF auth = None THEN "closed" ELSE "delete"
              \/ /\ closer[Main] = "delete" /\ UNCHANGED auth
                 /\ closer'[Main] \in {"closed", "failed"}
  BY DEF Session!TypeOK, Session!CloseSession, Session!CloseCall, Session!Detach,
         Session!Delete, Session!DeleteFails, Session!stateVars, Session!openVars

\* The server's own steps, in Serve and in its handlers.
LEMMA ServeMoves ==
    ASSUME Server!TypeOK, serve = "register" => accepted \in Conns /\ handler[accepted] = "none",
           Serve
    PROVE  /\ UNCHANGED <<main, alive, cfg, info, cancelled, sessionVars>>
           /\ \A c \in Conns : handler'[c] = handler[c] \/ handler'[c] = "running"
  BY DEF Serve, Server!TypeOK, Server!Serving, Server!Arm, Server!Accept,
         Server!AcceptClosed, Server!AcceptError, Server!Refuse, Server!Register,
         Server!Stop, Server!Return, Server!HookFires, Server!HookCloses

LEMMA HandlerMoves ==
    ASSUME Server!TypeOK, NEW c \in Conns, HandlerEnds(c) \/ Leave(c)
    PROVE  /\ UNCHANGED <<main, alive, cfg, info, cancelled, sessionVars>>
           /\ \A d \in Conns \ {c} : handler'[d] = handler[d]
           /\ handler[c] \notin {"none", "done"} /\ handler'[c] # "none"
           /\ handler[c] = "running" => Session!Returned(c)
  BY DEF HandlerEnds, Leave, Server!TypeOK, Server!HandlerEnds, Server!RunClose,
         Server!Forget, Server!Done

\* Every step of the tunnel is a step of its session client, or none.
LEMMA SessionSteps == Next => Session!Next \/ UNCHANGED Session!vars
<1> SUFFICES ASSUME Next PROVE Session!Next \/ UNCHANGED Session!vars
  OBVIOUS
<1> USE DEF sessionVars, Session!vars, Session!credVars, Session!stateVars, Session!openVars,
            Session!planeVars, Session!closeVars
<1>1. CASE \E c \in Conns : Open(c)
  BY <1>1 DEF Open, Session!Next
<1>2. CASE CloseSession \/ Expire \/ Issue
  BY <1>2 DEF CloseSession, Expire, Issue, Session!Next
<1>3. CASE Interrupt
  BY <1>3 DEF Interrupt, Session!Next, Session!Cancel
<1>4. CASE Moving
  BY <1>4, MovingMoves
<1>5. CASE CloseServer
  BY <1>5 DEF CloseServer
<1>6. CASE Serve
  BY <1>6 DEF Serve, Server!Serving, Server!Arm, Server!Accept, Server!AcceptClosed,
              Server!AcceptError, Server!Refuse, Server!Register, Server!Stop,
              Server!Return, Server!HookFires, Server!HookCloses
<1>7. ASSUME NEW c \in Conns, HandlerEnds(c) \/ Leave(c) PROVE UNCHANGED Session!vars
  BY <1>7 DEF HandlerEnds, Leave, Server!HandlerEnds, Server!RunClose, Server!Forget,
              Server!Done
<1>8. QED
  BY <1>1, <1>2, <1>3, <1>4, <1>5, <1>6, <1>7 DEF Next, Start, Shutdown, Handle, Moving

\* Every step of the tunnel is a step of its server, or none, or Close.
LEMMA ServerSteps == Next => Server!Next \/ UNCHANGED Server!vars \/ CloseServer
<1> SUFFICES ASSUME Next, ~CloseServer PROVE Server!Next \/ UNCHANGED Server!vars
  OBVIOUS
<1> USE DEF serverVars, Server!vars
<1>1. CASE \E c \in Conns : Open(c)
  BY <1>1
     DEF Open, Session!Open, Session!AccessToken, Session!CredentialCached,
         Session!CredentialAsk, Session!CredentialGiven, Session!CredentialRefused,
         Session!Negotiate, Session!NegotiateOk, Session!NegotiateFails, Session!Dial
<1>2. CASE CloseSession \/ Expire \/ Issue
  BY <1>2
     DEF CloseSession, Expire, Issue, Session!CloseSession, Session!CloseCall,
         Session!Detach, Session!Delete, Session!DeleteFails, Session!Expire, Session!Issue
<1>3. CASE Interrupt
  BY <1>3 DEF Interrupt, Server!Next, Server!Cancel
<1>4. CASE Moving
  BY <1>4, MovingMoves
<1>5. CASE Serve \/ \E c \in Conns : HandlerEnds(c) \/ Leave(c)
  BY <1>5 DEF Serve, HandlerEnds, Leave, Server!Next, Server!Run
<1>6. QED
  BY <1>1, <1>2, <1>3, <1>4, <1>5 DEF Next, Start, Shutdown, Handle, Moving

\* What was vetted stays so.
LEMMA DocumentedStays == ASSUME UNCHANGED <<cfg, info>> PROVE Documented' <=> Documented
  BY DEF Documented

\* What resolves and validates is what the documentation allows.
LEMMA ValidIsDocumented ==
    ASSUME info # None, Resolves(cfg), ValidBastion(info, cfg) PROVE Documented
<1>1. info.sku \notin NoTunnels
  BY DEF ValidBastion, NoTunnels
<1>2. info.tunneling
  BY DEF ValidBastion
<1>3. cfg.ip = "valid" => info.ipConnect
  BY DEF ValidBastion
<1>4. cfg.ip = "valid" => cfg.port \in {22, 3389}
  BY DEF Resolves
<1>5. QED
  BY <1>1, <1>2, <1>3, <1>4 DEF Documented

LEMMA ResolvesStays == ASSUME cfg' = cfg PROVE Resolves(cfg)' <=> Resolves(cfg)
  BY DEF Resolves

LEMMA VettingStays == ASSUME Vetting, UNCHANGED <<main, cfg, info>> PROVE Vetting'
  BY DocumentedStays, ResolvesStays DEF Vetting

\* The start-up, the stops between the deferred calls, and a signal that kills.
LEMMA MovingKeeps == ASSUME IInv, alive, Moving PROVE Ordered'
<1> USE MovingMoves DEF sessionVars, serverVars
<1>1. \/ main' = main /\ main \notin Notified \cup {"configure"} /\ UNCHANGED <<cfg, info>>
      \/ main = "configure" /\ main' \in {"discover", "return"} /\ UNCHANGED <<alive, info>>
         /\ (main' = "discover" => Resolves(cfg'))
      \/ main = "discover" /\ main' = "validate" /\ info' \in Infos /\ UNCHANGED <<alive, cfg>>
      \/ main = "validate" /\ main' = "listen" /\ UNCHANGED <<alive, cfg, info>>
         /\ ValidBastion(info, cfg)
      \/ /\ <<main, main'>> \in {<<"discover", "return">>, <<"validate", "return">>,
                                <<"listen", "notify">>, <<"listen", "closeSession">>,
                                <<"notify", "signal">>, <<"signal", "serve">>,
                                <<"signal", "closeServer">>,
                                <<"stopNotify", "closeSession">>}
         /\ UNCHANGED <<alive, cfg, info>>
      \/ Served /\ main' = "closeServer" /\ UNCHANGED <<alive, cfg, info>>
      \/ SessionClosed /\ main' = "return" /\ UNCHANGED <<alive, cfg, info>>
      \/ main = "return" /\ main' = "ended" /\ ~alive' /\ UNCHANGED <<cfg, info>>
  BY DEF Moving, Configure, Discover, DiscoverFails, Validate, Listen, Notify, Signal,
         Served, StopNotify, SessionClosed, End, Kill, Goto
<1>2. main' \in Places /\ KilledOutside'
  BY <1>1 DEF IInv, Ordered, Places, Starting, KilledOutside, Notified, Served, SessionClosed
<1>3. Vetting'
  <2> USE DEF IInv, Ordered, Vetting
  <2>1. CASE main = "validate" /\ main' = "listen"
    <3>1. UNCHANGED <<cfg, info>> /\ ValidBastion(info, cfg)
      BY <1>1, <2>1 DEF Served, SessionClosed
    <3>2. info # None /\ Resolves(cfg)
      BY <2>1, ConnsAssumption
    <3>3. Documented
      BY <3>1, <3>2, ValidIsDocumented
    <3>4. QED
      BY <2>1, <3>1, <3>3, DocumentedStays
  <2>2. CASE main = "configure" /\ main' # "configure"
    BY <1>1, <2>2 DEF Served, SessionClosed
  <2>3. CASE main = "discover" /\ main' = "validate"
    BY <1>1, <2>3, ResolvesStays DEF Served, SessionClosed
  <2>4. CASE /\ main = "validate" => main' # "listen"
             /\ main = "configure" => main' = "configure"
             /\ main = "discover" => main' # "validate"
    <3>1. UNCHANGED <<cfg, info>>
      BY <1>1, <2>4
    <3>2. \/ main' = main
          \/ main' \in {"return", "closeSession", "closeServer", "ended"}
          \/ main \in {"listen", "notify", "signal"} /\ main' \in {"notify", "signal", "serve"}
      BY <1>1, <2>4
    <3>3. QED
      BY <3>1, <3>2, DocumentedStays, ResolvesStays
  <2>5. QED
    BY <2>1, <2>2, <2>3, <2>4
<1>4. Waited'
  <2>1. Served => Server!Counted = {}
    BY ServedIsEmpty DEF IInv, Served
  <2>2. Server!Counted' = Server!Counted
    BY DEF Server!Counted
  <2>3. main' = "serve" => main = "signal"
    BY <1>1 DEF Notified, Served, SessionClosed
  <2>4. main' \in Starting => main \in Starting
    BY <1>1 DEF Starting, Served, SessionClosed
  <2>5. main = "serve" /\ main' # "serve" => Served
    BY <1>1 DEF Notified, SessionClosed
  <2>6. QED
    BY <2>1, <2>2, <2>3, <2>4, <2>5 DEF IInv, Ordered, Waited
<1>5. ClosedLast'
  <2>1. UNCHANGED <<closer, auth, pc>>
    OBVIOUS
  <2>2. main \in Starting => Unopened
    BY DEF IInv, Ordered, Waited, ClosedLast, Unopened, Starting
  <2>3. main' \in {"return", "ended"} =>
           main \in Starting \cup {"return", "ended"} \/ SessionClosed
    BY <1>1 DEF Starting, Served
  <2>4. main \in {"closeSession", "return", "ended"} =>
           main' \in {"closeSession", "return", "ended"}
    BY <1>1 DEF Served
  <2>5. QED
    BY <2>1, <2>2, <2>3, <2>4 DEF IInv, Ordered, ClosedLast, SessionClosed, Unopened
<1>6. QED
  BY <1>2, <1>3, <1>4, <1>5 DEF Ordered

\* Handlers open sessions while the tunnel serves.
LEMMA OpeningKeeps == ASSUME IInv, NEW c \in Conns, Open(c) PROVE Ordered'
<1> USE SessionFacts DEF IInv, Ordered
<1>1. main = "serve" /\ handler[c] = "running"
  BY DEF Open, Waited, Server!Counted
<1>2. UNCHANGED <<main, alive, cfg, info, handler, closer>>
  BY OpenMoves DEF Open, serverVars
<1>3. Vetting' /\ KilledOutside'
  BY <1>2, VettingStays DEF KilledOutside
<1>4. Waited'
  BY <1>1, <1>2, OpenMoves DEF Open, Waited, Server!Counted
<1>5. ClosedLast'
  BY <1>1, <1>2 DEF ClosedLast
<1>6. QED
  BY <1>2, <1>3, <1>4, <1>5

\* Serve, and the handlers around session.open.
LEMMA ServingKeeps ==
    ASSUME IInv, Serve \/ \E c \in Conns : HandlerEnds(c) \/ Leave(c)
    PROVE  Ordered'
<1> USE ServerFacts DEF IInv, Ordered
<1>1. UNCHANGED <<main, alive, cfg, info, sessionVars>>
  BY ServeMoves, HandlerMoves
<1>2. Vetting' /\ KilledOutside' /\ ClosedLast'
  BY <1>1, VettingStays DEF sessionVars, KilledOutside, ClosedLast, Unopened
<1>3. main = "serve"
  BY HandlerMoves DEF Serve, Waited, Server!Counted
<1>4. ASSUME NEW d \in Conns
      PROVE  /\ handler'[d] = "none" => handler[d] = "none"
             /\ handler[d] = "running" /\ pc[d] \notin {"open", "failed"} =>
                   handler'[d] = "running"
  <2>1. CASE Serve
    BY <2>1, ServeMoves
  <2>2. ASSUME NEW c \in Conns, HandlerEnds(c) \/ Leave(c)
        PROVE  /\ handler'[d] = "none" => handler[d] = "none"
               /\ handler[d] = "running" /\ pc[d] \notin {"open", "failed"} =>
                     handler'[d] = "running"
    BY <2>2, HandlerMoves DEF Session!Returned
  <2>3. QED
    BY <2>1, <2>2
<1>5. Waited'
  BY <1>1, <1>3, <1>4 DEF sessionVars, Waited, Starting
<1>6. QED
  BY <1>1, <1>2, <1>5

\* session.close, and what happens around the tunnel.
LEMMA ClosingKeeps ==
    ASSUME IInv, CloseServer \/ CloseSession \/ Expire \/ Interrupt \/ Issue
    PROVE  Ordered'
<1> USE SessionFacts DEF IInv, Ordered
<1>1. UNCHANGED <<alive, cfg, info, handler, pc>>
  BY CloseMoves
     DEF CloseServer, CloseSession, Expire, Interrupt, Issue, sessionVars, serverVars,
         Session!Expire, Session!Issue, Session!openVars
<1>2. main' = main \/ (main = "closeServer" /\ main' = "stopNotify")
  <2>1. CASE CloseServer
    BY <2>1 DEF CloseServer, Goto
  <2>2. CASE ~CloseServer
    BY <2>2 DEF CloseSession, Expire, Interrupt, Issue
  <2>3. QED
    BY <2>1, <2>2
<1>3. Vetting' /\ KilledOutside' /\ main' \in Places
  BY <1>1, <1>2, DocumentedStays, ResolvesStays DEF Vetting, KilledOutside, Notified, Places
<1>4. Waited'
  BY <1>1, <1>2 DEF Waited, Server!Counted, Starting
<1>5. ClosedLast'
  <2>1. CASE CloseSession
    BY <1>1, <2>1, CloseMoves DEF CloseSession, ClosedLast, Unopened
  <2>2. CASE ~CloseSession
    <3>1. UNCHANGED <<closer, auth>>
      BY <2>2 DEF CloseServer, Expire, Interrupt, Issue, sessionVars, Session!Expire,
                  Session!Issue, Session!closeVars, Session!stateVars
    <3>2. QED
      BY <1>1, <1>2, <3>1 DEF ClosedLast, Unopened
  <2>3. QED
    BY <2>1, <2>2
<1>6. QED
  BY <1>3, <1>4, <1>5

\* A new process has configured, opened and served nothing.
LEMMA InitIInv == Init => IInv
<1> SUFFICES ASSUME Init PROVE IInv
  OBVIOUS
<1>1. SessionProof!IInv /\ ServerProof!IInv
  BY SessionStarts, ServerStarts DEF Init
<1>2. /\ \A c \in Conns : handler[c] = "none" /\ pc[c] = "credential"
      /\ closer[Main] = "idle"
  BY DEF Init, Server!Init, Session!Init
<1>3. main = "configure" /\ info = None /\ alive = TRUE
  BY DEF Init
<1>4. QED
  BY <1>1, <1>2, <1>3
     DEF IInv, Ordered, Places, Starting, Vetting, Waited, Server!Counted, ClosedLast,
         KilledOutside

\* Every step keeps the inductive invariant.
LEMMA NextIInv == IInv /\ [Next]_vars => IInv'
<1> SUFFICES ASSUME IInv, [Next]_vars PROVE IInv'
  OBVIOUS
<1>1. CASE Next
  <2>1. SessionProof!IInv'
    BY <1>1, SessionSteps, SessionKeeps DEF IInv
  <2>2. ServerProof!IInv'
    BY <1>1, ServerSteps, ServerKeeps, ServerClosed DEF IInv
  <2>3. Ordered'
    BY <1>1, MovingKeeps, OpeningKeeps, ServingKeeps, ClosingKeeps
       DEF Next, Start, Shutdown, Handle, Moving
  <2>4. QED
    BY <2>1, <2>2, <2>3 DEF IInv
<1>2. CASE UNCHANGED vars
  <2>1. SessionProof!IInv' /\ ServerProof!IInv'
    BY <1>2, SessionKeeps, ServerKeeps
       DEF IInv, vars, sessionVars, serverVars, Session!vars, Session!credVars,
           Session!stateVars, Session!openVars, Session!planeVars, Session!closeVars,
           Server!vars
  <2>2. Ordered'
    BY <1>2, VettingStays
       DEF IInv, vars, sessionVars, serverVars, Ordered, Waited, Server!Counted, ClosedLast,
           Unopened, KilledOutside
  <2>3. QED
    BY <2>1, <2>2 DEF IInv
<1>3. QED
  BY <1>1, <1>2

\* Throughout, session client and server are as their own proofs say, handlers
\* run only while the tunnel serves what the documentation allows, and
\* session.close comes last.
THEOREM Invariance == Spec => []IInv
  BY InitIInv, NextIInv, PTL DEF Spec

-----------------------------------------------------------------------------
(* The parts keep their word                                               *)

\* The tunnel's session client is a BastionSession: handlers that come and go,
\* one close, and a data plane that may outlive the process.
THEOREM SessionIsBastionSession == Spec => Session!Spec
<1>1. Init => Session!Init
  BY DEF Init
<1>2. [Next]_vars => [Session!Next]_(Session!vars)
  BY SessionSteps
     DEF vars, sessionVars, Session!vars, Session!credVars, Session!stateVars,
         Session!openVars, Session!planeVars, Session!closeVars
<1>3. QED
  BY <1>1, <1>2, PTL DEF Spec, Session!Spec

\* The parts keep their word in the tunnel.  ConnServer's owner closes it after
\* Serve has returned; here a failed start-up may close it before Serve is
\* called, and it keeps its promises all the same: nobody is served after
\* Serve, and no connection slips through a Close.
THEOREM ServerKeepsItsWord == Spec => [](Server!QuietAfterServe /\ Server!CloseDropsAll)
<1>1. IInv => ServerProof!QuietAfterServe /\ ServerProof!CloseDropsAll
  BY FiniteConns, ServerProof!QuietFollows, ServerProof!DropsFollow DEF IInv
<1>2. IInv => Server!QuietAfterServe /\ Server!CloseDropsAll
  BY <1>1 DEF Server!QuietAfterServe, ServerProof!QuietAfterServe, Server!CloseDropsAll,
              ServerProof!CloseDropsAll
<1>3. QED
  BY <1>2, Invariance, PTL

-----------------------------------------------------------------------------
(* No session is left behind                                               *)

\* A process that is gone without having been killed in session.close had
\* opened nothing, or had closed its session when no handler was left to open
\* another: what the data plane keeps was lost with a request or a DELETE.
THEOREM NoSessionLeftBehind == Spec => []SessionIsDeleted
<1>1. IInv => SessionIsDeleted
  <2> SUFFICES ASSUME IInv, ~alive, main # "closeSession", NEW t \in live,
                      closer[Main] # "failed"
               PROVE  Session!Failed(t)
    BY DEF SessionIsDeleted
  <2> USE SessionFacts DEF IInv, Ordered
  <2>1. t \in Conns
    BY DEF Session!TypeOK
  <2>2. Server!Counted = {} /\ handler[t] # "running"
    BY <2>1 DEF KilledOutside, Notified, Waited, Server!Counted
  <2>3. pc[t] = "failed" \/ pc[t] = "open"
    BY <2>1, <2>2 DEF Waited
  <2>4. main \notin Starting
    BY <2>1, <2>3 DEF Waited
  <2>5. closer[Main] = "closed"
    BY <2>1, <2>3, <2>4 DEF KilledOutside, Notified, Places, ClosedLast, Unopened
  <2>6. ~Session!Succeeded(t)
    BY <2>1, <2>5, ConnsAssumption DEF ClosedLast
  <2>7. QED
    BY <2>3, <2>6 DEF Session!Failed
<1>2. QED
  BY <1>1, Invariance, PTL

-----------------------------------------------------------------------------
(* The tunnel implements Tunnel                                            *)

\* Promise's upstream.
Up == auth # None \/ closer[Main] = "delete"

\* At the end nothing is held: nothing was opened, or session.close is over.
LEMMA NoneIsUp == IInv /\ main = "return" => ~Up
  BY SessionFacts DEF IInv, Ordered, ClosedLast, Unopened, Up

\* The steps of the start-up that stay in it look at nothing before the
\* bastion's answer, and at nothing else.
LEMMA StartingImplements ==
    ASSUME IInv, IInv', Moving, main \in Starting, main' \in Starting
    PROVE  Promise!Next \/ UNCHANGED Promise!vars
<1>1. Phase = "starting" /\ Phase' = "starting"
  BY DEF Phase, Starting
<1>2. Server!Counted' = Server!Counted /\ (Up' <=> Up)
  BY MovingMoves DEF serverVars, sessionVars, Server!Counted, Up
<1>3. CASE Documented' <=> Documented
  BY <1>1, <1>2, <1>3 DEF Promise!vars, Up
<1>4. CASE ~(Documented' <=> Documented)
  <2>1. ~Documented
    <3>1. CASE main \in {"configure", "discover"}
      BY <3>1 DEF IInv, Ordered, Vetting, Documented
    <3>2. CASE main \notin {"configure", "discover"}
      <4>1. UNCHANGED <<cfg, info>>
        BY <3>2 DEF Moving, Configure, Discover, DiscoverFails, Validate, Listen, Notify,
                    Signal, Served, StopNotify, SessionClosed, End, Kill
      <4>2. QED
        BY <4>1, <1>4, DocumentedStays
    <3>3. QED
      BY <3>1, <3>2
  <2>2. QED
    BY <1>1, <1>2, <1>4, <2>1 DEF Promise!Next, Promise!Vet, Up
<1>5. QED
  BY <1>3, <1>4

\* From there on the other steps of StartRemoteTunnel are steps of the phase,
\* or none.
LEMMA MovingImplements ==
    ASSUME IInv, IInv', Moving
    PROVE  Promise!Next \/ UNCHANGED Promise!vars
<1>1. Server!Counted' = Server!Counted /\ (Up' <=> Up)
  BY MovingMoves DEF serverVars, sessionVars, Server!Counted, Up
<1>2. main # "configure" /\ ~Discover => UNCHANGED <<cfg, info>>
  BY DEF Moving, Configure, DiscoverFails, Validate, Listen, Notify, Signal, Served,
         StopNotify, SessionClosed, End, Kill
<1>3. main' \notin Starting => (Documented' <=> Documented)
  <2>1. CASE Configure
    BY <2>1 DEF Configure, IInv, Ordered, Vetting, Documented
  <2>2. CASE ~Configure
    <3>1. main' \notin Starting => UNCHANGED <<cfg, info>>
      BY <2>2 DEF Moving, Discover, DiscoverFails, Validate, Listen, Notify, Signal, Served,
                  StopNotify, SessionClosed, End, Kill, Goto, Starting
    <3>2. QED
      BY <3>1, DocumentedStays
  <2>3. QED
    BY <2>1, <2>2
<1>4. CASE main \in Starting /\ main' \in Starting
  BY <1>4, StartingImplements
<1>5. CASE Signal /\ main' = "serve"
  <2>1. Documented /\ Phase = "starting" /\ Phase' = "ready"
    BY <1>5 DEF IInv, Ordered, Vetting, Signal, Phase
  <2>2. Documented'
    BY <1>3, <1>5, <2>1 DEF Starting
  <2>3. QED
    BY <1>1, <2>1, <2>2 DEF Promise!Next, Promise!Ready, Up
<1>6. CASE End
  <2>1. ~Up /\ Phase = "stopping" /\ Phase' = "ended"
    BY <1>6, NoneIsUp DEF End, Goto, Phase
  <2>2. Documented' <=> Documented
    BY <1>3, <1>6 DEF End, Goto, Starting
  <2>3. QED
    BY <1>1, <2>1, <2>2 DEF Promise!Next, Promise!End, Up
<1>7. CASE /\ main \in Starting \cup {"serve"}
           /\ main' \in {"closeServer", "closeSession", "return"}
  <2>1. Phase \in {"starting", "ready"} /\ Phase' = "stopping"
    BY <1>7 DEF Phase, Starting
  <2>2. Server!Counted = {}
    <3>1. CASE Served
      BY <3>1, ServedIsEmpty DEF IInv, Served
    <3>2. CASE ~Served
      BY <1>7, <3>2 DEF Moving, Configure, Discover, DiscoverFails, Validate, Listen, Notify,
                        Signal, StopNotify, SessionClosed, End, Kill, IInv, Ordered, Waited,
                        Notified
    <3>3. QED
      BY <3>1, <3>2
  <2>3. Documented' <=> Documented
    BY <1>3, <1>7 DEF Starting
  <2>4. QED
    BY <1>1, <2>1, <2>2, <2>3 DEF Promise!Next, Promise!Stop, Up
<1>8. CASE /\ main \in {"closeServer", "stopNotify", "closeSession", "return"}
           /\ main' \in {"closeServer", "stopNotify", "closeSession", "return"}
  <2>1. Phase = "stopping" /\ Phase' = "stopping"
    BY <1>8 DEF Phase
  <2>2. Documented' <=> Documented
    BY <1>3, <1>8 DEF Starting
  <2>3. QED
    BY <1>1, <2>1, <2>2 DEF Promise!vars, Up
<1>9. CASE main' = main /\ main \in {"serve", "ended"}
  <2>1. Phase' = Phase /\ (Documented' <=> Documented)
    BY <1>3, <1>9 DEF Phase, Starting
  <2>2. QED
    BY <1>1, <2>1 DEF Promise!vars, Up
<1>10. QED
  BY <1>4, <1>5, <1>6, <1>7, <1>8, <1>9
     DEF Moving, Configure, Discover, DiscoverFails, Validate, Listen, Notify, Signal, Served,
         StopNotify, SessionClosed, End, Kill, Goto, IInv, Ordered, Places, Starting

\* Sessions are opened while the tunnel serves.
LEMMA OpeningImplements ==
    ASSUME IInv, NEW c \in Conns, Open(c)
    PROVE  Promise!Next \/ UNCHANGED Promise!vars
<1>1. main = "serve"
  BY DEF IInv, Ordered, Open, Waited, Server!Counted
<1>2. UNCHANGED <<main, cfg, info, handler>>
  BY DEF Open, serverVars
<1>3. Phase = "ready" /\ Phase' = "ready" /\ Server!Counted' = Server!Counted
  BY <1>1, <1>2 DEF Phase, Server!Counted
<1>4. Documented' <=> Documented
  BY <1>2, DocumentedStays
<1>5. QED
  BY <1>3, <1>4 DEF Promise!Next, Promise!Hold, Promise!vars

\* Connections come and go while it is ready.
LEMMA ServingImplements ==
    ASSUME IInv, Serve \/ \E c \in Conns : HandlerEnds(c) \/ Leave(c)
    PROVE  Promise!Next \/ UNCHANGED Promise!vars
<1> USE ServerFacts DEF IInv, Ordered
<1>1. UNCHANGED <<main, cfg, info, auth, closer>>
  BY ServeMoves, HandlerMoves DEF sessionVars
<1>2. main = "serve"
  BY HandlerMoves DEF Serve, Waited, Server!Counted
<1>3. Phase = "ready" /\ Phase' = "ready" /\ (Documented' <=> Documented)
  BY <1>1, <1>2, DocumentedStays DEF Phase
<1>4. QED
  BY <1>1, <1>3 DEF Promise!Next, Promise!Serve, Promise!vars

\* session.close lets go of the session; nothing else is seen of the deferred
\* calls, nor of what happens around the tunnel.
LEMMA ClosingImplements ==
    ASSUME IInv, CloseServer \/ CloseSession \/ Expire \/ Interrupt \/ Issue
    PROVE  Promise!Next \/ UNCHANGED Promise!vars
<1> USE SessionFacts DEF IInv, Ordered
<1>1. UNCHANGED <<cfg, info, handler>>
  BY DEF CloseServer, CloseSession, Expire, Interrupt, Issue, serverVars
<1>2. main' = main \/ (main = "closeServer" /\ main' = "stopNotify")
  <2>1. CASE CloseServer
    BY <2>1 DEF CloseServer, Goto
  <2>2. CASE ~CloseServer
    BY <2>2 DEF CloseSession, Expire, Interrupt, Issue
  <2>3. QED
    BY <2>1, <2>2
<1>3. Phase' = Phase /\ Server!Counted' = Server!Counted /\ (Documented' <=> Documented)
  BY <1>1, <1>2, DocumentedStays DEF Phase, Server!Counted
<1>4. Up' => Up
  <2>1. CASE CloseSession
    BY <2>1, CloseMoves, ConnsAssumption DEF CloseSession, Up
  <2>2. CASE ~CloseSession
    BY <2>2 DEF CloseServer, Expire, Interrupt, Issue, sessionVars, Session!Expire,
                Session!Issue, Session!closeVars, Session!stateVars, Up
  <2>3. QED
    BY <2>1, <2>2
<1>5. QED
  BY <1>3, <1>4 DEF Promise!Next, Promise!Hold, Promise!vars, Up

\* StartRemoteTunnel implements Tunnel, for any configurations, bastions and
\* connections: readiness follows a configuration and a bastion the
\* documentation allows, nobody is served outside it, no session is opened
\* once it stops and none is held at the end.
THEOREM TunnelIsImplemented == Spec => ImplementsTunnel
<1>1. Init => Promise!Init
  <2> SUFFICES ASSUME Init PROVE Promise!Init
    OBVIOUS
  <2>1. main = "configure" /\ info = None /\ Server!Counted = {}
    BY DEF Init, Server!Init, Server!Counted
  <2>2. auth = None /\ closer[Main] = "idle"
    BY DEF Init, Session!Init
  <2>3. ~Documented
    BY <2>1 DEF Documented
  <2>4. QED
    BY <2>1, <2>2, <2>3 DEF Promise!Init, Phase
<1>2. IInv /\ IInv' /\ [Next]_vars => [Promise!Next]_(Promise!vars)
  <2> SUFFICES ASSUME IInv, IInv', [Next]_vars PROVE Promise!Next \/ UNCHANGED Promise!vars
    OBVIOUS
  <2>1. CASE Next
    BY <2>1, MovingImplements, OpeningImplements, ServingImplements, ClosingImplements
       DEF Next, Start, Shutdown, Handle, Moving
  <2>2. CASE UNCHANGED vars
    <3>1. Documented' <=> Documented
      BY <2>2, DocumentedStays DEF vars
    <3>2. QED
      BY <2>2, <3>1 DEF vars, sessionVars, serverVars, Promise!vars, Phase, Server!Counted
  <2>3. QED
    BY <2>1, <2>2
<1>3. QED
  BY <1>1, <1>2, Invariance, PTL DEF Spec, ImplementsTunnel, Promise!Spec
=============================================================================
