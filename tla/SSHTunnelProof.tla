--------------------------- MODULE SSHTunnelProof ---------------------------
(***************************************************************************)
(* Proofs about SSHTunnel for any finite set of local connections: it      *)
(* implements Tunnel, and its shutdown cuts no relay.  A step of the       *)
(* tunnel is a step of its pool and a step of its server, so that their    *)
(* inductive invariants hold of it; what it adds is where its callers are  *)
(* while runTunnel is at each of its places.                               *)
(***************************************************************************)
EXTENDS SSHTunnel, TLAPS

PoolProof == INSTANCE ClientPoolProof WITH Handlers <- Callers, closed <- poolClosed
ServerProof == INSTANCE ConnServerProof WITH closed <- srvClosed

Places == {"auth", "listen", "probe", "signal", "serve", "closeServer", "closePool",
           "dropClient", "ended"}

\* A caller whose dialTarget or get is under way.
Away(h) == pc[h] \notin {"get", "relay", "failed"}

\* runTunnel waits for its own two calls, and for the handlers before it stops
\* serving.
Waited ==
    /\ Server!Counted # {} => main = "serve"
    /\ \A c \in Conns : Away(c) => handler[c] = "running"
    /\ main # "auth" => pc[Auth] \in {"open", "failed"}
    /\ Away(Probe) => main = "probe"

\* It serves only what it has probed.
ProbedFirst == main \in {"signal", "serve"} => pc[Probe] = "relay"

\* The pool is closed last.
PoolLast == poolClosed <=> main \in {"dropClient", "ended"}

IInv ==
    /\ PoolProof!IInv /\ ServerProof!IInv
    /\ main \in Places /\ Waited /\ ProbedFirst /\ PoolLast

-----------------------------------------------------------------------------
(* The parts                                                               *)

\* ClientPoolProof's pool is this one.
LEMMA SamePool ==
    /\ Pool!Attempts = PoolProof!Attempts
    /\ Pool!Init <=> PoolProof!Init
    /\ Pool!Next <=> PoolProof!Next
    /\ Pool!vars = PoolProof!vars
  BY DEF Pool!Init, PoolProof!Init, Pool!Next, PoolProof!Next, Pool!vars,
         PoolProof!vars, Pool!poolVars, PoolProof!poolVars, Pool!netVars,
         PoolProof!netVars, Pool!Attempts, PoolProof!Attempts, Pool!Tries,
         PoolProof!Tries, Pool!Handler, PoolProof!Handler, Pool!Get,
         PoolProof!Get, Pool!GetClosed, PoolProof!GetClosed, Pool!GetCached,
         PoolProof!GetCached, Pool!GetJoin, PoolProof!GetJoin, Pool!GetLead,
         PoolProof!GetLead, Pool!Wait, PoolProof!Wait, Pool!WaitDone,
         PoolProof!WaitDone, Pool!WaitCancelled, PoolProof!WaitCancelled,
         Pool!Dial, PoolProof!Dial, Pool!DialOk, PoolProof!DialOk,
         Pool!DialErr, PoolProof!DialErr, Pool!Publish, PoolProof!Publish,
         Pool!PublishErr, PoolProof!PublishErr, Pool!PublishClosed,
         PoolProof!PublishClosed, Pool!PublishClient, PoolProof!PublishClient,
         Pool!Announce, PoolProof!Announce, Pool!OpenStart,
         PoolProof!OpenStart, Pool!Open, PoolProof!Open, Pool!OpenOk,
         PoolProof!OpenOk, Pool!OpenRejected, PoolProof!OpenRejected,
         Pool!OpenFailed, PoolProof!OpenFailed, Pool!Discard,
         PoolProof!Discard, Pool!Drop, PoolProof!Drop, Pool!Tend,
         PoolProof!Tend, Pool!Lose, PoolProof!Lose, Pool!PoolClose,
         PoolProof!PoolClose, Pool!PoolDrop, PoolProof!PoolDrop, Pool!Cancel,
         PoolProof!Cancel, Pool!Forget, PoolProof!Forget, Pool!Goto,
         PoolProof!Goto

\* ConnServerProof's server is this one.
LEMMA SameServer ==
    /\ Server!Init <=> ServerProof!Init
    /\ Server!Next <=> ServerProof!Next
    /\ Server!vars = ServerProof!vars
  BY DEF Server!Init, ServerProof!Init, Server!Next, ServerProof!Next,
         Server!vars, ServerProof!vars, Server!Serving, ServerProof!Serving,
         Server!Arm, ServerProof!Arm, Server!Accept, ServerProof!Accept,
         Server!AcceptClosed, ServerProof!AcceptClosed, Server!AcceptError,
         ServerProof!AcceptError, Server!Refuse, ServerProof!Refuse,
         Server!Register, ServerProof!Register, Server!Stop, ServerProof!Stop,
         Server!Return, ServerProof!Return, Server!Run, ServerProof!Run,
         Server!HandlerEnds, ServerProof!HandlerEnds, Server!RunClose,
         ServerProof!RunClose, Server!Forget, ServerProof!Forget, Server!Done,
         ServerProof!Done, Server!CloseAll, ServerProof!CloseAll,
         Server!HookFires, ServerProof!HookFires, Server!HookCloses,
         ServerProof!HookCloses, Server!OwnerCloses, ServerProof!OwnerCloses,
         Server!Cancel, ServerProof!Cancel

\* The tunnel's pool starts as a pool, and each of its steps keeps the pool's
\* inductive invariant.
LEMMA PoolStarts == Pool!Init => PoolProof!IInv
  BY CallersAssumption, SamePool, PoolProof!InitIInv

LEMMA PoolKeeps == PoolProof!IInv /\ (Pool!Next \/ UNCHANGED Pool!vars) => PoolProof!IInv'
  BY CallersAssumption, SamePool, PoolProof!NextIInv
     DEF Pool!vars, PoolProof!vars, Pool!poolVars, PoolProof!poolVars, Pool!netVars,
         PoolProof!netVars

\* What ConnServerProof assumes of the connections.
LEMMA FiniteConns == ServerProof!IsFiniteSet(Conns) /\ None \notin Conns
  BY CallersAssumption DEF IsFiniteSet, ServerProof!IsFiniteSet

\* The same of the tunnel's server.
LEMMA ServerStarts == Server!Init => ServerProof!IInv
  BY FiniteConns, SameServer, ServerProof!InitIInv

LEMMA ServerKeeps ==
    ServerProof!IInv /\ (Server!Next \/ UNCHANGED Server!vars) => ServerProof!IInv'
  BY FiniteConns, SameServer, ServerProof!NextIInv DEF Server!vars, ServerProof!vars

\* The deferred fwd.Close is a Close, whether or not Serve has run.
LEMMA ServerClosed == ServerProof!IInv /\ CloseServer => ServerProof!IInv'
<1> SUFFICES ASSUME ServerProof!IInv, CloseServer PROVE ServerProof!IInv'
  OBVIOUS
<1>1. ServerProof!CloseAll
  BY DEF CloseServer, Server!CloseAll, ServerProof!CloseAll
<1>2. UNCHANGED <<cancelled, hook, conns, wg, handler, serve, accepted>>
  BY DEF CloseServer
<1>3. QED
  BY <1>1, <1>2, FiniteConns, ServerProof!CloseIInv

\* What the tunnel needs of the pool's invariant.
LEMMA PoolFacts ==
    PoolProof!IInv => Pool!TypeOK /\ Pool!LiveIsOwned
                      /\ \A h \in Callers : pc[h] = "relay" => at[h] \in Pool!Attempts
  BY DEF PoolProof!IInv, PoolProof!TypeOK, Pool!TypeOK, PoolProof!LiveIsOwned,
         Pool!LiveIsOwned, PoolProof!Held, Pool!Held, PoolProof!Published,
         PoolProof!Attempts, Pool!Attempts, PoolProof!Tries, Pool!Tries,
         PoolProof!PCs, Pool!PCs

\* Nothing closes a connection that works while the pool is open.
LEMMA PoolWorks ==
    PoolProof!IInv /\ (Pool!Next \/ UNCHANGED Pool!vars) /\ ~cancelled /\ ~poolClosed =>
        \A a \in Pool!Attempts : conn[a] = "live" => conn'[a] # "shut"
  BY CallersAssumption, SamePool, PoolProof!WorkingKept
     DEF Pool!vars, PoolProof!vars, Pool!poolVars, PoolProof!poolVars, Pool!netVars,
         PoolProof!netVars

\* And of the server's.
LEMMA ServerFacts ==
    ServerProof!IInv => Server!TypeOK /\ (serve = "register" => accepted \in Conns)
  BY DEF ServerProof!IInv, ServerProof!TypeOK, Server!TypeOK, ServerProof!InHand,
         ServerProof!Hooks, Server!Hooks, ServerProof!Handlers, Server!Handlers,
         ServerProof!Serves, Server!Serves

LEMMA ServedIsEmpty == ServerProof!IInv /\ serve = "returned" => Server!Counted = {}
  BY FiniteConns, ServerProof!NoneServed DEF Server!Counted, ServerProof!Counted

\* What a step of dialTarget leaves alone.
LEMMA CallerMoves ==
    ASSUME Pool!TypeOK, NEW h \in Callers, Pool!Handler(h)
    PROVE  /\ \A g \in Callers \ {h} : pc'[g] = pc[g]
           /\ ~Pool!Returned(h)
           /\ pc'[h] = "relay" => UNCHANGED conn
           /\ UNCHANGED <<poolClosed, cancelled>>
  BY DEF Pool!TypeOK, Pool!PCs, Pool!Returned, Pool!Handler, Pool!Get, Pool!GetClosed,
         Pool!GetCached, Pool!GetJoin, Pool!GetLead, Pool!Wait, Pool!WaitDone,
         Pool!WaitCancelled, Pool!Dial, Pool!DialOk, Pool!DialErr, Pool!Publish,
         Pool!PublishErr, Pool!PublishClosed, Pool!PublishClient, Pool!Announce,
         Pool!OpenStart, Pool!Open, Pool!OpenOk, Pool!OpenRejected, Pool!OpenFailed,
         Pool!Discard, Pool!Drop, Pool!Goto, Pool!poolVars, Pool!netVars

\* Every step of the tunnel is a step of its pool, or none.
LEMMA PoolSteps == Next => Pool!Next \/ UNCHANGED Pool!vars
<1> SUFFICES ASSUME Next PROVE Pool!Next \/ UNCHANGED Pool!vars
  OBVIOUS
<1> USE DEF poolVars, Pool!vars, Pool!poolVars, Pool!netVars
<1>1. CASE Authenticate \/ ProbeTarget \/ \E c \in Conns : DialTarget(c)
  BY <1>1 DEF Authenticate, ProbeTarget, DialTarget, Pool!Next, Pool!Handler, Callers
<1>2. CASE ClosePool \/ DropClient \/ Tend \/ Lose
  BY <1>2 DEF ClosePool, DropClient, Tend, Lose, Pool!Next
<1>3. CASE Interrupt
  BY <1>3 DEF Interrupt, Pool!Next, Pool!Cancel
<1>4. CASE \/ Authenticated \/ AuthFailed \/ Listen \/ Probed \/ ProbeFailed \/ Signal
           \/ Served \/ End \/ CloseServer
  BY <1>4 DEF Authenticated, AuthFailed, Listen, Probed, ProbeFailed, Signal, Served, End,
              CloseServer, Goto
<1>5. CASE Serve
  BY <1>5 DEF Serve, Server!Serving, Server!Arm, Server!Accept, Server!AcceptClosed,
              Server!AcceptError, Server!Refuse, Server!Register, Server!Stop,
              Server!Return, Server!HookFires, Server!HookCloses
<1>6. ASSUME NEW c \in Conns, HandlerEnds(c) \/ Leave(c) PROVE UNCHANGED Pool!vars
  BY <1>6 DEF HandlerEnds, Leave, Server!HandlerEnds, Server!RunClose, Server!Forget,
              Server!Done
<1>7. QED
  BY <1>1, <1>2, <1>3, <1>4, <1>5, <1>6 DEF Next, Start, Shutdown, Handle

\* Every step of the tunnel is a step of its server, or none, or Close.
LEMMA ServerSteps == Next => Server!Next \/ UNCHANGED Server!vars \/ CloseServer
<1> SUFFICES ASSUME Next, ~CloseServer PROVE Server!Next \/ UNCHANGED Server!vars
  OBVIOUS
<1> USE DEF serverVars, Server!vars
<1>1. CASE Authenticate
  BY <1>1 DEF Authenticate, Pool!Get, Pool!GetClosed, Pool!GetCached, Pool!GetJoin,
              Pool!GetLead, Pool!Wait, Pool!WaitDone, Pool!WaitCancelled, Pool!Dial,
              Pool!DialOk, Pool!DialErr, Pool!Publish, Pool!PublishErr,
              Pool!PublishClosed, Pool!PublishClient, Pool!Announce
<1>2. ASSUME NEW h \in Callers, Pool!Handler(h), UNCHANGED serverVars
      PROVE  UNCHANGED Server!vars
  BY <1>2
     DEF Pool!Handler, Pool!Get, Pool!GetClosed, Pool!GetCached, Pool!GetJoin,
         Pool!GetLead, Pool!Wait, Pool!WaitDone, Pool!WaitCancelled, Pool!Dial,
         Pool!DialOk, Pool!DialErr, Pool!Publish, Pool!PublishErr, Pool!PublishClosed,
         Pool!PublishClient, Pool!Announce, Pool!OpenStart, Pool!Open, Pool!OpenOk,
         Pool!OpenRejected, Pool!OpenFailed, Pool!Discard, Pool!Drop
<1>3. CASE ProbeTarget \/ \E c \in Conns : DialTarget(c)
  BY <1>2, <1>3 DEF ProbeTarget, DialTarget, Callers
<1>4. CASE ClosePool \/ DropClient \/ Tend \/ Lose
  BY <1>4 DEF ClosePool, DropClient, Tend, Lose, Pool!PoolClose, Pool!PoolDrop,
              Pool!Tend, Pool!Lose
<1>5. CASE Interrupt
  BY <1>5 DEF Interrupt, Server!Next, Server!Cancel
<1>6. CASE \/ Authenticated \/ AuthFailed \/ Listen \/ Probed \/ ProbeFailed \/ Signal
           \/ Served \/ End
  BY <1>6 DEF Authenticated, AuthFailed, Listen, Probed, ProbeFailed, Signal, Served, End, Goto
<1>7. CASE Serve \/ \E c \in Conns : HandlerEnds(c) \/ Leave(c)
  BY <1>7 DEF Serve, HandlerEnds, Leave, Server!Next, Server!Run
<1>8. QED
  BY <1>1, <1>3, <1>4, <1>5, <1>6, <1>7 DEF Next, Start, Shutdown, Handle

-----------------------------------------------------------------------------
(* The composition                                                         *)

\* The steps of runTunnel that call into neither part.
Moving ==
    \/ Authenticated \/ AuthFailed \/ Listen \/ Probed \/ ProbeFailed \/ Signal
    \/ Served \/ End

\* They keep the order of the calls.
LEMMA MovingKeeps ==
    ASSUME IInv, Moving
    PROVE  main' \in Places /\ Waited' /\ ProbedFirst' /\ PoolLast'
<1> USE DEF Moving, Authenticated, AuthFailed, Listen, Probed, ProbeFailed, Signal, Served,
            End, Goto, poolVars, serverVars
<1>1. main' \in Places /\ ProbedFirst' /\ PoolLast'
  BY DEF IInv, Places, ProbedFirst, PoolLast
<1>2. Served => Server!Counted = {}
  BY ServedIsEmpty DEF IInv
<1>3. Waited'
  BY <1>2 DEF IInv, Waited, Away, Server!Counted
<1>4. QED
  BY <1>1, <1>3

\* dialTarget, and get for runTunnel itself.
LEMMA CallingKeeps ==
    ASSUME IInv, Authenticate \/ ProbeTarget \/ \E c \in Conns : DialTarget(c)
    PROVE  main' \in Places /\ Waited' /\ ProbedFirst' /\ PoolLast'
<1> USE CallersAssumption, PoolFacts DEF IInv, Callers, poolVars, serverVars
<1>1. UNCHANGED <<main, handler>>
  BY DEF Authenticate, ProbeTarget, DialTarget
<1>2. PICK h \in Callers :
        /\ Pool!Handler(h)
        /\ h = Auth => main = "auth"
        /\ h = Probe => main = "probe"
        /\ h \in Conns => handler[h] = "running"
  BY DEF Authenticate, ProbeTarget, DialTarget, Pool!Handler
<1>3. /\ \A g \in Callers \ {h} : pc'[g] = pc[g]
      /\ pc[h] # "relay"
      /\ UNCHANGED poolClosed
  BY <1>2, CallerMoves DEF Pool!Returned
<1>4. Waited'
  BY <1>1, <1>2, <1>3 DEF Waited, Away, Server!Counted
<1>5. ProbedFirst' /\ PoolLast'
  BY <1>1, <1>2, <1>3 DEF ProbedFirst, PoolLast
<1>6. QED
  BY <1>1, <1>4, <1>5

\* Serve, and the handlers around their dialTarget.
LEMMA ServingKeeps ==
    ASSUME IInv, Serve \/ \E c \in Conns : HandlerEnds(c) \/ Leave(c)
    PROVE  main' \in Places /\ Waited' /\ ProbedFirst' /\ PoolLast'
<1> USE ServerFacts DEF IInv, Server!TypeOK
<1>1. UNCHANGED <<main, pc, poolClosed>>
  BY DEF Serve, HandlerEnds, Leave, poolVars
<1>2. ASSUME NEW c \in Conns PROVE handler[c] = "running" /\ Away(c) => handler'[c] = "running"
  <2>1. CASE Serve
    BY <2>1 DEF Serve, Server!Serving, Server!Arm, Server!Accept, Server!AcceptClosed,
                Server!AcceptError, Server!Refuse, Server!Register, Server!Stop,
                Server!Return, Server!HookFires, Server!HookCloses
  <2>2. ASSUME NEW d \in Conns, HandlerEnds(d) \/ Leave(d)
        PROVE  handler[c] = "running" /\ Away(c) => handler'[c] = "running"
    BY <2>2 DEF HandlerEnds, Leave, Away, Pool!Returned, Server!HandlerEnds,
                Server!RunClose, Server!Forget, Server!Done
  <2>3. QED
    BY <2>1, <2>2
<1>3. Server!Counted' # {} => main = "serve"
  <2>1. CASE Serve
    BY <2>1 DEF Serve
  <2>2. CASE \E c \in Conns : HandlerEnds(c) \/ Leave(c)
    BY <2>2 DEF HandlerEnds, Leave, Waited, Server!Counted, Server!HandlerEnds,
                Server!RunClose, Server!Forget, Server!Done
  <2>3. QED
    BY <2>1, <2>2
<1>4. Waited'
  BY <1>1, <1>2, <1>3 DEF Waited, Away
<1>5. QED
  BY <1>1, <1>4 DEF ProbedFirst, PoolLast

\* The deferred calls, and what happens around the tunnel.
LEMMA ClosingKeeps ==
    ASSUME IInv, CloseServer \/ ClosePool \/ DropClient \/ Tend \/ Lose \/ Interrupt
    PROVE  main' \in Places /\ Waited' /\ ProbedFirst' /\ PoolLast'
<1> USE DEF IInv, CloseServer, ClosePool, DropClient, Tend, Lose, Interrupt, Pool!PoolClose,
            Pool!PoolDrop, Pool!Tend, Pool!Lose, poolVars, serverVars, Pool!netVars, Pool!poolVars
<1>1. UNCHANGED <<pc, handler>>
  OBVIOUS
<1>2. \/ UNCHANGED <<main, poolClosed>>
      \/ main = "closeServer" /\ main' = "closePool" /\ UNCHANGED poolClosed
      \/ main = "closePool" /\ main' = "dropClient" /\ poolClosed'
  OBVIOUS
<1>3. Server!Counted' = Server!Counted
  BY <1>1 DEF Server!Counted
<1>4. QED
  BY <1>1, <1>2, <1>3 DEF Places, Waited, Away, ProbedFirst, PoolLast

\* A new process has called nobody.
LEMMA InitIInv == Init => IInv
<1> SUFFICES ASSUME Init PROVE IInv
  OBVIOUS
<1>1. PoolProof!IInv /\ ServerProof!IInv
  BY PoolStarts, ServerStarts DEF Init
<1>2. Server!Counted = {} /\ \A h \in Callers : pc[h] = "get"
  BY DEF Init, Server!Init, Server!Counted, Pool!Init
<1>3. main = "auth" /\ ~poolClosed
  BY DEF Init, Pool!Init
<1>4. QED
  BY <1>1, <1>2, <1>3 DEF IInv, Places, Waited, Away, ProbedFirst, PoolLast, Callers

\* Every step keeps the inductive invariant.
LEMMA NextIInv == IInv /\ [Next]_vars => IInv'
<1> SUFFICES ASSUME IInv, [Next]_vars PROVE IInv'
  OBVIOUS
<1>1. CASE Next
  <2>1. PoolProof!IInv'
    BY <1>1, PoolSteps, PoolKeeps DEF IInv
  <2>2. ServerProof!IInv'
    BY <1>1, ServerSteps, ServerKeeps, ServerClosed DEF IInv
  <2>3. main' \in Places /\ Waited' /\ ProbedFirst' /\ PoolLast'
    BY <1>1, MovingKeeps, CallingKeeps, ServingKeeps, ClosingKeeps
       DEF Next, Start, Shutdown, Handle, Moving
  <2>4. QED
    BY <2>1, <2>2, <2>3 DEF IInv
<1>2. CASE UNCHANGED vars
  <2>1. PoolProof!IInv' /\ ServerProof!IInv'
    BY <1>2, PoolKeeps, ServerKeeps
       DEF IInv, vars, poolVars, serverVars, Pool!vars, Pool!poolVars, Pool!netVars, Server!vars
  <2>2. QED
    BY <1>2, <2>1 DEF IInv, vars, poolVars, serverVars, Places, Waited, Away, ProbedFirst,
                      PoolLast, Server!Counted
<1>3. QED
  BY <1>1, <1>2

\* Throughout, pool and server are as their own proofs say, and a call of
\* either is under way only where runTunnel waits for it.
THEOREM Invariance == Spec => []IInv
  BY InitIInv, NextIInv, PTL DEF Spec

-----------------------------------------------------------------------------
(* The parts keep their word                                               *)

\* The tunnel's pool is a ClientPool: what the tunnel does with it, its two own
\* calls, the handlers that come and go, the close at the end, is what
\* ClientPool says may happen to it.
THEOREM PoolIsClientPool == Spec => Pool!Spec
<1>1. Init => Pool!Init
  BY DEF Init
<1>2. [Next]_vars => [Pool!Next]_(Pool!vars)
  BY PoolSteps DEF vars, poolVars, Pool!vars, Pool!poolVars, Pool!netVars
<1>3. QED
  BY <1>1, <1>2, PTL DEF Spec, Pool!Spec

\* So a tunnel has one SSH connection at a time, by one handshake at a time,
\* and every connection has an owner.
THEOREM PoolKeepsItsWord ==
    Spec => [](Pool!SingleFlight /\ Pool!LiveIsOwned /\ Pool!OneConnection)
<1>1. None \notin PoolProof!Attempts
  BY CallersAssumption, SamePool
<1>2. IInv => PoolProof!SingleFlight /\ PoolProof!LiveIsOwned /\ PoolProof!OneConnection
  BY <1>1, PoolProof!SafetyFollows DEF IInv
<1>3. IInv => Pool!SingleFlight /\ Pool!LiveIsOwned /\ Pool!OneConnection
  BY <1>2
     DEF Pool!SingleFlight, PoolProof!SingleFlight, Pool!Leading, PoolProof!Leading,
         Pool!LiveIsOwned, PoolProof!LiveIsOwned, Pool!OneConnection,
         PoolProof!OneConnection, Pool!Held, PoolProof!Held, Pool!Attempts,
         PoolProof!Attempts, Pool!Tries, PoolProof!Tries
<1>4. QED
  BY <1>3, Invariance, PTL

\* The parts keep their word in the tunnel.  ConnServer's owner closes it after
\* Serve has returned; here a failed start-up may close it before Serve is
\* called, and it keeps its promises all the same: nobody is served after
\* Serve, and no connection slips through a Close.
THEOREM ServerKeepsItsWord == Spec => [](Server!QuietAfterServe /\ Server!CloseDropsAll)
<1>1. IInv => ServerProof!QuietAfterServe /\ ServerProof!CloseDropsAll
  BY FiniteConns, ServerProof!QuietFollows, ServerProof!DropsFollow DEF IInv
<1>2. IInv => Server!QuietAfterServe /\ Server!CloseDropsAll
  BY <1>1 DEF Server!QuietAfterServe, ServerProof!QuietAfterServe, Server!CloseDropsAll,
              ServerProof!CloseDropsAll
<1>3. QED
  BY <1>2, Invariance, PTL

-----------------------------------------------------------------------------
(* The shutdown cuts no relay                                              *)

\* A handler that relays is served while the pool is open, and no step of an
\* open pool closes a connection that works.
THEOREM ShutdownCutsNoRelay == Spec => RelaysSurvive
<1>1. IInv /\ [Next]_vars =>
        [ \A c \in Conns :
            handler[c] = "running" /\ pc[c] = "relay" /\ ~cancelled
               /\ conn[at[c]] = "live" => conn'[at[c]] # "shut" ]_vars
  <2> SUFFICES ASSUME IInv, [Next]_vars, NEW c \in Conns, handler[c] = "running",
                      pc[c] = "relay", ~cancelled, conn[at[c]] = "live"
               PROVE conn'[at[c]] # "shut"
    OBVIOUS
  <2>1. at[c] \in Pool!Attempts
    BY PoolFacts DEF IInv, Callers
  <2>2. ~poolClosed
    BY DEF IInv, Waited, PoolLast, Server!Counted
  <2>3. Pool!Next \/ UNCHANGED Pool!vars
    BY PoolSteps DEF vars, poolVars, Pool!vars, Pool!poolVars, Pool!netVars
  <2>4. QED
    BY <2>1, <2>2, <2>3, PoolWorks DEF IInv
<1>2. QED
  BY <1>1, Invariance, PTL DEF Spec, RelaysSurvive

-----------------------------------------------------------------------------
(* The tunnel implements Tunnel                                            *)

\* Promise's upstream.
Up == \E a \in Pool!Attempts : conn[a] = "live"

\* Once the last connection is taken, none is up: the tunnel's own calls and
\* the handlers are over, and each live connection has an owner.
LEMMA NoneIsUp == IInv /\ main = "dropClient" /\ dropping = None => ~Up
<1> SUFFICES ASSUME IInv, main = "dropClient", dropping = None,
                    NEW a \in Pool!Attempts, conn[a] = "live"
             PROVE FALSE
  BY DEF Up
<1>1. poolClosed /\ dropping # a
  BY CallersAssumption DEF IInv, PoolLast
<1>2. \A h \in Callers : pc[h] \notin {"publish", "drop"}
  BY DEF IInv, Waited, Away, Callers, Server!Counted
<1>3. QED
  BY <1>1, <1>2, PoolFacts DEF IInv, Pool!LiveIsOwned, Pool!Held

\* A step that moves runTunnel on is a step of the phase, or none.
LEMMA MovingImplements ==
    ASSUME IInv, IInv', Moving
    PROVE  Promise!Next \/ UNCHANGED Promise!vars
<1>1. UNCHANGED <<pc, conn, handler, dropping>>
  BY DEF Moving, Authenticated, AuthFailed, Listen, Probed, ProbeFailed, Signal, Served,
         End, Goto, poolVars, serverVars
<1>2. /\ (pc[Probe] = "relay")' <=> pc[Probe] = "relay"
      /\ Server!Counted' = Server!Counted
      /\ Up' <=> Up
  BY <1>1 DEF Server!Counted, Up
<1>3. Server!Counted = {}
  <2>1. CASE Served
    BY <2>1, ServedIsEmpty DEF IInv, Served
  <2>2. CASE ~Served
    BY <2>2 DEF Moving, Authenticated, AuthFailed, Listen, Probed, ProbeFailed, Signal,
                End, IInv, Waited
  <2>3. QED
    BY <2>1, <2>2
<1>4. End => ~Up'
  BY <1>2, NoneIsUp DEF End
<1>5. CASE Signal /\ main' = "serve"
  BY <1>2, <1>5 DEF Signal, IInv, ProbedFirst, Phase, Promise!Next, Promise!Ready, Up
<1>6. CASE End
  BY <1>2, <1>4, <1>6 DEF End, Goto, Phase, Promise!Next, Promise!End, Up
<1>7. CASE main \in {"auth", "listen", "probe", "signal", "serve"}
           /\ main' \in {"closeServer", "closePool"}
  BY <1>2, <1>3, <1>7 DEF IInv, Places, Phase, Promise!Next, Promise!Stop, Up
<1>8. CASE main \in {"auth", "listen", "probe", "signal"}
           /\ main' \in {"auth", "listen", "probe", "signal"}
  BY <1>2, <1>8 DEF Phase, Promise!vars, Up
<1>9. QED
  BY <1>5, <1>6, <1>7, <1>8
     DEF Moving, Authenticated, AuthFailed, Listen, Probed, ProbeFailed, Signal, Served, Goto

\* A call vets the target, or makes or closes a connection, while the tunnel
\* starts or serves.
LEMMA CallingImplements ==
    ASSUME IInv, IInv', Authenticate \/ ProbeTarget \/ \E c \in Conns : DialTarget(c)
    PROVE  Promise!Next \/ UNCHANGED Promise!vars
<1> USE CallersAssumption, PoolFacts DEF IInv, Callers, poolVars, serverVars
<1>1. UNCHANGED <<main, handler>>
  BY DEF Authenticate, ProbeTarget, DialTarget
<1>2. PICK h \in Callers :
        /\ Pool!Handler(h)
        /\ h = Auth => main = "auth"
        /\ h = Probe => main = "probe"
        /\ h \in Conns => handler[h] = "running"
  BY DEF Authenticate, ProbeTarget, DialTarget, Pool!Handler
<1>3. main \in {"auth", "probe", "serve"}
  BY <1>2 DEF Waited, Server!Counted
<1>4. Phase' = Phase /\ Phase \in {"starting", "ready"} /\ (main = "probe" => Phase = "starting")
  BY <1>1, <1>3 DEF Phase
<1>5. Server!Counted' = Server!Counted
  BY <1>1 DEF Server!Counted
<1>6. CASE h = Probe /\ pc'[Probe] = "relay"
  <2>1. pc[Probe] # "relay" /\ UNCHANGED conn
    BY <1>2, <1>6, CallerMoves DEF Pool!Returned
  <2>2. Up' <=> Up
    BY <2>1 DEF Up
  <2>3. QED
    BY <1>2, <1>4, <1>5, <1>6, <2>2 DEF Promise!Next, Promise!Vet, Up
<1>7. CASE ~(h = Probe /\ pc'[Probe] = "relay")
  <2>1. (pc[Probe] = "relay")' <=> pc[Probe] = "relay"
    BY <1>2, <1>7, CallerMoves DEF Pool!Returned
  <2>2. QED
    BY <1>4, <1>5, <2>1 DEF Promise!Next, Promise!Hold, Promise!vars
<1>8. QED
  BY <1>6, <1>7

\* Connections come and go while the tunnel is ready.
LEMMA ServingImplements ==
    ASSUME IInv, IInv', Serve \/ \E c \in Conns : HandlerEnds(c) \/ Leave(c)
    PROVE  Promise!Next \/ UNCHANGED Promise!vars
<1>1. UNCHANGED <<main, pc, conn>>
  BY DEF Serve, HandlerEnds, Leave, poolVars
<1>2. main = "serve"
  BY DEF Serve, HandlerEnds, Leave, Server!HandlerEnds, Server!RunClose, Server!Forget,
         Server!Done, IInv, Waited, Server!Counted
<1>3. Phase = "ready" /\ Phase' = "ready"
  BY <1>1, <1>2 DEF Phase
<1>4. QED
  BY <1>1, <1>3 DEF Promise!Next, Promise!Serve, Promise!vars

\* Nothing but a loss or a close happens to a connection around runTunnel.
LEMMA ClosingImplements ==
    ASSUME IInv, IInv', CloseServer \/ ClosePool \/ DropClient \/ Tend \/ Lose \/ Interrupt
    PROVE  Promise!Next \/ UNCHANGED Promise!vars
<1> USE DEF CloseServer, ClosePool, DropClient, Tend, Lose, Interrupt, Pool!PoolClose,
            Pool!PoolDrop, Pool!Tend, Pool!Lose, poolVars, serverVars, Pool!netVars, Pool!poolVars
<1>1. UNCHANGED <<pc, handler>>
  OBVIOUS
<1>2. Phase' = Phase
  BY DEF Phase
<1>3. Server!Counted' = Server!Counted
  BY <1>1 DEF Server!Counted
<1>4. \A a \in Pool!Attempts : conn'[a] = "live" => conn[a] = "live"
  BY PoolFacts DEF IInv, Pool!TypeOK
<1>5. QED
  BY <1>1, <1>2, <1>3, <1>4 DEF Promise!Next, Promise!Hold, Promise!vars

\* runTunnel implements Tunnel, for any local connections and whichever
\* relays are deaf: readiness follows a channel to the target, nobody is
\* served outside it, and nothing is left up at the end.
THEOREM TunnelIsImplemented == Spec => ImplementsTunnel
<1>1. Init => Promise!Init
  <2> SUFFICES ASSUME Init PROVE Promise!Init
    OBVIOUS
  <2>1. main = "auth" /\ pc[Probe] = "get" /\ Server!Counted = {}
    BY DEF Init, Pool!Init, Server!Init, Server!Counted, Callers
  <2>2. ~Up
    BY DEF Init, Pool!Init, Up
  <2>3. QED
    BY <2>1, <2>2 DEF Promise!Init, Phase, Up
<1>2. IInv /\ IInv' /\ [Next]_vars => [Promise!Next]_(Promise!vars)
  <2> SUFFICES ASSUME IInv, IInv', [Next]_vars PROVE Promise!Next \/ UNCHANGED Promise!vars
    OBVIOUS
  <2>1. CASE Next
    BY <2>1, MovingImplements, CallingImplements, ServingImplements, ClosingImplements
       DEF Next, Start, Shutdown, Handle, Moving
  <2>2. CASE UNCHANGED vars
    BY <2>2 DEF vars, poolVars, serverVars, Promise!vars, Phase, Server!Counted
  <2>3. QED
    BY <2>1, <2>2
<1>3. QED
  BY <1>1, <1>2, Invariance, PTL DEF Spec, ImplementsTunnel, Promise!Spec
=============================================================================
