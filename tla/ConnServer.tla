----------------------------- MODULE ConnServer -----------------------------
(***************************************************************************)
(* The accept loop and shutdown of a tunnel's local listener               *)
(* (internal/libs/server.go).  Three kinds of goroutine share s.mu: the    *)
(* one that runs Serve, one handler per local connection (run), and the    *)
(* one context.AfterFunc starts when the tunnel's context is cancelled.    *)
(*                                                                         *)
(* The work a handler does is a contract here: it ends when it pleases and *)
(* takes notice, or not, when its connection is closed (see Deaf).         *)
(***************************************************************************)
EXTENDS Integers, FiniteSets

CONSTANTS
    Conns,      \* the local connections clients may open
    Deaf,       \* those whose handlers may go on when they are closed: see Relay
    None        \* no connection

ASSUME ConnsAssumption == IsFiniteSet(Conns) /\ None \notin Conns

VARIABLES
    cancelled,  \* the context given to Serve is done
    hook,       \* the AfterFunc that calls Close: see Hooks
    closed,     \* s.closed; the listener is closed with it
    conns,      \* s.conns
    wg,         \* s.wg's counter
    sock,       \* sock[c]: the server's end of connection c
    handler,    \* handler[c]: the goroutine running run(ctx, c)
    serve,      \* where Serve is
    accepted    \* the connection Serve has accepted and not yet registered

vars == <<cancelled, hook, closed, conns, wg, sock, handler, serve, accepted>>

\* "running": cancellation has started the goroutine; stop() comes too late.
Hooks == {"unset", "armed", "stopped", "running", "done"}
Handlers == {"none", "running", "closing", "forgetting", "leaving", "done"}
Serves == {"start", "accept", "register", "stop", "wait", "returned"}

Init ==
    /\ cancelled = FALSE
    /\ hook = "unset"
    /\ closed = FALSE
    /\ conns = {}
    /\ wg = 0
    /\ sock = [c \in Conns |-> "none"]
    /\ handler = [c \in Conns |-> "none"]
    /\ serve = "start"
    /\ accepted = None

-----------------------------------------------------------------------------
(* Serve                                                                   *)

\* Mutation: nothing is run when the context is cancelled.
ArmNothing ==
    /\ serve = "start"
    /\ serve' = "accept"
    /\ UNCHANGED <<cancelled, hook, closed, conns, wg, sock, handler, accepted>>

Arm ==
    /\ serve = "start"
    /\ hook' = "armed"
    /\ serve' = "accept"
    /\ UNCHANGED <<cancelled, closed, conns, wg, sock, handler, accepted>>

Accept(c) ==
    /\ serve = "accept"
    /\ ~closed
    /\ sock[c] = "none"
    /\ sock' = [sock EXCEPT ![c] = "open"]
    /\ accepted' = c
    /\ serve' = "register"
    /\ UNCHANGED <<cancelled, hook, closed, conns, wg, handler>>

\* net.ErrClosed: the listener was closed by Close.
AcceptClosed ==
    /\ serve = "accept"
    /\ closed
    /\ serve' = "stop"
    /\ UNCHANGED <<cancelled, hook, closed, conns, wg, sock, handler, accepted>>

\* Any other error, the process out of file descriptors for one.  Whether
\* Serve returns nil or the error, it returns.
AcceptError ==
    /\ serve = "accept"
    /\ ~closed
    /\ serve' = "stop"
    /\ UNCHANGED <<cancelled, hook, closed, conns, wg, sock, handler, accepted>>

\* The critical section between accept and go s.run: the server may have been
\* closed since the accept.
Refuse ==
    /\ serve = "register"
    /\ closed
    /\ sock' = [sock EXCEPT ![accepted] = "closed"]
    /\ accepted' = None
    /\ serve' = "stop"
    /\ UNCHANGED <<cancelled, hook, closed, conns, wg, handler>>

\* Mutation: the connection is registered without looking at s.closed.
RegisterBlindly ==
    /\ serve = "register"
    /\ conns' = conns \cup {accepted}
    /\ wg' = wg + 1
    /\ handler' = [handler EXCEPT ![accepted] = "running"]
    /\ accepted' = None
    /\ serve' = "accept"
    /\ UNCHANGED <<cancelled, hook, closed, sock>>

\* Mutation: the handler is started and not added to s.wg.
RegisterUncounted ==
    /\ serve = "register"
    /\ ~closed
    /\ conns' = conns \cup {accepted}
    /\ handler' = [handler EXCEPT ![accepted] = "running"]
    /\ accepted' = None
    /\ serve' = "accept"
    /\ UNCHANGED <<cancelled, hook, closed, wg, sock>>

Register ==
    /\ serve = "register"
    /\ ~closed
    /\ conns' = conns \cup {accepted}
    /\ wg' = wg + 1
    /\ handler' = [handler EXCEPT ![accepted] = "running"]
    /\ accepted' = None
    /\ serve' = "accept"
    /\ UNCHANGED <<cancelled, hook, closed, sock>>

\* The deferred stop(), which runs before the deferred s.wg.Wait().
Stop ==
    /\ serve = "stop"
    /\ hook' = IF hook = "armed" THEN "stopped" ELSE hook
    /\ serve' = "wait"
    /\ UNCHANGED <<cancelled, closed, conns, wg, sock, handler, accepted>>

Return ==
    /\ serve = "wait"
    /\ wg = 0
    /\ serve' = "returned"
    /\ UNCHANGED <<cancelled, hook, closed, conns, wg, sock, handler, accepted>>

-----------------------------------------------------------------------------
(* run                                                                     *)

\* s.handle returns.
HandlerEnds(c) ==
    /\ handler[c] = "running"
    /\ handler' = [handler EXCEPT ![c] = "closing"]
    /\ UNCHANGED <<cancelled, hook, closed, conns, wg, sock, serve, accepted>>

RunClose(c) ==
    /\ handler[c] = "closing"
    /\ sock' = [sock EXCEPT ![c] = "closed"]
    /\ handler' = [handler EXCEPT ![c] = "forgetting"]
    /\ UNCHANGED <<cancelled, hook, closed, conns, wg, serve, accepted>>

Forget(c) ==
    /\ handler[c] = "forgetting"
    /\ conns' = conns \ {c}
    /\ handler' = [handler EXCEPT ![c] = "leaving"]
    /\ UNCHANGED <<cancelled, hook, closed, wg, sock, serve, accepted>>

Done(c) ==
    /\ handler[c] = "leaving"
    /\ wg' = wg - 1
    /\ handler' = [handler EXCEPT ![c] = "done"]
    /\ UNCHANGED <<cancelled, hook, closed, conns, sock, serve, accepted>>

-----------------------------------------------------------------------------
(* Close, by the hook and by whoever owns the server once Serve returned.  *)

\* Idempotent; one critical section.
CloseAll ==
    /\ closed' = TRUE
    /\ sock' = [c \in Conns |->
                   IF c \in conns /\ ~closed THEN "closed" ELSE sock[c]]

HookFires ==
    /\ cancelled
    /\ hook = "armed"
    /\ hook' = "running"
    /\ UNCHANGED <<cancelled, closed, conns, wg, sock, handler, serve, accepted>>

HookCloses ==
    /\ hook = "running"
    /\ CloseAll
    /\ hook' = "done"
    /\ UNCHANGED <<cancelled, conns, wg, handler, serve, accepted>>

OwnerCloses ==
    /\ serve = "returned"
    /\ ~closed
    /\ CloseAll
    /\ UNCHANGED <<cancelled, hook, conns, wg, handler, serve, accepted>>

Cancel ==
    /\ ~cancelled
    /\ cancelled' = TRUE
    /\ UNCHANGED <<hook, closed, conns, wg, sock, handler, serve, accepted>>

Run(c) == HandlerEnds(c) \/ RunClose(c) \/ Forget(c) \/ Done(c)

Serving ==
    \/ Arm \/ AcceptClosed \/ AcceptError \/ Refuse \/ Register \/ Stop \/ Return
    \/ \E c \in Conns : Accept(c)

Next ==
    \/ Serving
    \/ \E c \in Conns : Run(c)
    \/ HookFires \/ HookCloses \/ OwnerCloses \/ Cancel

\* What the scheduler owes every goroutine that can run.  Clients need not
\* come (Accept), accept need not fail, and a handler need not end until its
\* connection is closed.  A deaf one need not end then either: it no longer
\* looks at the local connection, but waits for the remote (relay.go:46) or, in
\* a handshake, for the ssh-agent.
Fairness ==
    /\ WF_vars(Arm) /\ WF_vars(AcceptClosed) /\ WF_vars(Refuse)
    /\ WF_vars(Register) /\ WF_vars(Stop) /\ WF_vars(Return)
    /\ WF_vars(HookFires) /\ WF_vars(HookCloses)
    /\ \A c \in Conns \ Deaf : WF_vars(sock[c] = "closed" /\ HandlerEnds(c))
    /\ \A c \in Conns :
          /\ WF_vars(RunClose(c)) /\ WF_vars(Forget(c)) /\ WF_vars(Done(c))

Spec == Init /\ [][Next]_vars
FairSpec == Spec /\ Fairness

-----------------------------------------------------------------------------
(* Properties                                                              *)

\* Goroutines that have still to call wg.Done().
Counted == {c \in Conns : handler[c] \notin {"none", "done"}}

\* The fields keep their types and the wait group never goes negative, which
\* panics.
TypeOK ==
    /\ cancelled \in BOOLEAN
    /\ hook \in Hooks
    /\ closed \in BOOLEAN
    /\ conns \subseteq Conns
    /\ wg \in Nat
    /\ sock \in [Conns -> {"none", "open", "closed"}]
    /\ handler \in [Conns -> Handlers]
    /\ serve \in Serves
    /\ accepted \in Conns \cup {None}

\* "Serve waits for active handlers before returning" (server.go:26): when it
\* has returned no handler runs and no accepted connection is open, so what
\* runTunnel closes next (the SSH clients, the session) is used by nobody.
QuietAfterServe ==
    serve = "returned" => \A c \in Conns :
        handler[c] \in {"none", "done"} /\ sock[c] # "open"

\* "Close stops accepting and drops the connections in flight"
\* (server.go:68): once it has run, the only open connection is the one Serve
\* has in hand, however the accept, the close and the registration interleave.
\* A handler is left with a closed connection.
CloseDropsAll ==
    closed => \A c \in Conns :
        sock[c] = "open" => c = accepted /\ handler[c] = "none"

\* The connections Close will find are the ones a handler owns, from the
\* moment the handler can run to the moment it has closed its connection.
EveryHandlerIsListed ==
    \A c \in Conns :
        handler[c] \in {"running", "closing", "forgetting"} => c \in conns

\* Cancelling the tunnel's context ends Serve, idle clients or not: every
\* accepted connection is closed, whenever it was accepted, and only a handler
\* that takes no notice of it, a deaf one, can hold Serve.  Not after an accept
\* error: the deferred stop() runs before the deferred wg.Wait()
\* (server.go:28-30), so the hook is disarmed while Serve waits for a client.
CancelReturns ==
    cancelled ~> \/ serve = "returned" \/ hook = "stopped"
                 \/ \E c \in Deaf : handler[c] = "running"
=============================================================================
