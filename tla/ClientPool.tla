----------------------------- MODULE ClientPool -----------------------------
(***************************************************************************)
(* The pool that multiplexes forwarded channels over one SSH connection    *)
(* (internal/ssh/client.go) together with its only caller, the retrying    *)
(* dialTarget of internal/ssh/forward.go.                                  *)
(*                                                                         *)
(* A handler is one goroutine running dialTarget under the tunnel's        *)
(* context.  Every handshake is started by one try of one handler, so that *)
(* try names the handshake, its `handshake` struct and the ssh.Client it   *)
(* yields.  The grain of atomicity is the critical section: what the code  *)
(* does outside p.mu is a step of its own.                                 *)
(***************************************************************************)
CONSTANTS
    Handlers,   \* the goroutines that run dialTarget
    Silent,     \* those whose handshakes may meet an ssh-agent that never answers
    None        \* no client, no handshake

Tries == {"first", "retry"}          \* `for range 2`
Attempts == Handlers \X Tries       \* one handshake per try at most

ASSUME NoneAssumption == None \notin Attempts

VARIABLES
    client,     \* p.client: the connection offered to callers
    inflight,   \* p.inflight: the handshake in progress
    closed,     \* p.closed
    dropping,   \* the client close() has taken and not yet closed
    cancelled,  \* the context every handler runs under is done
    conn,       \* conn[a]: the transport of handshake a
    outcome,    \* outcome[a]: the leader's (client, err) pair
    done,       \* the handshakes whose done channel is closed
    tend,       \* tend[a]: the goroutine tending the client of a
    pc,         \* pc[h]: where handler h is
    try,        \* try[h]: the iteration of dialTarget's loop
    at          \* at[h]: the handshake h waits for, leads, or got its client from

poolVars == <<client, inflight, closed, dropping>>
netVars  == <<conn, outcome, done, tend>>
vars     == <<poolVars, cancelled, netVars, pc, try, at>>

PCs == {"get", "wait", "dial", "publish", "announce", "open", "opening",
        "discard", "drop", "relay", "failed"}

\* dialTarget has returned, with a channel ("relay") or with an error.
Returned(h) == pc[h] \in {"relay", "failed"}

Init ==
    /\ client = None
    /\ inflight = None
    /\ closed = FALSE
    /\ dropping = None
    /\ cancelled = FALSE
    /\ conn = [a \in Attempts |-> "none"]
    /\ outcome = [a \in Attempts |-> "pending"]
    /\ done = {}
    /\ tend = [a \in Attempts |-> "none"]
    /\ pc = [h \in Handlers |-> "get"]
    /\ try = [h \in Handlers |-> "first"]
    /\ at = [h \in Handlers |-> None]

Goto(h, l) == pc' = [pc EXCEPT ![h] = l]

-----------------------------------------------------------------------------
(* get: one critical section, four ways through it.                        *)

GetClosed(h) ==
    /\ pc[h] = "get"
    /\ closed
    /\ Goto(h, "failed")
    /\ UNCHANGED <<poolVars, cancelled, netVars, try, at>>

GetCached(h) ==
    /\ pc[h] = "get"
    /\ ~closed
    /\ client # None
    /\ at' = [at EXCEPT ![h] = client]
    /\ Goto(h, "open")
    /\ UNCHANGED <<poolVars, cancelled, netVars, try>>

GetJoin(h) ==
    /\ pc[h] = "get"
    /\ ~closed
    /\ client = None
    /\ inflight # None
    /\ at' = [at EXCEPT ![h] = inflight]
    /\ Goto(h, "wait")
    /\ UNCHANGED <<poolVars, cancelled, netVars, try>>

\* Mutation: the handshake in progress is not looked at.
GetLeadAlone(h) ==
    /\ pc[h] = "get"
    /\ ~closed
    /\ client = None
    /\ inflight' = <<h, try[h]>>
    /\ at' = [at EXCEPT ![h] = <<h, try[h]>>]
    /\ Goto(h, "dial")
    /\ UNCHANGED <<client, closed, dropping, cancelled, netVars, try>>

GetLead(h) ==
    /\ pc[h] = "get"
    /\ ~closed
    /\ client = None
    /\ inflight = None
    /\ inflight' = <<h, try[h]>>
    /\ at' = [at EXCEPT ![h] = <<h, try[h]>>]
    /\ Goto(h, "dial")
    /\ UNCHANGED <<client, closed, dropping, cancelled, netVars, try>>

\* The waiter's select; both cases may be ready, and Go picks either.
WaitDone(h) ==
    /\ pc[h] = "wait"
    /\ at[h] \in done
    /\ Goto(h, IF outcome[at[h]] = "client" THEN "open" ELSE "failed")
    /\ UNCHANGED <<poolVars, cancelled, netVars, try, at>>

WaitCancelled(h) ==
    /\ pc[h] = "wait"
    /\ cancelled
    /\ Goto(h, "failed")
    /\ UNCHANGED <<poolVars, cancelled, netVars, try, at>>

\* dialSSH re-reads the context after the handshake: no client once it is done.
DialOk(h) ==
    /\ pc[h] = "dial"
    /\ ~cancelled
    /\ conn' = [conn EXCEPT ![at[h]] = "live"]
    /\ outcome' = [outcome EXCEPT ![at[h]] = "client"]
    /\ Goto(h, "publish")
    /\ UNCHANGED <<poolVars, cancelled, done, tend, try, at>>

\* Refused, timed out or cancelled: dialSSH closes its transport itself.  An
\* agent that does not answer is out of reach of both the timeout and the
\* cancellation (auth.go:134, 169), and the handshake waits for it.
DialErr(h) ==
    /\ pc[h] = "dial"
    /\ outcome' = [outcome EXCEPT ![at[h]] = "error"]
    /\ Goto(h, "publish")
    /\ UNCHANGED <<poolVars, cancelled, conn, done, tend, try, at>>

\* Mutation: inflight is reset on success only.
PublishErrStuck(h) ==
    /\ pc[h] = "publish"
    /\ outcome[at[h]] = "error"
    /\ Goto(h, "announce")
    /\ UNCHANGED <<poolVars, cancelled, netVars, try, at>>

\* Mutation: the client of a closed pool is dropped, not closed.
PublishClosedLeaks(h) ==
    /\ pc[h] = "publish"
    /\ outcome[at[h]] = "client"
    /\ closed
    /\ inflight' = None
    /\ outcome' = [outcome EXCEPT ![at[h]] = "error"]
    /\ Goto(h, "announce")
    /\ UNCHANGED <<client, closed, dropping, cancelled, conn, done, tend, try, at>>

\* Mutation: nobody tends the new client.
PublishUntended(h) ==
    /\ pc[h] = "publish"
    /\ outcome[at[h]] = "client"
    /\ ~closed
    /\ inflight' = None
    /\ client' = at[h]
    /\ Goto(h, "announce")
    /\ UNCHANGED <<closed, dropping, cancelled, netVars, try, at>>

\* The leader's second critical section, by what the dial gave.
PublishErr(h) ==
    /\ pc[h] = "publish"
    /\ outcome[at[h]] = "error"
    /\ inflight' = None
    /\ Goto(h, "announce")
    /\ UNCHANGED <<client, closed, dropping, cancelled, netVars, try, at>>

\* The pool was closed meanwhile: drop the new client.
PublishClosed(h) ==
    /\ pc[h] = "publish"
    /\ outcome[at[h]] = "client"
    /\ closed
    /\ inflight' = None
    /\ conn' = [conn EXCEPT ![at[h]] = "shut"]
    /\ outcome' = [outcome EXCEPT ![at[h]] = "error"]
    /\ Goto(h, "announce")
    /\ UNCHANGED <<client, closed, dropping, cancelled, done, tend, try, at>>

PublishClient(h) ==
    /\ pc[h] = "publish"
    /\ outcome[at[h]] = "client"
    /\ ~closed
    /\ inflight' = None
    /\ client' = at[h]
    /\ tend' = [tend EXCEPT ![at[h]] = "waiting"]
    /\ Goto(h, "announce")
    /\ UNCHANGED <<closed, dropping, cancelled, conn, outcome, done, try, at>>

\* close(attempt.done); the leader's own return value is what it announced.
Announce(h) ==
    /\ pc[h] = "announce"
    /\ done' = done \cup {at[h]}
    /\ Goto(h, IF outcome[at[h]] = "client" THEN "open" ELSE "failed")
    /\ UNCHANGED <<poolVars, cancelled, conn, outcome, tend, try, at>>

-----------------------------------------------------------------------------
(* dialTarget, after get: open a channel to the target.                    *)

\* client.DialContext looks at the context before it sends anything.
OpenStart(h) ==
    /\ pc[h] = "open"
    /\ Goto(h, IF cancelled THEN "discard" ELSE "opening")
    /\ UNCHANGED <<poolVars, cancelled, netVars, try, at>>

OpenOk(h) ==
    /\ pc[h] = "opening"
    /\ conn[at[h]] = "live"
    /\ Goto(h, "relay")
    /\ UNCHANGED <<poolVars, cancelled, netVars, try, at>>

\* Mutation: a rejection is treated like a transport failure.
OpenRejectedRetries(h) ==
    /\ pc[h] = "opening"
    /\ conn[at[h]] = "live"
    /\ Goto(h, "discard")
    /\ UNCHANGED <<poolVars, cancelled, netVars, try, at>>

\* Mutation: client.Dial, which knows no context.
OpenFailedNoContext(h) ==
    /\ pc[h] = "opening"
    /\ conn[at[h]] # "live"
    /\ Goto(h, "discard")
    /\ UNCHANGED <<poolVars, cancelled, netVars, try, at>>

\* ssh.OpenChannelError: the target is at fault, the connection is kept.
OpenRejected(h) ==
    /\ pc[h] = "opening"
    /\ conn[at[h]] = "live"
    /\ Goto(h, "failed")
    /\ UNCHANGED <<poolVars, cancelled, netVars, try, at>>

\* Any other error: the transport is gone, or the context is done.  (A target
\* address that cannot be parsed has failed the probe of the start-up.)
OpenFailed(h) ==
    /\ pc[h] = "opening"
    /\ cancelled \/ conn[at[h]] # "live"
    /\ Goto(h, "discard")
    /\ UNCHANGED <<poolVars, cancelled, netVars, try, at>>

\* Mutation: whatever is on offer is forgotten.
ForgetAny(a) == None

\* Mutation: the client is closed but stays on offer.
ForgetNothing(a) == client

\* discard forgets the client only if it is still the one on offer.
Forget(a) == IF client = a THEN None ELSE client

\* discard, its critical section.
Discard(h) ==
    /\ pc[h] = "discard"
    /\ client' = Forget(at[h])
    /\ Goto(h, "drop")
    /\ UNCHANGED <<inflight, closed, dropping, cancelled, netVars, try, at>>

\* discard, after the unlock: close the client; then the loop's next try.
Drop(h) ==
    /\ pc[h] = "drop"
    /\ conn' = [conn EXCEPT ![at[h]] = "shut"]
    /\ IF try[h] = "first"
       THEN Goto(h, "get") /\ try' = [try EXCEPT ![h] = "retry"]
       ELSE Goto(h, "failed") /\ UNCHANGED try
    /\ UNCHANGED <<poolVars, cancelled, outcome, done, tend, at>>

-----------------------------------------------------------------------------
(* tend: returns from client.Wait() when the transport ends, then discards. *)
(* Its client.Close() finds a transport that has ended already, so nothing *)
(* can tell it from a part of the critical section.                        *)

Tend(a) ==
    /\ tend[a] = "waiting"
    /\ conn[a] # "live"
    /\ client' = Forget(a)
    /\ conn' = [conn EXCEPT ![a] = "shut"]
    /\ tend' = [tend EXCEPT ![a] = "done"]
    /\ UNCHANGED <<inflight, closed, dropping, cancelled, outcome, done,
                   pc, try, at>>

(* close, deferred by runTunnel: a critical section, then client.Close().  *)

PoolClose ==
    /\ ~closed
    /\ closed' = TRUE
    /\ dropping' = client
    /\ client' = None
    /\ UNCHANGED <<inflight, cancelled, netVars, pc, try, at>>

PoolDrop ==
    /\ dropping # None
    /\ conn' = [conn EXCEPT ![dropping] = "shut"]
    /\ dropping' = None
    /\ UNCHANGED <<client, inflight, closed, cancelled, outcome, done, tend,
                   pc, try, at>>

-----------------------------------------------------------------------------
(* The environment: the network, and whoever cancels the context.          *)

\* The transport ends without Close: peer gone, reset, keepalive write failed.
Lose(a) ==
    /\ conn[a] = "live"
    /\ conn' = [conn EXCEPT ![a] = "lost"]
    /\ UNCHANGED <<poolVars, cancelled, outcome, done, tend, pc, try, at>>

Cancel ==
    /\ ~cancelled
    /\ cancelled' = TRUE
    /\ UNCHANGED <<poolVars, netVars, pc, try, at>>

Publish(h) == PublishErr(h) \/ PublishClosed(h) \/ PublishClient(h)
Get(h) == GetClosed(h) \/ GetCached(h) \/ GetJoin(h) \/ GetLead(h)
Wait(h) == WaitDone(h) \/ WaitCancelled(h)
Dial(h) == DialOk(h) \/ DialErr(h)
Open(h) == OpenOk(h) \/ OpenRejected(h) \/ OpenFailed(h)

Handler(h) ==
    \/ Get(h) \/ Wait(h) \/ Dial(h) \/ Publish(h) \/ Announce(h)
    \/ OpenStart(h) \/ Open(h) \/ Discard(h) \/ Drop(h)

Next ==
    \/ \E h \in Handlers : Handler(h)
    \/ \E a \in Attempts : Tend(a) \/ Lose(a)
    \/ PoolClose \/ PoolDrop \/ Cancel

\* Goroutines that can run do run.  A dial ends because of its timeout, but
\* nothing bounds the answer of an agent: a silent handler owes no end.  Nor
\* does anything bound the target's answer to a channel open: only OpenFailed
\* is fair, once the context or the transport has ended.
Fairness ==
    /\ \A h \in Handlers \ Silent : WF_vars(Dial(h))
    /\ \A h \in Handlers :
          /\ WF_vars(Get(h)) /\ WF_vars(Wait(h))
          /\ WF_vars(Publish(h)) /\ WF_vars(Announce(h)) /\ WF_vars(OpenStart(h))
          /\ WF_vars(OpenFailed(h)) /\ WF_vars(Discard(h)) /\ WF_vars(Drop(h))
    /\ \A a \in Attempts : WF_vars(Tend(a))
    /\ WF_vars(PoolDrop)

Spec == Init /\ [][Next]_vars
FairSpec == Spec /\ Fairness

-----------------------------------------------------------------------------
(* Properties                                                              *)

\* The state stays in the shapes the code's fields and locals can take.
TypeOK ==
    /\ client \in Attempts \cup {None}
    /\ inflight \in Attempts \cup {None}
    /\ closed \in BOOLEAN
    /\ dropping \in Attempts \cup {None}
    /\ cancelled \in BOOLEAN
    /\ conn \in [Attempts -> {"none", "live", "lost", "shut"}]
    /\ outcome \in [Attempts -> {"pending", "client", "error"}]
    /\ done \subseteq Attempts
    /\ tend \in [Attempts -> {"none", "waiting", "done"}]
    /\ pc \in [Handlers -> PCs]
    /\ try \in [Handlers -> Tries]
    /\ at \in [Handlers -> Attempts \cup {None}]

Leading(h) == pc[h] \in {"dial", "publish"}

\* "Concurrent callers share one in-flight handshake" (client.go:67): no two
\* handlers ever hold handshakes of their own between get's two critical
\* sections, and none does while a client is on offer.
SingleFlight ==
    \A h \in Handlers : Leading(h) =>
        /\ client = None
        /\ \A g \in Handlers : Leading(g) => g = h

\* Somebody will close the transport of a: a discard or the pool's close has
\* taken it, or its leader has yet to publish it.
Held(a) ==
    \/ \E h \in Handlers : pc[h] \in {"publish", "drop"} /\ at[h] = a
    \/ dropping = a

\* No SSH connection is orphaned: a live one is on offer, or is held by a
\* goroutine that is about to publish or close it.  Closing the pool races
\* the handshake in progress (client.go:97-99).
LiveIsOwned ==
    \A a \in Attempts : conn[a] = "live" => (client = a /\ ~closed) \/ Held(a)

\* "multiplexes forwarded channels over one SSH connection" (client.go:51):
\* two are never up together, not even when a loss, a discard and the next
\* handshake overlap.
OneConnection ==
    \A a, b \in Attempts : conn[a] = "live" /\ conn[b] = "live" => a = b

\* Dialling target rejections "leave the SSH client usable" (forward.go:44):
\* while the tunnel is up, no step closes a connection that still works, so
\* one handler never cuts the channels of the others.
ChannelsSurvive ==
    [][ ~cancelled /\ ~closed =>
          \A a \in Attempts : conn[a] = "live" => conn'[a] # "shut" ]_vars

\* The retry is not spent on the client that has just failed: get never hands
\* a handler back the connection the handler discarded, whatever the other
\* handlers, tend and the handshakes did between the discard and the get.
RetryIsFresh ==
    [][ \A h \in Handlers :
          pc[h] = "get" /\ pc'[h] \in {"open", "wait"} /\ try[h] = "retry"
            => at'[h] # at[h] ]_vars

\* A connection that ended is not offered for ever: also when nobody uses the
\* tunnel, tend removes it.
LostIsForgotten == \A a \in Attempts : conn[a] = "lost" ~> client # a

\* What the pool promises: SharedConnection, read off its fields.
Link == IF closed THEN "stopped"
        ELSE IF client # None THEN "up"
        ELSE IF inflight # None THEN "connecting"
        ELSE "down"

\* The handshake in progress may be waiting for an agent.
AgentSilent == \E h \in Silent : pc[h] = "dial"

Shared == INSTANCE SharedConnection WITH link <- Link, hung <- AgentSilent

\* clientPool implements the single shared link, and every attempt at bringing
\* it up ends unless the ssh-agent does not answer it: a handshake that has
\* returned, with whatever result, never wedges the pool.
ImplementsShared == Shared!Spec
=============================================================================
