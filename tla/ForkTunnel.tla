----------------------------- MODULE ForkTunnel -----------------------------
(***************************************************************************)
(* How the provider starts a background tunnel and how the tunnel follows  *)
(* terraform (internal/libs/fork.go, watch.go).  Three kinds of process:   *)
(* terraform; the provider, which runs one ForkTunnel per tunnel; and the  *)
(* forked tunnels.  They share marker files and a local TCP port that      *)
(* several tunnels, and a stranger, may want.                              *)
(*                                                                         *)
(* What a tunnel does between its start and its shutdown is abstracted to  *)
(* binding the port; ClientPool and ConnServer model the SSH tunnel's      *)
(* inside.                                                                 *)
(***************************************************************************)
CONSTANTS
    Tunnels,    \* the ForkTunnel calls, each with the process it forks
    Observed,   \* those that report readiness from outside (SSM)
    Other,      \* a process that is no tunnel and may hold the port
    Nobody      \* nobody

ASSUME TunnelsAssumption ==
    /\ Observed \subseteq Tunnels
    /\ Other \notin Tunnels /\ Nobody \notin Tunnels /\ Other # Nobody

VARIABLES
    terraform,  \* is the terraform process running?
    provider,   \* is the provider process running?
    cancelled,  \* the context of the provider's call is done
    fork,       \* fork[t]: where ForkTunnel is
    markers,    \* the marker files that exist
    child,      \* child[t]: the forked process
    watched,    \* watched[t]: whose pid the child was given to watch
    sigint,     \* sigint[t]: the child has been sent SIGINT
    signal,     \* signal[t]: how far the child is with its readiness signal
    port,       \* who listens on the local port
    hasBound    \* the tunnels that have ever listened on it (history)

childVars == <<child, watched, sigint, signal>>
portVars  == <<port, hasBound>>
worldVars == <<terraform, provider, cancelled>>
forkVars == <<worldVars, fork, markers, childVars, portVars>>

Running(t) == child[t] \in {"booting", "up"}
Returned(t) == fork[t] \in {"ok", "failed"}

ForkInit ==
    /\ terraform = TRUE
    /\ provider = TRUE
    /\ cancelled = FALSE
    /\ fork = [t \in Tunnels |-> "prepare"]
    /\ markers = {}
    /\ child = [t \in Tunnels |-> "none"]
    /\ watched = [t \in Tunnels |-> "nobody"]
    /\ sigint = [t \in Tunnels |-> FALSE]
    /\ signal = [t \in Tunnels |-> "off"]
    /\ port \in {Nobody, Other}
    /\ hasBound = {}

\* Mutation: one well-known marker for all.
SharedPath(t) == "ready"

\* "A per-fork marker prevents concurrent tunnels acknowledging each other":
\* os.MkdirTemp gives every call a directory of its own.
Path(t) == t

\* One step of ForkTunnel for t, from l to m, in a provider that still runs.
Step(t, l, m) ==
    /\ provider
    /\ fork[t] = l
    /\ fork' = [fork EXCEPT ![t] = m]

-----------------------------------------------------------------------------
(* ForkTunnel and WaitForReadyFile, in the provider                        *)

\* The configuration, the log file, the marker directory; any may fail.
PrepareFails(t) ==
    /\ Step(t, "prepare", "failed")
    /\ UNCHANGED <<worldVars, markers, childVars, portVars>>

\* The parent pid is read here, before the context is looked at: it is init's
\* when terraform is gone already.
Prepare(t) ==
    /\ Step(t, "prepare", "start")
    /\ watched' = [watched EXCEPT ![t] = IF terraform THEN "terraform" ELSE "init"]
    /\ UNCHANGED <<worldVars, markers, child, sigint, signal, portVars>>

\* The context is done, or the process cannot be started.
StartFails(t) ==
    /\ Step(t, "start", "failed")
    /\ UNCHANGED <<worldVars, markers, childVars, portVars>>

Start(t) ==
    /\ Step(t, "start", "check")
    /\ ~cancelled
    /\ child' = [child EXCEPT ![t] = "booting"]
    /\ UNCHANGED <<worldVars, markers, watched, sigint, signal, portVars>>

\* CheckProcessExists: a zombie has died too.
CheckAlive(t) ==
    /\ Step(t, "check", "stat")
    /\ Running(t)
    /\ UNCHANGED <<worldVars, markers, childVars, portVars>>

CheckDead(t) ==
    /\ Step(t, "check", "kill")
    /\ ~Running(t)
    /\ UNCHANGED <<worldVars, markers, childVars, portVars>>

\* The call succeeds and the deferred RemoveAll takes the marker.  The child
\* is never waited for: it stays a zombie when it ends.
StatFound(t) ==
    /\ Step(t, "stat", "ok")
    /\ Path(t) \in markers
    /\ markers' = markers \ {Path(t)}
    /\ UNCHANGED <<worldVars, childVars, portVars>>

\* No marker yet: once more on the next tick ...
StatMissing(t) ==
    /\ Step(t, "stat", "check")
    /\ Path(t) \notin markers
    /\ UNCHANGED <<worldVars, markers, childVars, portVars>>

\* Mutation: nothing but the caller's context ends the wait.
GiveUpOnCancel(t) ==
    /\ Step(t, "stat", "kill")
    /\ Path(t) \notin markers
    /\ cancelled
    /\ UNCHANGED <<worldVars, markers, childVars, portVars>>

\* ... unless the 30 seconds are over, or the caller's context is done.
GiveUp(t) ==
    /\ Step(t, "stat", "kill")
    /\ Path(t) \notin markers
    /\ UNCHANGED <<worldVars, markers, childVars, portVars>>

\* The port of a process that ends is free again.
Release(t) == port' = IF port = t THEN Nobody ELSE port

\* Mutation: the child is left to end by itself.
KillNothing(t) ==
    /\ Step(t, "kill", "failed")
    /\ markers' = markers \ {Path(t)}
    /\ UNCHANGED <<worldVars, childVars, portVars>>

Kill(t) ==
    /\ Step(t, "kill", "reap")
    /\ child' = [child EXCEPT ![t] = "zombie"]
    /\ Release(t)
    /\ UNCHANGED <<worldVars, markers, watched, sigint, signal, hasBound>>

\* cmd.Wait(), then the deferred RemoveAll.
Reap(t) ==
    /\ Step(t, "reap", "failed")
    /\ child' = [child EXCEPT ![t] = "reaped"]
    /\ markers' = markers \ {Path(t)}
    /\ UNCHANGED <<worldVars, watched, sigint, signal, portVars>>

\* An ephemeral resource's Close: Interrupt(tunnel_pid).
Close(t) ==
    /\ provider
    /\ fork[t] = "ok"
    /\ ~sigint[t]
    /\ sigint' = [sigint EXCEPT ![t] = TRUE]
    /\ UNCHANGED <<worldVars, fork, markers, child, watched, signal, portVars>>

-----------------------------------------------------------------------------
(* The forked tunnel                                                       *)

\* WatchProcess finds its parent and starts polling it; else the tunnel ends
\* (Exit).
Watch(t) ==
    /\ child[t] = "booting"
    /\ watched[t] = "init" \/ terraform
    /\ child' = [child EXCEPT ![t] = "up"]
    /\ UNCHANGED <<worldVars, fork, markers, watched, sigint, signal, portVars>>

\* Mutation: the polling starts with the listener.
WatchFiresBound(t) ==
    /\ child[t] = "up" /\ t \in hasBound
    /\ watched[t] = "terraform" /\ ~terraform
    /\ ~sigint[t]
    /\ sigint' = [sigint EXCEPT ![t] = TRUE]
    /\ UNCHANGED <<worldVars, fork, markers, child, watched, signal, portVars>>

\* A poll that finds the parent gone sends one SIGINT and is the last.  One
\* more after Close's changes nothing.
WatchFires(t) ==
    /\ child[t] = "up"
    /\ watched[t] = "terraform" /\ ~terraform
    /\ ~sigint[t]
    /\ sigint' = [sigint EXCEPT ![t] = TRUE]
    /\ UNCHANGED <<worldVars, fork, markers, child, watched, signal, portVars>>

\* The tunnel listens.  A tunnel that signals inline goes on to do so; when
\* the port is taken the tunnel ends (Exit).
Bind(t) ==
    /\ child[t] = "up"
    /\ port = Nobody
    /\ t \notin hasBound
    /\ port' = t
    /\ hasBound' = hasBound \cup {t}
    /\ signal' = IF t \in Observed THEN signal ELSE [signal EXCEPT ![t] = "due"]
    /\ UNCHANGED <<worldVars, fork, markers, child, watched, sigint>>

\* SignalReadyWhenServing: a dial of the port succeeds, whoever answers.
ObservePort(t) ==
    /\ t \in Observed
    /\ child[t] = "up"
    /\ signal[t] = "off"
    /\ port # Nobody
    /\ signal' = [signal EXCEPT ![t] = "due"]
    /\ UNCHANGED <<worldVars, fork, markers, child, watched, sigint, portVars>>

\* The marker exists from the moment os.WriteFile creates it.  A failure ends
\* the tunnel (Exit), except an observed one, which only logs it (below).
Signal(t) ==
    /\ child[t] = "up"
    /\ signal[t] = "due"
    /\ markers' = markers \cup {Path(t)}
    /\ signal' = [signal EXCEPT ![t] = "done"]
    /\ UNCHANGED <<worldVars, fork, child, watched, sigint, portVars>>

\* The observer gives up after 30 seconds, or cannot write the marker.
ObserverFails(t) ==
    /\ t \in Observed
    /\ child[t] = "up"
    /\ signal[t] \in {"off", "due"}
    /\ signal' = [signal EXCEPT ![t] = "done"]
    /\ UNCHANGED <<worldVars, fork, markers, child, watched, sigint, portVars>>

\* The tunnel ends: an error anywhere on its way, the remote side going away,
\* a crash.
Exit(t) ==
    /\ Running(t)
    /\ child' = [child EXCEPT ![t] = "zombie"]
    /\ Release(t)
    /\ UNCHANGED <<worldVars, fork, markers, watched, sigint, signal, hasBound>>

-----------------------------------------------------------------------------
(* The rest of the world                                                   *)

TerraformExits ==
    /\ terraform
    /\ terraform' = FALSE
    /\ UNCHANGED <<provider, cancelled, fork, markers, childVars, portVars>>

ProviderExits ==
    /\ provider
    /\ provider' = FALSE
    /\ UNCHANGED <<terraform, cancelled, fork, markers, childVars, portVars>>

Cancel ==
    /\ ~cancelled
    /\ cancelled' = TRUE
    /\ UNCHANGED <<terraform, provider, fork, markers, childVars, portVars>>

OtherListens ==
    /\ port \in {Nobody, Other}
    /\ port' = IF port = Nobody THEN Other ELSE Nobody
    /\ UNCHANGED <<worldVars, fork, markers, childVars, hasBound>>

Forking(t) ==
    \/ PrepareFails(t) \/ Prepare(t) \/ StartFails(t) \/ Start(t)
    \/ CheckAlive(t) \/ CheckDead(t)
    \/ StatFound(t) \/ StatMissing(t) \/ GiveUp(t)
    \/ Kill(t) \/ Reap(t)

Child(t) ==
    \/ Watch(t) \/ WatchFires(t) \/ Bind(t) \/ ObservePort(t)
    \/ Signal(t) \/ ObserverFails(t) \/ Exit(t)

ForkNext ==
    \/ \E t \in Tunnels : Forking(t) \/ Close(t) \/ Child(t)
    \/ TerraformExits \/ ProviderExits \/ Cancel \/ OtherListens

\* The provider's goroutines and the child's poll run.  GiveUp is strongly
\* fair: the 30 seconds end during some select, and from then on waitCtx is
\* ready at every select, the ticker only every 500 ms.  A child owes nothing
\* but to start polling, or to end.
ForkFairness ==
    \A t \in Tunnels :
        /\ WF_forkVars(Forking(t)) /\ SF_forkVars(GiveUp(t))
        /\ WF_forkVars(child[t] = "booting" /\ (Watch(t) \/ Exit(t)))
        /\ WF_forkVars(WatchFires(t))

ForkSpec == ForkInit /\ [][ForkNext]_forkVars
FairForkSpec == ForkSpec /\ ForkFairness

-----------------------------------------------------------------------------
(* Properties                                                              *)

\* Types of the shared state.
ForkTypeOK ==
    /\ terraform \in BOOLEAN /\ provider \in BOOLEAN /\ cancelled \in BOOLEAN
    /\ fork \in [Tunnels -> {"prepare", "start", "check", "stat", "kill", "reap",
                             "ok", "failed"}]
    /\ markers \subseteq Tunnels
    /\ child \in [Tunnels -> {"none", "booting", "up", "zombie", "reaped"}]
    /\ watched \in [Tunnels -> {"nobody", "terraform", "init"}]
    /\ sigint \in [Tunnels -> BOOLEAN]
    /\ signal \in [Tunnels -> {"off", "due", "done"}]
    /\ port \in Tunnels \cup {Other, Nobody}
    /\ hasBound \subseteq Tunnels

\* "waits for its listener to be ready" (fork.go:13): when ForkTunnel returns
\* a tunnel that signals inline, that very tunnel has listened on the port,
\* whoever else wanted it and however many forks ran at once.
ReadyMeansServing ==
    \A t \in Tunnels \ Observed : fork[t] = "ok" => t \in hasBound

\* "Tunnels driven by a client library ... observe their own listener instead"
\* (watch.go:86-87): the same for the SSM tunnels.
ObservedMeansServing ==
    \A t \in Observed : fork[t] = "ok" => t \in hasBound

\* "Failed startup must not leave a child that can bind the port later"
\* (fork.go:52): a failed ForkTunnel leaves no process, zombies included, and
\* nobody can take it for the listener.
FailedLeavesNothing ==
    \A t \in Tunnels : fork[t] = "failed" =>
        child[t] \in {"none", "reaped"} /\ port # t

\* ForkTunnel always returns, whatever the child does, unless the provider
\* itself goes away.
ForkReturns ==
    \A t \in Tunnels : provider ~> (Returned(t) \/ ~provider)

\* "a forked tunnel watches the terraform process and must tear itself down
\* once that parent goes away" (test/integration/watch_test.go:17-19), crashed
\* provider and half-started tunnels included: every tunnel whose parent pid
\* was read while terraform ran ends or is interrupted.  What the interrupt
\* does is up to the tunnel: see InterruptEnds of SSHTunnel and BastionTunnel.
TunnelsFollowTerraform ==
    \A t \in Tunnels :
        ~terraform ~> [](Running(t) => watched[t] = "init" \/ sigint[t])
=============================================================================
