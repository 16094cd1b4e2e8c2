---------------------------- MODULE TunnelResource ----------------------------
(***************************************************************************)
(* The provider's side of a tunnel (internal/provider, ssm/session.go,      *)
(* ssm/tunnel.go): data sources are read, ephemeral resources opened and    *)
(* closed, each call forks one tunnel, and those of SSM start a session     *)
(* before they fork.  Tunnels are remembered by process id only, ids are    *)
(* used again, and the kernel keeps the id of a child that has ended until  *)
(* its parent waits for it or ends itself.                                  *)
(*                                                                         *)
(* ForkTunnel, which module ForkTunnel models, appears here as its start    *)
(* and its two ends.                                                        *)
(***************************************************************************)
CONSTANTS
    Calls,      \* reads of data sources and opens of ephemeral resources
    Ephemeral,  \* the opens: terraform closes them again
    SSM,        \* the calls for SSM tunnels
    Pids,       \* process ids
    Other,      \* a process that is none of the tunnels
    None        \* nobody

ASSUME ConstantsAssumption ==
    /\ Ephemeral \subseteq Calls /\ SSM \subseteq Calls
    /\ Other \notin Calls /\ None \notin Calls \cup Pids /\ Other # None

VARIABLES
    provider,   \* is the provider process running?
    cancelled,  \* the context of the calls is done
    pc,         \* pc[c]: where the call is, from Read or Open to Close
    pid,        \* pid[c]: cmd.Process.Pid, then tunnel_pid in the private data
    session,    \* session[c]: the SSM session of the call
    excused,    \* the sessions whose response, or termination, was lost
    proc,       \* proc[p]: the process with this id: a call's tunnel, or another
    running,    \* the ids of processes that run; the others of proc are zombies
    signalled   \* signalled[p]: the call that interrupted or killed the process

callVars == <<pc, pid>>
sessionVars == <<session, excused>>
procVars == <<proc, running, signalled>>
vars == <<provider, cancelled, callVars, sessionVars, procVars>>

Init ==
    /\ provider = TRUE
    /\ cancelled = FALSE
    /\ pc = [c \in Calls |-> "config"]
    /\ pid = [c \in Calls |-> None]
    /\ session = [c \in Calls |-> "none"]
    /\ excused = {}
    /\ proc = [p \in Pids |-> None]
    /\ running = {}
    /\ signalled = [p \in Pids |-> None]

\* One step of the call c in the provider, from l to m.
Step(c, l, m) ==
    /\ provider
    /\ pc[c] = l
    /\ pc' = [pc EXCEPT ![c] = m]
    /\ UNCHANGED <<provider, cancelled>>

\* What a failed fork still has to do.
AfterFork(c) == IF c \in SSM THEN "terminate" ELSE "refused"

-----------------------------------------------------------------------------
(* Read and Open                                                           *)

\* The configuration is read, validated and completed, a free port looked for.
Configure(c) ==
    /\ Step(c, "config", IF c \in SSM THEN "session" ELSE "fork")
    /\ UNCHANGED <<pid, sessionVars, procVars>>

ConfigureFails(c) ==
    /\ Step(c, "config", "refused")
    /\ UNCHANGED <<pid, sessionVars, procVars>>

\* startTunnelSession: SSM starts the session and its answer arrives ...
StartSession(c) ==
    /\ Step(c, "session", "fork")
    /\ session' = [session EXCEPT ![c] = "active"]
    /\ UNCHANGED <<pid, excused, procVars>>

\* ... or does not, a cancelled context being one reason; or SSM refuses.
StartSessionFails(c) ==
    /\ Step(c, "session", "refused")
    /\ \/ UNCHANGED sessionVars
       \/ /\ session' = [session EXCEPT ![c] = "active"]
          /\ excused' = excused \cup {c}
    /\ UNCHANGED <<pid, procVars>>

\* Mutation: the error returns before the session is terminated.
ForkFailsAtOnce(c) ==
    /\ Step(c, "fork", "refused")
    /\ UNCHANGED <<pid, sessionVars, procVars>>

\* ForkTunnel fails before it has a process: a done context, a full disk.
ForkFails(c) ==
    /\ Step(c, "fork", AfterFork(c))
    /\ UNCHANGED <<pid, sessionVars, procVars>>

\* cmd.Start().
Fork(c, p) ==
    /\ Step(c, "fork", "wait")
    /\ ~cancelled
    /\ proc[p] = None
    /\ proc' = [proc EXCEPT ![p] = c]
    /\ running' = running \cup {p}
    /\ pid' = [pid EXCEPT ![c] = p]
    /\ UNCHANGED <<sessionVars, signalled>>

\* The tunnel has signalled that it is ready; it may have ended by now.
Forked(c) ==
    /\ Step(c, "wait", "save")
    /\ UNCHANGED <<pid, sessionVars, procVars>>

\* The process p gets a signal from c.
Hit(c, p) == signalled' = [signalled EXCEPT ![p] = IF proc[p] = None THEN None ELSE c]

\* Mutation: the tunnel is waited for, but goes on.
KillNothing(c) ==
    /\ Step(c, "wait", "reap")
    /\ UNCHANGED <<pid, sessionVars, procVars>>

\* ForkTunnel gives up: cmd.Process.Kill() ...
Kill(c) ==
    /\ Step(c, "wait", "reap")
    /\ Hit(c, pid[c])
    /\ running' = running \ {pid[c]}
    /\ UNCHANGED <<pid, sessionVars, proc>>

\* ... and cmd.Wait(), which frees the id.
Reap(c) ==
    /\ Step(c, "reap", AfterFork(c))
    /\ proc' = [proc EXCEPT ![pid[c]] = None]
    /\ signalled' = [signalled EXCEPT ![pid[c]] = None]
    /\ UNCHANGED <<pid, sessionVars, running>>

\* Mutation: the termination is cancelled with the call.
TerminateCancelled(c) ==
    /\ Step(c, "terminate", "refused")
    /\ session' = [session EXCEPT ![c] = IF cancelled THEN @ ELSE "ended"]
    /\ UNCHANGED <<pid, excused, procVars>>

\* terminateTunnelSession, with a context of its own; its error is logged.
Terminate(c) ==
    /\ Step(c, "terminate", "refused")
    /\ session' = [session EXCEPT ![c] = "ended"]
    /\ UNCHANGED <<pid, excused, procVars>>

TerminateFails(c) ==
    /\ Step(c, "terminate", "refused")
    /\ excused' = excused \cup {c}
    /\ UNCHANGED <<pid, session, procVars>>

\* State.Set; or Result.Set, and SetKey for tunnel_pid.
Save(c) ==
    /\ Step(c, "save", IF c \in Ephemeral THEN "open" ELSE "read")
    /\ UNCHANGED <<pid, sessionVars, procVars>>

\* A diagnostic: terraform has no result, and will not call Close.
SaveFails(c) ==
    /\ Step(c, "save", "unsaved")
    /\ UNCHANGED <<pid, sessionVars, procVars>>

-----------------------------------------------------------------------------
(* Close, in the provider that opened                                      *)

\* Interrupt looks the process up, a zombie included; there is none, and
\* Close fails ...
CloseFinds(c) ==
    /\ Step(c, "open", IF proc[pid[c]] # None THEN "interrupt" ELSE "closed")
    /\ UNCHANGED <<pid, sessionVars, procVars>>

\* ... or there is one, and whatever has the id by now gets SIGINT.
Interrupt(c) ==
    /\ Step(c, "interrupt", "closed")
    /\ Hit(c, pid[c])
    /\ UNCHANGED <<pid, sessionVars, proc, running>>

-----------------------------------------------------------------------------
(* Processes                                                               *)

\* Mutation: every child is waited for as soon as it ends.
RemainsNothing(p) ==
    /\ running' = running \ {p}
    /\ proc' = [proc EXCEPT ![p] = None]
    /\ signalled' = [signalled EXCEPT ![p] = None]

\* A process that ends leaves a zombie to the parent that does not wait for
\* it, and nothing to init.
Remains(p) ==
    /\ running' = running \ {p}
    /\ IF provider /\ proc[p] # Other
       THEN UNCHANGED <<proc, signalled>>
       ELSE /\ proc' = [proc EXCEPT ![p] = None]
            /\ signalled' = [signalled EXCEPT ![p] = None]

\* A process ends, at any moment.  The plugin of an SSM tunnel ends its
\* session with it, if it has the time.
Exit(p) ==
    /\ p \in running
    /\ Remains(p)
    /\ \/ UNCHANGED session
       \/ /\ proc[p] \in SSM
          /\ session' = [session EXCEPT ![proc[p]] = "ended"]
    /\ UNCHANGED <<provider, cancelled, callVars, excused>>

OtherStarts(p) ==
    /\ proc[p] = None
    /\ proc' = [proc EXCEPT ![p] = Other]
    /\ running' = running \cup {p}
    /\ UNCHANGED <<provider, cancelled, callVars, sessionVars, signalled>>

\* The provider ends, or crashes: init waits for its zombies.
ProviderExits ==
    /\ provider
    /\ provider' = FALSE
    /\ proc' = [p \in Pids |-> IF p \in running THEN proc[p] ELSE None]
    /\ signalled' = [p \in Pids |-> IF p \in running THEN signalled[p] ELSE None]
    /\ UNCHANGED <<cancelled, callVars, sessionVars, running>>

Cancel ==
    /\ ~cancelled
    /\ cancelled' = TRUE
    /\ UNCHANGED <<provider, callVars, sessionVars, procVars>>

Call(c) ==
    \/ Configure(c) \/ ConfigureFails(c)
    \/ StartSession(c) \/ StartSessionFails(c)
    \/ ForkFails(c) \/ (\E p \in Pids : Fork(c, p)) \/ Forked(c) \/ Kill(c) \/ Reap(c)
    \/ Terminate(c) \/ TerminateFails(c)
    \/ Save(c) \/ SaveFails(c)

Close(c) == CloseFinds(c) \/ Interrupt(c)

Next ==
    \/ \E c \in Calls : Call(c) \/ Close(c)
    \/ \E p \in Pids : Exit(p) \/ OtherStarts(p)
    \/ ProviderExits \/ Cancel

Spec == Init /\ [][Next]_vars

-----------------------------------------------------------------------------
(* Properties                                                              *)

\* Types of the shared state.
TypeOK ==
    /\ provider \in BOOLEAN /\ cancelled \in BOOLEAN
    /\ pc \in [Calls -> {"config", "session", "fork", "wait", "reap", "terminate",
                         "refused", "save", "unsaved", "read", "open", "interrupt",
                         "closed"}]
    /\ pid \in [Calls -> Pids \cup {None}]
    /\ session \in [Calls -> {"none", "active", "ended"}]
    /\ excused \subseteq SSM
    /\ proc \in [Pids -> Calls \cup {Other, None}]
    /\ running \subseteq {p \in Pids : proc[p] # None}
    /\ signalled \in [Pids -> Calls \cup {None}]

\* Close interrupts, and a failed fork kills, by process id, long after the
\* process may have ended: still nobody but the call's own tunnel is hit, for
\* while the provider lives nobody waits for the tunnels it returned
\* (fork.go:51-58), and their ids are not given away.
OnlyOwnTunnelsHit ==
    \A p \in Pids : signalled[p] # None => proc[p] = signalled[p]

\* "terminateTunnelSession closes a session no plugin ever took over"
\* (session.go:122): a call that gives no tunnel leaves no session, whichever
\* step failed and whether or not it was cancelled, unless SSM's own answer
\* was lost.
NoOrphanSession ==
    \A c \in Calls : pc[c] = "refused" /\ session[c] = "active" => c \in excused
=============================================================================
