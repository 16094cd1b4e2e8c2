------------------------- MODULE TunnelResourceProof -------------------------
(***************************************************************************)
(* Proofs about TunnelResource for any calls and process ids: whom signals  *)
(* reach and what becomes of SSM sessions, from one inductive invariant.    *)
(***************************************************************************)
EXTENDS TunnelResource, TLAPS

\* The places of a call that has forked and not failed, and of one that closes.
Holding == {"wait", "reap", "save", "unsaved", "read", "open", "interrupt"}

\* As long as the provider lives, the id it remembers is that of its tunnel,
\* or of what is left of it.
IdsAreKept ==
    provider => \A c \in Calls :
        /\ pc[c] \in Holding => pid[c] \in Pids /\ proc[pid[c]] = c
        /\ pc[c] = "reap" => pid[c] \notin running

\* Only SSM calls have sessions, from the answer of SSM on; only calls that
\* have forked have processes.
SessionsKnown ==
    \A c \in Calls :
        /\ session[c] # "none" => c \in SSM /\ pc[c] \notin {"config", "session"}
        /\ pc[c] \in {"session", "terminate"} => c \in SSM
        /\ \A p \in Pids : proc[p] = c => pc[c] \notin {"config", "session", "fork"}

IInv ==
    /\ TypeOK
    /\ IdsAreKept
    /\ SessionsKnown
    /\ OnlyOwnTunnelsHit
    /\ NoOrphanSession

-----------------------------------------------------------------------------

LEMMA InitIInv == Init => IInv
  BY ConstantsAssumption DEF Init, IInv, TypeOK, IdsAreKept, SessionsKnown, OnlyOwnTunnelsHit, NoOrphanSession, Holding

\* The steps of a call that concern neither processes nor sessions.
LEMMA QuietKeeps ==
    ASSUME IInv, NEW c \in Calls,
           Configure(c) \/ ConfigureFails(c) \/ ForkFails(c) \/ Forked(c)
             \/ Save(c) \/ SaveFails(c) \/ CloseFinds(c)
    PROVE  IInv'
<1> USE ConstantsAssumption
    DEF Configure, ConfigureFails, ForkFails, Forked, Save, SaveFails, CloseFinds, Step, AfterFork,
        sessionVars, procVars
<1>1. PICK m : /\ pc' = [pc EXCEPT ![c] = m]
               /\ m \in {"session", "fork", "refused", "terminate", "save", "open", "read",
                         "unsaved", "interrupt", "closed"}
               /\ m \in Holding => pc[c] \in Holding
               /\ m # "reap"
               /\ m \in {"session", "terminate"} => c \in SSM
               /\ m \in {"session", "fork"} => pc[c] = "config"
               /\ m = "refused" => pc[c] = "config" \/ c \notin SSM
  BY DEF Holding
<1>2. UNCHANGED <<provider, cancelled, pid, session, excused, proc, running, signalled>>
  OBVIOUS
<1>3. TypeOK'
  BY <1>1, <1>2 DEF IInv, TypeOK
<1>4. IdsAreKept'
  BY <1>1, <1>2 DEF IInv, TypeOK, IdsAreKept
<1>5. SessionsKnown' /\ NoOrphanSession'
  BY <1>1, <1>2 DEF IInv, TypeOK, SessionsKnown, NoOrphanSession
<1>6. OnlyOwnTunnelsHit'
  BY <1>2 DEF IInv, OnlyOwnTunnelsHit
<1>7. QED
  BY <1>3, <1>4, <1>5, <1>6 DEF IInv

\* Those that concern the session.
LEMMA SessionKeeps ==
    ASSUME IInv, NEW c \in Calls,
           StartSession(c) \/ StartSessionFails(c) \/ Terminate(c) \/ TerminateFails(c)
    PROVE  IInv'
<1> USE DEF StartSession, StartSessionFails, Terminate, TerminateFails, Step, sessionVars, procVars
<1>1. UNCHANGED <<provider, cancelled, pid, proc, running, signalled>>
  OBVIOUS
<1>2. c \in SSM
  BY DEF IInv, SessionsKnown
<1>3. TypeOK'
  BY <1>1, <1>2 DEF IInv, TypeOK
<1>4. IdsAreKept' /\ OnlyOwnTunnelsHit'
  BY <1>1 DEF IInv, TypeOK, IdsAreKept, OnlyOwnTunnelsHit, Holding
<1>5. SessionsKnown'
  BY <1>2 DEF IInv, TypeOK, SessionsKnown
<1>6. NoOrphanSession'
  BY <1>2 DEF IInv, TypeOK, SessionsKnown, NoOrphanSession
<1>7. QED
  BY <1>3, <1>4, <1>5, <1>6 DEF IInv

LEMMA ForkKeeps == ASSUME IInv, NEW c \in Calls, NEW p \in Pids, Fork(c, p) PROVE IInv'
<1> USE ConstantsAssumption DEF Fork, Step, sessionVars
<1>1. TypeOK'
  BY DEF IInv, TypeOK
<1>2. IdsAreKept'
  BY DEF IInv, TypeOK, IdsAreKept, Holding
<1>3. SessionsKnown' /\ NoOrphanSession'
  BY DEF IInv, TypeOK, SessionsKnown, NoOrphanSession
<1>4. OnlyOwnTunnelsHit'
  BY DEF IInv, TypeOK, OnlyOwnTunnelsHit
<1>5. QED
  BY <1>1, <1>2, <1>3, <1>4 DEF IInv

\* A signal reaches the process that IdsAreKept says is there.
LEMMA HitKeeps ==
    ASSUME IInv, NEW c \in Calls, Kill(c) \/ Interrupt(c) PROVE IInv'
<1> USE ConstantsAssumption DEF Kill, Interrupt, Step, sessionVars
<1>1. pid[c] \in Pids /\ proc[pid[c]] = c
  BY DEF IInv, IdsAreKept, Holding
<1>2. signalled' = [signalled EXCEPT ![pid[c]] = c]
  BY <1>1 DEF Hit
<1>3. running' \subseteq running /\ UNCHANGED <<provider, cancelled, pid, session, excused, proc>>
  OBVIOUS
<1>4. TypeOK'
  BY <1>1, <1>2, <1>3 DEF IInv, TypeOK
<1>5. IdsAreKept'
  BY <1>3 DEF IInv, TypeOK, IdsAreKept, Holding
<1>6. SessionsKnown' /\ NoOrphanSession'
  BY <1>3 DEF IInv, TypeOK, SessionsKnown, NoOrphanSession
<1>7. OnlyOwnTunnelsHit'
  BY <1>1, <1>2, <1>3 DEF IInv, TypeOK, OnlyOwnTunnelsHit
<1>8. QED
  BY <1>4, <1>5, <1>6, <1>7 DEF IInv

LEMMA ReapKeeps == ASSUME IInv, NEW c \in Calls, Reap(c) PROVE IInv'
<1> USE ConstantsAssumption DEF Reap, Step, AfterFork, sessionVars
<1>1. pid[c] \in Pids /\ proc[pid[c]] = c /\ pid[c] \notin running
  BY DEF IInv, IdsAreKept, Holding
<1>2. UNCHANGED <<provider, cancelled, pid, session, excused, running>>
  OBVIOUS
<1>3. TypeOK'
  BY <1>1, <1>2 DEF IInv, TypeOK
<1>4. IdsAreKept'
  BY <1>1, <1>2 DEF IInv, TypeOK, IdsAreKept, Holding
<1>5. SessionsKnown' /\ NoOrphanSession'
  BY <1>2 DEF IInv, TypeOK, SessionsKnown, NoOrphanSession
<1>6. OnlyOwnTunnelsHit'
  BY <1>1 DEF IInv, TypeOK, OnlyOwnTunnelsHit
<1>7. QED
  BY <1>3, <1>4, <1>5, <1>6 DEF IInv

-----------------------------------------------------------------------------
(* Processes                                                               *)

\* A tunnel that ends under the provider leaves its id; another process that
\* ends takes none of the provider's.
LEMMA ExitKeeps == ASSUME IInv, NEW p \in Pids, Exit(p) PROVE IInv'
<1> USE ConstantsAssumption DEF Exit, Remains, callVars
<1>1. UNCHANGED <<provider, cancelled, pc, pid, excused>> /\ running' = running \ {p}
  OBVIOUS
<1>2. session' = session \/ (proc[p] \in SSM /\ session' = [session EXCEPT ![proc[p]] = "ended"])
  OBVIOUS
<1>3. session' \in [Calls -> {"none", "active", "ended"}]
      /\ \A c \in Calls : session'[c] = session[c] \/ (c \in SSM /\ session'[c] = "ended")
  BY <1>2 DEF IInv, TypeOK
<1>4. \/ UNCHANGED <<proc, signalled>>
      \/ /\ ~provider \/ proc[p] = Other
         /\ proc' = [proc EXCEPT ![p] = None]
         /\ signalled' = [signalled EXCEPT ![p] = None]
  OBVIOUS
<1>5. TypeOK'
  BY <1>1, <1>3, <1>4 DEF IInv, TypeOK
<1>6. IdsAreKept'
  BY <1>1, <1>4 DEF IInv, TypeOK, IdsAreKept, Holding
<1>7. SessionsKnown'
  <2>1. \A c \in Calls : session'[c] # session[c] => pc[c] \notin {"config", "session"}
    BY <1>2 DEF IInv, TypeOK, SessionsKnown
  <2>2. \A q \in Pids, c \in Calls : proc'[q] = c => proc[q] = c
    BY <1>4 DEF IInv, TypeOK
  <2>3. QED
    BY <1>1, <1>3, <2>1, <2>2 DEF IInv, SessionsKnown
<1>8. NoOrphanSession'
  BY <1>1, <1>3 DEF IInv, NoOrphanSession
<1>9. OnlyOwnTunnelsHit'
  BY <1>4 DEF IInv, TypeOK, OnlyOwnTunnelsHit
<1>10. QED
  BY <1>5, <1>6, <1>7, <1>8, <1>9 DEF IInv

LEMMA OtherKeeps == ASSUME IInv, NEW p \in Pids, OtherStarts(p) PROVE IInv'
<1> USE ConstantsAssumption DEF OtherStarts, callVars, sessionVars
<1>1. TypeOK'
  BY DEF IInv, TypeOK
<1>2. IdsAreKept'
  BY DEF IInv, TypeOK, IdsAreKept, Holding
<1>3. SessionsKnown' /\ NoOrphanSession'
  BY DEF IInv, TypeOK, SessionsKnown, NoOrphanSession
<1>4. OnlyOwnTunnelsHit'
  BY DEF IInv, TypeOK, OnlyOwnTunnelsHit
<1>5. QED
  BY <1>1, <1>2, <1>3, <1>4 DEF IInv

LEMMA ProviderKeeps == IInv /\ ProviderExits => IInv'
<1> SUFFICES ASSUME IInv, ProviderExits PROVE IInv'
  OBVIOUS
<1> USE ConstantsAssumption DEF ProviderExits, callVars, sessionVars
<1>1. TypeOK'
  BY DEF IInv, TypeOK
<1>2. IdsAreKept'
  BY DEF IdsAreKept
<1>3. SessionsKnown' /\ NoOrphanSession'
  BY DEF IInv, TypeOK, SessionsKnown, NoOrphanSession
<1>4. OnlyOwnTunnelsHit'
  BY DEF IInv, TypeOK, OnlyOwnTunnelsHit
<1>5. QED
  BY <1>1, <1>2, <1>3, <1>4 DEF IInv

LEMMA CancelKeeps == IInv /\ Cancel => IInv'
  BY DEF Cancel, callVars, sessionVars, procVars, IInv, TypeOK, IdsAreKept, SessionsKnown,
         OnlyOwnTunnelsHit, NoOrphanSession

LEMMA StutterKeeps == IInv /\ UNCHANGED vars => IInv'
  BY DEF IInv, vars, callVars, sessionVars, procVars, TypeOK, IdsAreKept, SessionsKnown,
         OnlyOwnTunnelsHit, NoOrphanSession

LEMMA NextKeeps == IInv /\ [Next]_vars => IInv'
<1> SUFFICES ASSUME IInv, [Next]_vars PROVE IInv'
  OBVIOUS
<1>1. CASE \E c \in Calls : Call(c) \/ Close(c)
  <2>1. PICK c \in Calls : Call(c) \/ Close(c)
    BY <1>1
  <2>2. CASE \E p \in Pids : Fork(c, p)
    BY <2>2, ForkKeeps
  <2>3. CASE Kill(c) \/ Interrupt(c)
    BY <2>3, HitKeeps
  <2>4. CASE Reap(c)
    BY <2>4, ReapKeeps
  <2>5. CASE StartSession(c) \/ StartSessionFails(c) \/ Terminate(c) \/ TerminateFails(c)
    BY <2>5, SessionKeeps
  <2>6. CASE Configure(c) \/ ConfigureFails(c) \/ ForkFails(c) \/ Forked(c)
               \/ Save(c) \/ SaveFails(c) \/ CloseFinds(c)
    BY <2>6, QuietKeeps
  <2>7. QED
    BY <2>1, <2>2, <2>3, <2>4, <2>5, <2>6 DEF Call, Close
<1>2. CASE \E p \in Pids : Exit(p)
  BY <1>2, ExitKeeps
<1>3. CASE (\E p \in Pids : OtherStarts(p)) \/ ProviderExits \/ Cancel
  BY <1>3, OtherKeeps, ProviderKeeps, CancelKeeps
<1>4. CASE UNCHANGED vars
  BY <1>4, StutterKeeps
<1>5. QED
  BY <1>1, <1>2, <1>3, <1>4 DEF Next

-----------------------------------------------------------------------------

\* The inductive invariant holds in every behaviour.
THEOREM Invariance == Spec => []IInv
  BY InitIInv, NextKeeps, PTL DEF Spec

\* The calls, sessions and processes are well typed.
THEOREM TypeCorrect == Spec => []TypeOK
<1>1. IInv => TypeOK
  BY DEF IInv
<1>2. QED
  BY <1>1, Invariance, PTL

\* No Close, and no failed fork, signals a process that is not its own tunnel,
\* however many ids there are and however they are used again.
THEOREM SignalsAreOwn == Spec => []OnlyOwnTunnelsHit
<1>1. IInv => OnlyOwnTunnelsHit
  BY DEF IInv
<1>2. QED
  BY <1>1, Invariance, PTL

\* A call that fails terminates its SSM session, or SSM's answer was lost.
THEOREM SessionsAreTerminated == Spec => []NoOrphanSession
<1>1. IInv => NoOrphanSession
  BY DEF IInv
<1>2. QED
  BY <1>1, Invariance, PTL
=============================================================================
