----------------------------- MODULE PartsProof -----------------------------
(***************************************************************************)
(* Proofs about the parts of a tunnel that run on their own: the fork that *)
(* starts its process, the dial that makes an SSH connection, and the relay *)
(* of one local connection.  Each has an inductive invariant of its own.   *)
(***************************************************************************)
EXTENDS ForkTunnel, SSHDial, Relay, TLAPS

-----------------------------------------------------------------------------
(* ForkTunnel, for any set of tunnels and any of them observed: readiness  *)
(* is a tunnel's own and a failed fork leaves nothing.                     *)

\* Where ForkTunnel is says what has become of the process it forks.
Offspring ==
    \A t \in Tunnels :
        /\ fork[t] \in {"prepare", "start"} => child[t] = "none"
        /\ fork[t] \in {"check", "stat", "kill", "ok"} => child[t] \in {"booting", "up", "zombie"}
        /\ fork[t] = "reap" => child[t] = "zombie"
        /\ fork[t] = "failed" => child[t] \in {"none", "reaped"}

\* Only a running tunnel holds the port.
HeldByRunning == \A t \in Tunnels : port = t => Running(t)

\* The marker of a tunnel that signals inline, and the decision to write it,
\* come after its listener.
Vouched ==
    \A t \in Tunnels \ Observed :
        signal[t] = "due" \/ t \in markers \/ fork[t] = "ok" => t \in hasBound

ForkIInv == ForkTypeOK /\ Offspring /\ HeldByRunning /\ Vouched

-----------------------------------------------------------------------------

LEMMA InitForkIInv == ForkInit => ForkIInv
<1> SUFFICES ASSUME ForkInit PROVE ForkIInv
  OBVIOUS
<1>1. ForkTypeOK
  BY DEF ForkInit, ForkTypeOK
<1>2. Offspring /\ Vouched
  BY DEF ForkInit, Offspring, Vouched
<1>3. HeldByRunning
  BY TunnelsAssumption DEF ForkInit, HeldByRunning
<1>4. QED
  BY <1>1, <1>2, <1>3 DEF ForkIInv

\* The provider's steps before the child exists and while it waits for it.
LEMMA WaitingKeeps ==
    ASSUME ForkIInv, NEW t \in Tunnels,
           \/ PrepareFails(t) \/ Prepare(t) \/ StartFails(t) \/ Start(t)
           \/ CheckAlive(t) \/ CheckDead(t)
           \/ StatFound(t) \/ StatMissing(t) \/ GiveUp(t)
    PROVE  ForkIInv'
<1> USE DEF ForkIInv, worldVars, childVars, portVars, Step
<1>1. ForkTypeOK'
  BY DEF ForkTypeOK, PrepareFails, Prepare, StartFails, Start, CheckAlive, CheckDead,
         StatFound, StatMissing, GiveUp
<1>2. Offspring' /\ HeldByRunning'
  BY DEF ForkTypeOK, Offspring, HeldByRunning, Running, PrepareFails, Prepare, StartFails,
         Start, CheckAlive, CheckDead, StatFound, StatMissing, GiveUp
<1>3. Vouched'
  BY DEF ForkTypeOK, Vouched, Path, PrepareFails, Prepare, StartFails,
         Start, CheckAlive, CheckDead, StatFound, StatMissing, GiveUp
<1>4. QED
  BY <1>1, <1>2, <1>3

\* The child is killed and reaped: its port is free before it is forgotten.
LEMMA KillingKeeps ==
    ASSUME ForkIInv, NEW t \in Tunnels, Kill(t) \/ Reap(t)
    PROVE  ForkIInv'
<1> USE DEF ForkIInv, worldVars, childVars, portVars, Step
<1>1. CASE Kill(t)
  BY <1>1, TunnelsAssumption
     DEF Kill, Release, ForkTypeOK, Offspring, HeldByRunning, Vouched, Running
<1>2. CASE Reap(t)
  BY <1>2 DEF Reap, ForkTypeOK, Offspring, HeldByRunning, Vouched, Running, Path
<1>3. QED
  BY <1>1, <1>2

\* The child's own steps, up to its end.
LEMMA ChildKeeps ==
    ASSUME ForkIInv, NEW t \in Tunnels, Child(t)
    PROVE  ForkIInv'
<1> USE DEF ForkIInv, worldVars, childVars, portVars
<1>1. CASE Watch(t)
  <2>1. ForkTypeOK' /\ Offspring'
    BY <1>1 DEF Watch, ForkTypeOK, Offspring
  <2>2. HeldByRunning' /\ Vouched'
    BY <1>1 DEF Watch, ForkTypeOK, HeldByRunning, Vouched, Running
  <2>3. QED
    BY <2>1, <2>2
<1>2. CASE WatchFires(t)
  BY <1>2 DEF WatchFires, ForkTypeOK, Offspring, HeldByRunning, Vouched, Running
<1>3. CASE Bind(t)
  BY <1>3, TunnelsAssumption
     DEF Bind, ForkTypeOK, Offspring, HeldByRunning, Vouched, Running
<1>4. CASE ObservePort(t) \/ ObserverFails(t)
  BY <1>4 DEF ObservePort, ObserverFails, ForkTypeOK, Offspring, HeldByRunning, Vouched, Running
<1>5. CASE Signal(t)
  BY <1>5 DEF Signal, Path, ForkTypeOK, Offspring, HeldByRunning, Vouched, Running
<1>6. CASE Exit(t)
  BY <1>6, TunnelsAssumption
     DEF Exit, Release, ForkTypeOK, Offspring, HeldByRunning, Vouched, Running
<1>7. QED
  BY <1>1, <1>2, <1>3, <1>4, <1>5, <1>6 DEF Child

\* Every step keeps the inductive invariant.
LEMMA NextForkIInv == ForkIInv /\ [ForkNext]_forkVars => ForkIInv'
<1> SUFFICES ASSUME ForkIInv, [ForkNext]_forkVars PROVE ForkIInv'
  OBVIOUS
<1>1. ASSUME NEW t \in Tunnels, Forking(t) PROVE ForkIInv'
  BY <1>1, WaitingKeeps, KillingKeeps DEF Forking
<1>2. ASSUME NEW t \in Tunnels, Close(t) PROVE ForkIInv'
  BY <1>2 DEF Close, ForkIInv, worldVars, portVars, ForkTypeOK, Offspring, HeldByRunning,
              Vouched, Running
<1>3. ASSUME NEW t \in Tunnels, Child(t) PROVE ForkIInv'
  BY <1>3, ChildKeeps
<1>4. CASE TerraformExits \/ ProviderExits \/ Cancel
  BY <1>4 DEF TerraformExits, ProviderExits, Cancel, ForkIInv, childVars, portVars, ForkTypeOK,
              Offspring, HeldByRunning, Vouched, Running
<1>5. CASE OtherListens
  BY <1>5, TunnelsAssumption
     DEF OtherListens, ForkIInv, worldVars, childVars, ForkTypeOK, Offspring, HeldByRunning,
         Vouched, Running
<1>6. CASE UNCHANGED forkVars
  BY <1>6 DEF forkVars, ForkIInv, worldVars, childVars, portVars, ForkTypeOK, Offspring,
              HeldByRunning, Vouched, Running
<1>7. QED
  BY <1>1, <1>2, <1>3, <1>4, <1>5, <1>6 DEF ForkNext

LEMMA ForkInvariance == ForkSpec => []ForkIInv
  BY InitForkIInv, NextForkIInv, PTL DEF ForkSpec

-----------------------------------------------------------------------------

\* Every reachable state of the forks and their children is well typed.
THEOREM ForkTypeCorrect == ForkSpec => []ForkTypeOK
<1>1. ForkIInv => ForkTypeOK
  BY DEF ForkIInv
<1>2. QED
  BY <1>1, ForkInvariance, PTL

\* A fork that succeeds for a tunnel that signals inline has waited for that
\* very tunnel's listener, however many forks and strangers race for the port.
THEOREM ReadinessIsOwn == ForkSpec => []ReadyMeansServing
<1>1. ForkIInv => ReadyMeansServing
  BY DEF ForkIInv, Vouched, ReadyMeansServing
<1>2. QED
  BY <1>1, ForkInvariance, PTL

\* A fork that fails leaves no process and does not hold the port.
THEOREM FailureIsClean == ForkSpec => []FailedLeavesNothing
<1>1. ForkIInv => FailedLeavesNothing
  BY DEF ForkIInv, Offspring, HeldByRunning, Running, FailedLeavesNothing
<1>2. QED
  BY <1>1, ForkInvariance, PTL

-----------------------------------------------------------------------------
(* SSHDial, for any keys: what dialSSH leaves behind, and what the server  *)
(* is shown.  The transport and the credentials do not meet, so each has   *)
(* an inductive invariant of its own.                                      *)

\* NewClientConn runs.
InHandshake == pc \in {"kex", "choose", "list", "offer", "ack", "sign", "answer"}

\* A source of keys is in use.
Asking == pc \in {"offer", "ack", "sign", "answer"} /\ source # "password"

-----------------------------------------------------------------------------
(* The transport                                                           *)

\* Nobody but the hook and Check close the transport, and the hook only when
\* the context is done.
Transport ==
    /\ hook \in {"unset", "armed", "running", "done", "stopped"}
    /\ hook \in {"running", "done"} => ctx = "done"
    /\ pc \in {"config", "dial"} => sock = "none" /\ hook = "unset"
    /\ pc = "arm" => sock = "open" /\ hook = "unset"
    /\ InHandshake \/ pc = "stop" => hook \in {"armed", "running", "done"}
    /\ pc = "check" => hook \in {"stopped", "done"}
    /\ InHandshake \/ pc \in {"stop", "check"} => hook = "done" \/ sock = "open"
    /\ pc \in {"stop", "check"} => result \in {"client", "error"}
    /\ pc \in {"return", "returned"} =>
          IF result = "client" THEN sock = "open" /\ hook = "stopped"
                               ELSE sock # "open" /\ hook \in {"unset", "stopped", "done"}

\* The handshake leaves the transport to others, and ends in "stop".
LEMMA HandshakeKeepsTransport ==
    ASSUME Transport, Handshake
    PROVE  Transport'
<1>1. UNCHANGED <<sock, ctx, hook>> /\ InHandshake
  BY DEF Handshake, Exchange, NoMethodLeft, NoKeyLeft, Sign, Agent, List, ListFails,
         AgentSigns, AgentSignFails, Choose, Offer, Acknowledged, NotAcknowledged,
         Accepted, Rejected, TransportFails, MethodFails, MethodErrs, Concludes, auth, link, InHandshake
<1>2. InHandshake' \/ (pc' = "stop" /\ result' \in {"client", "error"})
  BY DEF Handshake, Exchange, NoMethodLeft, NoKeyLeft, Sign, Agent, List, ListFails,
         AgentSigns, AgentSignFails, Choose, Offer, Acknowledged, NotAcknowledged,
         Accepted, Rejected, TransportFails, MethodFails, MethodErrs, Concludes, InHandshake
<1>3. QED
  BY <1>1, <1>2 DEF Transport, InHandshake

LEMMA NextTransport == Transport /\ [DialNext]_dialVars => Transport'
<1> SUFFICES ASSUME Transport, [DialNext]_dialVars PROVE Transport'
  OBVIOUS
<1> USE DEF Transport, InHandshake, link
<1>1. CASE ConfigFails \/ Configure
  BY <1>1 DEF ConfigFails, Configure
<1>2. CASE Connect \/ ConnectFails \/ Arm
  BY <1>2 DEF Connect, ConnectFails, Arm
<1>3. CASE Handshake
  BY <1>3, HandshakeKeepsTransport
<1>4. CASE StopClose
  BY <1>4 DEF StopClose
<1>5. CASE Check
  BY <1>5 DEF Check
<1>6. CASE Return
  BY <1>6 DEF Return
<1>7. CASE HookFires \/ HookCloses
  BY <1>7 DEF HookFires, HookCloses
<1>8. CASE ContextEnds \/ AgentChanges
  BY <1>8 DEF ContextEnds, AgentChanges
<1>9. CASE UNCHANGED dialVars
  BY <1>9 DEF dialVars
<1>10. QED
  BY <1>1, <1>2, <1>3, <1>4, <1>5, <1>6, <1>7, <1>8, <1>9 DEF DialNext

\* dialSSH returns a client whose transport nothing will close behind its
\* back, or leaves no transport open, whenever its context ends.
THEOREM DialIsClean == DialSpec => []OutcomeIsClean
<1>1. DialInit => Transport
  BY DEF DialInit, Transport, InHandshake
<1>2. Transport => OutcomeIsClean
  BY DEF Transport, OutcomeIsClean
<1>3. QED
  BY <1>1, <1>2, NextTransport, PTL DEF DialSpec

-----------------------------------------------------------------------------
(* The credentials                                                         *)

AllCreds == Keys \cup {Secret}

CredTypes ==
    /\ creds \in [Sources -> SUBSET AllCreds]
    /\ \A s \in Sources : creds[s] \subseteq IF s = "password" THEN {Secret} ELSE Keys
    /\ methods \subseteq Sources
    /\ tried \subseteq {"publickey", "password"}
    /\ left \subseteq Keys
    /\ shown \subseteq Sources \X AllCreds
    /\ cause \in {"none", "agent", "exhausted"}

\* The sources in use are those authMethods allows.
Allowed ==
    /\ pc = "config" => methods = {} /\ tried = {}
    /\ \A s \in methods : s \in Explicit \/ \A r \in Explicit : creds[r] = {}
    /\ \A s \in methods \cap Explicit : creds[s] # {}

\* The source in use, and what is left of its keys.
InUse ==
    /\ pc \in {"list", "offer", "ack", "sign", "answer"} =>
          source \in methods /\ Name(source) \notin tried
    /\ pc = "list" => source = "agent"
    /\ pc \in {"offer", "ack", "sign"} => source # "password"
    /\ pc = "list" \/ Asking => source # "agent" \/ "home" \notin methods
    /\ pc = "answer" /\ source = "password" => <<"password", Secret>> \in shown
    /\ Asking => left \subseteq creds[source]
    /\ Asking => \A c \in creds[source] \ left : <<source, c>> \in shown

\* No key is shown before a source of keys is in use.
Unshown ==
    "publickey" \notin tried /\ ~Asking /\ pc \notin {"stop", "check", "return", "returned"}
        => \A s \in Sources, c \in AllCreds : <<s, c>> \in shown => s = "password"

\* A method name that has failed has shown what its first source had.
AllShown(s) == \A c \in creds[s] : <<s, c>> \in shown

Exhausted ==
    /\ \A s \in methods : Name(s) \in tried =>
          AllShown(s) \/ (s = "agent" /\ "home" \in methods) \/ cause = "agent"
    /\ cause = "exhausted" =>
          /\ pc \in {"stop", "check", "return", "returned"}
          /\ \A s \in methods : Name(s) \in advertised => Name(s) \in tried

Credentials ==
    CredTypes /\ Allowed /\ OnlyConfiguredShown /\ InUse /\ Unshown /\ Exhausted

USE DEF Explicit, Name

LEMMA SourcesAre == Sources = {"key", "password", "home", "agent"}
  BY DEF Sources, Rank

LEMMA InitCredentials == DialInit => Credentials
<1> SUFFICES ASSUME DialInit PROVE Credentials
  OBVIOUS
<1>1. PICK p \in {{}, {Secret}}, h \in SUBSET Keys :
         creds = [key |-> {sshKey} \cap Keys, password |-> p, home |-> h, agent |-> {}]
  BY DEF DialInit
<1>2. CredTypes
  BY <1>1, SourcesAre DEF DialInit, CredTypes, AllCreds
<1>3. Allowed /\ OnlyConfiguredShown /\ InUse /\ Unshown /\ Exhausted
  BY DEF DialInit, Allowed, OnlyConfiguredShown, InUse, Unshown, Exhausted, Asking
<1>4. QED
  BY <1>2, <1>3 DEF Credentials

\* clientConfig settles what may be shown.
LEMMA ConfigKeeps ==
    ASSUME Credentials, ConfigFails \/ Configure
    PROVE  Credentials'
<1> USE DEF Credentials, CredTypes, Allowed, OnlyConfiguredShown, InUse, Unshown, Exhausted,
            AllShown, Asking, auth, config, world
<1>1. CASE ConfigFails
  BY <1>1 DEF ConfigFails
<1>2. CASE Configure
  <2>1. AuthMethods \subseteq Sources /\ (\A s \in AuthMethods : s \in Explicit =>  creds[s] # {})
          /\ \A s \in AuthMethods : s \in Explicit \/ \A r \in Explicit : creds[r] = {}
    BY SourcesAre DEF AuthMethods
  <2>2. QED
    BY <1>2, <2>1 DEF Configure
<1>3. QED
  BY <1>1, <1>2

\* Choosing a method: the first source of a name not yet tried.
LEMMA ChooseKeeps ==
    ASSUME Credentials, NEW s \in Sources, Choose(s)
    PROVE  Credentials'
<1> USE DEF Credentials, CredTypes
<1>1. s \in methods /\ Name(s) \notin tried /\ Name(s) \in advertised
  BY DEF Choose, Candidates
<1>2. s = "agent" => "home" \notin methods
  <2>1. ~(Rank["agent"] <= Rank["home"])
    BY DEF Rank
  <2>2. "home" \in methods /\ s = "agent" => "home" \in Candidates
    BY <1>1 DEF Candidates
  <2>3. QED
    BY <2>1, <2>2 DEF Choose
<1>3. CredTypes'
  BY SourcesAre DEF Choose, AllCreds, config, world, link
<1>4. Allowed' /\ Exhausted'
  BY DEF Choose, Allowed, Exhausted, AllShown, config, world, link
<1>5. OnlyConfiguredShown'
  BY <1>1 DEF Choose, Allowed, OnlyConfiguredShown, AllCreds, config, world, link
<1>6. InUse'
  BY <1>1, <1>2, SourcesAre DEF Choose, InUse, Asking, config, world, link
<1>7. Unshown'
  BY DEF Choose, Unshown, Asking, AllCreds, config, world, link
<1>8. QED
  BY <1>3, <1>4, <1>5, <1>6, <1>7

\* A key is offered: it is one of the source's.
LEMMA OfferKeeps ==
    ASSUME Credentials, NEW k \in Keys, Offer(k)
    PROVE  Credentials'
<1> USE DEF Credentials, CredTypes
<1>1. Asking /\ source \in methods /\ k \in creds[source]
  BY DEF Offer, InUse, Asking
<1>2. CredTypes'
  BY <1>1 DEF Offer, AllCreds, config, world, link
<1>3. Allowed' /\ Exhausted'
  BY DEF Offer, Allowed, Exhausted, AllShown, config, world, link
<1>4. OnlyConfiguredShown'
  BY <1>1 DEF Offer, Allowed, OnlyConfiguredShown, config, world, link
<1>5. InUse' /\ Unshown'
  BY <1>1 DEF Offer, InUse, Unshown, Asking, config, world, link
<1>6. QED
  BY <1>2, <1>3, <1>4, <1>5

\* The source in use has nothing left to show, or has failed with an error.
LEMMA FailureKeeps ==
    ASSUME Credentials,
           pc \in {"list", "offer", "ack", "sign", "answer"},
           \/ MethodFails /\ (source = "password" \/ (pc = "offer" /\ left = {}))
           \/ MethodErrs
    PROVE  Credentials'
<1> USE DEF Credentials, CredTypes
<1>1. source \in methods
  BY DEF InUse
<1>2. UNCHANGED <<config, world, source, left, shown, link, result>> /\ pc' = "choose"
        /\ tried' = tried \cup {Name(source)}
        /\ cause' \in {cause, "agent"} /\ (MethodFails \/ cause' = "agent")
  BY DEF MethodFails, MethodErrs
<1>3. cause # "exhausted"
  BY DEF Exhausted
<1>4. CredTypes' /\ Allowed' /\ OnlyConfiguredShown' /\ InUse'
  BY <1>2 DEF Allowed, OnlyConfiguredShown, InUse, Asking, config, world, link
<1>5. Unshown'
  BY <1>1, <1>2, SourcesAre DEF InUse, Unshown, Asking, config, world, link
<1>6. ASSUME NEW s \in methods, Name(s) = Name(source), cause' # "agent"
      PROVE  AllShown(s) \/ (s = "agent" /\ "home" \in methods)
  <2>1. MethodFails
    BY <1>2, <1>6
  <2>2. CASE source = "password"
    <3>1. s = "password" /\ <<"password", Secret>> \in shown
      BY <1>6, <2>2, SourcesAre DEF InUse
    <3>2. QED
      BY <3>1 DEF AllShown
  <2>3. CASE source # "password" /\ pc = "offer" /\ left = {}
    <3>1. AllShown(source) /\ (source = "agent" => "home" \notin methods)
      BY <2>3 DEF InUse, Asking, AllShown
    <3>2. "key" \in methods => methods \cap {"home", "agent"} = {}
      BY DEF Allowed
    <3>3. s \in {"key", "home", "agent"} /\ source \in {"key", "home", "agent"}
      BY <1>1, <1>6, <2>3, SourcesAre
    <3>4. QED
      BY <1>1, <3>1, <3>2, <3>3
  <2>4. QED
    BY <1>6, <2>2, <2>3 DEF MethodErrs
<1>7. Exhausted'
  BY <1>2, <1>3, <1>6 DEF Exhausted, AllShown, config, world, link
<1>8. QED
  BY <1>4, <1>5, <1>7

\* The agent's list: its keys are new, and none of them has been shown.
LEMMA ListKeeps ==
    ASSUME Credentials, List
    PROVE  Credentials'
<1> USE DEF Credentials, CredTypes
<1>1. source = "agent" /\ source \in methods /\ "publickey" \notin tried
  BY DEF List, InUse
<1>2. PICK held \in SUBSET Keys : left' = held /\ creds' = [creds EXCEPT !["agent"] = held]
  BY DEF List
<1>3. UNCHANGED <<sshKey, methods, world, tried, source, shown, cause, link, result>>
        /\ pc = "list" /\ pc' = "offer"
  BY DEF List
<1>4. \A s \in Sources, c \in AllCreds : <<s, c>> \in shown => s = "password"
  BY <1>1, <1>3 DEF Unshown, Asking
<1>5. \A s \in Sources : s # "agent" => creds'[s] = creds[s]
  BY <1>2
<1>6. CredTypes'
  BY <1>2, <1>3, SourcesAre DEF AllCreds, world
<1>7. Allowed'
  BY <1>1, <1>3, <1>5, SourcesAre DEF Allowed, world
<1>8. OnlyConfiguredShown'
  BY <1>3, <1>4, <1>5, SourcesAre DEF OnlyConfiguredShown, AllCreds
<1>9. InUse' /\ Unshown'
  BY <1>1, <1>2, <1>3, SourcesAre DEF InUse, Unshown, Asking
<1>10. Exhausted'
  <2>1. \A s \in methods : Name(s) \in tried => s # "agent"
    BY <1>1
  <2>2. QED
    BY <1>1, <1>3, <1>5, <2>1, SourcesAre DEF Exhausted, AllShown, world
<1>11. QED
  BY <1>6, <1>7, <1>8, <1>9, <1>10

\* The rest of the handshake, and giving up when no method is left.
LEMMA HandshakeKeeps ==
    ASSUME Credentials, Handshake
    PROVE  Credentials'
<1> USE DEF Credentials, CredTypes
<1>1. CASE NoMethodLeft
  <2>1. \A s \in methods : Name(s) \in advertised => Name(s) \in tried
    BY <1>1 DEF NoMethodLeft, Candidates
  <2>2. QED
    BY <1>1, <2>1 DEF NoMethodLeft, Concludes, Allowed, OnlyConfiguredShown, InUse, Unshown,
                      Exhausted, AllShown, Asking, config, world
<1>2. CASE Exchange \/ Acknowledged \/ NotAcknowledged \/ Sign \/ Accepted \/ TransportFails \/ AgentSigns
            \/ (Rejected /\ source # "password")
  <2>1. UNCHANGED <<config, world, auth>> /\ (Asking' => Asking)
          /\ pc \in {"kex", "offer", "ack", "sign", "answer"}
          /\ pc' \in {"stop", "choose", "offer", "sign", "answer"}
          /\ (pc' \in {"offer", "sign", "answer"} => Asking)
          /\ (pc' = "choose" => pc = "kex")
    BY <1>2 DEF Exchange, Acknowledged, NotAcknowledged, Sign, Accepted, TransportFails, AgentSigns,
                Rejected, Concludes, Asking, InUse, auth
  <2>2. CredTypes' /\ Allowed' /\ OnlyConfiguredShown' /\ Exhausted'
    BY <2>1 DEF Allowed, OnlyConfiguredShown, Exhausted, AllShown, config, world, auth
  <2>3. InUse' /\ Unshown'
    BY <2>1 DEF InUse, Unshown, Asking, config, world, auth
  <2>4. QED
    BY <2>2, <2>3
<1>3. CASE NoKeyLeft \/ ListFails \/ AgentSignFails \/ (Rejected /\ source = "password")
  BY <1>3, FailureKeeps DEF NoKeyLeft, ListFails, AgentSignFails, Rejected
<1>4. QED
  BY <1>1, <1>2, <1>3, ListKeeps, ChooseKeeps, OfferKeeps DEF Handshake, Agent

\* Outside the handshake nothing is shown.
LEMMA NextCredentials == Credentials /\ [DialNext]_dialVars => Credentials'
<1> SUFFICES ASSUME Credentials, [DialNext]_dialVars PROVE Credentials'
  OBVIOUS
<1>1. CASE Connect \/ ConnectFails \/ Arm \/ StopClose \/ Check \/ Return
             \/ HookFires \/ HookCloses \/ ContextEnds \/ AgentChanges \/ UNCHANGED dialVars
  <2>1. UNCHANGED <<config, advertised, auth>> /\ (pc' = pc \/ pc' \in {"arm", "kex", "check", "return", "returned"})
          /\ (pc' \in {"arm", "kex"} /\ pc' # pc => pc \in {"dial", "arm"})
          /\ (pc' # pc => pc \in {"dial", "arm", "stop", "check", "return"})
    BY <1>1 DEF Connect, ConnectFails, Arm, StopClose, Check, Return, HookFires, HookCloses,
                ContextEnds, AgentChanges, dialVars, world, link
  <2>2. CredTypes' /\ Allowed' /\ OnlyConfiguredShown' /\ Exhausted'
    BY <2>1 DEF Credentials, CredTypes, Allowed, OnlyConfiguredShown, Exhausted, AllShown,
                config, auth
  <2>3. InUse' /\ Unshown'
    BY <2>1 DEF Credentials, CredTypes, InUse, Unshown, Asking, config, auth
  <2>4. QED
    BY <2>2, <2>3 DEF Credentials
<1>2. QED
  BY <1>1, ConfigKeeps, HandshakeKeeps DEF DialNext

LEMMA CredentialsAlways == DialSpec => []Credentials
  BY InitCredentials, NextCredentials, PTL DEF DialSpec

\* No key of ~/.ssh or of an agent is shown when credentials are configured,
\* for any keys and any server.
THEOREM NothingElseShown == DialSpec => []OnlyConfiguredShown
<1>1. Credentials => OnlyConfiguredShown
  BY DEF Credentials
<1>2. QED
  BY <1>1, CredentialsAlways, PTL

\* A bastion that runs out of methods has been shown every credential it may
\* have taken, the agent's behind a home key excepted.
THEOREM NothingWithheld == DialSpec => []EveryCredentialShown
<1>1. Credentials => EveryCredentialShown
  BY DEF Credentials, Exhausted, AllShown, EveryCredentialShown
<1>2. QED
  BY <1>1, CredentialsAlways, PTL

-----------------------------------------------------------------------------
(* Relay, for any number of writes: what is delivered and what an end of   *)
(* file means.                                                            *)

\* A copy has at most one write in its hands.
InHand ==
    \A s \in Ends :
        /\ pipe[s] = "read" => got[Far(s)] = read[s]
        /\ pipe[s] = "write" => got[Far(s)] + 1 = read[s]

\* The far end of s has sent its last, and all of it has arrived.
Delivered(s) == fin[s] # "open" /\ got[Far(s)] = sent[s]

\* What a copy knows when it passes the end of file on, and what stays true.
Ended ==
    \A s \in Ends :
        /\ pipe[s] = "half" \/ Far(s) \in eof => Delivered(s) \/ (s = "b" /\ Broken(s))
        /\ Far(s) \in eof => pipe[s] = "done"

\* Over SSH, with both transports up and the server not closed, a copy ends
\* only by delivering all, and closing is the last thing that happens.
Calm == kind = "ssh" /\ ~outside /\ \A s \in Ends : fin[s] # "reset"

Graceful ==
    Calm =>
        /\ \A s \in Ends :
              /\ pipe[s] # "fail"
              /\ pipe[s] \in {"half", "done"} => fin[s] = "eof" /\ got[Far(s)] = sent[s]
        /\ closed # {} => \A s \in Ends : pipe[s] = "done"

RelayIInv == RelayTypeOK /\ InHand /\ Ended /\ Graceful

-----------------------------------------------------------------------------

LEMMA InitRelayIInv == RelayInit => RelayIInv
<1> SUFFICES ASSUME RelayInit PROVE RelayIInv
  OBVIOUS
<1>1. RelayTypeOK
  <2>1. 0 \in 0..MaxData
    BY MaxDataAssumption
  <2>2. \A s \in Ends : sent[s] = 0 /\ read[s] = 0 /\ got[Far(s)] = 0
    BY DEF RelayInit, Ends, Far
  <2>3. /\ sent \in [Ends -> 0..MaxData]
        /\ read \in [Ends -> 0..MaxData] /\ got \in [Ends -> 0..MaxData]
    BY <2>1 DEF RelayInit
  <2>4. /\ fin \in [Ends -> {"open", "eof", "reset"}]
        /\ pipe \in [Ends -> {"read", "write", "half", "fail", "done"}]
    BY DEF RelayInit
  <2>5. \A s \in Ends : got[Far(s)] <= read[s] /\ read[s] <= sent[s]
    BY <2>2
  <2>6. /\ kind \in {"ssh", "bastion"} /\ main \in {"piping", "drained", "returned"}
        /\ stuck \subseteq Ends /\ eof \subseteq Ends /\ closed \subseteq Ends
        /\ outside \in BOOLEAN
    BY DEF RelayInit
  <2>7. QED
    BY <2>3, <2>4, <2>5, <2>6 DEF RelayTypeOK
<1>2. InHand /\ Ended /\ Graceful
  BY DEF RelayInit, InHand, Ended, Graceful, Ends, Far
<1>3. QED
  BY <1>1, <1>2 DEF RelayIInv

\* Every step of a copy keeps the inductive invariant.
LEMMA PipeKeeps ==
    ASSUME RelayIInv, NEW s \in Ends, Pipe(s)
    PROVE  RelayIInv'
<1> USE MaxDataAssumption DEF RelayIInv, farVars, ourVars, Ends, Far, Goto, Broken, Delivered
<1>1. CASE Read(s)
  BY <1>1 DEF Read, RelayTypeOK, InHand, Ended, Graceful, Calm
<1>2. CASE ReadEnd(s)
  <2>1. RelayTypeOK' /\ InHand'
    BY <1>2 DEF ReadEnd, RelayTypeOK, InHand
  <2>2. Ended'
    BY <1>2 DEF ReadEnd, RelayTypeOK, InHand, Ended
  <2>3. Graceful'
    BY <1>2 DEF ReadEnd, RelayTypeOK, InHand, Graceful, Calm
  <2>4. QED
    BY <2>1, <2>2, <2>3
<1>3. CASE Write(s)
  <2>1. RelayTypeOK' /\ InHand'
    BY <1>3 DEF Write, RelayTypeOK, InHand
  <2>2. Ended' /\ Graceful'
    BY <1>3 DEF Write, RelayTypeOK, InHand, Ended, Graceful, Calm
  <2>3. QED
    BY <2>1, <2>2
<1>4. CASE WriteErr(s)
  BY <1>4 DEF WriteErr, RelayTypeOK, InHand, Ended, Graceful, Calm
<1>5. CASE End(s)
  <2>1. RelayTypeOK' /\ InHand'
    BY <1>5 DEF End, RelayTypeOK, InHand
  <2>2. Ended'
    BY <1>5 DEF End, RelayTypeOK, InHand, Ended
  <2>3. Graceful'
    BY <1>5 DEF End, RelayTypeOK, Graceful, Calm
  <2>4. QED
    BY <2>1, <2>2, <2>3
<1>6. CASE Fail(s)
  BY <1>6 DEF Fail, RelayTypeOK, InHand, Ended, Graceful, Calm
<1>7. QED
  BY <1>1, <1>2, <1>3, <1>4, <1>5, <1>6 DEF Pipe

\* So do RelayDrain's last steps.
LEMMA DrainKeeps ==
    ASSUME RelayIInv, Expire \/ CloseBoth
    PROVE  RelayIInv'
<1> USE DEF RelayIInv, farVars, Ends, Far, Broken, Delivered
<1>1. CASE Expire
  BY <1>1 DEF Expire, RelayTypeOK, InHand, Ended, Graceful, Calm
<1>2. CASE CloseBoth
  BY <1>2 DEF CloseBoth, RelayTypeOK, InHand, Ended, Graceful, Calm
<1>3. QED
  BY <1>1, <1>2

\* So do the far ends, whatever they do, and the server.
LEMMA OutsideKeeps ==
    ASSUME RelayIInv, NEW s \in Ends,
           Send(s) \/ Finish(s) \/ Reset(s) \/ StopReading(s) \/ ServerCloses
    PROVE  RelayIInv'
<1> USE MaxDataAssumption DEF RelayIInv, ourVars, Ends, Far, Broken, Delivered
<1>1. CASE Send(s)
  BY <1>1 DEF Send, RelayTypeOK, InHand, Ended, Graceful, Calm
<1>2. CASE Finish(s)
  BY <1>2 DEF Finish, RelayTypeOK, InHand, Ended, Graceful, Calm
<1>3. CASE Reset(s)
  <2>1. ~Calm'
    BY <1>3 DEF Reset, RelayTypeOK, Calm
  <2>2. RelayTypeOK' /\ InHand' /\ Ended'
    BY <1>3 DEF Reset, RelayTypeOK, InHand, Ended
  <2>3. QED
    BY <2>1, <2>2 DEF Graceful
<1>4. CASE StopReading(s)
  BY <1>4 DEF StopReading, RelayTypeOK, InHand, Ended, Graceful, Calm
<1>5. CASE ServerCloses
  BY <1>5 DEF ServerCloses, RelayTypeOK, InHand, Ended, Graceful, Calm
<1>6. QED
  BY <1>1, <1>2, <1>3, <1>4, <1>5

LEMMA NextRelayIInv == RelayIInv /\ [RelayNext]_relayVars => RelayIInv'
<1> SUFFICES ASSUME RelayIInv, [RelayNext]_relayVars PROVE RelayIInv'
  OBVIOUS
<1>1. ASSUME NEW s \in Ends, Pipe(s) PROVE RelayIInv'
  BY <1>1, PipeKeeps
<1>2. CASE Expire \/ CloseBoth
  BY <1>2, DrainKeeps
<1>3. ASSUME NEW s \in Ends,
             Send(s) \/ Finish(s) \/ Reset(s) \/ StopReading(s)
      PROVE  RelayIInv'
  BY <1>3, OutsideKeeps
<1>4. CASE ServerCloses
  BY <1>4, OutsideKeeps DEF Ends
<1>5. CASE UNCHANGED relayVars
  BY <1>5 DEF relayVars, farVars, ourVars, RelayIInv, RelayTypeOK, InHand, Ended, Graceful, Calm,
              Ends, Far, Broken, Delivered
<1>6. QED
  BY <1>1, <1>2, <1>3, <1>4, <1>5 DEF RelayNext

LEMMA RelayInvariance == RelaySpec => []RelayIInv
  BY InitRelayIInv, NextRelayIInv, PTL DEF RelaySpec

-----------------------------------------------------------------------------

\* Types, and no write is delivered that was not read, or read that was not
\* sent, for any number of writes.
THEOREM NothingInvented == RelaySpec => []RelayTypeOK
<1>1. RelayIInv => RelayTypeOK
  BY DEF RelayIInv
<1>2. QED
  BY <1>1, RelayInvariance, PTL

\* Over SSH nothing is closed before both directions have delivered all, as
\* long as no transport breaks and the server is not closed.
THEOREM HalfClosePreserved == RelaySpec => []GracefulDelivery
<1>1. RelayIInv => GracefulDelivery
  BY DEF RelayIInv, Graceful, Calm, GracefulDelivery, Ends, Far
<1>2. QED
  BY <1>1, RelayInvariance, PTL

\* An end of file that reaches a far end says that all has been delivered,
\* unless it stands for a broken b.
THEOREM EndOfFileIsHonest == RelaySpec => []EofIsHonest
<1>1. RelayIInv => EofIsHonest
  BY DEF RelayIInv, Ended, Delivered, EofIsHonest
<1>2. QED
  BY <1>1, RelayInvariance, PTL
=============================================================================
