------------------------------- MODULE SSHDial -------------------------------
(***************************************************************************)
(* One SSH connection of a tunnel: the credentials clientConfig chooses    *)
(* (internal/ssh/auth.go), then dialSSH (internal/ssh/client.go), whose    *)
(* context closes the transport from a goroutine of its own while the      *)
(* handshake tries the credentials one after the other.  The ssh-agent is  *)
(* dialled anew for its list and for each signature, and may have changed  *)
(* in between.                                                             *)
(*                                                                         *)
(* The handshake is golang.org/x/crypto/ssh's, modelled by what dialSSH    *)
(* and authMethods rely on: one source of credentials is tried for each    *)
(* of SSH's method names, and only for the names the server takes.         *)
(***************************************************************************)
EXTENDS Naturals

CONSTANTS
    Keys,       \* the key pairs
    Secret,     \* the password
    Bad,        \* an ssh_key that cannot be read, decrypted or parsed
    None        \* not set

ASSUME KeysAssumption == Secret \notin Keys /\ {None, Bad} \cap (Keys \cup {Secret}) = {}

VARIABLES
    sshKey,     \* TunnelConfig.SSHKey
    methods,    \* the sources of ClientConfig.Auth
    creds,      \* creds[s]: the credentials source s has yielded
    agent,      \* the ssh-agent: "serving", "gone", or "silent" for ever
    advertised, \* the method names the server takes
    tried,      \* the method names that have failed
    source,     \* the source in use
    left,       \* its keys not yet offered
    shown,      \* what the server was offered: pairs of a source and a credential
    cause,      \* what it remembers of its failure: "agent", "exhausted" (history)
    sock,       \* the transport, this side of it
    ctx,        \* connectCtx: "live" or "done"
    hook,       \* the AfterFunc that closes the transport
    pc,         \* where clientConfig or dialSSH is
    result      \* what NewClientConn gave, then what dialSSH returns

config == <<sshKey, methods, creds>>
world  == <<agent, advertised>>
auth   == <<tried, source, left, shown, cause>>
link   == <<sock, ctx, hook>>
dialVars   == <<config, world, auth, link, pc, result>>

\* In the order they are tried.
Rank == [key |-> 1, password |-> 2, home |-> 3, agent |-> 4]
Sources == DOMAIN Rank
Explicit == {"key", "password"}
Name(s) == IF s = "password" THEN "password" ELSE "publickey"

DialInit ==
    /\ sshKey \in Keys \cup {None, Bad}
    /\ methods = {}
    /\ \E p \in {{}, {Secret}}, h \in SUBSET Keys :
          creds = [key |-> {sshKey} \cap Keys, password |-> p, home |-> h, agent |-> {}]
    /\ agent \in {"serving", "gone", "silent"}
    /\ advertised \in SUBSET {"publickey", "password"}
    /\ tried = {} /\ source = None /\ left = {}
    /\ shown = {} /\ cause = "none"
    /\ sock = "none" /\ ctx = "live" /\ hook = "unset"
    /\ pc = "config" /\ result = "pending"

-----------------------------------------------------------------------------
(* clientConfig                                                            *)

\* Mutation: the implicit credentials follow the explicit ones.
AllSources ==
    {s \in Sources : creds[s] # {} \/ (s = "agent" /\ agent # "gone")}

\* authMethods: configured credentials exclude the others.  The agent counts
\* when its socket can be dialled; home keys that cannot be used do not.
AuthMethods ==
    LET given == {s \in Explicit : creds[s] # {}}
        implicit == {s \in {"home"} : creds[s] # {}}
                        \cup {s \in {"agent"} : agent # "gone"}
    IN  IF given # {} THEN given ELSE implicit

\* A configured key that does not parse is an error, password or not.
ConfigFails ==
    /\ pc = "config"
    /\ sshKey = Bad \/ AuthMethods = {}
    /\ result' = "error"
    /\ pc' = "returned"
    /\ UNCHANGED <<config, world, auth, link>>

Configure ==
    /\ pc = "config"
    /\ sshKey # Bad /\ AuthMethods # {}
    /\ methods' = AuthMethods
    /\ pc' = "dial"
    /\ UNCHANGED <<sshKey, creds, world, auth, link, result>>

-----------------------------------------------------------------------------
(* dialSSH, up to the handshake                                            *)

Connect ==
    /\ pc = "dial"
    /\ sock' = "open"
    /\ pc' = "arm"
    /\ UNCHANGED <<config, world, auth, ctx, hook, result>>

\* Refused, or connectCtx is done.
ConnectFails ==
    /\ pc = "dial"
    /\ result' = "error"
    /\ pc' = "return"
    /\ UNCHANGED <<config, world, auth, link>>

\* Mutation: the handshake is left to itself.
ArmNothing ==
    /\ pc = "arm"
    /\ pc' = "kex"
    /\ UNCHANGED <<config, world, auth, link, result>>

Arm ==
    /\ pc = "arm"
    /\ hook' = "armed"
    /\ pc' = "kex"
    /\ UNCHANGED <<config, world, auth, sock, ctx, result>>

-----------------------------------------------------------------------------
(* ssh.NewClientConn: external                                             *)

Concludes(r) == result' = r /\ pc' = "stop"

\* The key exchange; then "none" is tried first, and may be enough.
Exchange ==
    /\ pc = "kex" /\ sock = "open"
    /\ \/ Concludes("client")
       \/ pc' = "choose" /\ UNCHANGED result
    /\ UNCHANGED <<config, world, auth, link>>

Candidates == {s \in methods : Name(s) \in advertised \ tried}

Choose(s) ==
    /\ pc = "choose"
    /\ s \in Candidates /\ \A r \in Candidates : Rank[s] <= Rank[r]
    /\ source' = s
    /\ left' = IF s \in {"key", "home"} THEN creds[s] ELSE {}
    /\ shown' = IF s = "password" THEN shown \cup {<<s, Secret>>} ELSE shown
    /\ pc' = CASE s = "agent" -> "list" [] s = "password" -> "answer" [] OTHER -> "offer"
    /\ UNCHANGED <<config, world, tried, cause, link, result>>

NoMethodLeft ==
    /\ pc = "choose"
    /\ Candidates = {}
    /\ cause' = IF cause = "none" THEN "exhausted" ELSE cause
    /\ Concludes("error")
    /\ UNCHANGED <<config, world, tried, source, left, shown, link>>

\* The source in use has failed, and its method name with it.
MethodFails ==
    /\ tried' = tried \cup {Name(source)}
    /\ pc' = "choose"
    /\ UNCHANGED <<config, world, source, left, shown, cause, link, result>>

\* The source in use returned an error, which the handshake remembers.
MethodErrs ==
    /\ tried' = tried \cup {Name(source)}
    /\ cause' = "agent"
    /\ pc' = "choose"
    /\ UNCHANGED <<config, world, source, left, shown, link, result>>

Offer(k) ==
    /\ pc = "offer"
    /\ k \in left
    /\ left' = left \ {k}
    /\ shown' = shown \cup {<<source, k>>}
    /\ pc' = "ack"
    /\ UNCHANGED <<config, world, tried, source, cause, link, result>>

NoKeyLeft == pc = "offer" /\ left = {} /\ MethodFails

Acknowledged ==
    /\ pc = "ack" /\ sock = "open"
    /\ pc' = "sign"
    /\ UNCHANGED <<config, world, auth, link, result>>

\* Mutation: the first key the server does not take is the last one tried.
NotAcknowledgedEnds ==
    /\ pc = "ack" /\ sock = "open"
    /\ MethodFails

NotAcknowledged ==
    /\ pc = "ack" /\ sock = "open"
    /\ pc' = "offer"
    /\ UNCHANGED <<config, world, auth, link, result>>

\* A configured key and a home key are in memory.
Sign ==
    /\ pc = "sign" /\ source # "agent"
    /\ pc' = "answer"
    /\ UNCHANGED <<config, world, auth, link, result>>

Accepted ==
    /\ pc = "answer" /\ sock = "open"
    /\ Concludes("client")
    /\ UNCHANGED <<config, world, auth, link>>

Rejected ==
    /\ pc = "answer" /\ sock = "open"
    /\ IF source = "password"
       THEN MethodFails
       ELSE pc' = "offer" /\ UNCHANGED <<config, world, auth, link, result>>

\* A read fails: the hook has closed the transport, or the server has.
TransportFails ==
    /\ pc \in {"kex", "ack", "answer"}
    /\ Concludes("error")
    /\ UNCHANGED <<config, world, auth, link>>

-----------------------------------------------------------------------------
(* agentKeys and agentSigner: every call is a connection of its own, and   *)
(* has no timeout.                                                         *)

List ==
    /\ pc = "list" /\ agent = "serving"
    /\ \E held \in SUBSET Keys :
          /\ left' = held
          /\ creds' = [creds EXCEPT !["agent"] = held]
    /\ pc' = "offer"
    /\ UNCHANGED <<sshKey, methods, world, tried, source, shown, cause, link, result>>

ListFails == pc = "list" /\ agent # "silent" /\ MethodErrs

AgentSigns ==
    /\ pc = "sign" /\ source = "agent" /\ agent = "serving"
    /\ pc' = "answer"
    /\ UNCHANGED <<config, world, auth, link, result>>

\* Gone, locked, or it "dropped the key it offered".
AgentSignFails == pc = "sign" /\ source = "agent" /\ agent # "silent" /\ MethodErrs

-----------------------------------------------------------------------------
(* dialSSH, after the handshake                                            *)

\* Mutation: stopClose is not called.
StopNothing ==
    /\ pc = "stop"
    /\ pc' = "check"
    /\ UNCHANGED <<config, world, auth, link, result>>

\* stopClose() wins, or its goroutine is waited for.
StopClose ==
    /\ pc = "stop"
    /\ hook \in {"armed", "done"}
    /\ hook' = IF hook = "armed" THEN "stopped" ELSE hook
    /\ pc' = "check"
    /\ UNCHANGED <<config, world, auth, sock, ctx, result>>

\* The context is looked at before the error.
Check ==
    /\ pc = "check"
    /\ IF ctx = "done" \/ result = "error"
       THEN sock' = "closed" /\ result' = "error"
       ELSE UNCHANGED <<sock, result>>
    /\ pc' = "return"
    /\ UNCHANGED <<config, world, auth, ctx, hook>>

\* The deferred cancel() ends connectCtx, also behind a client.
Return ==
    /\ pc = "return"
    /\ ctx' = "done"
    /\ pc' = "returned"
    /\ UNCHANGED <<config, world, auth, sock, hook, result>>

HookFires ==
    /\ hook = "armed" /\ ctx = "done"
    /\ hook' = "running"
    /\ UNCHANGED <<config, world, auth, sock, ctx, pc, result>>

HookCloses ==
    /\ hook = "running"
    /\ sock' = "closed"
    /\ hook' = "done"
    /\ UNCHANGED <<config, world, auth, ctx, pc, result>>

-----------------------------------------------------------------------------
(* The outside                                                             *)

\* dialTimeout has passed, or the tunnel's context is cancelled.
ContextEnds ==
    /\ ctx = "live" /\ pc \notin {"config", "returned"}
    /\ ctx' = "done"
    /\ UNCHANGED <<config, world, auth, sock, hook, pc, result>>

\* The agent ends, is started again, or hangs.
AgentChanges ==
    /\ agent # "silent"
    /\ agent' \in {"serving", "gone", "silent"} \ {agent}
    /\ UNCHANGED <<config, advertised, auth, link, pc, result>>

Agent == List \/ ListFails \/ AgentSigns \/ AgentSignFails

Handshake ==
    \/ Exchange \/ NoMethodLeft \/ NoKeyLeft \/ Sign \/ Agent
    \/ \E s \in Sources : Choose(s)
    \/ \E k \in Keys : Offer(k)
    \/ Acknowledged \/ NotAcknowledged \/ Accepted \/ Rejected \/ TransportFails

DialNext ==
    \/ ConfigFails \/ Configure
    \/ Connect \/ ConnectFails \/ Arm \/ Handshake \/ StopClose \/ Check \/ Return
    \/ HookFires \/ HookCloses \/ ContextEnds \/ AgentChanges

\* What this process does by itself it does, the timeout passes, and an agent
\* that is not hung answers.  The server need not: a read ends when the
\* transport has been closed.
DialFairness ==
    /\ WF_dialVars(ctx = "done" /\ ConnectFails) /\ WF_dialVars(Arm)
    /\ WF_dialVars(sock = "closed" /\ TransportFails)
    /\ WF_dialVars(NoMethodLeft \/ NoKeyLeft \/ Sign \/ \E s \in Sources : Choose(s))
    /\ WF_dialVars(\E k \in Keys : Offer(k))
    /\ WF_dialVars(Agent)
    /\ WF_dialVars(StopClose) /\ WF_dialVars(Check) /\ WF_dialVars(Return)
    /\ WF_dialVars(HookFires) /\ WF_dialVars(HookCloses) /\ WF_dialVars(ContextEnds)

DialSpec == DialInit /\ [][DialNext]_dialVars
FairDialSpec == DialSpec /\ DialFairness

-----------------------------------------------------------------------------
(* Properties                                                              *)

\* A client that is returned is usable and stays so: neither the timeout that
\* fires while NewClientConn returns nor the deferred cancel() (client.go:23)
\* closes the transport under it.  A dial that fails leaves no transport open.
OutcomeIsClean ==
    pc = "returned" =>
        IF result = "client" THEN sock = "open" /\ hook = "stopped"
                             ELSE sock # "open" /\ hook # "armed"

\* Keys found in ~/.ssh or in an agent are never shown to a bastion for which
\* credentials are configured, not even after those have failed (auth.go:56);
\* and what is shown comes from where it is said to come from.
OnlyConfiguredShown ==
    \A s \in Sources, c \in Keys \cup {Secret} : <<s, c>> \in shown =>
        /\ c \in creds[s]
        /\ s \in Explicit \/ \A r \in Explicit : creds[r] = {}

\* An authentication that fails for want of another method has shown the
\* server every credential it may have taken.  The exception is the code's:
\* home keys and agent keys have one method name, "publickey", and only the
\* first source of a name is tried, so with a usable key in ~/.ssh the agent's
\* keys are never offered (auth.go:60-65).
EveryCredentialShown ==
    cause = "exhausted" => \A s \in methods : Name(s) \in advertised =>
        \/ \A c \in creds[s] : <<s, c>> \in shown
        \/ s = "agent" /\ "home" \in methods

\* "closing the transport unblocks it" (client.go:30): dialSSH returns, with a
\* server that falls silent at any point of the handshake.  Not with an agent
\* that does: its connections are outside the context.
DialEnds == pc = "dial" ~> (pc = "returned" \/ agent = "silent")
=============================================================================
