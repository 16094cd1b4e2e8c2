--------------------------- MODULE BastionSession ---------------------------
(***************************************************************************)
(* sessionClient (internal/azurebastion/session.go): the handlers of one   *)
(* Azure Bastion tunnel open WebSockets on one data-plane session, whose   *)
(* continuation token every negotiation replaces.  Two mutexes, credMu and *)
(* mu, are held across calls to the outside: Azure AD and the data plane.  *)
(*                                                                         *)
(* A handler opens once, so it names its negotiation, the request it sends *)
(* and the token it is issued.  The data plane is external and modelled    *)
(* only as far as the code relies on it: a continued session's old token   *)
(* is spent.                                                               *)
(***************************************************************************)
EXTENDS Naturals

CONSTANTS
    Handlers,       \* the goroutines that call open
    Closers,        \* the calls of close
    Nodes,          \* the data plane's nodes (X-Node-Id)
    None,           \* no token, no node, nobody
    MaxExpiries     \* bound: how often the cached credential expires

ASSUME ConstantsAssumption == None \notin Handlers \cup Nodes /\ MaxExpiries \in Nat

VARIABLES
    cached,     \* cachedToken is good for more than tokenRefreshWindow
    credMu,     \* who holds credMu
    obtained,   \* how many tokens the credential has given (history)
    expiries,   \* how often cachedToken came to expire (history)
    auth,       \* authToken
    node,       \* nodeID
    mu,         \* who holds mu
    pc,         \* pc[h]: where open is
    uses,       \* uses[h]: the token h's request carries
    reqNode,    \* reqNode[h]: the node it is addressed to
    reply,      \* reply[h]: the NodeID of the response h got
    dialled,    \* dialled[h]: the node h dialled its WebSocket at
    request,    \* request[h]: h's request on its way: "none", "sent", "served"
    origin,     \* origin[h]: the node that issued h's token
    live,       \* the tokens the data plane would continue or delete
    closer,     \* closer[k]: where close is
    taken,      \* taken[k]: the token and the node close detached
    cancelled   \* the tunnel's context is done

credVars == <<cached, credMu, obtained, expiries>>
stateVars == <<auth, node, mu>>
openVars == <<pc, uses, reqNode, reply, dialled>>
planeVars == <<request, origin, live>>
closeVars == <<closer, taken>>
vars == <<credVars, stateVars, openVars, planeVars, closeVars, cancelled>>

Nothing == [token |-> None, at |-> None]

Init ==
    /\ cached = FALSE /\ credMu = None /\ obtained = 0 /\ expiries = 0
    /\ auth = None /\ node = None /\ mu = None
    /\ pc = [h \in Handlers |-> "credential"]
    /\ uses = [h \in Handlers |-> None]
    /\ reqNode = [h \in Handlers |-> None]
    /\ reply = [h \in Handlers |-> None]
    /\ dialled = [h \in Handlers |-> None]
    /\ request = [h \in Handlers |-> "none"]
    /\ origin = [h \in Handlers |-> None]
    /\ live = {}
    /\ closer = [k \in Closers |-> "idle"]
    /\ taken = [k \in Closers |-> Nothing]
    /\ cancelled = FALSE

Goto(h, l) == pc' = [pc EXCEPT ![h] = l]
Returned(h) == pc[h] \in {"open", "failed"}

\* h's negotiation succeeded; it failed.  The WebSocket may still fail later.
Succeeded(h) == reply[h] # None
Failed(h) == pc[h] = "failed" /\ ~Succeeded(h)

-----------------------------------------------------------------------------
(* accessToken                                                             *)

\* Under credMu the cached token is still good.
CredentialCached(h) ==
    /\ pc[h] = "credential" /\ credMu = None
    /\ cached
    /\ Goto(h, "negotiate")
    /\ UNCHANGED <<credVars, stateVars, uses, reqNode, reply, dialled, planeVars,
                   closeVars, cancelled>>

\* Mutation: credMu does not cover the call.
CredentialAskUnlocked(h) ==
    /\ pc[h] = "credential"
    /\ ~cached
    /\ Goto(h, "asking")
    /\ UNCHANGED <<credVars, stateVars, uses, reqNode, reply, dialled, planeVars,
                   closeVars, cancelled>>

CredentialAsk(h) ==
    /\ pc[h] = "credential" /\ credMu = None
    /\ ~cached
    /\ credMu' = h
    /\ Goto(h, "asking")
    /\ UNCHANGED <<cached, obtained, expiries, stateVars, uses, reqNode, reply,
                   dialled, planeVars, closeVars, cancelled>>

CredentialGiven(h) ==
    /\ pc[h] = "asking"
    /\ cached' = TRUE
    /\ obtained' = obtained + 1
    /\ credMu' = None
    /\ Goto(h, "negotiate")
    /\ UNCHANGED <<expiries, stateVars, uses, reqNode, reply, dialled, planeVars,
                   closeVars, cancelled>>

CredentialRefused(h) ==
    /\ pc[h] = "asking"
    /\ credMu' = None
    /\ Goto(h, "failed")
    /\ UNCHANGED <<cached, obtained, expiries, stateVars, uses, reqNode, reply,
                   dialled, planeVars, closeVars, cancelled>>

-----------------------------------------------------------------------------
(* negotiate                                                               *)

\* Mutation: the request is built before mu is taken.
NegotiateUnlocked(h) ==
    /\ pc[h] = "negotiate"
    /\ uses' = [uses EXCEPT ![h] = auth]
    /\ reqNode' = [reqNode EXCEPT ![h] = node]
    /\ request' = [request EXCEPT ![h] = "sent"]
    /\ Goto(h, "post")
    /\ UNCHANGED <<credVars, stateVars, reply, dialled, origin, live, closeVars,
                   cancelled>>

\* mu is taken, to be held until the response is in, and the request sent.
Negotiate(h) ==
    /\ pc[h] = "negotiate" /\ mu = None
    /\ mu' = h
    /\ uses' = [uses EXCEPT ![h] = auth]
    /\ reqNode' = [reqNode EXCEPT ![h] = node]
    /\ request' = [request EXCEPT ![h] = "sent"]
    /\ Goto(h, "post")
    /\ UNCHANGED <<credVars, auth, node, reply, dialled, origin, live, closeVars,
                   cancelled>>

\* A 200 with all three fields.
NegotiateOk(h) ==
    /\ pc[h] = "post" /\ request[h] = "served"
    /\ auth' = h
    /\ node' = origin[h]
    /\ reply' = [reply EXCEPT ![h] = origin[h]]
    /\ mu' = None
    /\ Goto(h, "dial")
    /\ UNCHANGED <<credVars, uses, reqNode, dialled, planeVars, closeVars, cancelled>>

\* Mutation: mu is unlocked on success only.
NegotiateFailsLocked(h) ==
    /\ pc[h] = "post"
    /\ Goto(h, "failed")
    /\ UNCHANGED <<credVars, stateVars, uses, reqNode, reply, dialled, planeVars,
                   closeVars, cancelled>>

\* Anything else: cancelled, timed out, refused, cut off, malformed.  The data
\* plane may have served the request, or may serve it yet; the state is kept.
NegotiateFails(h) ==
    /\ pc[h] = "post"
    /\ mu' = None
    /\ Goto(h, "failed")
    /\ UNCHANGED <<credVars, auth, node, uses, reqNode, reply, dialled, planeVars,
                   closeVars, cancelled>>

\* Mutation: the node is read off the client, not off h's own response.
DialAtShared(h) ==
    /\ pc[h] = "dial"
    /\ dialled' = [dialled EXCEPT ![h] = node]
    /\ \E l \in {"open", "failed"} : Goto(h, l)
    /\ UNCHANGED <<credVars, stateVars, uses, reqNode, reply, planeVars, closeVars,
                   cancelled>>

\* open dials the WebSocket, with no lock held.
Dial(h) ==
    /\ pc[h] = "dial"
    /\ dialled' = [dialled EXCEPT ![h] = reply[h]]
    /\ \E l \in {"open", "failed"} : Goto(h, l)
    /\ UNCHANGED <<credVars, stateVars, uses, reqNode, reply, planeVars, closeVars,
                   cancelled>>

-----------------------------------------------------------------------------
(* close                                                                   *)

CloseCall(k) ==
    /\ closer[k] = "idle"
    /\ closer' = [closer EXCEPT ![k] = "called"]
    /\ UNCHANGED <<credVars, stateVars, openVars, planeVars, taken, cancelled>>

\* Mutation: the token is read, not detached.
DetachNothing(k) ==
    /\ closer[k] = "called" /\ mu = None
    /\ taken' = [taken EXCEPT ![k] = [token |-> auth, at |-> node]]
    /\ closer' = [closer EXCEPT ![k] = IF auth = None THEN "closed" ELSE "delete"]
    /\ UNCHANGED <<credVars, stateVars, openVars, planeVars, cancelled>>

Detach(k) ==
    /\ closer[k] = "called" /\ mu = None
    /\ taken' = [taken EXCEPT ![k] = [token |-> auth, at |-> node]]
    /\ closer' = [closer EXCEPT ![k] = IF auth = None THEN "closed" ELSE "delete"]
    /\ auth' = None /\ node' = None
    /\ UNCHANGED <<credVars, mu, openVars, planeVars, cancelled>>

\* Mutation: the client's token is deleted, not the one detached.
DeleteCurrent(k) ==
    /\ closer[k] = "delete"
    /\ live' = live \ {auth}
    /\ closer' = [closer EXCEPT ![k] = "closed"]
    /\ UNCHANGED <<credVars, stateVars, openVars, request, origin, taken, cancelled>>

\* deleteToken: 200, 204 or 404.
Delete(k) ==
    /\ closer[k] = "delete"
    /\ live' = live \ {taken[k].token}
    /\ closer' = [closer EXCEPT ![k] = "closed"]
    /\ UNCHANGED <<credVars, stateVars, openVars, request, origin, taken, cancelled>>

\* Refused, or unanswered within sessionCleanupTimeout; it is not retried.
DeleteFails(k) ==
    /\ closer[k] = "delete"
    /\ closer' = [closer EXCEPT ![k] = "failed"]
    /\ UNCHANGED <<credVars, stateVars, openVars, planeVars, taken, cancelled>>

-----------------------------------------------------------------------------
(* The outside                                                             *)

\* The data plane serves a request, at any time after it was sent: it goes on
\* with the session the request continues, or starts a new one.
Issue(h) ==
    /\ request[h] = "sent"
    /\ request' = [request EXCEPT ![h] = "served"]
    /\ live' = (live \ {uses[h]}) \cup {h}
    /\ \E n \in Nodes : origin' = [origin EXCEPT ![h] = n]
    /\ UNCHANGED <<credVars, stateVars, openVars, closeVars, cancelled>>

\* Less than tokenRefreshWindow is left of the cached token.
Expire ==
    /\ cached
    /\ expiries < MaxExpiries
    /\ cached' = FALSE
    /\ expiries' = expiries + 1
    /\ UNCHANGED <<credMu, obtained, stateVars, openVars, planeVars, closeVars,
                   cancelled>>

Cancel ==
    /\ ~cancelled
    /\ cancelled' = TRUE
    /\ UNCHANGED <<credVars, stateVars, openVars, planeVars, closeVars>>

AccessToken(h) ==
    \/ CredentialCached(h) \/ CredentialAsk(h)
    \/ CredentialGiven(h) \/ CredentialRefused(h)
Open(h) ==
    AccessToken(h) \/ Negotiate(h) \/ NegotiateOk(h) \/ NegotiateFails(h) \/ Dial(h)
CloseSession(k) == CloseCall(k) \/ Detach(k) \/ Delete(k) \/ DeleteFails(k)

Next ==
    \/ \E h \in Handlers : Open(h) \/ Issue(h)
    \/ \E k \in Closers : CloseSession(k)
    \/ Expire \/ Cancel

Spec == Init /\ [][Next]_vars

-----------------------------------------------------------------------------
(* Properties                                                              *)

\* Types, and the two mutexes are held by the handlers that are inside.
TypeOK ==
    /\ cached \in BOOLEAN /\ obtained \in Nat /\ expiries \in 0..MaxExpiries
    /\ auth \in Handlers \cup {None} /\ node \in Nodes \cup {None}
    /\ credMu \in Handlers \cup {None} /\ mu \in Handlers \cup {None}
    /\ pc \in [Handlers -> {"credential", "asking", "negotiate", "post", "dial",
                            "open", "failed"}]
    /\ uses \in [Handlers -> Handlers \cup {None}]
    /\ reqNode \in [Handlers -> Nodes \cup {None}]
    /\ reply \in [Handlers -> Nodes \cup {None}]
    /\ dialled \in [Handlers -> Nodes \cup {None}]
    /\ request \in [Handlers -> {"none", "sent", "served"}]
    /\ origin \in [Handlers -> Nodes \cup {None}]
    /\ live \subseteq Handlers
    /\ closer \in [Closers -> {"idle", "called", "delete", "closed", "failed"}]
    /\ taken \in [Closers -> [token : Handlers \cup {None}, at : Nodes \cup {None}]]
    /\ cancelled \in BOOLEAN

\* "Each negotiation consumes the previous token, so the request and update
\* are atomic" (session.go:183): two requests carry the same token only if one
\* of them failed, and none carries its own.
TokensAreChained ==
    \A h \in Handlers : uses[h] # None =>
        /\ \A g \in Handlers \ {h} :
              uses[g] = uses[h] => Failed(g) \/ Failed(h)
        /\ uses[h] # h

\* A token only means something to the node that issued it: requests, deletes
\* and WebSocket dials go there, although other handlers move nodeID on
\* between a response and the dial that follows it.
NodesMatch ==
    /\ \A h \in Handlers :
          /\ uses[h] # None => reqNode[h] = origin[uses[h]]
          /\ dialled[h] # None => dialled[h] = origin[h]
    /\ \A k \in Closers : taken[k].token # None => taken[k].at = origin[taken[k].token]

\* The sessions somebody still answers for: the client's own, those of the
\* requests under way, and those close is deleting.
Answered ==
    {auth} \cup {h \in Handlers : pc[h] = "post"}
           \cup {taken[k].token : k \in {k \in Closers : closer[k] = "delete"}}

\* No session is forgotten at the data plane except by a request, or a DELETE,
\* that failed: however opens and closes overlap.
SessionsAreAnswered ==
    \A t \in live : t \notin Answered =>
        \/ Failed(t)
        \/ \E k \in Closers : closer[k] = "failed" /\ taken[k].token = t

\* "close detaches the continuation token before deleting it to remain
\* idempotent" (session.go:236): no token is taken for deletion twice.
DeletedOnce ==
    \A j, k \in Closers : taken[j].token = taken[k].token /\ taken[j].token # None
        => j = k

\* "accessToken avoids invoking external credentials for every local
\* connection" (session.go:168): one token is obtained, and one more for each
\* that expired, however many handlers find the cache empty at once.
CredentialIsShared == obtained <= expiries + 1
=============================================================================
