------------------------- MODULE BastionSessionProof -------------------------
(***************************************************************************)
(* Proofs about BastionSession, for any handlers, closers and nodes.       *)
(***************************************************************************)
EXTENDS BastionSession, TLAPS

\* The lock discipline: who is inside is who holds the mutex.
Locks ==
    /\ \A h \in Handlers : pc[h] = "asking" <=> credMu = h
    /\ \A h \in Handlers : pc[h] = "post" <=> mu = h

\* What a handler has done so far, by where it is.
Progress ==
    \A h \in Handlers :
        /\ pc[h] \in {"credential", "asking", "negotiate"} =>
              /\ request[h] = "none"
              /\ uses[h] = None
        /\ pc[h] \in {"dial", "open"} => Succeeded(h)
        /\ Succeeded(h) => /\ pc[h] \in {"dial", "open", "failed"}
                           /\ request[h] = "served"
                           /\ reply[h] = origin[h]
        /\ dialled[h] # None => Succeeded(h) /\ dialled[h] = reply[h]

\* Every token in use anywhere was got by a successful negotiation.
Tokens ==
    /\ auth # None => Succeeded(auth) /\ node = origin[auth]
    /\ \A h \in Handlers : uses[h] # None => Succeeded(uses[h])
    /\ \A k \in Closers : taken[k].token # None => Succeeded(taken[k].token)

\* The client's own token was consumed by nobody but the request in progress.
Chain ==
    /\ \A h \in Handlers : pc[h] = "post" => uses[h] = auth
    /\ \A h \in Handlers : Succeeded(h) /\ uses[h] # None => uses[h] # auth

\* What close has taken is gone from the client.
Detached ==
    \A k \in Closers :
        /\ closer[k] \in {"idle", "called"} => taken[k].token = None
        /\ taken[k].token # None => taken[k].token # auth

\* What the data plane keeps of the tokens that were ever issued.
Plane ==
    /\ \A h \in Handlers : request[h] = "served" => origin[h] \in Nodes
    /\ \A t \in live : request[t] = "served"
    /\ \A h \in Handlers : request[h] = "served" /\ uses[h] # None => uses[h] \notin live
    /\ \A t \in live : Succeeded(t) =>
          \/ t = auth
          \/ \E k \in Closers : closer[k] \in {"delete", "failed"} /\ taken[k].token = t

\* The credential gave the cached token and those that expired.
Credential ==
    /\ \A h \in Handlers : pc[h] = "asking" => ~cached
    /\ obtained = expiries + (IF cached THEN 1 ELSE 0)

IInv == TypeOK /\ Locks /\ Progress /\ Tokens /\ Chain /\ TokensAreChained
        /\ NodesMatch /\ Detached /\ DeletedOnce /\ Plane /\ Credential
-----------------------------------------------------------------------------
(* Step by step.                                                           *)

\* Every step keeps the state well typed.
LEMMA TypeStep == TypeOK /\ [Next]_vars => TypeOK'
<1> SUFFICES ASSUME TypeOK, [Next]_vars PROVE TypeOK'
  OBVIOUS
<1> USE ConstantsAssumption DEF TypeOK, Goto, credVars, stateVars, openVars,
      planeVars, closeVars
<1>1. ASSUME NEW h \in Handlers, CredentialCached(h) PROVE TypeOK'
  BY <1>1 DEF CredentialCached
<1>2. ASSUME NEW h \in Handlers, CredentialAsk(h) PROVE TypeOK'
  BY <1>2 DEF CredentialAsk
<1>3. ASSUME NEW h \in Handlers, CredentialGiven(h) PROVE TypeOK'
  BY <1>3 DEF CredentialGiven
<1>4. ASSUME NEW h \in Handlers, CredentialRefused(h) PROVE TypeOK'
  BY <1>4 DEF CredentialRefused
<1>5. ASSUME NEW h \in Handlers, Negotiate(h) PROVE TypeOK'
  BY <1>5 DEF Negotiate
<1>6. ASSUME NEW h \in Handlers, NegotiateOk(h) PROVE TypeOK'
  BY <1>6 DEF NegotiateOk
<1>7. ASSUME NEW h \in Handlers, NegotiateFails(h) PROVE TypeOK'
  BY <1>7 DEF NegotiateFails
<1>8. ASSUME NEW h \in Handlers, Dial(h) PROVE TypeOK'
  BY <1>8 DEF Dial
<1>9. ASSUME NEW h \in Handlers, Issue(h) PROVE TypeOK'
  BY <1>9 DEF Issue
<1>10. ASSUME NEW k \in Closers, CloseCall(k) PROVE TypeOK'
  BY <1>10 DEF CloseCall
<1>11. ASSUME NEW k \in Closers, Detach(k) PROVE TypeOK'
  BY <1>11 DEF Detach
<1>12. ASSUME NEW k \in Closers, Delete(k) PROVE TypeOK'
  BY <1>12 DEF Delete
<1>13. ASSUME NEW k \in Closers, DeleteFails(k) PROVE TypeOK'
  BY <1>13 DEF DeleteFails
<1>14. CASE Expire
  <2>1. expiries' \in 0..MaxExpiries
    BY <1>14, expiries \in 0..MaxExpiries, expiries < MaxExpiries, expiries' = expiries + 1 DEF Expire
  <2> QED
    BY <1>14, <2>1 DEF Expire
<1>15. CASE Cancel
  BY <1>15 DEF Cancel
<1>16. CASE UNCHANGED vars
  BY <1>16 DEF vars
<1> QED
  BY <1>1, <1>2, <1>3, <1>4, <1>5, <1>6, <1>7, <1>8, <1>9, <1>10, <1>11,
     <1>12, <1>13, <1>14, <1>15, <1>16 DEF Next, Open, AccessToken,
     CloseSession

\* Every step keeps the inductive invariant.
LEMMA InvariantStep == IInv /\ [Next]_vars => IInv'
<1> SUFFICES ASSUME IInv, [Next]_vars PROVE IInv'
  OBVIOUS
<1> USE ConstantsAssumption DEF IInv, Goto, Succeeded, Failed, credVars, stateVars,
      openVars, planeVars, closeVars
<1>a. TypeOK /\ TypeOK'
  BY TypeStep
<1>1. ASSUME NEW h \in Handlers, CredentialCached(h) PROVE IInv'
  <2>1. Locks'
    BY <1>1 DEF CredentialCached, Locks
  <2>2. Progress'
    BY <1>1 DEF CredentialCached, Progress
  <2>3. Chain'
    BY <1>1 DEF CredentialCached, Chain
  <2>4. TokensAreChained'
    BY <1>1 DEF CredentialCached, TokensAreChained
  <2>5. Credential'
    BY <1>1 DEF CredentialCached, Credential
  <2> QED
    BY <1>a, <1>1, <2>1, <2>2, <2>3, <2>4, <2>5 DEF CredentialCached, Tokens,
       NodesMatch, Detached, DeletedOnce, Plane
<1>2. ASSUME NEW h \in Handlers, CredentialAsk(h) PROVE IInv'
  <2>1. Locks'
    BY <1>a, <1>2 DEF CredentialAsk, Locks, TypeOK
  <2>2. Progress'
    BY <1>2 DEF CredentialAsk, Progress
  <2>3. Chain'
    BY <1>2 DEF CredentialAsk, Chain
  <2>4. TokensAreChained'
    BY <1>2 DEF CredentialAsk, TokensAreChained
  <2>5. Credential'
    BY <1>2 DEF CredentialAsk, Credential
  <2> QED
    BY <1>a, <1>2, <2>1, <2>2, <2>3, <2>4, <2>5 DEF CredentialAsk, Tokens,
       NodesMatch, Detached, DeletedOnce, Plane
<1>3. ASSUME NEW h \in Handlers, CredentialGiven(h) PROVE IInv'
  <2>1. Locks'
    BY <1>a, <1>3 DEF CredentialGiven, Locks, TypeOK
  <2>2. Progress'
    BY <1>3 DEF CredentialGiven, Progress
  <2>3. Chain'
    BY <1>3 DEF CredentialGiven, Chain
  <2>4. TokensAreChained'
    BY <1>3 DEF CredentialGiven, TokensAreChained
  <2>5. Credential'
    BY <1>a, <1>3 DEF CredentialGiven, Locks, Credential, TypeOK
  <2> QED
    BY <1>a, <1>3, <2>1, <2>2, <2>3, <2>4, <2>5 DEF CredentialGiven, Tokens,
       NodesMatch, Detached, DeletedOnce, Plane
<1>4. ASSUME NEW h \in Handlers, CredentialRefused(h) PROVE IInv'
  <2>1. Locks'
    BY <1>a, <1>4 DEF CredentialRefused, Locks, TypeOK
  <2>2. Progress'
    BY <1>4 DEF CredentialRefused, Progress
  <2>3. Chain'
    BY <1>4 DEF CredentialRefused, Chain
  <2>4. TokensAreChained'
    BY <1>4 DEF CredentialRefused, TokensAreChained
  <2>5. Credential'
    BY <1>4 DEF CredentialRefused, Credential
  <2> QED
    BY <1>a, <1>4, <2>1, <2>2, <2>3, <2>4, <2>5 DEF CredentialRefused, Tokens,
       NodesMatch, Detached, DeletedOnce, Plane
<1>5. ASSUME NEW h \in Handlers, Negotiate(h) PROVE IInv'
  <2>1. Locks'
    BY <1>a, <1>5 DEF Negotiate, Locks, TypeOK
  <2>2. Progress'
    BY <1>a, <1>5 DEF Negotiate, Progress, TypeOK
  <2>3. Tokens'
    BY <1>5 DEF Negotiate, Tokens
  <2>4. Chain'
    BY <1>a, <1>5 DEF Negotiate, Progress, Chain, TypeOK
  <2>5. TokensAreChained'
    BY <1>a, <1>5 DEF Negotiate, Locks, Progress, Tokens, Chain,
       TokensAreChained, TypeOK
  <2>6. NodesMatch'
    BY <1>a, <1>5 DEF Negotiate, Tokens, NodesMatch, TypeOK
  <2>7. Plane'
    BY <1>5 DEF Negotiate, Progress, Plane
  <2>8. Credential'
    BY <1>5 DEF Negotiate, Credential
  <2> QED
    BY <1>a, <1>5, <2>1, <2>2, <2>3, <2>4, <2>5, <2>6, <2>7, <2>8 DEF
       Negotiate, Detached, DeletedOnce
<1>6. ASSUME NEW h \in Handlers, NegotiateOk(h) PROVE IInv'
  <2>1. Locks'
    BY <1>a, <1>6 DEF NegotiateOk, Locks, TypeOK
  <2>2. Progress'
    BY <1>a, <1>6 DEF NegotiateOk, Plane, Progress, TypeOK
  <2>3. Tokens'
    BY <1>a, <1>6 DEF NegotiateOk, Plane, Tokens, TypeOK
  <2>4. Chain'
    BY <1>a, <1>6 DEF NegotiateOk, Locks, Progress, Tokens, Chain, TypeOK
  <2>5. TokensAreChained'
    BY <1>6 DEF NegotiateOk, TokensAreChained
  <2>6. Detached'
    BY <1>6 DEF NegotiateOk, Progress, Tokens, Detached
  <2>7. Plane'
    BY <1>a, <1>6 DEF NegotiateOk, Chain, Plane, TypeOK
  <2>8. Credential'
    BY <1>6 DEF NegotiateOk, Credential
  <2> QED
    BY <1>a, <1>6, <2>1, <2>2, <2>3, <2>4, <2>5, <2>6, <2>7, <2>8 DEF
       NegotiateOk, NodesMatch, DeletedOnce
<1>7. ASSUME NEW h \in Handlers, NegotiateFails(h) PROVE IInv'
  <2>1. Locks'
    BY <1>a, <1>7 DEF NegotiateFails, Locks, TypeOK
  <2>2. Progress'
    BY <1>7 DEF NegotiateFails, Progress
  <2>3. Chain'
    BY <1>7 DEF NegotiateFails, Chain
  <2>4. TokensAreChained'
    BY <1>7 DEF NegotiateFails, TokensAreChained
  <2>5. Credential'
    BY <1>7 DEF NegotiateFails, Credential
  <2> QED
    BY <1>a, <1>7, <2>1, <2>2, <2>3, <2>4, <2>5 DEF NegotiateFails, Tokens,
       NodesMatch, Detached, DeletedOnce, Plane
<1>8. ASSUME NEW h \in Handlers, Dial(h) PROVE IInv'
  <2>1. Locks'
    BY <1>8 DEF Dial, Locks
  <2>2. Progress'
    BY <1>8 DEF Dial, Progress
  <2>3. Chain'
    BY <1>8 DEF Dial, Chain
  <2>4. TokensAreChained'
    BY <1>8 DEF Dial, TokensAreChained
  <2>5. NodesMatch'
    BY <1>8 DEF Dial, Progress, NodesMatch
  <2>6. Credential'
    BY <1>8 DEF Dial, Credential
  <2> QED
    BY <1>a, <1>8, <2>1, <2>2, <2>3, <2>4, <2>5, <2>6 DEF Dial, Tokens,
       Detached, DeletedOnce, Plane
<1>9. ASSUME NEW h \in Handlers, Issue(h) PROVE IInv'
  <2>1. Progress'
    BY <1>9 DEF Issue, Progress
  <2>2. Tokens'
    BY <1>9 DEF Issue, Progress, Tokens
  <2>3. NodesMatch'
    BY <1>9 DEF Issue, Progress, Tokens, NodesMatch
  <2>4. Plane'
    BY <1>a, <1>9 DEF Issue, Progress, Tokens, Plane, TypeOK
  <2> QED
    BY <1>a, <1>9, <2>1, <2>2, <2>3, <2>4 DEF Issue, Locks, Chain,
       TokensAreChained, Detached, DeletedOnce, Credential
<1>10. ASSUME NEW k \in Closers, CloseCall(k) PROVE IInv'
  <2>1. Detached'
    BY <1>10 DEF CloseCall, Detached
  <2>2. Plane'
    BY <1>10 DEF CloseCall, Plane
  <2> QED
    BY <1>a, <1>10, <2>1, <2>2 DEF CloseCall, Locks, Progress, Tokens, Chain,
       TokensAreChained, NodesMatch, DeletedOnce, Credential
<1>11. ASSUME NEW k \in Closers, Detach(k) PROVE IInv'
  <2>1. Tokens'
    BY <1>11 DEF Detach, Tokens
  <2>2. Chain'
    BY <1>11 DEF Detach, Locks, Chain
  <2>3. NodesMatch'
    BY <1>11 DEF Detach, Tokens, NodesMatch
  <2>4. Detached'
    BY <1>a, <1>11 DEF Detach, Detached, TypeOK
  <2>5. DeletedOnce'
    BY <1>11 DEF Detach, Detached, DeletedOnce
  <2>6. Plane'
    BY <1>a, <1>11 DEF Detach, Plane, TypeOK
  <2> QED
    BY <1>a, <1>11, <2>1, <2>2, <2>3, <2>4, <2>5, <2>6 DEF Detach, Locks,
       Progress, TokensAreChained, Credential
<1>12. ASSUME NEW k \in Closers, Delete(k) PROVE IInv'
  <2>1. Detached'
    BY <1>12 DEF Delete, Detached
  <2>2. Plane'
    BY <1>12 DEF Delete, Plane
  <2> QED
    BY <1>a, <1>12, <2>1, <2>2 DEF Delete, Locks, Progress, Tokens, Chain,
       TokensAreChained, NodesMatch, DeletedOnce, Credential
<1>13. ASSUME NEW k \in Closers, DeleteFails(k) PROVE IInv'
  <2>1. Detached'
    BY <1>13 DEF DeleteFails, Detached
  <2>2. Plane'
    BY <1>13 DEF DeleteFails, Plane
  <2> QED
    BY <1>a, <1>13, <2>1, <2>2 DEF DeleteFails, Locks, Progress, Tokens,
       Chain, TokensAreChained, NodesMatch, DeletedOnce, Credential
<1>14. CASE Expire
  <2>1. Credential'
    BY <1>14 DEF Expire, Credential
  <2> QED
    BY <1>a, <1>14, <2>1 DEF Expire, Locks, Progress, Tokens, Chain,
       TokensAreChained, NodesMatch, Detached, DeletedOnce, Plane
<1>15. CASE Cancel
  BY <1>a, <1>15 DEF Cancel, Locks, Progress, Tokens, Chain, TokensAreChained,
     NodesMatch, Detached, DeletedOnce, Plane, Credential
<1>16. CASE UNCHANGED vars
  BY <1>16 DEF vars, TypeOK, Locks, Progress, Tokens, Chain, TokensAreChained,
     NodesMatch, Detached, DeletedOnce, Plane, Credential
<1> QED
  BY <1>1, <1>2, <1>3, <1>4, <1>5, <1>6, <1>7, <1>8, <1>9, <1>10, <1>11,
     <1>12, <1>13, <1>14, <1>15, <1>16 DEF Next, Open, AccessToken,
     CloseSession

-----------------------------------------------------------------------------
(* Theorems                                                                *)

\* A new session client has no token, and nobody has used it.
LEMMA InvariantInit == Init => IInv
<1> SUFFICES ASSUME Init PROVE IInv
  OBVIOUS
<1> USE ConstantsAssumption DEF Init, Nothing, Succeeded, Failed
<1>1. TypeOK
  <2>1. 0 \in Nat /\ 0 \in 0..MaxExpiries
    OBVIOUS
  <2> QED
    BY <2>1 DEF TypeOK
<1>2. Locks /\ Progress /\ Tokens /\ Chain
  BY DEF Locks, Progress, Tokens, Chain
<1>3. TokensAreChained /\ NodesMatch /\ Detached /\ DeletedOnce
  BY DEF TokensAreChained, NodesMatch, Detached, DeletedOnce
<1>4. Plane /\ Credential
  BY DEF Plane, Credential
<1> QED
  BY <1>1, <1>2, <1>3, <1>4 DEF IInv

\* The inductive invariant holds throughout, however opens, closes, failures
\* and late responses overlap.
THEOREM Invariance == Spec => []IInv
<1>1. Init => IInv
  BY InvariantInit
<1>2. IInv /\ [Next]_vars => IInv'
  BY InvariantStep
<1> QED
  BY <1>1, <1>2, PTL DEF Spec

\* The fields and the histories keep their types.
THEOREM TypeCorrect == Spec => []TypeOK
<1>1. IInv => TypeOK
  BY DEF IInv
<1> QED
  BY <1>1, Invariance, PTL

\* Request and update are atomic: no token is presented twice unless a request
\* with it failed.
THEOREM NegotiationIsAtomic == Spec => []TokensAreChained
<1>1. IInv => TokensAreChained
  BY DEF IInv
<1> QED
  BY <1>1, Invariance, PTL

\* Requests, dials and deletes go to the node that issued the token.
THEOREM NodesAgree == Spec => []NodesMatch
<1>1. IInv => NodesMatch
  BY DEF IInv
<1> QED
  BY <1>1, Invariance, PTL

\* close never takes a token a second time.
THEOREM CloseIsIdempotent == Spec => []DeletedOnce
<1>1. IInv => DeletedOnce
  BY DEF IInv
<1> QED
  BY <1>1, Invariance, PTL

\* The credential is asked once per expiry.
THEOREM CredentialAskedOnce == Spec => []CredentialIsShared
<1>1. IInv => CredentialIsShared
  BY SMT DEF IInv, TypeOK, Credential, CredentialIsShared
<1> QED
  BY <1>1, Invariance, PTL

\* A session the data plane keeps is the client's, a request's or a close's,
\* or the request or the DELETE for it failed.
THEOREM SessionsAccountedFor == Spec => []SessionsAreAnswered
<1>1. IInv => SessionsAreAnswered
  <2> SUFFICES ASSUME IInv, NEW t \in live, t \notin Answered
               PROVE  Failed(t) \/ \E k \in Closers : closer[k] = "failed"
                                                      /\ taken[k].token = t
    BY DEF SessionsAreAnswered
  <2>1. t \in Handlers /\ t # auth /\ pc[t] # "post"
    BY DEF IInv, TypeOK, Answered
  <2>2. \A k \in Closers : closer[k] = "delete" => taken[k].token # t
    BY DEF Answered
  <2>3. CASE Succeeded(t)
    BY <2>1, <2>2, <2>3 DEF IInv, Plane
  <2>4. CASE ~Succeeded(t)
    <3>1. request[t] = "served"
      BY DEF IInv, Plane
    <3>2. pc[t] = "failed"
      BY <2>1, <2>4, <3>1 DEF IInv, TypeOK, Progress
    <3> QED
      BY <2>4, <3>2 DEF Failed
  <2> QED
    BY <2>3, <2>4
<1> QED
  BY <1>1, Invariance, PTL
=============================================================================
